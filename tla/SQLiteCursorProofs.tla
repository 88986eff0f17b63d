------------------------ MODULE SQLiteCursorProofs ------------------------
(***************************************************************************)
(* Proofs about SQLiteCursor: whatever the sizes of the rows and of the    *)
(* window, the window holds consecutive rows of the result, the required   *)
(* row is among them unless a row up to it is larger than a whole window,  *)
(* and the native loop returns what its comment says.                      *)
(***************************************************************************)
EXTENDS SQLiteCursor, SequenceTheorems, TLAPS

\* allocRow and put with the number of rows copied so far append a row: what
\* copyRowToWindow does with the index nativeExecuteForCursorWindow passes.
LEMMA PutAppends ==
  ASSUME NEW s \in Seq(Nat), NEW r \in Nat
  PROVE  [Append(s, None) EXCEPT ![Len(s) + 1] = r] = Append(s, r)
  <1> DEFINE u == [i \in 1 .. Len(s) + 1 |-> IF i = Len(s) + 1 THEN r ELSE s[i]]
  <1>1. [Append(s, None) EXCEPT ![Len(s) + 1] = r] = u
    <2> DEFINE a == Append(s, None)
    <2>1. a \in Seq(Nat \cup {None}) /\ DOMAIN a = 1 .. Len(s) + 1
      OBVIOUS
    <2>2. \A i \in 1 .. Len(s) : a[i] = s[i]
      OBVIOUS
    <2>3. [a EXCEPT ![Len(s) + 1] = r]
            = [i \in 1 .. Len(s) + 1 |-> IF i = Len(s) + 1 THEN r ELSE a[i]]
      <3> HIDE DEF a
      <3> QED  BY <2>1
    <2> QED  BY <2>2, <2>3
  <1>2. Append(s, r) = u
    <2>1. u \in Seq(Nat) /\ Len(u) = Len(s) + 1
      OBVIOUS
    <2>2. Append(s, r) \in Seq(Nat) /\ Len(Append(s, r)) = Len(s) + 1
      OBVIOUS
    <2>3. \A i \in 1 .. Len(s) + 1 : u[i] = Append(s, r)[i]
      OBVIOUS
    <2> QED  BY <2>1, <2>2, <2>3, SeqEqual
  <1> QED  BY <1>1, <1>2

\* Rows of the result have a size.
LEMMA SizeIsNat ==
  ASSUME result \in Seq(Sizes), Sizes \subseteq Nat, NEW r \in Nat, r < Len(result)
  PROVE  SizeOf(r) \in Nat
  <1>1. r + 1 \in 1 .. Len(result)
    OBVIOUS
  <1>2. result[r + 1] \in Sizes
    BY <1>1, ElementOfSeq
  <1> QED  BY <1>2 DEF SizeOf

\* A row that fits is appended to a window that starts with row iStart and goes
\* up to the current one.
LEMMA CopiedAppends ==
  ASSUME TypeOK, NEW w \in [start : Nat, rows : Seq(Nat), used : Nat], NEW iStart \in Nat,
         iStart + Len(w.rows) = fill.nRow, fill.nRow < Len(result)
  PROVE  /\ SizeOf(fill.nRow) \in Nat
         /\ Copied(w, iStart) \in [start : Nat, rows : Seq(Nat), used : Nat]
         /\ Copied(w, iStart).rows = Append(w.rows, fill.nRow)
         /\ Copied(w, iStart).used = w.used + SizeOf(fill.nRow)
         /\ Copied(w, iStart).start = w.start
  <1>1. fill.nRow \in Nat /\ result \in Seq(Sizes) /\ Sizes \subseteq Nat
    BY CursorAssumption DEF TypeOK
  <1>2. SizeOf(fill.nRow) \in Nat
    BY <1>1, SizeIsNat
  <1>3. fill.nRow - iStart = Len(w.rows)
    BY <1>1
  <1>4. Copied(w, iStart) = [w EXCEPT !.rows = Append(w.rows, fill.nRow),
                                     !.used = w.used + SizeOf(fill.nRow)]
    BY <1>1, <1>3, PutAppends DEF Copied, Put
  <1>5. Append(w.rows, fill.nRow) \in Seq(Nat) /\ w.used + SizeOf(fill.nRow) \in Nat
    BY <1>1, <1>2
  <1> QED  BY <1>4, <1>2, <1>5

-----------------------------------------------------------------------------
(* Every step preserves the invariant.                                     *)

Windows == [start : Nat, rows : Seq(Nat), used : Nat]
Fills == [required : Nat, countAllRows : BOOLEAN, nRow : Nat, bOk : BOOLEAN, iStart : Nat,
          then : {"idle", "move", "arrive"}]

\* What the loop's assignments leave of its variables.
LEMMA NextRowFields ==
  ASSUME fill \in Fills, NEW bOk \in BOOLEAN, NEW iStart \in Nat, NextRow(bOk, iStart)
  PROVE  /\ fill' \in Fills
         /\ fill'.required = fill.required /\ fill'.countAllRows = fill.countAllRows
         /\ fill'.then = fill.then
         /\ fill'.nRow = fill.nRow + 1 /\ fill'.bOk = bOk /\ fill'.iStart = iStart
  <1>1. fill.nRow + 1 \in Nat
    BY DEF Fills
  <1> DEFINE f == [fill EXCEPT !.nRow = fill.nRow + 1, !.bOk = bOk, !.iStart = iStart]
  <1>2. fill' = f
    BY DEF NextRow
  <1>3. f \in Fills
    BY <1>1 DEF Fills
  <1>4. /\ f.required = fill.required /\ f.countAllRows = fill.countAllRows
        /\ f.then = fill.then
    BY DEF Fills
  <1>5. f.nRow = fill.nRow + 1 /\ f.bOk = bOk /\ f.iStart = iStart
    BY DEF Fills
  <1> HIDE DEF f
  <1> QED  BY <1>2, <1>3, <1>4, <1>5

\* A row that finds no room ends the fill, or the copying if all rows are to be counted.
LEMMA FullFields ==
  ASSUME fill \in Fills, NEW iStart \in Nat, Full(iStart), pc = "fill"
  PROVE  /\ fill' \in Fills
         /\ fill'.required = fill.required /\ fill'.countAllRows = fill.countAllRows
         /\ fill'.then = fill.then
         /\ ~fill'.bOk /\ fill'.iStart = iStart
         /\ IF fill.countAllRows THEN fill'.nRow = fill.nRow + 1 /\ pc' = "fill"
            ELSE fill'.nRow = fill.nRow /\ pc' = "return"
  <1>1. CASE fill.countAllRows
    BY <1>1, NextRowFields DEF Full
  <1>2. CASE ~fill.countAllRows
    BY <1>2 DEF Full, Fills
  <1> QED  BY <1>1, <1>2

\* A new cursor has no window.
LEMMA InitInvariant == Init => CursorInvariant
  <1> SUFFICES ASSUME Init PROVE CursorInvariant
    OBVIOUS
  <1> USE DEF Init
  <1>1. table \in Seq(Sizes)
    <2>1. PICK n \in 0 .. MaxRows : table \in [1 .. n -> Sizes]
      BY DEF Results
    <2> QED  BY <2>1, CursorAssumption
  <1>2. TypeOK
    <2>1. window \in Windows /\ fill \in Fills
      BY DEF EmptyWindow, NoFill, Windows, Fills
    <2>2. result \in Seq(Sizes) /\ changes \in 0 .. MaxChanges
      BY CursorAssumption
    <2>3. pc = "idle" /\ count = None /\ target = None /\ capacity = 0 /\ pos = -1
          /\ hasWindow = FALSE
      OBVIOUS
    <2> HIDE DEF Init
    <2> QED  BY <1>1, <2>1, <2>2, <2>3 DEF TypeOK, Windows, Fills
  <1>3. WindowContiguous
    BY DEF WindowContiguous, EmptyWindow
  <1>4. FillInvariant
    BY DEF FillInvariant
  <1> QED  BY <1>2, <1>3, <1>4 DEF CursorInvariant

\* fillWindow starts with an empty window at or before the required row.
LEMMA FillWindowInvariant ==
  ASSUME CursorInvariant, NEW required \in Nat, NEW then \in {"idle", "move", "arrive"},
         FillWindow(required, then), target' = target, then = "move" => target \in Nat
  PROVE  CursorInvariant'
  <1> USE DEF CursorInvariant, FillWindow
  <1> DEFINE known == hasWindow /\ count # None
             start == StartPosition(required, IF known THEN capacity ELSE 0)
  <1>1. start \in Nat /\ start <= required
    <2>1. capacity \in Nat
      BY DEF TypeOK
    <2> QED  BY <2>1 DEF StartPosition
  <1>2. fill' = [required |-> required, countAllRows |-> ~known, nRow |-> 0, bOk |-> TRUE,
                 iStart |-> start, then |-> then]
    OBVIOUS
  <1> HIDE DEF start, known
  <1>3. known \in BOOLEAN
    BY DEF known, TypeOK
  <1>4. fill' \in Fills
    BY <1>1, <1>2, <1>3 DEF Fills
  <1>5. window'.rows = <<>> /\ window' \in Windows
    BY DEF EmptyWindow, Windows
  <1>6. TypeOK'
    BY <1>4, <1>5, <1>2 DEF TypeOK, Fills, Windows
  <1>7. WindowContiguous'
    BY <1>5 DEF WindowContiguous
  <1>8. FillInvariant'
    <2>1. /\ pc' = "fill" /\ fill'.bOk /\ fill'.nRow = 0 /\ fill'.iStart = start
          /\ fill'.required = required /\ Len(result') \in Nat
      BY <1>2, <1>6 DEF TypeOK
    <2>2. EndRow' = start + Len(window'.rows) /\ Len(window'.rows) = 0
      BY <2>1, <1>5 DEF EndRow, FirstRow
    <2> QED  BY <1>1, <1>5, <2>1, <2>2 DEF FillInvariant
  <1> QED  BY <1>6, <1>7, <1>8

\* Every step keeps the invariant of the cursor.
LEMMA StepInvariant == CursorInvariant /\ [Next]_vars => CursorInvariant'
  <1> SUFFICES ASSUME CursorInvariant, [Next]_vars PROVE CursorInvariant'
    OBVIOUS
  <1> USE DEF CursorInvariant
  <1>0. /\ fill \in Fills /\ window \in Windows /\ result \in Seq(Sizes) /\ Sizes \subseteq Nat
        /\ Len(result) \in Nat /\ Len(window.rows) \in Nat /\ Capacity \in Nat
    BY CursorAssumption DEF TypeOK, Fills, Windows
  <1>1. CASE SkipRow
    <2>1. /\ NextRow(fill.bOk, fill.iStart) /\ UNCHANGED <<cursorVars, window, pc>>
          /\ pc = "fill" /\ fill.nRow < Len(result) /\ ~MayCopy
      BY <1>1 DEF SkipRow, HasRow
    <2>2. fill.bOk \in BOOLEAN /\ fill.iStart \in Nat /\ fill.nRow \in Nat
      BY <1>0 DEF Fills
    <2>3. /\ fill' \in Fills /\ fill'.nRow = fill.nRow + 1
          /\ fill'.required = fill.required /\ fill'.countAllRows = fill.countAllRows
          /\ fill'.then = fill.then /\ fill'.bOk = fill.bOk /\ fill'.iStart = fill.iStart
      BY <1>0, <2>1, <2>2, NextRowFields
    <2>4. TypeOK'
      BY <2>1, <2>3 DEF TypeOK, Fills, cursorVars
    <2>5. FirstRow' = FirstRow /\ EndRow' = EndRow /\ SizeOf(EndRow)' = SizeOf(EndRow)
      BY <2>1, <2>3 DEF FirstRow, EndRow, SizeOf, cursorVars
    <2>6. WindowContiguous'
      BY <2>1, <2>5 DEF WindowContiguous, cursorVars
    <2>7. FillInvariant'
      <3>1. result' = result /\ window' = window /\ pc' = "fill"
        BY <2>1 DEF cursorVars
      <3>2. EndRow = fill.iStart + Len(window.rows)
        BY <2>1 DEF EndRow, FirstRow
      <3>3. CASE fill.bOk
        <4>1. fill.nRow < fill.iStart /\ window.rows = <<>>
          BY <2>1, <2>2, <3>3 DEF MayCopy, FillInvariant
        <4>2. Len(window.rows) = 0
          BY <4>1
        <4> QED  BY <1>0, <2>1, <2>2, <2>3, <2>5, <3>1, <3>2, <3>3, <4>1, <4>2 DEF FillInvariant
      <3>4. CASE ~fill.bOk
        BY <1>0, <2>1, <2>2, <2>3, <2>5, <3>1, <3>2, <3>4 DEF FillInvariant
      <3> QED  BY <3>3, <3>4
    <2> QED  BY <2>4, <2>6, <2>7
  <1>2. CASE CopyRow
    <2>1. /\ NextRow(TRUE, fill.iStart) /\ UNCHANGED <<cursorVars, pc>>
          /\ pc = "fill" /\ fill.nRow < Len(result) /\ MayCopy
          /\ window' = Copied(window, fill.iStart)
      BY <1>2 DEF CopyRow, HasRow
    <2>2. fill.iStart \in Nat /\ fill.nRow \in Nat /\ fill.required \in Nat
      BY <1>0 DEF Fills
    <2>3. fill.iStart + Len(window.rows) = fill.nRow
      BY <2>1 DEF FillInvariant, EndRow, FirstRow, MayCopy
    <2>4. /\ window' \in Windows
          /\ window'.rows = Append(window.rows, fill.nRow)
      BY <1>0, <2>1, <2>2, <2>3, CopiedAppends DEF Windows
    <2>5. Len(window'.rows) = Len(window.rows) + 1 /\ window.rows \in Seq(Nat)
      BY <1>0, <2>2, <2>4 DEF Windows
    <2>6. /\ fill' \in Fills /\ fill'.nRow = fill.nRow + 1
          /\ fill'.required = fill.required /\ fill'.countAllRows = fill.countAllRows
          /\ fill'.then = fill.then /\ fill'.bOk /\ fill'.iStart = fill.iStart
      BY <1>0, <2>1, <2>2, NextRowFields
    <2>7. result' = result /\ pc' = "fill"
      BY <2>1 DEF cursorVars
    <2>8. TypeOK'
      BY <2>1, <2>4, <2>6 DEF TypeOK, Fills, Windows, cursorVars
    <2>9. FirstRow' = fill.iStart /\ FirstRow = fill.iStart
      BY <2>1, <2>6, <2>7 DEF FirstRow
    <2>10. WindowContiguous'
      <3> SUFFICES ASSUME NEW i \in DOMAIN window'.rows
                   PROVE  window'.rows[i] = fill.iStart + i - 1 /\ window'.rows[i] < Len(result)
        BY <2>7, <2>9 DEF WindowContiguous
      <3>1. i \in 1 .. Len(window.rows) + 1
        BY <2>2, <2>4, <2>5
      <3>2. CASE i = Len(window.rows) + 1
        BY <3>2, <2>1, <2>2, <2>3, <2>4, <2>5
      <3>3. CASE i \in 1 .. Len(window.rows)
        BY <3>3, <2>2, <2>4, <2>5, <2>9 DEF WindowContiguous
      <3> QED  BY <3>1, <3>2, <3>3, <1>0
    <2>11. FillInvariant'
      <3>1. EndRow' = fill.nRow + 1
        BY <1>0, <2>2, <2>3, <2>5, <2>9 DEF EndRow
      <3>2. fill.iStart <= fill.required
        BY <2>1 DEF FillInvariant
      <3> QED  BY <1>0, <2>1, <2>2, <2>3, <2>6, <2>7, <3>1, <3>2 DEF FillInvariant
    <2> QED  BY <2>8, <2>10, <2>11
  <1>3. CASE WindowFull
    <2>1. /\ Full(fill.iStart) /\ UNCHANGED <<cursorVars, window>>
          /\ pc = "fill" /\ fill.nRow < Len(result) /\ MayCopy /\ ~Fits(window)
          /\ fill.nRow > fill.required
      BY <1>3, <1>0 DEF WindowFull, HasRow, StillRequired, Fills
    <2>2. fill.iStart \in Nat /\ fill.nRow \in Nat /\ fill.required \in Nat
      BY <1>0 DEF Fills
    <2>3. fill.iStart + Len(window.rows) = fill.nRow
      BY <2>1 DEF FillInvariant, EndRow, FirstRow, MayCopy
    <2>4. /\ fill' \in Fills /\ fill'.required = fill.required /\ fill'.iStart = fill.iStart
          /\ fill'.countAllRows = fill.countAllRows /\ ~fill'.bOk /\ fill'.then = fill.then
          /\ IF fill.countAllRows THEN fill'.nRow = fill.nRow + 1 /\ pc' = "fill"
             ELSE fill'.nRow = fill.nRow /\ pc' = "return"
      BY <1>0, <2>1, <2>2, FullFields
    <2>5. pc' \in {"fill", "return"} /\ result' = result /\ window' = window
      BY <2>1, <2>4 DEF cursorVars
    <2>6. TypeOK'
      BY <2>1, <2>4, <2>5 DEF TypeOK, Fills, cursorVars
    <2>7. FirstRow' = fill.iStart /\ FirstRow = fill.iStart
      BY <2>1, <2>4, <2>5 DEF FirstRow
    <2>8. WindowContiguous'
      BY <2>5, <2>7 DEF WindowContiguous
    <2>9. FillInvariant'
      <3>1. EndRow' = fill.nRow
        BY <2>3, <2>5, <2>7 DEF EndRow
      <3>2. SizeOf(EndRow)' = SizeOf(fill.nRow)
        BY <3>1, <2>5 DEF SizeOf
      <3>3. window.used + SizeOf(fill.nRow) > Capacity
        <4>1. window.used \in Nat /\ SizeOf(fill.nRow) \in Nat
          BY <1>0, <2>1, <2>2, SizeIsNat DEF Windows
        <4> QED  BY <4>1, <2>1, <1>0 DEF Fits
      <3>4. fill.iStart <= fill.required /\ fill.countAllRows \in BOOLEAN
        BY <2>1, <1>0 DEF FillInvariant, Fills
      <3> QED  BY <1>0, <2>1, <2>2, <2>4, <2>5, <3>1, <3>2, <3>3, <3>4 DEF FillInvariant
    <2> QED  BY <2>6, <2>8, <2>9
  <1>4. CASE Restart
    <2>1. /\ pc = "fill" /\ fill.nRow < Len(result) /\ fill.nRow <= fill.required
          /\ UNCHANGED cursorVars
      BY <1>4 DEF Restart, HasRow, StillRequired
    <2>2. fill.nRow \in Nat /\ fill.required \in Nat
      BY <1>0 DEF Fills
    <2>3. EmptyWindow \in Windows /\ EmptyWindow.rows = <<>> /\ EmptyWindow.used = 0
      BY DEF EmptyWindow, Windows
    <2>4. result' = result
      BY <2>1 DEF cursorVars
    <2>5. CASE Fits(EmptyWindow)
      <3>1. window' = Copied(EmptyWindow, fill.nRow) /\ NextRow(TRUE, fill.nRow) /\ pc' = "fill"
        BY <1>4, <2>1, <2>5 DEF Restart, RestartAt
      <3>2. window' \in Windows /\ window'.rows = <<fill.nRow>>
        <4>1. fill.nRow + Len(EmptyWindow.rows) = fill.nRow
          BY <2>2, <2>3
        <4>2. Append(EmptyWindow.rows, fill.nRow) = <<fill.nRow>>
          BY <2>3
        <4>3. window' \in Windows /\ window'.rows = Append(EmptyWindow.rows, fill.nRow)
          BY <2>1, <2>2, <2>3, <3>1, <4>1, CopiedAppends DEF Windows
        <4> QED  BY <4>2, <4>3
      <3>3. /\ fill' \in Fills /\ fill'.nRow = fill.nRow + 1
            /\ fill'.required = fill.required /\ fill'.countAllRows = fill.countAllRows
            /\ fill'.then = fill.then /\ fill'.bOk /\ fill'.iStart = fill.nRow
        BY <1>0, <2>2, <3>1, NextRowFields
      <3>4. TypeOK'
        BY <2>1, <3>1, <3>2, <3>3 DEF TypeOK, Fills, Windows, cursorVars
      <3>5. FirstRow' = fill.nRow /\ EndRow' = fill.nRow + 1
        BY <3>1, <3>2, <3>3 DEF FirstRow, EndRow
      <3>6. WindowContiguous'
        BY <2>1, <2>2, <2>4, <3>2, <3>5 DEF WindowContiguous
      <3>7. FillInvariant'
        BY <1>0, <2>1, <2>2, <2>4, <3>1, <3>3, <3>5 DEF FillInvariant
      <3> QED  BY <3>4, <3>6, <3>7
    <2>6. CASE ~Fits(EmptyWindow)
      <3>1. window' = EmptyWindow /\ Full(fill.nRow)
        BY <1>4, <2>6 DEF Restart, RestartAt
      <3>2. /\ fill' \in Fills /\ fill'.required = fill.required /\ fill'.iStart = fill.nRow
            /\ fill'.countAllRows = fill.countAllRows /\ ~fill'.bOk /\ fill'.then = fill.then
            /\ IF fill.countAllRows THEN fill'.nRow = fill.nRow + 1 /\ pc' = "fill"
               ELSE fill'.nRow = fill.nRow /\ pc' = "return"
        BY <1>0, <2>1, <2>2, <3>1, FullFields
      <3>3. pc' \in {"fill", "return"}
        BY <3>2
      <3>4. TypeOK'
        BY <2>1, <2>3, <3>1, <3>2, <3>3 DEF TypeOK, Fills, Windows, cursorVars
      <3>5. FirstRow' = fill.nRow /\ EndRow' = fill.nRow
        BY <2>2, <2>3, <3>1, <3>2, <3>3 DEF FirstRow, EndRow
      <3>6. WindowContiguous'
        BY <2>3, <3>1 DEF WindowContiguous
      <3>7. FillInvariant'
        <4>1. SizeOf(fill.nRow) \in Nat
          BY <1>0, <2>1, <2>2, SizeIsNat
        <4>2. SizeOf(fill.nRow) > Capacity
          BY <4>1, <2>3, <2>6, <1>0 DEF Fits
        <4>3. SizeOf(EndRow)' = SizeOf(fill.nRow) /\ window'.used = 0
          BY <2>3, <2>4, <3>1, <3>5 DEF SizeOf
        <4>4. fill.countAllRows \in BOOLEAN
          BY <1>0 DEF Fills
        <4> QED
          BY <1>0, <2>1, <2>2, <2>4, <3>2, <3>5, <4>1, <4>2, <4>3, <4>4 DEF FillInvariant
      <3> QED  BY <3>4, <3>6, <3>7
    <2> QED  BY <2>5, <2>6
  <1>5. CASE LastRow
    <2> USE <1>5 DEF LastRow, cursorVars
    <2>1. TypeOK'
      BY DEF TypeOK
    <2>2. WindowContiguous'
      BY DEF WindowContiguous, FirstRow
    <2>3. FillInvariant'
      BY <1>0 DEF FillInvariant, EndRow, FirstRow, SizeOf, Fills
    <2> QED  BY <2>1, <2>2, <2>3
  <1>6. CASE FillReturns
    <2> USE <1>6 DEF FillReturns
    <2>1. pc' # "fill" /\ pc' # "return"
      OBVIOUS
    <2>2. TypeOK'
      <3>1. window' \in Windows
        BY <1>0 DEF Windows, Fills
      <3>2. pc' = "move" => target' \in Nat
        BY DEF TypeOK
      <3>3. target' \in Nat \cup {None}
        BY DEF TypeOK
      <3>4. fill' \in Fills
        BY DEF NoFill, Fills
      <3> QED  BY <1>0, <2>1, <3>1, <3>2, <3>3, <3>4 DEF TypeOK, Fills, Windows
    <2>3. WindowContiguous'
      <3>1. FirstRow' = fill.iStart /\ window'.rows = window.rows
        BY <2>1, <1>0 DEF FirstRow, Windows
      <3> QED  BY <3>1 DEF WindowContiguous, FirstRow
    <2>4. FillInvariant'
      BY <2>1 DEF FillInvariant
    <2> QED  BY <2>2, <2>3, <2>4
  <1>7. CASE FillThrows
    <2>1. /\ window' = EmptyWindow /\ fill' = NoFill /\ result' = <<>> /\ pc' = "idle"
          /\ hasWindow' = FALSE /\ count' = None /\ target' = None
          /\ UNCHANGED <<table, changes, capacity, pos>>
      BY <1>7 DEF FillThrows
    <2>2. window' \in Windows /\ window'.rows = <<>> /\ fill' \in Fills
      BY <2>1 DEF EmptyWindow, Windows, NoFill, Fills
    <2>3. result' \in Seq(Sizes)
      BY <2>1
    <2>4. TypeOK'
      BY <2>1, <2>2, <2>3 DEF TypeOK, Windows, Fills
    <2> QED  BY <2>1, <2>2, <2>4 DEF WindowContiguous, FillInvariant
  <1>8. CASE GetCount
    BY <1>8, FillWindowInvariant DEF GetCount
  <1>9. CASE MoveCounts
    BY <1>9, FillWindowInvariant DEF MoveCounts, TypeOK
  <1>10. CASE MoveArrives
    <2> USE <1>10 DEF MoveArrives
    <2>1. TypeOK'
      BY DEF TypeOK
    <2>2. WindowContiguous' /\ FillInvariant'
      BY DEF WindowContiguous, FirstRow, FillInvariant
    <2> QED  BY <2>1, <2>2
  <1>11. CASE MoveFills
    <2>1. target \in Nat
      BY <1>11 DEF MoveFills, TypeOK
    <2> QED  BY <1>11, <2>1, FillWindowInvariant DEF MoveFills
  <1>12. CASE Requery \/ Deactivate
    <2>1. window' = EmptyWindow /\ pc' = "idle"
      BY <1>12 DEF Requery, Deactivate
    <2>2. window' \in Windows /\ window'.rows = <<>>
      BY <2>1 DEF EmptyWindow, Windows
    <2>3. TypeOK'
      BY <1>12, <2>1, <2>2 DEF TypeOK, Windows, Requery, Deactivate
    <2> QED  BY <2>1, <2>2, <2>3 DEF WindowContiguous, FillInvariant
  <1>13. CASE TableChanges
    <2>1. table' \in Seq(Sizes)
      <3>1. table \in Seq(Sizes)
        BY DEF TypeOK
      <3>2. ASSUME NEW i \in DOMAIN table, NEW z \in Sizes, table' = [table EXCEPT ![i] = z]
            PROVE  table' \in Seq(Sizes)
        BY <3>1, <3>2
      <3>3. ASSUME NEW z \in Sizes, table' = Append(table, z)
            PROVE  table' \in Seq(Sizes)
        BY <3>1, <3>3
      <3>4. ASSUME table # <<>>, table' = SubSeq(table, 1, Len(table) - 1)
            PROVE  table' \in Seq(Sizes)
        BY <3>1, <3>4, SubSeqProperties
      <3> QED  BY <1>13, <3>2, <3>3, <3>4 DEF TableChanges
    <2>2. changes' \in 0 .. MaxChanges
      <3>1. changes \in 0 .. MaxChanges /\ changes < MaxChanges /\ changes' = changes + 1
        BY <1>13 DEF TypeOK, TableChanges
      <3> QED  BY <3>1, CursorAssumption
    <2>3. UNCHANGED <<count, capacity, hasWindow, window, pos, target, pc, result, fill>>
      BY <1>13 DEF TableChanges
    <2>4. TypeOK'
      BY <2>1, <2>2, <2>3 DEF TypeOK
    <2>5. WindowContiguous' /\ FillInvariant'
      BY <2>3 DEF WindowContiguous, FirstRow, EndRow, SizeOf, FillInvariant
    <2> QED  BY <2>4, <2>5
  <1>14. ASSUME NEW p \in 0 .. MaxRows, Move(p) PROVE CursorInvariant'
    <2> USE <1>14 DEF Move
    <2>1. TypeOK'
      BY CursorAssumption DEF TypeOK
    <2>2. WindowContiguous' /\ FillInvariant'
      BY DEF WindowContiguous, FirstRow, FillInvariant
    <2> QED  BY <2>1, <2>2
  <1>15. CASE UNCHANGED vars
    BY <1>15 DEF vars, TypeOK, WindowContiguous, FillInvariant, EndRow, FirstRow, SizeOf
  <1> QED
    BY <1>1, <1>2, <1>3, <1>4, <1>5, <1>6, <1>7, <1>8, <1>9, <1>10, <1>11, <1>12, <1>13, <1>14,
       <1>15 DEF Next, NativeStep, MoveStep

-----------------------------------------------------------------------------
(* The results.                                                            *)

\* The inductive invariant holds in every state.
THEOREM CursorInvariantHolds == Spec => []CursorInvariant
  <1> QED  BY InitInvariant, StepInvariant, PTL DEF Spec

\* Every variable of the cursor, the window and the native loop has its type.
THEOREM TypesHold == Spec => []TypeOK
  <1>1. CursorInvariant => TypeOK
    BY DEF CursorInvariant
  <1> QED  BY <1>1, CursorInvariantHolds, PTL

\* A window holds consecutive rows of the result from its first row on, whatever
\* was requeried, refilled or restarted (copyRowToWindow, fillWindow).
THEOREM ContiguousHolds == Spec => []WindowContiguous
  <1>1. CursorInvariant => WindowContiguous
    BY DEF CursorInvariant
  <1> QED  BY <1>1, CursorInvariantHolds, PTL

\* nativeExecuteForCursorWindow copies the required row unless a row up to it is
\* larger than a whole window.
THEOREM RequiredRowHolds == Spec => []RequiredRowCopied
  <1>1. ASSUME CursorInvariant PROVE RequiredRowCopied
    <2> SUFFICES ASSUME pc = "return", fill.required < Len(result),
                        \A r \in 0 .. fill.required : SizeOf(r) <= Capacity
                 PROVE  fill.required >= FirstRow /\ fill.required < EndRow
      BY DEF RequiredRowCopied
    <2>1. /\ fill.required \in Nat /\ fill.iStart \in Nat /\ fill.nRow \in Nat
          /\ fill.bOk \in BOOLEAN /\ Len(window.rows) \in Nat /\ Len(result) \in Nat
          /\ Capacity \in Nat /\ result \in Seq(Sizes) /\ Sizes \subseteq Nat
      BY <1>1, CursorAssumption DEF CursorInvariant, TypeOK
    <2>2. FirstRow = fill.iStart /\ EndRow = fill.iStart + Len(window.rows)
      BY DEF FirstRow, EndRow
    <2>3. FillInvariant
      BY <1>1 DEF CursorInvariant
    <2>4. fill.iStart <= fill.required
      BY <2>3 DEF FillInvariant
    <2>5. CASE fill.bOk
      BY <2>1, <2>2, <2>3, <2>4, <2>5 DEF FillInvariant
    <2>6. CASE ~fill.bOk
      <3>1. EndRow \in Nat /\ EndRow < Len(result)
        BY <2>1, <2>2, <2>3, <2>6 DEF FillInvariant
      <3>2. SizeOf(EndRow) \in Nat
        BY <2>1, <3>1, SizeIsNat
      <3>3. EndRow > fill.required \/ SizeOf(EndRow) > Capacity
        BY <2>3, <2>6 DEF FillInvariant
      <3>4. CASE EndRow <= fill.required
        <4>1. SizeOf(EndRow) <= Capacity
          BY <2>1, <3>1, <3>4
        <4> QED  BY <2>1, <3>1, <3>2, <3>3, <3>4, <4>1
      <3> QED  BY <2>1, <2>2, <2>4, <3>1, <3>4
    <2> QED  BY <2>1, <2>5, <2>6
  <1> QED  BY <1>1, CursorInvariantHolds, PTL

\* The native loop returns the number of rows when it was to count them, else one
\* more than the last row it copied, and stops copying only for want of room.
THEOREM FillResultHolds == Spec => []FillResult
  <1>1. ASSUME CursorInvariant PROVE FillResult
    <2> SUFFICES ASSUME pc = "return"
                 PROVE  /\ fill.countAllRows => fill.nRow = Len(result)
                        /\ ~fill.countAllRows /\ window.rows # <<>> => fill.nRow = EndRow
                        /\ EndRow < Len(result) => window.used + SizeOf(EndRow) > Capacity
      BY DEF FillResult
    <2>1. /\ fill.required \in Nat /\ fill.iStart \in Nat /\ fill.nRow \in Nat
          /\ fill.bOk \in BOOLEAN /\ fill.countAllRows \in BOOLEAN
          /\ Len(window.rows) \in Nat /\ Len(result) \in Nat
      BY <1>1 DEF CursorInvariant, TypeOK
    <2>2. FirstRow = fill.iStart /\ EndRow = fill.iStart + Len(window.rows)
      BY DEF FirstRow, EndRow
    <2>3. FillInvariant
      BY <1>1 DEF CursorInvariant
    <2>4. CASE fill.bOk
      <3>1. fill.nRow = Len(result)
        BY <2>3, <2>4 DEF FillInvariant
      <3>2. fill.nRow >= fill.iStart => EndRow = fill.nRow
        BY <2>3, <2>4 DEF FillInvariant
      <3>3. fill.nRow < fill.iStart => window.rows = <<>>
        BY <2>1, <2>3, <2>4 DEF FillInvariant
      <3> QED  BY <2>1, <2>2, <3>1, <3>2, <3>3
    <2>5. CASE ~fill.bOk
      BY <2>1, <2>3, <2>5 DEF FillInvariant
    <2> QED  BY <2>1, <2>4, <2>5
  <1> QED  BY <1>1, CursorInvariantHolds, PTL

=============================================================================
