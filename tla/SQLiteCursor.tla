--------------------------- MODULE SQLiteCursor ---------------------------
(***************************************************************************)
(* A cursor and the window it reads its rows from (SQLiteCursor.java), with *)
(* the native loop that fills the window (nativeExecuteForCursorWindow in   *)
(* android_database_SQLiteConnection.cpp).                                  *)
(*                                                                          *)
(* The result of the query is a sequence of row sizes; rows are numbered    *)
(* from 0, as in the code.  Each fill executes the query again, and other   *)
(* writers may have changed its result meanwhile.  AbstractCursor and       *)
(* CursorWindow belong to Android: the former calls getCount and then       *)
(* onMove, the latter takes rows until Capacity is used up, and the number  *)
(* of columns whenever it has been cleared.                                 *)
(***************************************************************************)
EXTENDS Integers, Sequences

CONSTANTS
  Capacity,    \* what a window can hold
  Sizes,       \* sizes of rows
  MaxRows,     \* bound: rows of the result
  MaxChanges,  \* bound: changes of the result by other writers
  None         \* no row, no position

ASSUME CursorAssumption ==
  /\ Capacity \in Nat
  /\ Sizes \subseteq Nat
  /\ MaxRows \in Nat
  /\ MaxChanges \in Nat
  /\ None \notin Int

VARIABLES
  table,     \* what the query would return now: sizes of rows
  changes,   \* number of changes of the result
  count,     \* mCount, None for NO_COUNT
  capacity,  \* mCursorWindowCapacity
  hasWindow, \* mWindow is not null
  window,    \* the CursorWindow: start position, rows, room used
  pos,       \* mPos
  target,    \* where moveToPosition is going
  pc,        \* where the thread that uses the cursor is
  result,    \* what the execution in progress, or the last one, returns
  fill       \* arguments and variables of nativeExecuteForCursorWindow

vars == <<table, changes, count, capacity, hasWindow, window, pos, target, pc, result, fill>>

Results == UNION {[1 .. n -> Sizes] : n \in 0 .. MaxRows}

EmptyWindow == [start |-> 0, rows |-> <<>>, used |-> 0]

NoFill == [required |-> 0, countAllRows |-> TRUE, nRow |-> 0, bOk |-> TRUE, iStart |-> 0,
           then |-> "idle"]

SizeOf(row) == result[row + 1]

-----------------------------------------------------------------------------
(* nativeExecuteForCursorWindow.                                           *)

\* allocRow and put...: the new row is the last one and put at index.
Put(w, index, row) ==
  [w EXCEPT !.rows = [Append(w.rows, None) EXCEPT ![index + 1] = row],
            !.used = w.used + SizeOf(row)]

\* copyRowToWindow for row nRow; what did not fit has been freed again.
Fits(w) == w.used + SizeOf(fill.nRow) <= Capacity
Copied(w, iStart) == Put(w, fill.nRow - iStart, fill.nRow)

\* sqlite3_step returns SQLITE_ROW.
HasRow == pc = "fill" /\ fill.nRow < Len(result)

\* "Only copy in rows that occur at or after row index iStart", and none after
\* one that did not fit.  (Bug: later ones that fit are.)
MayCopy_AfterFull == fill.nRow >= fill.iStart
MayCopy == fill.nRow >= fill.iStart /\ fill.bOk

NextRow(bOk, iStart) ==
  fill' = [fill EXCEPT !.nRow = @ + 1, !.bOk = bOk, !.iStart = iStart]

cursorVars == <<table, changes, count, capacity, hasWindow, pos, target, result>>

SkipRow ==
  /\ HasRow /\ ~MayCopy
  /\ NextRow(fill.bOk, fill.iStart)
  /\ UNCHANGED <<cursorVars, window, pc>>

CopyRow ==
  /\ HasRow /\ MayCopy /\ Fits(window)
  /\ window' = Copied(window, fill.iStart)
  /\ NextRow(TRUE, fill.iStart)
  /\ UNCHANGED <<cursorVars, pc>>

\* The loop goes on to count the rows, or is left.
Full(iStart) ==
  IF fill.countAllRows
  THEN NextRow(FALSE, iStart) /\ UNCHANGED pc
  ELSE /\ fill' = [fill EXCEPT !.bOk = FALSE, !.iStart = iStart]
       /\ pc' = "return"

\* iRowRequired has not been copied yet.  (Bug: nor is it to be copied now.)
StillRequired_Before == fill.nRow < fill.required
StillRequired == fill.nRow <= fill.required

WindowFull ==
  /\ HasRow /\ MayCopy /\ ~Fits(window)
  /\ ~StillRequired
  /\ Full(fill.iStart)
  /\ UNCHANGED <<cursorVars, window>>

\* The window is cleared and filled from the current row on.  (Bug: its row
\* numbers go on from before.)
RestartAt_Old == fill.iStart
RestartAt == fill.nRow

Restart ==
  /\ HasRow /\ MayCopy /\ ~Fits(window)
  /\ StillRequired
  /\ IF Fits(EmptyWindow)
     THEN /\ window' = Copied(EmptyWindow, RestartAt)
          /\ NextRow(TRUE, RestartAt)
          /\ UNCHANGED pc
     ELSE /\ window' = EmptyWindow
          /\ Full(RestartAt)
  /\ UNCHANGED cursorVars

\* sqlite3_step returns SQLITE_DONE.
LastRow ==
  /\ pc = "fill" /\ fill.nRow >= Len(result)
  /\ pc' = "return"
  /\ UNCHANGED <<cursorVars, window, fill>>

-----------------------------------------------------------------------------
(* SQLiteCursor.                                                           *)

\* cursorPickFillWindowStartPosition.  (Bug: it may be negative.)
StartPosition_Negative(position, windowCapacity) == position - windowCapacity \div 3
StartPosition(position, windowCapacity) ==
  IF position >= windowCapacity \div 3 THEN position - windowCapacity \div 3 ELSE 0

\* fillWindow as far as the native loop.  Creating a window sets mCount to
\* NO_COUNT.
FillWindow(required, then) ==
  LET known == hasWindow /\ count # None IN
  /\ hasWindow' = TRUE
  /\ count' = IF hasWindow THEN count ELSE None
  /\ window' = EmptyWindow
  /\ result' = table
  /\ fill' = [required |-> required, countAllRows |-> ~known, nRow |-> 0, bOk |-> TRUE,
              iStart |-> StartPosition(required, IF known THEN capacity ELSE 0),
              then |-> then]
  /\ pc' = "fill"
  /\ UNCHANGED <<table, changes, capacity, pos>>

\* fillWindow after the native loop: setStartPosition, mCount and
\* mCursorWindowCapacity.
FillReturns ==
  /\ pc = "return"
  /\ window' = [window EXCEPT !.start = fill.iStart]
  /\ count' = IF fill.countAllRows THEN fill.nRow ELSE count
  /\ capacity' = IF fill.countAllRows THEN Len(window.rows) ELSE capacity
  /\ pos' = IF fill.then = "arrive" THEN fill.required ELSE pos
  /\ pc' = IF fill.then = "move" THEN "move" ELSE "idle"
  /\ target' = IF fill.then = "move" THEN target ELSE None
  /\ fill' = NoFill
  /\ UNCHANGED <<table, changes, hasWindow, result>>

\* The query fails or is canceled, before the first row or after any other.
FillThrows ==
  /\ pc = "fill"
  /\ hasWindow' = FALSE
  /\ window' = EmptyWindow
  /\ count' = None
  /\ target' = None
  /\ pc' = "idle"
  /\ result' = <<>>
  /\ fill' = NoFill
  /\ UNCHANGED <<table, changes, capacity, pos>>

GetCount ==
  /\ pc = "idle" /\ count = None
  /\ FillWindow(0, "idle")
  /\ UNCHANGED target

\* moveToPosition begins.
Move(p) ==
  /\ pc = "idle"
  /\ target' = p
  /\ pc' = "move"
  /\ UNCHANGED <<table, changes, count, capacity, hasWindow, window, pos, result, fill>>

MoveCounts ==
  /\ pc = "move" /\ count = None
  /\ FillWindow(0, "move")
  /\ UNCHANGED target

InWindow(p) ==
  hasWindow /\ p >= window.start /\ p < window.start + Len(window.rows)

\* Behind the last row, or to a row the window has.
MoveArrives ==
  /\ pc = "move" /\ count # None
  /\ target >= count \/ target = pos \/ InWindow(target)
  /\ pos' = IF target >= count THEN count ELSE target
  /\ target' = None
  /\ pc' = "idle"
  /\ UNCHANGED <<table, changes, count, capacity, hasWindow, window, result, fill>>

\* onMove fills the window.
MoveFills ==
  /\ pc = "move" /\ count # None
  /\ target < count /\ target # pos /\ ~InWindow(target)
  /\ FillWindow(target, "arrive")
  /\ UNCHANGED target

Requery ==
  /\ pc = "idle"
  /\ window' = EmptyWindow
  /\ pos' = -1
  /\ count' = None
  /\ UNCHANGED <<table, changes, capacity, hasWindow, target, pc, result, fill>>

\* deactivate: AbstractWindowedCursor drops the window and says nothing.
Deactivate ==
  /\ pc = "idle" /\ hasWindow
  /\ hasWindow' = FALSE
  /\ window' = EmptyWindow
  /\ UNCHANGED <<table, changes, count, capacity, pos, target, pc, result, fill>>

\* Other writers, one row at a time; an execution in progress does not see them.
TableChanges ==
  /\ pc = "idle" /\ changes < MaxChanges
  /\ changes' = changes + 1
  /\ \/ \E i \in DOMAIN table, z \in Sizes : table' = [table EXCEPT ![i] = z]
     \/ Len(table) < MaxRows /\ \E z \in Sizes : table' = Append(table, z)
     \/ table # <<>> /\ table' = SubSeq(table, 1, Len(table) - 1)
  /\ UNCHANGED <<count, capacity, hasWindow, window, pos, target, pc, result, fill>>

Init ==
  /\ table \in Results
  /\ changes = 0
  /\ count = None
  /\ capacity = 0
  /\ hasWindow = FALSE
  /\ window = EmptyWindow
  /\ pos = -1
  /\ target = None
  /\ pc = "idle"
  /\ result = <<>>
  /\ fill = NoFill

NativeStep == SkipRow \/ CopyRow \/ WindowFull \/ Restart \/ LastRow
MoveStep == MoveCounts \/ MoveArrives \/ MoveFills

Next ==
  \/ NativeStep \/ FillReturns \/ FillThrows
  \/ GetCount \/ MoveStep \/ Requery \/ Deactivate \/ TableChanges
  \/ \E p \in 0 .. MaxRows : Move(p)

Spec == Init /\ [][Next]_vars

-----------------------------------------------------------------------------
(* Properties.                                                             *)

\* Every variable has its type.
TypeOK ==
  /\ table \in Seq(Sizes) /\ result \in Seq(Sizes)
  /\ changes \in 0 .. MaxChanges
  /\ count \in Nat \cup {None}
  /\ capacity \in Nat
  /\ hasWindow \in BOOLEAN
  /\ window \in [start : Nat, rows : Seq(Nat), used : Nat]
  /\ pos \in Nat \cup {-1}
  /\ target \in Nat \cup {None}
  /\ pc = "move" \/ (pc # "idle" /\ fill.then = "move") => target \in Nat
  /\ pc \in {"idle", "move", "fill", "return"}
  /\ fill \in [required : Nat, countAllRows : BOOLEAN, nRow : Nat, bOk : BOOLEAN, iStart : Nat,
               then : {"idle", "move", "arrive"}]

\* Position of the first row in the window, which the native code returns and
\* fillWindow sets afterwards.
FirstRow == IF pc \in {"fill", "return"} THEN fill.iStart ELSE window.start
EndRow == FirstRow + Len(window.rows)

\* "The set of rows copied into the CursorWindow is always contiguous", and the
\* row a cursor finds at a position is the row of the result with that number,
\* however often the fill was restarted.
WindowContiguous ==
  \A i \in DOMAIN window.rows :
    /\ window.rows[i] = FirstRow + i - 1
    /\ window.rows[i] < Len(result)

\* The row the cursor is moved to ends up in the window if there is such a row,
\* and no row up to it is larger than a whole window.
RequiredRowCopied ==
  /\ pc = "return"
  /\ fill.required < Len(result)
  /\ \A r \in 0 .. fill.required : SizeOf(r) <= Capacity
  => fill.required >= FirstRow /\ fill.required < EndRow

\* "If the countAllRows argument is true, nRow is the total number of rows
\* returned by the query.  Otherwise, nRow is one greater than the index of the
\* last row copied"; and the window ends where the result does, or with a row
\* after which there was no room for the next.
FillResult ==
  pc = "return" =>
    /\ fill.countAllRows => fill.nRow = Len(result)
    /\ ~fill.countAllRows /\ window.rows # <<>> => fill.nRow = EndRow
    /\ EndRow < Len(result) => window.used + SizeOf(EndRow) > Capacity

\* What holds while the window is being filled: rows up to nRow are in it while
\* there is room, and where there was none the next row did not fit.
FillInvariant ==
  pc \in {"fill", "return"} =>
    /\ fill.iStart <= fill.required
    /\ fill.nRow <= Len(result)
    /\ fill.bOk => IF fill.nRow >= fill.iStart THEN EndRow = fill.nRow ELSE window.rows = <<>>
    /\ ~fill.bOk =>
         /\ EndRow <= fill.nRow /\ EndRow < Len(result)
         /\ window.used + SizeOf(EndRow) > Capacity
         /\ EndRow > fill.required \/ SizeOf(EndRow) > Capacity
    /\ ~fill.bOk /\ ~fill.countAllRows => pc = "return" /\ fill.nRow = EndRow
    /\ pc = "return" /\ (fill.bOk \/ fill.countAllRows) => fill.nRow = Len(result)

\* The inductive invariant.
CursorInvariant == TypeOK /\ WindowContiguous /\ FillInvariant

\* Not so: a row that fits no window, before the required one, ends the copying.
\* nativeExecuteForCursorWindow: "The only row that *must* be copied into the
\* CursorWindow is row iRowRequired."
RequiredRowMust ==
  /\ pc = "return"
  /\ fill.required < Len(result)
  /\ SizeOf(fill.required) <= Capacity
  => fill.required >= FirstRow /\ fill.required < EndRow

=============================================================================
