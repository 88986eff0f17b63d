----------------------- MODULE Fts5TokenizersProofs -----------------------
(***************************************************************************)
(* Proofs about Fts5Tokenizers, for texts of any length: the tokens put    *)
(* out are those of the text, and a refusal ends the ascii tokenizer.      *)
(*                                                                         *)
(* Facts about sums over a prefix of the text are proved by taking the     *)
(* least number at which they would fail (Least); the least number of a    *)
(* set exists because the intervals up to its members are finite sets,     *)
(* which strict inclusion orders well.                                     *)
(***************************************************************************)
EXTENDS Fts5Tokenizers, SequenceTheorems, FiniteSetTheorems, WellFoundedInduction, TLAPS

-----------------------------------------------------------------------------
(* Numbers.                                                                 *)

\* Every set of naturals that is not empty has a least member.
LEMMA Least ==
  ASSUME NEW T \in SUBSET Nat, T # {}
  PROVE  \E x \in T : \A y \in T : x <= y
  <1> DEFINE Below == {0..n : n \in T}
             R == StrictSubsetOrdering(Nat)
  <1>1. IsWellFoundedOn(R, FiniteSubsetsOf(Nat))
    BY FS_StrictSubsetOrderingWellFounded
  <1>2. Below \subseteq FiniteSubsetsOf(Nat)
    <2>1. ASSUME NEW n \in T PROVE 0..n \in FiniteSubsetsOf(Nat)
      <3>1. IsFiniteSet(0..n)
        BY FS_Interval
      <3>2. 0..n \in SUBSET Nat
        OBVIOUS
      <3> QED BY <3>1, <3>2 DEF FiniteSubsetsOf
    <2> QED BY <2>1
  <1>3. Below # {}
    OBVIOUS
  <1> HIDE DEF Below, R
  <1>4. PICK B \in Below : \A C \in Below : ~(<<C, B>> \in R)
    BY <1>1, <1>2, <1>3, WFMin
  <1> USE DEF Below, R
  <1>5. PICK x \in T : B = 0..x
    BY <1>4
  <1>6. ASSUME NEW y \in T PROVE x <= y
    <2> SUFFICES ASSUME y < x PROVE FALSE
      OBVIOUS
    <2>1. 0..y \subseteq 0..x /\ 0..y # 0..x
      OBVIOUS
    <2>2. <<0..y, 0..x>> \in R
      BY <2>1 DEF StrictSubsetOrdering
    <2> QED BY <1>4, <1>5, <2>2
  <1> QED BY <1>6

\* Min and Max choose what they are named for.
LEMMA MinIsLeast ==
  ASSUME NEW S \in SUBSET Nat, S # {}
  PROVE  Min(S) \in S /\ \A y \in S : Min(S) <= y
  <1>1. \E x \in S : \A y \in S : x <= y
    BY Least
  <1> QED BY <1>1 DEF Min

\* So does Max, for a set with an upper bound.
LEMMA MaxIsGreatest ==
  ASSUME NEW n \in Nat, NEW S \in SUBSET (0..n), S # {}
  PROVE  Max(S) \in S /\ \A y \in S : Max(S) >= y
  <1> DEFINE T == {n - x : x \in S}
  <1>1. T \in SUBSET Nat /\ T # {}
    <2>1. \A x \in S : n - x \in Nat
      OBVIOUS
    <2> QED BY <2>1
  <1>2. \E x \in T : \A y \in T : x <= y
    <2> HIDE DEF T
    <2> QED BY <1>1, Least
  <1>3. PICK x \in S : \A y \in S : n - x <= n - y
    BY <1>2
  <1>4. \A y \in S : x >= y
    BY <1>3
  <1> QED BY <1>4 DEF Max

\* f[i] is the sum of the first i weights; g is a recursive function that adds them up.
IsSum(f, w, n) == f \in [0..n -> Nat] /\ f[0] = 0 /\ \A i \in 1..n : f[i] = f[i - 1] + w[i]
AddsUp(g, w, n) == g = [i \in 0..n |-> IF i = 0 THEN 0 ELSE g[i - 1] + w[i]]

\* Any weights have sums.
LEMMA SumExists ==
  ASSUME NEW N \in Nat, NEW w \in [1..N -> Nat]
  PROVE  \E f : IsSum(f, w, N)
  <1> DEFINE Has(n) == \E f : IsSum(f, w, n)
             T == {n \in 0..N : ~Has(n)}
  <1>1. ASSUME T # {} PROVE FALSE
    <2>1. T \in SUBSET Nat
      OBVIOUS
    <2> HIDE DEF T
    <2>2. PICK n \in T : \A m \in T : n <= m
      BY <1>1, <2>1, Least
    <2> USE DEF T
    <2>3. n # 0
      <3>1. IsSum([i \in 0..0 |-> 0], w, 0)
        BY DEF IsSum
      <3> QED BY <3>1
    <2>4. Has(n - 1)
      <3> HIDE DEF Has
      <3> QED BY <2>2, <2>3
    <2>5. PICK f : IsSum(f, w, n - 1)
      BY <2>4
    <2>6. IsSum([i \in 0..n |-> IF i = n THEN f[n - 1] + w[n] ELSE f[i]], w, n)
      BY <2>3, <2>5 DEF IsSum
    <2>7. Has(n)
      BY <2>6
    <2> HIDE DEF Has
    <2> QED BY <2>7
  <1>2. Has(N)
    <2> HIDE DEF Has
    <2> QED BY <1>1
  <1> QED BY <1>2

\* Sums of positive weights increase.
LEMMA SumIncreases ==
  ASSUME NEW N \in Nat, NEW w \in [1..N -> Nat \ {0}], NEW f, IsSum(f, w, N),
         NEW i \in 0..N, NEW j \in 0..N, i < j
  PROVE  f[i] < f[j]
  <1> DEFINE T == {n \in (i + 1)..N : f[n] <= f[i]}
  <1>0. f \in [0..N -> Nat] /\ \A k \in 1..N : f[k] = f[k - 1] + w[k]
    BY DEF IsSum
  <1>1. ASSUME T # {} PROVE FALSE
    <2>1. T \in SUBSET Nat
      OBVIOUS
    <2> HIDE DEF T
    <2>2. PICK n \in T : \A m \in T : n <= m
      BY <1>1, <2>1, Least
    <2> USE DEF T
    <2>3. f[n] = f[n - 1] + w[n] /\ f[n - 1] \in Nat /\ f[i] \in Nat /\ w[n] \in Nat \ {0}
      BY <1>0
    <2>4. n - 1 \notin T
      BY <2>2
    <2>5. n - 1 = i \/ f[n - 1] > f[i]
      BY <2>3, <2>4
    <2> QED BY <2>3, <2>5
  <1>2. j \in (i + 1)..N /\ f[i] \in Nat /\ f[j] \in Nat
    BY <1>0
  <1> QED BY <1>1, <1>2

\* The recurrence determines the sums.
LEMMA SumUnique ==
  ASSUME NEW N \in Nat, NEW w \in [1..N -> Nat], NEW f, IsSum(f, w, N), NEW g, AddsUp(g, w, N)
  PROVE  g = f
  <1> DEFINE T == {n \in 0..N : g[n] # f[n]}
  <1>0. /\ DOMAIN g = 0..N /\ g[0] = 0 /\ \A i \in 1..N : g[i] = g[i - 1] + w[i]
        /\ f \in [0..N -> Nat] /\ f[0] = 0 /\ \A i \in 1..N : f[i] = f[i - 1] + w[i]
    BY SMTT(30) DEF IsSum, AddsUp
  <1>1. ASSUME T # {} PROVE FALSE
    <2>1. T \in SUBSET Nat
      OBVIOUS
    <2> HIDE DEF T
    <2>2. PICK n \in T : \A m \in T : n <= m
      BY <1>1, <2>1, Least
    <2> USE DEF T
    <2>3. n # 0
      BY <1>0
    <2>4. g[n - 1] = f[n - 1]
      BY <2>2, <2>3
    <2> QED BY <1>0, <2>3, <2>4
  <1>2. \A i \in 0..N : g[i] = f[i]
    BY <1>1
  <1>3. g = [i \in 0..N |-> g[i]]
    <2> DEFINE F == [i \in 0..N |-> IF i = 0 THEN 0 ELSE g[i - 1] + w[i]]
    <2>1. F = [i \in 0..N |-> F[i]]
      OBVIOUS
    <2>2. g = F
      BY DEF AddsUp
    <2> HIDE DEF F
    <2> QED BY <2>1, <2>2
  <1>4. f = [i \in 0..N |-> f[i]]
    BY <1>0
  <1> QED BY <1>2, <1>3, <1>4

\* What a recursive function over 0..N that adds up weights is.
LEMMA SumOfRecursion ==
  ASSUME NEW N \in Nat, NEW w \in [1..N -> Nat], NEW g, AddsUp(g, w, N)
  PROVE  IsSum(g, w, N)
  <1>1. PICK f : IsSum(f, w, N)
    BY SumExists
  <1>2. g = f
    BY <1>1, SumUnique
  <1> QED BY <1>1, <1>2

-----------------------------------------------------------------------------
(* The invariant.                                                           *)

\* A call of xToken, and the places the tokenizers get to.
Tokens == [of : Seq(Byte) \cup Seq(Classes \cup {"trail"}) \cup {None}, from : Nat, to : Nat]
Steps == {"create", "arguments", "decode", "tokenize", "returned"}

TokenizersType ==
  /\ tokenizer \in {"ascii", "wcicu"} /\ at \in Steps
  /\ IF tokenizer = "ascii" THEN args \in Arguments /\ text \in Seq(Byte)
     ELSE text \in Seq(Characters)
  /\ tokens \in Seq(Tokens)
  /\ refused \in BOOLEAN
  /\ at \in {"create", "arguments", "decode"} => tokens = <<>> /\ rc = "ok"
  /\ at # "returned" /\ ~refused => rc = "ok"

\* The table after the first n argument pairs: a byte's last mention decides.
MentionsUpTo(n, b) == {i \in Mentions(b) : i <= n}
IsTokenCharAfter(n, b) ==
  IF MentionsUpTo(n, b) = {} THEN b \in Alphanumeric
  ELSE args.pairs[Max(MentionsUpTo(n, b))].name = "tokenchars"

\* A run may start at position i.
MayStart(i) == i = 0 \/ i > Len(text) \/ ~IsTokenChar(text[i])

AsciiInvariant ==
  /\ at # "decode" /\ lost = {} /\ aTokenChar \subseteq Byte
  /\ applied \in 0..Len(args.pairs) /\ is \in Nat
  /\ at = "create" => applied = 0 /\ is = 0
  /\ at = "arguments" =>
       is = 0 /\ \A b \in Byte \ HighBytes : b \in aTokenChar <=> IsTokenCharAfter(applied, b)
  /\ at = "tokenize" =>
       /\ \A b \in Byte : b \in HighBytes \cup aTokenChar <=> IsTokenChar(b)
       /\ MayStart(is)
       /\ \A i \in Fresh : tokens[i].to < is
       /\ \A r \in Runs : r[1] < is => IsPutOut([from |-> r[1], to |-> r[2]])

\* The units of the first j characters.
UnitsUpTo[j \in 0..Len(text)] == IF j = 0 THEN 0 ELSE UnitsUpTo[j - 1] + text[j].units
ClassOf(c) == IF c.class = "bad" THEN "ignored" ELSE c.class

\* What in_buffer and in_offset hold of the characters decoded so far.
Decoded ==
  /\ input.read \in 0..Len(text)
  /\ input.bytes = BytesUpTo[input.read]
  /\ input.buffer \in Seq(Classes \cup {"trail"})
  /\ Len(input.buffer) = UnitsUpTo[input.read]
  /\ DOMAIN input.offset = 0..UnitsUpTo[input.read]
  /\ \A j \in 0..input.read : input.offset[UnitsUpTo[j]] = BytesUpTo[j]
  /\ \A j \in 1..input.read :
       /\ text[j].class # "nul"
       /\ input.buffer[UnitsUpTo[j - 1] + 1] = ClassOf(text[j])
       /\ text[j].units = 2 => input.buffer[UnitsUpTo[j]] = "trail"

\* A boundary follows character j.
Ends(j) == j = 0 \/ j = Length \/ text[j + 1].class # "mark"
SpanOfGroup(g) == [from |-> BytesUpTo[g[1] - 1], to |-> BytesUpTo[g[2]]]

\* What is said of all before character c + 1.
UpTo(c) ==
  /\ current = UnitsUpTo[c] /\ Ends(c)
  /\ out.to <= BytesUpTo[c]
  /\ \A i \in Fresh : tokens[i].to <= BytesUpTo[c]
  /\ \A g \in Groups : g[1] <= c => IsPutOut(SpanOfGroup(g)) \/ IsLost(SpanOfGroup(g))
  /\ \A i \in lost : \E g \in Groups : g[1] <= c /\ i = UnitsUpTo[g[1] - 1]

WcicuInvariant ==
  /\ at # "arguments" /\ out \in Tokens
  /\ at = "create" => input = NoInput
  /\ at \in {"create", "decode"} => current = 0 /\ out = NoToken /\ lost = {}
  /\ at \in {"decode", "tokenize"} => Decoded
  /\ at = "tokenize" => input.read = Length /\ \E c \in 0..Length : UpTo(c)

TokenizersInvariant ==
  /\ TokenizersType
  /\ tokenizer = "ascii" => AsciiInvariant
  /\ tokenizer = "wcicu" => WcicuInvariant
  /\ TokensOfTheText

-----------------------------------------------------------------------------
(* Bytes and units of a text of characters.                                 *)

\* The recursive function of the model has its recurrence.
LEMMA BytesAreSums ==
  ASSUME text \in Seq(Characters)
  PROVE  IsSum(BytesUpTo, [i \in 1..Len(text) |-> text[i].bytes], Len(text))
  <1> DEFINE w == [i \in 1..Len(text) |-> text[i].bytes]
             Rec(f) == f = [i \in 0..Len(text) |-> IF i = 0 THEN 0 ELSE f[i - 1] + text[i].bytes]
  <1>1. w \in [1..Len(text) -> Nat] /\ Len(text) \in Nat
    BY TokenizersAssumption
  <1>2. PICK f : IsSum(f, w, Len(text))
    <2> HIDE DEF w
    <2> QED BY <1>1, SumExists
  <1>3. Rec(f)
    BY <1>2 DEF IsSum
  <1>4. Rec(BytesUpTo)
    <2>1. BytesUpTo = CHOOSE g : Rec(g)
      BY DEF BytesUpTo
    <2> HIDE DEF Rec
    <2> QED BY <1>3, <2>1
  <1>5. PICK g : g = BytesUpTo
    OBVIOUS
  <1>6. AddsUp(g, w, Len(text))
    <2>1. \A i \in 1..Len(text) : w[i] = text[i].bytes
      OBVIOUS
    <2>2. Rec(g)
      BY <1>4, <1>5
    <2> HIDE DEF w
    <2> QED BY <2>1, <2>2 DEF AddsUp
  <1>7. IsSum(g, w, Len(text))
    <2> HIDE DEF w
    <2> QED BY <1>1, <1>6, SumOfRecursion
  <1> QED BY <1>5, <1>7

\* So has the one for units.
LEMMA UnitsAreSums ==
  ASSUME text \in Seq(Characters)
  PROVE  IsSum(UnitsUpTo, [i \in 1..Len(text) |-> text[i].units], Len(text))
  <1> DEFINE w == [i \in 1..Len(text) |-> text[i].units]
             Rec(f) == f = [i \in 0..Len(text) |-> IF i = 0 THEN 0 ELSE f[i - 1] + text[i].units]
  <1>1. w \in [1..Len(text) -> Nat] /\ Len(text) \in Nat
    BY TokenizersAssumption
  <1>2. PICK f : IsSum(f, w, Len(text))
    <2> HIDE DEF w
    <2> QED BY <1>1, SumExists
  <1>3. Rec(f)
    BY <1>2 DEF IsSum
  <1>4. Rec(UnitsUpTo)
    <2>1. UnitsUpTo = CHOOSE g : Rec(g)
      BY DEF UnitsUpTo
    <2> HIDE DEF Rec
    <2> QED BY <1>3, <2>1
  <1>5. PICK g : g = UnitsUpTo
    OBVIOUS
  <1>6. AddsUp(g, w, Len(text))
    <2>1. \A i \in 1..Len(text) : w[i] = text[i].units
      OBVIOUS
    <2>2. Rec(g)
      BY <1>4, <1>5
    <2> HIDE DEF w
    <2> QED BY <2>1, <2>2 DEF AddsUp
  <1>7. IsSum(g, w, Len(text))
    <2> HIDE DEF w
    <2> QED BY <1>1, <1>6, SumOfRecursion
  <1> QED BY <1>5, <1>7

\* Both functions count from 0, by one to four bytes and one or two units.
LEMMA Measures ==
  ASSUME text \in Seq(Characters)
  PROVE  /\ BytesUpTo \in [0..Len(text) -> Nat] /\ BytesUpTo[0] = 0
         /\ UnitsUpTo \in [0..Len(text) -> Nat] /\ UnitsUpTo[0] = 0
         /\ \A i \in 1..Len(text) :
              /\ text[i] \in Characters /\ text[i].units \in 1..2 /\ text[i].bytes \in 1..4
              /\ text[i].class \in Classes
              /\ BytesUpTo[i] = BytesUpTo[i - 1] + text[i].bytes
              /\ UnitsUpTo[i] = UnitsUpTo[i - 1] + text[i].units
         /\ \A i, j \in 0..Len(text) :
              /\ i < j <=> BytesUpTo[i] < BytesUpTo[j]
              /\ i < j <=> UnitsUpTo[i] < UnitsUpTo[j]
  <1> DEFINE w == [i \in 1..Len(text) |-> text[i].bytes]
             v == [i \in 1..Len(text) |-> text[i].units]
             b == BytesUpTo
             u == UnitsUpTo
  <1>1. \A i \in 1..Len(text) :
          /\ text[i] \in Characters /\ text[i].units \in 1..2 /\ text[i].bytes \in 1..4
          /\ text[i].class \in Classes
    BY TokenizersAssumption
  <1>2. /\ w \in [1..Len(text) -> Nat \ {0}] /\ v \in [1..Len(text) -> Nat \ {0}]
        /\ Len(text) \in Nat
    BY <1>1
  <1>3. IsSum(b, w, Len(text)) /\ IsSum(u, v, Len(text))
    BY BytesAreSums, UnitsAreSums
  <1>4. /\ b \in [0..Len(text) -> Nat] /\ b[0] = 0 /\ u \in [0..Len(text) -> Nat] /\ u[0] = 0
        /\ \A i \in 1..Len(text) : b[i] = b[i - 1] + text[i].bytes /\ u[i] = u[i - 1] + text[i].units
    <2> HIDE DEF b, u
    <2> QED BY <1>3 DEF IsSum
  <1>5. \A i, j \in 0..Len(text) : i < j => b[i] < b[j] /\ u[i] < u[j]
    <2> HIDE DEF b, u, w, v
    <2> QED BY <1>2, <1>3, SumIncreases
  <1>6. \A i, j \in 0..Len(text) : (i < j <=> b[i] < b[j]) /\ (i < j <=> u[i] < u[j])
    <2> HIDE DEF b, u
    <2>1. \A i \in 0..Len(text) : b[i] \in Nat /\ u[i] \in Nat
      BY <1>4
    <2> TAKE i, j \in 0..Len(text)
    <2>2. CASE i < j
      BY <1>5, <2>1, <2>2
    <2>3. CASE i = j
      BY <2>1, <2>3
    <2>4. CASE j < i
      BY <1>5, <2>1, <2>4
    <2> QED BY <1>2, <2>2, <2>3, <2>4
  <1> QED BY <1>1, <1>4, <1>6

-----------------------------------------------------------------------------
(* The ascii tokenizer.                                                     *)

\* The argument pairs as the constants give them.
LEMMA ArgumentTypes ==
  ASSUME args \in Arguments
  PROVE  /\ Len(args.pairs) \in Nat /\ DOMAIN args.pairs = 1..Len(args.pairs)
         /\ \A i \in 1..Len(args.pairs) : args.pairs[i].bytes \subseteq Byte
  <1> DEFINE Pairs == [name : STRING, bytes : SUBSET Byte]
  <1>1. args.pairs \in Seq(Pairs)
    BY TokenizersAssumption
  <1>2. Len(args.pairs) \in Nat /\ DOMAIN args.pairs = 1..Len(args.pairs)
    <2> HIDE DEF Pairs
    <2> QED BY <1>1
  <1>3. \A i \in 1..Len(args.pairs) : args.pairs[i] \in Pairs
    <2> HIDE DEF Pairs
    <2> QED BY <1>1
  <1> QED BY <1>2, <1>3

\* What the table says before the first pair, after one more, and after the last.
LEMMA FirstTable ==
  ASSUME args \in Arguments, NEW b
  PROVE  IsTokenCharAfter(0, b) <=> b \in Alphanumeric
  <1>1. MentionsUpTo(0, b) = {}
    BY ArgumentTypes DEF MentionsUpTo, Mentions
  <1> QED BY <1>1 DEF IsTokenCharAfter

\* One more pair decides about the bytes it is about, and leaves the others.
LEMMA NextTable ==
  ASSUME args \in Arguments, NEW b, NEW n \in 0..(Len(args.pairs) - 1)
  PROVE  IsTokenCharAfter(n + 1, b) <=>
           IF b \in args.pairs[n + 1].bytes THEN args.pairs[n + 1].name = "tokenchars"
           ELSE IsTokenCharAfter(n, b)
  <1>0. Mentions(b) \subseteq 1..Len(args.pairs) /\ Len(args.pairs) \in Nat
    BY ArgumentTypes DEF Mentions
  <1>1. CASE b \in args.pairs[n + 1].bytes
    <2>1. n + 1 \in MentionsUpTo(n + 1, b) /\ MentionsUpTo(n + 1, b) \subseteq 0..(n + 1)
      BY <1>0, <1>1, ArgumentTypes DEF MentionsUpTo, Mentions
    <2>2. Max(MentionsUpTo(n + 1, b)) = n + 1
      <3> DEFINE S == MentionsUpTo(n + 1, b)
      <3>1. S \in SUBSET (0..(n + 1)) /\ S # {} /\ n + 1 \in S /\ n + 1 \in Nat
        BY <2>1
      <3> HIDE DEF S
      <3>2. Max(S) \in S /\ \A y \in S : Max(S) >= y
        BY <3>1, MaxIsGreatest
      <3> DEFINE m == Max(S)
      <3>3. m \in S /\ \A y \in S : m >= y
        BY <3>2
      <3> HIDE DEF m
      <3>4. m = n + 1
        BY <3>1, <3>3
      <3> QED BY <3>4 DEF S, m
    <2> QED BY <1>1, <2>1, <2>2 DEF IsTokenCharAfter
  <1>2. CASE b \notin args.pairs[n + 1].bytes
    <2>1. MentionsUpTo(n + 1, b) = MentionsUpTo(n, b)
      BY <1>0, <1>2 DEF MentionsUpTo, Mentions
    <2> QED BY <1>2, <2>1 DEF IsTokenCharAfter
  <1> QED BY <1>1, <1>2

\* After the last pair the table is the one the property speaks of.
LEMMA LastTable ==
  ASSUME args \in Arguments, NEW b
  PROVE  IsTokenChar(b) <=> b \in HighBytes \/ IsTokenCharAfter(Len(args.pairs), b)
  <1>1. MentionsUpTo(Len(args.pairs), b) = Mentions(b)
    BY ArgumentTypes DEF MentionsUpTo, Mentions
  <1> QED BY <1>1 DEF IsTokenChar, IsTokenCharAfter

\* Where the next token starts, and where it ends.
LEMMA StartFound ==
  ASSUME text \in Seq(Byte), NEW i \in 0..Len(text)
  PROVE  /\ Start(i) \in i..Len(text)
         /\ \A j \in i..(Start(i) - 1) : ~IsTokenByte(j)
         /\ Start(i) < Len(text) => IsTokenByte(Start(i))
  <1> DEFINE S == {j \in i..(Len(text) - 1) : IsTokenByte(j)} \cup {Len(text)}
  <1>0. Len(text) \in Nat
    OBVIOUS
  <1>1. S \in SUBSET Nat /\ S # {}
    BY <1>0
  <1>2. Min(S) \in S /\ \A y \in S : Min(S) <= y
    <2> HIDE DEF S
    <2> QED BY <1>1, MinIsLeast
  <1>3. Start(i) = Min(S)
    BY DEF Start
  <1> DEFINE m == Min(S)
  <1>4. m \in S /\ \A y \in S : m <= y
    BY <1>2
  <1> HIDE DEF m
  <1>5. /\ m \in i..Len(text) /\ \A j \in i..(m - 1) : ~IsTokenByte(j)
        /\ m < Len(text) => IsTokenByte(m)
    BY <1>0, <1>4
  <1> QED BY <1>3, <1>5 DEF m

\* The token that starts at a token byte ends before the next separator, or with the text.
LEMMA EndFound ==
  ASSUME text \in Seq(Byte), NEW i \in 0..(Len(text) - 1)
  PROVE  /\ End(i) \in (i + 1)..Len(text)
         /\ \A j \in (i + 1)..(End(i) - 1) : IsTokenByte(j)
         /\ End(i) < Len(text) => ~IsTokenByte(End(i))
  <1> DEFINE S == {j \in (i + 1)..(Len(text) - 1) : ~IsTokenByte(j)} \cup {Len(text)}
  <1>0. Len(text) \in Nat
    OBVIOUS
  <1>1. S \in SUBSET Nat /\ S # {}
    BY <1>0
  <1>2. Min(S) \in S /\ \A y \in S : Min(S) <= y
    <2> HIDE DEF S
    <2> QED BY <1>1, MinIsLeast
  <1>3. End(i) = Min(S)
    BY DEF End
  <1> DEFINE m == Min(S)
  <1>4. m \in S /\ \A y \in S : m <= y
    BY <1>2
  <1> HIDE DEF m
  <1>5. /\ m \in (i + 1)..Len(text) /\ \A j \in (i + 1)..(m - 1) : IsTokenByte(j)
        /\ m < Len(text) => ~IsTokenByte(m)
    BY <1>0, <1>4
  <1> QED BY <1>3, <1>5 DEF m

\* A token is the next run of the text.
LEMMA NextRun ==
  ASSUME TokenizersType, tokenizer = "ascii", AsciiInvariant, at = "tokenize",
         is < Len(text), NEW from, from = Start(is), from < Len(text), NEW to, to = End(from)
  PROVE  /\ from \in is..(Len(text) - 1) /\ to \in (from + 1)..Len(text)
         /\ <<from, to>> \in Runs /\ MayStart(to + 1)
         /\ \A r \in Runs : r[1] < to + 1 => r[1] < is \/ r = <<from, to>>
  <1>1. text \in Seq(Byte) /\ Len(text) \in Nat /\ is \in 0..Len(text)
    BY DEF TokenizersType, AsciiInvariant
  <1>2. \A j \in 0..(Len(text) - 1) : IsTokenByte(j) <=> IsTokenChar(text[j + 1])
    BY <1>1 DEF AsciiInvariant, IsTokenByte
  <1>3. /\ from \in is..(Len(text) - 1) /\ IsTokenByte(from)
        /\ \A j \in is..(from - 1) : ~IsTokenByte(j)
    BY <1>1, StartFound
  <1>4. /\ to \in (from + 1)..Len(text) /\ \A j \in (from + 1)..(to - 1) : IsTokenByte(j)
        /\ to < Len(text) => ~IsTokenByte(to)
    BY <1>1, <1>3, EndFound, SMTT(30)
  <1>5. from = 0 \/ ~IsTokenChar(text[from])
    <2>1. CASE from = is
      BY <1>1, <1>3, <2>1 DEF AsciiInvariant, MayStart
    <2>2. CASE from > is
      BY <1>1, <1>2, <1>3, <2>2
    <2> QED BY <1>1, <1>3, <2>1, <2>2
  <1>6. to = Len(text) \/ ~IsTokenChar(text[to + 1])
    BY <1>1, <1>2, <1>3, <1>4, SMTT(30)
  <1>7. \A i \in (from + 1)..to : IsTokenChar(text[i])
    <2> TAKE i \in (from + 1)..to
    <2>1. PICK j \in 0..(Len(text) - 1) : j \in from..(to - 1) /\ i = j + 1
      <3>1. i - 1 \in 0..(Len(text) - 1) /\ i - 1 \in from..(to - 1) /\ i = (i - 1) + 1
        BY <1>1, <1>3, <1>4
      <3> QED BY <3>1
    <2>2. IsTokenByte(j)
      BY <1>3, <1>4, <2>1
    <2>3. IsTokenChar(text[j + 1])
      BY <1>2, <2>2
    <2> QED BY <2>1, <2>3
  <1>8. <<from, to>> \in Runs
    <2>1. from \in 0..Len(text) /\ to \in 0..Len(text) /\ from < to
      BY <1>1, <1>3, <1>4
    <2>2. PICK r : r = <<from, to>>
      OBVIOUS
    <2>3. r \in (0..Len(text)) \X (0..Len(text)) /\ r[1] = from /\ r[2] = to
      BY <2>1, <2>2
    <2>4. r[1] < r[2] /\ \A i \in (r[1] + 1)..r[2] : IsTokenChar(text[i])
      BY <1>7, <2>1, <2>3
    <2>5. r \in Runs
      BY <1>5, <1>6, <2>2, <2>3, <2>4 DEF Runs
    <2> QED BY <2>2, <2>5
  <1>9. MayStart(to + 1)
    BY <1>1, <1>4, <1>6 DEF MayStart
  <1>10. ASSUME NEW r \in Runs, r[1] < to + 1, ~(r[1] < is)
         PROVE  r = <<from, to>>
    <2>1. /\ r = <<r[1], r[2]>> /\ r[1] \in 0..Len(text) /\ r[2] \in 0..Len(text) /\ r[1] < r[2]
          /\ \A i \in (r[1] + 1)..r[2] : IsTokenChar(text[i])
          /\ r[1] = 0 \/ ~IsTokenChar(text[r[1]])
          /\ r[2] = Len(text) \/ ~IsTokenChar(text[r[2] + 1])
      BY DEF Runs
    <2>2. r[1] \in 0..(Len(text) - 1) /\ IsTokenByte(r[1])
      BY <1>1, <1>2, <2>1, SMTT(30)
    <2>3. r[1] >= from
      BY <1>1, <1>3, <1>10, <2>1, <2>2
    <2>4. r[1] # to
      BY <1>1, <1>4, <2>1, <2>2
    <2>5. r[1] = from
      <3> SUFFICES ASSUME r[1] > from PROVE FALSE
        BY <1>1, <1>3, <2>1, <2>3
      <3>1. r[1] \in (from + 1)..to /\ r[1] # 0
        BY <1>1, <1>3, <1>4, <1>10, <2>1, SMTT(30)
      <3> QED BY <1>7, <2>1, <3>1
    <2>6. ~(r[2] < to)
      <3> SUFFICES ASSUME r[2] < to PROVE FALSE
        OBVIOUS
      <3>1. r[2] + 1 \in (from + 1)..to /\ r[2] # Len(text)
        BY <1>1, <1>3, <1>4, <2>1, <2>5, SMTT(30)
      <3> QED BY <1>7, <2>1, <3>1
    <2>7. ~(r[2] > to)
      <3> SUFFICES ASSUME r[2] > to PROVE FALSE
        OBVIOUS
      <3>1. to + 1 \in (r[1] + 1)..r[2] /\ to # Len(text)
        BY <1>1, <1>3, <1>4, <2>1, <2>5
      <3> QED BY <1>6, <2>1, <3>1
    <2> QED BY <1>1, <1>4, <2>1, <2>5, <2>6, <2>7
  <1> QED BY <1>3, <1>4, <1>8, <1>9, <1>10

\* Where no token is left, no run starts.
LEMMA NoRunLeft ==
  ASSUME TokenizersType, tokenizer = "ascii", AsciiInvariant, at = "tokenize",
         is >= Len(text) \/ Start(is) = Len(text), NEW r \in Runs
  PROVE  r[1] < is
  <1>1. text \in Seq(Byte) /\ Len(text) \in Nat /\ is \in Nat
    BY DEF TokenizersType, AsciiInvariant
  <1>2. /\ r[1] \in 0..Len(text) /\ r[2] \in 0..Len(text) /\ r[1] < r[2]
        /\ \A i \in (r[1] + 1)..r[2] : IsTokenChar(text[i])
    BY DEF Runs
  <1>3. r[1] \in 0..(Len(text) - 1) /\ IsTokenByte(r[1])
    <2>1. /\ r[1] \in 0..(Len(text) - 1) /\ r[1] + 1 \in (r[1] + 1)..r[2]
          /\ r[1] + 1 \in 1..Len(text)
      BY <1>1, <1>2
    <2>2. IsTokenChar(text[r[1] + 1]) /\ text[r[1] + 1] \in Byte
      BY <1>1, <1>2, <2>1
    <2> QED BY <2>1, <2>2 DEF AsciiInvariant, IsTokenByte
  <1>4. CASE is >= Len(text)
    BY <1>1, <1>3, <1>4
  <1>5. CASE is < Len(text) /\ Start(is) = Len(text)
    <2>1. \A j \in is..(Len(text) - 1) : ~IsTokenByte(j)
      BY <1>1, <1>5, StartFound, SMTT(30)
    <2> QED BY <1>1, <1>3, <2>1
  <1> QED BY <1>1, <1>4, <1>5

-----------------------------------------------------------------------------
(* Steps that put out nothing, and calls of xToken.                         *)

\* A step that puts out nothing keeps the property, if all is put out when it ends.
LEMMA NothingPutOut ==
  ASSUME TokensOfTheText, UNCHANGED <<tokenizer, args, text, tokens, lost>>,
         lost = {} \/ UNCHANGED input,
         Finished' => \A span \in Spans : IsPutOut(span) \/ IsLost(span)
  PROVE  TokensOfTheText'
  <1>1. Fresh' = Fresh
    BY DEF Fresh
  <1>2. Spans' = Spans
    BY SMTT(30) DEF Spans, Runs, IsTokenChar, Mentions, Groups, Length, BytesUpTo
  <1>3. \A span : (IsPutOut(span)' <=> IsPutOut(span)) /\ (IsLost(span)' <=> IsLost(span))
    BY <1>1 DEF IsPutOut, IsLost, Offset, SpanOf
  <1>4. \A i, j : Folded(i, j)' = Folded(i, j)
    BY DEF Folded
  <1>5. \A i : tokens'[i] = tokens[i]
    OBVIOUS
  <1> HIDE DEF Finished
  <1> QED BY <1>1, <1>2, <1>3, <1>4, <1>5 DEF TokensOfTheText, SpanOf

\* What a call of xToken adds.
LEMMA TokenAppended ==
  ASSUME tokens \in Seq(Tokens), NEW k \in Tokens, tokens' = Append(tokens, k)
  PROVE  /\ tokens' \in Seq(Tokens) /\ Len(tokens) \in Nat
         /\ DOMAIN tokens = 1..Len(tokens) /\ DOMAIN tokens' = 1..(Len(tokens) + 1)
         /\ \A i \in DOMAIN tokens : tokens'[i] = tokens[i]
         /\ tokens'[Len(tokens) + 1] = k
         /\ Fresh' = IF k.of = None THEN Fresh ELSE Fresh \cup {Len(tokens) + 1}
         /\ \A i \in Fresh : i \in 1..Len(tokens)
         /\ \A span : IsPutOut(span)' <=> IsPutOut(span) \/ (k.of # None /\ SpanOf(k) = span)
  <1>1. /\ tokens' \in Seq(Tokens) /\ Len(tokens) \in Nat
        /\ DOMAIN tokens = 1..Len(tokens) /\ DOMAIN tokens' = 1..(Len(tokens) + 1)
        /\ \A i \in DOMAIN tokens : tokens'[i] = tokens[i]
        /\ tokens'[Len(tokens) + 1] = k
    OBVIOUS
  <1>2. Fresh' = {i \in DOMAIN tokens' : tokens'[i].of # None}
    BY DEF Fresh
  <1>3. Fresh' = IF k.of = None THEN Fresh ELSE Fresh \cup {Len(tokens) + 1}
    BY <1>1, <1>2 DEF Fresh
  <1>4. \A i \in Fresh : i \in 1..Len(tokens)
    BY <1>1 DEF Fresh
  <1>5. ASSUME NEW span
        PROVE  IsPutOut(span)' <=> IsPutOut(span) \/ (k.of # None /\ SpanOf(k) = span)
    <2>1. IsPutOut(span)' <=> \E i \in Fresh' : SpanOf(tokens'[i]) = span
      BY DEF IsPutOut, SpanOf
    <2> QED BY <1>1, <1>3, <1>4, <2>1 DEF IsPutOut
  <1> QED BY <1>1, <1>3, <1>4, <1>5

-----------------------------------------------------------------------------
(* Steps of the ascii tokenizer.                                            *)

\* Creating the tokenizer preserves the invariant: the table is the built-in one.
LEMMA AsciiCreateStep ==
  ASSUME TokenizersInvariant, Fts5AsciiCreate
  PROVE  TokenizersInvariant'
  <1>0. /\ TokenizersType /\ AsciiInvariant /\ TokensOfTheText /\ tokenizer = "ascii" /\ at = "create"
        /\ UNCHANGED <<tokenizer, args, text, applied, is, lost, tokens, refused>>
    BY DEF TokenizersInvariant, Fts5AsciiCreate, Returns, wcicuVars
  <1>1. \/ at' = "returned" /\ rc' \in {"error", "nomem"} /\ UNCHANGED aTokenChar
        \/ at' = "arguments" /\ UNCHANGED rc /\ aTokenChar' = Alphanumeric
    BY DEF Fts5AsciiCreate, Returns
  <1>2. TokenizersType'
    BY <1>0, <1>1 DEF TokenizersType, Steps
  <1>3. TokensOfTheText'
    BY <1>0, <1>1, NothingPutOut DEF Finished, AsciiInvariant
  <1>4. AsciiInvariant'
    <2>1. \A b : IsTokenCharAfter(applied, b)' <=> IsTokenCharAfter(applied, b)
      BY <1>0 DEF IsTokenCharAfter, MentionsUpTo, Mentions
    <2>2. applied = 0 /\ is = 0 /\ args \in Arguments
      BY <1>0 DEF AsciiInvariant, TokenizersType
    <2>3. aTokenChar' \subseteq Byte
      BY <1>0, <1>1, TokenizersAssumption DEF AsciiInvariant
    <2>4. at' = "arguments" =>
            \A b \in Byte \ HighBytes : b \in aTokenChar' <=> IsTokenCharAfter(applied, b)'
      BY <1>1, <2>1, <2>2, FirstTable
    <2> QED BY <1>0, <1>1, <2>2, <2>3, <2>4 DEF AsciiInvariant
  <1> QED BY <1>0, <1>2, <1>3, <1>4 DEF TokenizersInvariant

\* An argument pair changes the table as its last mention asks.
LEMMA AsciiArgumentStep ==
  ASSUME TokenizersInvariant, AsciiArgument
  PROVE  TokenizersInvariant'
  <1> DEFINE pair == args.pairs[applied + 1]
  <1>0. /\ TokenizersType /\ AsciiInvariant /\ TokensOfTheText /\ tokenizer = "ascii" /\ at = "arguments"
        /\ UNCHANGED <<tokenizer, args, text, is, lost, tokens, refused>>
        /\ applied < Len(args.pairs)
    BY DEF TokenizersInvariant, AsciiArgument, Returns, wcicuVars
  <1>1. \/ at' = "returned" /\ rc' = "error" /\ UNCHANGED <<applied, aTokenChar>>
        \/ /\ UNCHANGED <<at, rc>> /\ applied' = applied + 1
           /\ aTokenChar' = AddExceptions(aTokenChar, pair.bytes, pair.name = "tokenchars")
    BY DEF AsciiArgument, Returns
  <1>2. TokenizersType'
    BY <1>0, <1>1 DEF TokenizersType, Steps
  <1>3. TokensOfTheText'
    BY <1>0, <1>1, NothingPutOut DEF Finished, AsciiInvariant
  <1>4. AsciiInvariant'
    <2>1. /\ applied \in 0..(Len(args.pairs) - 1) /\ is = 0 /\ args \in Arguments
          /\ aTokenChar \subseteq Byte /\ Len(args.pairs) \in Nat
          /\ \A b \in Byte \ HighBytes : b \in aTokenChar <=> IsTokenCharAfter(applied, b)
      BY <1>0, ArgumentTypes DEF AsciiInvariant, TokenizersType
    <2>2. pair.bytes \subseteq Byte
      BY <2>1, ArgumentTypes
    <2>3. CASE at' = "returned"
      BY <1>0, <1>1, <2>1, <2>3 DEF AsciiInvariant
    <2>4. CASE at' = at
      <3>1. aTokenChar' \subseteq Byte
        BY <1>0, <1>1, <2>1, <2>2, <2>4 DEF AddExceptions
      <3>2. ASSUME NEW b \in Byte \ HighBytes
            PROVE  b \in aTokenChar' <=> IsTokenCharAfter(applied + 1, b)
        BY <1>0, <1>1, <2>1, <2>4, NextTable DEF AddExceptions
      <3>3. applied' = applied + 1 /\ args' = args
        BY <1>0, <1>1, <2>4
      <3>4. \A b : IsTokenCharAfter(applied, b)' <=> IsTokenCharAfter(applied + 1, b)
        BY <3>3 DEF IsTokenCharAfter, MentionsUpTo, Mentions
      <3>5. applied' \in 0..Len(args'.pairs)
        BY <2>1, <3>3
      <3> QED BY <1>0, <2>1, <2>4, <3>1, <3>2, <3>4, <3>5 DEF AsciiInvariant
    <2> QED BY <1>0, <1>1, <2>3, <2>4
  <1> QED BY <1>0, <1>2, <1>3, <1>4 DEF TokenizersInvariant

\* When no pair is left, the table is that of the text's runs.
LEMMA AsciiCreatedStep ==
  ASSUME TokenizersInvariant, AsciiCreated
  PROVE  TokenizersInvariant'
  <1>0. /\ TokenizersType /\ AsciiInvariant /\ TokensOfTheText /\ tokenizer = "ascii" /\ at = "arguments"
        /\ UNCHANGED <<tokenizer, args, text, applied, aTokenChar, is, lost, tokens, refused, rc>>
        /\ applied = Len(args.pairs) /\ at' = "tokenize"
    BY DEF TokenizersInvariant, AsciiCreated, asciiVars, wcicuVars
  <1>1. TokenizersType'
    BY <1>0 DEF TokenizersType, Steps
  <1>2. TokensOfTheText'
    BY <1>0, NothingPutOut DEF Finished, AsciiInvariant
  <1>3. AsciiInvariant'
    <2>1. \A b : IsTokenChar(b)' <=> IsTokenChar(b)
      BY <1>0 DEF IsTokenChar, Mentions
    <2>2. is = 0 /\ args \in Arguments /\ tokens = <<>> /\ Runs' = Runs
      BY <1>0, <2>1 DEF AsciiInvariant, TokenizersType, Runs
    <2>3. \A b \in Byte : b \in HighBytes \cup aTokenChar' <=> IsTokenChar(b)'
      BY <1>0, <2>1, <2>2, LastTable DEF AsciiInvariant
    <2>4. MayStart(is)'
      BY <1>0, <2>2 DEF MayStart
    <2>5. Fresh' = {} /\ \A r \in Runs : ~(r[1] < is)
      BY <1>0, <2>2 DEF Fresh, Runs
    <2> QED BY <1>0, <2>2, <2>3, <2>4, <2>5 DEF AsciiInvariant
  <1> QED BY <1>0, <1>1, <1>2, <1>3 DEF TokenizersInvariant

\* Returning, no run is left, unless the callback refused a token.
LEMMA AsciiReturnsStep ==
  ASSUME TokenizersInvariant, AsciiReturns
  PROVE  TokenizersInvariant'
  <1>0. /\ TokenizersType /\ AsciiInvariant /\ TokensOfTheText /\ tokenizer = "ascii" /\ at = "tokenize"
        /\ UNCHANGED <<tokenizer, args, text, applied, aTokenChar, is, lost, tokens, refused>>
        /\ at' = "returned" /\ rc' = Result(rc)
        /\ ~AsciiGoesOn \/ Start(is) = Len(text)
    BY DEF TokenizersInvariant, AsciiReturns, Returns, asciiVars, wcicuVars
  <1>1. TokenizersType'
    BY <1>0 DEF TokenizersType, Steps
  <1>2. ASSUME Finished', NEW span \in Spans
        PROVE  IsPutOut(span)
    <2>1. ~refused /\ rc = "ok"
      BY <1>0, <1>2 DEF Finished, TokenizersType
    <2>2. PICK r \in Runs : span = [from |-> r[1], to |-> r[2]]
      BY <1>0 DEF Spans
    <2>3. is >= Len(text) \/ Start(is) = Len(text)
      BY <1>0, <2>1 DEF AsciiGoesOn, TokenizersType, AsciiInvariant
    <2>4. r[1] < is
      BY <1>0, <2>3, NoRunLeft
    <2> QED BY <1>0, <2>2, <2>4 DEF AsciiInvariant
  <1>3. TokensOfTheText'
    BY <1>0, <1>2, NothingPutOut DEF AsciiInvariant
  <1>4. AsciiInvariant'
    BY <1>0 DEF AsciiInvariant
  <1> QED BY <1>0, <1>1, <1>3, <1>4 DEF TokenizersInvariant

\* The folded bytes of a stretch of the text.
LEMMA FoldedBytes ==
  ASSUME text \in Seq(Byte), NEW i \in 0..Len(text), NEW j \in i..Len(text)
  PROVE  Folded(i, j) \in Seq(Byte)
  <1>1. i \in Nat /\ j \in Nat /\ j - i \in Nat /\ Len(text) \in Nat
    OBVIOUS
  <1>2. \A k \in 1..(j - i) : text[i + k] \in Byte
    BY <1>1
  <1>3. \A k \in 1..(j - i) : Lower[text[i + k]] \in Byte
    BY <1>2, TokenizersAssumption
  <1> DEFINE F == [k \in 1..(j - i) |-> Lower[text[i + k]]]
  <1>4. F \in Seq(Byte)
    BY <1>1, <1>3, IsASeq
  <1> QED BY <1>4 DEF Folded

\* A token put out is the first run that was not put out before.
LEMMA AsciiTokenStep ==
  ASSUME TokenizersInvariant, AsciiToken
  PROVE  TokenizersInvariant'
  <1> DEFINE from == Start(is)
             to == End(from)
             k == [of |-> Folded(from, to), from |-> from, to |-> to]
  <1>0. /\ TokenizersType /\ AsciiInvariant /\ TokensOfTheText /\ tokenizer = "ascii" /\ at = "tokenize"
        /\ UNCHANGED <<tokenizer, args, text, applied, aTokenChar, lost>>
        /\ is < Len(text) /\ from < Len(text) /\ rc = "ok"
    BY DEF TokenizersInvariant, AsciiToken, AsciiGoesOn, wcicuVars
  <1>1. \/ at' = "returned" /\ rc' = "nomem" /\ UNCHANGED <<refused, is, tokens>>
        \/ /\ UNCHANGED at /\ Calls(k, TRUE) /\ is' = to + 1
    BY DEF AsciiToken, Returns
  <1>2. CASE at' = "returned"
    <2>1. rc' = "nomem" /\ UNCHANGED <<refused, is, tokens>>
      BY <1>0, <1>1, <1>2
    <2>2. TokenizersType'
      BY <1>0, <1>2, <2>1 DEF TokenizersType, Steps
    <2>3. TokensOfTheText'
      BY <1>0, <1>2, <2>1, NothingPutOut DEF Finished, AsciiInvariant
    <2>4. AsciiInvariant'
      BY <1>0, <1>2, <2>1 DEF AsciiInvariant
    <2> QED BY <1>0, <2>2, <2>3, <2>4 DEF TokenizersInvariant
  <1>3. CASE at' = at /\ Calls(k, TRUE) /\ is' = to + 1
    <2>1. text \in Seq(Byte) /\ Len(text) \in Nat
      BY <1>0 DEF TokenizersType
    <2>2. /\ from \in is..(Len(text) - 1) /\ to \in (from + 1)..Len(text)
          /\ <<from, to>> \in Runs /\ MayStart(to + 1)
          /\ \A r \in Runs : r[1] < to + 1 => r[1] < is \/ r = <<from, to>>
      BY <1>0, NextRun
    <2>3. is \in Nat
      BY <1>0 DEF AsciiInvariant
    <2>4. k.of \in Seq(Byte) /\ k.of # None
      <3> HIDE DEF from, to
      <3>1. from \in 0..Len(text) /\ to \in from..Len(text)
        BY <2>1, <2>2, <2>3
      <3>2. Folded(from, to) \in Seq(Byte)
        BY <2>1, <3>1, FoldedBytes
      <3> QED BY <3>2, TokenizersAssumption
    <2>5. k \in Tokens
      BY <2>1, <2>2, <2>3, <2>4 DEF Tokens
    <2>6. tokens' = Append(tokens, k)
      <3>1. [k EXCEPT !.of = k.of] = k
        OBVIOUS
      <3> QED BY <1>3, <3>1 DEF Calls
    <2>7. SpanOf(k) = [from |-> from, to |-> to] /\ k.from = from /\ k.to = to
          /\ k.of = Folded(from, to)
      BY DEF SpanOf
    <2> HIDE DEF k
    <2> DEFINE last == Len(tokens) + 1
    <2>8. tokens \in Seq(Tokens)
      BY <1>0 DEF TokenizersType
    <2>9. /\ tokens' \in Seq(Tokens) /\ Len(tokens) \in Nat
          /\ DOMAIN tokens = 1..Len(tokens) /\ DOMAIN tokens' = 1..last
          /\ \A i \in DOMAIN tokens : tokens'[i] = tokens[i]
          /\ tokens'[last] = k
          /\ Fresh' = Fresh \cup {last}
          /\ \A i \in Fresh : i \in 1..Len(tokens)
          /\ \A span : IsPutOut(span)' <=> IsPutOut(span) \/ SpanOf(k) = span
      BY <2>4, <2>5, <2>6, <2>8, TokenAppended
    <2>10. rc' \in Answers /\ refused' = (refused \/ rc' # "ok")
      BY <1>3 DEF Calls
    <2>11. TokenizersType'
      BY <1>0, <1>3, <2>9, <2>10 DEF TokenizersType, Answers
    <2>12. \A b : IsTokenChar(b)' <=> IsTokenChar(b)
      BY <1>0 DEF IsTokenChar, Mentions
    <2>13. Runs' = Runs
      BY <1>0, <2>12 DEF Runs
    <2> HIDE DEF from, to
    <2>14. /\ from \in Nat /\ to \in Nat /\ is <= from /\ from < to
           /\ \A i \in Fresh : tokens[i].to \in Nat /\ tokens[i].to < is
      <3>1. \A i \in Fresh : tokens[i] \in Tokens
        BY <2>8, <2>9 DEF Fresh
      <3> QED BY <1>0, <2>1, <2>2, <2>3, <3>1 DEF AsciiInvariant, Tokens
    <2>15. AsciiInvariant'
      <3>1. \A r \in Runs : r[1] < to + 1 => IsPutOut([from |-> r[1], to |-> r[2]])'
        <4> TAKE r \in Runs
        <4> HAVE r[1] < to + 1
        <4>1. CASE r[1] < is
          <5>1. IsPutOut([from |-> r[1], to |-> r[2]])
            BY <1>0, <4>1 DEF AsciiInvariant
          <5> QED BY <2>9, <5>1
        <4>2. CASE r = <<from, to>>
          BY <2>7, <2>9, <4>2
        <4> QED BY <2>2, <4>1, <4>2
      <3>2. \A r \in Runs' : r[1] < is' => IsPutOut([from |-> r[1], to |-> r[2]])'
        BY <1>3, <2>13, <3>1
      <3>3. MayStart(is)'
        BY <1>0, <1>3, <2>2, <2>12 DEF MayStart
      <3>4. \A i \in Fresh' : tokens'[i].to < is'
        BY <1>3, <2>3, <2>7, <2>9, <2>14
      <3>5. \A b \in Byte : b \in HighBytes \cup aTokenChar' <=> IsTokenChar(b)'
        BY <1>0, <2>12 DEF AsciiInvariant
      <3>6. is' \in Nat
        BY <1>3, <2>14
      <3> QED BY <1>0, <1>3, <3>2, <3>3, <3>4, <3>5, <3>6 DEF AsciiInvariant
    <2>16. TokensOfTheText'
      <3>1. lost' = {} /\ ~Finished'
        BY <1>0, <1>3 DEF Finished, AsciiInvariant
      <3>2. \A span : ~IsLost(span)' /\ ~IsLost(span)
        BY <1>0, <3>1 DEF IsLost
      <3>3. Spans' = Spans
        BY <1>0, <2>13 DEF Spans
      <3>4. SpanOf(k) \in Spans
        BY <1>0, <2>2, <2>7 DEF Spans
      <3>5. \A i \in Fresh' : SpanOf(tokens'[i]) \in Spans'
        BY <1>0, <2>9, <3>3, <3>4 DEF TokensOfTheText
      <3>6. \A i, j \in Fresh' : i < j => tokens'[i].to <= tokens'[j].from
        <4> TAKE i, j \in Fresh'
        <4> HAVE i < j
        <4>1. CASE j \in Fresh
          <5>1. i \in Fresh
            BY <2>9, <4>1
          <5> QED BY <1>0, <2>9, <4>1, <5>1 DEF TokensOfTheText
        <4>2. CASE j = last
          <5>1. i \in Fresh
            BY <2>9, <4>2
          <5> QED BY <2>3, <2>7, <2>9, <2>14, <4>2, <5>1
        <4> QED BY <2>9, <4>1, <4>2
      <3>7. ASSUME NEW span \in Spans', NEW i \in Fresh', span.from < tokens'[i].from
            PROVE  IsPutOut(span)'
        <4>1. PICK r \in Runs : span = [from |-> r[1], to |-> r[2]]
          BY <1>0, <3>3, <3>7 DEF Spans
        <4>2. CASE i \in Fresh
          <5>1. IsPutOut(span)
            BY <1>0, <2>9, <3>2, <3>3, <3>7, <4>2 DEF TokensOfTheText
          <5> QED BY <2>9, <5>1
        <4>3. CASE i = last
          <5>1. r[1] < from /\ r[1] \in Nat
            BY <2>7, <2>9, <3>7, <4>1, <4>3 DEF Runs
          <5>2. r[1] < is
            BY <2>2, <2>14, <5>1
          <5>3. IsPutOut(span)
            BY <1>0, <4>1, <5>2 DEF AsciiInvariant
          <5> QED BY <2>9, <5>3
        <4> QED BY <2>9, <4>2, <4>3
      <3>8. \A i \in DOMAIN tokens' : tokens'[i].of = Folded(tokens[i].from, tokens[i].to)'
        <4>1. \A a, b : Folded(a, b)' = Folded(a, b)
          BY <1>0 DEF Folded
        <4>2. ASSUME NEW i \in DOMAIN tokens'
              PROVE  tokens'[i].of = Folded(tokens'[i].from, tokens'[i].to)
          BY <1>0, <2>7, <2>9 DEF TokensOfTheText
        <4>3. \A i : Folded(tokens[i].from, tokens[i].to)' = Folded(tokens'[i].from, tokens'[i].to)
          BY <1>0 DEF Folded
        <4> QED BY <4>2, <4>3
      <3> QED BY <3>1, <3>2, <3>5, <3>6, <3>7, <3>8 DEF TokensOfTheText, SpanOf
    <2> QED BY <1>0, <2>11, <2>15, <2>16 DEF TokenizersInvariant
  <1> QED BY <1>1, <1>2, <1>3

-----------------------------------------------------------------------------
(* The wcicu tokenizer: decoding.                                           *)

\* A sequence and what is appended to it.
LEMMA Concatenated ==
  ASSUME NEW S, NEW s \in Seq(S), NEW t \in Seq(S)
  PROVE  /\ s \o t \in Seq(S) /\ Len(s \o t) = Len(s) + Len(t)
         /\ \A i \in 1..Len(s) : (s \o t)[i] = s[i]
         /\ \A i \in 1..Len(t) : (s \o t)[Len(s) + i] = t[i]
  OBVIOUS

\* One character more.
LEMMA DecodedOneMore ==
  ASSUME text \in Seq(Characters), Decoded, input.read < Len(text),
         text[input.read + 1].class # "nul", text' = text,
         input' = AppendUnits(input, text[input.read + 1])
  PROVE  Decoded'
  <1> DEFINE n == input.read
             c == text[n + 1]
             more == IF c.units = 2 THEN <<ClassOf(c), "trail">> ELSE <<ClassOf(c)>>
             U == UnitsUpTo
             B == BytesUpTo
             S == Classes \cup {"trail"}
  <1>0. /\ Len(text) \in Nat /\ n \in 0..(Len(text) - 1)
        /\ input.bytes = B[n] /\ input.buffer \in Seq(S) /\ Len(input.buffer) = U[n]
        /\ DOMAIN input.offset = 0..U[n]
        /\ \A j \in 0..n : input.offset[U[j]] = B[j]
        /\ \A j \in 1..n : /\ text[j].class # "nul"
                           /\ input.buffer[U[j - 1] + 1] = ClassOf(text[j])
                           /\ text[j].units = 2 => input.buffer[U[j]] = "trail"
    BY DEF Decoded
  <1>1. /\ UnitsUpTo' = UnitsUpTo /\ BytesUpTo' = BytesUpTo
    BY DEF UnitsUpTo, BytesUpTo
  <1>2. /\ B \in [0..Len(text) -> Nat] /\ U \in [0..Len(text) -> Nat]
        /\ \A i \in 1..Len(text) :
             /\ text[i].units \in 1..2 /\ text[i].class \in Classes
             /\ B[i] = B[i - 1] + text[i].bytes /\ U[i] = U[i - 1] + text[i].units
        /\ \A i, j \in 0..Len(text) : i < j => U[i] < U[j]
    BY Measures
  <1> HIDE DEF U, B
  <1>3. c.units \in 1..2 /\ ClassOf(c) \in S /\ B[n + 1] = B[n] + c.bytes /\ U[n + 1] = U[n] + c.units
    <2>1. n + 1 \in 1..Len(text) /\ (n + 1) - 1 = n
      BY <1>0
    <2> HIDE DEF n
    <2>2. c.units \in 1..2 /\ c.class \in Classes /\ B[n + 1] = B[n] + c.bytes /\ U[n + 1] = U[n] + c.units
      BY <1>2, <2>1
    <2> HIDE DEF c
    <2>3. ClassOf(c) \in S
      BY <2>2 DEF ClassOf, Classes
    <2> QED BY <2>2, <2>3
  <1>4. /\ input'.buffer = input.buffer \o more /\ input'.bytes = B[n] + c.bytes
        /\ input'.read = n + 1
        /\ input'.offset = [i \in 0..Len(input.buffer \o more) |->
             IF i \in 0..U[n] THEN input.offset[i]
             ELSE IF i = Len(input.buffer \o more) THEN B[n] + c.bytes ELSE None]
    BY <1>0 DEF AppendUnits, ClassOf
  <1>5. more \in Seq(S) /\ Len(more) = c.units /\ more[1] = ClassOf(c)
        /\ (c.units = 2 => more[2] = "trail")
    <2> HIDE DEF c
    <2>1. CASE c.units = 2
      <3>1. "trail" \in S
        OBVIOUS
      <3> HIDE DEF S
      <3> QED BY <1>3, <2>1, <3>1
    <2>2. CASE c.units = 1
      <3> HIDE DEF S
      <3> QED BY <1>3, <2>2
    <2> QED BY <1>3, <2>1, <2>2
  <1>6. U[n] \in Nat /\ U[n + 1] \in Nat
    BY <1>0, <1>2
  <1> HIDE DEF n, c, more, S
  <1>7. /\ input.buffer \o more \in Seq(S) /\ Len(input.buffer \o more) = U[n + 1]
        /\ \A i \in 1..U[n] : (input.buffer \o more)[i] = input.buffer[i]
        /\ (input.buffer \o more)[U[n] + 1] = ClassOf(c)
        /\ c.units = 2 => (input.buffer \o more)[U[n + 1]] = "trail"
    <2> DEFINE s == input.buffer
    <2>1. s \in Seq(S) /\ more \in Seq(S) /\ Len(s) = U[n] /\ Len(more) = c.units
      BY <1>0, <1>5
    <2> HIDE DEF s
    <2>2. /\ s \o more \in Seq(S) /\ Len(s \o more) = U[n] + c.units
          /\ \A i \in 1..U[n] : (s \o more)[i] = s[i]
          /\ \A i \in 1..c.units : (s \o more)[U[n] + i] = more[i]
      <3>1. /\ s \o more \in Seq(S) /\ Len(s \o more) = Len(s) + Len(more)
            /\ \A i \in 1..Len(s) : (s \o more)[i] = s[i]
            /\ \A i \in 1..Len(more) : (s \o more)[Len(s) + i] = more[i]
        <4>1. PICK x \in Seq(S), y \in Seq(S) : x = s /\ y = more
          BY <2>1
        <4>2. /\ x \o y \in Seq(S) /\ Len(x \o y) = Len(x) + Len(y)
              /\ \A i \in 1..Len(x) : (x \o y)[i] = x[i]
              /\ \A i \in 1..Len(y) : (x \o y)[Len(x) + i] = y[i]
          BY Concatenated
        <4> QED BY <4>1, <4>2
      <3> QED BY <2>1, <3>1
    <2> DEFINE W == s \o more
    <2> HIDE DEF W
    <2>3. \A i \in 1..c.units : W[U[n] + i] = more[i]
      BY <2>2 DEF W
    <2>4. W[U[n] + 1] = ClassOf(c)
      BY <1>3, <1>5, <2>3
    <2>5. c.units = 2 => W[U[n + 1]] = "trail"
      BY <1>3, <1>5, <2>3
    <2> USE DEF W
    <2>6. Len(s \o more) = U[n + 1]
      BY <1>3, <2>2
    <2> QED BY <2>2, <2>4, <2>5, <2>6 DEF s
  <1> DEFINE W == input.buffer \o more
  <1> HIDE DEF W
  <1>8. /\ input'.buffer = W /\ input'.read = n + 1 /\ input'.bytes = B[n + 1]
        /\ input'.offset = [i \in 0..U[n + 1] |->
             IF i \in 0..U[n] THEN input.offset[i]
             ELSE IF i = U[n + 1] THEN B[n + 1] ELSE None]
    BY <1>3, <1>4, <1>7 DEF W
  <1>9. /\ W \in Seq(S) /\ Len(W) = U[n + 1] /\ \A i \in 1..U[n] : W[i] = input.buffer[i]
        /\ W[U[n] + 1] = ClassOf(c) /\ (c.units = 2 => W[U[n + 1]] = "trail")
    BY <1>7 DEF W
  <1>10. /\ \A j \in 0..n : U[j] \in 0..U[n] /\ U[n] < U[n + 1]
         /\ \A j \in 1..n : U[j - 1] \in Nat /\ U[j - 1] < U[j]
    <2>1. n \in Nat /\ n + 1 \in 0..Len(text) /\ n \in 0..Len(text) /\ n < n + 1
      BY <1>0
    <2>2. ASSUME NEW j \in 0..n PROVE U[j] \in 0..U[n]
      <3>1. j \in 0..Len(text) /\ (j = n \/ j < n)
        BY <1>0, <2>1
      <3>2. U[j] \in Nat
        BY <1>2, <3>1
      <3> QED BY <1>2, <1>6, <2>1, <3>1, <3>2
    <2>3. ASSUME NEW j \in 1..n PROVE U[j - 1] \in Nat /\ U[j - 1] < U[j]
      <3>1. j \in 0..Len(text) /\ j - 1 \in 0..Len(text) /\ j - 1 < j
        BY <1>0, <2>1
      <3> QED BY <1>2, <3>1
    <2>4. U[n] < U[n + 1]
      BY <1>2, <2>1
    <2> QED BY <2>2, <2>3, <2>4
  <1>11. \A j \in 0..(n + 1) : input'.offset[U[j]] = B[j]
    <2> TAKE j \in 0..(n + 1)
    <2>1. CASE j = n + 1
      BY <1>0, <1>6, <1>8, <1>10, <2>1
    <2>2. CASE j \in 0..n
      <3>1. U[j] \in 0..U[n] /\ U[n] \in 0..U[n + 1]
        BY <1>6, <1>10, <2>2
      <3> QED BY <1>0, <1>6, <1>8, <2>2, <3>1
    <2> QED BY <1>0, <2>1, <2>2
  <1>12. \A j \in 1..(n + 1) : /\ text[j].class # "nul"
                               /\ W[U[j - 1] + 1] = ClassOf(text[j])
                               /\ text[j].units = 2 => W[U[j]] = "trail"
    <2> TAKE j \in 1..(n + 1)
    <2>1. CASE j = n + 1
      BY <1>0, <1>9, <2>1 DEF n, c
    <2>2. CASE j \in 1..n
      <3>1. /\ U[j] \in 1..U[n] /\ U[j - 1] + 1 \in 1..U[n]
        BY <1>6, <1>10, <2>2
      <3> QED BY <1>0, <1>9, <2>2, <3>1
    <2> QED BY <1>0, <2>1, <2>2
  <1>13. n + 1 \in 0..Len(text)
    BY <1>0
  <1>14. DOMAIN input'.offset = 0..U[n + 1]
    BY <1>8
  <1> QED BY <1>1, <1>8, <1>9, <1>11, <1>12, <1>13, <1>14 DEF Decoded, ClassOf, U, B, S

\* Decoding ends after as many characters as there are before a NUL.
LEMMA DecodedAll ==
  ASSUME text \in Seq(Characters), Decoded, ~DecodesOn
  PROVE  input.read = Length
  <1> DEFINE S == {i \in 1..Len(text) : text[i].class = "nul"} \cup {Len(text) + 1}
             m == Min(S)
  <1>1. Len(text) \in Nat /\ input.read \in 0..Len(text)
        /\ \A i \in 1..input.read : text[i].class # "nul"
    BY DEF Decoded
  <1>2. S \in SUBSET Nat /\ S # {}
    BY <1>1
  <1>3. m \in S /\ \A y \in S : m <= y
    <2> HIDE DEF S
    <2> QED BY <1>2, MinIsLeast
  <1>4. Length = m - 1
    BY DEF Length
  <1> HIDE DEF m
  <1>5. input.read = Len(text) \/ text[input.read + 1].class = "nul"
    <2>1. CASE ~(input.bytes < NText)
      BY <1>1, <2>1, Measures DEF Decoded, NText
    <2>2. CASE text[input.read + 1].class = "nul"
      BY <2>2
    <2> QED BY <2>1, <2>2 DEF DecodesOn
  <1>6. m = input.read + 1
    BY <1>1, <1>3, <1>5
  <1> QED BY <1>1, <1>4, <1>6

\* What is known while tokens are looked for.
LEMMA Tokenizing ==
  ASSUME TokenizersType, tokenizer = "wcicu", WcicuInvariant, at = "tokenize"
  PROVE  /\ text \in Seq(Characters) /\ Len(text) \in Nat
         /\ Decoded /\ input.read = Length /\ Length \in 0..Len(text)
         /\ Units = UnitsUpTo[Length]
  BY DEF TokenizersType, WcicuInvariant, Decoded, Units

-----------------------------------------------------------------------------
(* The wcicu tokenizer: boundaries and groups.                              *)

\* Every unit belongs to a character.
LEMMA UnitLocated ==
  ASSUME text \in Seq(Characters), NEW n \in 0..Len(text), NEW i \in Nat, i < UnitsUpTo[n]
  PROVE  \E j \in 1..n : UnitsUpTo[j - 1] <= i /\ i < UnitsUpTo[j]
  <1> DEFINE T == {j \in 0..n : i < UnitsUpTo[j]}
  <1>0. Len(text) \in Nat /\ UnitsUpTo[0] = 0 /\ \A j \in 0..Len(text) : UnitsUpTo[j] \in Nat
    <2>1. UnitsUpTo \in [0..Len(text) -> Nat] /\ UnitsUpTo[0] = 0
      BY Measures
    <2> QED BY <2>1
  <1>1. T \in SUBSET Nat /\ n \in T
    BY <1>0
  <1>2. PICK j \in T : \A k \in T : j <= k
    <2> HIDE DEF T
    <2> QED BY <1>1, Least
  <1>3. j # 0
    BY <1>0
  <1>4. j - 1 \in 0..n /\ j - 1 \notin T
    BY <1>2, <1>3
  <1>5. UnitsUpTo[j - 1] <= i
    BY <1>0, <1>4
  <1> QED BY <1>3, <1>5

\* Boundaries lie between characters, but for marks.
LEMMA BoundariesAre ==
  ASSUME TokenizersType, tokenizer = "wcicu", WcicuInvariant, at = "tokenize"
  PROVE  /\ \A i \in Boundaries : \E j \in 0..Length : i = UnitsUpTo[j] /\ Ends(j)
         /\ \A j \in 0..Length : Ends(j) => UnitsUpTo[j] \in Boundaries
  <1>0. /\ text \in Seq(Characters) /\ Len(text) \in Nat /\ Length \in 0..Len(text)
        /\ Units = UnitsUpTo[Length]
        /\ \A j \in 1..Length :
             /\ input.buffer[UnitsUpTo[j - 1] + 1] = ClassOf(text[j])
             /\ text[j].units = 2 => input.buffer[UnitsUpTo[j]] = "trail"
    BY Tokenizing DEF Decoded
  <1>1. /\ UnitsUpTo[0] = 0 /\ \A j \in 0..Len(text) : UnitsUpTo[j] \in Nat
        /\ \A j \in 1..Len(text) : /\ text[j].units \in 1..2 /\ text[j].class \in Classes
                                   /\ UnitsUpTo[j] = UnitsUpTo[j - 1] + text[j].units
        /\ \A i, j \in 0..Len(text) : i < j => UnitsUpTo[i] < UnitsUpTo[j]
    BY <1>0, Measures
  <1>2. \A j \in 1..Len(text) :
          /\ ClassOf(text[j]) # "trail" /\ (ClassOf(text[j]) = "mark" <=> text[j].class = "mark")
    BY <1>1 DEF ClassOf, Classes
  <1>3. ASSUME NEW i \in Boundaries
        PROVE  \E j \in 0..Length : i = UnitsUpTo[j] /\ Ends(j)
    <2>1. i \in 0..Units /\ IsBoundary(i)
      BY DEF Boundaries
    <2>2. CASE i = 0
      BY <1>0, <1>1, <2>2 DEF Ends
    <2>3. CASE i = Units
      BY <1>0, <2>3 DEF Ends
    <2>4. CASE i # 0 /\ i # Units
      <3>1. i \in Nat /\ i < UnitsUpTo[Length] /\ input.buffer[i + 1] \notin {"mark", "trail"}
        BY <1>0, <1>1, <2>1, <2>4 DEF IsBoundary
      <3>2. PICK j \in 1..Length : UnitsUpTo[j - 1] <= i /\ i < UnitsUpTo[j]
        BY <1>0, <3>1, UnitLocated
      <3>3. /\ j \in 1..Len(text) /\ j - 1 \in 0..Length /\ UnitsUpTo[j - 1] \in Nat
            /\ text[j].units \in 1..2 /\ UnitsUpTo[j] = UnitsUpTo[j - 1] + text[j].units
        BY <1>0, <1>1
      <3>4. i = UnitsUpTo[j - 1]
        <4> SUFFICES ASSUME i # UnitsUpTo[j - 1] PROVE FALSE
          OBVIOUS
        <4>1. text[j].units = 2 /\ UnitsUpTo[j] = i + 1
          BY <3>1, <3>2, <3>3
        <4> QED BY <1>0, <3>1, <3>2, <4>1
      <3>5. text[j].class # "mark"
        BY <1>0, <1>2, <3>1, <3>3, <3>4
      <3> QED BY <3>3, <3>4, <3>5 DEF Ends
    <2> QED BY <2>2, <2>3, <2>4
  <1>4. ASSUME NEW j \in 0..Length, Ends(j)
        PROVE  UnitsUpTo[j] \in Boundaries
    <2>1. UnitsUpTo[j] \in 0..Units
      BY <1>0, <1>1
    <2>2. IsBoundary(UnitsUpTo[j])
      <3>1. CASE j = 0 \/ j = Length
        BY <1>0, <1>1, <3>1 DEF IsBoundary
      <3>2. CASE j # 0 /\ j # Length
        <4>1. j + 1 \in 1..Length /\ text[j + 1].class # "mark" /\ j + 1 \in 1..Len(text)
          BY <1>0, <1>4, <3>2 DEF Ends
        <4>2. input.buffer[UnitsUpTo[j] + 1] = ClassOf(text[j + 1])
          BY <1>0, <4>1
        <4> QED BY <1>2, <4>1, <4>2 DEF IsBoundary
      <3> QED BY <3>1, <3>2
    <2> QED BY <2>1, <2>2 DEF Boundaries
  <1> QED BY <1>3, <1>4

\* A group starts where a candidate is.
LEMMA GroupStarts ==
  ASSUME TokenizersType, tokenizer = "wcicu", WcicuInvariant, at = "tokenize",
         NEW a \in 0..(Length - 1)
  PROVE  /\ UnitsUpTo[a] < Units
         /\ IsIgnored(UnitsUpTo[a]) <=> text[a + 1].class \in {"ignored", "bad"}
  <1>0. /\ text \in Seq(Characters) /\ Len(text) \in Nat /\ Length \in 0..Len(text)
        /\ Units = UnitsUpTo[Length]
        /\ \A j \in 1..Length : input.buffer[UnitsUpTo[j - 1] + 1] = ClassOf(text[j])
    BY Tokenizing DEF Decoded
  <1>1. UnitsUpTo[a] < UnitsUpTo[Length]
    BY <1>0, Measures
  <1>2. a + 1 \in 1..Length /\ a + 1 \in 1..Len(text) /\ (a + 1) - 1 = a
    BY <1>0
  <1>3. input.buffer[UnitsUpTo[a] + 1] = ClassOf(text[a + 1])
    BY <1>0, <1>2
  <1> QED BY <1>0, <1>1, <1>3 DEF IsIgnored, ClassOf

\* The members of a group.
LEMMA GroupFacts ==
  ASSUME text \in Seq(Characters), Length \in 0..Len(text), NEW g \in Groups
  PROVE  /\ g[1] \in 1..Length /\ g[2] \in g[1]..Length /\ g = <<g[1], g[2]>>
         /\ \A i \in (g[1] + 1)..g[2] : text[i].class = "mark"
         /\ Ends(g[1] - 1) /\ Ends(g[2]) /\ text[g[1]].class \notin {"ignored", "bad"}
         /\ g[1] # 1 => text[g[1]].class # "mark"
         /\ g[2] # Length => text[g[2] + 1].class # "mark"
         /\ SpanOfGroup(g).from = BytesUpTo[g[1] - 1] /\ SpanOfGroup(g).to = BytesUpTo[g[2]]
         /\ BytesUpTo[g[1] - 1] \in Nat /\ BytesUpTo[g[2]] \in Nat
         /\ BytesUpTo[g[1] - 1] < BytesUpTo[g[2]]
  <1>0. Len(text) \in Nat
    OBVIOUS
  <1>1. /\ g[1] \in 1..Length /\ g[2] \in 1..Length /\ g[1] <= g[2] /\ g = <<g[1], g[2]>>
        /\ \A i \in (g[1] + 1)..g[2] : text[i].class = "mark"
        /\ g[1] = 1 \/ text[g[1]].class # "mark"
        /\ g[2] = Length \/ text[g[2] + 1].class # "mark"
        /\ text[g[1]].class \notin {"ignored", "bad"}
    BY DEF Groups
  <1>2. g[1] - 1 \in 0..Len(text) /\ g[2] \in 0..Len(text) /\ g[1] - 1 < g[2] /\ g[2] \in g[1]..Length
    BY <1>0, <1>1
  <1>3. Ends(g[1] - 1) /\ Ends(g[2])
    BY <1>0, <1>1 DEF Ends
  <1>4. BytesUpTo[g[1] - 1] \in Nat /\ BytesUpTo[g[2]] \in Nat /\ BytesUpTo[g[1] - 1] < BytesUpTo[g[2]]
    BY <1>2, Measures
  <1> QED BY <1>1, <1>2, <1>3, <1>4 DEF SpanOfGroup

\* The next token is a group, and the only one between the last token and its end.
LEMMA NextGroup ==
  ASSUME TokenizersType, tokenizer = "wcicu", WcicuInvariant, at = "tokenize",
         NEW c \in 0..Length, UpTo(c), Candidates # {},
         NEW from, from = Min(Candidates), NEW to, to = BoundaryAfter(from)
  PROVE  \E a \in c..(Length - 1), b \in 1..Length :
           /\ a < b /\ from = UnitsUpTo[a] /\ to = UnitsUpTo[b] /\ Ends(b)
           /\ <<a + 1, b>> \in Groups
           /\ \A g \in Groups : g[1] <= b => g[1] <= c \/ g = <<a + 1, b>>
  <1>0. /\ text \in Seq(Characters) /\ Len(text) \in Nat /\ Length \in 0..Len(text)
        /\ Units = UnitsUpTo[Length] /\ current = UnitsUpTo[c]
    BY Tokenizing DEF UpTo
  <1>1. /\ \A j \in 0..Len(text) : UnitsUpTo[j] \in Nat
        /\ \A i, j \in 0..Len(text) : i < j <=> UnitsUpTo[i] < UnitsUpTo[j]
    BY <1>0, Measures
  <1>2. /\ \A i \in Boundaries : \E j \in 0..Length : i = UnitsUpTo[j] /\ Ends(j)
        /\ \A j \in 0..Length : Ends(j) => UnitsUpTo[j] \in Boundaries
        /\ \A i \in Boundaries : i \in Nat /\ i <= Units
    BY <1>0, <1>1, BoundariesAre DEF Boundaries
  <1>3. from \in Candidates /\ \A i \in Candidates : from <= i
    <2>1. Candidates \in SUBSET Nat
      BY <1>2 DEF Candidates
    <2> QED BY <2>1, MinIsLeast
  <1>4. PICK a \in 0..Length : from = UnitsUpTo[a] /\ Ends(a)
    BY <1>2, <1>3 DEF Candidates
  <1>5. a \in c..(Length - 1)
    <2>1. UnitsUpTo[c] <= UnitsUpTo[a] /\ UnitsUpTo[a] < UnitsUpTo[Length]
      BY <1>0, <1>3, <1>4 DEF Candidates
    <2>2. /\ c \in 0..Len(text) /\ a \in 0..Len(text)
          /\ UnitsUpTo[c] \in Nat /\ UnitsUpTo[a] \in Nat
      BY <1>0, <1>1
    <2>3. a < Length
      BY <1>0, <1>1, <2>1, <2>2
    <2>4. ~(a < c)
      BY <1>1, <2>1, <2>2
    <2> QED BY <1>0, <2>3, <2>4
  <1>6. text[a + 1].class \notin {"ignored", "bad"}
    BY <1>3, <1>4, <1>5, GroupStarts DEF Candidates
  <1>7. to \in Boundaries /\ to > from /\ \A i \in Boundaries : i > from => to <= i
    <2> DEFINE S == {j \in Boundaries : j > from}
    <2>1. UnitsUpTo[Length] \in S
      <3>1. Ends(Length) /\ Length \in 0..Length
        BY <1>0 DEF Ends
      <3> QED BY <1>0, <1>1, <1>2, <1>4, <1>5, <3>1
    <2>2. S \in SUBSET Nat /\ S # {}
      BY <1>2, <2>1
    <2>3. Min(S) \in S /\ \A i \in S : Min(S) <= i
      <3> HIDE DEF S
      <3> QED BY <2>2, MinIsLeast
    <2>4. to = Min(S)
      BY DEF BoundaryAfter
    <2> DEFINE m == Min(S)
    <2>5. m \in S /\ \A i \in S : m <= i
      BY <2>3
    <2> HIDE DEF m
    <2>6. m \in Boundaries /\ m > from /\ \A i \in Boundaries : i > from => m <= i
      BY <2>5
    <2> QED BY <2>4, <2>6 DEF m
  <1>8. PICK b \in 0..Length : to = UnitsUpTo[b] /\ Ends(b)
    BY <1>2, <1>7
  <1>9. a < b /\ b \in 1..Length
    BY <1>0, <1>1, <1>4, <1>5, <1>7, <1>8
  <1>10. ASSUME NEW j \in (a + 1)..(b - 1) PROVE ~Ends(j)
    <2>1. j \in 0..Length /\ UnitsUpTo[j] > from /\ UnitsUpTo[j] < to /\ UnitsUpTo[j] \in Nat /\ to \in Nat
      BY <1>0, <1>1, <1>4, <1>8, <1>9
    <2> QED BY <1>2, <1>7, <2>1
  <1>11. ASSUME NEW i \in (a + 2)..b PROVE text[i].class = "mark"
    <2>1. i - 1 \in (a + 1)..(b - 1) /\ (i - 1) + 1 = i
      BY <1>5, <1>9
    <2> QED BY <1>10, <2>1 DEF Ends
  <1>12. <<a + 1, b>> \in Groups
    <2>1. a = 0 \/ text[a + 1].class # "mark"
      BY <1>4, <1>5 DEF Ends
    <2>2. b = Length \/ text[b + 1].class # "mark"
      BY <1>8, <1>9 DEF Ends
    <2>3. a + 1 \in 1..Length /\ a + 1 <= b /\ (a + 1) + 1 = a + 2
      BY <1>0, <1>5, <1>9
    <2> QED BY <1>6, <1>9, <1>11, <2>1, <2>2, <2>3 DEF Groups
  <1>13. ASSUME NEW g \in Groups, g[1] <= b, ~(g[1] <= c)
         PROVE  g = <<a + 1, b>>
    <2>1. /\ g[1] \in 1..Length /\ g[2] \in g[1]..Length /\ g = <<g[1], g[2]>>
          /\ \A i \in (g[1] + 1)..g[2] : text[i].class = "mark"
          /\ Ends(g[1] - 1) /\ Ends(g[2]) /\ text[g[1]].class \notin {"ignored", "bad"}
          /\ g[1] # 1 => text[g[1]].class # "mark"
          /\ g[2] # Length => text[g[2] + 1].class # "mark"
      BY <1>0, GroupFacts
    <2>2. g[1] - 1 \in c..(Length - 1) /\ (g[1] - 1) + 1 = g[1]
      BY <1>0, <1>13, <2>1
    <2>3. PICK x \in c..(Length - 1) : x = g[1] - 1 /\ x + 1 = g[1]
      BY <2>2
    <2>4. x \in 0..(Length - 1) /\ x \in 0..Len(text) /\ x \in 0..Length /\ UnitsUpTo[x] \in Nat
      BY <1>0, <1>1
    <2>5. g[1] - 1 >= a
      <3>1. ~IsIgnored(UnitsUpTo[x]) /\ UnitsUpTo[x] < Units
        BY <2>1, <2>3, <2>4, GroupStarts
      <3>2. UnitsUpTo[x] \in Boundaries
        BY <1>2, <2>1, <2>3, <2>4
      <3>3. UnitsUpTo[x] >= current
        <4>1. c \in 0..Len(text) /\ UnitsUpTo[c] \in Nat /\ ~(x < c)
          BY <1>0, <1>1, <2>3
        <4> QED BY <1>0, <1>1, <2>4, <4>1
      <3>4. UnitsUpTo[x] \in Candidates
        BY <3>1, <3>2, <3>3 DEF Candidates
      <3>5. a \in 0..Len(text) /\ UnitsUpTo[a] <= UnitsUpTo[x] /\ UnitsUpTo[a] \in Nat
        BY <1>0, <1>1, <1>3, <1>4, <3>4
      <3>6. ~(x < a)
        BY <1>1, <2>4, <3>5
      <3> QED BY <2>3, <2>4, <3>5, <3>6
    <2>6. g[1] = a + 1
      <3> SUFFICES ASSUME g[1] # a + 1 PROVE FALSE
        OBVIOUS
      <3>1. g[1] \in (a + 2)..b /\ g[1] # 1
        BY <1>5, <1>9, <1>13, <2>1, <2>5
      <3> QED BY <1>11, <2>1, <3>1
    <2>7. PICK y \in (a + 1)..Length : y = g[2]
      BY <2>1, <2>6
    <2>8. ~(y < b)
      <3> SUFFICES ASSUME y < b PROVE FALSE
        OBVIOUS
      <3>1. y + 1 \in (a + 2)..b /\ y # Length
        BY <1>0, <1>5, <1>9, <2>7
      <3>2. text[y + 1].class # "mark"
        BY <2>1, <2>7, <3>1
      <3> QED BY <1>11, <3>1, <3>2
    <2>9. ~(y > b)
      <3> SUFFICES ASSUME y > b PROVE FALSE
        OBVIOUS
      <3>1. b + 1 \in (a + 2)..y /\ b # 0 /\ b # Length
        BY <1>0, <1>5, <1>9, <2>7
      <3>2. text[b + 1].class = "mark"
        BY <1>5, <2>1, <2>6, <2>7, <3>1
      <3> QED BY <1>8, <3>1, <3>2 DEF Ends
    <2>10. y = b
      BY <1>0, <1>5, <1>9, <2>7, <2>8, <2>9
    <2> QED BY <2>1, <2>6, <2>7, <2>10
  <1> QED BY <1>4, <1>5, <1>8, <1>9, <1>12, <1>13

\* Where no candidate is left, every group has been passed.
LEMMA NoGroupLeft ==
  ASSUME TokenizersType, tokenizer = "wcicu", WcicuInvariant, at = "tokenize",
         NEW c \in 0..Length, UpTo(c), Candidates = {}, NEW g \in Groups
  PROVE  g[1] <= c
  <1>0. /\ text \in Seq(Characters) /\ Len(text) \in Nat /\ Length \in 0..Len(text)
        /\ Units = UnitsUpTo[Length] /\ current = UnitsUpTo[c]
    BY Tokenizing DEF UpTo
  <1>1. /\ \A j \in 0..Len(text) : UnitsUpTo[j] \in Nat
        /\ \A i, j \in 0..Len(text) : i < j <=> UnitsUpTo[i] < UnitsUpTo[j]
    BY <1>0, Measures
  <1>2. /\ g[1] \in 1..Length /\ Ends(g[1] - 1) /\ text[g[1]].class \notin {"ignored", "bad"}
    BY <1>0, GroupFacts
  <1> SUFFICES ASSUME g[1] > c PROVE FALSE
    BY <1>0, <1>2
  <1>3. g[1] - 1 \in c..(Length - 1) /\ (g[1] - 1) + 1 = g[1] /\ g[1] - 1 \in 0..Length
    BY <1>0, <1>2
  <1>4. PICK x \in c..(Length - 1) : x = g[1] - 1 /\ x + 1 = g[1]
    BY <1>3
  <1>5. x \in 0..(Length - 1) /\ x \in 0..Len(text) /\ x \in 0..Length /\ UnitsUpTo[x] \in Nat
    BY <1>0, <1>1
  <1>6. ~IsIgnored(UnitsUpTo[x]) /\ UnitsUpTo[x] < Units
    BY <1>2, <1>4, <1>5, GroupStarts
  <1>7. UnitsUpTo[x] \in Boundaries
    BY <1>2, <1>4, <1>5, BoundariesAre
  <1>8. UnitsUpTo[x] >= current
    <2>1. c \in 0..Len(text) /\ UnitsUpTo[c] \in Nat /\ ~(x < c)
      BY <1>0, <1>1, <1>4
    <2> QED BY <1>0, <1>1, <1>5, <2>1
  <1> QED BY <1>6, <1>7, <1>8 DEF Candidates

-----------------------------------------------------------------------------
(* Steps of the wcicu tokenizer.                                            *)

\* What follows from the text alone stays.
LEMMA TextStays ==
  ASSUME text' = text
  PROVE  /\ UnitsUpTo' = UnitsUpTo /\ BytesUpTo' = BytesUpTo
         /\ Length' = Length /\ NText' = NText /\ Groups' = Groups
         /\ \A j : Ends(j)' <=> Ends(j)
         /\ \A g : SpanOfGroup(g)' = SpanOfGroup(g)
  <1>1. UnitsUpTo' = UnitsUpTo /\ BytesUpTo' = BytesUpTo /\ Length' = Length
    BY DEF UnitsUpTo, BytesUpTo, Length
  <1>2. NText' = NText /\ Groups' = Groups
    BY <1>1 DEF NText, Groups
  <1>3. \A j : Ends(j)' <=> Ends(j)
    BY <1>1 DEF Ends
  <1>4. \A g : SpanOfGroup(g)' = SpanOfGroup(g)
    BY <1>1 DEF SpanOfGroup
  <1> QED BY <1>1, <1>2, <1>3, <1>4

\* Opening preserves the invariant: nothing has been read.
LEMMA WcicuOpenStep ==
  ASSUME TokenizersInvariant, Fts5WcicuOpen
  PROVE  TokenizersInvariant'
  <1>0. /\ TokenizersType /\ WcicuInvariant /\ TokensOfTheText /\ tokenizer = "wcicu" /\ at = "create"
        /\ UNCHANGED <<tokenizer, args, text, input, current, out, lost, tokens, refused>>
    BY DEF TokenizersInvariant, Fts5WcicuOpen, Returns, wcicuVars
  <1>1. \/ at' = "returned" /\ rc' = "nomem"
        \/ at' = "decode" /\ UNCHANGED rc
    BY DEF Fts5WcicuOpen, Returns
  <1>2. TokenizersType'
    BY <1>0, <1>1 DEF TokenizersType, Steps
  <1>3. TokensOfTheText'
    BY <1>0, <1>1, NothingPutOut DEF Finished
  <1>4. Decoded'
    <2>1. text \in Seq(Characters) /\ input = NoInput
      BY <1>0 DEF TokenizersType, WcicuInvariant
    <2>2. Len(text) \in Nat /\ UnitsUpTo[0] = 0 /\ BytesUpTo[0] = 0
      BY <2>1, Measures
    <2>3. NoInput.buffer \in Seq(Classes \cup {"trail"}) /\ Len(NoInput.buffer) = 0
          /\ DOMAIN NoInput.offset = 0..0 /\ NoInput.offset[0] = 0 /\ NoInput.read = 0 /\ NoInput.bytes = 0
      BY DEF NoInput
    <2>4. Decoded
      BY <2>1, <2>2, <2>3 DEF Decoded
    <2> QED BY <1>0, <2>4, TextStays DEF Decoded
  <1>5. WcicuInvariant'
    BY <1>0, <1>1, <1>4 DEF WcicuInvariant
  <1> QED BY <1>0, <1>2, <1>3, <1>5 DEF TokenizersInvariant

\* Decoding one more character keeps buffer and offsets those of what was read.
LEMMA WcicuDecodeStep ==
  ASSUME TokenizersInvariant, WcicuDecode
  PROVE  TokenizersInvariant'
  <1>0. /\ TokenizersType /\ WcicuInvariant /\ TokensOfTheText /\ tokenizer = "wcicu" /\ at = "decode"
        /\ UNCHANGED <<tokenizer, args, text, at, current, out, lost, tokens, refused, rc>>
        /\ DecodesOn /\ input' = AppendUnits(input, text[input.read + 1])
    BY DEF TokenizersInvariant, WcicuDecode
  <1>1. TokenizersType'
    BY <1>0 DEF TokenizersType, Steps
  <1>2. TokensOfTheText'
    BY <1>0, NothingPutOut DEF Finished, WcicuInvariant
  <1>3. Decoded'
    <2>1. text \in Seq(Characters) /\ Decoded
      BY <1>0 DEF TokenizersType, WcicuInvariant
    <2>2. input.read < Len(text) /\ text[input.read + 1].class # "nul"
      BY <1>0, <2>1, Measures DEF DecodesOn, Decoded, NText
    <2> QED BY <1>0, <2>1, <2>2, DecodedOneMore
  <1>4. WcicuInvariant'
    BY <1>0, <1>3 DEF WcicuInvariant
  <1> QED BY <1>0, <1>1, <1>2, <1>4 DEF TokenizersInvariant

\* Decoding ends before the first NUL, with the cursor before every group.
LEMMA WcicuOpenedStep ==
  ASSUME TokenizersInvariant, WcicuOpened
  PROVE  TokenizersInvariant'
  <1>0. /\ TokenizersType /\ WcicuInvariant /\ TokensOfTheText /\ tokenizer = "wcicu" /\ at = "decode"
        /\ UNCHANGED <<tokenizer, args, text, input, current, out, lost, tokens, refused>>
        /\ ~DecodesOn
    BY DEF TokenizersInvariant, WcicuOpened, Returns, wcicuVars
  <1>1. \/ at' = "returned" /\ rc' = "error"
        \/ at' = "tokenize" /\ UNCHANGED rc
    BY DEF WcicuOpened, Returns
  <1>2. TokenizersType'
    BY <1>0, <1>1 DEF TokenizersType, Steps
  <1>3. TokensOfTheText'
    BY <1>0, <1>1, NothingPutOut DEF Finished
  <1>4. /\ text \in Seq(Characters) /\ Decoded /\ tokens = <<>>
        /\ current = 0 /\ out = NoToken /\ lost = {} /\ Decoded'
    <2>1. /\ text \in Seq(Characters) /\ Decoded /\ tokens = <<>>
          /\ current = 0 /\ out = NoToken /\ lost = {}
      BY <1>0 DEF TokenizersType, WcicuInvariant
    <2>2. Decoded'
      BY <1>0, <2>1, TextStays DEF Decoded
    <2> QED BY <2>1, <2>2
  <1>5. input.read = Length
    BY <1>0, <1>4, DecodedAll
  <1>6. Length \in 0..Len(text) /\ Len(text) \in Nat /\ 0 \in 0..Length
    BY <1>4, <1>5 DEF Decoded
  <1>7. UpTo(0)
    <2>1. UnitsUpTo[0] = 0 /\ BytesUpTo[0] = 0
      BY <1>4, Measures
    <2>2. Fresh = {}
      BY <1>4 DEF Fresh
    <2>3. \A g \in Groups : ~(g[1] <= 0)
      BY <1>4, <1>6, GroupFacts
    <2> QED BY <1>4, <2>1, <2>2, <2>3 DEF UpTo, Ends, NoToken
  <1>8. UpTo(0)'
    <2>1. Fresh' = Fresh
      BY <1>0 DEF Fresh
    <2>2. \A span : (IsPutOut(span)' <=> IsPutOut(span)) /\ (IsLost(span)' <=> IsLost(span))
      BY <1>0, <2>1 DEF IsPutOut, IsLost, Offset, SpanOf
    <2> QED BY <1>0, <1>7, <2>1, <2>2, TextStays DEF UpTo
  <1>9. WcicuInvariant'
    <2>1. input'.read = Length' /\ 0 \in 0..Length'
      BY <1>0, <1>5, <1>6, TextStays
    <2> QED BY <1>0, <1>1, <1>4, <1>8, <2>1 DEF WcicuInvariant
  <1> QED BY <1>0, <1>2, <1>3, <1>9 DEF TokenizersInvariant

\* When no candidate is left, no group is left.
LEMMA WcicuExhaustedStep ==
  ASSUME TokenizersInvariant, WcicuExhausted
  PROVE  TokenizersInvariant'
  <1>0. /\ TokenizersType /\ WcicuInvariant /\ TokensOfTheText /\ tokenizer = "wcicu" /\ at = "tokenize"
        /\ UNCHANGED <<tokenizer, args, text, input, current, out, lost, tokens, refused>>
        /\ Candidates = {} /\ at' = "returned"
    BY DEF TokenizersInvariant, WcicuExhausted, Returns, wcicuVars
  <1>1. TokenizersType'
    BY <1>0 DEF TokenizersType, Steps
  <1>2. PICK c \in 0..Length : UpTo(c)
    BY <1>0 DEF WcicuInvariant
  <1>3. ASSUME NEW span \in Spans
        PROVE  IsPutOut(span) \/ IsLost(span)
    <2>1. PICK g \in Groups : span = SpanOfGroup(g)
      BY <1>0 DEF Spans, SpanOfGroup
    <2>2. g[1] <= c
      BY <1>0, <1>2, NoGroupLeft
    <2> QED BY <1>2, <2>1, <2>2 DEF UpTo
  <1>4. TokensOfTheText'
    BY <1>0, <1>3, NothingPutOut
  <1>5. WcicuInvariant'
    BY <1>0 DEF WcicuInvariant
  <1> QED BY <1>0, <1>1, <1>4, <1>5 DEF TokenizersInvariant

\* When the last token put out reaches the end of the text, no group is left.
LEMMA WcicuReturnsStep ==
  ASSUME TokenizersInvariant, WcicuReturns
  PROVE  TokenizersInvariant'
  <1>0. /\ TokenizersType /\ WcicuInvariant /\ TokensOfTheText /\ tokenizer = "wcicu" /\ at = "tokenize"
        /\ UNCHANGED <<tokenizer, args, text, input, current, out, lost, tokens, refused>>
        /\ ~WcicuGoesOn /\ at' = "returned"
    BY DEF TokenizersInvariant, WcicuReturns, Returns, wcicuVars
  <1>1. TokenizersType'
    BY <1>0 DEF TokenizersType, Steps
  <1>2. PICK c \in 0..Length : UpTo(c)
    BY <1>0 DEF WcicuInvariant
  <1>3. ASSUME NEW span \in Spans
        PROVE  IsPutOut(span) \/ IsLost(span)
    <2>1. PICK g \in Groups : span = SpanOfGroup(g)
      BY <1>0 DEF Spans, SpanOfGroup
    <2>2. text \in Seq(Characters) /\ Len(text) \in Nat /\ Length \in 0..Len(text)
      BY <1>0, Tokenizing
    <2>3. ~(c < Len(text))
      <3>1. BytesUpTo \in [0..Len(text) -> Nat]
            /\ \A i, j \in 0..Len(text) : i < j <=> BytesUpTo[i] < BytesUpTo[j]
        BY <2>2, Measures
      <3>2. c \in 0..Len(text) /\ Len(text) \in 0..Len(text)
        BY <2>2
      <3>3. BytesUpTo[c] \in Nat /\ BytesUpTo[Len(text)] \in Nat
        BY <3>1, <3>2
      <3>4. out.to <= BytesUpTo[c] /\ ~(out.to < BytesUpTo[Len(text)]) /\ out.to \in Nat
        BY <1>0, <1>2 DEF UpTo, WcicuGoesOn, NText, WcicuInvariant, Tokens
      <3>5. ~(BytesUpTo[c] < BytesUpTo[Len(text)])
        BY <3>3, <3>4
      <3> QED BY <3>1, <3>2, <3>5
    <2>4. g[1] <= c
      <3>1. g[1] \in 1..Length
        BY <2>2, GroupFacts
      <3> QED BY <2>2, <2>3, <3>1
    <2> QED BY <1>2, <2>1, <2>4 DEF UpTo
  <1>4. TokensOfTheText'
    BY <1>0, <1>3, NothingPutOut
  <1>5. WcicuInvariant'
    BY <1>0 DEF WcicuInvariant
  <1> QED BY <1>0, <1>1, <1>4, <1>5 DEF TokenizersInvariant

\* A token put out, or lost, is the first group after the cursor.
LEMMA WcicuTokenStep ==
  ASSUME TokenizersInvariant, WcicuToken
  PROVE  TokenizersInvariant'
  <1> DEFINE from == Min(Candidates)
             to == BoundaryAfter(from)
             token == [of |-> SubSeq(input.buffer, from + 1, to),
                       from |-> Offset(from), to |-> Offset(to)]
             B == BytesUpTo
             U == UnitsUpTo
             last == Len(tokens) + 1
  <1>0. /\ TokenizersType /\ WcicuInvariant /\ TokensOfTheText /\ tokenizer = "wcicu" /\ at = "tokenize"
        /\ UNCHANGED <<tokenizer, args, text, at, input>>
        /\ Candidates # {} /\ current' = to
        /\ \/ out' = token /\ Calls(token, TRUE) /\ UNCHANGED lost
           \/ Calls(out, FALSE) /\ lost' = lost \cup {from} /\ UNCHANGED out
    BY DEF TokenizersInvariant, WcicuToken, asciiVars
  <1>1. /\ text \in Seq(Characters) /\ Len(text) \in Nat /\ Decoded /\ input.read = Length
        /\ Length \in 0..Len(text) /\ tokens \in Seq(Tokens) /\ out \in Tokens
    BY <1>0, Tokenizing DEF TokenizersType, WcicuInvariant
  <1>2. PICK c \in 0..Length : UpTo(c)
    BY <1>0 DEF WcicuInvariant
  <1>3. PICK a \in c..(Length - 1), b \in 1..Length :
          /\ a < b /\ from = UnitsUpTo[a] /\ to = UnitsUpTo[b] /\ Ends(b)
          /\ <<a + 1, b>> \in Groups
          /\ \A g \in Groups : g[1] <= b => g[1] <= c \/ g = <<a + 1, b>>
    BY <1>0, <1>2, NextGroup
  <1>4. /\ a \in 0..Length /\ b \in 0..Length /\ c \in 0..Length /\ c <= a /\ a < b
        /\ a \in 0..Len(text) /\ b \in 0..Len(text) /\ c \in 0..Len(text)
    BY <1>1, <1>3
  <1>5. /\ \A j \in 0..Len(text) : U[j] \in Nat /\ B[j] \in Nat
        /\ \A i, j \in 0..Len(text) : (i < j <=> B[i] < B[j]) /\ (i < j <=> U[i] < U[j])
    BY <1>1, Measures
  <1>6. \A j \in 0..Length : Offset(U[j]) = B[j]
    BY <1>1 DEF Decoded, Offset
  <1>7. B[c] <= B[a] /\ B[a] < B[b] /\ B[c] \in Nat /\ B[a] \in Nat /\ B[b] \in Nat
    BY <1>4, <1>5
  <1>8. PICK new, span :
          /\ new = <<a + 1, b>> /\ span = SpanOfGroup(new)
          /\ Offset(from) = B[a] /\ Offset(to) = B[b]
          /\ span = [from |-> B[a], to |-> B[b]] /\ new[1] = a + 1 /\ new[1] - 1 = a
    <2> DEFINE g == <<a + 1, b>>
    <2>1. g[1] = a + 1 /\ g[2] = b /\ g[1] - 1 = a
      BY <1>4
    <2>2. Offset(from) = B[a] /\ Offset(to) = B[b]
      BY <1>3, <1>4, <1>6
    <2>3. SpanOfGroup(g) = [from |-> B[a], to |-> B[b]]
      BY <2>1 DEF SpanOfGroup
    <2> QED BY <2>1, <2>2, <2>3
  <1>9. /\ token.from = B[a] /\ token.to = B[b] /\ SpanOf(token) = span
        /\ token.of \in Seq(Classes \cup {"trail"}) /\ token.of # None /\ token \in Tokens
    <2>1. token.from = B[a] /\ token.to = B[b] /\ SpanOf(token) = span
      BY <1>8 DEF SpanOf
    <2>2. token.of \in Seq(Classes \cup {"trail"})
      <3> DEFINE S == Classes \cup {"trail"}
      <3>1. input.buffer \in Seq(S) /\ Len(input.buffer) = U[Length]
        BY <1>1 DEF Decoded
      <3>2. from \in Nat /\ to \in Nat /\ to <= U[Length]
        BY <1>1, <1>3, <1>4, <1>5
      <3> HIDE DEF from, to, S
      <3>3. \A i \in (from + 1)..to : i \in 1..Len(input.buffer)
        BY <1>5, <3>1, <3>2
      <3>4. SubSeq(input.buffer, from + 1, to) \in Seq(S)
        BY <3>1, <3>2, <3>3
      <3> QED BY <3>4 DEF S
    <2>3. token.of # None
      BY <2>2, TokenizersAssumption
    <2>4. token \in Tokens
      <3> DEFINE of == SubSeq(input.buffer, from + 1, to)
      <3>1. of \in Seq(Classes \cup {"trail"}) /\ token = [of |-> of, from |-> B[a], to |-> B[b]]
        BY <1>8, <2>2
      <3> HIDE DEF of, from, to
      <3> QED BY <1>7, <3>1 DEF Tokens
    <2> QED BY <2>1, <2>2, <2>3, <2>4
  <1> HIDE DEF token
  <1>10. PICK k \in Tokens :
           /\ tokens' = Append(tokens, k) /\ rc' \in Answers /\ refused' = (refused \/ rc' # "ok")
           /\ \/ k = token /\ out' = token /\ lost' = lost
              \/ k.of = None /\ out' = out /\ lost' = lost \cup {from}
    <2>1. CASE out' = token /\ Calls(token, TRUE) /\ UNCHANGED lost
      <3>1. [token EXCEPT !.of = token.of] = token
        BY <1>9 DEF Tokens
      <3> QED BY <1>9, <2>1, <3>1 DEF Calls
    <2>2. CASE Calls(out, FALSE) /\ lost' = lost \cup {from} /\ UNCHANGED out
      <3> DEFINE k == [out EXCEPT !.of = None]
      <3>1. k \in Tokens /\ k.of = None
        BY <1>1 DEF Tokens
      <3>2. /\ tokens' = Append(tokens, k) /\ rc' \in Answers /\ refused' = (refused \/ rc' # "ok")
        BY <2>2 DEF Calls
      <3> QED BY <2>2, <3>1, <3>2
    <2> QED BY <1>0, <2>1, <2>2
  <1>11. /\ tokens' \in Seq(Tokens) /\ Len(tokens) \in Nat
         /\ DOMAIN tokens = 1..Len(tokens) /\ DOMAIN tokens' = 1..last
         /\ \A i \in DOMAIN tokens : tokens'[i] = tokens[i]
         /\ tokens'[last] = k
         /\ Fresh' = IF k.of = None THEN Fresh ELSE Fresh \cup {last}
         /\ \A i \in Fresh : i \in 1..Len(tokens)
         /\ \A s : IsPutOut(s)' <=> IsPutOut(s) \/ (k.of # None /\ SpanOf(k) = s)
    BY <1>1, <1>10, TokenAppended
  <1>12. \A i \in Fresh : tokens'[i] = tokens[i] /\ tokens[i] \in Tokens
    BY <1>1, <1>11
  <1>13. \A i : Offset(i)' = Offset(i)
    BY <1>0 DEF Offset
  <1>14. /\ \A s : IsPutOut(s) => IsPutOut(s)'
         /\ \A s : IsLost(s) => IsLost(s)'
         /\ IsPutOut(span)' \/ IsLost(span)'
    <2>1. \A s : IsPutOut(s) => IsPutOut(s)'
      BY <1>11
    <2>2. \A s : IsLost(s)' <=> \E i \in lost' : s.from = Offset(i)
      BY <1>13 DEF IsLost
    <2>3. \A s : IsLost(s) => IsLost(s)'
      BY <1>10, <2>2 DEF IsLost
    <2>4. IsPutOut(span)' \/ IsLost(span)'
      <3>1. CASE k = token
        BY <1>9, <1>11, <3>1
      <3>2. CASE lost' = lost \cup {from}
        BY <1>8, <2>2, <3>2
      <3> QED BY <1>10, <3>1, <3>2
    <2> QED BY <2>1, <2>3, <2>4
  <1> HIDE DEF from, to
  <1>15. TokenizersType'
    BY <1>0, <1>10, <1>11 DEF TokenizersType, Answers
  <1>16. \A i \in Fresh : tokens[i].to \in Nat /\ tokens[i].from \in Nat /\ tokens[i].to <= B[c]
    BY <1>2, <1>12 DEF UpTo, Tokens
  <1>17. /\ B' = B /\ U' = U /\ Length' = Length /\ Groups' = Groups
         /\ (Ends(b)' <=> Ends(b)) /\ \A g : SpanOfGroup(g)' = SpanOfGroup(g)
    BY <1>0, TextStays
  <1>18. \A g \in Groups : g[1] <= b =>
           \A s : s = SpanOfGroup(g) => IsPutOut(s)' \/ IsLost(s)'
    <2> SUFFICES ASSUME NEW g \in Groups, g[1] <= b, NEW s, s = SpanOfGroup(g)
                 PROVE  IsPutOut(s)' \/ IsLost(s)'
      OBVIOUS
    <2>1. CASE g[1] <= c
      BY <1>2, <1>14, <2>1 DEF UpTo
    <2>2. CASE g = new
      BY <1>8, <1>14, <2>2
    <2> QED BY <1>3, <1>8, <2>1, <2>2
  <1>19. UpTo(b)'
    <2>1. current' = U[b] /\ Ends(b)'
      BY <1>0, <1>3, <1>17
    <2>2. out'.to <= B[b]
      <3>1. out.to \in Nat /\ out.to <= B[c]
        BY <1>1, <1>2 DEF UpTo, Tokens
      <3> QED BY <1>7, <1>9, <1>10, <3>1
    <2>3. \A i \in Fresh' : tokens'[i].to <= B[b]
      <3> TAKE i \in Fresh'
      <3>1. CASE i \in Fresh
        BY <1>7, <1>12, <1>16, <3>1
      <3>2. CASE i = last /\ k.of # None
        BY <1>7, <1>9, <1>10, <1>11, <3>2
      <3> QED BY <1>11, <3>1, <3>2
    <2>4. \A i \in lost' : \E g \in Groups : g[1] <= b /\ i = U[g[1] - 1]
      <3> TAKE i \in lost'
      <3>1. CASE i \in lost
        <4>1. PICK g \in Groups : g[1] <= c /\ i = UnitsUpTo[g[1] - 1]
          BY <1>2, <3>1 DEF UpTo
        <4>2. g[1] \in 1..Length
          BY <1>1, GroupFacts
        <4> QED BY <1>4, <4>1, <4>2
      <3>2. CASE i = from
        <4>1. new \in Groups /\ new[1] <= b /\ i = U[new[1] - 1]
          BY <1>3, <1>4, <1>8, <3>2
        <4> QED BY <4>1
      <3> QED BY <1>10, <3>1, <3>2
    <2>5. \A g \in Groups' : g[1] <= b => IsPutOut(SpanOfGroup(g))' \/ IsLost(SpanOfGroup(g))'
      BY <1>17, <1>18
    <2> QED BY <1>17, <2>1, <2>2, <2>3, <2>4, <2>5 DEF UpTo
  <1>20. WcicuInvariant'
    <2>1. Decoded'
      BY <1>0, <1>1, <1>17 DEF Decoded
    <2>2. out' \in Tokens
      BY <1>1, <1>9, <1>10
    <2> QED BY <1>0, <1>1, <1>4, <1>17, <1>19, <2>1, <2>2 DEF WcicuInvariant
  <1>21. TokensOfTheText'
    <2>1. Spans' = Spans /\ Spans = {SpanOfGroup(g) : g \in Groups}
      BY <1>0, <1>17 DEF Spans, SpanOfGroup
    <2>2. \A s : IsLost(s)' <=> \E i \in lost' : s.from = Offset(i)
      BY <1>13 DEF IsLost
    <2>3. \A i \in Fresh' : \A s : s = SpanOf(tokens'[i]) => s \in Spans /\ ~IsLost(s)'
      <3> SUFFICES ASSUME NEW i \in Fresh', NEW s, s = SpanOf(tokens'[i])
                   PROVE  s \in Spans /\ ~IsLost(s)'
        OBVIOUS
      <3>1. CASE i \in Fresh
        <4>1. SpanOf(tokens[i]) \in Spans /\ ~IsLost(SpanOf(tokens[i]))
          BY <1>0, <3>1 DEF TokensOfTheText
        <4>2. PICK g \in Groups : SpanOf(tokens[i]) = SpanOfGroup(g)
          BY <2>1, <4>1
        <4>3. SpanOf(tokens[i]).from < tokens[i].to /\ SpanOf(tokens[i]).from \in Nat
          BY <1>1, <4>2, GroupFacts, SMTT(30) DEF SpanOf
        <4>4. SpanOf(tokens[i]).from # Offset(from)
          <5>1. tokens[i].to \in Nat /\ tokens[i].to <= B[a]
            BY <1>7, <1>16, <3>1
          <5>2. SpanOf(tokens[i]).from < B[a]
            BY <1>7, <4>3, <5>1
          <5> QED BY <1>7, <1>8, <4>3, <5>2
        <4> QED BY <1>10, <1>12, <2>2, <3>1, <4>1, <4>4 DEF IsLost
      <3>2. CASE i = last /\ k.of # None
        <4>1. k = token /\ lost' = lost /\ SpanOf(tokens'[i]) = span
          BY <1>9, <1>10, <1>11, <3>2
        <4>2. span \in Spans
          BY <1>3, <1>8, <2>1
        <4>3. ASSUME NEW j \in lost PROVE B[a] # Offset(j)
          <5>1. PICK g \in Groups : g[1] <= c /\ j = UnitsUpTo[g[1] - 1]
            BY <1>2 DEF UpTo
          <5>2. g[1] \in 1..Length
            BY <1>1, GroupFacts
          <5>3. g[1] - 1 \in 0..Length /\ g[1] - 1 \in 0..Len(text) /\ g[1] - 1 < a
            BY <1>1, <1>4, <5>1, <5>2
          <5>4. Offset(j) = B[g[1] - 1] /\ B[g[1] - 1] < B[a] /\ B[g[1] - 1] \in Nat
            BY <1>4, <1>5, <1>6, <5>1, <5>3
          <5> QED BY <1>7, <5>4
        <4>4. ~IsLost(span)'
          BY <1>8, <2>2, <4>1, <4>3
        <4> QED BY <4>1, <4>2, <4>4
      <3> QED BY <1>11, <3>1, <3>2
    <2>4. \A i, j \in Fresh' : i < j => tokens'[i].to <= tokens'[j].from
      <3> TAKE i, j \in Fresh'
      <3> HAVE i < j
      <3>1. CASE j \in Fresh
        <4>1. i \in Fresh
          BY <1>11, <3>1
        <4> QED BY <1>0, <1>12, <3>1, <4>1 DEF TokensOfTheText
      <3>2. CASE j = last /\ k.of # None
        <4>1. i \in Fresh
          BY <1>11, <3>2
        <4>2. tokens'[j].from = B[a]
          BY <1>9, <1>10, <1>11, <3>2
        <4> QED BY <1>7, <1>12, <1>16, <4>1, <4>2
      <3> QED BY <1>11, <3>1, <3>2
    <2>5. ASSUME NEW s \in Spans, NEW i \in Fresh', s.from < tokens'[i].from
          PROVE  IsPutOut(s)' \/ IsLost(s)'
      <3>1. CASE i \in Fresh
        <4>1. IsPutOut(s) \/ IsLost(s)
          BY <1>0, <1>12, <2>5, <3>1 DEF TokensOfTheText
        <4> QED BY <1>14, <4>1
      <3>2. CASE i = last /\ k.of # None
        <4>1. tokens'[i].from = B[a]
          BY <1>9, <1>10, <1>11, <3>2
        <4>2. PICK g \in Groups : s = SpanOfGroup(g)
          BY <2>1
        <4>3. g[1] \in 1..Length /\ B[g[1] - 1] < B[a]
          BY <1>1, <2>5, <4>1, <4>2, GroupFacts
        <4>4. g[1] - 1 \in 0..Len(text)
          BY <1>1, <4>3
        <4>5. g[1] - 1 < a
          BY <1>4, <1>5, <4>3, <4>4
        <4>6. g[1] <= b
          BY <1>4, <4>3, <4>5
        <4> QED BY <1>18, <4>2, <4>6
      <3> QED BY <1>11, <3>1, <3>2
    <2>6. ~Finished' /\ tokenizer' # "ascii"
      BY <1>0 DEF Finished
    <2> QED BY <2>1, <2>3, <2>4, <2>5, <2>6 DEF TokensOfTheText, SpanOf
  <1> QED BY <1>0, <1>15, <1>20, <1>21 DEF TokenizersInvariant

-----------------------------------------------------------------------------
(* Theorems.                                                                *)

\* The invariant holds at first.
LEMMA TokenizersInit ==
  ASSUME Init
  PROVE  TokenizersInvariant
  <1>1. /\ at = "create" /\ applied = 0 /\ aTokenChar = {} /\ is = 0 /\ input = NoInput
        /\ current = 0 /\ out = NoToken /\ lost = {} /\ tokens = <<>> /\ refused = FALSE /\ rc = "ok"
    BY DEF Init
  <1>2. \/ tokenizer = "ascii" /\ args \in Arguments /\ text \in Seq(Byte)
        \/ tokenizer = "wcicu" /\ text \in Seq(Characters)
    BY TokenizersAssumption DEF Init
  <1>3. TokenizersType
    <2> DEFINE S == Tokens
    <2> HIDE DEF S
    <2>1. <<>> \in Seq(S) /\ NoToken \in Tokens
      BY DEF NoToken, Tokens
    <2>2. tokens \in Seq(Tokens)
      BY <1>1, <2>1 DEF S
    <2> QED BY <1>1, <1>2, <2>1, <2>2 DEF TokenizersType, Steps
  <1>4. TokensOfTheText
    <2>1. Fresh = {} /\ DOMAIN tokens = {}
      BY <1>1 DEF Fresh
    <2> QED BY <1>1, <2>1 DEF TokensOfTheText, Finished
  <1>5. tokenizer = "ascii" => AsciiInvariant
    BY <1>1, <1>2, ArgumentTypes DEF AsciiInvariant
  <1>6. tokenizer = "wcicu" => WcicuInvariant
    <2>1. NoToken \in Tokens
      BY DEF NoToken, Tokens
    <2> QED BY <1>1, <2>1 DEF WcicuInvariant
  <1> QED BY <1>3, <1>4, <1>5, <1>6 DEF TokenizersInvariant

\* The invariant is about the variables alone.
LEMMA TokenizersStutter ==
  ASSUME TokenizersInvariant, UNCHANGED vars
  PROVE  TokenizersInvariant'
  <1>0. UNCHANGED <<tokenizer, args, text, at, applied, aTokenChar, is, nFold, input, current, out,
                    tokens, lost, refused, rc>>
    BY DEF vars
  <1>1. /\ Fresh' = Fresh /\ Runs' = Runs /\ Spans' = Spans /\ Groups' = Groups /\ Length' = Length
        /\ UnitsUpTo' = UnitsUpTo /\ BytesUpTo' = BytesUpTo
    BY <1>0 DEF Fresh, Runs, Spans, Groups, Length, UnitsUpTo, BytesUpTo, IsTokenChar, Mentions
  <1>2. /\ \A span : (IsPutOut(span)' <=> IsPutOut(span)) /\ (IsLost(span)' <=> IsLost(span))
        /\ \A b : IsTokenChar(b)' <=> IsTokenChar(b)
        /\ \A c : UpTo(c)' <=> UpTo(c)
    <2>1. /\ \A span : (IsPutOut(span)' <=> IsPutOut(span)) /\ (IsLost(span)' <=> IsLost(span))
          /\ \A b : IsTokenChar(b)' <=> IsTokenChar(b)
      BY <1>0, <1>1 DEF IsPutOut, IsLost, Offset, SpanOf, IsTokenChar, Mentions
    <2>2. /\ \A j : Ends(j)' <=> Ends(j)
          /\ \A g : SpanOfGroup(g)' = SpanOfGroup(g)
      BY <1>0, TextStays
    <2> QED BY <1>0, <1>1, <2>1, <2>2 DEF UpTo
  <1>3. TokenizersType'
    BY <1>0 DEF TokenizersInvariant, TokenizersType
  <1>4. TokensOfTheText'
    <2>1. \A i : Folded(tokens[i].from, tokens[i].to)' = Folded(tokens[i].from, tokens[i].to)
      BY <1>0 DEF Folded
    <2>2. Finished' <=> Finished
      BY <1>0 DEF Finished
    <2> QED BY <1>0, <1>1, <1>2, <2>1, <2>2 DEF TokenizersInvariant, TokensOfTheText, SpanOf
  <1>5. AsciiInvariant => AsciiInvariant'
    <2>1. \A b : IsTokenCharAfter(applied, b)' <=> IsTokenCharAfter(applied, b)
      BY <1>0 DEF IsTokenCharAfter, MentionsUpTo, Mentions
    <2>2. MayStart(is)' <=> MayStart(is)
      BY <1>0, <1>2 DEF MayStart
    <2> QED BY <1>0, <1>1, <1>2, <2>1, <2>2 DEF AsciiInvariant
  <1>6. WcicuInvariant => WcicuInvariant'
    <2>1. Decoded' <=> Decoded
      BY <1>0, <1>1 DEF Decoded
    <2> QED BY <1>0, <1>1, <1>2, <2>1 DEF WcicuInvariant
  <1> QED BY <1>0, <1>3, <1>4, <1>5, <1>6 DEF TokenizersInvariant

\* The inductive invariant: what the table, the buffer and the cursor hold of the
\* arguments and of the text, and what has been put out of all that lies before.
THEOREM TokenizersInvariantHolds == Spec => []TokenizersInvariant
  <1>1. Init => TokenizersInvariant
    BY TokenizersInit
  <1>2. TokenizersInvariant /\ [Next]_vars => TokenizersInvariant'
    BY AsciiCreateStep, AsciiArgumentStep, AsciiCreatedStep, AsciiTokenStep, AsciiReturnsStep,
       WcicuOpenStep, WcicuDecodeStep, WcicuOpenedStep, WcicuTokenStep, WcicuExhaustedStep,
       WcicuReturnsStep, TokenizersStutter DEF Next
  <1> QED
    BY <1>1, <1>2, PTL DEF Spec

\* The tokens put out are those of the text, whatever its length, the arguments,
\* the answers of xToken and the failures.
THEOREM TokensAreOfTheText == Spec => []TokensOfTheText
  <1>1. TokenizersInvariant => TokensOfTheText
    BY DEF TokenizersInvariant
  <1> QED
    BY <1>1, TokenizersInvariantHolds, PTL

\* A refusal of xToken ends the ascii tokenizer, with its answer as the result.
THEOREM RefusalAlwaysEndsAscii == Spec => RefusalEndsAscii
  <1> DEFINE A == tokenizer = "ascii" /\ at = "tokenize" /\ rc # "ok" =>
                    /\ tokens' = tokens
                    /\ at' = "returned" /\ rc' = Result(rc)
  <1>1. [Next]_vars => [A]_vars
    <2> SUFFICES ASSUME Next, tokenizer = "ascii", at = "tokenize", rc # "ok"
                 PROVE  tokens' = tokens /\ at' = "returned" /\ rc' = Result(rc)
      OBVIOUS
    <2>1. AsciiReturns
      BY DEF Next, Fts5AsciiCreate, AsciiArgument, AsciiCreated, AsciiToken, AsciiGoesOn,
             Fts5WcicuOpen, WcicuDecode, WcicuOpened, WcicuToken, WcicuExhausted, WcicuReturns
    <2> QED BY <2>1 DEF AsciiReturns, Returns
  <1> QED
    BY <1>1, PTL DEF Spec, RefusalEndsAscii
=============================================================================
