------------------------- MODULE MCFts5Tokenizers -------------------------
(* An instance of Fts5Tokenizers for TLC. *)
EXTENDS Fts5Tokenizers

CONSTANTS upper, lower, dash, space, high

\* Bytes 'A', 'a', '-', ' ' and one that is not ASCII.
Bytes == {upper, lower, dash, space, high}
LowerOf == [b \in Bytes |-> IF b = upper THEN lower ELSE b]
Pair(name, bytes) == [name |-> name, bytes |-> bytes]
TokenDash == Pair("tokenchars", {dash})
SeparateDash == Pair("separators", {dash, upper, high})
ArgumentLists ==
  {[odd |-> FALSE, pairs |-> p] : p \in
     {<<>>, <<TokenDash>>, <<SeparateDash>>, <<TokenDash, SeparateDash>>,
      <<SeparateDash, TokenDash>>, <<Pair("remove", {dash})>>}}
  \cup {[odd |-> TRUE, pairs |-> <<>>]}

Char(class, bytes, units) == [class |-> class, bytes |-> bytes, units |-> units]
\* A Chinese character, one outside the basic plane, a combining mark, a space, a
\* NUL and a byte that is not UTF-8.
CharacterSet ==
  {Char("letter", 3, 1), Char("letter", 4, 2), Char("mark", 2, 1),
   Char("ignored", 1, 1), Char("nul", 1, 1), Char("bad", 1, 1)}

BytesToFour == BoundedSeq(Bytes, 4)
CharactersToFour == BoundedSeq(CharacterSet, 4)
===========================================================================
