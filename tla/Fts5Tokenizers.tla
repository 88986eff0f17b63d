--------------------------- MODULE Fts5Tokenizers ---------------------------
(***************************************************************************)
(* The two full-text tokenizers of the native library (ascii_tokenizer.c,  *)
(* wcicu_tokenizer.c), run on any short text: FTS5 creates one with its    *)
(* arguments and hands it a text; it calls xToken for every token it finds *)
(* and returns.  A step is one round of the tokenizer's main loop.         *)
(*                                                                         *)
(* The ascii tokenizer works on bytes.  The wcicu tokenizer decodes UTF-8  *)
(* to UTF-16, has ICU cut it up and gives offsets in the UTF-8 text.  It   *)
(* asks ICU for UBRK_CHARACTER boundaries, whose rule status is always 0,  *)
(* so its code for ideographic words never runs and is left out.  What a   *)
(* token reads after normalisation and case folding stands for itself.     *)
(***************************************************************************)
EXTENDS Integers, SequencesExt, FiniteSetsExt

CONSTANTS
  Byte, HighBytes,   \* bytes, and those with the top bit set
  Alphanumeric,      \* those aAsciiTokenChar marks
  Lower,             \* asciiFold of a byte
  Arguments,         \* argument lists the ascii tokenizer may be created with
  Characters,        \* of each: its class, UTF-8 bytes and UTF-16 units
  AsciiTexts, WcicuTexts, \* the texts
  FoldBuffer,        \* sizeof(aFold)
  None               \* an array element nobody assigned

Classes == {"letter", "mark", "ignored", "nul", "bad"}

ASSUME TokenizersAssumption ==
  /\ HighBytes \cup Alphanumeric \subseteq Byte /\ Lower \in [Byte -> Byte]
  /\ AsciiTexts \subseteq Seq(Byte) /\ WcicuTexts \subseteq Seq(Characters)
  /\ Arguments \subseteq [odd : BOOLEAN, pairs : Seq([name : STRING, bytes : SUBSET Byte])]
  /\ Characters \subseteq [class : Classes, bytes : 1..4, units : 1..2]
  /\ FoldBuffer \in Nat \ {0}
  /\ None \notin Seq(Byte) /\ None \notin Seq(Classes \cup {"trail"})

VARIABLES
  tokenizer,  \* "ascii" or "wcicu"
  args, text, \* what FTS5 passes
  at,         \* "create", "arguments", "decode", "tokenize" or "returned"
  applied,    \* argument pairs the ascii tokenizer has gone through
  aTokenChar, \* the bytes the ascii tokenizer takes for token characters
  is,         \* ascii: where the next token is looked for
  nFold,      \* ascii: the size of the buffer behind pFold
  input,      \* wcicu: in_buffer and in_offset, the bytes and characters read
  current,    \* wcicu: ubrk_current
  out,        \* wcicu: pToken and its offsets
  tokens,     \* the calls of xToken
  lost,       \* where tokens start that could not be put out
  refused,    \* xToken has answered something else than SQLITE_OK
  rc          \* result code

vars == <<tokenizer, args, text, at, applied, aTokenChar, is, nFold, input, current, out,
          tokens, lost, refused, rc>>
asciiVars == <<applied, aTokenChar, is, nFold>>
wcicuVars == <<input, current, out, lost>>

NoToken == [of |-> <<>>, from |-> 0, to |-> 0]
NoInput == [buffer |-> <<>>, offset |-> [i \in {0} |-> 0], bytes |-> 0, read |-> 0]

Init ==
  /\ \/ tokenizer = "ascii" /\ args \in Arguments /\ text \in AsciiTexts
     \/ tokenizer = "wcicu" /\ args = <<>> /\ text \in WcicuTexts
  /\ at = "create"
  /\ applied = 0 /\ aTokenChar = {} /\ is = 0 /\ nFold = FoldBuffer
  /\ input = NoInput /\ current = 0 /\ out = NoToken /\ lost = {}
  /\ tokens = <<>> /\ refused = FALSE /\ rc = "ok"

\* xToken answers, or the tokenizer returns.
Answers == {"ok", "done", "error"}
Calls(token, fresh) ==
  /\ tokens' = Append(tokens, [token EXCEPT !.of = IF fresh THEN @ ELSE None])
  /\ rc' \in Answers
  /\ refused' = (refused \/ rc' # "ok")
Returns(code) == at' = "returned" /\ rc' = code /\ UNCHANGED refused
Result(code) == IF code = "done" THEN "ok" ELSE code

----------------------------------------------------------------------------
(* The ascii tokenizer.                                                    *)

\* fts5AsciiAddExceptions: bytes with the top bit set are passed over.
AddExceptions(table, bytes, isToken) ==
  IF isToken THEN table \cup (bytes \ HighBytes) ELSE table \ (bytes \ HighBytes)

Fts5AsciiCreate ==
  /\ tokenizer = "ascii" /\ at = "create"
  /\ \/ args.odd /\ Returns("error") /\ UNCHANGED aTokenChar
     \/ ~args.odd /\ Returns("nomem") /\ UNCHANGED aTokenChar
     \/ /\ ~args.odd
        /\ aTokenChar' = Alphanumeric
        /\ at' = "arguments"
        /\ UNCHANGED <<refused, rc>>
  /\ UNCHANGED <<tokenizer, args, text, applied, is, nFold, wcicuVars, tokens>>

\* Arguments come in pairs: a name, and the bytes it is about.
AsciiArgument ==
  LET pair == args.pairs[applied + 1]
  IN  /\ tokenizer = "ascii" /\ at = "arguments"
      /\ applied < Len(args.pairs)
      /\ \/ /\ pair.name \in {"tokenchars", "separators"}
            /\ aTokenChar' = AddExceptions(aTokenChar, pair.bytes, pair.name = "tokenchars")
            /\ applied' = applied + 1
            /\ UNCHANGED <<at, refused, rc>>
         \/ /\ pair.name \notin {"tokenchars", "separators"}
            /\ Returns("error")
            /\ UNCHANGED <<applied, aTokenChar>>
      /\ UNCHANGED <<tokenizer, args, text, is, nFold, wcicuVars, tokens>>

AsciiCreated ==
  /\ tokenizer = "ascii" /\ at = "arguments"
  /\ applied = Len(args.pairs)
  /\ at' = "tokenize"
  /\ UNCHANGED <<tokenizer, args, text, asciiVars, wcicuVars, tokens, refused, rc>>

IsTokenByte(i) == text[i + 1] \in HighBytes \cup aTokenChar

\* Where the token at or after position i starts, and where it ends.
Start(i) == Min({j \in i..(Len(text) - 1) : IsTokenByte(j)} \cup {Len(text)})
End(i) == Min({j \in (i + 1)..(Len(text) - 1) : ~IsTokenByte(j)} \cup {Len(text)})
Folded(i, j) == [k \in 1..(j - i) |-> Lower[text[i + k]]]

AsciiGoesOn_AfterRefusal == is < Len(text)

AsciiGoesOn == is < Len(text) /\ rc = "ok"

AsciiToken ==
  LET from == Start(is)
      to == End(from)
      size == IF to - from > nFold THEN 2 * (to - from) ELSE nFold
  IN  /\ tokenizer = "ascii" /\ at = "tokenize"
      /\ AsciiGoesOn
      /\ from < Len(text)
      /\ \/ /\ Calls([of |-> Folded(from, to), from |-> from, to |-> to], TRUE)
            /\ is' = to + 1
            /\ nFold' = size
            /\ UNCHANGED at
         \/ /\ size # nFold
            /\ Returns("nomem")
            /\ UNCHANGED <<tokens, is, nFold>>
      /\ UNCHANGED <<tokenizer, args, text, applied, aTokenChar, wcicuVars>>

AsciiReturns ==
  /\ tokenizer = "ascii" /\ at = "tokenize"
  /\ ~AsciiGoesOn \/ Start(is) = Len(text)
  /\ Returns(Result(rc))
  /\ UNCHANGED <<tokenizer, args, text, asciiVars, wcicuVars, tokens>>

----------------------------------------------------------------------------
(* The wcicu tokenizer.                                                    *)

\* U8_NEXT and U16_APPEND for one character.  The offset after it is noted at the
\* unit after it, so that the second unit of a pair has none.
AppendUnits(in, c) ==
  LET class == IF c.class = "bad" THEN "ignored" ELSE c.class
      buffer == in.buffer \o (IF c.units = 2 THEN <<class, "trail">> ELSE <<class>>)
      bytes == in.bytes + c.bytes
  IN  [buffer |-> buffer, bytes |-> bytes, read |-> in.read + 1,
       offset |-> [i \in 0..Len(buffer) |->
         IF i \in DOMAIN in.offset THEN in.offset[i]
         ELSE IF i = Len(buffer) THEN bytes ELSE None]]

\* The bytes of the first i characters, and of the text.
BytesUpTo[i \in 0..Len(text)] == IF i = 0 THEN 0 ELSE BytesUpTo[i - 1] + text[i].bytes
NText == BytesUpTo[Len(text)]

Fts5WcicuOpen ==
  /\ tokenizer = "wcicu" /\ at = "create"
  /\ \/ Returns("nomem")
     \/ at' = "decode" /\ UNCHANGED <<refused, rc>>
  /\ UNCHANGED <<tokenizer, args, text, asciiVars, wcicuVars, tokens>>

\* Decoding stops at a NUL.
DecodesOn == input.bytes < NText /\ text[input.read + 1].class # "nul"

WcicuDecode ==
  /\ tokenizer = "wcicu" /\ at = "decode"
  /\ DecodesOn
  /\ input' = AppendUnits(input, text[input.read + 1])
  /\ UNCHANGED <<tokenizer, args, text, at, asciiVars, current, out, lost, tokens, refused, rc>>

WcicuOpened ==
  /\ tokenizer = "wcicu" /\ at = "decode"
  /\ ~DecodesOn
  /\ Returns("error") \/ (at' = "tokenize" /\ UNCHANGED <<refused, rc>>)
  /\ UNCHANGED <<tokenizer, args, text, asciiVars, wcicuVars, tokens>>

\* ICU's boundaries between what a reader takes for characters: marks belong to
\* what is before them.
Units == Len(input.buffer)
IsBoundary(i) == i \in {0, Units} \/ input.buffer[i + 1] \notin {"mark", "trail"}
Boundaries == {i \in 0..Units : IsBoundary(i)}
BoundaryAfter(i) == Min({j \in Boundaries : j > i})

\* A space, a zero-width space or '*' at unit i.
IsIgnored(i) == input.buffer[i + 1] = "ignored"

Candidates == {i \in Boundaries : i >= current /\ i < Units /\ ~IsIgnored(i)}

Offset_Unit(i) == i

Offset(i) == input.offset[i]

\* What xToken answered is not looked at.
WcicuGoesOn == out.to < NText

\* output_token: NULL memory or a text that grows too long leaves the token that
\* was put out before, which xToken gets again.
WcicuToken ==
  LET from == Min(Candidates)
      to == BoundaryAfter(from)
      token == [of |-> SubSeq(input.buffer, from + 1, to),
                from |-> Offset(from), to |-> Offset(to)]
  IN  /\ tokenizer = "wcicu" /\ at = "tokenize"
      /\ WcicuGoesOn
      /\ Candidates # {}
      /\ current' = to
      /\ \/ out' = token /\ Calls(token, TRUE) /\ UNCHANGED lost
         \/ /\ Calls(out, FALSE)
            /\ lost' = lost \cup {from}
            /\ UNCHANGED out
      /\ UNCHANGED <<tokenizer, args, text, at, asciiVars, input>>

\* Nothing but ignored characters is left: the cursor and the iterator are left too.
WcicuExhausted ==
  /\ tokenizer = "wcicu" /\ at = "tokenize"
  /\ WcicuGoesOn
  /\ Candidates = {}
  /\ Returns("done")
  /\ UNCHANGED <<tokenizer, args, text, asciiVars, wcicuVars, tokens>>

WcicuReturns ==
  /\ tokenizer = "wcicu" /\ at = "tokenize"
  /\ ~WcicuGoesOn
  /\ Returns(Result(rc))
  /\ UNCHANGED <<tokenizer, args, text, asciiVars, wcicuVars, tokens>>

Next ==
  \/ Fts5AsciiCreate \/ AsciiArgument \/ AsciiCreated \/ AsciiToken \/ AsciiReturns
  \/ Fts5WcicuOpen \/ WcicuDecode \/ WcicuOpened \/ WcicuToken \/ WcicuExhausted \/ WcicuReturns

Spec == Init /\ [][Next]_vars

----------------------------------------------------------------------------
(* What the tokens of a text are, said of the text as a whole.             *)

\* ascii: the longest runs of bytes whose last mention in the arguments is under
\* tokenchars, of alphanumeric bytes no argument mentions, and of high bytes.
Mentions(b) == {i \in DOMAIN args.pairs : b \in args.pairs[i].bytes}
IsTokenChar(b) ==
  \/ b \in HighBytes
  \/ IF Mentions(b) = {} THEN b \in Alphanumeric
     ELSE args.pairs[Max(Mentions(b))].name = "tokenchars"
Runs ==
  {r \in (0..Len(text)) \X (0..Len(text)) :
     /\ r[1] < r[2] /\ \A i \in (r[1] + 1)..r[2] : IsTokenChar(text[i])
     /\ r[1] = 0 \/ ~IsTokenChar(text[r[1]])
     /\ r[2] = Len(text) \/ ~IsTokenChar(text[r[2] + 1])}
\* wcicu: every character before the first NUL, with the marks that follow it, but
\* for those ignored; each with the number of bytes before it and up to its end.
Length == Min({i \in 1..Len(text) : text[i].class = "nul"} \cup {Len(text) + 1}) - 1
Groups ==
  {g \in (1..Length) \X (1..Length) :
     /\ g[1] <= g[2] /\ \A i \in (g[1] + 1)..g[2] : text[i].class = "mark"
     /\ g[1] = 1 \/ text[g[1]].class # "mark"
     /\ g[2] = Length \/ text[g[2] + 1].class # "mark"
     /\ text[g[1]].class \notin {"ignored", "bad"}}

Spans ==
  IF tokenizer = "ascii" THEN {[from |-> r[1], to |-> r[2]] : r \in Runs}
  ELSE {[from |-> BytesUpTo[g[1] - 1], to |-> BytesUpTo[g[2]]] : g \in Groups}

----------------------------------------------------------------------------
(* Properties.                                                             *)

Fresh == {i \in DOMAIN tokens : tokens[i].of # None}
SpanOf(token) == [from |-> token.from, to |-> token.to]
IsPutOut(span) == \E i \in Fresh : SpanOf(tokens[i]) = span
IsLost(span) == \E i \in lost : span.from = Offset(i)

\* The tokenizer returned without an error (ascii: and was not asked to stop).
Finished ==
  /\ at = "returned"
  /\ IF tokenizer = "ascii" THEN rc = "ok" /\ ~refused ELSE rc \in {"ok", "done"}

\* The tokens put out are those of the text, each with the bytes it was found at
\* (snippets and highlights cut the text there), in order, one after the other and
\* without a gap, but for those output_token failed on; and all of them, once the
\* tokenizer has finished.  The ascii tokenizer puts them out in lower case.
TokensOfTheText ==
  /\ \A i \in Fresh : SpanOf(tokens[i]) \in Spans /\ ~IsLost(SpanOf(tokens[i]))
  /\ \A i, j \in Fresh : i < j => tokens[i].to <= tokens[j].from
  /\ \A span \in Spans :
       Finished \/ (\E i \in Fresh : span.from < tokens[i].from) => IsPutOut(span) \/ IsLost(span)
  /\ tokenizer = "ascii" =>
       \A i \in DOMAIN tokens : tokens[i].of = Folded(tokens[i].from, tokens[i].to)

\* ascii: when xToken refuses a token, it is called no more, and its answer is what
\* the tokenizer returns; SQLITE_DONE counts as success.
RefusalEndsAscii ==
  [][tokenizer = "ascii" /\ at = "tokenize" /\ rc # "ok" =>
       /\ tokens' = tokens
       /\ at' = "returned" /\ rc' = Result(rc)]_vars

\* Not so: wcicu goes on after a refusal, and returns SQLITE_DONE for a text that
\* ends with ignored characters, which FTS5 reserves for its callback.
WcicuKeepsContract ==
  [][tokenizer = "wcicu" /\ at = "tokenize" =>
       /\ rc # "ok" => tokens' = tokens
       /\ at' = "returned" => rc' # "done"]_vars
=============================================================================
