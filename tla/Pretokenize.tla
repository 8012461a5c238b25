---------------------------- MODULE Pretokenize ----------------------------
(***************************************************************************)
(* The pre-tokenizer (pretokenize.cpp): a hand-written matcher for         *)
(*   's|'t|'re|'ve|'m|'ll|'d| ?\p{L}+| ?\p{N}+| ?[^\s\p{L}\p{N}]+          *)
(*   |\s+(?!\S)|\s+                                                        *)
(* over UTF-8, where every byte of an invalid sequence is a code point of  *)
(* its own of class Other. A text is a sequence of bytes; positions are    *)
(* 1-based and ends exclusive.                                             *)
(***************************************************************************)
EXTENDS Naturals, Sequences

CONSTANTS Letters, Numbers    \* code points from U+0080 on (unicode_tables.h)

\* Its 256 values.
Byte == 0..255

\* A loop: step applied n times to x. Where there is nothing left to do a step
\* changes nothing, so n need only be large enough.
Repeat(step, n, x) ==
  LET after[k \in 0..n] == IF k = 0 THEN x ELSE step[after[k - 1]]
  IN  after[n]

Spaces == {133, 160, 5760} \cup 8192..8202 \cup {8232, 8233, 8239, 8287, 12288}

AsciiClass(c) ==
  CASE c \in 65..90 \cup 97..122 -> "letter"
    [] c \in 48..57 -> "number"
    [] c \in {32} \cup 9..13 -> "space"
    [] OTHER -> "other"

Classify(cp) ==
  IF cp < 128 THEN AsciiClass(cp)
  ELSE IF cp \in Spaces THEN "space"
  ELSE IF cp \in Letters THEN "letter"
  ELSE IF cp \in Numbers THEN "number" ELSE "other"

\* The length a lead byte announces (0: not a lead byte) and the range its second
\* byte must have: no overlongs, no surrogates, nothing past U+10FFFF.
LeadLength(b) == CASE b \in 194..223 -> 2 [] b \in 224..239 -> 3 [] b \in 240..244 -> 4 [] OTHER -> 0
SecondBytes(b) == CASE b = 224 -> 160..191 [] b = 237 -> 128..159
                    [] b = 240 -> 144..191 [] b = 244 -> 128..143 [] OTHER -> 128..191

\* decode(): the code point at text[p].
DecodeAt(text, p) ==
  LET b == text[p]
      n == LeadLength(b)
      tail(k) == text[p + k] - 128
      whole == /\ n > 0 /\ p + n - 1 <= Len(text) /\ text[p + 1] \in SecondBytes(b)
               /\ \A k \in 2..(n - 1) : text[p + k] \in 128..191
      cp == CASE n = 2 -> (b - 192) * 64 + tail(1)
              [] n = 3 -> ((b - 224) * 64 + tail(1)) * 64 + tail(2)
              [] OTHER -> (((b - 240) * 64 + tail(1)) * 64 + tail(2)) * 64 + tail(3)
  IN  IF b < 128 THEN [length |-> 1, cls |-> AsciiClass(b)]
      ELSE IF ~whole THEN [length |-> 1, cls |-> "other"]
      ELSE [length |-> n, cls |-> Classify(cp)]

In(text, p, classes) == p <= Len(text) /\ DecodeAt(text, p).cls \in classes
After(text, p) == p + DecodeAt(text, p).length

\* The end of the longest run of class cls from p on, and its last code point.
RunStep(text, cls) == [q \in Nat |-> IF In(text, q, {cls}) THEN After(text, q) ELSE q]
RunEnd(text, p, cls) == Repeat(RunStep(text, cls), Len(text), p)

LastStep(text) == [q \in Nat |-> IF In(text, After(text, q), {"space"}) THEN After(text, q) ELSE q]
LastOfRun(text, p) == Repeat(LastStep(text), Len(text), p)

Contraction(text, p) ==
  LET at(k) == IF p + k <= Len(text) THEN text[p + k] ELSE 0
      two == at(1) \in {115, 116, 109, 100}                                  \* s t m d
      three == <<at(1), at(2)>> \in {<<114, 101>>, <<118, 101>>, <<108, 108>>}  \* re ve ll
  IN  IF at(0) = 39 /\ two THEN 2 ELSE IF at(0) = 39 /\ three THEN 3 ELSE 0

\* Slip: a whitespace run before a word goes to one piece, the last space included.
NextBoundaryGreedy(text, p) ==
  LET lead == IF text[p] = 32 /\ p < Len(text) /\ DecodeAt(text, p + 1).cls # "space" THEN p + 1 ELSE p
      c == DecodeAt(text, lead)
  IN  IF Contraction(text, p) > 0 THEN p + Contraction(text, p)
      ELSE RunEnd(text, lead, c.cls)

\* next_boundary: the end of the piece that starts at p.
NextBoundary(text, p) ==
  LET lead == IF text[p] = 32 /\ p < Len(text) /\ DecodeAt(text, p + 1).cls # "space" THEN p + 1 ELSE p
      c == DecodeAt(text, lead)
      end == RunEnd(text, p, "space")
  IN  IF Contraction(text, p) > 0 THEN p + Contraction(text, p)
      ELSE IF c.cls # "space" THEN RunEnd(text, lead + c.length, c.cls)
      ELSE IF end > Len(text) \/ end = p + c.length THEN end
      ELSE LastOfRun(text, p)

\* split(): the pieces of a text.
CutTo(text, s, q) == [at |-> q, pieces |-> Append(s.pieces, SubSeq(text, s.at, q - 1))]
PieceStep(text) ==
  [s \in [at : Nat, pieces : Seq(Seq(Nat))] |->
     IF s.at > Len(text) THEN s ELSE CutTo(text, s, NextBoundary(text, s.at))]
Pieces(text) == Repeat(PieceStep(text), Len(text), [at |-> 1, pieces |-> <<>>]).pieces
-----------------------------------------------------------------------------
(* The pattern itself, as its alternatives over code points: the set of    *)
(* ends each can reach, the first that reaches any, its longest.           *)

EndsStep(text, classes) ==
  [s \in [at : Nat, ends : SUBSET Nat] |->
     IF In(text, s.at, classes)
     THEN [at |-> After(text, s.at), ends |-> s.ends \cup {After(text, s.at)}] ELSE s]
Ends(text, p, classes) == Repeat(EndsStep(text, classes), Len(text), [at |-> p, ends |-> {}]).ends

PatternEnds(text, p) ==
  LET opt(cls) == Ends(text, p, {cls}) \cup (IF text[p] = 32 THEN Ends(text, p + 1, {cls}) ELSE {})
      word(s) == p + Len(s) - 1 <= Len(text) /\ SubSeq(text, p, p + Len(s) - 1) = s
  IN  <<{p + Len(s) : s \in {t \in {<<39, 115>>, <<39, 116>>, <<39, 114, 101>>, <<39, 118, 101>>,
                                    <<39, 109>>, <<39, 108, 108>>, <<39, 100>>} : word(t)}},
        opt("letter"), opt("number"), opt("other"),
        {q \in Ends(text, p, {"space"}) : q > Len(text) \/ DecodeAt(text, q).cls = "space"},
        Ends(text, p, {"space"})>>

PatternEnd(text, p) ==
  LET alts == PatternEnds(text, p)
      k == CHOOSE k \in 1..6 : alts[k] # {} /\ \A j \in 1..(k - 1) : alts[j] = {}
  IN  CHOOSE q \in alts[k] : \A r \in alts[k] : r <= q
=============================================================================
