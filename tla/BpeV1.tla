------------------------------- MODULE BpeV1 -------------------------------
(***************************************************************************)
(* The first tokenizer (bpe_tokenizer.cpp): characters of the training     *)
(* text, then merges of words split at whitespace, a word that is not the  *)
(* first led by "_". A token is its bytes; pad, eos and unk are spelled    *)
(* <<-1>>, <<-2>>, <<-3>>, so no text spells them. The pair counts are kept *)
(* the way the code keeps them, word by word in hash order, and a tie for  *)
(* the most frequent pair is settled by hash order: either may happen.     *)
(***************************************************************************)
EXTENDS Integers, SequencesExt, FiniteSetsExt

VARIABLES
  job,      \* [text, merges, prompt]: learn up to merges tokens from text, encode prompt
  pc,       \* "train" or "trained"
  words,    \* [word -> [symbols, freq]]
  pairs,    \* pair_counts
  merges,
  out,      \* encode(prompt)
  vocab,    \* [token -> id]
  spelling  \* id_to_token

v1vars == <<job, pc, words, pairs, merges, out, vocab, spelling>>

InOrder(S) == [k \in 1..Cardinality(S) |-> CHOOSE x \in S : Cardinality({y \in S : y <= x}) = k]

Blank == {32} \cup 9..13
Underscore == 95

Pad == <<0 - 1>>
Eos == <<0 - 2>>
Unk == <<0 - 3>>

\* istream >> word, "_" before every word but the first.
SplitWords(text) ==
  LET starts == InOrder({i \in DOMAIN text : text[i] \notin Blank /\ (i = 1 \/ text[i - 1] \in Blank)})
      end(i) == CHOOSE j \in i..Len(text) :
                  /\ \A k \in i..j : text[k] \notin Blank
                  /\ j = Len(text) \/ text[j + 1] \in Blank
      raw(n) == SubSeq(text, starts[n], end(starts[n]))
  IN  [n \in DOMAIN starts |-> IF n = 1 THEN raw(n) ELSE <<Underscore>> \o raw(n)]

Singles(word) == [i \in DOMAIN word |-> <<word[i]>>]

\* The characters of the text, newlines and tabs included, in order from id 3.
Characters(text) == InOrder({Underscore} \cup (ToSet(text) \ {32}))

CountOf(f, x) == IF x \in DOMAIN f THEN f[x] ELSE 0
Less(f, x, n) ==
  IF CountOf(f, x) <= n THEN [y \in DOMAIN f \ {x} |-> f[y]] ELSE [f EXCEPT ![x] = @ - n]
Put(f, x, v) == [y \in {x} \cup DOMAIN f |-> IF y = x THEN v ELSE f[y]]
More(f, x, n) == Put(f, x, CountOf(f, x) + n)

Pairs(s) == {<<s[i], s[i + 1]>> : i \in 1..(Len(s) - 1)}

V1Init ==
  /\ pc = "train" /\ merges = <<>> /\ out = <<>>
  /\ LET split == SplitWords(job.text)
         chars == Characters(job.text)
         freq(w) == Cardinality({n \in DOMAIN split : split[n] = w})
         count(ws, p) == MapThenSumSet(LAMBDA w : ws[w].freq
                           * Cardinality({i \in 1..(Len(w) - 1) : <<<<w[i]>>, <<w[i + 1]>>>> = p}), DOMAIN ws)
     IN  /\ words = [w \in ToSet(split) |-> [symbols |-> Singles(w), freq |-> freq(w)]]
         /\ pairs = [p \in UNION {Pairs(words[w].symbols) : w \in DOMAIN words} |-> count(words, p)]
         /\ spelling = [id \in 0..(2 + Len(chars)) |->
                          CASE id = 0 -> Pad [] id = 1 -> Eos [] id = 2 -> Unk [] OTHER -> <<chars[id - 2]>>]
         /\ vocab = [t \in Range(spelling) |-> CHOOSE id \in DOMAIN spelling : spelling[id] = t]

Joined(pair) == pair[1] \o pair[2]

\* The places where the scan of a word joins the pair: where it stands, unless its
\* left token was just joined.
Taken(w, pair) ==
  LET t[i \in 0..Len(w)] == i \in 1..(Len(w) - 1) /\ <<w[i], w[i + 1]>> = pair /\ ~t[i - 1]
  IN  {i \in 1..Len(w) : t[i]}

Merged(w, pair) ==
  LET taken == Taken(w, pair)
  IN  FlattenSeq([i \in DOMAIN w |-> IF i \in taken THEN <<Joined(pair)>>
                                     ELSE IF i - 1 \in taken THEN <<>> ELSE <<w[i]>>])

\* What joining the pair at i does to the counts: its neighbours are read from the
\* word as it was.
Recount(w, freq, pair, i, counts) ==
  LET c1 == IF i > 1 THEN Less(counts, <<w[i - 1], w[i]>>, freq) ELSE counts
      c2 == IF i + 2 <= Len(w) THEN Less(c1, <<w[i + 1], w[i + 2]>>, freq) ELSE c1
      c3 == IF i > 1 THEN More(c2, <<w[i - 1], Joined(pair)>>, freq) ELSE c2
  IN  IF i + 2 <= Len(w) THEN More(c3, <<Joined(pair), w[i + 2]>>, freq) ELSE c3

\* The words one after the other, in the hash table's order, each from left to right.
Joins(order, pair) ==
  FlattenSeq([n \in DOMAIN order |->
    LET at == InOrder(Taken(words[order[n]].symbols, pair)) IN [k \in DOMAIN at |-> <<order[n], at[k]>>]])
Recounted(order, pair) ==
  LET joins == Joins(order, pair)
      after[k \in 0..Len(joins)] ==
        IF k = 0 THEN [p \in DOMAIN pairs \ {pair} |-> pairs[p]]
        ELSE Recount(words[joins[k][1]].symbols, words[joins[k][1]].freq, pair, joins[k][2], after[k - 1])
  IN  after[Len(joins)]

Room1 == Cardinality(DOMAIN vocab) < Len(Characters(job.text)) + 3 + job.merges

\* One turn of the training loop. The next id grows with every merge, the
\* vocabulary only when the token is new.
V1Merge ==
  /\ pc = "train" /\ Room1
  /\ \E pair \in {p \in DOMAIN pairs : \A q \in DOMAIN pairs : pairs[q] <= pairs[p]},
        order \in SetToSeqs(DOMAIN words) :
       LET id == Cardinality(DOMAIN spelling)
       IN  /\ merges' = Append(merges, pair)
           /\ words' = [w \in DOMAIN words |-> [words[w] EXCEPT !.symbols = Merged(@, pair)]]
           /\ pairs' = Recounted(order, pair)
           /\ vocab' = Put(vocab, Joined(pair), id)
           /\ spelling' = Put(spelling, id, Joined(pair))
  /\ UNCHANGED <<job, pc, out>>

\* encode of a word: every merge in the order it was learned.
Apply(ms, word) ==
  LET after[k \in 0..Len(ms)] == IF k = 0 THEN Singles(word) ELSE Merged(after[k - 1], ms[k])
  IN  after[Len(ms)]

Lookup(v, t) == IF t \in DOMAIN v THEN v[t] ELSE 2

EncodeV1(v, ms, text) ==
  FlattenSeq([n \in DOMAIN SplitWords(text) |->
    LET w == Apply(ms, SplitWords(text)[n]) IN [k \in DOMAIN w |-> Lookup(v, w[k])]])

DecodeV1(sp, ids) ==
  LET bytes == FlattenSeq([k \in DOMAIN ids |-> sp[ids[k]]])
  IN  [i \in DOMAIN bytes |-> IF bytes[i] = Underscore THEN 32 ELSE bytes[i]]

\* The vocabulary is full or no pair is left; the prompt is encoded.
V1Encode ==
  /\ pc = "train" /\ (~Room1 \/ DOMAIN pairs = {})
  /\ pc' = "trained" /\ out' = EncodeV1(vocab, merges, job.prompt)
  /\ UNCHANGED <<job, words, pairs, merges, vocab, spelling>>
-----------------------------------------------------------------------------
(* The cache file: the vocabulary in any order, here that of its ids, the  *)
(* merges.                                                                 *)

SaveV1(v, ms) ==
  LET ids == InOrder(Range(v))
      order == [k \in DOMAIN ids |-> CHOOSE t \in DOMAIN v : v[t] = ids[k]]
  IN  <<Len(order)>> \o FlattenSeq([k \in DOMAIN order |-> <<order[k], v[order[k]]>>])
      \o <<Len(ms)>> \o FlattenSeq(ms)

\* Slip: the tokens are numbered by their place in the file, as if no id were missing.
LoadV1ByPlace(f) ==
  LET n == f[1]
      m == f[2 * n + 2]
  IN  IF Len(f) >= 1 /\ Len(f) >= 2 * n + 2 /\ Len(f) >= 2 * n + 2 + 2 * m
      THEN [vocab |-> [t \in {f[2 * k] : k \in 1..n} |-> (CHOOSE k \in 1..n : f[2 * k] = t) - 1],
            spelling |-> [id \in 0..(n - 1) |-> f[2 * (id + 1)]],
            merges |-> [k \in 1..m |-> <<f[2 * n + 2 * k + 1], f[2 * n + 2 * k + 2]>>]]
      ELSE "refused"

\* load(): all of it, or nothing is taken over. The table of ids is made anew from
\* the vocabulary: it has no id that no token has any more.
LoadV1(f) ==
  LET n == f[1]
      m == f[2 * n + 2]
  IN  IF Len(f) >= 1 /\ Len(f) >= 2 * n + 2 /\ Len(f) >= 2 * n + 2 + 2 * m
      THEN [vocab |-> [t \in {f[2 * k] : k \in 1..n} |-> f[2 * (CHOOSE k \in 1..n : f[2 * k] = t) + 1]],
            spelling |-> [id \in {f[2 * k + 1] : k \in 1..n} |-> f[2 * (CHOOSE k \in 1..n : f[2 * k + 1] = id)]],
            merges |-> [k \in 1..m |-> <<f[2 * n + 2 * k + 1], f[2 * n + 2 * k + 2]>>]]
      ELSE "refused"

\* v1_fingerprint: the table in the order of its ids, and the merges.
Fingerprint1(sp, ms) == <<"fingerprint", sp, ms>>
-----------------------------------------------------------------------------
(* Properties *)

\* Encoding agrees with training: a word of the training text gets the tokens
\* training left it with, although the counts behind the merges may be off.
WordsAgree == pc = "trained" => \A w \in DOMAIN words : Apply(merges, w) = words[w].symbols

\* Decoding gives the words back, one space between them, "_" as a space.
WordsSurvive ==
  LET split == SplitWords(job.prompt)
      known == \A i \in DOMAIN job.prompt : job.prompt[i] \in Blank \cup ToSet(job.text)
      plain == FlattenSeq(split)
  IN  pc = "trained" /\ known =>
        DecodeV1(spelling, out) = [i \in DOMAIN plain |-> IF plain[i] = Underscore THEN 32 ELSE plain[i]]

\* Two merges made the same token: the first of its ids is in the table alone.
MergedTwice == \E j, k \in DOMAIN merges : j # k /\ Joined(merges[j]) = Joined(merges[k])

\* A file gives its vocabulary and merges back, and what was encoded is decoded as
\* before. Its table has lost the ids no token has any more, so the fingerprint is the
\* saved one's only if no token was merged twice. A file cut short never loads.
ReloadsV1 ==
  LET file == SaveV1(vocab, merges)
      loaded == LoadV1(file)
  IN  pc = "trained" =>
        /\ loaded.vocab = vocab /\ loaded.merges = merges
        /\ DecodeV1(loaded.spelling, out) = DecodeV1(spelling, out)
        /\ Fingerprint1(loaded.spelling, loaded.merges) = Fingerprint1(spelling, merges) <=> ~MergedTwice
        /\ \A n \in 0..(Len(file) - 1) : LoadV1(SubSeq(file, 1, n)) = "refused"

\* tokenizer.h: "Number of token ids; every id encode returns is below it."
IdsInVocab == pc = "trained" => \A k \in DOMAIN out : out[k] < Cardinality(DOMAIN vocab)
=============================================================================
