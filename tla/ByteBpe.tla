------------------------------ MODULE ByteBpe ------------------------------
(***************************************************************************)
(* The byte-level BPE (byte_bpe.cpp): learning merges with a heap whose    *)
(* out-of-date entries are dropped when they surface, encoding a piece by  *)
(* a scan or by a heap over a linked list, encoding a text through a       *)
(* bounded cache, or in chunks, and the tokenizer file. Tokens are the 256 *)
(* bytes, one per merge, then the specials.                                *)
(***************************************************************************)
EXTENDS Pretokenize, SequencesExt, FiniteSetsExt

CONSTANTS
  Jobs,         \* records [kind, text, merges, prompt, reply]: learn merges tokens from
                \* text, encode prompt, have it continued if reply
  Specials,     \* sequence of special tokens
  SmallPiece,   \* kSmallPiece: longer pieces go through the heap
  CacheLimit    \* kCacheLimit

ASSUME ByteBpeAssumption ==
  /\ SmallPiece \in Nat /\ CacheLimit \in Nat \ {0}
  /\ Specials \in Seq(Seq(Byte) \ {<<>>}) /\ IsInjective(Specials)
  /\ \A j \in Jobs : j.text \in Seq(Byte) /\ j.merges \in Nat /\ j.prompt \in Seq(Byte)

VARIABLES
  job,      \* from Jobs
  pc,       \* "learn", "encode" or "done"
  words,    \* [piece of two bytes or more -> its symbols]
  pairs,    \* pair_counts: [pair -> its count], only pairs that occur
  where,    \* [pair -> pieces that may contain it]
  heap,     \* entries [count, pair]
  merges,   \* the pairs merged so far
  rest,     \* what is left to encode: pieces and specials
  out,      \* token ids
  cache     \* EncodeCache: [index |-> [piece -> <<offset, length>>], ids]

vars == <<job, pc, words, pairs, where, heap, merges, rest, out, cache>>

At(f, x) == IF x \in DOMAIN f THEN f[x] ELSE 0

\* The bytes of each token.
BytesOf(ms) ==
  LET b[id \in 0..(255 + Len(ms))] ==
        IF id < 256 THEN <<id>> ELSE b[ms[id - 255][1]] \o b[ms[id - 255][2]]
  IN  b
-----------------------------------------------------------------------------
(* Specials and pieces *)

Occurs(text, s, k) == k + Len(s) - 1 <= Len(text) /\ SubSeq(text, k, k + Len(s) - 1) = s

\* SpecialFinder::find: the earliest special at or after from, the longest on a
\* tie; <<Len(text) + 1, 0>> when there is none.
FindSpecial(text, from) ==
  LET hits == {h \in (from..Len(text)) \X DOMAIN Specials : Occurs(text, Specials[h[2]], h[1])}
  IN  IF hits = {} THEN <<Len(text) + 1, 0>>
      ELSE CHOOSE h \in hits : \A g \in hits :
             \/ h[1] < g[1]
             \/ h[1] = g[1] /\ Len(Specials[h[2]]) >= Len(Specials[g[2]])

Piece(bytes) == [bytes |-> bytes, special |-> 0]
Special(k) == [bytes |-> <<>>, special |-> k]

\* for_each_ordinary_piece and encode_into: the pieces and the specials of a text.
Through(s, hit, pieces) ==
  LET found == s.items \o [k \in DOMAIN pieces |-> Piece(pieces[k])]
  IN  IF hit[2] = 0 THEN [at |-> hit[1], items |-> found]
      ELSE [at |-> hit[1] + Len(Specials[hit[2]]), items |-> Append(found, Special(hit[2]))]
ItemStep(text) ==
  [s \in [at : Nat, items : Seq([bytes : Seq(Nat), special : Nat])] |->
     LET hit == FindSpecial(text, s.at)
     IN  Through(s, hit, Pieces(SubSeq(text, s.at, hit[1] - 1)))]
Items(text) == Repeat(ItemStep(text), Len(text), [at |-> 1, items |-> <<>>]).items

\* special_straddles: a cut at p would split an occurrence of a special.
Straddles(text, p) ==
  \E s \in ToSet(Specials), k \in 1..(p - 1) : Occurs(text, s, k) /\ k + Len(s) > p

\* Slip: find_cut accepts a newline that ends a longer whitespace run.
CutsAnywhere(text, from) ==
  {p \in 2..Len(text) : p >= from /\ text[p - 1] = 10 /\ DecodeAt(text, p).cls # "space"
                        /\ ~Straddles(text, p)}

\* find_cut: the places at or after from where a chunk may start.
Cuts(text, from) ==
  {p \in 2..Len(text) :
     /\ p >= from /\ text[p - 1] = 10
     /\ p > 2 => text[p - 2] < 128 /\ AsciiClass(text[p - 2]) # "space"
     /\ DecodeAt(text, p).cls # "space" /\ ~Straddles(text, p)}

\* encode_chunked: the chunks, each at least size bytes but the last.
ChunkStep(text, size) ==
  [s \in [at : Nat, chunks : Seq(Seq(Nat))] |->
     LET cuts == Cuts(text, s.at + size)
         cut == IF cuts = {} THEN Len(text) + 1 ELSE Min(cuts)
     IN  IF s.at > Len(text) THEN s
         ELSE [at |-> cut, chunks |-> Append(s.chunks, SubSeq(text, s.at, cut - 1))]]
Chunks(text, size) == Repeat(ChunkStep(text, size), Len(text), [at |-> 1, chunks |-> <<>>]).chunks
-----------------------------------------------------------------------------
(* Encoding a piece *)

Rank(ms, l, r) == SelectInSeq(ms, LAMBDA m : m = <<l, r>>)    \* 0: no such merge

\* The symbols with those at i and i + 1 replaced by id.
MergeAt(sym, i, id) == SubSeq(sym, 1, i - 1) \o <<id>> \o SubSeq(sym, i + 2, Len(sym))

\* encode_piece for short pieces: the lowest rank, leftmost first, by scanning.
ScanStep(ms) ==
  [sym \in Seq(Nat) |->
     LET rank(i) == Rank(ms, sym[i], sym[i + 1])
         can == {i \in 1..(Len(sym) - 1) : rank(i) > 0}
         best == CHOOSE i \in can : \A j \in can : rank(i) < rank(j) \/ (rank(i) = rank(j) /\ i <= j)
     IN  IF can = {} THEN sym ELSE MergeAt(sym, best, 255 + rank(best))]
Scan(ms, piece) == Repeat(ScanStep(ms), Len(piece), piece)

\* Slip: a candidate is stale only once its left symbol changed.
StaleLeft(l, c) == l.id[c.pos] # c.left

\* A candidate whose symbols are no longer the ones it was pushed for.
Stale(l, c) ==
  \/ l.id[c.pos] # c.left
  \/ l.next[c.pos] \notin DOMAIN l.id
  \/ l.id[l.next[c.pos]] # c.right

Candidates(ms, l, at) ==
  {[rank |-> Rank(ms, l.id[p], l.id[l.next[p]]), pos |-> p, left |-> l.id[p], right |-> l.id[l.next[p]]] :
     p \in {q \in at : q \in DOMAIN l.id /\ l.next[q] \in DOMAIN l.id
                       /\ Rank(ms, l.id[q], l.id[l.next[q]]) > 0}}

\* The linked list of the symbols of a piece, id -1 once gone.
Linked(piece) ==
  [id |-> piece, next |-> [i \in DOMAIN piece |-> i + 1], prev |-> [i \in DOMAIN piece |-> i - 1]]

\* What left is merged with is taken out of the list.
Unlink(l, left, id) ==
  LET right == l.next[left]
      after == l.next[right]
  IN  [id |-> [l.id EXCEPT ![left] = id, ![right] = -1],
       next |-> [l.next EXCEPT ![left] = after],
       prev |-> IF after \in DOMAIN l.id THEN [l.prev EXCEPT ![after] = left] ELSE l.prev]

\* One candidate of the heap.
DrainStep(ms) ==
  [s \in [list : [id : Seq(Int), next : Seq(Nat), prev : Seq(Nat)],
          heap : SUBSET [rank : Nat, pos : Nat, left : Nat, right : Nat]] |->
     LET c == CHOOSE x \in s.heap :
                \A y \in s.heap : x.rank < y.rank \/ (x.rank = y.rank /\ x.pos <= y.pos)
         l == Unlink(s.list, c.pos, 255 + c.rank)
     IN  IF s.heap = {} THEN s
         ELSE IF Stale(s.list, c) THEN [s EXCEPT !.heap = @ \ {c}]
         ELSE [list |-> l, heap |-> (s.heap \ {c}) \cup Candidates(ms, l, {l.prev[c.pos], c.pos})]]

\* What is left of the list, from its head.
WalkStep(l) ==
  [s \in [at : Nat, ids : Seq(Int)] |->
     IF s.at > Len(l.id) THEN s ELSE [at |-> l.next[s.at], ids |-> Append(s.ids, l.id[s.at])]]
Walk(l) == Repeat(WalkStep(l), Len(l.id), [at |-> 1, ids |-> <<>>]).ids

\* encode_piece for long pieces: a merge takes one candidate and adds two at most.
ByHeap(ms, piece) ==
  LET start == [list |-> Linked(piece), heap |-> Candidates(ms, Linked(piece), DOMAIN piece)]
  IN  Walk(Repeat(DrainStep(ms), 3 * Len(piece), start).list)

EncodePiece(ms, piece) == IF Len(piece) <= SmallPiece THEN Scan(ms, piece) ELSE ByHeap(ms, piece)
-----------------------------------------------------------------------------
(* Learning (learn_merges) *)

\* The bytes of b come after those of a, compared as unsigned bytes.
Before(a, b) ==
  \E k \in 0..Len(a) : /\ k < Len(b) /\ SubSeq(a, 1, k) = SubSeq(b, 1, k)
                       /\ k = Len(a) \/ a[k + 1] < b[k + 1]

\* HeapLower: entry x comes out of the heap before entry y.
Sooner(x, y) ==
  LET b == BytesOf(merges)
      less(i, j, otherwise) == IF b[i] # b[j] THEN Before(b[i], b[j]) ELSE otherwise
      byIds == x.pair[1] < y.pair[1] \/ (x.pair[1] = y.pair[1] /\ x.pair[2] < y.pair[2])
  IN  \/ x.count > y.count
      \/ x.count = y.count /\ less(x.pair[1], y.pair[1], less(x.pair[2], y.pair[2], byIds))

Entry(count, pair) == [count |-> count, pair |-> pair]
Top == CHOOSE x \in heap : \A y \in heap \ {x} : Sooner(x, y)

PairsIn(s) == {<<s[i], s[i + 1]>> : i \in 1..(Len(s) - 1)}
Count(s, pair) == Cardinality({i \in 1..(Len(s) - 1) : <<s[i], s[i + 1]>> = pair})
\* How often pair occurs in the corpus, overlapping occurrences counted each.
Occurrences(ws, pair) == SumFunction([w \in DOMAIN ws |-> ws[w].freq * Count(ws[w].symbols, pair)])
AllPairs(ws) == UNION {PairsIn(ws[w].symbols) : w \in DOMAIN ws}

\* One pass over a word: its pairs become id, left to right.
PassStep(s, pair, id) ==
  [r \in [at : Nat, out : Seq(Nat)] |->
     IF r.at > Len(s) THEN r
     ELSE IF r.at < Len(s) /\ <<s[r.at], s[r.at + 1]>> = pair THEN [at |-> r.at + 2, out |-> Append(r.out, id)]
     ELSE [at |-> r.at + 1, out |-> Append(r.out, s[r.at])]]
MergeIn(s, pair, id) == Repeat(PassStep(s, pair, id), Len(s), [at |-> 1, out |-> <<>>]).out

\* The words before any merge, with how often each occurs.
Corpus(items) ==
  LET freq(p) == Cardinality({k \in DOMAIN items : items[k].bytes = p})
  IN  [p \in {q \in {items[k].bytes : k \in DOMAIN items} : Len(q) >= 2} |->
         [symbols |-> p, freq |-> freq(p)]]
WordsOf(text) == Corpus(Items(text))

Init ==
  /\ job \in Jobs /\ pc = "learn"
  /\ words = WordsOf(job.text)
  /\ pairs = [p \in AllPairs(words) |-> Occurrences(words, p)]
  /\ where = [p \in AllPairs(words) |-> {w \in DOMAIN words : p \in PairsIn(words[w].symbols)}]
  /\ heap = {Entry(pairs[p], p) : p \in DOMAIN pairs}
  /\ merges = <<>> /\ rest = <<>> /\ out = <<>>
  /\ cache = [index |-> <<>>, ids |-> <<>>]

\* Slip: an entry is live while its pair occurs, whatever its count.
PairOccurs(entry) == entry.pair \in DOMAIN pairs

Live(entry) == entry.pair \in DOMAIN pairs /\ pairs[entry.pair] = entry.count

Learning == pc = "learn" /\ heap # {} /\ Len(merges) < job.merges

\* An out-of-date entry surfaces and is dropped.
PopStale ==
  /\ Learning /\ ~Live(Top)
  /\ heap' = heap \ {Top}
  /\ UNCHANGED <<job, pc, words, pairs, where, merges, rest, out, cache>>

\* The pairs of a merged word the word is listed for.
Listed(s, id) == {p \in PairsIn(s) : p[1] = id \/ p[2] = id}

\* A live entry surfaces: its pair becomes a token in every word listed for it
\* that still has it; counts change by what each word lost and won, and each
\* changed count that is not 0 gets an entry of its own.
PopLive ==
  LET pair == Top.pair
      id == 256 + Len(merges)
      touched == {w \in where[pair] : pair \in PairsIn(words[w].symbols)}
      after == [w \in DOMAIN words |->
                  IF w \in touched THEN [words[w] EXCEPT !.symbols = MergeIn(@, pair, id)] ELSE words[w]]
      delta(k) == SumFunction([w \in touched |->
                    words[w].freq * (Count(after[w].symbols, k) - Count(words[w].symbols, k))])
      keys == UNION {PairsIn(words[w].symbols) \cup PairsIn(after[w].symbols) : w \in touched}
      changed == {k \in keys : delta(k) # 0}
      now(k) == At(pairs, k) + IF k \in changed THEN delta(k) ELSE 0
      listed(k) == {w \in touched : k \in Listed(after[w].symbols, id)}
  IN  /\ Learning /\ Live(Top)
      /\ merges' = Append(merges, pair)
      /\ words' = after
      /\ pairs' = [k \in {q \in (DOMAIN pairs \cup changed) \ {pair} : now(q) > 0} |-> now(k)]
      /\ heap' = (heap \ {Top}) \cup {Entry(now(k), k) : k \in {q \in changed : now(q) > 0}}
      /\ where' = [k \in (DOMAIN where \ {pair}) \cup {q \in keys : listed(q) # {}} |->
                     (IF k \in DOMAIN where /\ k # pair THEN where[k] ELSE {}) \cup listed(k)]
      /\ UNCHANGED <<job, pc, rest, out, cache>>

\* Enough merges, or no pair is left.
Learned ==
  /\ pc = "learn" /\ (Len(merges) = job.merges \/ heap = {})
  /\ pc' = "encode" /\ rest' = Items(job.prompt)
  /\ UNCHANGED <<job, words, pairs, where, heap, merges, out, cache>>
-----------------------------------------------------------------------------
(* Encoding a text (encode_into): one piece or special at a time *)

SpecialId(k) == 255 + Len(merges) + k

\* Slip: clearing the cache forgets to clear the index.
KeepsIndex(c) == IF Cardinality(DOMAIN c.index) >= CacheLimit THEN [c EXCEPT !.ids = <<>>] ELSE c

\* A full cache is emptied before it takes another piece.
Room(c) ==
  IF Cardinality(DOMAIN c.index) >= CacheLimit THEN [index |-> <<>>, ids |-> <<>>] ELSE c

Cached(c, piece, ids) ==
  [index |-> [p \in DOMAIN c.index \cup {piece} |->
                IF p = piece THEN <<Len(c.ids), Len(ids)>> ELSE c.index[p]],
   ids |-> c.ids \o ids]

EncodeSpecial ==
  /\ pc = "encode" /\ rest # <<>> /\ rest[1].special # 0
  /\ out' = Append(out, SpecialId(rest[1].special)) /\ rest' = Tail(rest)
  /\ UNCHANGED <<job, pc, words, pairs, where, heap, merges, cache>>

EncodeByte ==
  /\ pc = "encode" /\ rest # <<>> /\ Len(rest[1].bytes) = 1
  /\ out' = out \o rest[1].bytes /\ rest' = Tail(rest)
  /\ UNCHANGED <<job, pc, words, pairs, where, heap, merges, cache>>

EncodeHit ==
  /\ pc = "encode" /\ rest # <<>> /\ rest[1].bytes \in DOMAIN cache.index
  /\ LET hit == cache.index[rest[1].bytes]
     IN  out' = out \o SubSeq(cache.ids, hit[1] + 1, hit[1] + hit[2])
  /\ rest' = Tail(rest)
  /\ UNCHANGED <<job, pc, words, pairs, where, heap, merges, cache>>

EncodeMiss ==
  /\ pc = "encode" /\ rest # <<>> /\ Len(rest[1].bytes) >= 2 /\ rest[1].bytes \notin DOMAIN cache.index
  /\ LET ids == EncodePiece(merges, rest[1].bytes)
     IN  /\ out' = out \o ids
         /\ cache' = Cached(Room(cache), rest[1].bytes, ids)
  /\ rest' = Tail(rest)
  /\ UNCHANGED <<job, pc, words, pairs, where, heap, merges>>

Encoded ==
  /\ pc = "encode" /\ rest = <<>> /\ pc' = "done"
  /\ UNCHANGED <<job, words, pairs, where, heap, merges, rest, out, cache>>

Next ==
  \/ PopStale \/ PopLive \/ Learned
  \/ EncodeSpecial \/ EncodeByte \/ EncodeHit \/ EncodeMiss \/ Encoded

Spec == Init /\ [][Next]_vars
-----------------------------------------------------------------------------
(* What a text encodes to without a cache, and in chunks *)

IdsOf(item) ==
  IF item.special # 0 THEN <<SpecialId(item.special)>> ELSE EncodePiece(merges, item.bytes)
IdsOfAll(items) == FlattenSeq([k \in DOMAIN items |-> IdsOf(items[k])])
Encoding(text) == IdsOfAll(Items(text))

\* encode_chunked: the chunks encoded on their own, put together in order.
EncodeChunked(text, size) ==
  LET chunks == IF Len(text) <= size THEN <<text>> ELSE Chunks(text, size)
  IN  FlattenSeq([k \in DOMAIN chunks |-> Encoding(chunks[k])])

TokenBytes(id) == IF id < 256 + Len(merges) THEN BytesOf(merges)[id] ELSE Specials[id - 255 - Len(merges)]
Decode(ids) == FlattenSeq([k \in DOMAIN ids |-> TokenBytes(ids[k])])
-----------------------------------------------------------------------------
(* The tokenizer file: its fields in order; "pre" names the pre-tokenizer. *)

\* Slip: the fingerprint leaves the specials out.
FingerprintOfMerges(ms, sps) == <<"fingerprint", ms>>

\* compute_fingerprint, taken to differ whenever what it covers differs.
Fingerprint(ms, sps) == <<"fingerprint", ms, sps>>

\* save().
FileOf(ms, sps) ==
  <<"GTOK", 1, "pre", 256 + Len(ms) + Len(sps), Len(ms), Len(sps)>>
  \o FlattenSeq([k \in DOMAIN sps |-> <<255 + Len(ms) + k, Len(sps[k]), sps[k]>>])
  \o FlattenSeq(ms) \o <<Fingerprint(ms, sps)>>

\* load(): what is read, or "refused" (rebuild's checks included).
LoadFile(f) ==
  LET nm == f[5]
      ns == f[6]
      base == 6 + 3 * ns
      ms == [r \in 1..nm |-> <<f[base + 2 * r - 1], f[base + 2 * r]>>]
      sps == [k \in 1..ns |-> f[4 + 3 * k + 2]]
  IN  IF /\ Len(f) >= 6 /\ f[1] = "GTOK" /\ f[2] = 1 /\ f[3] = "pre"
         /\ 256 + nm + ns = f[4] /\ Len(f) = base + 2 * nm + 1
         /\ \A k \in 1..ns : /\ f[4 + 3 * k] = 255 + nm + k /\ f[4 + 3 * k + 1] = Len(sps[k])
                             /\ Len(sps[k]) > 0
         /\ \A r \in 1..nm : ms[r][1] < 255 + r /\ ms[r][2] < 255 + r
         /\ IsInjective(ms) /\ IsInjective(sps)
         /\ f[Len(f)] = Fingerprint(ms, sps)
      THEN <<ms, sps>> ELSE "refused"
-----------------------------------------------------------------------------
(* Properties *)

\* Every merge takes the most frequent pair of the corpus as it then is, ties
\* settled by HeapLower whatever out-of-date entries the heap holds; learning
\* stops short only when no word has a pair left.
TakesTheBest ==
  LET p == merges'[Len(merges')]
  IN  \A q \in AllPairs(words) \ {p} :
        Sooner(Entry(Occurrences(words, p), p), Entry(Occurrences(words, q), q))
GreedyChoice ==
  [][/\ pc = "learn" /\ merges' # merges => TakesTheBest
     /\ pc = "learn" /\ pc' = "encode" => (Len(merges) = job.merges \/ AllPairs(words) = {})]_vars

\* Encoding agrees with training: a word of the corpus encodes, by the scan and by
\* the heap alike, to the symbols training left it with.
EncodersAgree ==
  pc = "done" => \A w \in DOMAIN words :
    Scan(merges, w) = words[w].symbols /\ ByHeap(merges, w) = words[w].symbols

\* The ids so far spell the text so far, and are those of an encoding without a
\* cache, however often the cache was emptied.
CacheIsTrue ==
  /\ \A p \in DOMAIN cache.index :
       SubSeq(cache.ids, cache.index[p][1] + 1, cache.index[p][1] + cache.index[p][2]) = EncodePiece(merges, p)
  /\ pc = "done" => out = Encoding(job.prompt) /\ Decode(out) = job.prompt

\* Encoding in chunks of any size gives the ids of the whole text.
ChunksAgree ==
  pc = "done" => \A size \in 1..Len(job.prompt) : EncodeChunked(job.prompt, size) = out

\* The hand-written matcher ends every piece where the pattern does.
MatchesPattern ==
  pc = "learn" => \A p \in DOMAIN job.text : NextBoundary(job.text, p) = PatternEnd(job.text, p)

\* A tokenizer file loads as what was saved; cut short or with one field changed,
\* it never loads as another tokenizer.
FileIsExact ==
  LET file == FileOf(merges, Specials)
      texts == {6 + 3 * k : k \in DOMAIN Specials}
      others(k) == IF k \in texts THEN {[file[k] EXCEPT ![1] = (@ + 1) % 256]}
                   ELSE {file[k] + 1} \cup (IF file[k] > 0 THEN {file[k] - 1} ELSE {})
  IN  pc = "done" =>
        /\ LoadFile(file) = <<merges, Specials>>
        /\ \A n \in 0..(Len(file) - 1) : LoadFile(SubSeq(file, 1, n)) = "refused"
        /\ \A k \in 2..(Len(file) - 1) \ {3} : \A v \in others(k) :
             LoadFile([file EXCEPT ![k] = v]) = "refused"
=============================================================================
