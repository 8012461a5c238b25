----------------------------- MODULE TokenFile -----------------------------
(***************************************************************************)
(* Token files and the datasets over them (token_file.cpp, dataset.cpp):   *)
(* the 95/5 split, the windows of a token array, and the evenly spread     *)
(* subset of them that the trainer evaluates on. A token file is [vocab,   *)
(* count, held, of, first]: what its header says, the tokens that really   *)
(* follow (-1: not even the header), the encoded text, and the position of *)
(* its first token in that text.                                           *)
(***************************************************************************)
EXTENDS Integers

\* The first token of the held-out part of n tokens.
SplitAt(n) == (n * 95) \div 100

\* tokenfile::write from start to end: the file is truncated, then header and
\* tokens follow, so an interruption leaves held < count.
Written(vocab, of, first, count) ==
  [vocab |-> vocab, count |-> count, held |-> count, of |-> of, first |-> first]

\* The vocabs whose ids fit the 16 bits a token is stored in.
VocabSizes == 1..65536

\* Slip: the header's count is believed.
OpensByHeader(f, seq) == f.held >= 0 /\ f.vocab \in VocabSizes /\ f.count >= seq + 1

\* MappedTokenDataset's constructor and TextDataset's: whether count tokens make
\* one window, and whether the file holds what its header claims.
LongEnough(count, seq) == count >= seq + 1
Opens(f, seq) == /\ f.held >= 0 /\ f.vocab \in VocabSizes
                 /\ f.count <= f.held /\ LongEnough(f.count, seq)

\* size() and the positions get_item(i) reads, the shifted targets included.
Windows(count, seq, stride) == (count - seq - 1) \div stride + 1
Window(i, seq, stride) == (i * stride)..(i * stride + seq)

\* Slip: rounds the spacing up.
SpreadUp(i, n, count) == i * ((n + count - 1) \div count)

\* SpreadSubset::get_item: the i-th of count windows spread over n.
Spread(i, n, count) == i * (n \div count) + (i * (n % count)) \div count

\* DataLoader::next_batch without shuffling, from cursor c.
Batch(c, n, size) == c..(c + (IF size < n - c THEN size ELSE n - c) - 1)

\* sample_prompts: the window that opens slice k of count.
PromptWindow(k, n, count) == (n * (2 * k + 1)) \div (2 * count)
=============================================================================
