------------------------------- MODULE Model --------------------------------
(***************************************************************************)
(* The ops a forward pass of GPTModel issues, in order: gpt_model.cpp,     *)
(* transformer_block.cpp, feedforward.cpp, linear.cpp, and the wrapper of  *)
(* attention in multihead_attention.cpp.                                   *)
(*                                                                         *)
(* A program is its code so far and at, the variable the last call         *)
(* returned. An operand is -k for the k-th leaf and k for the result of    *)
(* the k-th op. Leaves are the parameters in the order of                  *)
(* getAllParameters, then the token ids, then the targets.                 *)
(***************************************************************************)
EXTENDS Integers, Sequences

CONSTANTS
  Vocab, Width, NumHeads, Hidden, MaxLength, NumLayers,   \* the model's dimensions
  BatchSize, SeqLen                                     \* a batch

ASSUME ModelAssumption ==
  /\ {Vocab, Width, NumHeads, Hidden, MaxLength, BatchSize, SeqLen} \subseteq Nat \ {0}
  /\ Width % NumHeads = 0 /\ SeqLen <= MaxLength /\ NumLayers \in Nat

Start == [code |-> <<>>, at |-> 0]

Emit(p, o, kids) == [code |-> Append(p.code, [o |-> o, kids |-> kids]), at |-> Len(p.code) + 1]
Call(p, name, kids) == Emit(p, [op |-> name], kids)

\* A configuration: the modern architecture or GPT-2's, dropout active or not, and the
\* rows of a lone 2D sequence (0: a batch).
Config(modern, drop, rows) == [modern |-> modern, drop |-> drop, rows |-> rows]

\* Variable::dropout hands back its argument when inactive.
Dropout(p, on) == IF on THEN Call(p, "dropout", <<p.at>>) ELSE p

\* Linear::forward on x; no bias is leaf 0.
WithBias(p, bias)           == IF bias = 0 THEN p ELSE Call(p, "add", <<p.at, bias>>)
Linear(p, x, weights, bias) == WithBias(Call(p, "matmul", <<x, weights>>), bias)

\* Parameters of a block, from leaf -first on: attention, feed-forward, norms.
BlockSize(modern) == IF modern THEN 15 ELSE 16
Attn(first, k)    == -(first + k - 1)
Ffn(first, k)     == -(first + 8 + k - 1)
NormLeaf(first, k, modern) == -(first + (IF modern THEN 11 ELSE 12) + k - 1)

Norm1(p, x, gamma, modern) == Emit(p, [op |-> "norm", rms |-> modern], <<x, gamma, gamma - 1>>)

\* A (seq, d) sequence goes through attention as a batch of one, and back.
Relayout(p, c, shape) == IF c.rows = 0 THEN p ELSE Emit(p, [op |-> "relayout", shape |-> shape], <<p.at>>)

\* MultiHeadAttention::forward on the last result.
AttentionForward(p, first, c) ==
  LET op == [op |-> "attention", heads |-> NumHeads, rope |-> c.modern, drop |-> c.drop]
      issue(q) == Emit(q, op, <<q.at>> \o [k \in 1..8 |-> Attn(first, k)])
  IN Relayout(Dropout(issue(Relayout(p, c, <<1, c.rows, Width>>)), c.drop), c, <<c.rows, Width>>)

\* gate * up, gate the result p ends with.
Gated(p, x, first) ==
  LET times(q) == Call(q, "mul", <<p.at, q.at>>)
  IN times(Linear(p, x, Ffn(first, 2), 0))

\* FeedForward::forward on the last result.
FeedForward(p, first, c) ==
  LET out(q, weights, bias) == Dropout(Linear(q, q.at, weights, bias), c.drop)
      then(q, name) == Call(q, name, <<q.at>>)
  IN IF c.modern
       THEN out(Dropout(Gated(then(Linear(p, p.at, Ffn(first, 1), 0), "silu"), p.at, first), c.drop),
                Ffn(first, 3), 0)
       ELSE out(Dropout(then(Linear(p, p.at, Ffn(first, 1), Ffn(first, 2)), "gelu"), c.drop),
                Ffn(first, 3), Ffn(first, 4))

\* Each half of a block is added to what it was given, x.
Residual(p, x) == Call(p, "add", <<x, p.at>>)
AttentionHalf(p, first, c) ==
  Residual(AttentionForward(Norm1(p, p.at, NormLeaf(first, 1, c.modern), c.modern), first, c), p.at)
FeedForwardHalf(p, first, c) ==
  Residual(FeedForward(Norm1(p, p.at, NormLeaf(first, 3, c.modern), c.modern), first, c), p.at)
TransformerBlock(p, first, c) == FeedForwardHalf(AttentionHalf(p, first, c), first, c)

Embeddings(modern) == IF modern THEN 1 ELSE 2
NumParams(modern)  == Embeddings(modern) + NumLayers * BlockSize(modern) + 2
Ids(modern)        == NumParams(modern) + 1
Targets(modern)    == NumParams(modern) + 2

\* The embeddings, the blocks, and the head: the final norm and the tied logits.
Embedded(c) ==
  LET placed(p) == IF c.modern THEN p ELSE Call(p, "position", <<p.at, -2>>)
  IN Dropout(placed(Call(Start, "embedding", <<-1, -Ids(c.modern)>>)), c.drop)

Blocks(c) ==
  LET first(l) == Embeddings(c.modern) + (l - 1) * BlockSize(c.modern) + 1
      block[l \in 0..NumLayers] == IF l = 0 THEN Embedded(c) ELSE TransformerBlock(block[l - 1], first(l), c)
  IN block[NumLayers]

LMHead(p, c) ==
  LET logits(q) == Call(q, "logits", <<q.at, -1>>)
  IN logits(Norm1(p, p.at, -(NumParams(c.modern) - 1), c.modern))

GPTForward(c) == LMHead(Blocks(c), c)

\* Variable::cross_entropy: two nodes on the CPU, one fused node on Metal.
Loss(p, dev, targets) ==
  LET nll(q) == Call(q, "nll_loss", <<q.at, -targets>>)
  IN IF dev = "metal" THEN Call(p, "cross_entropy", <<p.at, -targets>>)
     ELSE nll(Call(p, "log_softmax", <<p.at>>))

\* Shapes of a block's parameters, and of all of them: getAllParameters.
BlockShapes(modern) ==
  LET square == <<Width, Width>>  row == <<1, Width>>
      attention == <<square, square, square, square, row, row, row, row>>
      ffn == IF modern THEN <<<<Width, Hidden>>, <<Width, Hidden>>, <<Hidden, Width>>>>
             ELSE <<<<Width, Hidden>>, <<1, Hidden>>, <<Hidden, Width>>, row>>
  IN attention \o ffn \o <<row, row, row, row>>

ParamShapes(modern) ==
  LET blocks[l \in 0..NumLayers] == IF l = 0 THEN <<>> ELSE blocks[l - 1] \o BlockShapes(modern)
      tables == IF modern THEN <<<<Vocab, Width>>>> ELSE <<<<Vocab, Width>>, <<MaxLength, Width>>>>
  IN tables \o blocks[NumLayers] \o <<<<1, Width>>, <<1, Width>>>>
=============================================================================
