------------------------------- MODULE Layers -------------------------------
(***************************************************************************)
(* The differentiable ops: what each computes, what its closure keeps, and *)
(* what the closure adds to the gradient of each operand. CPU versions are *)
(* in src/transformer/variable.cpp and beside each layer, Metal versions   *)
(* in metal_graph.cpp and metal_kernels.metal; dev says which one runs     *)
(* where the two do different things.                                      *)
(*                                                                         *)
(* An op is a record: its name and its parameters. in is the sequence of   *)
(* the tensors it was called on. Every backward accumulates (beta = 1 or   *)
(* +=), so it is modelled by the amount it adds.                           *)
(***************************************************************************)
EXTENDS Tensors, FiniteSets, TLC

Devices == {"cpu", "metal"}

-----------------------------------------------------------------------------
(* Activations.                                                            *)

\* k * (x + a * x^3) under the tanh, with arbitrary k and a.
GeluK == Const(5)
GeluA == Const(3)
Cube(x)     == Times(x, Times(x, x))
GeluTanh(x) == Tanh(Times(GeluK, Plus(x, Times(GeluA, Cube(x)))))
Gelu(x)     == Times(Times(Half, x), Plus(One, GeluTanh(x)))
DGelu(x)    ==
  LET t == GeluTanh(x)
      sech_sq == Minus(One, Times(t, t))
      inner == Times(GeluK, Plus(One, Times(Times(Const(3), GeluA), Times(x, x))))
  IN Times(Half, Plus(Plus(One, t), Times(x, Times(sech_sq, inner))))

Sigmoid(x) == OneOver(Plus(One, Exp(Minus(Zero, x))))
Silu(x)    == Times(x, Sigmoid(x))
DSilu(x)   == LET s == Sigmoid(x) IN Times(s, Plus(One, Times(x, Minus(One, s))))

\* The dropout mask of a stream: a function of the stream and the position alone.
KeepScale       == Const(3)
Kept(stream, i) == (Scatter((17 * stream + i) % Prime, 3) % 3) # 0
Mask(stream, n) == Floats(n, LAMBDA i : IF Kept(stream, i) THEN KeepScale ELSE Zero)

\* Per unit a stream of its own.
UnitMasks(base, units, n) ==
  Floats(units * n, LAMBDA i : IF Kept(base + (i \div n), i % n) THEN KeepScale ELSE Zero)

\* Streams an op reserves.
Streams(o, in) == CASE o.op = "dropout" -> 1
                    [] o.op = "attention" /\ o.drop -> Batch(in[1]) * o.heads
                    [] OTHER -> 0

\* Per row of y: y * (dY - dot(y, dY)).
SoftmaxBackward(y, dY, cols) ==
  LET dot == Floats(Len(y) \div cols, LAMBDA r : Total(cols, LAMBDA j :
               Times(y[r * cols + j + 1], dY[r * cols + j + 1])))
  IN Floats(Len(y), LAMBDA e : Times(y[e + 1], Minus(dY[e + 1], dot[(e \div cols) + 1])))

\* dY - exp(y) * sum(dY), y the log-probabilities.
LogSoftmaxBackward(y, dY, cols) ==
  LET sum == Floats(Len(y) \div cols, LAMBDA r : Total(cols, LAMBDA j : dY[r * cols + j + 1]))
  IN Floats(Len(y), LAMBDA e : Minus(dY[e + 1], Times(Exp(y[e + 1]), sum[(e \div cols) + 1])))
-----------------------------------------------------------------------------
(* Losses: the mean over rows; a target outside the vocabulary adds        *)
(* nothing to the sum.                                                     *)

Target(targets, r)       == targets.data[r + 1][1]
Hits(targets, cols, e)   == Target(targets, e \div cols) = e % cols
Ignored(targets, cols, r) == Target(targets, r) >= cols

NllLoss(logp, targets) ==
  LET cols == Cols(logp)  n == FlatRows(logp)
  IN Times(Share(n), Total(n, LAMBDA r : IF Ignored(targets, cols, r) THEN Zero
       ELSE Minus(Zero, logp.data[r * cols + Target(targets, r) + 1])))

NllBackward(logp, targets, g) ==
  LET scale == Minus(Zero, Times(g, Share(FlatRows(logp))))
  IN Floats(Len(logp.data), LAMBDA e : IF Hits(targets, Cols(logp), e) THEN scale ELSE Zero)

\* The fused Metal loss: per row the log-sum-exp, kept for the backward.
RowStats(x) == Floats(FlatRows(x), LAMBDA r : LogSumExp(x.data, r * Cols(x), Cols(x)))

CrossEntropy(x, targets, stats) ==
  LET cols == Cols(x)  n == FlatRows(x)
  IN Times(Share(n), Total(n, LAMBDA r : IF Ignored(targets, cols, r) THEN Zero
       ELSE Minus(stats[r + 1], x.data[r * cols + Target(targets, r) + 1])))

CrossEntropyBackward(x, targets, stats, g) ==
  LET cols == Cols(x)
      scale == Minus(Zero, Times(g, Share(FlatRows(x))))
      soft(e) == Exp(Minus(x.data[e + 1], stats[(e \div cols) + 1]))
  IN Floats(Len(x.data), LAMBDA e :
       Minus(IF Hits(targets, cols, e) THEN scale ELSE Zero,
             IF Ignored(targets, cols, e \div cols) THEN Zero ELSE Times(soft(e), scale)))
-----------------------------------------------------------------------------
(* matmul and add.                                                         *)

\* Metal: a shared rhs is one product over all rows, else one batched kernel.
MatmulMetal(t, u) ==
  LET M == Rows(t)  K2 == Cols(t)  N == Cols(u)  F == FlatRows(t)
  IN Tensor(WithLastDim(t.shape, N),
       IF ~Is3D(u) THEN Sgemm(t.data, FALSE, u.data, FALSE, F, N, K2)
       ELSE BatchedGemm(Operand(t.data, K2, FALSE, M * K2, 0), Operand(u.data, N, FALSE, K2 * N, 0),
                        Operand(Filled(F * N, Junk), N, FALSE, M * N, 0), M, N, K2, Batch(t), 1))

\* dX = dY W^T and dW = X^T dY; batched operands are transposed first on the CPU and
\* read transposed by the Metal kernel.
MatmulBackward(dev, x, w, dY, i) ==
  LET M == Rows(x)  K2 == Cols(x)  N == Cols(w)  F == FlatRows(x)  n == Batch(x)
      batched(P, Q, m, k, c) == BatchedGemm(P, Q, Operand(Filled(n * m * c, Junk), c, FALSE, m * c, 0),
                                            m, c, k, n, 1)
  IN CASE ~Is3D(w) /\ i = 1 -> Sgemm(dY.data, FALSE, w.data, TRUE, F, K2, N)
       [] ~Is3D(w) /\ i = 2 -> Sgemm(x.data, TRUE, dY.data, FALSE, K2, N, F)
       [] Is3D(w) /\ dev = "cpu" /\ i = 1 -> Matmul(dY, Transpose(w)).data
       [] Is3D(w) /\ dev = "cpu" /\ i = 2 -> Matmul(Transpose(x), dY).data
       [] Is3D(w) /\ dev # "cpu" /\ i = 1 ->
            batched(Operand(dY.data, N, FALSE, M * N, 0), Operand(w.data, N, TRUE, K2 * N, 0), M, N, K2)
       [] OTHER -> batched(Operand(x.data, K2, TRUE, M * K2, 0), Operand(dY.data, N, FALSE, M * N, 0),
                           K2, M, N)

\* Metal: a row vector under a full-shaped operand goes through add_rows.
AddMetal(t, u) ==
  LET shape == BroadcastShape(t, u)
      bias(x) == ~Is3D(x) /\ Rows(x) = 1 /\ Cols(x) = shape[Len(shape)]
  IN CASE t.shape # u.shape /\ t.shape = shape /\ bias(u) ->
            Tensor(shape, AddRows(t.data, u.data, Cols(t), 1))
       [] t.shape # u.shape /\ u.shape = shape /\ bias(t) ->
            Tensor(shape, AddRows(u.data, t.data, Cols(u), 1))
       [] OTHER -> Add(t, u)

\* accumulate_add_grad: the same shape, a row vector, or any broadcast.
AddBackward(dY, x) ==
  CASE x.shape = dY.shape -> dY.data
    [] x.shape # dY.shape /\ Rows(x) = 1 /\ Cols(x) = Cols(dY) /\ Cols(x) > 1 ->
         ColumnSums(dY.data, Cols(x))
    [] OTHER -> Reduce(dY, Rows(x), Cols(x), Rows(x) = 1 /\ Rows(dY) > 1,
                                             Cols(x) = 1 /\ Cols(dY) > 1)
-----------------------------------------------------------------------------
(* Embeddings.                                                             *)

EmbedScale == Const(6)

\* The three layouts of the ids: (batch, seq, 1), (seq, 1), (batch, seq).
EmbedShape(ids, d) == CASE Is3D(ids) -> <<ids.shape[1], ids.shape[2], d>>
                        [] ~Is3D(ids) /\ Cols(ids) = 1 -> <<Rows(ids), d>>
                        [] OTHER -> <<Rows(ids), Cols(ids), d>>

Embedding(ids, table) ==
  LET d == Cols(table)
  IN Tensor(EmbedShape(ids, d), Floats(Len(ids.data) * d, LAMBDA e :
       Times(table.data[ids.data[(e \div d) + 1][1] * d + (e % d) + 1], EmbedScale)))

\* CPU: the row of each position, kept. Metal: a counting sort of the positions by
\* token: the distinct tokens, where each one's segment starts, and the positions.
Sorted(ids, vocab) ==
  LET n == Len(ids.data)
      with(Test(_)) == Cardinality({t \in 1..n : Test(t)})
      tokens == SelectSeq([v \in 1..vocab |-> v - 1], LAMBDA v : with(LAMBDA t : ids.data[t][1] = v) > 0)
      start(v) == with(LAMBDA t : ids.data[t][1] < v)
      slot(t) == start(ids.data[t][1]) + with(LAMBDA u : u < t /\ ids.data[u][1] = ids.data[t][1])
  IN [tokens |-> tokens,
      starts |-> Append([u \in DOMAIN tokens |-> start(tokens[u])], n),
      order |-> Floats(n, LAMBDA p : (CHOOSE t \in 1..n : slot(t) = p) - 1)]

EmbeddingBackward(dev, table, saved, dY) ==
  LET d == Cols(table)
      at(v, t, j) == IF v THEN Times(dY.data[t * d + j + 1], EmbedScale) ELSE Zero
      mine(v) == SelectSeq([u \in DOMAIN saved.tokens |-> u], LAMBDA u : saved.tokens[u] = v)
  IN Floats(Len(table.data), LAMBDA e :
       LET v == e \div d  j == e % d
       IN IF dev = "cpu"
            THEN Total(Len(saved), LAMBDA t : at(saved[t + 1] = v, t, j))
            ELSE IF mine(v) = <<>> THEN Zero
                 ELSE LET u == mine(v)[1]  from == saved.starts[u]
                      IN Total(saved.starts[u + 1] - from, LAMBDA k : at(TRUE, saved.order[from + k + 1], j)))

\* Slip: the kernel goes on down the table at the next sequence.
PositionRunsOn(dev, x, table) ==
  IF dev = "cpu" THEN Add(x, Slice(table, Rows(x)))
  ELSE Tensor(x.shape, AddRows(x.data, table.data, Cols(x), Rows(table)))

Position(dev, x, table) ==
  IF dev = "cpu" THEN Add(x, Slice(table, Rows(x)))
  ELSE Tensor(x.shape, AddRows(x.data, table.data, Cols(x), Rows(x)))

\* Row i of the table takes the sum over the batch of position i; rows past the
\* sequence take nothing.
PositionBackward(dev, table, dY) ==
  LET S == Rows(dY)  d == Cols(dY)
      sums == ColumnSums(dY.data, S * d)
      rows == Floats(S * d, LAMBDA e : Total(Batch(dY), LAMBDA b : dY.data[b * S * d + e + 1]))
  IN Floats(Len(table.data), LAMBDA e :
       IF e >= S * d THEN Zero ELSE IF dev = "cpu" THEN rows[e + 1] ELSE sums[e + 1])
-----------------------------------------------------------------------------
(* LayerNorm, and RMSNorm: no mean, no beta.                               *)

\* Per row the mean and 1 / sqrt(variance + eps).
NormStats(x, rms) ==
  LET d == Cols(x)
      at(r, j) == x.data[r * d + j + 1]
      mean == Floats(FlatRows(x), LAMBDA r : IF rms THEN Zero
                ELSE Times(Share(d), Total(d, LAMBDA j : at(r, j))))
      square(y) == Times(y, y)
  IN [mean |-> mean,
      rstd |-> Floats(FlatRows(x), LAMBDA r :
        RSqrt(Times(Share(d), Total(d, LAMBDA j : square(Minus(at(r, j), mean[r + 1]))))))]

\* (x - mean) * rstd.
Normalized(x, stats) ==
  Floats(Len(x.data), LAMBDA e : LET r == (e \div Cols(x)) + 1
                                 IN Times(Minus(x.data[e + 1], stats.mean[r]), stats.rstd[r]))

Norm(x, gamma, beta, rms, stats) ==
  LET normed == Normalized(x, stats)
      scaled == Floats(Len(normed), LAMBDA e : Times(gamma.data[(e % Cols(x)) + 1], normed[e + 1]))
  IN Tensor(x.shape, IF rms THEN scaled ELSE AddRows(scaled, beta.data, Cols(x), 1))

\* One row of dInput, through the variance and the mean.
NormRowBackward(x, gamma, dY, stats, rms, r) ==
  LET d == Cols(x)
      inv == stats.rstd[r + 1]
      xmm(j) == Minus(x.data[r * d + j + 1], stats.mean[r + 1])
      dnorm(j) == Times(dY.data[r * d + j + 1], gamma.data[j + 1])
      k == Times(Times(Total(d, LAMBDA j : Times(dnorm(j), xmm(j))), Cube(inv)), Share(d))
      dvar_scale == Minus(Zero, Times(Half, Cube(inv)))
      dvar == Total(d, LAMBDA j : Times(Times(dnorm(j), xmm(j)), dvar_scale))
      twice(j) == Times(Times(dvar, Const(2)), Times(xmm(j), Share(d)))
      dmean == Total(d, LAMBDA j : Minus(Minus(Zero, Times(dnorm(j), inv)), twice(j)))
  IN Floats(d, LAMBDA j :
       IF rms THEN Minus(Times(dnorm(j), inv), Times(xmm(j), k))
       ELSE Plus(Plus(Times(dnorm(j), inv), twice(j)), Times(dmean, Share(d))))

NormBackward(x, gamma, dY, stats, rms, i) ==
  LET d == Cols(x)  normed == Normalized(x, stats)
      row == [r \in 1..FlatRows(x) |-> NormRowBackward(x, gamma, dY, stats, rms, r - 1)] \o <<>>
  IN CASE i = 1 -> Floats(Len(x.data), LAMBDA e : row[(e \div d) + 1][(e % d) + 1])
       [] i = 2 -> ColumnSums(Floats(Len(normed), LAMBDA e : Times(dY.data[e + 1], normed[e + 1])), d)
       [] OTHER -> ColumnSums(dY.data, d)
-----------------------------------------------------------------------------
(* Attention, on (batch, seq, d) input: the fused op of                    *)
(* multihead_attention.cpp. in is <<input, Wq, Wk, Wv, Wo, bq, bk, bv, bo>>. *)

Geometry(x, o) == [B |-> Batch(x), S |-> Rows(x), d |-> Cols(x), H |-> o.heads,
                   hs |-> Cols(x) \div o.heads, flat |-> FlatRows(x), units |-> Batch(x) * o.heads]

\* The angle tables are arbitrary.
Cos(i, j) == Const(Scatter(i + 3 * j, 13))
Sin(i, j) == Const(Scatter(i + 5 * j, 17))

\* Every head's pairs of columns, turned by the angle of the row's position.
Rope(x, g, inverse) ==
  Floats(Len(x), LAMBDA e :
    LET i == (e \div g.d) % g.S
        j == ((e % g.d) % g.hs) \div 2
        c == Cos(i, j)
        s == IF inverse THEN Minus(Zero, Sin(i, j)) ELSE Sin(i, j)
    IN IF e % 2 = 0 THEN Minus(Times(x[e + 1], c), Times(x[e + 2], s))
       ELSE Plus(Times(x[e], s), Times(x[e + 1], c)))

\* The matrices of the (batch, head) units: column slices of a projection, or S x S
\* matrices one after the other.
Heads(x, g, t)   == Operand(x, g.d, t, g.S * g.d, g.hs)
Units(x, g, t)   == Operand(x, g.S, t, g.H * g.S * g.S, g.S * g.S)
HeadGemm(g, P, Q, C, M, N, k) == BatchedGemm(P, Q, C, M, N, k, g.units, g.H)

\* Slip: the causal mask is forgotten.
VisibleAll(g, r) == g.S

\* Row i of a unit sees the positions up to i.
Visible(g, r) == (r % g.S) + 1

ScoreScale(g) == RSqrt(Const(g.hs))

Project(x, W, b, g) == AddRows(Sgemm(x, FALSE, W, FALSE, g.flat, g.d, g.d), b, g.d, 1)

\* A rotary model turns its queries and keys.
Turned(x, o, g, inverse) == IF o.rope THEN Rope(x, g, inverse) ELSE x

\* Q K^T, scaled, through the softmax of what each row sees.
Scaled(x, g) == Floats(Len(x), LAMBDA e : Times(x[e + 1], ScoreScale(g)))
Weigh(Q, Kr, g) ==
  SoftmaxRows(Scaled(HeadGemm(g, Heads(Q, g, FALSE), Heads(Kr, g, TRUE),
                              Units(Filled(g.units * g.S * g.S, Junk), g, FALSE), g.S, g.S, g.hs), g),
              g.S, [k \in 1..(g.units * g.S) |-> Visible(g, k - 1)])

\* What the closure keeps. Without dropout the mask is empty.
Attended(Q, Kr, V, mask, g) == [Q |-> Q, K |-> Kr, V |-> V, P |-> Weigh(Q, Kr, g), mask |-> mask]
AttentionState(o, in, stream) ==
  LET g == Geometry(in[1], o)
      projected(k) == Project(in[1].data, in[1 + k].data, in[5 + k].data, g)
  IN Attended(Turned(projected(1), o, g, FALSE), Turned(projected(2), o, g, FALSE), projected(3),
              IF o.drop THEN UnitMasks(stream, g.units, g.S * g.S) ELSE <<>>, g)

\* The weights V is multiplied by.
Masked(x, mask) == IF mask = <<>> THEN x
                   ELSE Floats(Len(x), LAMBDA e : Times(x[e + 1], mask[e + 1]))
Effective(s) == Masked(s.P, s.mask)

\* Weights, transposed or not, times the heads of x.
Weighted(g, weights, t, x) == HeadGemm(g, Units(weights, g, t), Heads(x, g, FALSE),
                                     Heads(Filled(g.flat * g.d, Junk), g, FALSE), g.S, g.hs, g.S)
Concat(g, s) == Weighted(g, Effective(s), FALSE, s.V)

Attention(o, in, s) ==
  LET g == Geometry(in[1], o)
  IN Tensor(in[1].shape, Project(Concat(g, s), in[5].data, in[9].data, g))

\* The gradient of the scores, back through the weights, the dropout and the softmax.
ScoreGradient(g, s, dConcat) ==
  Scaled(SoftmaxBackward(s.P, Masked(HeadGemm(g, Heads(dConcat, g, FALSE), Heads(s.V, g, TRUE),
                                              Units(Filled(Len(s.P), Junk), g, FALSE), g.S, g.S, g.hs),
                                     s.mask), g.S), g)

\* The gradients of the projections' outputs: of Q and K through the scores, turned
\* back, and of V.
ProjectionGradients(o, g, s, dConcat, dS) ==
  <<Turned(Weighted(g, dS, FALSE, s.K), o, g, TRUE), Turned(Weighted(g, dS, TRUE, s.Q), o, g, TRUE),
    Weighted(g, Effective(s), TRUE, dConcat)>>

BackThrough(dY, W, g) == Sgemm(dY, FALSE, W, TRUE, g.flat, g.d, g.d)

\* What the closure adds to an operand other than those of the output projection.
InputGradient(in, g, dProj) ==
  LET back == [k \in 1..3 |-> BackThrough(dProj[k], in[1 + k].data, g)] \o <<>>
  IN Floats(Len(in[1].data), LAMBDA e : Plus(back[1][e + 1], Plus(back[2][e + 1], back[3][e + 1])))
WeightGradient(x, dY, g) == Sgemm(x, TRUE, dY, FALSE, g.d, g.d, g.flat)

ThroughProjections(in, g, dProj, i) ==
  CASE i = 1 -> InputGradient(in, g, dProj)
    [] i \in 2..4 -> WeightGradient(in[1].data, dProj[i - 1], g)
    [] i \in 6..8 -> ColumnSums(dProj[i - 5], g.d)

ThroughHeads(o, in, g, s, dConcat, i) ==
  ThroughProjections(in, g, ProjectionGradients(o, g, s, dConcat, ScoreGradient(g, s, dConcat)), i)

\* What the closure adds to operand i.
AttentionBackward(o, in, s, dY, i) ==
  LET g == Geometry(in[1], o)
  IN CASE i = 5 -> WeightGradient(Concat(g, s), dY.data, g)
       [] i = 9 -> ColumnSums(dY.data, g.d)
       [] OTHER -> ThroughHeads(o, in, g, s, BackThrough(dY.data, in[5].data, g), i)
-----------------------------------------------------------------------------
(* All the ops.                                                            *)

OpNames == {"matmul", "add", "mul", "scale", "gelu", "silu", "dropout", "softmax", "log_softmax",
            "nll_loss", "cross_entropy", "embedding", "position", "norm", "attention", "relayout", "logits"}

\* What the ops check of their operands before they compute.
Accepts(o, in) ==
  CASE o.op = "matmul" -> Compatible(in[1], in[2])
    [] o.op = "add" -> Broadcasts(in[1], in[2])
    [] o.op = "mul" -> in[1].shape = in[2].shape
    [] OTHER -> TRUE

\* What the closure captures besides its operands.
Saved(dev, o, in, stream) ==
  CASE o.op = "dropout" -> Mask(stream, Len(in[1].data))
    [] o.op = "norm" -> NormStats(in[1], o.rms)
    [] o.op = "attention" -> AttentionState(o, in, stream)
    [] o.op = "cross_entropy" -> RowStats(in[1])
    [] o.op = "embedding" /\ dev = "cpu" -> [t \in DOMAIN in[2].data |-> in[2].data[t][1]]
    [] o.op = "embedding" /\ dev = "metal" -> Sorted(in[2], Rows(in[1]))
    [] OTHER -> <<>>

Output(dev, o, in, saved) ==
  LET x == in[1]
  IN CASE o.op = "matmul"  -> IF dev = "cpu" THEN Matmul(x, in[2]) ELSE MatmulMetal(x, in[2])
       [] o.op = "add"     -> IF dev = "cpu" THEN Add(x, in[2]) ELSE AddMetal(x, in[2])
       [] o.op = "mul"     -> Elementwise(x, in[2])
       [] o.op = "scale"   -> Scale(x, o.by)
       [] o.op = "gelu"    -> Each(x, Gelu)
       [] o.op = "silu"    -> Each(x, Silu)
       [] o.op = "dropout" -> Elementwise(x, Tensor(x.shape, saved))
       [] o.op = "softmax" -> Tensor(x.shape, SoftmaxRows(x.data, Cols(x), [k \in 1..FlatRows(x) |-> Cols(x)]))
       [] o.op = "log_softmax" -> Tensor(x.shape, LogSoftmaxRows(x.data, Cols(x)))
       [] o.op = "nll_loss"      -> Tensor(<<1, 1>>, <<NllLoss(x, in[2])>>)
       [] o.op = "cross_entropy" -> Tensor(<<1, 1>>, <<CrossEntropy(x, in[2], saved)>>)
       [] o.op = "embedding" -> Embedding(in[2], x)
       [] o.op = "position"  -> Position(dev, x, in[2])
       [] o.op = "norm"      -> Norm(x, in[2], in[3], o.rms, saved)
       [] o.op = "attention" -> Attention(o, in, saved)
       [] o.op = "relayout"  -> Tensor(o.shape, x.data)
       [] o.op = "logits"    -> Tensor(WithLastDim(x.shape, Rows(in[2])),
                                  Sgemm(x.data, FALSE, in[2].data, TRUE, FlatRows(x), Rows(in[2]), Cols(x)))

\* What a forward op computes.
Forwarded(dev, o, in, stream) == Output(dev, o, in, Saved(dev, o, in, stream))

\* The floats added to the gradient of operand i.
Contribution(dev, o, in, saved, out, dY, i) ==
  LET x == in[1]  g == dY.data
  IN CASE o.op = "matmul"  -> MatmulBackward(dev, x, in[2], dY, i)
       [] o.op = "add"     -> AddBackward(dY, in[i])
       [] o.op = "mul"     -> Elementwise(dY, in[3 - i]).data
       [] o.op = "scale"   -> Scale(dY, o.by).data
       [] o.op = "gelu"    -> Pairwise(x, dY, LAMBDA a, b : Times(DGelu(a), b)).data
       [] o.op = "silu"    -> Pairwise(x, dY, LAMBDA a, b : Times(DSilu(a), b)).data
       [] o.op = "dropout" -> Elementwise(dY, Tensor(x.shape, saved)).data
       [] o.op = "softmax" -> SoftmaxBackward(out.data, g, Cols(x))
       [] o.op = "log_softmax" -> LogSoftmaxBackward(out.data, g, Cols(x))
       [] o.op = "nll_loss"      -> NllBackward(x, in[2], g[1])
       [] o.op = "cross_entropy" -> CrossEntropyBackward(x, in[2], saved, g[1])
       [] o.op = "embedding" -> EmbeddingBackward(dev, x, saved, dY)
       [] o.op = "position"  -> IF i = 1 THEN g ELSE PositionBackward(dev, in[2], dY)
       [] o.op = "norm"      -> NormBackward(x, in[2], dY, saved, o.rms, i)
       [] o.op = "attention" -> AttentionBackward(o, in, saved, dY, i)
       [] o.op = "relayout"  -> g
       [] o.op = "logits" /\ i = 1 -> Sgemm(g, FALSE, in[2].data, FALSE, FlatRows(x), Cols(x), Rows(in[2]))
       [] o.op = "logits" /\ i = 2 -> Sgemm(g, TRUE, x.data, FALSE, Rows(in[2]), Cols(x), FlatRows(x))

\* Operands the graph node lists: the ids of an embedding are not among them.
Listed(o, kids) == IF o.op = "embedding" THEN <<kids[1]>> ELSE kids

\* Slip: a closure writes every gradient, frozen operands included.
WrittenAll(o, wants) == DOMAIN wants

\* Operands whose gradient the closure writes, wants saying which require one.
Written(o, wants) ==
  {i \in DOMAIN wants : wants[i] /\ CASE o.op = "norm" /\ o.rms -> i # 3
                                      [] o.op \in {"nll_loss", "cross_entropy"} -> i = 1
                                      [] OTHER -> TRUE}
=============================================================================
