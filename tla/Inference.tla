------------------------------ MODULE Inference -----------------------------
(***************************************************************************)
(* InferenceSession (src/transformer/inference.cpp): the model once more,  *)
(* written by hand for one token at a time. Each layer caches the keys and *)
(* values of the positions so far; a step adds its own row and attends to  *)
(* all of them. The weights are the parameters in the order of             *)
(* getAllParameters (see Model).                                           *)
(***************************************************************************)
EXTENDS Layers, Model

\* A session: the tokens fed, per layer the cached rows, and the logits returned last.
NewSession == [tokens |-> <<>>, k |-> [l \in 1..NumLayers |-> <<>>],
               v |-> [l \in 1..NumLayers |-> <<>>], logits |-> <<>>]

HeadSize == Width \div NumHeads

\* x @ W on one row, and with the bias.
MatVec(x, W)      == Sgemm(x, FALSE, W.data, FALSE, 1, Cols(W), Len(x))
MatVecBias(x, W, b) == AddRows(MatVec(x, W), b.data, Cols(W), 1)
AddRow(x, y)      == Floats(Len(x), LAMBDA j : Plus(x[j + 1], y[j + 1]))

\* layer_norm_row, on the row less its mean (RMSNorm: the row).
MeanOf(x) == Times(Share(Width), Total(Width, LAMBDA j : x[j + 1]))
Centred(x, mean) == Floats(Width, LAMBDA j : Minus(x[j + 1], mean))
ScaleRow(x, gamma, beta, rms) ==
  LET r == RSqrt(MeanOf(Floats(Width, LAMBDA j : Times(x[j + 1], x[j + 1]))))
      scaled(j) == Times(Times(gamma.data[j + 1], x[j + 1]), r)
  IN Floats(Width, LAMBDA j : Plus(scaled(j), IF rms THEN Zero ELSE beta.data[j + 1]))
NormRow(x, gamma, beta, rms) == ScaleRow(Centred(x, IF rms THEN Zero ELSE MeanOf(x)), gamma, beta, rms)

\* rope_row: pairs (2j, 2j + 1) of every head, by the angles of this position.
RopeRow(x, pos) ==
  Floats(Width, LAMBDA e :
    LET j == (e % HeadSize) \div 2
    IN IF e % 2 = 0 THEN Minus(Times(x[e + 1], Cos(pos, j)), Times(x[e + 2], Sin(pos, j)))
       ELSE Plus(Times(x[e], Sin(pos, j)), Times(x[e + 1], Cos(pos, j))))

\* One head at a time: the scores against the cached keys, the softmax, the sum of the
\* cached values.
HeadWeights(q, K, off) ==
  LET dot(t) == Total(HeadSize, LAMBDA j : Times(q[off + j + 1], K[t][off + j + 1]))
  IN SoftmaxRows(Floats(Len(K), LAMBDA t : Times(dot(t + 1), RSqrt(Const(HeadSize)))), Len(K), <<Len(K)>>)
ValueSum(head, V) ==
  Floats(Width, LAMBDA e : Total(Len(V), LAMBDA t :
    Times(head[(e \div HeadSize) + 1][t + 1], V[t + 1][e + 1])))
AttendRow(q, K, V) == ValueSum([h \in 1..NumHeads |-> HeadWeights(q, K, (h - 1) * HeadSize)] \o <<>>, V)

\* The hidden row of the feed-forward network: SwiGLU, or GELU with biases.
FfnRow(h, W, modern) ==
  LET hidden(x) == Tensor(<<1, Hidden>>, x)
  IN IF modern THEN MatVec(Pairwise(hidden(MatVec(h, W[1])), hidden(MatVec(h, W[2])),
                                    LAMBDA gate, up : Times(up, Silu(gate))).data, W[3])
     ELSE MatVecBias(Each(hidden(MatVecBias(h, W[1], W[2])), Gelu).data, W[3], W[4])

EmbedRow(weights, token, pos, modern) ==
  Floats(Width, LAMBDA j :
    LET e == Times(weights[1].data[token * Width + j + 1], EmbedScale)
    IN IF modern THEN e ELSE Plus(e, weights[2].data[pos * Width + j + 1]))

\* Slip: the keys are cached before they are turned.
KeyRowUnturned(k, pos, modern) == k

\* The cache holds rotated keys.
KeyRow(k, pos, modern) == IF modern THEN RopeRow(k, pos) ELSE k

\* One layer on the row: its keys and values join the caches before it attends.
TurnRow(x, pos, modern) == IF modern THEN RopeRow(x, pos) ELSE x
BlockNorm(x, block, k, modern) ==
  LET first == IF modern THEN 11 ELSE 12
  IN NormRow(x, block[first + k], block[first + k + 1], modern)

CacheRow(state, block, l, modern, h) ==
  LET pos == Len(state.k[l])
  IN [state EXCEPT !.k[l] = Append(@, KeyRow(MatVecBias(h, block[2], block[6]), pos, modern)),
                   !.v[l] = Append(@, MatVecBias(h, block[3], block[7]))]

\* Attention on the normed row h, from the caches h has joined; its result is added to x.
AttendLayer(state, block, l, modern, h) ==
  LET q == TurnRow(MatVecBias(h, block[1], block[5]), Len(state.k[l]) - 1, modern)
  IN [state EXCEPT !.x = AddRow(@, MatVecBias(AttendRow(q, state.k[l], state.v[l]), block[4], block[8]))]

AttendTo(state, block, l, modern, h) == AttendLayer(CacheRow(state, block, l, modern, h), block, l, modern, h)

FfnLayer(state, block, modern) ==
  [state EXCEPT !.x = AddRow(@, FfnRow(BlockNorm(@, block, 3, modern), SubSeq(block, 9, Len(block)), modern))]

LayerRow(state, block, l, modern) ==
  FfnLayer(AttendTo(state, block, l, modern, BlockNorm(state.x, block, 1, modern)), block, modern)

\* The row through all the layers.
LayersRow(start, weights, modern) ==
  LET size == BlockSize(modern)
      first(l) == Embeddings(modern) + (l - 1) * size + 1
      layer[l \in 0..NumLayers] == IF l = 0 THEN start
        ELSE LayerRow(layer[l - 1], SubSeq(weights, first(l), first(l) + size - 1), l, modern)
  IN layer[NumLayers]

\* The final norm and the tied logits.
LogitsRow(x, weights, modern) ==
  Sgemm(NormRow(x, weights[NumParams(modern) - 1], weights[NumParams(modern)], modern), FALSE,
        weights[1].data, TRUE, 1, Vocab, Width)

\* step(token): pos_ is the number of tokens fed.
Fed(session, token, state, weights, modern) ==
  [tokens |-> Append(session.tokens, token), k |-> state.k, v |-> state.v,
   logits |-> LogitsRow(state.x, weights, modern)]

SessionStep(session, weights, token, modern) ==
  LET row == EmbedRow(weights, token, Len(session.tokens), modern)
  IN Fed(session, token, LayersRow([x |-> row, k |-> session.k, v |-> session.v], weights, modern),
         weights, modern)
=============================================================================
