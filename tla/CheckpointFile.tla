--------------------------- MODULE CheckpointFile ---------------------------
(***************************************************************************)
(* The checkpoint format (gpt_model.cpp): a header, one record per         *)
(* parameter tensor in a fixed order and without names, and an optional    *)
(* trailer section with the tokenizer's fingerprint. A file is the         *)
(* sequence of its items, of which an interrupted write leaves a prefix    *)
(* and perhaps a last item cut short ("torn"). The tensors' order is all   *)
(* that tells W_q from W_k: they have the same shape.                      *)
(***************************************************************************)
EXTENDS Naturals, SequencesExt

CONSTANT NoFingerprint    \* std::nullopt of GPTModel::tokenizer_

\* GPTModel::getAllParameters, which load() follows too. A model is [arch, dims,
\* fp, data]: dims the header's fields, data[p] what parameter p holds.
Params(m) ==
  LET block == <<"W_q", "W_k", "W_v", "W_o", "b_q", "b_k", "b_v", "b_o">>
               \o (IF m.arch = "modern" THEN <<"gate", "layer1", "layer2">>
                                        ELSE <<"layer1", "bias1", "layer2", "bias2">>)
               \o <<"gamma1", "beta1", "gamma2", "beta2">>
  IN  <<<<"token", 0>>>> \o (IF m.arch = "modern" THEN <<>> ELSE <<<<"pos", 0>>>>)
        \o FlattenSeq([i \in 1..m.dims.layers |-> [k \in DOMAIN block |-> <<block[k], i>>]])
        \o <<<<"gamma", 0>>, <<"beta", 0>>>>

\* Rows and columns of parameter p; the feed-forward width is 4 * d_model.
Shape(m, p) ==
  LET d == m.dims.d_model
  IN  CASE p[1] = "token" -> <<m.dims.vocab, d>>
        [] p[1] = "pos" -> <<m.dims.max_len, d>>
        [] p[1] \in {"W_q", "W_k", "W_v", "W_o"} -> <<d, d>>
        [] p[1] \in {"gate", "layer1"} -> <<d, 4 * d>>
        [] p[1] = "layer2" -> <<4 * d, d>>
        [] p[1] = "bias1" -> <<1, 4 * d>>
        [] OTHER -> <<1, d>>

Item(tag, v) == [is |-> tag, val |-> v]
TensorOf(m, p) == [is |-> "tensor", shape |-> Shape(m, p), val |-> m.data[p]]

Dims(m) == <<Item("vocab", m.dims.vocab), Item("d_model", m.dims.d_model),
             Item("layers", m.dims.layers), Item("heads", m.dims.heads),
             Item("max_len", m.dims.max_len), Item("dropout", 0)>>

Trailer(m) == IF m.fp = NoFingerprint THEN <<>>
              ELSE <<Item("section", "TKFP"), Item("payload", m.fp)>>

\* Slip: save() writes a block's W_v before its W_k.
SwappedOrder(m) ==
  [k \in DOMAIN Params(m) |->
     LET p == Params(m)[k]
     IN  CASE p[1] = "W_k" -> <<"W_v", p[2]>> [] p[1] = "W_v" -> <<"W_k", p[2]>> [] OTHER -> p]

\* The order in which save() writes the tensors.
SaveOrder(m) == Params(m)

\* GPTModel::save, format version 2.
Save(m) ==
  [items |-> <<Item("magic", "GPTM"), Item("version", 2), Item("arch", m.arch)>> \o Dims(m)
             \o [k \in DOMAIN SaveOrder(m) |-> TensorOf(m, SaveOrder(m)[k])] \o Trailer(m),
   torn |-> FALSE]

\* A file of format version 1: no architecture, always GPT-2, and no trailer.
SaveV1(m) ==
  [items |-> <<Item("magic", "GPTM"), Item("version", 1)>> \o Dims(m)
             \o [k \in DOMAIN Params(m) |-> TensorOf(m, Params(m)[k])],
   torn |-> FALSE]

\* What a power failure may leave of a file that was never flushed: n items, and
\* perhaps part of the next.
Cut(f, n, torn) ==
  IF n >= Len(f.items) THEN f
  ELSE [items |-> SubSeq(f.items, 1, IF torn THEN n + 1 ELSE n), torn |-> torn]

Refused == [arch |-> "refused"]

\* check_range on every header field, and the heads dividing d_model.
InRange(d) ==
  /\ d.vocab \in 1..16777216 /\ d.layers \in 1..4096 /\ d.max_len \in 1..1048576
  /\ d.d_model \in 1..65536 /\ d.heads \in 1..d.d_model /\ d.d_model % d.heads = 0

\* The sections after the last tensor. Only a clean end ends them: a section cut
\* short is an error, no section at all is a checkpoint without a fingerprint.
Sections(rest, torn) ==
  IF torn \/ Len(rest) % 2 = 1 THEN Refused
  ELSE IF rest = <<>> THEN NoFingerprint ELSE rest[2].val

\* GPTModel::load: every read is checked, and every tensor must have the shape of
\* the parameter it replaces.
Load(f) ==
  LET whole == IF f.torn THEN Len(f.items) - 1 ELSE Len(f.items)
      from == IF whole >= 2 /\ f.items[2].val = 1 THEN 2 ELSE 3   \* items before the dimensions
      at(k) == f.items[from + k].val
      m == [arch |-> IF from = 2 THEN "gpt2" ELSE f.items[3].val,
            dims |-> [vocab |-> at(1), d_model |-> at(2), layers |-> at(3),
                      heads |-> at(4), max_len |-> at(5)]]
      ps == Params(m)
      end == from + 6 + Len(ps)
      tensor(k) == f.items[from + 6 + k]
      fp == Sections(SubSeq(f.items, end + 1, Len(f.items)), f.torn)
  IN  IF \/ whole < from + 6
         \/ ~InRange(m.dims) \/ whole < end
         \/ \E k \in DOMAIN ps : tensor(k).shape # Shape(m, ps[k])
         \/ fp = Refused
      THEN Refused
      ELSE [arch |-> m.arch, dims |-> m.dims, fp |-> fp,
            data |-> [p \in ToSet(ps) |-> tensor(CHOOSE k \in DOMAIN ps : ps[k] = p).val]]
=============================================================================
