--------------------------- MODULE LineageProofs ---------------------------
(***************************************************************************)
(* Proofs about Lineage for every set of texts and vocab sizes and any     *)
(* number of commands, edits, removals and crashes: a checkpoint that      *)
(* records a tokenizer was trained on that tokenizer's ids and no other's, *)
(* held-out text stays held out, every command feeds a model the ids it    *)
(* speaks, reads only tokens that are there, and loads a checkpoint whole  *)
(* or not at all. The two kinds of file come first, for every size: a      *)
(* checkpoint is a sequence of items whose number depends on the layers,   *)
(* what load() makes of a file save() wrote is that model, and of a file   *)
(* cut short nothing else (LoadLeft, LoadWhole); token files, their        *)
(* windows and the spread of an evaluation are arithmetic. The layout of a *)
(* checkpoint needs an induction over its tensors, which rests on < being  *)
(* well-founded (Induction).                                               *)
(***************************************************************************)
EXTENDS Lineage, SequenceTheorems, WellFoundedInduction, TLAPS

-----------------------------------------------------------------------------
(* Induction over the naturals, for a set in place of a predicate.         *)

\* < on the naturals is well-founded.
LEMMA LessIsWellFounded == IsWellFoundedOn({ss \in Nat \X Nat : ss[1] < ss[2]}, Nat)
BY NatLessThanWellFounded DEF OpToRel

\* A set of naturals has a least element.
LEMMA LeastElement == ASSUME NEW T \in SUBSET Nat, T # {} PROVE \E x \in T : \A y \in T : x <= y
<1>1. PICK x \in T : \A y \in T : ~ (<<y, x>> \in {ss \in Nat \X Nat : ss[1] < ss[2]})
  BY LessIsWellFounded, WFMin
<1>2. \A y \in T : <<y, x>> \in Nat \X Nat /\ <<y, x>>[1] = y /\ <<y, x>>[2] = x
  OBVIOUS
<1>3. \A y \in T : ~ (y < x)
  BY <1>1, <1>2
<1>. QED  BY <1>3

\* A set that holds 0 and each successor holds every natural.
LEMMA Induction == ASSUME NEW S, 0 \in S, \A n \in Nat : n \in S => n + 1 \in S PROVE Nat \subseteq S
<1> SUFFICES ASSUME Nat \ S # {} PROVE FALSE
  OBVIOUS
<1>1. PICK x \in Nat \ S : \A y \in Nat \ S : x <= y
  BY LeastElement
<1>2. x # 0 /\ x - 1 \in Nat /\ x - 1 \in S
  BY <1>1
<1>. QED  BY <1>1, <1>2

-----------------------------------------------------------------------------
(* FlattenSeq, which Params uses.                                          *)

\* f solves the recursion of FlattenSeq up to k + 1.
Flattens(f, ss, S, k) ==
  /\ f \in [1..(k + 1) -> Seq(S)]
  /\ \A i \in 1..(k + 1) : f[i] = IF i = 1 THEN ss[i] ELSE f[i - 1] \o ss[i]

\* The recursion has a solution one step further.
LEMMA FlattenOneMore ==
  ASSUME NEW S, NEW n \in Nat, NEW ss \in [1..(n + 1) -> Seq(S)],
         NEW k \in Nat, k + 1 <= n, NEW f, Flattens(f, ss, S, k)
  PROVE  \E g : Flattens(g, ss, S, k + 1)
<1> DEFINE g == [i \in 1..(k + 2) |-> IF i = k + 2 THEN f[k + 1] \o ss[k + 2] ELSE f[i]]
<1>1. /\ f \in [1..(k + 1) -> Seq(S)] /\ k + 1 \in 1..(k + 1) /\ k + 2 \in 1..(n + 1)
      /\ (k + 1) + 1 = k + 2 /\ 1..(k + 2) = 1..(k + 1) \cup {k + 2}
  BY DEF Flattens
<1>2. f[k + 1] \in Seq(S) /\ ss[k + 2] \in Seq(S)
  BY <1>1
<1>3. f[k + 1] \o ss[k + 2] \in Seq(S)
  BY <1>2, ConcatProperties
<1>4. g \in [1..(k + 2) -> Seq(S)]
  BY <1>1, <1>3
<1>5. ASSUME NEW i \in 1..(k + 2) PROVE g[i] = IF i = 1 THEN ss[i] ELSE g[i - 1] \o ss[i]
  <2>1. CASE i = k + 2
    <3>1. i # 1 /\ i - 1 = k + 1 /\ i - 1 \in 1..(k + 2) /\ i - 1 # k + 2
      BY <2>1
    <3>. QED  BY <2>1, <3>1
  <2>2. CASE i # k + 2 /\ i # 1
    <3>1. i \in 1..(k + 1) /\ i - 1 \in 1..(k + 2) /\ i - 1 # k + 2
      BY <2>2
    <3>. QED  BY <2>2, <3>1 DEF Flattens
  <2>3. CASE i # k + 2 /\ i = 1
    <3>1. i \in 1..(k + 1) /\ g[i] = f[i]
      BY <2>3
    <3>2. f[i] = ss[i]
      BY <2>3, <3>1 DEF Flattens
    <3>. QED  BY <2>3, <3>1, <3>2
  <2>. QED  BY <2>1, <2>2, <2>3
<1> HIDE DEF g
<1>6. Flattens(g, ss, S, k + 1)
  BY <1>1, <1>4, <1>5 DEF Flattens
<1>. QED  BY <1>6

\* The recursion has a solution.
LEMMA FlattenExists ==
  ASSUME NEW S, NEW n \in Nat, NEW ss \in [1..(n + 1) -> Seq(S)]
  PROVE  \E f : Flattens(f, ss, S, n)
<1> DEFINE K == {k \in Nat : k <= n => \E f : Flattens(f, ss, S, k)}
<1>1. 0 \in K
  <2> DEFINE g == [i \in {1} |-> ss[i]]
  <2>1. 1..(0 + 1) = {1} /\ 1 \in 1..(n + 1)
    OBVIOUS
  <2>2. g \in [{1} -> Seq(S)] /\ g[1] = ss[1]
    BY <2>1
  <2> HIDE DEF g
  <2>3. Flattens(g, ss, S, 0)
    BY <2>1, <2>2 DEF Flattens
  <2>. QED  BY <2>3
<1>2. ASSUME NEW k \in Nat, k \in K PROVE k + 1 \in K
  <2>1. k + 1 \in Nat /\ (k + 1 <= n => k <= n)
    OBVIOUS
  <2>2. k + 1 <= n => \E f : Flattens(f, ss, S, k + 1)
    <3> SUFFICES ASSUME k + 1 <= n PROVE \E f : Flattens(f, ss, S, k + 1)
      OBVIOUS
    <3>1. PICK f : Flattens(f, ss, S, k)
      BY <1>2, <2>1
    <3>. QED  BY <3>1, FlattenOneMore
  <2>. QED  BY <2>1, <2>2
<1>3. n \in K
  <2> HIDE DEF K
  <2>. QED  BY <1>1, <1>2, Induction
<1>. QED  BY <1>3

\* Flattening sequences over S gives a sequence over S.
LEMMA FlattenIsSeq ==
  ASSUME NEW S, NEW ss \in Seq(Seq(S))
  PROVE  FlattenSeq(ss) \in Seq(S)
<1>1. Len(ss) \in Nat /\ ss \in [1..Len(ss) -> Seq(S)]
  BY LenProperties
<1>2. CASE Len(ss) = 0
  <2>1. ss = << >>
    BY <1>2, EmptySeq
  <2>. QED  BY <1>2, <2>1, EmptySeq DEF FlattenSeq
<1>3. CASE Len(ss) # 0
  <2> DEFINE flatten == CHOOSE f : f = [i \in 1..Len(ss) |-> IF i = 1 THEN ss[i] ELSE f[i - 1] \o ss[i]]
             n == Len(ss) - 1
  <2>1. n \in Nat /\ Len(ss) = n + 1 /\ ss \in [1..(n + 1) -> Seq(S)]
    BY <1>1, <1>3
  <2>2. PICK f : Flattens(f, ss, S, n)
    BY <2>1, FlattenExists
  <2>3. f = [i \in 1..Len(ss) |-> IF i = 1 THEN ss[i] ELSE f[i - 1] \o ss[i]]
    BY <2>1, <2>2 DEF Flattens
  <2>4. flatten = [i \in 1..Len(ss) |-> IF i = 1 THEN ss[i] ELSE flatten[i - 1] \o ss[i]]
    BY <2>3, Zenon
  <2>5. FlattenSeq(ss) = flatten[Len(ss)]
    BY <1>3 DEF FlattenSeq
  <2> HIDE DEF flatten, n
  <2> DEFINE K == {k \in Nat : k <= n => flatten[k + 1] \in Seq(S)}
  <2>6. 0 \in K
    BY <2>1, <2>4
  <2>7. ASSUME NEW k \in Nat, k \in K PROVE k + 1 \in K
    <3>1. k + 1 \in Nat /\ (k + 1) + 1 = k + 2 /\ k + 2 # 1 /\ (k + 2) - 1 = k + 1
      OBVIOUS
    <3>2. k + 1 <= n => flatten[k + 2] \in Seq(S)
      <4> SUFFICES ASSUME k + 1 <= n PROVE flatten[k + 2] \in Seq(S)
        OBVIOUS
      <4>1. k <= n /\ k + 2 \in 1..Len(ss)
        BY <2>1
      <4>2. flatten[k + 1] \in Seq(S) /\ ss[k + 2] \in Seq(S)
        BY <2>1, <2>7, <4>1
      <4>3. flatten[k + 2] = flatten[k + 1] \o ss[k + 2]
        BY <2>4, <3>1, <4>1
      <4>. QED  BY <4>2, <4>3, ConcatProperties
    <3>. QED  BY <3>1, <3>2
  <2>8. n \in K
    <3> HIDE DEF K
    <3>. QED  BY <2>1, <2>6, <2>7, Induction
  <2>. QED  BY <2>1, <2>5, <2>8
<1>. QED  BY <1>1, <1>2, <1>3
-----------------------------------------------------------------------------
(* The checkpoint format.                                                  *)

\* A function on 1..n is a sequence of length n.
LEMMA FunIsSeq ==
  ASSUME NEW S, NEW n \in Nat, NEW f \in [1..n -> S]
  PROVE  f \in Seq(S) /\ Len(f) = n /\ DOMAIN f = 1..n
OBVIOUS

\* A model as load() and save() know it: these fields and no others.
IsModel(m) ==
  /\ m = [arch |-> m.arch, dims |-> m.dims, fp |-> m.fp, data |-> m.data]
  /\ m.dims = [vocab |-> m.dims.vocab, d_model |-> m.dims.d_model, layers |-> m.dims.layers,
               heads |-> m.dims.heads, max_len |-> m.dims.max_len]
  /\ m.dims.layers \in Nat
  /\ m.data = [p \in ToSet(Params(m)) |-> m.data[p]]

\* The names of parameter tensors.
Names == {"token", "pos", "gamma", "beta", "W_q", "W_k", "W_v", "W_o", "b_q", "b_k", "b_v", "b_o",
          "gate", "layer1", "layer2", "bias1", "bias2", "gamma1", "beta1", "gamma2", "beta2"}

\* Tuples are sequences over any set that holds their elements.
LEMMA TupleIsSeq ==
  ASSUME NEW S, NEW a \in S, NEW b \in S, NEW c \in S, NEW d \in S,
         NEW e \in S, NEW f \in S, NEW g \in S, NEW h \in S
  PROVE  /\ <<a>> \in Seq(S) /\ <<a, b>> \in Seq(S) /\ <<a, b, c>> \in Seq(S)
         /\ <<a, b, c, d>> \in Seq(S) /\ <<a, b, c, d, e, f>> \in Seq(S)
         /\ <<a, b, c, d, e, f, g, h>> \in Seq(S)
OBVIOUS

\* The parameters of a model are a sequence of names with block numbers.
LEMMA ParamsIsSeq ==
  ASSUME NEW m, m.dims.layers \in Nat
  PROVE  Params(m) \in Seq(Names \X Nat)
<1> DEFINE X == Names \X Nat
           block == <<"W_q", "W_k", "W_v", "W_o", "b_q", "b_k", "b_v", "b_o">>
               \o (IF m.arch = "modern" THEN <<"gate", "layer1", "layer2">>
                                        ELSE <<"layer1", "bias1", "layer2", "bias2">>)
               \o <<"gamma1", "beta1", "gamma2", "beta2">>
           blocks == [i \in 1..m.dims.layers |-> [k \in DOMAIN block |-> <<block[k], i>>]]
           first == <<<<"token", 0>>>>
           pos == IF m.arch = "modern" THEN <<>> ELSE <<<<"pos", 0>>>>
           last == <<<<"gamma", 0>>, <<"beta", 0>>>>
<1>1. block \in Seq(Names)
  <2>1. <<"W_q", "W_k", "W_v", "W_o", "b_q", "b_k", "b_v", "b_o">> \in Seq(Names)
    <3>1. /\ "W_q" \in Names /\ "W_k" \in Names /\ "W_v" \in Names /\ "W_o" \in Names
          /\ "b_q" \in Names /\ "b_k" \in Names /\ "b_v" \in Names /\ "b_o" \in Names
      BY DEF Names
    <3>. QED  BY <3>1, TupleIsSeq
  <2>2. <<"gate", "layer1", "layer2">> \in Seq(Names)
    <3>1. "gate" \in Names /\ "layer1" \in Names /\ "layer2" \in Names
      BY DEF Names
    <3>. QED  BY <3>1, TupleIsSeq
  <2>3. <<"layer1", "bias1", "layer2", "bias2">> \in Seq(Names)
    <3>1. "layer1" \in Names /\ "bias1" \in Names /\ "layer2" \in Names /\ "bias2" \in Names
      BY DEF Names
    <3>. QED  BY <3>1, TupleIsSeq
  <2>4. <<"gamma1", "beta1", "gamma2", "beta2">> \in Seq(Names)
    <3>1. "gamma1" \in Names /\ "beta1" \in Names /\ "gamma2" \in Names /\ "beta2" \in Names
      BY DEF Names
    <3>. QED  BY <3>1, TupleIsSeq
  <2>. QED  BY <2>1, <2>2, <2>3, <2>4, ConcatProperties
<1>2. first \in Seq(X) /\ pos \in Seq(X) /\ last \in Seq(X)
  <2>1. <<"token", 0>> \in X /\ <<"pos", 0>> \in X /\ <<"gamma", 0>> \in X /\ <<"beta", 0>> \in X
    BY DEF Names
  <2> HIDE DEF X
  <2>. QED  BY <2>1, TupleIsSeq, EmptySeq
<1> HIDE DEF block
<1>3. blocks \in Seq(Seq(X))
  <2>1. Len(block) \in Nat /\ block \in [1..Len(block) -> Names] /\ DOMAIN block = 1..Len(block)
    BY <1>1, LenProperties
  <2>2. ASSUME NEW i \in 1..m.dims.layers PROVE blocks[i] \in Seq(X)
    <3>1. blocks[i] \in [1..Len(block) -> X]
      BY <2>1, <2>2
    <3>. QED  BY <2>1, <3>1, FunIsSeq
  <2>3. blocks \in [1..m.dims.layers -> Seq(X)]
    BY <2>2
  <2> HIDE DEF blocks
  <2>. QED  BY <2>3, FunIsSeq
<1> HIDE DEF blocks, first, pos, last
<1>4. FlattenSeq(blocks) \in Seq(X)
  BY <1>3, FlattenIsSeq
<1>5. first \o pos \o FlattenSeq(blocks) \o last \in Seq(X)
  BY <1>2, <1>4, ConcatProperties
<1>6. Params(m) = first \o pos \o FlattenSeq(blocks) \o last
  BY DEF Params, first, pos, blocks, last, block
<1>. QED  BY <1>5, <1>6

\* They depend on the architecture and the number of layers only.
LEMMA ParamsOf ==
  ASSUME NEW m, NEW n, m.arch = n.arch, m.dims.layers = n.dims.layers
  PROVE  Params(m) = Params(n)
BY DEF Params
\* What the items of a complete file of m are: dimensions after from items, then one
\* item per parameter, then perhaps a section of two items.
Layout(items, m, from) ==
  LET ps == Params(m) IN
    /\ from \in {2, 3} /\ items[2].val = (IF from = 2 THEN 1 ELSE 2)
    /\ IF from = 2 THEN m.arch = "gpt2" ELSE items[3].val = m.arch
    /\ items[from + 1].val = m.dims.vocab /\ items[from + 2].val = m.dims.d_model
    /\ items[from + 3].val = m.dims.layers /\ items[from + 4].val = m.dims.heads
    /\ items[from + 5].val = m.dims.max_len
    /\ \A k \in 1..Len(ps) : items[from + 6 + k] = TensorOf(m, ps[k])
    /\ Len(items) = from + 6 + Len(ps) + (IF m.fp = NoFingerprint THEN 0 ELSE 2)
    /\ m.fp # NoFingerprint => items[from + 6 + Len(ps) + 2].val = m.fp

\* A sequence after a sequence, element by element.
LEMMA AfterSeq ==
  ASSUME NEW S, NEW s \in Seq(S), NEW t \in Seq(S)
  PROVE  /\ s \o t \in Seq(S)
         /\ Len(s) \in Nat /\ Len(t) \in Nat /\ Len(s \o t) = Len(s) + Len(t)
         /\ \A i \in 1..Len(s) : (s \o t)[i] = s[i]
         /\ \A i \in 1..Len(t) : (s \o t)[Len(s) + i] = t[i]
<1>2. Len(s) \in Nat /\ Len(t) \in Nat
  BY LenProperties
<1>3. /\ s \o t \in Seq(S) /\ Len(s \o t) = Len(s) + Len(t)
      /\ \A i \in 1..Len(s) + Len(t) : (s \o t)[i] = IF i <= Len(s) THEN s[i] ELSE t[i - Len(s)]
  BY ConcatProperties
<1>4. ASSUME NEW i \in 1..Len(s) PROVE (s \o t)[i] = s[i]
  BY <1>2, <1>3
<1>5. ASSUME NEW i \in 1..Len(t) PROVE (s \o t)[Len(s) + i] = t[i]
  <2>1. Len(s) + i \in 1..Len(s) + Len(t) /\ ~(Len(s) + i <= Len(s)) /\ (Len(s) + i) - Len(s) = i
    BY <1>2
  <2>. QED  BY <1>3, <2>1
<1>. QED  BY <1>2, <1>3, <1>4, <1>5

\* Four sequences one after the other, element by element.
AreJoined(items, h, d, ts, tr) == items = ((h \o d) \o ts) \o tr
LEMMA FourSeqs ==
  ASSUME NEW S, NEW h \in Seq(S), NEW d \in Seq(S), NEW ts \in Seq(S), NEW tr \in Seq(S),
         NEW items, AreJoined(items, h, d, ts, tr)
  PROVE  /\ items \in Seq(S)
         /\ Len(h) \in Nat /\ Len(d) \in Nat /\ Len(ts) \in Nat /\ Len(tr) \in Nat
         /\ Len(items) = Len(h) + Len(d) + Len(ts) + Len(tr)
         /\ \A i \in 1..Len(h) : items[i] = h[i]
         /\ \A i \in 1..Len(d) : items[Len(h) + i] = d[i]
         /\ \A i \in 1..Len(ts) : items[Len(h) + Len(d) + i] = ts[i]
         /\ \A i \in 1..Len(tr) : items[Len(h) + Len(d) + Len(ts) + i] = tr[i]
<1> DEFINE u == h \o d
           v == u \o ts
           all == v \o tr
<1>1. /\ u \in Seq(S) /\ Len(h) \in Nat /\ Len(d) \in Nat /\ Len(u) = Len(h) + Len(d)
      /\ \A i \in 1..Len(h) : u[i] = h[i]
      /\ \A i \in 1..Len(d) : u[Len(h) + i] = d[i]
  BY AfterSeq
<1> HIDE DEF u
<1>2. /\ v \in Seq(S) /\ Len(ts) \in Nat /\ Len(v) = Len(u) + Len(ts)
      /\ \A i \in 1..Len(u) : v[i] = u[i]
      /\ \A i \in 1..Len(ts) : v[Len(u) + i] = ts[i]
  <2>1. u \in Seq(S)
    BY <1>1
  <2>. QED  BY <2>1, AfterSeq
<1> HIDE DEF v
<1>3. /\ all \in Seq(S) /\ Len(tr) \in Nat /\ Len(all) = Len(v) + Len(tr)
      /\ \A i \in 1..Len(v) : all[i] = v[i]
      /\ \A i \in 1..Len(tr) : all[Len(v) + i] = tr[i]
  <2>1. v \in Seq(S)
    BY <1>2
  <2>. QED  BY <2>1, AfterSeq
<1> HIDE DEF all
<1>9. items = all
  BY DEF AreJoined, all, v, u
<1> USE <1>9
<1>4. ASSUME NEW i \in 1..Len(h) PROVE items[i] = h[i]
  BY <1>1, <1>2, <1>3
<1>5. ASSUME NEW i \in 1..Len(d) PROVE items[Len(h) + i] = d[i]
  <2>1. Len(h) + i \in 1..Len(u) /\ Len(h) + i \in 1..Len(v)
    BY <1>1, <1>2
  <2>. QED  BY <1>1, <1>2, <1>3, <2>1
<1>6. ASSUME NEW i \in 1..Len(ts) PROVE items[Len(h) + Len(d) + i] = ts[i]
  <2>1. Len(u) + i \in 1..Len(v) /\ Len(u) + i = Len(h) + Len(d) + i
    BY <1>1, <1>2
  <2>. QED  BY <1>2, <1>3, <2>1
<1>7. ASSUME NEW i \in 1..Len(tr) PROVE items[Len(h) + Len(d) + Len(ts) + i] = tr[i]
  <2>1. Len(v) + i = Len(h) + Len(d) + Len(ts) + i
    BY <1>1, <1>2
  <2>. QED  BY <1>3, <2>1
<1>8. Len(items) = Len(h) + Len(d) + Len(ts) + Len(tr)
  BY <1>1, <1>2, <1>3
<1>. QED  BY <1>1, <1>2, <1>3, <1>4, <1>5, <1>6, <1>7, <1>8

\* The parts of a file that the two formats share.
LEMMA FileParts ==
  ASSUME NEW m, IsModel(m)
  PROVE  /\ Len(Params(m)) \in Nat /\ DOMAIN Params(m) = 1..Len(Params(m))
         /\ \E B : Dims(m) \in Seq(B)
         /\ Len(Dims(m)) = 6
         /\ Dims(m)[1].val = m.dims.vocab /\ Dims(m)[2].val = m.dims.d_model
         /\ Dims(m)[3].val = m.dims.layers /\ Dims(m)[4].val = m.dims.heads
         /\ Dims(m)[5].val = m.dims.max_len
         /\ \A ps : ps = Params(m) =>
              /\ \E C : [k \in DOMAIN ps |-> TensorOf(m, ps[k])] \in Seq(C)
              /\ Len([k \in DOMAIN ps |-> TensorOf(m, ps[k])]) = Len(ps)
<1>1. Params(m) \in Seq(Names \X Nat)
  BY ParamsIsSeq DEF IsModel
<1>2. Len(Params(m)) \in Nat /\ DOMAIN Params(m) = 1..Len(Params(m))
  BY <1>1, LenProperties
<1>3. Dims(m) \in Seq({Dims(m)[1], Dims(m)[2], Dims(m)[3], Dims(m)[4], Dims(m)[5], Dims(m)[6]})
  <2> DEFINE S == {Dims(m)[1], Dims(m)[2], Dims(m)[3], Dims(m)[4], Dims(m)[5], Dims(m)[6]}
  <2>1. /\ Dims(m)[1] \in S /\ Dims(m)[2] \in S /\ Dims(m)[3] \in S
        /\ Dims(m)[4] \in S /\ Dims(m)[5] \in S /\ Dims(m)[6] \in S
    OBVIOUS
  <2>2. Dims(m) = <<Dims(m)[1], Dims(m)[2], Dims(m)[3], Dims(m)[4], Dims(m)[5], Dims(m)[6]>>
    BY DEF Dims
  <2> HIDE DEF S
  <2>3. <<Dims(m)[1], Dims(m)[2], Dims(m)[3], Dims(m)[4], Dims(m)[5], Dims(m)[6]>> \in Seq(S)
    BY <2>1, TupleIsSeq
  <2>. QED  BY <2>2, <2>3 DEF S
<1>4. ASSUME NEW ps, ps = Params(m)
      PROVE  /\ \E C : [k \in DOMAIN ps |-> TensorOf(m, ps[k])] \in Seq(C)
             /\ Len([k \in DOMAIN ps |-> TensorOf(m, ps[k])]) = Len(ps)
  <2> DEFINE ts == [k \in DOMAIN ps |-> TensorOf(m, ps[k])]
             C == {ts[k] : k \in 1..Len(ps)}
  <2>1. ts \in [1..Len(ps) -> C]
    BY <1>2, <1>4
  <2> HIDE DEF ts, C
  <2>2. ts \in Seq(C) /\ Len(ts) = Len(ps)
    BY <1>2, <1>4, <2>1, FunIsSeq
  <2>. QED  BY <2>2 DEF ts
<1>5. /\ Len(Dims(m)) = 6
      /\ Dims(m)[1].val = m.dims.vocab /\ Dims(m)[2].val = m.dims.d_model
      /\ Dims(m)[3].val = m.dims.layers /\ Dims(m)[4].val = m.dims.heads
      /\ Dims(m)[5].val = m.dims.max_len
  BY DEF Dims, Item
<1>. QED  BY <1>2, <1>3, <1>4, <1>5

\* The tensors of m, in the order of its parameters.
TensorsOf(m) == [k \in DOMAIN Params(m) |-> TensorOf(m, Params(m)[k])]

\* A header of from items, dimensions, tensors and trailer make a complete file.
LEMMA JoinedLayout ==
  ASSUME NEW m, IsModel(m), NEW from \in {2, 3}, NEW h, NEW A, h \in Seq(A), Len(h) = from,
         h[2].val = (IF from = 2 THEN 1 ELSE 2),
         IF from = 2 THEN m.arch = "gpt2" ELSE h[3].val = m.arch,
         NEW items, AreJoined(items, h, Dims(m), TensorsOf(m), Trailer(m))
  PROVE  Layout(items, m, from) /\ \E S : items \in Seq(S)
<1> DEFINE d == Dims(m)
           ps == Params(m)
           ts == TensorsOf(m)
           tr == Trailer(m)
<1>4. /\ \E D : tr \in Seq(D)
      /\ Len(tr) = (IF m.fp = NoFingerprint THEN 0 ELSE 2)
      /\ m.fp # NoFingerprint => tr[2].val = m.fp
  <2>1. CASE m.fp = NoFingerprint
    <3>1. tr = << >>
      BY <2>1 DEF Trailer
    <3>2. << >> \in Seq({}) /\ Len(<< >>) = 0
      BY EmptySeq
    <3>. QED  BY <2>1, <3>1, <3>2
  <2>2. CASE m.fp # NoFingerprint
    <3>1. tr = <<Item("section", "TKFP"), Item("payload", m.fp)>>
      BY <2>2 DEF Trailer
    <3> DEFINE S == {Item("section", "TKFP"), Item("payload", m.fp)}
    <3>2. Item("section", "TKFP") \in S /\ Item("payload", m.fp) \in S
      OBVIOUS
    <3> HIDE DEF S
    <3>3. tr \in Seq(S)
      BY <3>1, <3>2, TupleIsSeq
    <3>4. Len(tr) = 2 /\ tr[2].val = m.fp
      BY <3>1 DEF Item
    <3>. QED  BY <2>2, <3>3, <3>4
  <2>. QED  BY <2>1, <2>2
<1>5. /\ Len(ps) \in Nat /\ DOMAIN ps = 1..Len(ps)
      /\ \E B : d \in Seq(B)
      /\ Len(d) = 6
      /\ d[1].val = m.dims.vocab /\ d[2].val = m.dims.d_model /\ d[3].val = m.dims.layers
      /\ d[4].val = m.dims.heads /\ d[5].val = m.dims.max_len
      /\ \E C : ts \in Seq(C)
      /\ Len(ts) = Len(ps)
  BY FileParts DEF TensorsOf
<1>6. \A k \in 1..Len(ps) : ts[k] = TensorOf(m, ps[k])
  BY <1>5 DEF TensorsOf
<1> HIDE DEF d, ps, ts, tr
<1>7. /\ \E S : items \in Seq(S)
      /\ Len(items) = from + 6 + Len(ts) + Len(tr)
      /\ \A i \in 1..from : items[i] = h[i]
      /\ \A i \in 1..6 : items[from + i] = d[i]
      /\ \A i \in 1..Len(ts) : items[from + 6 + i] = ts[i]
      /\ \A i \in 1..Len(tr) : items[from + 6 + Len(ts) + i] = tr[i]
  <2>1. PICK S : h \in Seq(S) /\ d \in Seq(S) /\ ts \in Seq(S) /\ tr \in Seq(S)
    <3>1. PICK B, C, D : d \in Seq(B) /\ ts \in Seq(C) /\ tr \in Seq(D)
      BY <1>4, <1>5
    <3> DEFINE S == A \cup B \cup C \cup D
    <3>2. h \in Seq(S) /\ d \in Seq(S) /\ ts \in Seq(S) /\ tr \in Seq(S)
      BY <3>1, SeqMonotonic
    <3> HIDE DEF S
    <3>. QED  BY <3>2
  <2>2. AreJoined(items, h, d, ts, tr)
    BY DEF d, ts, tr
  <2>3. /\ items \in Seq(S)
        /\ Len(items) = Len(h) + Len(d) + Len(ts) + Len(tr)
        /\ \A i \in 1..Len(h) : items[i] = h[i]
        /\ \A i \in 1..Len(d) : items[Len(h) + i] = d[i]
        /\ \A i \in 1..Len(ts) : items[Len(h) + Len(d) + i] = ts[i]
        /\ \A i \in 1..Len(tr) : items[Len(h) + Len(d) + Len(ts) + i] = tr[i]
    BY ONLY <2>1, <2>2, FourSeqs
  <2>4. Len(h) = from /\ Len(d) = 6
    BY <1>5
  <2>5. Len(h) + Len(d) = from + 6
    BY <2>4
  <2>6. /\ Len(items) = from + 6 + Len(ts) + Len(tr)
        /\ \A i \in 1..Len(ts) : items[from + 6 + i] = ts[i]
        /\ \A i \in 1..Len(tr) : items[from + 6 + Len(ts) + i] = tr[i]
    BY ONLY <2>3, <2>5
  <2>. QED  BY ONLY <2>3, <2>4, <2>6
<1>8. /\ items[2].val = (IF from = 2 THEN 1 ELSE 2)
      /\ IF from = 2 THEN m.arch = "gpt2" ELSE items[3].val = m.arch
      /\ items[from + 1].val = m.dims.vocab /\ items[from + 2].val = m.dims.d_model
      /\ items[from + 3].val = m.dims.layers /\ items[from + 4].val = m.dims.heads
      /\ items[from + 5].val = m.dims.max_len
  <2>1. items[2] = h[2] /\ (from = 3 => items[3] = h[3])
    BY <1>7
  <2>2. /\ items[from + 1] = d[1] /\ items[from + 2] = d[2] /\ items[from + 3] = d[3]
        /\ items[from + 4] = d[4] /\ items[from + 5] = d[5]
    BY <1>7
  <2>3. /\ items[2].val = (IF from = 2 THEN 1 ELSE 2)
        /\ IF from = 2 THEN m.arch = "gpt2" ELSE items[3].val = m.arch
    BY <2>1
  <2>. QED  BY <1>5, <2>2, <2>3
<1>9. \A k \in 1..Len(ps) : items[from + 6 + k] = TensorOf(m, ps[k])
  BY <1>5, <1>6, <1>7
<1>10. /\ Len(items) = from + 6 + Len(ps) + (IF m.fp = NoFingerprint THEN 0 ELSE 2)
       /\ m.fp # NoFingerprint => items[from + 6 + Len(ps) + 2].val = m.fp
  <2>1. Len(ts) = Len(ps)
    BY <1>5
  <2>2. Len(items) = from + 6 + Len(ps) + Len(tr)
    BY <1>7, <2>1
  <2>3. CASE m.fp = NoFingerprint
    <3>1. Len(tr) = 0
      BY <1>4, <2>3
    <3>. QED  BY <2>2, <2>3, <3>1
  <2>4. CASE m.fp # NoFingerprint
    <3>1. Len(tr) = 2 /\ tr[2].val = m.fp
      BY <1>4, <2>4
    <3>2. 2 \in 1..Len(tr)
      BY <3>1
    <3>3. items[from + 6 + Len(ps) + 2] = tr[2]
      BY <1>7, <2>1, <3>2
    <3>. QED  BY <2>2, <2>4, <3>1, <3>3
  <2>. QED  BY <2>3, <2>4
<1>11. Layout(items, m, from)
  BY <1>8, <1>9, <1>10 DEF Layout, ps
<1>. QED  BY <1>7, <1>11

\* save() lays its file out so.
LEMMA SaveLayout ==
  ASSUME NEW m, IsModel(m)
  PROVE  Layout(Save(m).items, m, 3) /\ \E S : Save(m).items \in Seq(S)
<1> DEFINE h == <<Item("magic", "GPTM"), Item("version", 2), Item("arch", m.arch)>>
           A == {Item("magic", "GPTM"), Item("version", 2), Item("arch", m.arch)}
<1>1. h \in Seq(A)
  <2>1. Item("magic", "GPTM") \in A /\ Item("version", 2) \in A /\ Item("arch", m.arch) \in A
    OBVIOUS
  <2> HIDE DEF A
  <2>. QED  BY <2>1, TupleIsSeq
<1>2. Len(h) = 3 /\ h[2].val = 2 /\ h[3].val = m.arch
  BY DEF Item
<1>3. AreJoined(Save(m).items, h, Dims(m), TensorsOf(m), Trailer(m))
  BY DEF Save, SaveOrder, TensorsOf, AreJoined
<1> HIDE DEF h, A
<1>. QED  BY <1>1, <1>2, <1>3, JoinedLayout

\* So did format 1, which knew one architecture and no fingerprint.
LEMMA SaveV1Layout ==
  ASSUME NEW m, IsModel(m), m.arch = "gpt2", m.fp = NoFingerprint
  PROVE  Layout(SaveV1(m).items, m, 2) /\ \E S : SaveV1(m).items \in Seq(S)
<1> DEFINE h == <<Item("magic", "GPTM"), Item("version", 1)>>
           A == {Item("magic", "GPTM"), Item("version", 1)}
           all == (h \o Dims(m)) \o TensorsOf(m)
<1>1. h \in Seq(A)
  <2>1. Item("magic", "GPTM") \in A /\ Item("version", 1) \in A
    OBVIOUS
  <2> HIDE DEF A
  <2>. QED  BY <2>1, TupleIsSeq
<1>2. Len(h) = 2 /\ h[2].val = 1
  BY DEF Item
<1>3. AreJoined(SaveV1(m).items, h, Dims(m), TensorsOf(m), Trailer(m))
  <2>1. SaveV1(m).items = all /\ Trailer(m) = << >>
    BY DEF SaveV1, TensorsOf, Trailer
  <2>2. PICK B, C : Dims(m) \in Seq(B) /\ TensorsOf(m) \in Seq(C)
    BY FileParts DEF TensorsOf
  <2> DEFINE S == A \cup B \cup C
  <2>3. h \in Seq(S) /\ Dims(m) \in Seq(S) /\ TensorsOf(m) \in Seq(S)
    BY <1>1, <2>2, SeqMonotonic
  <2> HIDE DEF h, S
  <2>4. all \in Seq(S)
    BY <2>3, ConcatProperties
  <2>5. SaveV1(m).items = all \o Trailer(m)
    <3> HIDE DEF all
    <3>. QED  BY <2>1, <2>4, ConcatEmptySeq
  <2>. QED  BY <2>5 DEF AreJoined
<1> HIDE DEF h, A
<1>4. Layout(SaveV1(m).items, m, 2)
  BY <1>1, <1>2, <1>3, JoinedLayout
<1>5. \E S : SaveV1(m).items \in Seq(S)
  BY <1>1, <1>2, <1>3, JoinedLayout
<1>. QED  BY <1>4, <1>5
\* What a power failure may leave of a file: a prefix of its items, the last of them
\* perhaps cut short.
LeftOf(f, items) ==
  /\ f.torn \in BOOLEAN /\ Len(f.items) \in 0..Len(items) /\ (f.torn => Len(f.items) >= 1)
  /\ \A j \in 1..Len(f.items) : f.items[j] = items[j]
  /\ \E S : f.items \in Seq(S)

\* The model m without its fingerprint, as a file without trailer gives it back.
Nameless(m) == [arch |-> m.arch, dims |-> m.dims, fp |-> NoFingerprint, data |-> m.data]

\* load(), in two parts: the header it reads, and what it makes of the rest.
HeaderOf(f, from) ==
  [arch |-> IF from = 2 THEN "gpt2" ELSE f.items[3].val,
   dims |-> [vocab |-> f.items[from + 1].val, d_model |-> f.items[from + 2].val,
             layers |-> f.items[from + 3].val, heads |-> f.items[from + 4].val,
             max_len |-> f.items[from + 5].val]]
LoadRest(f, whole, from, m) ==
  LET ps == Params(m)
      end == from + 6 + Len(ps)
      fp == Sections(SubSeq(f.items, end + 1, Len(f.items)), f.torn)
  IN  IF \/ whole < from + 6
         \/ ~InRange(m.dims) \/ whole < end
         \/ \E k \in DOMAIN ps : f.items[from + 6 + k].shape # Shape(m, ps[k])
         \/ fp = Refused
      THEN Refused
      ELSE [arch |-> m.arch, dims |-> m.dims, fp |-> fp,
            data |-> [p \in ToSet(ps) |-> f.items[from + 6 + (CHOOSE k \in DOMAIN ps : ps[k] = p)].val]]
Whole(f) == IF f.torn THEN Len(f.items) - 1 ELSE Len(f.items)
HeaderLen(f) == IF Whole(f) >= 2 /\ f.items[2].val = 1 THEN 2 ELSE 3

\* These two parts are load().
LEMMA LoadParts == ASSUME NEW f PROVE Load(f) = LoadRest(f, Whole(f), HeaderLen(f), HeaderOf(f, HeaderLen(f)))
BY DEF Load, LoadRest, HeaderOf, HeaderLen, Whole

\* The shape of a tensor depends on the dimensions only.
LEMMA ShapeOf == ASSUME NEW m, NEW n, NEW p, m.dims = n.dims PROVE Shape(m, p) = Shape(n, p)
BY DEF Shape

\* The sections after the last tensor give the fingerprint back, or there are none.
LEMMA SectionsOf ==
  ASSUME NEW S, NEW s \in Seq(S), NEW end \in Nat, NEW torn \in BOOLEAN, NEW fp, NEW extra \in {0, 2},
         Len(s) >= end, Len(s) <= end + extra, Len(s) = end + 2 => s[end + 2].val = fp
  PROVE  LET rest == Sections(SubSeq(s, end + 1, Len(s)), torn) IN
         \/ (torn \/ Len(s) = end + 1) /\ rest = Refused
         \/ ~torn /\ Len(s) = end /\ rest = NoFingerprint
         \/ ~torn /\ Len(s) = end + 2 /\ rest = fp
<1> DEFINE r == SubSeq(s, end + 1, Len(s))
<1>1. Len(s) \in Nat
  BY LenProperties
<1>2. /\ r \in Seq(S)
      /\ Len(r) = Len(s) - end
      /\ \A i \in 1..(Len(s) - end) : r[i] = s[end + i]
  <2>1. \A i \in (end + 1)..Len(s) : s[i] \in S
    BY <1>1, ElementOfSeq
  <2>2. /\ r \in Seq(S)
        /\ Len(r) = IF end + 1 <= Len(s) THEN Len(s) - (end + 1) + 1 ELSE 0
        /\ \A i \in 1..(Len(s) - (end + 1) + 1) : r[i] = s[end + 1 + i - 1]
    BY <1>1, <2>1, SubSeqProperties
  <2> DEFINE n == Len(s)
  <2> HIDE DEF r, n
  <2>3. n \in Nat /\ n >= end /\ Len(r) = IF end + 1 <= n THEN n - (end + 1) + 1 ELSE 0
    BY <1>1, <2>2 DEF n
  <2>4. Len(r) = n - end /\ n - (end + 1) + 1 = n - end
    BY <2>3
  <2>5. ASSUME NEW i \in 1..(n - end) PROVE r[i] = s[end + i]
    <3>1. i \in 1..(n - (end + 1) + 1) /\ end + 1 + i - 1 = end + i
      BY <2>3, <2>4
    <3>. QED  BY <2>2, <3>1 DEF n
  <2>. QED  BY <2>2, <2>4, <2>5 DEF n
<1> HIDE DEF r
<1>3. CASE torn \/ Len(s) = end + 1
  <2>1. torn \/ Len(r) % 2 = 1
    <3>1. Len(s) = end + 1 => Len(r) = 1
      BY <1>1, <1>2
    <3>2. 1 % 2 = 1
      OBVIOUS
    <3>3. CASE torn
      BY <3>3
    <3>4. CASE Len(s) = end + 1
      BY <3>1, <3>2, <3>4
    <3>. QED  BY <1>3, <3>3, <3>4
  <2>2. Sections(r, torn) = Refused
    BY <2>1, Zenon DEF Sections
  <2>. QED  BY <1>3, <2>2 DEF r
<1>4. CASE ~torn /\ Len(s) = end
  <2>1. r = << >>
    BY <1>1, <1>2, <1>4, EmptySeq
  <2>2. Sections(r, torn) = NoFingerprint
    BY <1>2, <1>4, <2>1 DEF Sections
  <2>. QED  BY <1>4, <2>2 DEF r
<1>5. CASE ~torn /\ Len(s) = end + 2
  <2>1. Len(r) = 2 /\ r[2] = s[end + 2] /\ r[2].val = fp
    <3>1. Len(s) - end = 2 /\ 2 \in 1..(Len(s) - end)
      BY <1>1, <1>5
    <3>. QED  BY <1>2, <1>5, <3>1
  <2>3. r # << >>
    <3>1. r = << >> => Len(r) = 0
      OBVIOUS
    <3>. QED  BY <2>1, <3>1
  <2>2. Sections(r, torn) = fp
    BY <1>5, <2>1, <2>3 DEF Sections
  <2>. QED  BY <1>5, <2>2 DEF r
<1>. QED  BY <1>1, <1>3, <1>4, <1>5
\* What load() makes of a prefix of a file of m: it refuses it, or has m back, but for
\* the fingerprint when the prefix ends exactly before the trailer.
LEMMA LoadLeft ==
  ASSUME NEW m, IsModel(m), NEW from, NEW items, Layout(items, m, from),
         NEW f, LeftOf(f, items)
  PROVE  \/ Load(f) = Refused
         \/ Load(f) = m
         \/ /\ Load(f) = Nameless(m)
            /\ Len(f.items) = from + 6 + Len(Params(m)) /\ ~f.torn
<1> DEFINE q == Len(f.items)
           whole == Whole(f)
           ps == Params(m)
           extra == IF m.fp = NoFingerprint THEN 0 ELSE 2
           got == HeaderOf(f, from)
<1>1. Len(ps) \in Nat /\ DOMAIN ps = 1..Len(ps) /\ from \in {2, 3}
  BY FileParts DEF Layout
<1>2. Len(items) = from + 6 + Len(ps) + extra /\ extra \in {0, 2} /\ Len(items) \in Nat
  BY <1>1 DEF Layout
<1>3. /\ q \in Nat /\ q <= Len(items) /\ whole \in Nat /\ whole <= q /\ f.torn \in BOOLEAN
      /\ \A j \in 1..q : f.items[j] = items[j]
      /\ \E S : f.items \in Seq(S)
  BY <1>2 DEF LeftOf, Whole
<1>4. CASE whole < 2
  <2>1. HeaderLen(f) = 3 /\ whole < 3 + 6
    BY <1>3, <1>4 DEF HeaderLen
  <2> HIDE DEF whole
  <2>2. Load(f) = LoadRest(f, whole, 3, HeaderOf(f, 3))
    BY <2>1, LoadParts DEF whole
  <2>3. Load(f) = Refused
    BY <2>1, <2>2 DEF LoadRest
  <2>. QED  BY <2>3
<1>5. CASE whole >= 2
  <2>1. HeaderLen(f) = from
    <3>1. f.items[2] = items[2] /\ items[2].val = (IF from = 2 THEN 1 ELSE 2)
      BY <1>3, <1>5 DEF Layout
    <3>. QED  BY <1>1, <1>5, <3>1 DEF HeaderLen
  <2>2. Load(f) = LoadRest(f, whole, from, got)
    BY <2>1, LoadParts
  <2>3. CASE whole < from + 6
    BY <2>2, <2>3 DEF LoadRest
  <2>4. CASE whole >= from + 6
    <3>1. got.arch = m.arch /\ got.dims = m.dims
      <4>1. /\ f.items[3] = items[3] /\ f.items[from + 1] = items[from + 1]
            /\ f.items[from + 2] = items[from + 2] /\ f.items[from + 3] = items[from + 3]
            /\ f.items[from + 4] = items[from + 4] /\ f.items[from + 5] = items[from + 5]
        <5>1. /\ 3 \in 1..q /\ from + 1 \in 1..q /\ from + 2 \in 1..q /\ from + 3 \in 1..q
              /\ from + 4 \in 1..q /\ from + 5 \in 1..q
          <6> HIDE DEF q, whole
          <6>. QED  BY <1>1, <1>3, <2>4
        <5>. QED  BY ONLY <1>3, <5>1
      <4>2. got.arch = m.arch
        BY <4>1, <1>1 DEF HeaderOf, Layout
      <4>3. got.dims = [vocab |-> m.dims.vocab, d_model |-> m.dims.d_model, layers |-> m.dims.layers,
                        heads |-> m.dims.heads, max_len |-> m.dims.max_len]
        BY <4>1 DEF HeaderOf, Layout
      <4>. QED  BY <4>2, <4>3 DEF IsModel
    <3> HIDE DEF got, whole
    <3>2. Params(got) = ps
      BY <3>1, ParamsOf
    <3> DEFINE end == from + 6 + Len(ps)
               fp == Sections(SubSeq(f.items, end + 1, Len(f.items)), f.torn)
               bad == \/ whole < from + 6
                      \/ ~InRange(got.dims) \/ whole < end
                      \/ \E k \in DOMAIN ps : f.items[from + 6 + k].shape # Shape(got, ps[k])
                      \/ fp = Refused
               data == [p \in ToSet(ps) |-> f.items[from + 6 + (CHOOSE k \in DOMAIN ps : ps[k] = p)].val]
    <3>3. Load(f) = IF bad THEN Refused
                    ELSE [arch |-> got.arch, dims |-> got.dims, fp |-> fp, data |-> data]
      BY <2>2, <3>2 DEF LoadRest
    <3>4. CASE bad
      BY <3>3, <3>4
    <3>5. CASE ~bad
      <4>1. whole >= end /\ fp # Refused /\ end \in Nat
        BY <1>1, <1>3, <3>5
      <4>2. data = m.data
        <5>1. ASSUME NEW p \in ToSet(ps) PROVE data[p] = m.data[p]
          <6> DEFINE k == CHOOSE k \in DOMAIN ps : ps[k] = p
          <6>1. \E j \in DOMAIN ps : ps[j] = p
            BY DEF ToSet
          <6>2. k \in 1..Len(ps) /\ ps[k] = p
            BY <6>1, <1>1
          <6>3. data[p] = f.items[from + 6 + k].val
            OBVIOUS
          <6> HIDE DEF k, data
          <6>4. f.items[from + 6 + k] = items[from + 6 + k]
            <7>1. from + 6 + k \in 1..whole
              BY <1>1, <1>3, <4>1, <6>2
            <7>. QED  BY <1>1, <1>3, <7>1
          <6>5. items[from + 6 + k] = TensorOf(m, p)
            BY <6>2 DEF Layout
          <6>. QED  BY <6>3, <6>4, <6>5 DEF TensorOf
        <5>2. m.data = [p \in ToSet(ps) |-> m.data[p]]
          BY DEF IsModel
        <5>3. data = [p \in ToSet(ps) |-> data[p]]
          OBVIOUS
        <5> HIDE DEF data
        <5>. QED  BY <5>1, <5>2, <5>3
      <4>3. \/ ~f.torn /\ q = end /\ fp = NoFingerprint
            \/ ~f.torn /\ q = end + 2 /\ fp = m.fp
        <5>1. q >= end /\ q <= end + extra
          BY <1>1, <1>2, <1>3, <4>1
        <5>2. q = end + 2 => f.items[end + 2].val = m.fp
          <6> SUFFICES ASSUME q = end + 2 PROVE f.items[end + 2].val = m.fp
            OBVIOUS
          <6>1. m.fp # NoFingerprint
            BY <1>1, <1>2, <1>3, <4>1
          <6>2. f.items[end + 2] = items[end + 2]
            BY <1>3, <4>1
          <6>. QED  BY <6>1, <6>2 DEF Layout
        <5>3. PICK S : f.items \in Seq(S)
          BY <1>3
        <5> HIDE DEF end
        <5>4. /\ f.items \in Seq(S) /\ end \in Nat /\ f.torn \in BOOLEAN /\ extra \in {0, 2}
              /\ Len(f.items) >= end /\ Len(f.items) <= end + extra
              /\ Len(f.items) = end + 2 => f.items[end + 2].val = m.fp
          BY <1>2, <1>3, <4>1, <5>1, <5>2, <5>3
        <5> HIDE DEF extra
        <5>5. \/ (f.torn \/ Len(f.items) = end + 1) /\ fp = Refused
              \/ ~f.torn /\ Len(f.items) = end /\ fp = NoFingerprint
              \/ ~f.torn /\ Len(f.items) = end + 2 /\ fp = m.fp
          BY ONLY <5>4, SectionsOf
        <5>. QED  BY <4>1, <5>5
      <4> HIDE DEF bad, data, fp
      <4>4. Load(f) = [arch |-> m.arch, dims |-> m.dims, fp |-> fp, data |-> m.data]
        BY <3>1, <3>3, <3>5, <4>2
      <4>5. m = [arch |-> m.arch, dims |-> m.dims, fp |-> m.fp, data |-> m.data]
        BY DEF IsModel
      <4>. QED  BY <4>3, <4>4, <4>5 DEF Nameless
    <3>. QED  BY <3>4, <3>5
  <2>. QED  BY <1>1, <1>3, <2>3, <2>4
<1>. QED  BY <1>3, <1>4, <1>5
\* A complete file of a model in range is not refused.
LEMMA LoadWhole ==
  ASSUME NEW m, IsModel(m), InRange(m.dims), m.fp # Refused, NEW from, NEW S,
         NEW f, Layout(f.items, m, from), f.items \in Seq(S), f.torn = FALSE
  PROVE  Load(f) # Refused
<1> DEFINE q == Len(f.items)
           ps == Params(m)
           extra == IF m.fp = NoFingerprint THEN 0 ELSE 2
           got == HeaderOf(f, from)
           end == from + 6 + Len(ps)
           fp == Sections(SubSeq(f.items, end + 1, Len(f.items)), f.torn)
           bad == \/ q < from + 6
                  \/ ~InRange(got.dims) \/ q < end
                  \/ \E k \in DOMAIN ps : f.items[from + 6 + k].shape # Shape(got, ps[k])
                  \/ fp = Refused
           data == [p \in ToSet(ps) |-> f.items[from + 6 + (CHOOSE k \in DOMAIN ps : ps[k] = p)].val]
<1>1. Len(ps) \in Nat /\ DOMAIN ps = 1..Len(ps) /\ from \in {2, 3}
  BY FileParts DEF Layout
<1>2. q = end + extra /\ extra \in {0, 2} /\ q \in Nat /\ end \in Nat /\ q >= end /\ end >= from + 6 /\ q >= 2
  <2>1. Len(f.items) = from + 6 + Len(ps) + extra
    BY DEF Layout
  <2>2. extra \in {0, 2}
    OBVIOUS
  <2> HIDE DEF extra
  <2>. QED  BY <1>1, <2>1, <2>2
<1>3. got.arch = m.arch /\ got.dims = m.dims
  <2>1. got.arch = m.arch
    BY <1>1 DEF HeaderOf, Layout
  <2>2. got.dims = [vocab |-> m.dims.vocab, d_model |-> m.dims.d_model, layers |-> m.dims.layers,
                    heads |-> m.dims.heads, max_len |-> m.dims.max_len]
    BY DEF HeaderOf, Layout
  <2>. QED  BY <2>1, <2>2 DEF IsModel
<1>4. Params(got) = ps
  <2> HIDE DEF got
  <2>. QED  BY <1>3, ParamsOf
<1>5. Whole(f) = q /\ HeaderLen(f) = from
  <2>1. Whole(f) = q
    BY DEF Whole
  <2>2. f.items[2].val = (IF from = 2 THEN 1 ELSE 2)
    BY DEF Layout
  <2> HIDE DEF q
  <2>. QED  BY <1>1, <1>2, <2>1, <2>2 DEF HeaderLen
<1>6. Load(f) = IF bad THEN Refused ELSE [arch |-> got.arch, dims |-> got.dims, fp |-> fp, data |-> data]
  <2> HIDE DEF got
  <2>1. Load(f) = LoadRest(f, q, from, got)
    BY <1>5, LoadParts DEF got
  <2>. QED  BY <1>4, <2>1 DEF LoadRest
<1>7. ASSUME NEW k \in DOMAIN ps PROVE f.items[from + 6 + k].shape = Shape(got, ps[k])
  <2>1. f.items[from + 6 + k] = TensorOf(m, ps[k])
    BY <1>1 DEF Layout
  <2>2. f.items[from + 6 + k].shape = Shape(m, ps[k])
    BY <2>1 DEF TensorOf
  <2> HIDE DEF got
  <2>. QED  BY <1>3, <2>2, ShapeOf
<1>8. fp # Refused
  <2>1. q = end + 2 => f.items[end + 2].val = m.fp
    <3>1. m.fp # NoFingerprint => f.items[end + 2].val = m.fp
      BY DEF Layout
    <3>. QED  BY <1>2, <3>1
  <2> HIDE DEF end
  <2>2. /\ f.items \in Seq(S) /\ end \in Nat /\ f.torn \in BOOLEAN /\ extra \in {0, 2}
        /\ Len(f.items) >= end /\ Len(f.items) <= end + extra
        /\ Len(f.items) = end + 2 => f.items[end + 2].val = m.fp
    <3>1. f.torn \in BOOLEAN
      OBVIOUS
    <3> HIDE DEF extra
    <3>. QED  BY <1>2, <2>1, <3>1
  <2> HIDE DEF extra
  <2>3. \/ (f.torn \/ Len(f.items) = end + 1) /\ fp = Refused
        \/ ~f.torn /\ Len(f.items) = end /\ fp = NoFingerprint
        \/ ~f.torn /\ Len(f.items) = end + 2 /\ fp = m.fp
    BY ONLY <2>2, SectionsOf
  <2>4. Len(f.items) = end => m.fp = NoFingerprint
    BY <1>2 DEF extra
  <2>5. Len(f.items) # end + 1
    BY <1>2
  <2> HIDE DEF fp
  <2>. QED  BY <2>3, <2>4, <2>5
<1>9. ~bad
  BY <1>1, <1>2, <1>3, <1>7, <1>8
<1> HIDE DEF bad, got, fp, data
<1>. QED  BY <1>6, <1>9 DEF Refused

\* A complete file is a prefix of itself.
LEMMA AllIsLeft == ASSUME NEW S, NEW f, f.items \in Seq(S), f.torn = FALSE PROVE LeftOf(f, f.items)
<1>1. Len(f.items) \in Nat
  BY LenProperties
<1>2. Len(f.items) \in 0..Len(f.items) /\ \A j \in 1..Len(f.items) : f.items[j] = f.items[j]
  BY <1>1
<1>3. \E T : f.items \in Seq(T)
  OBVIOUS
<1>. QED  BY <1>2, <1>3 DEF LeftOf

\* What is left ends in a torn item, or it is all, or it is n items.
Shorter(g, items, n, torn) == g.torn \/ Len(g.items) = Len(items) \/ (Len(g.items) = n /\ ~torn)

\* A file cut off after n items leaves a prefix of them.
LEMMA CutLeaves ==
  ASSUME NEW S, NEW items \in Seq(S), NEW f, f.items = items, f.torn = FALSE,
         NEW n \in Nat, NEW torn \in BOOLEAN
  PROVE  /\ LeftOf(Cut(f, n, torn), items)
         /\ Shorter(Cut(f, n, torn), items, n, torn)
<1>1. Len(items) \in Nat
  BY LenProperties
<1>2. CASE n >= Len(items)
  <2>1. Cut(f, n, torn) = f
    BY <1>2 DEF Cut
  <2>2. LeftOf(f, items)
    <3>1. Len(f.items) \in 0..Len(items) /\ \A j \in 1..Len(f.items) : f.items[j] = items[j]
      BY <1>1
    <3>2. \E T : f.items \in Seq(T)
      OBVIOUS
    <3>. QED  BY <3>1, <3>2 DEF LeftOf
  <2>. QED  BY <2>1, <2>2 DEF Shorter
<1>3. CASE n < Len(items)
  <2> DEFINE q == IF torn THEN n + 1 ELSE n
             r == SubSeq(items, 1, q)
  <2>1. q \in Nat /\ q <= Len(items) /\ (torn => q >= 1) /\ (~torn => q = n)
    BY <1>1, <1>3
  <2> HIDE DEF q
  <2>2. r \in Seq(S) /\ Len(r) = q /\ \A i \in 1..q : r[i] = items[i]
    <3>1. \A i \in 1..q : items[i] \in S
      BY <2>1, <1>1, ElementOfSeq
    <3>2. /\ r \in Seq(S)
          /\ Len(r) = (IF 1 <= q THEN q - 1 + 1 ELSE 0)
          /\ \A i \in 1..(q - 1 + 1) : r[i] = items[1 + i - 1]
      BY <2>1, <3>1, SubSeqProperties
    <3> HIDE DEF r
    <3>. QED  BY <2>1, <3>2
  <2>3. Cut(f, n, torn) = [items |-> r, torn |-> torn]
    BY <1>1, <1>3 DEF Cut, q
  <2> HIDE DEF r
  <2>. QED  BY <1>1, <2>1, <2>2, <2>3 DEF LeftOf, Shorter
<1>. QED  BY <1>1, <1>2, <1>3
\* load() gives back what save() wrote: every field, every tensor in its own place,
\* and the fingerprint, for every architecture, number of layers and size in range.
THEOREM RoundTrip ==
  ASSUME NEW m, IsModel(m), InRange(m.dims), m.fp # Refused
  PROVE  Load(Save(m)) = m
<1> DEFINE f == Save(m)
<1>1. Layout(f.items, m, 3) /\ (\E S : f.items \in Seq(S)) /\ f.torn = FALSE
  BY SaveLayout DEF Save
<1> HIDE DEF f
<1>2. PICK S : f.items \in Seq(S)
  BY <1>1
<1>3. LeftOf(f, f.items)
  BY <1>1, <1>2, AllIsLeft
<1>4. Load(f) # Refused
  BY <1>1, <1>2, LoadWhole
<1>5. Load(f) = m \/ (Load(f) = Nameless(m) /\ Len(f.items) = 3 + 6 + Len(Params(m)))
  BY <1>1, <1>3, <1>4, LoadLeft
<1>6. Len(f.items) = 3 + 6 + Len(Params(m)) => m.fp = NoFingerprint
  BY <1>1, FileParts DEF Layout
<1>7. m.fp = NoFingerprint => Nameless(m) = m
  BY DEF Nameless, IsModel
<1>. QED  BY <1>5, <1>6, <1>7 DEF f

\* A file of format 1 loads as the GPT-2 model it was written from.
THEOREM RoundTripV1 ==
  ASSUME NEW m, IsModel(m), InRange(m.dims), m.arch = "gpt2", m.fp = NoFingerprint, m.fp # Refused
  PROVE  Load(SaveV1(m)) = m
<1> DEFINE f == SaveV1(m)
<1>1. Layout(f.items, m, 2) /\ (\E S : f.items \in Seq(S)) /\ f.torn = FALSE
  BY SaveV1Layout DEF SaveV1
<1> HIDE DEF f
<1>2. PICK S : f.items \in Seq(S)
  BY <1>1
<1>3. LeftOf(f, f.items)
  BY <1>1, <1>2, AllIsLeft
<1>4. Load(f) # Refused
  BY <1>1, <1>2, LoadWhole
<1>5. Load(f) = m \/ Load(f) = Nameless(m)
  BY <1>1, <1>3, <1>4, LoadLeft
<1>6. Nameless(m) = m
  BY DEF Nameless, IsModel
<1>. QED  BY <1>5, <1>6 DEF f

\* A checkpoint that was cut off anywhere, in an item or between two, is refused or
\* loads as the model that was saved; only a cut exactly before the trailer loses
\* something, the fingerprint.
THEOREM CutIsSafe ==
  ASSUME NEW m, IsModel(m), NEW n \in Nat, NEW torn \in BOOLEAN
  PROVE  \/ Load(Cut(Save(m), n, torn)) = Refused
         \/ Load(Cut(Save(m), n, torn)) = m
         \/ /\ Load(Cut(Save(m), n, torn)) = Nameless(m)
            /\ n = 9 + Len(Params(m)) /\ ~torn
<1> DEFINE f == Save(m)
           g == Cut(f, n, torn)
<1>1. Layout(f.items, m, 3) /\ (\E S : f.items \in Seq(S)) /\ f.torn = FALSE
  BY SaveLayout DEF Save
<1> HIDE DEF f
<1>2. PICK S : f.items \in Seq(S)
  BY <1>1
<1> DEFINE items == f.items
<1>3. items \in Seq(S) /\ f.items = items
  BY <1>2
<1> HIDE DEF items
<1>4. LeftOf(g, items)
  BY <1>1, <1>3, CutLeaves
<1>8. Shorter(g, items, n, torn)
  BY <1>1, <1>3, CutLeaves
<1>5. Len(Params(m)) \in Nat
  BY FileParts
<1> HIDE DEF g
<1>6. \/ Load(g) = Refused
      \/ Load(g) = m
      \/ Load(g) = Nameless(m) /\ Len(g.items) = 3 + 6 + Len(Params(m)) /\ ~g.torn
  BY <1>1, <1>3, <1>4, LoadLeft
<1>7. CASE Load(g) = Nameless(m) /\ Len(g.items) = 3 + 6 + Len(Params(m)) /\ ~g.torn
  <2>1. 9 + Len(Params(m)) = Len(items) \/ (n = 9 + Len(Params(m)) /\ ~torn)
    BY <1>8, <1>5, <1>7 DEF Shorter
  <2>2. CASE 9 + Len(Params(m)) = Len(items)
    <3>1. m.fp = NoFingerprint
      BY <1>1, <1>3, <1>5, <2>2 DEF Layout
    <3>2. Nameless(m) = m
      BY <3>1 DEF Nameless, IsModel
    <3>. QED  BY <1>7, <3>2 DEF g, f
  <2>. QED  BY <1>7, <2>1, <2>2 DEF g, f
<1>. QED  BY <1>6, <1>7 DEF g, f

\* The same of a file of format 1, which has no trailer to lose.
THEOREM CutV1IsSafe ==
  ASSUME NEW m, IsModel(m), m.arch = "gpt2", m.fp = NoFingerprint, NEW n \in Nat, NEW torn \in BOOLEAN
  PROVE  Load(Cut(SaveV1(m), n, torn)) \in {Refused, m}
<1> DEFINE f == SaveV1(m)
           g == Cut(f, n, torn)
<1>1. Layout(f.items, m, 2) /\ (\E S : f.items \in Seq(S)) /\ f.torn = FALSE
  BY SaveV1Layout DEF SaveV1
<1> HIDE DEF f
<1>2. PICK S : f.items \in Seq(S)
  BY <1>1
<1> DEFINE items == f.items
<1>3. items \in Seq(S) /\ f.items = items
  BY <1>2
<1> HIDE DEF items
<1>4. LeftOf(g, items)
  BY <1>1, <1>3, CutLeaves
<1> HIDE DEF g
<1>5. Load(g) \in {Refused, m, Nameless(m)}
  BY <1>1, <1>3, <1>4, LoadLeft
<1>6. Nameless(m) = m
  BY DEF Nameless, IsModel
<1>. QED  BY <1>5, <1>6 DEF g, f
\* One sequence flattened is that sequence.
LEMMA FlattenOne ==
  ASSUME NEW S, NEW ss \in Seq(Seq(S)), Len(ss) = 1
  PROVE  FlattenSeq(ss) = ss[1]
<1> DEFINE flatten == CHOOSE f : f = [i \in 1..Len(ss) |-> IF i = 1 THEN ss[i] ELSE f[i - 1] \o ss[i]]
<1>1. ss \in [1..1 -> Seq(S)]
  BY LenProperties
<1>2. PICK f : Flattens(f, ss, S, 0)
  <2>1. 0 \in Nat /\ ss \in [1..(0 + 1) -> Seq(S)]
    BY <1>1
  <2>. QED  BY <2>1, FlattenExists
<1>3. f = [i \in 1..Len(ss) |-> IF i = 1 THEN ss[i] ELSE f[i - 1] \o ss[i]]
  <2>1. 0 + 1 = 1 /\ 1..Len(ss) = 1..(0 + 1)
    OBVIOUS
  <2>. QED  BY <1>2, <2>1 DEF Flattens
<1>4. flatten = [i \in 1..Len(ss) |-> IF i = 1 THEN ss[i] ELSE flatten[i - 1] \o ss[i]]
  BY <1>3, Zenon
<1>5. FlattenSeq(ss) = flatten[Len(ss)]
  BY DEF FlattenSeq
<1> HIDE DEF flatten
<1>. QED  BY <1>4, <1>5

\* A GPT-2 model of one layer has 20 parameter tensors.
LEMMA ParamsOfOne ==
  ASSUME NEW m, m.arch = "gpt2", m.dims.layers = 1
  PROVE  Len(Params(m)) = 20
<1> DEFINE X == Names \X Nat
           block == <<"W_q", "W_k", "W_v", "W_o", "b_q", "b_k", "b_v", "b_o">>
               \o <<"layer1", "bias1", "layer2", "bias2">>
               \o <<"gamma1", "beta1", "gamma2", "beta2">>
           blocks == [i \in 1..m.dims.layers |-> [k \in DOMAIN block |-> <<block[k], i>>]]
<1>1. block \in Seq(Names) /\ Len(block) = 16
  <2>1. <<"W_q", "W_k", "W_v", "W_o", "b_q", "b_k", "b_v", "b_o">> \in Seq(Names)
    <3>1. /\ "W_q" \in Names /\ "W_k" \in Names /\ "W_v" \in Names /\ "W_o" \in Names
          /\ "b_q" \in Names /\ "b_k" \in Names /\ "b_v" \in Names /\ "b_o" \in Names
      BY DEF Names
    <3>. QED  BY <3>1, TupleIsSeq
  <2>2. <<"layer1", "bias1", "layer2", "bias2">> \in Seq(Names)
    <3>1. "layer1" \in Names /\ "bias1" \in Names /\ "layer2" \in Names /\ "bias2" \in Names
      BY DEF Names
    <3>. QED  BY <3>1, TupleIsSeq
  <2>3. <<"gamma1", "beta1", "gamma2", "beta2">> \in Seq(Names)
    <3>1. "gamma1" \in Names /\ "beta1" \in Names /\ "gamma2" \in Names /\ "beta2" \in Names
      BY DEF Names
    <3>. QED  BY <3>1, TupleIsSeq
  <2>. QED  BY <2>1, <2>2, <2>3, ConcatProperties
<1> HIDE DEF block
<1>2. blocks \in Seq(Seq(X)) /\ Len(blocks) = 1 /\ Len(blocks[1]) = 16
  <2>1. block \in [1..16 -> Names] /\ DOMAIN block = 1..16
    BY <1>1, LenProperties
  <2>2. ASSUME NEW i \in 1..1 PROVE blocks[i] \in Seq(X) /\ Len(blocks[i]) = 16
    <3>1. blocks[i] \in [1..16 -> X]
      BY <2>1, <2>2
    <3>. QED  BY <3>1, FunIsSeq
  <2>3. blocks \in [1..1 -> Seq(X)]
    BY <2>2
  <2>4. Len(blocks[1]) = 16
    BY <2>2
  <2> HIDE DEF blocks, X
  <2>5. blocks \in Seq(Seq(X)) /\ Len(blocks) = 1
    BY <2>3, FunIsSeq
  <2>. QED  BY <2>4, <2>5
<1> HIDE DEF blocks
<1>3. FlattenSeq(blocks) \in Seq(X) /\ Len(FlattenSeq(blocks)) = 16
  BY <1>2, FlattenOne, FlattenIsSeq
<1> DEFINE first == <<<<"token", 0>>>> 
           pos == <<<<"pos", 0>>>>
           last == <<<<"gamma", 0>>, <<"beta", 0>>>>
<1>4. /\ first \in Seq(X) /\ pos \in Seq(X) /\ last \in Seq(X)
      /\ Len(first) = 1 /\ Len(pos) = 1 /\ Len(last) = 2
  <2>1. <<"token", 0>> \in X /\ <<"pos", 0>> \in X /\ <<"gamma", 0>> \in X /\ <<"beta", 0>> \in X
    BY DEF Names
  <2> HIDE DEF X
  <2>. QED  BY <2>1, TupleIsSeq
<1> DEFINE flat == FlattenSeq(blocks)
           ps == Params(m)
<1>5. AreJoined(ps, first, pos, flat, last)
  BY DEF Params, first, pos, blocks, last, block, AreJoined
<1> HIDE DEF first, pos, last, X, flat, ps
<1>6. first \in Seq(X) /\ pos \in Seq(X) /\ flat \in Seq(X) /\ last \in Seq(X)
  BY <1>3, <1>4 DEF flat
<1>7. Len(ps) = Len(first) + Len(pos) + Len(flat) + Len(last)
  BY ONLY <1>5, <1>6, FourSeqs
<1>. QED  BY <1>3, <1>4, <1>7 DEF flat, ps

-----------------------------------------------------------------------------
(* The index arithmetic of token files.                                    *)

\* Division by a positive number.
LEMMA Division ==
  ASSUME NEW a \in Nat, NEW b \in Nat \ {0}
  PROVE  /\ a \div b \in Nat /\ (a % b) \in 0..(b - 1)
         /\ a = b * (a \div b) + (a % b)
OBVIOUS

\* A product grows with its factor.
LEMMA ProductGrows ==
  ASSUME NEW x \in Nat, NEW y \in Nat, NEW z \in Nat, x <= y
  PROVE  x * z \in Nat /\ y * z \in Nat /\ x * z <= y * z
OBVIOUS

\* A quotient grows with its dividend.
LEMMA QuotientGrows ==
  ASSUME NEW x \in Nat, NEW y \in Nat, NEW c \in Nat \ {0}, x <= y
  PROVE  x \div c <= y \div c
OBVIOUS

\* A quotient stays below what its dividend is a multiple less than.
LEMMA QuotientBelow ==
  ASSUME NEW x \in Nat, NEW r \in Nat, NEW c \in Nat \ {0}, x < r * c
  PROVE  x \div c < r
<1> DEFINE q == x \div c
<1>1. q \in Nat /\ (x % c) \in 0..(c - 1) /\ x = c * q + (x % c)
  BY Division
<1>2. ASSUME r <= q PROVE FALSE
  <2>1. r * c <= q * c
    BY <1>1, <1>2, ProductGrows
  <2>2. q * c <= x
    BY <1>1
  <2>. QED  BY <2>1, <2>2, <1>1
<1>. QED  BY <1>1, <1>2

\* Of n windows SpreadSubset takes count different ones, in order and all of them
\* in range, whatever n and count are.
THEOREM SpreadIsInOrder ==
  ASSUME NEW n \in Nat, NEW count \in 1..n,
         NEW i \in 0..(count - 1), NEW j \in 0..(count - 1), i < j
  PROVE  Spread(i, n, count) < Spread(j, n, count)
<1> DEFINE q == n \div count
           r == n % count
<1>0. count \in Nat \ {0} /\ n \in Nat
  OBVIOUS
<1>1. q \in Nat /\ r \in 0..(count - 1) /\ n = count * q + r
  BY <1>0, Division
<1>2. q >= 1
  BY <1>1
<1> HIDE DEF q, r
<1>3. i * r \in Nat /\ j * r \in Nat /\ i * r <= j * r
  BY <1>1, ProductGrows
<1>4. (i * r) \div count <= (j * r) \div count
  BY <1>3, QuotientGrows
<1>5. (i + 1) * q <= j * q
  BY <1>1, ProductGrows
<1>6. (i + 1) * q = i * q + q /\ i * q \in Nat /\ j * q \in Nat
  BY <1>1
<1>7. (i * r) \div count \in Nat /\ (j * r) \div count \in Nat
  BY <1>3, Division
<1>8. i * q + (i * r) \div count < j * q + (j * r) \div count
  BY <1>1, <1>2, <1>4, <1>5, <1>6, <1>7
<1>. QED  BY <1>8 DEF Spread, q, r

\* Each of them is one of the n windows.
THEOREM SpreadInRange ==
  ASSUME NEW n \in Nat, NEW count \in 1..n, NEW i \in 0..(count - 1)
  PROVE  Spread(i, n, count) \in 0..(n - 1)
<1> DEFINE q == n \div count
           r == n % count
<1>0. count \in Nat \ {0} /\ n \in Nat
  OBVIOUS
<1>1. q \in Nat /\ r \in 0..(count - 1) /\ n = count * q + r
  BY <1>0, Division
<1>2. q >= 1
  BY <1>1
<1> HIDE DEF q, r
<1>3. i * q \in Nat /\ i * q <= (count - 1) * q /\ (count - 1) * q = count * q - q
  BY <1>1, ProductGrows
<1>4. i * r \in Nat /\ (i * r) \div count \in Nat
  BY <1>1, Division
<1>5. (i * r) \div count <= r
  <2>1. CASE r = 0
    BY <2>1, <1>4, Division
  <2>2. CASE r > 0
    <3>1. i * r <= (count - 1) * r /\ (count - 1) * r = r * count - r
      BY <1>1, ProductGrows
    <3>2. i * r < r * count
      BY <3>1, <2>2, <1>1, <1>4
    <3>. QED  BY <3>2, <1>1, <1>4, QuotientBelow
  <2>. QED  BY <2>1, <2>2, <1>1
<1>6. CASE r = 0
  <2>1. (i * r) \div count = 0
    BY <1>6, <1>4, <1>5
  <2>2. i * q + (i * r) \div count \in 0..(n - 1)
    BY <2>1, <1>1, <1>2, <1>3, <1>6
  <2>. QED  BY <2>2 DEF Spread, q, r
<1>7. CASE r > 0
  <2>1. i * q + (i * r) \div count \in 0..(n - 1)
    BY <1>1, <1>2, <1>3, <1>4, <1>5
  <2>. QED  BY <2>1 DEF Spread, q, r
<1>. QED  BY <1>6, <1>7, <1>1

\* The last window of a dataset, its shifted targets included, ends inside the
\* tokens, for every length and stride.
THEOREM WindowsAreInside ==
  ASSUME NEW count \in Nat, NEW seq \in Nat, NEW stride \in Nat \ {0}, LongEnough(count, seq),
         NEW i \in 0..(Windows(count, seq, stride) - 1)
  PROVE  Window(i, seq, stride) \subseteq 0..(count - 1)
<1> DEFINE last == (count - seq - 1) \div stride
<1>1. count - seq - 1 \in Nat
  BY DEF LongEnough
<1>2. last \in Nat /\ stride * last <= count - seq - 1
  BY <1>1, Division
<1>3. i \in 0..last
  BY <1>2 DEF Windows
<1> HIDE DEF last
<1>4. i * stride \in Nat /\ i * stride <= last * stride
  BY <1>2, <1>3, ProductGrows
<1>5. i * stride + seq <= count - 1
  BY <1>1, <1>2, <1>4
<1>. QED  BY <1>4, <1>5 DEF Window

\* The held-out part of prepare begins inside the text and leaves it tokens.
THEOREM SplitIsInside ==
  ASSUME NEW n \in Nat \ {0}
  PROVE  SplitAt(n) \in 0..(n - 1)
<1>1. n * 95 \in Nat /\ n * 95 < n * 100
  OBVIOUS
<1>2. (n * 95) \div 100 < n
  BY <1>1, QuotientBelow
<1>. QED  BY <1>1, <1>2, Division DEF SplitAt

\* PromptWindow, whatever slice it is for, is one of the windows.
LEMMA PromptInside ==
  ASSUME NEW n \in Nat \ {0}, NEW count \in Nat \ {0}, NEW k \in 0..(count - 1)
  PROVE  PromptWindow(k, n, count) \in 0..(n - 1)
<1> DEFINE a == 2 * k + 1
           c == 2 * count
<1>1. a \in Nat /\ c \in Nat \ {0} /\ a + 1 <= c
  OBVIOUS
<1> HIDE DEF a, c
<1>2. a * n \in Nat /\ (a + 1) * n <= c * n /\ (a + 1) * n = a * n + n
  BY <1>1, ProductGrows
<1>3. a * n = n * a /\ c * n = n * c /\ n * a < n * c
  BY <1>1, <1>2
<1>4. n * a \in Nat
  BY <1>2, <1>3
<1>5. (n * a) \div c < n
  BY <1>1, <1>3, <1>4, QuotientBelow
<1>6. (n * a) \div c \in Nat
  BY <1>1, <1>4, Division
<1>. QED  BY <1>5, <1>6 DEF PromptWindow, a, c

\* Batches taken one after the other without shuffling read every one of n items.
LEMMA BatchesCover ==
  ASSUME NEW n \in Nat \ {0}, NEW size \in Nat \ {0}
  PROVE  UNION {Batch(b * size, n, size) : b \in 0..((n - 1) \div size)} = 0..(n - 1)
<1> DEFINE last == (n - 1) \div size
<1>1. last \in Nat /\ size * last <= n - 1
  <2>1. n - 1 \in Nat
    OBVIOUS
  <2>2. last \in Nat /\ ((n - 1) % size) \in 0..(size - 1) /\ n - 1 = size * last + ((n - 1) % size)
    BY <2>1, Division
  <2>. QED  BY <2>2
<1>2. ASSUME NEW x \in 0..(n - 1) PROVE \E b \in 0..last : x \in Batch(b * size, n, size)
  <2> DEFINE b == x \div size
  <2>1. b \in Nat /\ (x % size) \in 0..(size - 1) /\ x = size * b + (x % size)
    BY Division
  <2>2. b <= last
    BY QuotientGrows
  <2> HIDE DEF b, last
  <2>3. b * size \in Nat /\ b * size = size * b
    BY <2>1, ProductGrows
  <2>4. b * size <= x /\ x < b * size + size
    BY <2>1, <2>3
  <2>5. x \in Batch(b * size, n, size)
    BY <2>3, <2>4 DEF Batch
  <2>. QED  BY <1>1, <2>1, <2>2, <2>5
<1>3. ASSUME NEW b \in 0..last PROVE Batch(b * size, n, size) \subseteq 0..(n - 1)
  <2> HIDE DEF last
  <2>1. b * size \in Nat /\ b * size <= last * size /\ last * size = size * last
    BY <1>1, ProductGrows
  <2>. QED  BY <1>1, <2>1 DEF Batch
<1> HIDE DEF last
<1>. QED  BY <1>2, <1>3 DEF last

-----------------------------------------------------------------------------
(* The commands.                                                           *)

Untouched == UNCHANGED <<corpus, tok, bin, ckpt, orphaned, crashes>>

\* The length of the training part is a number.
LEMMA SplitIsInt == ASSUME NEW n \in Nat PROVE SplitAt(n) \in Int
BY DEF SplitAt

\* The first state: no file but, perhaps, a checkpoint that records no tokenizer.
LEMMA Initially == Init => IInv
<1> SUFFICES ASSUME Init PROVE IInv
  OBVIOUS
<1>1. First \in Texts /\ First \notin Large
  <2>1. \E t \in Texts : t \notin Large
    BY LineageAssumption
  <2>. QED  BY <2>1 DEF First
<1>2. Tokenizer("v1", First, "all", Preset) \in Identities
  BY <1>1, LineageAssumption DEF Tokenizer, Identities, Kinds
<1>3. Old \in Checkpoints /\ Old.sure = FALSE
  <2>1. Tokenizer("v1", First, "all", Preset).vocab \in Vocabs
    BY <1>2 DEF Identities
  <2>. QED  BY <1>2, <2>1 DEF Old, Checkpoints
<1>4. LineageTypeOK
  <2>1. ckpt \in [Kinds -> [resume : Checkpoints \cup {None}, final : Checkpoints \cup {None}]]
    BY <1>3 DEF Init
  <2>2. tok \in [Kinds -> [Vocabs -> Identities \cup {None, Torn}]]
    BY DEF Init
  <2>3. bin \in [Kinds -> [Vocabs -> [Parts -> TokenFiles \cup {None}]]]
    BY DEF Init, Parts
  <2>. QED  BY <1>1, <2>1, <2>2, <2>3 DEF Init, LineageTypeOK
<1>5. FilesInv /\ PairInv
  BY DEF Init, FilesInv, PairInv, Prepared, Parts
<1>6. CkptInv
  BY <1>3 DEF Init, CkptInv, Speaks
<1>7. CmdInv /\ DataInv
  BY DEF Init, Idle, CmdInv, DataInv, StartOK, Loaded
<1>. QED  BY <1>4, <1>5, <1>6, <1>7 DEF IInv

-----------------------------------------------------------------------------
(* Commands begin and end.                                                 *)

\* What a command reads of a checkpoint is as good as the checkpoint.
LEMMA ReadIsOK ==
  ASSUME IInv, NEW k \in Kinds, NEW n \in {"resume", "final"}, ckpt[k][n] # None
  PROVE  StartOK(Read(ckpt[k][n]))
<1> DEFINE c == ckpt[k][n]
<1>1. c \in Checkpoints /\ Speaks(c)
  BY DEF IInv, LineageTypeOK, CkptInv
<1> HIDE DEF c
<1>2. c.fp \in Identities \cup {NoFingerprint} /\ c.speaks \in SUBSET Identities /\ c.sure \in BOOLEAN
  BY <1>1 DEF Checkpoints
<1>3. ASSUME Read(c) # None PROVE StartOK(Read(c))
  <2> DEFINE m == LoadTable[c.version][c.vocab][c.cut][c.torn]
  <2>1. Read(c) = [vocab |-> m.dims.vocab, fp |-> IF m.fp = NoFingerprint THEN m.fp ELSE c.fp,
                   speaks |-> c.speaks, sure |-> c.sure /\ m.fp # NoFingerprint]
    BY <1>3 DEF Read
  <2> HIDE DEF m
  <2>2. /\ Read(c).fp = (IF m.fp = NoFingerprint THEN NoFingerprint ELSE c.fp)
        /\ Read(c).speaks = c.speaks
        /\ Read(c).sure = (c.sure /\ m.fp # NoFingerprint)
    BY <2>1
  <2>. QED  BY <1>1, <1>2, <2>2 DEF StartOK, Speaks
<1>4. StartOK(Read(c))
  BY <1>3 DEF StartOK
<1>. QED  BY <1>4 DEF c

\* choose_tokenizer only ever chooses a kind.
LEMMA ChoiceIsKind ==
  ASSUME NEW v, NEW flag \in Kinds \cup {None}, NEW m, StartOK(m), NEW k \in Choose(v, flag, m)
  PROVE  k \in Kinds
<1>1. CASE m # None /\ m.fp # NoFingerprint
  <2>1. m.fp \in Identities
    BY <1>1 DEF StartOK
  <2>2. m.fp.kind \in Kinds
    BY <2>1 DEF Identities
  <2>. QED  BY <1>1, <2>2 DEF Choose
<1>2. CASE ~(m # None /\ m.fp # NoFingerprint)
  BY <1>2 DEF Choose, Kinds
<1>. QED  BY <1>1, <1>2

\* A command that begins has loaded nothing but its checkpoint.
LEMMA BeginKeeps ==
  ASSUME IInv, NEW op \in {"prepare", "train", "generate", "eval"}, NEW k \in Kinds, NEW v,
         op \in {"prepare", "train"} => v \in Vocabs, NEW start, StartOK(start), Begin(op, k, v, start)
  PROVE  IInv'
<1>1. /\ cmd = Idle /\ Untouched
      /\ cmd' = [Idle EXCEPT !.op = op, !.pc = "tok", !.kind = k, !.vocab = v,
                             !.text = corpus, !.start = start]
  BY DEF Begin, Untouched
<1>2. cmd' = [op |-> op, pc |-> "tok", kind |-> k, vocab |-> v, text |-> corpus, tok |-> None,
              start |-> start, tr |-> None, va |-> None]
  BY <1>1 DEF Idle
<1>3. cmd.pc = "none"
  BY <1>1 DEF Idle
<1>4. LineageTypeOK' /\ FilesInv' /\ CkptInv'
  BY <1>1 DEF IInv, LineageTypeOK, FilesInv, CkptInv, Speaks, Untouched
<1>5. PairInv'
  BY <1>1, <1>2, <1>3 DEF IInv, PairInv, Prepared, Rewriting, Untouched
<1>6. CmdInv' /\ DataInv'
  <2>1. StartOK(start)'
    BY <1>1 DEF StartOK, Speaks, Untouched
  <2>2. corpus \in Texts
    BY DEF IInv, LineageTypeOK
  <2>. QED  BY <1>2, <2>1, <2>2 DEF CmdInv, DataInv, StartOK, Speaks, Loaded
<1>. QED  BY <1>4, <1>5, <1>6 DEF IInv

\* A command that ends leaves everything as it is; one that ends between prepare's
\* writes has crashed, or has made the last of them.
LEMMA EndKeeps ==
  ASSUME IInv, cmd' = Idle, UNCHANGED <<corpus, tok, bin, ckpt, orphaned>>, crashes' \in Nat,
         crashes' = 0 => crashes = 0 /\ (cmd.op = "prepare" => cmd.pc \notin {"train", "split", "val"})
  PROVE  IInv'
<1>1. LineageTypeOK' /\ FilesInv' /\ CkptInv'
  BY DEF IInv, LineageTypeOK, FilesInv, CkptInv, Speaks
<1>2. PairInv'
  BY DEF IInv, PairInv, Prepared, Rewriting
<1>3. CmdInv' /\ DataInv'
  BY DEF Idle, CmdInv, DataInv, StartOK, Loaded
<1>. QED  BY <1>1, <1>2, <1>3 DEF IInv

\* Every command begins with a kind, and trains only towards the preset's vocab.
LEMMA BeginsKeep ==
  ASSUME IInv, Prepare \/ TrainFresh \/ TrainResume \/ TrainWarm \/ Infer PROVE IInv'
<1> USE LineageAssumption
<1>0. StartOK(None)
  BY DEF StartOK
<1>1. CASE Prepare
  <2>1. PICK k \in Kinds, v \in Vocabs : Begin("prepare", k, v, None)
    BY <1>1 DEF Prepare
  <2>. QED  BY <1>0, <2>1, BeginKeeps
<1>2. CASE TrainFresh
  <2>1. PICK flag \in Kinds \cup {None} : \E k \in Choose(Preset, flag, None) : Begin("train", k, Preset, None)
    BY <1>2 DEF TrainFresh
  <2>2. PICK k \in Choose(Preset, flag, None) : Begin("train", k, Preset, None)
    BY <2>1
  <2>3. k \in Kinds
    BY <1>0, <2>1, <2>2, ChoiceIsKind
  <2>. QED  BY <1>0, <2>2, <2>3, BeginKeeps
<1>3. CASE TrainResume
  <2>1. PICK flag \in Kinds \cup {None} : \E k \in (IF flag = None THEN Resumable ELSE {flag}) :
          ckpt[k].resume # None /\ Begin("train", k, Preset, Read(ckpt[k].resume))
    BY <1>3 DEF TrainResume
  <2>2. PICK k \in (IF flag = None THEN Resumable ELSE {flag}) :
          ckpt[k].resume # None /\ Begin("train", k, Preset, Read(ckpt[k].resume))
    BY <2>1
  <2>3. k \in Kinds
    BY <2>1, <2>2 DEF Resumable
  <2>4. StartOK(Read(ckpt[k].resume))
    BY <2>2, <2>3, ReadIsOK
  <2>. QED  BY <2>2, <2>3, <2>4, BeginKeeps
<1>4. CASE TrainWarm
  <2>1. PICK s \in Slots, flag \in Kinds \cup {None} :
          \E k \in Choose(Preset, flag, Read(ckpt[s[1]][s[2]])) :
            Begin("train", k, Preset, Read(ckpt[s[1]][s[2]]))
    BY <1>4 DEF TrainWarm
  <2>2. StartOK(Read(ckpt[s[1]][s[2]]))
    BY <2>1, ReadIsOK DEF Slots
  <2> DEFINE m == Read(ckpt[s[1]][s[2]])
  <2>3. StartOK(m) /\ \E k \in Choose(Preset, flag, m) : Begin("train", k, Preset, m)
    BY <2>1, <2>2
  <2> HIDE DEF m
  <2>4. PICK k \in Choose(Preset, flag, m) : Begin("train", k, Preset, m)
    BY <2>3
  <2>5. k \in Kinds
    BY <2>1, <2>3, <2>4, ChoiceIsKind
  <2>. QED  BY <2>3, <2>4, <2>5, BeginKeeps
<1>5. CASE Infer
  <2>1. PICK s \in Slots, flag \in Kinds \cup {None}, op \in {"generate", "eval"} :
          \E k \in Choose(Read(ckpt[s[1]][s[2]]).vocab, flag, Read(ckpt[s[1]][s[2]])) :
            Begin(op, k, Read(ckpt[s[1]][s[2]]).vocab, Read(ckpt[s[1]][s[2]]))
    BY <1>5 DEF Infer
  <2>2. StartOK(Read(ckpt[s[1]][s[2]]))
    BY <2>1, ReadIsOK DEF Slots
  <2> DEFINE m == Read(ckpt[s[1]][s[2]])
  <2>3. StartOK(m) /\ \E k \in Choose(m.vocab, flag, m) : Begin(op, k, m.vocab, m)
    BY <2>1, <2>2
  <2> HIDE DEF m
  <2>4. PICK k \in Choose(m.vocab, flag, m) : Begin(op, k, m.vocab, m)
    BY <2>3
  <2>5. k \in Kinds
    BY <2>1, <2>3, <2>4, ChoiceIsKind
  <2>6. op \in {"prepare", "train", "generate", "eval"} /\ ~(op \in {"prepare", "train"})
    BY <2>1
  <2>. QED  BY <2>3, <2>4, <2>5, <2>6, BeginKeeps
<1>. QED  BY <1>1, <1>2, <1>3, <1>4, <1>5

-----------------------------------------------------------------------------
(* Tokenizer files.                                                        *)

\* A tokenizer trained by a command whose vocab was asked for.
LEMMA TokenizerTyped ==
  ASSUME NEW kind \in Kinds, NEW text \in Texts, NEW v \in Vocabs, NEW op
  PROVE  Tokenizer(kind, text, Part(op, kind), v) \in Identities
BY LineageAssumption DEF Tokenizer, Part, Identities, Kinds

\* A command that has found or trained its tokenizer t goes on with it.
LEMMA LoadKeeps ==
  ASSUME IInv, cmd.pc \in {"tok", "saveTok"}, UNCHANGED <<corpus, bin, ckpt, orphaned, crashes>>,
         LineageTypeOK', FilesInv', NEW t,
         cmd' = [cmd EXCEPT !.tok = t, !.pc = "data"],
         cmd.op \in {"generate", "eval"} /\ t # None => Matches(cmd.start, t),
         cmd.vocab \in Vocabs => /\ t = tok'[cmd.kind][cmd.vocab]
                                 /\ cmd.op # "eval" => t \in Identities
  PROVE  IInv'
<1>1. cmd' = [op |-> cmd.op, pc |-> "data", kind |-> cmd.kind, vocab |-> cmd.vocab, text |-> cmd.text,
              tok |-> t, start |-> cmd.start, tr |-> None, va |-> None]
  BY DEF IInv, CmdInv
<1>2. CkptInv' /\ PairInv'
  BY <1>1 DEF IInv, CkptInv, Speaks, PairInv, Prepared, Rewriting
<1>3. CmdInv'
  BY <1>1 DEF IInv, CmdInv, StartOK, Speaks, Loaded, Matches
<1>4. DataInv'
  BY <1>1 DEF DataInv
<1>. QED  BY <1>2, <1>3, <1>4 DEF IInv

\* A tokenizer file written where there was none, or the start of one, is beside no
\* token file that could tell.
LEMMA WriteTokKeepsFiles ==
  ASSUME IInv, NEW k, NEW v, NEW t, tok' = [tok EXCEPT ![k][v] = t],
         k \in Kinds /\ v \in Vocabs => tok[k][v] \in {None, Torn} /\ t \in Identities \cup {Torn},
         UNCHANGED <<corpus, bin, ckpt, orphaned, crashes>>
  PROVE  LineageTypeOK' /\ FilesInv'
<1>1. tok \in [Kinds -> [Vocabs -> Identities \cup {None, Torn}]]
  BY DEF IInv, LineageTypeOK
<1>2. \A j \in Kinds, u \in Vocabs :
        tok'[j][u] = IF j = k /\ u = v THEN t ELSE tok[j][u]
  BY <1>1
<1>3. tok' \in [Kinds -> [Vocabs -> Identities \cup {None, Torn}]]
  BY <1>1
<1>4. LineageTypeOK'
  BY <1>3 DEF IInv, LineageTypeOK
<1>5. ASSUME NEW j \in Kinds, NEW u \in Vocabs, NEW s \in Parts, bin[j][u][s] # None
      PROVE  IsPart(s, bin[j][u][s]) /\ (~orphaned => tok'[j][u] = bin[j][u][s].of.tok)
  <2>1. IsPart(s, bin[j][u][s]) /\ (~orphaned => tok[j][u] = bin[j][u][s].of.tok)
    BY <1>5 DEF IInv, FilesInv
  <2>2. bin[j][u][s].of.tok \in Identities
    BY <2>1 DEF IsPart, TokenFiles
  <2>. QED  BY <1>2, <2>1, <2>2, NullAssumption
<1>6. FilesInv'
  BY <1>5 DEF FilesInv
<1>. QED  BY <1>4, <1>6

\* A tokenizer found is the one on disk; a new one is started only where none was.
LEMMA FindTokenizerKeeps == ASSUME IInv, FindTokenizer PROVE IInv'
<1> DEFINE file == tok[cmd.kind][cmd.vocab]
<1>0. /\ cmd.pc = "tok" /\ UNCHANGED <<corpus, ckpt, bin, crashes, orphaned>> /\ crashes \in Nat
      /\ cmd.kind \in Kinds
  BY DEF FindTokenizer, Files, counts, IInv, LineageTypeOK, CmdInv
<1>1. \/ /\ file \notin {None, Torn} /\ UNCHANGED tok
         /\ Accepts(file) /\ cmd' = [cmd EXCEPT !.tok = file, !.pc = "data"]
      \/ cmd' = Idle /\ UNCHANGED tok
      \/ file = None /\ cmd.op = "eval" /\ cmd' = [cmd EXCEPT !.pc = "data"] /\ UNCHANGED tok
      \/ /\ file = None /\ tok' = [tok EXCEPT ![cmd.kind][cmd.vocab] = Torn]
         /\ cmd' = [cmd EXCEPT !.pc = "saveTok"]
  BY DEF FindTokenizer, Ends
<1>2. CASE file \notin {None, Torn} /\ UNCHANGED tok
           /\ Accepts(file) /\ cmd' = [cmd EXCEPT !.tok = file, !.pc = "data"]
  <2>1. LineageTypeOK' /\ FilesInv'
    BY <1>0, <1>2 DEF IInv, LineageTypeOK, FilesInv
  <2>2. cmd.vocab \in Vocabs => file = tok'[cmd.kind][cmd.vocab] /\ file \in Identities
    BY <1>0, <1>2 DEF IInv, LineageTypeOK
  <2>3. cmd.op \in {"generate", "eval"} => Matches(cmd.start, file)
    BY <1>2 DEF Accepts
  <2> HIDE DEF file
  <2>. QED  BY <1>0, <1>2, <2>1, <2>2, <2>3, LoadKeeps
<1>3. CASE cmd' = Idle /\ UNCHANGED tok
  BY <1>0, <1>3, EndKeeps
<1>4. CASE file = None /\ cmd.op = "eval" /\ cmd' = [cmd EXCEPT !.pc = "data"] /\ UNCHANGED tok
  <2>1. LineageTypeOK' /\ FilesInv'
    BY <1>0, <1>4 DEF IInv, LineageTypeOK, FilesInv
  <2>2. cmd' = [cmd EXCEPT !.tok = None, !.pc = "data"]
    BY <1>0, <1>4 DEF IInv, CmdInv
  <2>3. cmd.vocab \in Vocabs => None = tok'[cmd.kind][cmd.vocab]
    BY <1>4
  <2>. QED  BY <1>0, <1>4, <2>1, <2>2, <2>3, LoadKeeps
<1>5. CASE file = None /\ tok' = [tok EXCEPT ![cmd.kind][cmd.vocab] = Torn]
           /\ cmd' = [cmd EXCEPT !.pc = "saveTok"]
  <2>1. LineageTypeOK' /\ FilesInv'
    BY <1>0, <1>5, WriteTokKeepsFiles
  <2>2. cmd' = [op |-> cmd.op, pc |-> "saveTok", kind |-> cmd.kind, vocab |-> cmd.vocab, text |-> cmd.text,
                tok |-> cmd.tok, start |-> cmd.start, tr |-> None, va |-> None]
    BY <1>0, <1>5 DEF IInv, CmdInv
  <2>3. CkptInv' /\ PairInv' /\ DataInv'
    BY <1>0, <2>2 DEF IInv, CkptInv, Speaks, PairInv, Prepared, Rewriting, DataInv
  <2>4. cmd.vocab \in Vocabs => tok'[cmd.kind][cmd.vocab] = Torn
    BY <1>0, <1>5 DEF IInv, LineageTypeOK
  <2>5. CmdInv'
    BY <1>0, <2>2, <2>4 DEF IInv, CmdInv, StartOK, Speaks, Loaded
  <2>. QED  BY <2>1, <2>3, <2>5 DEF IInv
<1>. QED  BY <1>1, <1>2, <1>3, <1>4, <1>5

\* A tokenizer trained is the one on disk afterwards.
LEMMA SaveTokenizerKeeps == ASSUME IInv, SaveTokenizer PROVE IInv'
<1> DEFINE t == Tokenizer(cmd.kind, cmd.text, Part(cmd.op, cmd.kind), cmd.vocab)
<1>0. /\ cmd.pc = "saveTok" /\ UNCHANGED <<corpus, ckpt, bin, crashes, orphaned>> /\ crashes \in Nat
      /\ cmd.kind \in Kinds /\ cmd.text \in Texts
      /\ cmd.vocab \in Vocabs => tok[cmd.kind][cmd.vocab] = Torn
  BY DEF SaveTokenizer, Files, counts, IInv, LineageTypeOK, CmdInv
<1>1. /\ tok' = [tok EXCEPT ![cmd.kind][cmd.vocab] = t]
      /\ \/ Accepts(t) /\ cmd' = [cmd EXCEPT !.tok = t, !.pc = "data"]
         \/ cmd' = Idle
  BY DEF SaveTokenizer, Ends
<1>2. cmd.vocab \in Vocabs => t \in Identities
  BY <1>0, TokenizerTyped
<1> HIDE DEF t
<1>3. LineageTypeOK' /\ FilesInv'
  BY <1>0, <1>1, <1>2, WriteTokKeepsFiles
<1>4. CASE cmd' = Idle
  <2>1. CkptInv' /\ PairInv'
    BY <1>0, <1>4 DEF IInv, CkptInv, Speaks, PairInv, Prepared, Rewriting
  <2>2. CmdInv' /\ DataInv'
    BY <1>4 DEF Idle, CmdInv, DataInv, StartOK, Loaded
  <2>. QED  BY <1>3, <2>1, <2>2 DEF IInv
<1>5. CASE Accepts(t) /\ cmd' = [cmd EXCEPT !.tok = t, !.pc = "data"]
  <2>1. cmd.op \in {"generate", "eval"} => Matches(cmd.start, t)
    BY <1>5 DEF Accepts
  <2>2. cmd.vocab \in Vocabs => t = tok'[cmd.kind][cmd.vocab]
    BY <1>0, <1>1 DEF IInv, LineageTypeOK
  <2>. QED  BY <1>0, <1>2, <1>3, <1>5, <2>1, <2>2, LoadKeeps
<1>. QED  BY <1>1, <1>4, <1>5

-----------------------------------------------------------------------------
(* Token files.                                                            *)

\* The token file s of kind k and vocab v becomes f.
Becomes(k, v, s, f) == bin' = [bin EXCEPT ![k][v][s] = f]

\* One token file becomes f, a part written by the tokenizer beside it.
LEMMA FileWrite ==
  ASSUME IInv, NEW k \in Kinds, NEW v \in Vocabs, NEW s \in Parts, NEW f, IsPart(s, f),
         ~orphaned => tok[k][v] = f.of.tok, Becomes(k, v, s, f),
         UNCHANGED <<corpus, tok, ckpt, orphaned>>, crashes' \in Nat
  PROVE  /\ LineageTypeOK' /\ FilesInv' /\ CkptInv'
         /\ \A j \in Kinds, u \in Vocabs, r \in Parts :
              bin'[j][u][r] = IF j = k /\ u = v /\ r = s THEN f ELSE bin[j][u][r]
<1>1. bin \in [Kinds -> [Vocabs -> [Parts -> TokenFiles \cup {None}]]] /\ f \in TokenFiles
  BY DEF IInv, LineageTypeOK, IsPart
<1>2. \A j \in Kinds, u \in Vocabs, r \in Parts :
        bin'[j][u][r] = IF j = k /\ u = v /\ r = s THEN f ELSE bin[j][u][r]
  BY <1>1 DEF Becomes
<1>3. bin' \in [Kinds -> [Vocabs -> [Parts -> TokenFiles \cup {None}]]]
  BY <1>1 DEF Becomes
<1>4. LineageTypeOK' /\ CkptInv'
  BY <1>3 DEF IInv, LineageTypeOK, CkptInv, Speaks
<1>5. FilesInv'
  BY <1>2 DEF IInv, FilesInv
<1>. QED  BY <1>2, <1>4, <1>5

\* The parts prepare writes, whole or cut off.
LEMMA PartsOK ==
  ASSUME NEW t \in Texts, cmd.tok \in Identities
  PROVE  /\ IsPart("train", TrainPart(t)) /\ TrainPart(t).of = [text |-> t, tok |-> cmd.tok]
         /\ IsPart("val", ValPart(t)) /\ ValPart(t).of = [text |-> t, tok |-> cmd.tok]
<1>1. Tokens[t] \in Nat /\ SplitAt(Tokens[t]) \in Int
  BY LineageAssumption, SplitIsInt
<1>2. cmd.tok.vocab \in Vocabs
  BY DEF Identities
<1>. QED  BY <1>1, <1>2 DEF TrainPart, ValPart, Written, IsPart, TokenFiles

\* A part cut off, or marked so, is still that part by its header.
LEMMA CutPart ==
  ASSUME NEW s \in Parts, NEW f, IsPart(s, f), NEW held \in Int
  PROVE  IsPart(s, [f EXCEPT !.held = held]) /\ [f EXCEPT !.held = held].of = f.of
BY DEF IsPart, TokenFiles

\* One write of prepare, after which it goes on at p, or ends.
LEMMA PrepareStep ==
  ASSUME IInv, cmd.op = "prepare", cmd.pc \in {"data", "train", "split", "val"},
         UNCHANGED <<corpus, ckpt, tok, crashes, orphaned>>,
         NEW s \in Parts, NEW f, NEW p \in {"train", "split", "val", "none"},
         IsPart(s, f), f.of = [text |-> cmd.text, tok |-> cmd.tok],
         bin' = [bin EXCEPT ![cmd.kind][cmd.vocab][s] = f],
         cmd' = IF p = "none" THEN Idle ELSE [cmd EXCEPT !.pc = p],
         s = "train" <=> cmd.pc \in {"data", "train"},
         p = "val" <=> cmd.pc = "split",
         p = "none" <=> cmd.pc = "val"
  PROVE  IInv'
<1> DEFINE of == [text |-> cmd.text, tok |-> cmd.tok]
<1>0. /\ crashes \in Nat /\ crashes' \in Nat
      /\ cmd.kind \in Kinds /\ cmd.vocab \in Vocabs /\ cmd.text \in Texts
      /\ cmd.tok = tok[cmd.kind][cmd.vocab] /\ cmd.tok \in Identities
  BY DEF IInv, LineageTypeOK, CmdInv, Loaded
<1>2. f.of = of /\ of.tok = cmd.tok
  OBVIOUS
<1> HIDE DEF of
<1>3. tok[cmd.kind][cmd.vocab] = f.of.tok
  BY <1>0, <1>2
<1>4. /\ LineageTypeOK' /\ FilesInv' /\ CkptInv'
      /\ \A j \in Kinds, u \in Vocabs, r \in Parts :
           bin'[j][u][r] = IF j = cmd.kind /\ u = cmd.vocab /\ r = s THEN f ELSE bin[j][u][r]
  <2> DEFINE k == cmd.kind
  <2> DEFINE v == cmd.vocab
  <2>1. /\ k \in Kinds /\ v \in Vocabs /\ Becomes(k, v, s, f)
        /\ (~orphaned => tok[k][v] = f.of.tok) /\ crashes' \in Nat
        /\ UNCHANGED <<corpus, tok, ckpt, orphaned>> /\ IsPart(s, f)
    BY <1>0, <1>3 DEF Becomes
  <2> HIDE DEF k, v
  <2>2. /\ LineageTypeOK' /\ FilesInv' /\ CkptInv'
        /\ \A j \in Kinds, u \in Vocabs, r \in Parts :
             bin'[j][u][r] = IF j = k /\ u = v /\ r = s THEN f ELSE bin[j][u][r]
    BY <2>1, FileWrite
  <2>. QED  BY <2>2 DEF k, v
<1>5. \A r \in Parts : r = "train" \/ cmd.pc \in {"split", "val"} => bin'[cmd.kind][cmd.vocab][r].of = of
  <2> SUFFICES ASSUME NEW r \in Parts, r = "train" \/ cmd.pc \in {"split", "val"}
               PROVE  bin'[cmd.kind][cmd.vocab][r].of = of
    OBVIOUS
  <2>1. CASE r = s
    BY <1>0, <1>2, <1>4, <2>1
  <2>2. CASE r # s
    <3>1. r = "train" /\ cmd.pc \in {"split", "val"}
      BY <1>2, <1>0, <2>2 DEF Parts
    <3>2. bin[cmd.kind][cmd.vocab]["train"].of = of
      BY <1>0, <3>1 DEF IInv, DataInv, Parts, of
    <3>. QED  BY <1>0, <1>4, <2>2, <3>1, <3>2
  <2>. QED  BY <2>1, <2>2
<1>6. CASE p = "none"
  <2>1. cmd' = Idle /\ cmd.pc = "val"
    BY <1>2, <1>6
  <2>2. CmdInv' /\ DataInv'
    BY <2>1 DEF Idle, CmdInv, DataInv, StartOK, Loaded
  <2>3. PairInv'
    <3> SUFFICES ASSUME crashes' = 0, NEW j \in Kinds, NEW u \in Vocabs, Prepared(j, u)',
                        ~Rewriting(j, u)'
                 PROVE  bin'[j][u]["train"].of = bin'[j][u]["val"].of
      BY DEF PairInv
    <3>1. CASE j = cmd.kind /\ u = cmd.vocab
      BY <1>5, <2>1, <3>1 DEF Parts
    <3>2. CASE ~(j = cmd.kind /\ u = cmd.vocab)
      <4>1. bin'[j][u]["train"] = bin[j][u]["train"] /\ bin'[j][u]["val"] = bin[j][u]["val"]
        BY <1>4, <3>2 DEF Parts
      <4>2. Prepared(j, u) /\ ~Rewriting(j, u) /\ crashes = 0
        BY <3>2, <4>1 DEF Prepared, Rewriting
      <4>3. bin[j][u]["train"].of = bin[j][u]["val"].of
        BY <4>2 DEF IInv, PairInv
      <4>. QED  BY <4>1, <4>3
    <3>. QED  BY <3>1, <3>2
  <2>. QED  BY <1>4, <2>2, <2>3 DEF IInv
<1>7. CASE p # "none"
  <2>1. cmd' = [op |-> "prepare", pc |-> p, kind |-> cmd.kind, vocab |-> cmd.vocab, text |-> cmd.text,
                tok |-> cmd.tok, start |-> cmd.start, tr |-> cmd.tr, va |-> cmd.va]
    BY <1>0, <1>2, <1>7 DEF IInv, CmdInv
  <2>2. CmdInv'
    <3>1. StartOK(cmd.start)' /\ p \in {"train", "split", "val"}
      BY <1>7, <2>1 DEF IInv, CmdInv, StartOK, Speaks
    <3>2. tok' = tok
      OBVIOUS
    <3>. QED  BY <1>0, <2>1, <3>1, <3>2 DEF CmdInv, Loaded
  <2>3. DataInv'
    BY <1>0, <1>2, <1>5, <1>7, <2>1 DEF DataInv
  <2>4. PairInv'
    <3> SUFFICES ASSUME crashes' = 0, NEW j \in Kinds, NEW u \in Vocabs, Prepared(j, u)',
                        ~Rewriting(j, u)'
                 PROVE  bin'[j][u]["train"].of = bin'[j][u]["val"].of
      BY DEF PairInv
    <3>1. ~(j = cmd.kind /\ u = cmd.vocab)
      BY <1>0, <1>7, <2>1 DEF Rewriting
    <3>2. bin'[j][u]["train"] = bin[j][u]["train"] /\ bin'[j][u]["val"] = bin[j][u]["val"]
      BY <1>4, <3>1 DEF Parts
    <3>3. Prepared(j, u) /\ ~Rewriting(j, u) /\ crashes = 0
      BY <3>1, <3>2 DEF Prepared, Rewriting
    <3>4. bin[j][u]["train"].of = bin[j][u]["val"].of
      BY <3>3 DEF IInv, PairInv
    <3>. QED  BY <3>2, <3>4
  <2>. QED  BY <1>4, <2>2, <2>3, <2>4 DEF IInv
<1>. QED  BY <1>6, <1>7

\* prepare leaves both parts of one text, or has not finished.
LEMMA PrepareKeeps == ASSUME IInv, PrepareWrites PROVE IInv'
<1> DEFINE of == [text |-> cmd.text, tok |-> cmd.tok]
<1>0. /\ cmd.op = "prepare" /\ cmd.pc \in {"data", "train", "split", "val"}
      /\ UNCHANGED <<corpus, ckpt, tok, crashes, orphaned>>
      /\ cmd.text \in Texts /\ cmd.tok \in Identities
  BY DEF PrepareWrites, Files, counts, IInv, CmdInv, Loaded
<1>1. /\ IsPart("train", TrainPart(cmd.text)) /\ TrainPart(cmd.text).of = of
      /\ IsPart("val", ValPart(cmd.text)) /\ ValPart(cmd.text).of = of
  BY <1>0, PartsOK
<1>2. "train" \in Parts /\ "val" \in Parts
  BY DEF Parts
<1>3. ASSUME NEW s \in Parts, NEW f, IsPart(s, f), f.of = of,
             \E held \in {-1, f.count \div 2} :
               bin' = [bin EXCEPT ![cmd.kind][cmd.vocab][s] = [f EXCEPT !.held = held]]
      PROVE  \E g : IsPart(s, g) /\ g.of = of /\ bin' = [bin EXCEPT ![cmd.kind][cmd.vocab][s] = g]
  <2>1. f.count \div 2 \in Int
    BY <1>3 DEF IsPart, TokenFiles
  <2>2. PICK held \in {-1, f.count \div 2} :
          bin' = [bin EXCEPT ![cmd.kind][cmd.vocab][s] = [f EXCEPT !.held = held]]
    BY <1>3
  <2>3. held \in Int
    BY <2>1, <2>2
  <2> HIDE DEF of
  <2>4. IsPart(s, [f EXCEPT !.held = held]) /\ [f EXCEPT !.held = held].of = of
    BY <1>3, <2>3, CutPart
  <2>. QED  BY <2>2, <2>4
<1>4. CASE cmd.pc = "data"
  <2>1. Truncate("train", TrainPart(cmd.text)) /\ cmd' = [cmd EXCEPT !.pc = "train"]
    BY <1>4 DEF PrepareWrites
  <2>2. PICK g : /\ IsPart("train", g) /\ g.of = of
                 /\ bin' = [bin EXCEPT ![cmd.kind][cmd.vocab]["train"] = g]
    BY <1>1, <1>2, <1>3, <2>1 DEF Truncate
  <2>3. cmd' = IF "train" = "none" THEN Idle ELSE [cmd EXCEPT !.pc = "train"]
    BY <2>1
  <2>. QED  BY <1>0, <1>2, <1>4, <2>2, <2>3, PrepareStep
<1>5. CASE cmd.pc = "train"
  <2>1. /\ bin' = [bin EXCEPT ![cmd.kind][cmd.vocab]["train"] = TrainPart(cmd.text)]
        /\ cmd' = IF "split" = "none" THEN Idle ELSE [cmd EXCEPT !.pc = "split"]
    BY <1>5 DEF PrepareWrites, Complete
  <2> DEFINE g == TrainPart(cmd.text)
  <2>2. /\ IsPart("train", g) /\ g.of = of
        /\ bin' = [bin EXCEPT ![cmd.kind][cmd.vocab]["train"] = g]
    BY <1>1, <2>1
  <2> HIDE DEF g
  <2>. QED  BY <1>0, <1>2, <1>5, <2>1, <2>2, PrepareStep
<1>6. CASE cmd.pc = "split"
  <2>1. Truncate("val", ValPart(cmd.text)) /\ cmd' = [cmd EXCEPT !.pc = "val"]
    BY <1>6 DEF PrepareWrites
  <2>2. PICK g : /\ IsPart("val", g) /\ g.of = of
                 /\ bin' = [bin EXCEPT ![cmd.kind][cmd.vocab]["val"] = g]
    BY <1>1, <1>2, <1>3, <2>1 DEF Truncate
  <2>3. cmd' = IF "val" = "none" THEN Idle ELSE [cmd EXCEPT !.pc = "val"]
    BY <2>1
  <2>. QED  BY <1>0, <1>2, <1>6, <2>2, <2>3, PrepareStep
<1>7. CASE cmd.pc = "val"
  <2>1. /\ bin' = [bin EXCEPT ![cmd.kind][cmd.vocab]["val"] = ValPart(cmd.text)]
        /\ cmd' = IF "none" = "none" THEN Idle ELSE [cmd EXCEPT !.pc = "none"]
    BY <1>7 DEF PrepareWrites, Complete, Ends
  <2> DEFINE g == ValPart(cmd.text)
  <2>2. /\ IsPart("val", g) /\ g.of = of
        /\ bin' = [bin EXCEPT ![cmd.kind][cmd.vocab]["val"] = g]
    BY <1>1, <2>1
  <2> HIDE DEF g
  <2>. QED  BY <1>0, <1>2, <1>7, <2>1, <2>2, PrepareStep
<1>. QED  BY <1>0, <1>4, <1>5, <1>6, <1>7

-----------------------------------------------------------------------------
(* Commands take up token files.                                           *)

\* A part on disk of the running command's kind and vocab.
LEMMA OnDisk ==
  ASSUME IInv, cmd.kind \in Kinds, cmd.vocab \in Vocabs, NEW s \in Parts,
         bin[cmd.kind][cmd.vocab][s] # None
  PROVE  LET f == bin[cmd.kind][cmd.vocab][s]
         IN  /\ IsPart(s, f) /\ f.of.tok \in Identities
             /\ ~orphaned => f.of.tok = tok[cmd.kind][cmd.vocab]
<1> DEFINE f == bin[cmd.kind][cmd.vocab][s]
<1>1. IsPart(s, f) /\ (~orphaned => tok[cmd.kind][cmd.vocab] = f.of.tok)
  BY DEF IInv, FilesInv
<1> HIDE DEF f
<1>2. f.of.tok \in Identities
  BY <1>1 DEF IsPart, TokenFiles
<1>. QED  BY <1>1, <1>2 DEF f

\* A train takes up the parts on disk or cuts its own text, with its own tokenizer.
LEMMA TrainDataKeeps == ASSUME IInv, TrainData PROVE IInv'
<1> DEFINE b  == bin[cmd.kind][cmd.vocab]
<1> DEFINE on == Prepared(cmd.kind, cmd.vocab)
<1> DEFINE tr == IF on THEN b["train"] ELSE TrainPart(cmd.text)
<1> DEFINE va == IF on THEN b["val"] ELSE ValPart(cmd.text)
<1>0. /\ cmd.op = "train" /\ cmd.pc = "data" /\ Untouched /\ crashes \in Nat
      /\ cmd.kind \in Kinds /\ cmd.vocab \in Vocabs /\ cmd.text \in Texts
      /\ cmd.tok = tok[cmd.kind][cmd.vocab] /\ cmd.tok \in Identities
  BY DEF TrainData, Files, counts, Untouched, IInv, LineageTypeOK, CmdInv, Loaded
<1>1. \/ Matches(cmd.start, cmd.tok) /\ cmd' = [cmd EXCEPT !.pc = "run", !.tr = tr, !.va = va]
      \/ cmd' = Idle
  BY DEF TrainData, Ends
<1>2. CASE cmd' = Idle
  BY <1>0, <1>2, EndKeeps DEF Untouched
<1>3. CASE Matches(cmd.start, cmd.tok) /\ cmd' = [cmd EXCEPT !.pc = "run", !.tr = tr, !.va = va]
  <2>1. /\ IsPart("train", tr) /\ IsPart("val", va)
        /\ tr.of.tok \in Identities /\ va.of.tok \in Identities
        /\ ~orphaned => tr.of.tok = cmd.tok /\ va.of.tok = cmd.tok
        /\ crashes = 0 => tr.of = va.of
    <3>1. CASE on
      <4>1. b["train"] # None /\ b["val"] # None /\ "train" \in Parts /\ "val" \in Parts
        BY <3>1 DEF Prepared, Parts
      <4>2. crashes = 0 => b["train"].of = b["val"].of
        BY <1>0, <3>1 DEF IInv, PairInv, Rewriting
      <4>. QED  BY <1>0, <3>1, <4>1, <4>2, OnDisk
    <3>2. CASE ~on
      <4>1. /\ tr = TrainPart(cmd.text) /\ va = ValPart(cmd.text)
        BY <3>2
      <4>2. /\ IsPart("train", TrainPart(cmd.text)) /\ TrainPart(cmd.text).of = [text |-> cmd.text, tok |-> cmd.tok]
            /\ IsPart("val", ValPart(cmd.text)) /\ ValPart(cmd.text).of = [text |-> cmd.text, tok |-> cmd.tok]
        BY <1>0, PartsOK
      <4> HIDE DEF tr, va
      <4>. QED  BY <1>0, <4>1, <4>2
    <3>. QED  BY <3>1, <3>2
  <2> HIDE DEF tr, va
  <2>2. cmd' = [op |-> "train", pc |-> "run", kind |-> cmd.kind, vocab |-> cmd.vocab, text |-> cmd.text,
                tok |-> cmd.tok, start |-> cmd.start, tr |-> tr, va |-> va]
    BY <1>0, <1>3 DEF IInv, CmdInv
  <2>3. LineageTypeOK' /\ FilesInv' /\ CkptInv' /\ PairInv'
    BY <1>0, <2>2 DEF IInv, LineageTypeOK, FilesInv, CkptInv, Speaks, PairInv, Prepared, Rewriting, Untouched
  <2>4. CmdInv'
    <3>1. StartOK(cmd.start)'
      BY <1>0, <2>2 DEF IInv, CmdInv, StartOK, Speaks, Untouched
    <3>. QED  BY <1>0, <2>2, <3>1 DEF CmdInv, Loaded, Untouched
  <2>5. DataInv'
    <3>1. Matches(cmd.start, cmd.tok)' /\ cmd'.tr = tr /\ cmd'.va = va
      BY <1>3, <2>2 DEF Matches
    <3>2. \A d \in {tr, va} : d.of.tok \in Identities /\ (~orphaned => d.of.tok = cmd.tok)
      BY <2>1
    <3>. QED  BY <1>0, <2>1, <2>2, <3>1, <3>2 DEF DataInv, Untouched
  <2>. QED  BY <2>3, <2>4, <2>5 DEF IInv
<1>. QED  BY <1>1, <1>2, <1>3

\* A reader goes on with what it read, each part written by the tokenizer beside it.
LEMMA UseKeeps ==
  ASSUME IInv, cmd.op \in {"generate", "eval"}, cmd.pc = "data", Untouched, NEW tr, NEW va,
         cmd' = [cmd EXCEPT !.pc = "use", !.tr = tr, !.va = va],
         cmd.vocab \in Vocabs /\ ~orphaned =>
           \A d \in {tr, va} \ {None} : d.of.tok = tok[cmd.kind][cmd.vocab] /\ d.of.tok \in Identities
  PROVE  IInv'
<1>1. cmd' = [op |-> cmd.op, pc |-> "use", kind |-> cmd.kind, vocab |-> cmd.vocab, text |-> cmd.text,
              tok |-> cmd.tok, start |-> cmd.start, tr |-> tr, va |-> va]
  BY DEF IInv, CmdInv
<1>2. LineageTypeOK' /\ FilesInv' /\ CkptInv' /\ PairInv'
  BY <1>1 DEF IInv, LineageTypeOK, FilesInv, CkptInv, Speaks, PairInv, Prepared, Rewriting, Untouched
<1>3. CmdInv'
  <2>1. StartOK(cmd.start)'
    BY <1>1 DEF IInv, CmdInv, StartOK, Speaks, Untouched
  <2>. QED  BY <1>1, <2>1 DEF IInv, CmdInv, Loaded, Matches, Untouched
<1>4. DataInv'
  <2>1. cmd'.tr = tr /\ cmd'.va = va /\ tok' = tok /\ orphaned' = orphaned /\ cmd'.kind = cmd.kind /\ cmd'.vocab = cmd.vocab
    BY <1>1 DEF Untouched
  <2>. QED  BY <1>1, <2>1 DEF DataInv
<1>. QED  BY <1>2, <1>3, <1>4 DEF IInv

\* generate prompts from the val part on disk or from its own encoding.
LEMMA GenerateDataKeeps == ASSUME IInv, GenerateData PROVE IInv'
<1> DEFINE file == bin[cmd.kind][cmd.vocab]["val"]
<1> DEFINE va == IF file # None THEN file ELSE ValPart(corpus)
<1>0. /\ cmd.op = "generate" /\ cmd.pc = "data" /\ Untouched /\ crashes \in Nat /\ corpus \in Texts
      /\ cmd.kind \in Kinds /\ cmd.tr = None /\ cmd.va = None
      /\ cmd.vocab \in Vocabs => cmd.tok = tok[cmd.kind][cmd.vocab] /\ cmd.tok \in Identities
  BY DEF GenerateData, Files, counts, Untouched, IInv, LineageTypeOK, CmdInv, Loaded
<1>1. \/ cmd' = [cmd EXCEPT !.pc = "use", !.va = va]
      \/ cmd' = Idle
      \/ cmd' = [cmd EXCEPT !.pc = "use"]
  BY DEF GenerateData, Ends
<1>2. CASE cmd' = Idle
  BY <1>0, <1>2, EndKeeps DEF Untouched
<1>3. CASE cmd' = [cmd EXCEPT !.pc = "use", !.va = va]
  <2>1. cmd.vocab \in Vocabs /\ ~orphaned => va.of.tok = tok[cmd.kind][cmd.vocab] /\ va.of.tok \in Identities
    <3> SUFFICES ASSUME cmd.vocab \in Vocabs, ~orphaned
                 PROVE  va.of.tok = tok[cmd.kind][cmd.vocab] /\ va.of.tok \in Identities
      OBVIOUS
    <3>1. CASE file # None
      BY <1>0, <3>1, OnDisk DEF Parts
    <3>2. CASE file = None
      <4>1. ValPart(corpus).of = [text |-> corpus, tok |-> cmd.tok]
        BY <1>0, PartsOK
      <4>. QED  BY <1>0, <3>2, <4>1
    <3>. QED  BY <3>1, <3>2
  <2> HIDE DEF va
  <2>2. cmd' = [cmd EXCEPT !.pc = "use", !.tr = None, !.va = va]
    BY <1>0, <1>3 DEF IInv, CmdInv
  <2>3. cmd.vocab \in Vocabs /\ ~orphaned =>
          \A d \in {None, va} \ {None} : d.of.tok = tok[cmd.kind][cmd.vocab] /\ d.of.tok \in Identities
    BY <2>1
  <2>. QED  BY <1>0, <2>2, <2>3, UseKeeps
<1>4. CASE cmd' = [cmd EXCEPT !.pc = "use"]
  <2>1. cmd' = [cmd EXCEPT !.pc = "use", !.tr = None, !.va = None]
    BY <1>0, <1>4 DEF IInv, CmdInv
  <2>. QED  BY <1>0, <2>1, UseKeeps
<1>. QED  BY <1>1, <1>2, <1>3, <1>4

\* eval reads both parts from disk.
LEMMA EvalDataKeeps == ASSUME IInv, EvalData PROVE IInv'
<1> DEFINE b == bin[cmd.kind][cmd.vocab]
<1>0. /\ cmd.op = "eval" /\ cmd.pc = "data" /\ Untouched /\ crashes \in Nat /\ cmd.kind \in Kinds
  BY DEF EvalData, Files, counts, Untouched, IInv, LineageTypeOK, CmdInv, Loaded
<1>1. \/ Prepared(cmd.kind, cmd.vocab) /\ cmd' = [cmd EXCEPT !.pc = "use", !.tr = b["train"], !.va = b["val"]]
      \/ cmd' = Idle
  BY DEF EvalData, Ends
<1>2. CASE cmd' = Idle
  BY <1>0, <1>2, EndKeeps DEF Untouched
<1>3. CASE Prepared(cmd.kind, cmd.vocab) /\ cmd' = [cmd EXCEPT !.pc = "use", !.tr = b["train"], !.va = b["val"]]
  <2>1. b["train"] # None /\ b["val"] # None /\ "train" \in Parts /\ "val" \in Parts
    BY <1>3 DEF Prepared, Parts
  <2>2. cmd.vocab \in Vocabs /\ ~orphaned =>
          \A d \in {b["train"], b["val"]} \ {None} : d.of.tok = tok[cmd.kind][cmd.vocab] /\ d.of.tok \in Identities
    BY <1>0, <2>1, OnDisk
  <2>. QED  BY <1>0, <1>3, <2>2, UseKeeps
<1>. QED  BY <1>1, <1>2, <1>3

\* A reader that ends leaves everything as it is.
LEMMA LeaveKeeps == ASSUME IInv, Leave PROVE IInv'
<1>1. cmd.pc = "use" /\ cmd' = Idle /\ UNCHANGED <<corpus, tok, bin, ckpt, orphaned, crashes>> /\ crashes \in Nat
  BY DEF Leave, Ends, Files, counts, IInv, LineageTypeOK
<1>. QED  BY <1>1, EndKeeps

-----------------------------------------------------------------------------
(* Checkpoints.                                                            *)

\* The checkpoint a run saves speaks its tokenizer's ids, and no other's.
LEMMA WeighOK ==
  ASSUME IInv, cmd.pc = "run", NEW done \in BOOLEAN
  PROVE  Weigh(done) \in Checkpoints /\ Speaks(Weigh(done))
<1> DEFINE s == cmd.start
<1>1. /\ cmd.op = "train" /\ cmd.kind \in Kinds /\ cmd.vocab \in Vocabs /\ cmd.tok \in Identities
      /\ IsPart("train", cmd.tr) /\ Matches(s, cmd.tok) /\ StartOK(s)
      /\ ~orphaned => cmd.tr = None \/ cmd.tr.of.tok = cmd.tok
  BY DEF IInv, CmdInv, DataInv, Loaded
<1>2. cmd.tr.of.tok \in Identities /\ cmd.tok.vocab \in Vocabs
  BY <1>1 DEF IsPart, TokenFiles, Identities
<1>3. cmd.tr # None
  BY <1>1, NullAssumption DEF IsPart
<1> HIDE DEF s
<1>4. Weigh(done) = [version |-> 2, vocab |-> cmd.tok.vocab, fp |-> cmd.tok, cut |-> Items, torn |-> FALSE,
                     speaks |-> {cmd.tr.of.tok} \cup (IF s = None THEN {} ELSE s.speaks),
                     sure |-> (s = None \/ s.sure), done |-> done]
  BY DEF Weigh, Saved, s
<1>5. /\ {cmd.tr.of.tok} \cup (IF s = None THEN {} ELSE s.speaks) \in SUBSET Identities
      /\ (s = None \/ s.sure) \in BOOLEAN
  BY <1>1, <1>2 DEF StartOK
<1>6. Weigh(done) \in Checkpoints
  BY <1>1, <1>2, <1>4, <1>5 DEF Checkpoints
<1>7. Speaks(Weigh(done))
  <2>0. /\ Weigh(done).fp = cmd.tok /\ Weigh(done).sure = (s = None \/ s.sure)
        /\ Weigh(done).speaks = {cmd.tr.of.tok} \cup (IF s = None THEN {} ELSE s.speaks)
    BY <1>4
  <2> SUFFICES ASSUME s = None \/ s.sure, ~orphaned
               PROVE  cmd.tok # NoFingerprint /\ Weigh(done).speaks = {cmd.tok}
    BY <2>0 DEF Speaks
  <2>1. cmd.tok # NoFingerprint
    BY <1>1, NullAssumption
  <2>2. s # None => s.fp = cmd.tok /\ s.speaks = {cmd.tok}
    BY <1>1 DEF StartOK, Speaks, Matches
  <2>. QED  BY <1>1, <1>3, <2>0, <2>1, <2>2
<1>. QED  BY <1>6, <1>7

\* A checkpoint as good as any may take the place of one.
LEMMA SaveKeepsDisk ==
  ASSUME IInv, UNCHANGED <<corpus, tok, bin, orphaned>>, crashes' \in Nat,
         ckpt' \in [Kinds -> [resume : Checkpoints \cup {None}, final : Checkpoints \cup {None}]],
         \A k \in Kinds, n \in {"resume", "final"} : ckpt'[k][n] # None => Speaks(ckpt'[k][n])
  PROVE  LineageTypeOK' /\ FilesInv' /\ CkptInv'
BY DEF IInv, LineageTypeOK, FilesInv, CkptInv, Speaks

\* The resume checkpoint of a run takes its place, and the run goes on or stops.
LEMMA SaveResumeKeeps == ASSUME IInv, SaveResume PROVE IInv'
<1> DEFINE w == Weigh(FALSE)
<1>0. /\ cmd.pc = "run" /\ UNCHANGED <<corpus, tok, bin, orphaned, crashes>> /\ crashes \in Nat
      /\ cmd.kind \in Kinds /\ w \in Checkpoints /\ Speaks(w)
      /\ ckpt' = [ckpt EXCEPT ![cmd.kind].resume = w]
      /\ cmd' = Idle \/ cmd' = cmd
  BY WeighOK DEF SaveResume, counts, IInv, LineageTypeOK, CmdInv
<1> HIDE DEF w
<1>1. ckpt \in [Kinds -> [resume : Checkpoints \cup {None}, final : Checkpoints \cup {None}]]
  BY DEF IInv, LineageTypeOK
<1>2. ckpt' \in [Kinds -> [resume : Checkpoints \cup {None}, final : Checkpoints \cup {None}]]
  BY <1>0, <1>1
<1>3. \A k \in Kinds, n \in {"resume", "final"} : ckpt'[k][n] \in {w, ckpt[k][n]}
  BY <1>0, <1>1
<1>4. LineageTypeOK' /\ FilesInv' /\ CkptInv'
  <2>1. \A k \in Kinds, n \in {"resume", "final"} : ckpt'[k][n] # None => Speaks(ckpt'[k][n])
    BY <1>0, <1>3 DEF IInv, CkptInv
  <2>. QED  BY <1>0, <1>2, <2>1, SaveKeepsDisk
<1>5. PairInv' /\ CmdInv' /\ DataInv'
  <2>1. CASE cmd' = Idle
    <3>1. PairInv'
      BY <1>0, <2>1 DEF IInv, PairInv, Prepared, Rewriting
    <3>2. CmdInv' /\ DataInv'
      BY <2>1 DEF Idle, CmdInv, DataInv, StartOK, Loaded
    <3>. QED  BY <3>1, <3>2
  <2>2. CASE cmd' = cmd
    BY <1>0, <2>2 DEF IInv, PairInv, Prepared, Rewriting, CmdInv, DataInv, StartOK, Speaks, Loaded, Matches
  <2>. QED  BY <1>0, <2>1, <2>2
<1>. QED  BY <1>4, <1>5 DEF IInv

\* A finished run replaces both checkpoints of its kind.
LEMMA FinishRunKeeps == ASSUME IInv, FinishRun PROVE IInv'
<1> DEFINE w == Weigh(TRUE)
<1>0. /\ cmd.pc = "run" /\ UNCHANGED <<corpus, tok, bin, orphaned, crashes>> /\ crashes \in Nat
      /\ cmd.kind \in Kinds /\ w \in Checkpoints /\ Speaks(w)
      /\ ckpt' = [ckpt EXCEPT ![cmd.kind] = [resume |-> w, final |-> w]]
      /\ cmd' = Idle
  BY WeighOK DEF FinishRun, Ends, counts, IInv, LineageTypeOK, CmdInv
<1> HIDE DEF w
<1>1. ckpt \in [Kinds -> [resume : Checkpoints \cup {None}, final : Checkpoints \cup {None}]]
  BY DEF IInv, LineageTypeOK
<1>2. ckpt' \in [Kinds -> [resume : Checkpoints \cup {None}, final : Checkpoints \cup {None}]]
  BY <1>0, <1>1
<1>3. \A k \in Kinds, n \in {"resume", "final"} : ckpt'[k][n] \in {w, ckpt[k][n]}
  BY <1>0, <1>1
<1>4. LineageTypeOK' /\ FilesInv' /\ CkptInv'
  <2>1. \A k \in Kinds, n \in {"resume", "final"} : ckpt'[k][n] # None => Speaks(ckpt'[k][n])
    BY <1>0, <1>3 DEF IInv, CkptInv
  <2>. QED  BY <1>0, <1>2, <2>1, SaveKeepsDisk
<1>5. PairInv'
  BY <1>0 DEF IInv, PairInv, Prepared, Rewriting
<1>6. CmdInv' /\ DataInv'
  BY <1>0 DEF Idle, CmdInv, DataInv, StartOK, Loaded
<1>. QED  BY <1>4, <1>5, <1>6 DEF IInv

-----------------------------------------------------------------------------
(* The user and the machine.                                               *)

\* Between commands only the disk has to be looked at.
LEMMA BetweenCommands ==
  ASSUME cmd = Idle, cmd' = Idle, LineageTypeOK', FilesInv', CkptInv', PairInv'
  PROVE  IInv'
BY DEF IInv, Idle, CmdInv, DataInv, StartOK, Loaded

\* An edit of the corpus touches nothing made from it.
LEMMA EditKeeps == ASSUME IInv, EditCorpus PROVE IInv'
<1>1. cmd = Idle /\ cmd' = Idle /\ corpus' \in Texts /\ UNCHANGED <<tok, bin, ckpt, crashes, orphaned>>
  BY DEF EditCorpus
<1>2. LineageTypeOK' /\ FilesInv' /\ CkptInv' /\ PairInv'
  BY <1>1 DEF IInv, LineageTypeOK, FilesInv, CkptInv, Speaks, PairInv, Prepared, Rewriting
<1>. QED  BY <1>1, <1>2, BetweenCommands

\* A lost tokenizer file orphans the token files beside it.
LEMMA LoseKeeps ==
  ASSUME IInv, NEW k \in Kinds, NEW v \in Vocabs, NEW f \in {None, Torn}, Lose(k, v, f),
         cmd = Idle, cmd' = Idle, UNCHANGED <<corpus, bin, ckpt>>, crashes' \in Nat,
         crashes' = 0 => crashes = 0
  PROVE  IInv'
<1>1. /\ tok' = [tok EXCEPT ![k][v] = f] /\ orphaned' \in BOOLEAN
      /\ ~orphaned' => ~orphaned /\ \A s \in Parts : bin[k][v][s] = None
  BY DEF Lose, Parts, IInv, LineageTypeOK
<1>2. tok \in [Kinds -> [Vocabs -> Identities \cup {None, Torn}]]
  BY DEF IInv, LineageTypeOK
<1>3. /\ tok' \in [Kinds -> [Vocabs -> Identities \cup {None, Torn}]]
      /\ \A j \in Kinds, u \in Vocabs : tok'[j][u] = IF j = k /\ u = v THEN f ELSE tok[j][u]
  BY <1>1, <1>2
<1>4. LineageTypeOK' /\ CkptInv'
  BY <1>1, <1>3 DEF IInv, LineageTypeOK, CkptInv, Speaks
<1>5. FilesInv'
  BY <1>1, <1>3 DEF IInv, FilesInv
<1>6. PairInv'
  BY DEF IInv, PairInv, Prepared, Rewriting, Idle
<1>. QED  BY <1>4, <1>5, <1>6, BetweenCommands

\* A deleted tokenizer orphans what it wrote.
LEMMA RemoveKeeps == ASSUME IInv, RemoveTokenizer PROVE IInv'
<1>1. PICK k \in Kinds, v \in Vocabs : Lose(k, v, None)
  BY DEF RemoveTokenizer
<1>2. cmd = Idle /\ cmd' = Idle /\ UNCHANGED <<corpus, bin, ckpt>> /\ crashes' \in Nat /\ crashes' = crashes
  BY DEF RemoveTokenizer, Files, IInv, LineageTypeOK
<1>. QED  BY <1>1, <1>2, LoseKeeps

\* A crash leaves the disk as it was.
LEMMA CrashKeeps == ASSUME IInv, Crash PROVE IInv'
<1>1. /\ cmd' = Idle /\ UNCHANGED <<corpus, tok, bin, ckpt, orphaned>>
      /\ crashes' \in Nat /\ crashes' # 0
  BY DEF Crash, Ends, Files, IInv, LineageTypeOK
<1>. QED  BY <1>1, EndKeeps

\* A power failure only cuts files off, or loses a tokenizer file.
LEMMA PowerFailureKeeps == ASSUME IInv, PowerFailure PROVE IInv'
<1>0. cmd = Idle /\ cmd' = Idle /\ corpus' = corpus /\ crashes' \in Nat /\ crashes' # 0
  <2>1. cmd = Idle /\ crashes' = crashes + 1 /\ cmd' = cmd /\ corpus' = corpus
    BY Zenon DEF PowerFailure
  <2>. QED  BY <2>1 DEF IInv, LineageTypeOK
<1>1. PairInv'
  BY <1>0 DEF PairInv
<1>2. CASE \E s \in Slots, at \in Cuts, torn \in BOOLEAN :
             /\ ckpt' = [ckpt EXCEPT ![s[1]][s[2]].cut = at, ![s[1]][s[2]].torn = torn]
             /\ UNCHANGED <<bin, tok, orphaned>>
  <2>1. PICK k \in Kinds, n \in {"resume", "final"}, at \in Cuts, torn \in BOOLEAN :
             /\ ckpt[k][n] # None
             /\ ckpt' = [ckpt EXCEPT ![k][n].cut = at, ![k][n].torn = torn]
             /\ UNCHANGED <<bin, tok, orphaned>>
    <3>1. PICK s \in Slots, at \in Cuts, torn \in BOOLEAN :
            /\ ckpt' = [ckpt EXCEPT ![s[1]][s[2]].cut = at, ![s[1]][s[2]].torn = torn]
            /\ UNCHANGED <<bin, tok, orphaned>>
      BY <1>2
    <3> DEFINE k == s[1]
    <3> DEFINE n == s[2]
    <3>2. k \in Kinds /\ n \in {"resume", "final"} /\ ckpt[k][n] # None
      BY DEF Slots
    <3>3. ckpt' = [ckpt EXCEPT ![k][n].cut = at, ![k][n].torn = torn]
      BY <3>1
    <3> HIDE DEF k, n
    <3>. QED  BY <3>1, <3>2, <3>3
  <2> DEFINE c == [ckpt[k][n] EXCEPT !.cut = at, !.torn = torn]
  <2>2. /\ ckpt \in [Kinds -> [resume : Checkpoints \cup {None}, final : Checkpoints \cup {None}]]
        /\ ckpt[k][n] \in Checkpoints /\ Speaks(ckpt[k][n])
    BY <2>1 DEF IInv, LineageTypeOK, CkptInv
  <2>3. /\ c \in Checkpoints /\ c.sure = ckpt[k][n].sure /\ c.fp = ckpt[k][n].fp
        /\ c.speaks = ckpt[k][n].speaks
    BY <2>2 DEF Checkpoints
  <2>4. ckpt' = [ckpt EXCEPT ![k][n] = c]
    BY <2>1, <2>2
  <2> HIDE DEF c
  <2>5. ckpt' \in [Kinds -> [resume : Checkpoints \cup {None}, final : Checkpoints \cup {None}]]
    BY <2>2, <2>3, <2>4
  <2>6. \A j \in Kinds, m \in {"resume", "final"} : ckpt'[j][m] \in {c, ckpt[j][m]}
    BY <2>2, <2>4
  <2>7. Speaks(c)
    BY <2>2, <2>3 DEF Speaks
  <2>8. \A j \in Kinds, m \in {"resume", "final"} : ckpt'[j][m] # None => Speaks(ckpt'[j][m])
    BY <2>6, <2>7 DEF IInv, CkptInv
  <2>9. LineageTypeOK' /\ FilesInv' /\ CkptInv'
    BY <1>0, <2>1, <2>5, <2>8, SaveKeepsDisk
  <2>. QED  BY <1>0, <1>1, <2>9, BetweenCommands
<1>3. CASE \E k \in Kinds, v \in Vocabs, s \in {"train", "val"} :
             /\ bin[k][v][s] # None
             /\ bin' = [bin EXCEPT ![k][v][s].held = bin[k][v][s].count - 1]
             /\ UNCHANGED <<ckpt, tok, orphaned>>
  <2>1. PICK k \in Kinds, v \in Vocabs, s \in Parts :
             /\ bin[k][v][s] # None
             /\ bin' = [bin EXCEPT ![k][v][s].held = bin[k][v][s].count - 1]
             /\ UNCHANGED <<ckpt, tok, orphaned>>
    BY <1>3 DEF Parts
  <2> DEFINE f == [bin[k][v][s] EXCEPT !.held = bin[k][v][s].count - 1]
  <2>2. IsPart(s, bin[k][v][s]) /\ (~orphaned => tok[k][v] = bin[k][v][s].of.tok)
    BY <2>1 DEF IInv, FilesInv
  <2>3. IsPart(s, f) /\ f.of = bin[k][v][s].of
    BY <2>2 DEF IsPart, TokenFiles
  <2>4. Becomes(k, v, s, f)
    BY <2>1 DEF Becomes, IInv, LineageTypeOK
  <2> HIDE DEF f
  <2>5. /\ UNCHANGED <<corpus, tok, ckpt, orphaned>> /\ crashes' \in Nat
        /\ (~orphaned => tok[k][v] = f.of.tok)
    BY <1>0, <2>1, <2>2, <2>3
  <2>6. LineageTypeOK' /\ FilesInv' /\ CkptInv'
    BY <2>3, <2>4, <2>5, FileWrite
  <2>. QED  BY <1>0, <1>1, <2>6, BetweenCommands
<1>4. CASE /\ \E k \in Kinds, v \in Vocabs : tok[k][v] # None /\ Lose(k, v, Torn)
           /\ UNCHANGED <<ckpt, bin>>
  BY <1>0, <1>4, LoseKeeps
<1>. QED  BY <1>2, <1>3, <1>4 DEF PowerFailure

-----------------------------------------------------------------------------
\* Every step keeps the invariant.
LEMMA StepKeeps == ASSUME IInv, [Next]_vars PROVE IInv'
<1>1. CASE Command
  BY <1>1, BeginsKeep, FindTokenizerKeeps, SaveTokenizerKeeps, PrepareKeeps, TrainDataKeeps,
     SaveResumeKeeps, FinishRunKeeps, GenerateDataKeeps, EvalDataKeeps, LeaveKeeps DEF Command
<1>2. CASE EditCorpus \/ RemoveTokenizer \/ Crash \/ PowerFailure
  BY <1>2, EditKeeps, RemoveKeeps, CrashKeeps, PowerFailureKeeps
<1>3. CASE UNCHANGED vars
  BY <1>3 DEF vars, counts, IInv, LineageTypeOK, FilesInv, CkptInv, PairInv, Prepared, Rewriting, CmdInv,
     DataInv, StartOK, Speaks, Loaded, Matches
<1>. QED  BY <1>1, <1>2, <1>3 DEF Next

\* What the files and the running command say of each other holds after any history of
\* commands, edits, removals, crashes and power failures.
THEOREM Invariance == Spec => []IInv
<1>1. IInv /\ [Next]_vars => IInv'
  BY StepKeeps
<1>. QED  BY Initially, <1>1, PTL DEF Spec

\* A checkpoint that records a tokenizer has only ever seen that tokenizer's ids.
THEOREM OneTokenizer == Spec => []SpeaksOneTokenizer
<1>1. IInv => SpeaksOneTokenizer
  BY DEF IInv, CkptInv, Speaks, SpeaksOneTokenizer, Slots
<1>. QED  BY Invariance, <1>1, PTL

\* Training text and held-out text of a run are disjoint parts of one text.
THEOREM HeldOutStays == Spec => []HeldOut
<1>1. IInv => HeldOut
  <2> SUFFICES ASSUME IInv, cmd.pc = "run"
               PROVE  /\ cmd.tr.of = cmd.va.of => cmd.tr.first + cmd.tr.count <= cmd.va.first
                      /\ crashes = 0 => cmd.tr.of = cmd.va.of
    BY DEF HeldOut
  <2>1. /\ IsPart("train", cmd.tr) /\ IsPart("val", cmd.va)
        /\ crashes = 0 => cmd.tr.of = cmd.va.of
    BY DEF IInv, DataInv
  <2>2. /\ cmd.tr.first = 0 /\ cmd.tr.count \in Int
        /\ cmd.tr.count = SplitAt(Tokens[cmd.tr.of.text])
        /\ cmd.va.first = SplitAt(Tokens[cmd.va.of.text])
    BY <2>1 DEF IsPart, TokenFiles
  <2>. QED  BY <2>1, <2>2
<1>. QED  BY Invariance, <1>1, PTL

-----------------------------------------------------------------------------
(* What load() makes of the files a power failure leaves.                  *)

\* The model of a file.
LEMMA ModelOK ==
  ASSUME NEW version \in {1, 2}, NEW vocab \in Vocabs, NEW m, m = Model(version, vocab)
  PROVE  /\ IsModel(m) /\ Len(Params(m)) = 20 /\ m.arch = "gpt2"
         /\ m.dims.vocab = vocab
         /\ version = 1 => m.fp = NoFingerprint
<1> DEFINE i == [arch |-> "gpt2", dims |-> [vocab |-> vocab, d_model |-> 4, layers |-> 1,
                                            heads |-> 2, max_len |-> 8]]
<1>1. m = [arch |-> i.arch, dims |-> i.dims,
           fp |-> IF version = 1 THEN NoFingerprint ELSE [its |-> "own"],
           data |-> [p \in ToSet(Params(i)) |-> p]]
  BY DEF Model
<1>2. /\ i.arch = "gpt2" /\ i.dims = [vocab |-> vocab, d_model |-> 4, layers |-> 1, heads |-> 2, max_len |-> 8]
      /\ m.arch = "gpt2" /\ m.dims = i.dims
      /\ m.data = [p \in ToSet(Params(i)) |-> p]
      /\ version = 1 => m.fp = NoFingerprint
  BY <1>1
<1>3. m = [arch |-> m.arch, dims |-> m.dims, fp |-> m.fp, data |-> m.data]
  BY <1>1
<1> HIDE DEF i
<1>4. m.dims.layers = 1 /\ i.dims.layers = 1 /\ m.dims.vocab = vocab
  BY <1>2
<1>5. Params(i) = Params(m)
  BY <1>2, <1>4, ParamsOf
<1>6. m.data = [p \in ToSet(Params(m)) |-> m.data[p]]
  BY <1>2, <1>5
<1>7. m.dims = [vocab |-> m.dims.vocab, d_model |-> m.dims.d_model, layers |-> m.dims.layers,
               heads |-> m.dims.heads, max_len |-> m.dims.max_len]
  BY <1>2
<1>8. IsModel(m)
  BY <1>3, <1>4, <1>6, <1>7 DEF IsModel
<1>. QED  BY <1>2, <1>4, <1>8, ParamsOfOne

\* What load() makes of what is left of a file: nothing, or the model, perhaps
\* without its fingerprint.
LEMMA TableOK ==
  ASSUME NEW version \in {1, 2}, NEW vocab \in Vocabs, NEW cut \in Cuts \cup {Items},
         NEW torn \in BOOLEAN, NEW m, m = Model(version, vocab)
  PROVE  \/ LoadTable[version][vocab][cut][torn] = Refused
         \/ LoadTable[version][vocab][cut][torn] = m
         \/ /\ LoadTable[version][vocab][cut][torn] = Nameless(m)
            /\ cut = Items - 2 /\ ~torn
<1>1. LoadTable[version][vocab][cut][torn]
        = Load(Cut(IF version = 1 THEN SaveV1(m) ELSE Save(m), cut, torn))
  BY DEF LoadTable
<1>2. IsModel(m) /\ Len(Params(m)) = 20 /\ m.arch = "gpt2" /\ (version = 1 => m.fp = NoFingerprint)
  BY ModelOK
<1>3. cut \in Nat
  BY LineageAssumption DEF Items
<1>4. CASE version = 1
  <2>1. Load(Cut(SaveV1(m), cut, torn)) \in {Refused, m}
    BY <1>2, <1>3, <1>4, CutV1IsSafe
  <2>. QED  BY <1>1, <1>4, <2>1
<1>5. CASE version = 2
  <2>1. \/ Load(Cut(Save(m), cut, torn)) = Refused
        \/ Load(Cut(Save(m), cut, torn)) = m
        \/ Load(Cut(Save(m), cut, torn)) = Nameless(m) /\ cut = 9 + Len(Params(m)) /\ ~torn
    BY <1>2, <1>3, CutIsSafe
  <2>2. 9 + Len(Params(m)) = Items - 2
    BY <1>2 DEF Items
  <2>. QED  BY <1>1, <1>5, <2>1, <2>2
<1>. QED  BY <1>4, <1>5

\* A checkpoint load() accepts has a vocab that some command asked for.
LEMMA LoadKeepsVocab ==
  ASSUME NEW version \in {1, 2}, NEW vocab \in Vocabs, NEW cut \in Cuts \cup {Items}, NEW torn \in BOOLEAN,
         LoadTable[version][vocab][cut][torn] # Refused
  PROVE  LoadTable[version][vocab][cut][torn].dims.vocab \in Vocabs
<1> DEFINE m == Model(version, vocab)
<1>1. m.dims.vocab = vocab
  BY ModelOK
<1> HIDE DEF m
<1>2. LoadTable[version][vocab][cut][torn] \in {m, Nameless(m)}
  BY TableOK DEF m
<1>3. Nameless(m).dims = m.dims
  BY DEF Nameless
<1>. QED  BY <1>1, <1>2, <1>3

\* No checkpoint on disk, cut short or not, loads as anything but the model it was
\* written from; at most it loses its fingerprint.
THEOREM LoadsWholeOrNot == Spec => []LoadedWhole
<1>1. IInv => LoadedWhole
  <2> SUFFICES ASSUME IInv, NEW s \in Slots
               PROVE  LET c == ckpt[s[1]][s[2]]
                          m == LoadTable[c.version][c.vocab][c.cut][c.torn]
                          whole == Model(c.version, c.vocab)
                      IN  m # Refused =>
                            /\ m.dims = whole.dims /\ m.data = whole.data
                            /\ m.fp = whole.fp \/ (m.fp = NoFingerprint /\ c.cut = Items - 2 /\ ~c.torn)
    BY DEF LoadedWhole
  <2> DEFINE c == ckpt[s[1]][s[2]]
  <2>1. c \in Checkpoints
    BY DEF IInv, LineageTypeOK, Slots
  <2>2. c.version \in {1, 2} /\ c.vocab \in Vocabs /\ c.cut \in Cuts \cup {Items} /\ c.torn \in BOOLEAN
    BY <2>1 DEF Checkpoints
  <2> HIDE DEF c
  <2> DEFINE m == LoadTable[c.version][c.vocab][c.cut][c.torn]
             whole == Model(c.version, c.vocab)
  <2>3. \/ m = Refused \/ m = whole
        \/ m = Nameless(whole) /\ c.cut = Items - 2 /\ ~c.torn
    BY <2>2, TableOK
  <2> HIDE DEF m, whole
  <2>4. m # Refused =>
          /\ m.dims = whole.dims /\ m.data = whole.data
          /\ m.fp = whole.fp \/ (m.fp = NoFingerprint /\ c.cut = Items - 2 /\ ~c.torn)
    BY <2>3 DEF Nameless
  <2>. QED  BY <2>4 DEF c, m, whole
<1>. QED  BY Invariance, <1>1, PTL

-----------------------------------------------------------------------------
(* The ids a model is fed.                                                 *)

\* The vocab of the running command is one that was asked for.
VocabInv == cmd.pc # "none" => cmd.vocab \in Vocabs

\* A command's vocab is the preset's or that of a checkpoint load() accepted.
LEMMA VocabKept == ASSUME IInv, VocabInv, [Next]_vars PROVE VocabInv'
<1>0. cmd' = Idle => VocabInv'
  BY DEF Idle, VocabInv
<1>1. cmd' = cmd => VocabInv'
  BY DEF VocabInv
<1>2. ASSUME NEW op, NEW k, NEW v \in Vocabs, NEW start, Begin(op, k, v, start) PROVE VocabInv'
  BY <1>2 DEF Begin, Idle, VocabInv
<1>3. ASSUME NEW k \in Kinds, NEW n \in {"resume", "final"}, ckpt[k][n] # None, Read(ckpt[k][n]) # None
      PROVE  Read(ckpt[k][n]).vocab \in Vocabs
  <2> DEFINE c == ckpt[k][n]
  <2>1. c \in Checkpoints /\ Read(c) # None
    BY <1>3 DEF IInv, LineageTypeOK
  <2> HIDE DEF c
  <2> DEFINE m == LoadTable[c.version][c.vocab][c.cut][c.torn]
  <2>2. m # Refused /\ Read(c).vocab = m.dims.vocab
    BY <2>1 DEF Read
  <2>3. c.version \in {1, 2} /\ c.vocab \in Vocabs /\ c.cut \in Cuts \cup {Items} /\ c.torn \in BOOLEAN
    BY <2>1 DEF Checkpoints
  <2>4. Read(c).vocab \in Vocabs
    BY <2>2, <2>3, LoadKeepsVocab
  <2>. QED  BY <2>4 DEF c
<1>4. CASE Prepare \/ TrainFresh \/ TrainResume \/ TrainWarm
  <2>1. Preset \in Vocabs
    BY LineageAssumption
  <2>2. \E op, k, start : \E v \in Vocabs : Begin(op, k, v, start)
    BY <1>4, <2>1 DEF Prepare, TrainFresh, TrainResume, TrainWarm
  <2>. QED  BY <1>2, <2>2
<1>5. CASE Infer
  <2>1. PICK s \in Slots, flag \in Kinds \cup {None}, op \in {"generate", "eval"} :
          /\ Read(ckpt[s[1]][s[2]]) # None
          /\ \E k \in Choose(Read(ckpt[s[1]][s[2]]).vocab, flag, Read(ckpt[s[1]][s[2]])) :
               Begin(op, k, Read(ckpt[s[1]][s[2]]).vocab, Read(ckpt[s[1]][s[2]]))
    BY <1>5 DEF Infer
  <2>2. Read(ckpt[s[1]][s[2]]).vocab \in Vocabs
    BY <1>3, <2>1 DEF Slots
  <2>. QED  BY <1>2, <2>1, <2>2
<1>6. cmd.pc # "none" /\ cmd'.vocab = cmd.vocab => VocabInv'
  BY DEF VocabInv
<1>7. CASE FindTokenizer \/ SaveTokenizer
  BY <1>0, <1>6, <1>7 DEF FindTokenizer, SaveTokenizer, Ends, IInv, CmdInv
<1>8. CASE PrepareWrites \/ Leave
  BY <1>0, <1>6, <1>8 DEF PrepareWrites, Leave, Ends, IInv, CmdInv
<1>9. CASE TrainData
  <2>1. cmd.pc # "none" /\ \/ \E tr, va : cmd' = [cmd EXCEPT !.pc = "run", !.tr = tr, !.va = va]
                           \/ cmd' = Idle
    <3> DEFINE b == bin[cmd.kind][cmd.vocab]
               on == Prepared(cmd.kind, cmd.vocab)
               part == IF on THEN b["train"] ELSE TrainPart(cmd.text)
               held == IF on THEN b["val"] ELSE ValPart(cmd.text)
    <3>1. cmd' = [cmd EXCEPT !.pc = "run", !.tr = part, !.va = held] \/ cmd' = Idle
      BY <1>9 DEF TrainData, Ends
    <3>2. cmd.pc # "none"
      BY <1>9 DEF TrainData
    <3> HIDE DEF b, on, part, held
    <3>. QED  BY <3>1, <3>2
  <2>2. CASE cmd' = Idle
    BY <1>0, <2>2
  <2>3. CASE \E tr, va : cmd' = [cmd EXCEPT !.pc = "run", !.tr = tr, !.va = va]
    <3>1. cmd'.vocab = cmd.vocab
      BY <2>1, <2>3 DEF IInv, CmdInv
    <3>. QED  BY <1>6, <2>1, <3>1
  <2>. QED  BY <2>1, <2>2, <2>3
<1>10. CASE GenerateData \/ EvalData
  <2>1. cmd.pc # "none" /\ \/ \E va : cmd' = [cmd EXCEPT !.pc = "use", !.va = va]
                           \/ \E tr, va : cmd' = [cmd EXCEPT !.pc = "use", !.tr = tr, !.va = va]
                           \/ cmd' = [cmd EXCEPT !.pc = "use"]
                           \/ cmd' = Idle
    BY <1>10 DEF GenerateData, EvalData, Ends
  <2>. QED  BY <1>0, <1>6, <2>1 DEF IInv, CmdInv
<1>11. CASE SaveResume \/ FinishRun
  BY <1>0, <1>1, <1>11 DEF SaveResume, FinishRun, Ends
<1>12. CASE EditCorpus \/ RemoveTokenizer \/ Crash \/ PowerFailure
  BY <1>0, <1>1, <1>12 DEF EditCorpus, RemoveTokenizer, Crash, PowerFailure, Ends
<1>13. CASE UNCHANGED vars
  BY <1>1, <1>13 DEF vars
<1>. QED  BY <1>4, <1>5, <1>7, <1>8, <1>9, <1>10, <1>11, <1>12, <1>13 DEF Next, Command

\* No command works with a vocab nobody asked for.
LEMMA VocabAsked == Spec => []VocabInv
<1>1. Init => VocabInv
  BY DEF Init, Idle, VocabInv
<1>2. IInv /\ VocabInv /\ [Next]_vars => VocabInv'
  BY VocabKept
<1>. QED  BY Invariance, <1>1, <1>2, PTL DEF Spec

\* Every command feeds a model the ids of the tokenizer the model was trained with, and
\* of the tokenizer it decodes with.
THEOREM FedRight == Spec => []FedItsOwnTokens
<1>1. IInv /\ VocabInv => FedItsOwnTokens
  <2> SUFFICES ASSUME IInv, VocabInv, cmd.pc \in {"run", "use"}, ~orphaned, NEW d \in {cmd.tr, cmd.va} \ {None}
               PROVE  /\ cmd.tok # None => d.of.tok = cmd.tok
                      /\ cmd.start # None /\ cmd.start.sure => cmd.start.speaks = {d.of.tok}
    BY DEF FedItsOwnTokens
  <2>1. /\ cmd.vocab \in Vocabs /\ d.of.tok = tok[cmd.kind][cmd.vocab] /\ d.of.tok \in Identities
        /\ cmd.tok = tok[cmd.kind][cmd.vocab]
    BY DEF IInv, VocabInv, DataInv, CmdInv, Loaded
  <2>2. cmd.tok # None
    BY <2>1, NullAssumption
  <2>3. Matches(cmd.start, cmd.tok)
    BY <2>2 DEF IInv, DataInv, CmdInv, Loaded
  <2>4. StartOK(cmd.start)
    BY DEF IInv, CmdInv
  <2>. QED  BY <2>1, <2>3, <2>4 DEF Matches, StartOK, Speaks
<1>. QED  BY Invariance, VocabAsked, <1>1, PTL

-----------------------------------------------------------------------------
(* What a command reads of the token files it opened.                      *)

\* A token file that was opened for windows of seq tokens.
Usable(f, seq) == f \in TokenFiles /\ Opens(f, seq)

\* The parts a command holds were opened for the windows it reads of them.
OpensInv ==
  /\ cmd.pc \in {"train", "split", "val"} => cmd.tr = None /\ cmd.va = None
  /\ cmd.pc = "run" \/ (cmd.pc = "use" /\ cmd.op = "eval") =>
       Usable(cmd.tr, SeqLen) /\ Usable(cmd.va, SeqLen)
  /\ cmd.pc = "use" /\ cmd.op = "generate" =>
       cmd.tr = None /\ (cmd.va = None \/ Usable(cmd.va, PromptLen))

\* A command that holds no token files yet may go on.
LEMMA NothingOpened ==
  ASSUME cmd'.pc \notin {"run", "use"}, cmd'.tr = None, cmd'.va = None
  PROVE  OpensInv'
BY DEF OpensInv

\* A train takes up what MappedTokenDataset and TextDataset open.
LEMMA TrainOpens == ASSUME IInv, TrainData PROVE OpensInv'
<1> DEFINE b  == bin[cmd.kind][cmd.vocab]
           on == Prepared(cmd.kind, cmd.vocab)
           tr == IF on THEN b["train"] ELSE TrainPart(cmd.text)
           va == IF on THEN b["val"] ELSE ValPart(cmd.text)
<1>1. /\ cmd.op = "train" /\ cmd.kind \in Kinds /\ cmd.vocab \in Vocabs /\ cmd.text \in Texts
      /\ cmd.tok \in Identities
  BY DEF TrainData, IInv, CmdInv, Loaded
<1>2. \/ Opens(tr, SeqLen) /\ Opens(va, SeqLen) /\ cmd' = [cmd EXCEPT !.pc = "run", !.tr = tr, !.va = va]
      \/ cmd' = Idle
  BY DEF TrainData, Ends
<1>3. tr \in TokenFiles /\ va \in TokenFiles
  <2>1. CASE on
    <3>1. b["train"] # None /\ b["val"] # None /\ "train" \in Parts /\ "val" \in Parts
      BY <2>1 DEF Prepared, Parts
    <3>2. IsPart("train", b["train"]) /\ IsPart("val", b["val"])
      BY <1>1, <3>1, OnDisk
    <3>. QED  BY <2>1, <3>2 DEF IsPart
  <2>2. CASE ~on
    <3>1. IsPart("train", TrainPart(cmd.text)) /\ IsPart("val", ValPart(cmd.text))
      BY <1>1, PartsOK
    <3>. QED  BY <2>2, <3>1 DEF IsPart
  <2>. QED  BY <2>1, <2>2
<1> HIDE DEF tr, va
<1>4. CASE cmd' = Idle
  BY <1>4, NothingOpened DEF Idle
<1>5. CASE Opens(tr, SeqLen) /\ Opens(va, SeqLen) /\ cmd' = [cmd EXCEPT !.pc = "run", !.tr = tr, !.va = va]
  <2>1. cmd'.pc = "run" /\ cmd'.tr = tr /\ cmd'.va = va
    BY <1>5 DEF IInv, CmdInv
  <2>2. Usable(tr, SeqLen) /\ Usable(va, SeqLen)
    BY <1>3, <1>5 DEF Usable
  <2> HIDE DEF Usable
  <2>. QED  BY <2>1, <2>2 DEF OpensInv, Usable
<1>. QED  BY <1>2, <1>4, <1>5

\* generate opens the val part for its prompts, or does without.
LEMMA GenerateOpens == ASSUME IInv, VocabInv, GenerateData PROVE OpensInv'
<1> DEFINE file == bin[cmd.kind][cmd.vocab]["val"]
           va == IF file # None THEN file ELSE ValPart(corpus)
<1>1. /\ cmd.op = "generate" /\ cmd.kind \in Kinds /\ cmd.vocab \in Vocabs /\ corpus \in Texts
      /\ cmd.tok \in Identities /\ cmd.tr = None /\ cmd.va = None
  BY DEF GenerateData, IInv, LineageTypeOK, VocabInv, CmdInv, Loaded
<1>2. \/ Opens(va, PromptLen) /\ cmd' = [cmd EXCEPT !.pc = "use", !.va = va]
      \/ cmd' = Idle
      \/ cmd' = [cmd EXCEPT !.pc = "use"]
  BY DEF GenerateData, Ends
<1>3. va \in TokenFiles
  <2>1. CASE file # None
    BY <1>1, <2>1, OnDisk DEF Parts, IsPart
  <2>2. CASE file = None
    BY <1>1, <2>2, PartsOK DEF IsPart
  <2>. QED  BY <2>1, <2>2
<1> HIDE DEF va
<1>4. CASE cmd' = Idle
  BY <1>4, NothingOpened DEF Idle
<1>5. CASE Opens(va, PromptLen) /\ cmd' = [cmd EXCEPT !.pc = "use", !.va = va]
  <2>1. cmd'.pc = "use" /\ cmd'.op = "generate" /\ cmd'.tr = None /\ cmd'.va = va
    BY <1>1, <1>5 DEF IInv, CmdInv
  <2>2. Usable(va, PromptLen)
    BY <1>3, <1>5 DEF Usable
  <2>. QED  BY <2>1, <2>2 DEF OpensInv, Usable
<1>6. CASE cmd' = [cmd EXCEPT !.pc = "use"]
  <2>1. cmd'.pc = "use" /\ cmd'.op = "generate" /\ cmd'.tr = None /\ cmd'.va = None
    BY <1>1, <1>6 DEF IInv, CmdInv
  <2>. QED  BY <2>1 DEF OpensInv
<1>. QED  BY <1>2, <1>4, <1>5, <1>6

\* eval opens both parts for the windows it scores.
LEMMA EvalOpens == ASSUME IInv, VocabInv, EvalData PROVE OpensInv'
<1> DEFINE b == bin[cmd.kind][cmd.vocab]
<1>1. cmd.op = "eval" /\ cmd.kind \in Kinds /\ cmd.vocab \in Vocabs
  BY DEF EvalData, IInv, VocabInv, CmdInv
<1>2. \/ /\ Prepared(cmd.kind, cmd.vocab) /\ Opens(b["val"], SeqLen) /\ Opens(b["train"], SeqLen)
         /\ cmd' = [cmd EXCEPT !.pc = "use", !.tr = b["train"], !.va = b["val"]]
      \/ cmd' = Idle
  BY DEF EvalData, Ends
<1>3. CASE cmd' = Idle
  BY <1>3, NothingOpened DEF Idle
<1>4. CASE /\ Prepared(cmd.kind, cmd.vocab) /\ Opens(b["val"], SeqLen) /\ Opens(b["train"], SeqLen)
           /\ cmd' = [cmd EXCEPT !.pc = "use", !.tr = b["train"], !.va = b["val"]]
  <2>1. b["train"] # None /\ b["val"] # None /\ "train" \in Parts /\ "val" \in Parts
    BY <1>4 DEF Prepared, Parts
  <2>2. IsPart("train", b["train"]) /\ IsPart("val", b["val"])
    BY <1>1, <2>1, OnDisk
  <2>3. Usable(b["train"], SeqLen) /\ Usable(b["val"], SeqLen)
    BY <1>4, <2>2 DEF Usable, IsPart
  <2> HIDE DEF b
  <2>4. cmd'.pc = "use" /\ cmd'.op = "eval" /\ cmd'.tr = b["train"] /\ cmd'.va = b["val"]
    BY <1>1, <1>4 DEF IInv, CmdInv
  <2>. QED  BY <2>3, <2>4 DEF OpensInv, Usable
<1>. QED  BY <1>2, <1>3, <1>4

\* Nothing else takes up a token file, or changes what was taken up.
LEMMA OpensKept == ASSUME IInv, VocabInv, OpensInv, [Next]_vars PROVE OpensInv'
<1>0. cmd' = Idle => OpensInv'
  BY NothingOpened DEF Idle
<1>1. cmd' = cmd => OpensInv'
  BY DEF OpensInv, Usable
<1>2. ASSUME NEW op, NEW k, NEW v, NEW start, Begin(op, k, v, start) PROVE OpensInv'
  BY <1>2, NothingOpened DEF Begin, Idle
<1>3. CASE Prepare \/ TrainFresh \/ TrainResume \/ TrainWarm \/ Infer
  <2>1. \E op, k, v, start : Begin(op, k, v, start)
    BY <1>3 DEF Prepare, TrainFresh, TrainResume, TrainWarm, Infer
  <2>. QED  BY <1>2, <2>1
<1>4. CASE FindTokenizer \/ SaveTokenizer
  <2>1. /\ cmd.tr = None /\ cmd.va = None
        /\ \/ \E t : cmd' = [cmd EXCEPT !.tok = t, !.pc = "data"]
           \/ cmd' = [cmd EXCEPT !.pc = "data"]
           \/ cmd' = [cmd EXCEPT !.pc = "saveTok"]
           \/ cmd' = Idle
    BY <1>4 DEF FindTokenizer, SaveTokenizer, Ends, IInv, CmdInv
  <2>2. cmd' # Idle => cmd'.pc \notin {"run", "use"} /\ cmd'.tr = None /\ cmd'.va = None
    BY <2>1 DEF IInv, CmdInv
  <2>. QED  BY <1>0, <2>2, NothingOpened
<1>5. CASE PrepareWrites
  <2>1. /\ cmd.pc \in {"data", "train", "split", "val"}
        /\ \/ cmd' = [cmd EXCEPT !.pc = "train"]
           \/ cmd' = [cmd EXCEPT !.pc = "split"]
           \/ cmd' = [cmd EXCEPT !.pc = "val"]
           \/ cmd' = Idle
    BY <1>5 DEF PrepareWrites, Ends
  <2>2. cmd.tr = None /\ cmd.va = None
    BY <2>1 DEF IInv, CmdInv, OpensInv
  <2>3. cmd' # Idle => cmd'.pc \notin {"run", "use"} /\ cmd'.tr = None /\ cmd'.va = None
    BY <2>1, <2>2 DEF IInv, CmdInv
  <2>. QED  BY <1>0, <2>3, NothingOpened
<1>6. CASE TrainData \/ GenerateData \/ EvalData
  BY <1>6, TrainOpens, GenerateOpens, EvalOpens
<1>7. CASE SaveResume \/ FinishRun \/ Leave
  BY <1>0, <1>1, <1>7 DEF SaveResume, FinishRun, Leave, Ends
<1>8. CASE EditCorpus \/ RemoveTokenizer \/ Crash \/ PowerFailure
  BY <1>0, <1>1, <1>8 DEF EditCorpus, RemoveTokenizer, Crash, PowerFailure, Ends
<1>9. CASE UNCHANGED vars
  BY <1>1, <1>9 DEF vars
<1>. QED  BY <1>3, <1>4, <1>5, <1>6, <1>7, <1>8, <1>9 DEF Next, Command

\* A command only ever works with token files that passed the checks.
LEMMA AllOpened == Spec => []OpensInv
<1>1. Init => OpensInv
  BY DEF Init, Idle, OpensInv
<1>2. IInv /\ VocabInv /\ OpensInv /\ [Next]_vars => OpensInv'
  BY OpensKept
<1>. QED  BY Invariance, VocabAsked, <1>1, <1>2, PTL DEF Spec

\* Every window of an opened file lies inside the tokens it holds, and so does
\* every held-out prompt.
LEMMA UsableReads ==
  ASSUME NEW seq \in Nat \ {0}, NEW stride \in Nat \ {0}, NEW f, Usable(f, seq)
  PROVE  LET n == Windows(f.count, seq, stride)
         IN  /\ n \in Nat \ {0}
             /\ \A i \in 0..(n - 1) : Window(i, seq, stride) \subseteq 0..(f.held - 1)
             /\ \A count \in Nat \ {0} : \A k \in 0..(count - 1) : PromptWindow(k, n, count) < n
<1> DEFINE c == f.count
           h == f.held
           n == Windows(c, seq, stride)
<1>1. c \in Int /\ h \in Int /\ c <= h /\ LongEnough(c, seq)
  <2>1. f \in TokenFiles /\ Opens(f, seq)
    BY DEF Usable
  <2>2. f.count \in Int /\ f.held \in Int
    BY <2>1 DEF TokenFiles
  <2>3. f.count <= f.held /\ LongEnough(f.count, seq)
    BY <2>1 DEF Opens
  <2>. QED  BY <2>2, <2>3
<1> HIDE DEF c, h
<1>2. c \in Nat /\ c - seq - 1 \in Nat
  BY <1>1 DEF LongEnough
<1>3. n \in Nat \ {0}
  <2>1. (c - seq - 1) \div stride \in Nat
    BY <1>2, Division
  <2>. QED  BY <2>1 DEF Windows
<1>4. ASSUME NEW i \in 0..(n - 1) PROVE Window(i, seq, stride) \subseteq 0..(h - 1)
  <2>1. Window(i, seq, stride) \subseteq 0..(c - 1)
    BY <1>1, <1>2, WindowsAreInside
  <2>. QED  BY <1>1, <1>2, <2>1
<1>5. ASSUME NEW count \in Nat \ {0}, NEW k \in 0..(count - 1) PROVE PromptWindow(k, n, count) < n
  <2> HIDE DEF n
  <2>1. PromptWindow(k, n, count) \in 0..(n - 1)
    BY <1>3, PromptInside
  <2>. QED  BY <1>3, <2>1
<1>. QED  BY <1>3, <1>4, <1>5 DEF c, h

\* Training, eval and prompts read only tokens that are in the file, whatever an
\* interrupted prepare or a power failure left of it.
THEOREM ReadsOnlyTokens == Spec => []ReadsInside
<1>1. IInv /\ OpensInv => ReadsInside
  <2> SUFFICES ASSUME IInv, OpensInv, NEW d \in {cmd.tr, cmd.va} \ {None}
               PROVE  LET seq == IF cmd.op = "generate" THEN PromptLen ELSE SeqLen
                          stride == IF cmd.op = "train" /\ d = cmd.tr THEN 1 ELSE seq
                          n == Windows(d.count, seq, stride)
                      IN  /\ n >= 1 /\ \A i \in 0..(n - 1) : Window(i, seq, stride) \subseteq 0..(d.held - 1)
                          /\ \A count \in 1..3 : \A k \in 0..(count - 1) : PromptWindow(k, n, count) < n
    BY DEF ReadsInside
  <2> DEFINE seq == IF cmd.op = "generate" THEN PromptLen ELSE SeqLen
             stride == IF cmd.op = "train" /\ d = cmd.tr THEN 1 ELSE seq
             n == Windows(d.count, seq, stride)
  <2>1. seq \in Nat \ {0} /\ stride \in Nat \ {0}
    BY LineageAssumption
  <2>2. Usable(d, seq)
    <3>1. cmd.pc \in {"run", "use"}
      BY DEF IInv, CmdInv, Loaded, OpensInv
    <3>2. cmd.op \in {"train", "generate", "eval"} /\ (cmd.pc = "run" => cmd.op = "train")
          /\ (cmd.pc = "use" => cmd.op \in {"generate", "eval"})
      BY <3>1 DEF IInv, DataInv
    <3>. QED  BY <3>1, <3>2 DEF OpensInv, Usable
  <2> HIDE DEF seq, stride
  <2>3. /\ n \in Nat \ {0}
        /\ \A i \in 0..(n - 1) : Window(i, seq, stride) \subseteq 0..(d.held - 1)
        /\ \A count \in Nat \ {0} : \A k \in 0..(count - 1) : PromptWindow(k, n, count) < n
    BY <2>1, <2>2, UsableReads
  <2> HIDE DEF n
  <2>4. n >= 1 /\ \A count \in 1..3 : count \in Nat \ {0}
    BY <2>3
  <2>5. \A count \in 1..3 : \A k \in 0..(count - 1) : PromptWindow(k, n, count) < n
    BY <2>3, <2>4
  <2>. QED  BY <2>3, <2>4, <2>5 DEF n, seq, stride
<1>. QED  BY Invariance, AllOpened, <1>1, PTL

\* An evaluation, however few windows it asks for, scores that many different ones,
\* and without a limit every one.
THEOREM EvaluationSpreads == Spec => []EvalSpreads
<1>1. OpensInv => EvalSpreads
  <2> SUFFICES ASSUME OpensInv, cmd.pc = "run"
               PROVE  LET n == Windows(cmd.va.count, SeqLen, SeqLen) IN
                      /\ \A count \in 1..n :
                           /\ \A i \in 0..(count - 1) : Spread(i, n, count) < n
                           /\ \A i, j \in 0..(count - 1) : i < j => Spread(i, n, count) < Spread(j, n, count)
                      /\ \A size \in 1..(n + 1) :
                           UNION {Batch(b * size, n, size) : b \in 0..((n - 1) \div size)} = 0..(n - 1)
    BY DEF EvalSpreads
  <2> DEFINE n == Windows(cmd.va.count, SeqLen, SeqLen)
  <2>1. n \in Nat \ {0}
    BY UsableReads, LineageAssumption DEF OpensInv
  <2> HIDE DEF n
  <2>2. ASSUME NEW count \in 1..n, NEW i \in 0..(count - 1) PROVE Spread(i, n, count) < n
    <3>1. Spread(i, n, count) \in 0..(n - 1)
      BY <2>1, SpreadInRange
    <3>. QED  BY <2>1, <3>1
  <2>3. ASSUME NEW count \in 1..n, NEW i \in 0..(count - 1), NEW j \in 0..(count - 1), i < j
        PROVE  Spread(i, n, count) < Spread(j, n, count)
    BY <2>1, <2>3, SpreadIsInOrder
  <2>4. ASSUME NEW size \in 1..(n + 1)
        PROVE  UNION {Batch(b * size, n, size) : b \in 0..((n - 1) \div size)} = 0..(n - 1)
    <3>1. size \in Nat \ {0}
      BY <2>1
    <3>. QED  BY <2>1, <3>1, BatchesCover
  <2>. QED  BY <2>2, <2>3, <2>4 DEF n
<1>. QED  BY AllOpened, <1>1, PTL
=============================================================================
