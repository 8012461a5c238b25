--------------------------- MODULE AutogradProofs ---------------------------
(***************************************************************************)
(* Proofs about Autograd within a training run (Training), for every       *)
(* program, model size and number of steps, and every graph the free ops   *)
(* build: the search puts every node after its operands, no closure reads  *)
(* what an earlier step of the wave freed, nothing that should be freed is *)
(* left behind, and a frozen variable never gets a gradient. Nothing is    *)
(* assumed of a program but that its ops are issued in order.              *)
(***************************************************************************)
EXTENDS Training, SequenceTheorems, WellFoundedInduction, TLAPS

-----------------------------------------------------------------------------
(* Sequences and induction.                                                *)

\* A function on 1..n is a sequence of length n, over its own values.
LEMMA FunIsSeq ==
  ASSUME NEW n \in Nat, NEW f, f = [i \in 1..n |-> f[i]]
  PROVE  f \in Seq({f[i] : i \in DOMAIN f}) /\ Len(f) = n /\ DOMAIN f = 1..n
<1> DEFINE S == {f[i] : i \in DOMAIN f}
<1>1. DOMAIN f = 1..n
  OBVIOUS
<1>2. \A i \in 1..n : f[i] \in S
  BY <1>1
<1> HIDE DEF S
<1>3. f \in [1..n -> S]
  BY <1>2
<1>4. f \in Seq(S) /\ Len(f) = n
  BY <1>3
<1>. QED  BY <1>1, <1>4 DEF S

\* A sequence is one over its own values.
LEMMA OwnValues ==
  ASSUME NEW S, NEW f \in Seq(S)
  PROVE  f \in Seq({f[i] : i \in DOMAIN f}) /\ Len(f) \in Nat /\ DOMAIN f = 1..Len(f) /\ f = [i \in 1..Len(f) |-> f[i]]
<1>1. Len(f) \in Nat /\ f \in [1..Len(f) -> S] /\ DOMAIN f = 1..Len(f)
  BY LenProperties
<1>2. f = [i \in 1..Len(f) |-> f[i]]
  BY <1>1
<1>. QED  BY <1>1, <1>2, FunIsSeq

\* < on the naturals is well-founded.
LEMMA LessIsWellFounded == IsWellFoundedOn({ss \in Nat \X Nat : ss[1] < ss[2]}, Nat)
BY NatLessThanWellFounded DEF OpToRel

\* A set that holds 0 and each successor holds every natural.
LEMMA Induction == ASSUME NEW S, 0 \in S, \A n \in Nat : n \in S => n + 1 \in S PROVE Nat \subseteq S
<1> SUFFICES ASSUME Nat \ S # {} PROVE FALSE
  OBVIOUS
<1>1. PICK x \in Nat \ S : \A y \in Nat \ S : ~ (<<y, x>> \in {ss \in Nat \X Nat : ss[1] < ss[2]})
  BY LessIsWellFounded, WFMin
<1>2. \A y \in Nat \ S : <<y, x>> \in Nat \X Nat /\ <<y, x>>[1] = y /\ <<y, x>>[2] = x
  OBVIOUS
<1>3. \A y \in Nat \ S : ~ (y < x)
  BY <1>1, <1>2
<1>4. x # 0 /\ x - 1 \in Nat /\ x - 1 \in S
  BY <1>3
<1>. QED  BY <1>1, <1>4

-----------------------------------------------------------------------------
(* What an op returns.                                                     *)

\* A tensor with a shape is not the empty one.
LEMMA TensorFull == ASSUME NEW s, NEW d PROVE Tensor(s, d) # Empty
BY DEF Tensor, Empty

LEMMA ProductsFull == ASSUME NEW t, NEW u PROVE Matmul(t, u) # Empty /\ MatmulMetal(t, u) # Empty
BY TensorFull DEF Matmul, MatmulMetal

LEMMA AddFull == ASSUME NEW t, NEW u PROVE Add(t, u) # Empty
BY TensorFull DEF Add

LEMMA AddMetalFull == ASSUME NEW t, NEW u PROVE AddMetal(t, u) # Empty
BY AddFull, TensorFull DEF AddMetal

LEMMA ElementwiseFull == ASSUME NEW t, NEW u PROVE Elementwise(t, u) # Empty
BY TensorFull DEF Elementwise, Pairwise

LEMMA EachFull == ASSUME NEW t, NEW k PROVE Scale(t, k) # Empty /\ Each(t, Gelu) # Empty /\ Each(t, Silu) # Empty
BY TensorFull DEF Scale, Each

LEMMA LayersFull ==
  ASSUME NEW d, NEW t, NEW u, NEW v, NEW r, NEW s, NEW o
  PROVE  Embedding(t, u) # Empty /\ Position(d, t, u) # Empty /\ Norm(t, u, v, r, s) # Empty /\ Attention(o, t, s) # Empty
<1>1. Embedding(t, u) # Empty
  BY TensorFull DEF Embedding
<1>2. Position(d, t, u) # Empty
  BY TensorFull, AddFull DEF Position
<1>3. Norm(t, u, v, r, s) # Empty
  BY TensorFull DEF Norm
<1>4. Attention(o, t, s) # Empty
  BY TensorFull DEF Attention
<1>. QED  BY <1>1, <1>2, <1>3, <1>4

\* Every op returns a tensor that has storage, and so does a result without gradient.
LEMMA OutputFull ==
  ASSUME NEW d, NEW o, NEW in, NEW s, o.op \in OpNames
  PROVE  Output(d, o, in, s) # Empty
BY TensorFull, ProductsFull, AddFull, AddMetalFull, ElementwiseFull, EachFull, LayersFull
   DEF Output, OpNames

LEMMA DetachedFull == ASSUME NEW t PROVE Detached(t) # Empty
BY TensorFull DEF Detached

-----------------------------------------------------------------------------
(* The depth-first search.                                                 *)

\* A node has these fields and no others.
IsNode(v) == v = Node(v.o, v.children, v.data, v.grad, v.requires_grad, v.backward_fn, v.saved)

\* The nodes of a graph, in the order they were appended: operands come first.
GraphOK(g) ==
  /\ g \in Seq({g[n] : n \in DOMAIN g})
  /\ \A n \in 1..Len(g) : /\ IsNode(g[n]) /\ g[n].children \in Seq(1..(n - 1))
                          /\ g[n].requires_grad \in BOOLEAN /\ g[n].backward_fn \in BOOLEAN

\* No node twice, and none before its operands.
Topological(g, s) ==
  /\ s \in Seq(1..Len(g))
  /\ \A i, j \in 1..Len(s) : s[i] = s[j] => i = j
  /\ \A i \in 1..Len(s) : \A c \in 1..Len(g[s[i]].children) :
       \E j \in 1..(i - 1) : s[j] = g[s[i]].children[c]

LEMMA GraphIsSeq ==
  ASSUME NEW g, GraphOK(g)
  PROVE  Len(g) \in Nat /\ DOMAIN g = 1..Len(g) /\ g = [n \in 1..Len(g) |-> g[n]]
BY OwnValues DEF GraphOK

\* The recursion of InTurn has a solution.
LEMMA InTurnSolves ==
  ASSUME NEW f, Len(f) \in Nat, NEW found
  PROVE  \E a : a = [i \in 0..Len(f) |-> IF i = 0 THEN found ELSE f[i][a[i - 1]]] /\ InTurn(f, found) = a[Len(f)]
<1> DEFINE Solves(a, k) == a = [i \in 0..k |-> IF i = 0 THEN found ELSE f[i][a[i - 1]]]
           K == {k \in Nat : \E a : Solves(a, k)}
<1>1. 0 \in K
  <2> DEFINE a == [i \in 0..0 |-> found]
  <2>1. Solves(a, 0)
    OBVIOUS
  <2>. QED  BY <2>1
<1>2. ASSUME NEW k \in Nat, k \in K PROVE k + 1 \in K
  <2>1. PICK a : Solves(a, k)
    BY <1>2
  <2> DEFINE b == [i \in 0..(k + 1) |-> IF i = k + 1 THEN f[k + 1][a[k]] ELSE a[i]]
  <2>2. ASSUME NEW i \in 0..(k + 1) PROVE b[i] = IF i = 0 THEN found ELSE f[i][b[i - 1]]
    <3>1. CASE i = k + 1
      <4>1. i # 0 /\ i - 1 = k /\ k \in 0..(k + 1) /\ k # k + 1
        BY <3>1
      <4>. QED  BY <3>1, <4>1
    <3>2. CASE i # k + 1 /\ i # 0
      <4>1. i \in 0..k /\ i - 1 \in 0..(k + 1) /\ i - 1 # k + 1
        BY <3>2
      <4>. QED  BY <2>1, <3>2, <4>1
    <3>3. CASE i # k + 1 /\ i = 0
      <4>1. i \in 0..k
        BY <3>3
      <4>. QED  BY <2>1, <3>3, <4>1
    <3>. QED  BY <3>1, <3>2, <3>3
  <2>3. Solves(b, k + 1)
    BY <2>2
  <2> HIDE DEF b, Solves
  <2>. QED  BY <2>3
<1>3. Len(f) \in K
  <2> HIDE DEF K
  <2>. QED  BY <1>1, <1>2, Induction
<1> DEFINE after == CHOOSE a : a = [i \in 0..Len(f) |-> IF i = 0 THEN found ELSE f[i][a[i - 1]]]
<1>4. after = [i \in 0..Len(f) |-> IF i = 0 THEN found ELSE f[i][after[i - 1]]]
  BY <1>3, Zenon
<1>5. InTurn(f, found) = after[Len(f)]
  BY DEF InTurn
<1>. QED  BY <1>4, <1>5, Zenon

\* The visit of n, given those of its operands.
Visit(v, n) ==
  [found \in Seq(DOMAIN graph) |->
     IF Contains(found, n) THEN found
     ELSE Append(InTurn([i \in DOMAIN graph[n].children |-> v[graph[n].children[i]]], found), n)]

\* The recursion of Visits has a solution: operands come first.
LEMMA VisitsSolve ==
  ASSUME GraphOK(graph)
  PROVE  Visits = [n \in 1..Len(graph) |-> Visit(Visits, n)]
<1> DEFINE N == Len(graph)
           K == {k \in Nat : k <= N => \E v : v = [n \in 1..k |-> Visit(v, n)]}
<1>0. N \in Nat /\ DOMAIN graph = 1..N
  BY GraphIsSeq
<1>1. 0 \in K
  <2> DEFINE v == [n \in 1..0 |-> 0]
  <2>1. v = [n \in 1..0 |-> Visit(v, n)]
    OBVIOUS
  <2>. QED  BY <2>1
<1>2. ASSUME NEW k \in Nat, k \in K PROVE k + 1 \in K
  <2> SUFFICES ASSUME k + 1 <= N PROVE \E v : v = [n \in 1..(k + 1) |-> Visit(v, n)]
    BY <1>2
  <2>1. PICK v : v = [n \in 1..k |-> Visit(v, n)]
    BY <1>0, <1>2
  <2> DEFINE w == [n \in 1..(k + 1) |-> IF n = k + 1 THEN Visit(v, k + 1) ELSE v[n]]
  <2>2. ASSUME NEW n \in 1..(k + 1) PROVE Visit(w, n) = Visit(v, n)
    <3>1. n \in 1..N
      BY <1>0
    <3>2. graph[n].children \in Seq(1..(n - 1))
      BY <3>1 DEF GraphOK
    <3>3. \A i \in DOMAIN graph[n].children : graph[n].children[i] \in 1..(n - 1)
      BY <3>2, LenProperties, ElementOfSeq
    <3>4. \A m \in 1..(n - 1) : w[m] = v[m]
      BY <1>0
    <3>5. [i \in DOMAIN graph[n].children |-> w[graph[n].children[i]]]
            = [i \in DOMAIN graph[n].children |-> v[graph[n].children[i]]]
      <4> HIDE DEF w
      <4>. QED  BY <3>3, <3>4
    <3> HIDE DEF w
    <3>. QED  BY <3>5 DEF Visit
  <2>3. ASSUME NEW n \in 1..(k + 1) PROVE w[n] = Visit(w, n)
    <3>1. CASE n = k + 1
      BY <2>2, <3>1
    <3>2. CASE n # k + 1
      <4>1. n \in 1..k
        BY <3>2
      <4>2. w[n] = v[n] /\ v[n] = Visit(v, n)
        BY <2>1, <3>2, <4>1
      <4>. QED  BY <2>2, <4>2
    <3>. QED  BY <3>1, <3>2
  <2>4. w = [n \in 1..(k + 1) |-> Visit(w, n)]
    BY <2>3
  <2> HIDE DEF w
  <2>. QED  BY <2>4
<1>3. \E v : v = [n \in 1..N |-> Visit(v, n)]
  <2>1. N \in K
    <3> HIDE DEF K, N
    <3>. QED  BY <1>0, <1>1, <1>2, Induction
  <2>. QED  BY <1>0, <2>1
<1> DEFINE visit == CHOOSE v : v = [n \in DOMAIN graph |-> Visit(v, n)]
<1>4. visit = [n \in DOMAIN graph |-> Visit(visit, n)]
  BY <1>0, <1>3, Zenon
<1>5. Visits = visit
  BY DEF Visits, Visit
<1> HIDE DEF visit
<1>. QED  BY <1>0, <1>4, <1>5

LEMMA AppendKeeps ==
  ASSUME NEW S, NEW s \in Seq(S), NEW e \in S
  PROVE  /\ Append(s, e) \in Seq(S) /\ Len(Append(s, e)) = Len(s) + 1 /\ Len(s) \in Nat
         /\ Append(s, e)[Len(s) + 1] = e /\ \A i \in 1..Len(s) : Append(s, e)[i] = s[i]
OBVIOUS

\* A node whose operands have been found may be next.
LEMMA AppendTopological ==
  ASSUME GraphOK(graph), NEW n \in 1..Len(graph), NEW s, Topological(graph, s), ~Contains(s, n),
         \A c \in 1..Len(graph[n].children) : Contains(s, graph[n].children[c])
  PROVE  /\ Topological(graph, Append(s, n))
         /\ \A m : Contains(Append(s, n), m) <=> Contains(s, m) \/ m = n
<1> DEFINE t == Append(s, n)
           L == Len(s)
<1>1. /\ s \in Seq(1..Len(graph)) /\ t \in Seq(1..Len(graph)) /\ Len(t) = L + 1 /\ L \in Nat
      /\ t[L + 1] = n /\ \A i \in 1..L : t[i] = s[i]
  BY AppendKeeps DEF Topological
<1> HIDE DEF t
<1>2. \A i \in 1..L : s[i] # n
  BY DEF Contains
<1>3. ASSUME NEW i \in 1..Len(t), NEW j \in 1..Len(t), t[i] = t[j] PROVE i = j
  <2>1. CASE i \in 1..L /\ j \in 1..L
    BY <1>1, <1>3, <2>1 DEF Topological
  <2>2. CASE i \in 1..L /\ j = L + 1
    <3>1. t[i] = s[i] /\ t[j] = n
      BY <1>1, <2>2
    <3>. QED  BY <1>2, <1>3, <2>2, <3>1
  <2>3. CASE i = L + 1 /\ j \in 1..L
    <3>1. t[i] = n /\ t[j] = s[j]
      BY <1>1, <2>3
    <3>. QED  BY <1>2, <1>3, <2>3, <3>1
  <2>4. (i \in 1..L \/ i = L + 1) /\ (j \in 1..L \/ j = L + 1)
    BY <1>1
  <2>. QED  BY <2>1, <2>2, <2>3, <2>4
<1>4. ASSUME NEW i \in 1..Len(t), NEW c \in 1..Len(graph[t[i]].children)
      PROVE  \E j \in 1..(i - 1) : t[j] = graph[t[i]].children[c]
  <2>1. CASE i \in 1..L
    <3>1. PICK j \in 1..(i - 1) : s[j] = graph[s[i]].children[c]
      BY <1>1, <1>4, <2>1 DEF Topological
    <3>2. j \in 1..L
      BY <1>1, <2>1
    <3>. QED  BY <1>1, <2>1, <3>1, <3>2
  <2>2. CASE i = L + 1
    <3>1. PICK j \in 1..L : s[j] = graph[n].children[c]
      BY <1>1, <1>4, <2>2 DEF Contains
    <3>2. j \in 1..(i - 1)
      BY <1>1, <2>2
    <3>. QED  BY <1>1, <2>2, <3>1, <3>2
  <2>. QED  BY <1>1, <2>1, <2>2
<1>5. Topological(graph, t)
  BY <1>1, <1>3, <1>4 DEF Topological
<1>6. ASSUME NEW m PROVE Contains(t, m) <=> Contains(s, m) \/ m = n
  <2>1. ASSUME NEW i \in 1..Len(t), t[i] = m PROVE Contains(s, m) \/ m = n
    <3>1. i \in 1..L \/ i = L + 1
      BY <1>1
    <3>. QED  BY <1>1, <2>1, <3>1 DEF Contains
  <2>2. ASSUME NEW i \in 1..L, s[i] = m PROVE Contains(t, m)
    <3>1. i \in 1..Len(t) /\ t[i] = m
      BY <1>1, <2>2
    <3>. QED  BY <3>1 DEF Contains
  <2>3. L + 1 \in 1..Len(t) /\ t[L + 1] = n
    BY <1>1
  <2>. QED  BY <2>1, <2>2, <2>3 DEF Contains
<1>. QED  BY <1>5, <1>6 DEF t

\* What the visit of n makes of the nodes found so far: n and nodes before it join them.
Found(n, s, t) ==
  /\ Topological(graph, t)
  /\ \A m \in 1..Len(graph) : (Contains(s, m) => Contains(t, m)) /\ (Contains(t, m) => Contains(s, m) \/ m <= n)

VisitFinds(n) ==
  \A s : Topological(graph, s) => Found(n, s, Visits[n][s]) /\ Contains(Visits[n][s], n)

LEMMA VisitStep ==
  ASSUME GraphOK(graph), NEW n \in 1..Len(graph), \A m \in 1..(n - 1) : VisitFinds(m)
  PROVE  VisitFinds(n)
<1> SUFFICES ASSUME NEW s, Topological(graph, s)
             PROVE  Found(n, s, Visits[n][s]) /\ Contains(Visits[n][s], n)
  BY DEF VisitFinds
<1> DEFINE c == graph[n].children
           f == [i \in DOMAIN c |-> Visits[c[i]]]
<1>1. Len(graph) \in Nat /\ DOMAIN graph = 1..Len(graph)
  BY GraphIsSeq
<1>2. c \in Seq(1..(n - 1)) /\ Len(c) \in Nat /\ DOMAIN c = 1..Len(c)
  <2>1. c \in Seq(1..(n - 1))
    BY DEF GraphOK
  <2>. QED  BY <2>1, LenProperties
<1>3. \A i \in 1..Len(c) : c[i] \in 1..(n - 1)
  <2> HIDE DEF c
  <2>. QED  BY <1>2, ElementOfSeq
<1>4. Len(f) = Len(c) /\ \A i \in 1..Len(c) : f[i] = Visits[c[i]]
  <2> HIDE DEF c
  <2>1. f = [i \in 1..Len(c) |-> f[i]]
    BY <1>2
  <2>2. Len(f) = Len(c)
    <3> HIDE DEF f
    <3>. QED  BY <1>2, <2>1, FunIsSeq
  <2>. QED  BY <1>2, <2>2
<1>5. Visits[n][s] = IF Contains(s, n) THEN s ELSE Append(InTurn(f, s), n)
  <2>1. Visits[n] = Visit(Visits, n)
    BY VisitsSolve
  <2>2. s \in Seq(DOMAIN graph)
    BY <1>1 DEF Topological
  <2>. QED  BY <2>1, <2>2 DEF Visit
<1> HIDE DEF f
<1>6. CASE Contains(s, n)
  BY <1>5, <1>6 DEF Found
<1>7. CASE ~Contains(s, n)
  <2>1. PICK a : a = [i \in 0..Len(f) |-> IF i = 0 THEN s ELSE f[i][a[i - 1]]] /\ InTurn(f, s) = a[Len(f)]
    BY <1>2, <1>4, InTurnSolves
  <2> DEFINE Reached(i) == Found(n - 1, s, a[i]) /\ \A j \in 1..i : Contains(a[i], c[j])
             K == {i \in Nat : i <= Len(c) => Reached(i)}
  <2>2. a[0] = s /\ \A i \in 1..Len(c) : a[i] = Visits[c[i]][a[i - 1]]
    <3>1. 0 \in 0..Len(f)
      BY <1>2, <1>4
    <3>2. ASSUME NEW i \in 1..Len(c) PROVE a[i] = Visits[c[i]][a[i - 1]]
      <4>1. i \in 0..Len(f) /\ i # 0
        BY <1>2, <1>4
      <4>. QED  BY <1>4, <2>1, <4>1
    <3>. QED  BY <2>1, <3>1, <3>2
  <2>3. 0 \in K
    BY <2>2 DEF Found
  <2>4. ASSUME NEW i \in Nat, i \in K PROVE i + 1 \in K
    <3> SUFFICES ASSUME i + 1 <= Len(c) PROVE Reached(i + 1)
      BY <2>4
    <3>0. i <= Len(c) /\ i + 1 \in 1..Len(c) /\ (i + 1) - 1 = i
      <4> HIDE DEF c
      <4>. QED  BY <1>2
    <3>1. Reached(i) /\ i + 1 \in 1..Len(c) /\ (i + 1) - 1 = i
      <4> HIDE DEF Reached
      <4>. QED  BY <2>4, <3>0
    <3>2. c[i + 1] \in 1..(n - 1) /\ a[i + 1] = Visits[c[i + 1]][a[i]]
      BY <1>3, <2>2, <3>1
    <3>3. Found(c[i + 1], a[i], a[i + 1]) /\ Contains(a[i + 1], c[i + 1])
      BY <3>1, <3>2 DEF Found, VisitFinds
    <3>4. c[i + 1] <= n - 1 /\ c[i + 1] \in Nat
      BY <3>2
    <3>5. Found(n - 1, s, a[i + 1])
      <4>1. ASSUME NEW m \in 1..Len(graph), m <= c[i + 1] PROVE m <= n - 1
        BY <1>1, <3>4, <4>1
      <4>. QED  BY <3>1, <3>3, <4>1 DEF Found
    <3>6. ASSUME NEW j \in 1..(i + 1) PROVE Contains(a[i + 1], c[j])
      <4>1. CASE j = i + 1
        BY <3>3, <4>1
      <4>2. CASE j # i + 1
        <5>1. j \in 1..i /\ j \in 1..Len(c)
          BY <1>2, <3>1, <4>2
        <5>2. Contains(a[i], c[j]) /\ c[j] \in 1..Len(graph)
          BY <1>1, <1>3, <3>1, <5>1
        <5>. QED  BY <3>3, <5>2 DEF Found
      <4>. QED  BY <4>1, <4>2
    <3>. QED  BY <3>5, <3>6
  <2>5. Reached(Len(c))
    <3>1. Len(c) \in K
      <4> HIDE DEF K
      <4>. QED  BY <1>2, <2>3, <2>4, Induction
    <3>. QED  BY <1>2, <3>1
  <2> DEFINE t == InTurn(f, s)
  <2>6. t = a[Len(c)] /\ Visits[n][s] = Append(t, n)
    BY <1>4, <1>5, <1>7, <2>1
  <2> HIDE DEF t, K
  <2>7. Topological(graph, t) /\ \A i \in 1..Len(c) : Contains(t, c[i])
    BY <2>5, <2>6 DEF Found
  <2>8. ~Contains(t, n)
    <3>1. ~(n <= n - 1)
      BY <1>1
    <3>. QED  BY <1>7, <2>5, <2>6, <3>1 DEF Found
  <2>9. Topological(graph, Append(t, n)) /\ \A m : Contains(Append(t, n), m) <=> Contains(t, m) \/ m = n
    BY <2>7, <2>8, AppendTopological
  <2>10. ASSUME NEW m \in 1..Len(graph)
         PROVE  (Contains(s, m) => Contains(Append(t, n), m)) /\ (Contains(Append(t, n), m) => Contains(s, m) \/ m <= n)
    <3>1. (Contains(s, m) => Contains(t, m)) /\ (Contains(t, m) => Contains(s, m) \/ m <= n - 1)
      BY <2>5, <2>6 DEF Found
    <3>2. m <= n - 1 => m <= n
      BY <1>1
    <3>3. n <= n
      BY <1>1
    <3>. QED  BY <2>9, <3>1, <3>2, <3>3
  <2>. QED  BY <2>6, <2>9, <2>10 DEF Found
<1>. QED  BY <1>6, <1>7

\* backward()'s depth-first search from a node finds it, and puts no node twice and every
\* node after its operands: for every graph whose ops were appended in order.
THEOREM SearchFinds ==
  ASSUME GraphOK(graph), NEW r \in 1..Len(graph)
  PROVE  Topological(graph, TopologicalSort(r)) /\ Contains(TopologicalSort(r), r)
<1> DEFINE K == {k \in Nat : \A n \in 1..Len(graph) : n <= k => VisitFinds(n)}
<1>1. 0 \in K
  OBVIOUS
<1>2. ASSUME NEW k \in Nat, k \in K PROVE k + 1 \in K
  <2>1. ASSUME NEW n \in 1..Len(graph), n <= k + 1 PROVE VisitFinds(n)
    <3>1. Len(graph) \in Nat
      BY GraphIsSeq
    <3>2. ASSUME NEW m \in 1..(n - 1) PROVE VisitFinds(m)
      <4>1. m \in 1..Len(graph) /\ m <= k
        BY <2>1, <3>1
      <4>. QED  BY <1>2, <4>1
    <3>. QED  BY <3>2, VisitStep
  <2>. QED  BY <2>1
<1>3. Len(graph) \in K /\ Len(graph) \in Nat
  <2> HIDE DEF K
  <2>. QED  BY <1>1, <1>2, Induction, GraphIsSeq
<1>4. VisitFinds(r)
  BY <1>3
<1>5. Topological(graph, << >>)
  BY EmptySeq DEF Topological
<1>. QED  BY <1>4, <1>5 DEF VisitFinds, Found, TopologicalSort

-----------------------------------------------------------------------------
(* The inductive invariant.                                                *)

\* Leaves are never freed and have nothing to run.
LeavesOK(g) ==
  /\ leaves \in 0..Len(g)
  /\ \A n \in 1..leaves : g[n].data # Empty /\ ~g[n].backward_fn

Frozen(g) == \A n \in 1..Len(g) : ~g[n].requires_grad => g[n].grad = Empty

\* Before a wave every variable has its data, and every result that depends on a
\* parameter its closure.
AllThere(g) ==
  \A n \in 1..Len(g) : g[n].data # Empty /\ (n > leaves /\ g[n].requires_grad => g[n].backward_fn)

\* What a wave has passed is retired, but for the loss.
Retired(g) ==
  /\ root \in 1..Len(g) /\ g[root].data # Empty
  /\ \A n \in 1..Len(g) : n > leaves /\ n # root /\ g[n].requires_grad /\ ~g[n].backward_fn
                            => g[n].data = Empty /\ g[n].grad = Empty

\* What a wave has still to pass is there, in order.
Ahead(g, s) ==
  /\ Topological(g, s) /\ s # << >>
  /\ \A i \in 1..Len(s) : g[s[i]].data # Empty

GraphInv ==
  /\ GraphOK(graph) /\ LeavesOK(graph) /\ Frozen(graph)
  /\ pc \in {"forward", "backward", "done"}
  /\ pc = "forward" => AllThere(graph)
  /\ pc # "forward" => Retired(graph)
  /\ pc = "backward" => Ahead(graph, sorted)

RunInv ==
  /\ program \in Programs
  /\ issued \in Nat \union {-1} /\ micro \in Nat \union {-1} /\ step \in Nat
  /\ program # Explore => leaves = Params + 2
  /\ program # Explore /\ issued = -1 => pc = "forward" /\ Len(graph) = leaves
  /\ pc = "forward" /\ issued # -1 => Len(graph) >= leaves + issued
  /\ issued # -1 => micro \in 0..(program.micros - 1)
  /\ program = Explore => issued = -1 /\ micro = -1 /\ step = 0 /\ file = Empty
  /\ file # Empty => file.step \in Nat /\ \A k \in 1..Params : file.weights[k] # Empty

IInv == GraphInv /\ RunInv

-----------------------------------------------------------------------------
(* Changing a graph node by node.                                          *)

LEMMA NodeFields ==
  ASSUME NEW a, NEW b, NEW c, NEW d, NEW e, NEW f, NEW g
  PROVE  /\ Node(a, b, c, d, e, f, g).o = a /\ Node(a, b, c, d, e, f, g).children = b
         /\ Node(a, b, c, d, e, f, g).data = c /\ Node(a, b, c, d, e, f, g).grad = d
         /\ Node(a, b, c, d, e, f, g).requires_grad = e /\ Node(a, b, c, d, e, f, g).backward_fn = f
         /\ Node(a, b, c, d, e, f, g).saved = g /\ IsNode(Node(a, b, c, d, e, f, g))
BY DEF Node, IsNode

LEMMA NodeGrad ==
  ASSUME NEW v, IsNode(v), NEW x
  PROVE  [v EXCEPT !.grad = x] = Node(v.o, v.children, v.data, x, v.requires_grad, v.backward_fn, v.saved)
<1>1. PICK a, b, c, d, e, f, g : v = Node(a, b, c, d, e, f, g)
  BY DEF IsNode
<1>2. [v EXCEPT !.grad = x] = Node(a, b, c, x, e, f, g)
  BY <1>1 DEF Node
<1>. QED  BY <1>1, <1>2, NodeFields

LEMMA NodeData ==
  ASSUME NEW v, IsNode(v), NEW x
  PROVE  [v EXCEPT !.data = x] = Node(v.o, v.children, x, v.grad, v.requires_grad, v.backward_fn, v.saved)
<1>1. PICK a, b, c, d, e, f, g : v = Node(a, b, c, d, e, f, g)
  BY DEF IsNode
<1>2. [v EXCEPT !.data = x] = Node(a, b, x, d, e, f, g)
  BY <1>1 DEF Node
<1>. QED  BY <1>1, <1>2, NodeFields

LEMMA NodeChildren ==
  ASSUME NEW v, IsNode(v), NEW x
  PROVE  [v EXCEPT !.children = x] = Node(v.o, x, v.data, v.grad, v.requires_grad, v.backward_fn, v.saved)
<1>1. PICK a, b, c, d, e, f, g : v = Node(a, b, c, d, e, f, g)
  BY DEF IsNode
<1>2. [v EXCEPT !.children = x] = Node(a, x, c, d, e, f, g)
  BY <1>1 DEF Node
<1>. QED  BY <1>1, <1>2, NodeFields

LEMMA NodeClosure ==
  ASSUME NEW v, IsNode(v), NEW x
  PROVE  [v EXCEPT !.backward_fn = x] = Node(v.o, v.children, v.data, v.grad, v.requires_grad, x, v.saved)
<1>1. PICK a, b, c, d, e, f, g : v = Node(a, b, c, d, e, f, g)
  BY DEF IsNode
<1>2. [v EXCEPT !.backward_fn = x] = Node(a, b, c, d, e, x, g)
  BY <1>1 DEF Node
<1>. QED  BY <1>1, <1>2, NodeFields

LEMMA NodeSaved ==
  ASSUME NEW v, IsNode(v), NEW x
  PROVE  [v EXCEPT !.saved = x] = Node(v.o, v.children, v.data, v.grad, v.requires_grad, v.backward_fn, x)
<1>1. PICK a, b, c, d, e, f, g : v = Node(a, b, c, d, e, f, g)
  BY DEF IsNode
<1>2. [v EXCEPT !.saved = x] = Node(a, b, c, d, e, f, x)
  BY <1>1 DEF Node
<1>. QED  BY <1>1, <1>2, NodeFields

LEMMA NodeBoth ==
  ASSUME NEW v, IsNode(v), NEW x, NEW y
  PROVE  [v EXCEPT !.data = x, !.grad = y] = Node(v.o, v.children, x, y, v.requires_grad, v.backward_fn, v.saved)
<1> DEFINE w == [v EXCEPT !.data = x]
<1>1. w = Node(v.o, v.children, x, v.grad, v.requires_grad, v.backward_fn, v.saved)
  BY NodeData
<1>2. [v EXCEPT !.data = x, !.grad = y] = [w EXCEPT !.grad = y]
  OBVIOUS
<1> HIDE DEF w
<1>3. IsNode(w) /\ w.o = v.o /\ w.children = v.children /\ w.data = x /\ w.requires_grad = v.requires_grad
      /\ w.backward_fn = v.backward_fn /\ w.saved = v.saved
  BY <1>1, NodeFields
<1>. QED  BY <1>2, <1>3, NodeGrad

\* w is the node v with other data and another gradient: its data is not gone, and it
\* has not been given a gradient if it is frozen.
Refit(v, w) ==
  /\ w = Node(v.o, v.children, w.data, w.grad, v.requires_grad, v.backward_fn, v.saved)
  /\ v.data # Empty => w.data # Empty
  /\ ~v.requires_grad /\ v.grad = Empty => w.grad = Empty

LEMMA RefitTwice == ASSUME NEW u, NEW v, NEW w, Refit(u, v), Refit(v, w) PROVE Refit(u, w)
BY NodeFields DEF Refit

\* h is g, node by node refitted.
Refilled(g, h) ==
  /\ h = [n \in 1..Len(g) |-> h[n]]
  /\ \A n \in 1..Len(g) : Refit(g[n], h[n])

LEMMA RefilledKeeps ==
  ASSUME NEW g, NEW h, GraphOK(g), Refilled(g, h)
  PROVE  /\ GraphOK(h) /\ Len(h) = Len(g) /\ DOMAIN h = 1..Len(g)
         /\ \A n \in 1..Len(g) : /\ h[n].children = g[n].children /\ h[n].requires_grad = g[n].requires_grad
                                 /\ h[n].backward_fn = g[n].backward_fn
         /\ LeavesOK(g) => LeavesOK(h)
         /\ Frozen(g) => Frozen(h)
         /\ AllThere(g) => AllThere(h)
<1>1. Len(g) \in Nat
  BY GraphIsSeq
<1>2. h \in Seq({h[n] : n \in DOMAIN h}) /\ Len(h) = Len(g) /\ DOMAIN h = 1..Len(g)
  BY <1>1, FunIsSeq DEF Refilled, Refit
<1>3. ASSUME NEW n \in 1..Len(g)
      PROVE  /\ h[n].children = g[n].children /\ h[n].requires_grad = g[n].requires_grad
             /\ h[n].backward_fn = g[n].backward_fn /\ IsNode(h[n])
  BY NodeFields DEF Refilled, Refit
<1>4. GraphOK(h)
  BY <1>2, <1>3 DEF GraphOK
<1>5. LeavesOK(g) => LeavesOK(h)
  <2>1. leaves \in 0..Len(g) => \A n \in 1..leaves : n \in 1..Len(g)
    BY <1>1
  <2>. QED  BY <1>2, <1>3, <2>1 DEF LeavesOK, Refilled, Refit
<1>6. Frozen(g) => Frozen(h)
  BY <1>2, <1>3 DEF Frozen, Refilled, Refit
<1>7. AllThere(g) => AllThere(h)
  BY <1>2, <1>3 DEF AllThere, Refilled, Refit
<1>. QED  BY <1>2, <1>3, <1>4, <1>5, <1>6, <1>7

\* The order of a search holds for a graph with the same edges.
LEMMA SameEdges ==
  ASSUME NEW g, NEW h, NEW s, Topological(g, s), Len(h) = Len(g),
         \A n \in 1..Len(g) : h[n].children = g[n].children
  PROVE  Topological(h, s)
<1>1. \A i \in 1..Len(s) : h[s[i]].children = g[s[i]].children
  BY ElementOfSeq DEF Topological
<1>2. s \in Seq(1..Len(h)) /\ \A i, j \in 1..Len(s) : s[i] = s[j] => i = j
  BY DEF Topological
<1>3. ASSUME NEW i \in 1..Len(s), NEW c \in 1..Len(h[s[i]].children)
      PROVE  \E j \in 1..(i - 1) : s[j] = h[s[i]].children[c]
  <2>1. h[s[i]].children = g[s[i]].children
    BY <1>1
  <2>. QED  BY <2>1 DEF Topological
<1>. QED  BY <1>2, <1>3 DEF Topological

\* A step that leaves the graph and the wave alone.
LEMMA GraphStands ==
  ASSUME GraphInv, UNCHANGED <<graph, leaves, pc, root, sorted>>
  PROVE  GraphInv'
BY DEF GraphInv, GraphOK, LeavesOK, Frozen, AllThere, Retired, Ahead, Topological

-----------------------------------------------------------------------------
(* The steps of the graph.                                                 *)

LEMMA ShortSeqs == ASSUME NEW S, NEW e \in S PROVE << >> \in Seq(S) /\ <<e>> \in Seq(S)
OBVIOUS

\* A node just appended: it has data and no gradient, and its closure runs if it depends
\* on a parameter.
NewNode(v) ==
  /\ IsNode(v) /\ v.data # Empty /\ v.grad = Empty /\ v.children \in Seq(1..Len(graph))
  /\ v.requires_grad \in BOOLEAN /\ v.backward_fn = v.requires_grad

LEMMA RecordedIs ==
  ASSUME NEW o, NEW kids, NEW in, NEW saved, o.op \in OpNames, kids # << >>, kids \in Seq(1..Len(graph))
  PROVE  NewNode(Recorded(o, kids, in, saved))
<1> DEFINE out == Output(dev, o, in, saved)
           d == IF enabled THEN out ELSE Detached(out)
           b == RequiresGrad(kids)
           c == IF b THEN Listed(o, kids) ELSE << >>
           s == IF b THEN saved ELSE << >>
<1>1. d # Empty
  BY OutputFull, DetachedFull
<1>2. c \in Seq(1..Len(graph))
  <2>1. kids[1] \in 1..Len(graph)
    <3>1. Len(kids) \in Nat \ {0}
      BY EmptySeq
    <3>. QED  BY <3>1, ElementOfSeq
  <2>2. << >> \in Seq(1..Len(graph)) /\ <<kids[1]>> \in Seq(1..Len(graph))
    BY <2>1, ShortSeqs
  <2>. QED  BY <2>2 DEF Listed
<1>3. b \in BOOLEAN
  BY DEF RequiresGrad
<1>4. Recorded(o, kids, in, saved) = Node(o, c, d, Empty, b, b, s)
  BY DEF Recorded
<1> HIDE DEF b, c, d, s
<1>. QED  BY <1>1, <1>2, <1>3, <1>4, NodeFields DEF NewNode

LEMMA ForwardKeeps ==
  ASSUME GraphInv, NEW o, NEW kids, o.op \in OpNames, kids # << >>, kids \in Seq(1..Len(graph)), Forward(o, kids)
  PROVE  GraphInv' /\ Len(graph') = Len(graph) + 1
<1> DEFINE N == Len(graph)
           v == Recorded(o, kids, Data(kids), Saved(dev, o, Data(kids), streams))
<1>1. NewNode(v) /\ graph' = Append(graph, v)
  BY RecordedIs DEF Forward
<1>2. pc = "forward" /\ UNCHANGED <<leaves, pc, root, sorted>>
  BY DEF Forward, walk
<1>3. N \in Nat /\ GraphOK(graph) /\ leaves \in 0..N
  BY GraphIsSeq DEF GraphInv, LeavesOK
<1> HIDE DEF v
<1>4. /\ IsNode(v) /\ v.data # Empty /\ v.grad = Empty /\ v.children \in Seq(1..N)
      /\ v.requires_grad \in BOOLEAN /\ v.backward_fn = v.requires_grad
  BY <1>1 DEF NewNode
<1>5. /\ graph' \in Seq({graph'[n] : n \in DOMAIN graph'}) /\ Len(graph') = N + 1
      /\ graph'[N + 1] = v /\ \A n \in 1..N : graph'[n] = graph[n]
  <2> DEFINE S == {graph[n] : n \in DOMAIN graph} \union {v}
  <2>1. graph \in Seq(S) /\ v \in S
    <3>1. graph \in Seq({graph[n] : n \in DOMAIN graph})
      BY <1>3 DEF GraphOK
    <3>. QED  BY <3>1, SeqMonotonic
  <2>2. graph' = Append(graph, v)
    BY <1>1
  <2> HIDE DEF S
  <2>3. /\ graph' \in Seq(S) /\ Len(graph') = N + 1
        /\ graph'[N + 1] = v /\ \A n \in 1..N : graph'[n] = graph[n]
    BY <2>1, <2>2, AppendKeeps
  <2>. QED  BY <2>3, OwnValues
<1>6. \A n \in 1..(N + 1) : n \in 1..N \/ n = N + 1
  BY <1>3
<1>7. GraphOK(graph')
  <2>1. v.children \in Seq(1..((N + 1) - 1))
    BY <1>3, <1>4
  <2>. QED  BY <1>3, <1>4, <1>5, <1>6, <2>1 DEF GraphOK
<1>8. LeavesOK(graph)'
  <2>1. leaves \in 0..(N + 1) /\ \A n \in 1..leaves : n \in 1..N
    BY <1>3
  <2>. QED  BY <1>2, <1>5, <2>1 DEF GraphInv, LeavesOK
<1>9. Frozen(graph')
  BY <1>4, <1>5, <1>6 DEF GraphInv, Frozen
<1>10. AllThere(graph)'
  <2>1. AllThere(graph)
    BY <1>2 DEF GraphInv
  <2>. QED  BY <1>1, <1>2, <1>4, <1>5, <1>6, <2>1 DEF AllThere
<1>. QED  BY <1>2, <1>5, <1>7, <1>8, <1>9, <1>10 DEF GraphInv

LEMMA StartBackwardKeeps ==
  ASSUME GraphInv, NEW r, StartBackward(r)
  PROVE  GraphInv'
<1> DEFINE N == Len(graph)
           v == Node(graph[r].o, graph[r].children, graph[r].data, Tensor(graph[r].data.shape, <<One>>),
                     graph[r].requires_grad, graph[r].backward_fn, graph[r].saved)
<1>1. N \in Nat /\ DOMAIN graph = 1..N /\ GraphOK(graph) /\ leaves \in 0..N
  BY GraphIsSeq DEF GraphInv, LeavesOK
<1>2. /\ pc = "forward" /\ AllThere(graph) /\ r \in 1..N /\ graph[r].requires_grad
      /\ pc' = "backward" /\ root' = r /\ sorted' = TopologicalSort(r) /\ leaves' = leaves
  BY <1>1 DEF StartBackward, GraphInv
<1>3. graph' = [n \in 1..N |-> IF n = r THEN v ELSE graph[n]]
  <2>1. graph' = [graph EXCEPT ![r] = [graph[r] EXCEPT !.grad = Tensor(graph[r].data.shape, <<One>>)]]
    BY DEF StartBackward
  <2>2. [graph[r] EXCEPT !.grad = Tensor(graph[r].data.shape, <<One>>)] = v
    BY <1>1, <1>2, NodeGrad DEF GraphOK
  <2> HIDE DEF v
  <2>. QED  BY <1>1, <2>1, <2>2, GraphIsSeq
<1>4. v.data = graph[r].data /\ v.requires_grad = graph[r].requires_grad /\ v.o = graph[r].o
      /\ v.children = graph[r].children /\ v.backward_fn = graph[r].backward_fn /\ v.saved = graph[r].saved
      /\ v = Node(graph[r].o, graph[r].children, v.data, v.grad, graph[r].requires_grad, graph[r].backward_fn, graph[r].saved)
  BY NodeFields
<1> HIDE DEF v
<1>5. Refilled(graph, graph')
  <2>1. ASSUME NEW n \in 1..N
        PROVE  /\ graph'[n] = Node(graph[n].o, graph[n].children, graph'[n].data, graph'[n].grad,
                                   graph[n].requires_grad, graph[n].backward_fn, graph[n].saved)
               /\ graph[n].data # Empty => graph'[n].data # Empty
               /\ ~graph[n].requires_grad /\ graph[n].grad = Empty => graph'[n].grad = Empty
    <3>1. CASE n = r
      BY <1>2, <1>3, <1>4, <3>1
    <3>2. CASE n # r
      BY <1>1, <1>3, <3>2 DEF GraphOK, IsNode
    <3>. QED  BY <3>1, <3>2
  <2>. QED  BY <1>3, <2>1 DEF Refilled, Refit
<1>6. /\ GraphOK(graph') /\ Len(graph') = N /\ LeavesOK(graph') /\ Frozen(graph') /\ AllThere(graph')
      /\ \A n \in 1..N : graph'[n].children = graph[n].children
  BY <1>1, <1>2, <1>5, RefilledKeeps DEF GraphInv
<1>7. LeavesOK(graph)' /\ AllThere(graph)'
  BY <1>2, <1>6 DEF LeavesOK, AllThere
<1>8. Retired(graph)'
  BY <1>2, <1>6, <1>7 DEF Retired, AllThere
<1>9. Ahead(graph', sorted')
  <2> DEFINE s == TopologicalSort(r)
  <2>1. Topological(graph, s) /\ Contains(s, r)
    BY <1>1, <1>2, SearchFinds
  <2> HIDE DEF s
  <2>2. Topological(graph', s)
    BY <1>6, <2>1, SameEdges
  <2>3. s # << >>
    BY <2>1 DEF Contains
  <2>4. \A i \in 1..Len(s) : s[i] \in 1..Len(graph')
    BY <2>2, ElementOfSeq DEF Topological
  <2>. QED  BY <1>2, <1>6, <2>2, <2>3, <2>4 DEF Ahead, AllThere, s
<1>. QED  BY <1>2, <1>6, <1>7, <1>8, <1>9 DEF GraphInv

\* The first leaves of a graph, between waves.
LEMMA ReleaseKeeps ==
  ASSUME GraphInv, Release
  PROVE  GraphInv' /\ Len(graph') = leaves' /\ leaves' = leaves /\ pc' = "forward"
<1>1. Len(graph) \in Nat /\ DOMAIN graph = 1..Len(graph) /\ GraphOK(graph) /\ leaves \in 0..Len(graph)
  BY GraphIsSeq DEF GraphInv, LeavesOK
<1>2. pc' = "forward" /\ leaves' = leaves /\ graph' = SubSeq(graph, 1, leaves)
  BY DEF Release
<1>3. /\ graph' \in Seq({graph'[n] : n \in DOMAIN graph'}) /\ Len(graph') = leaves
      /\ \A n \in 1..leaves : graph'[n] = graph[n]
  <2> DEFINE S == {graph[n] : n \in DOMAIN graph}
  <2>1. \A n \in 1..leaves : graph[n] \in S
    BY <1>1
  <2> HIDE DEF S
  <2>2. /\ graph' \in Seq(S) /\ Len(graph') = (IF 1 <= leaves THEN leaves - 1 + 1 ELSE 0)
        /\ \A n \in 1..(leaves - 1 + 1) : graph'[n] = graph[1 + n - 1]
    BY <1>1, <1>2, <2>1, SubSeqProperties
  <2>. QED  BY <1>1, <2>2, OwnValues
<1>4. \A n \in 1..leaves : n \in 1..Len(graph)
  BY <1>1
<1>5. GraphOK(graph') /\ Frozen(graph')
  BY <1>1, <1>3, <1>4 DEF GraphOK, Frozen, GraphInv
<1>6. LeavesOK(graph)' /\ AllThere(graph)'
  <2>1. \A n \in 1..leaves : ~(n > leaves)
    BY <1>1
  <2>. QED  BY <1>1, <1>2, <1>3, <2>1 DEF LeavesOK, AllThere, GraphInv
<1>. QED  BY <1>2, <1>3, <1>5, <1>6 DEF GraphInv

\* A step of the leaves' data and gradients, outside a wave.
LEMMA RefillKeeps ==
  ASSUME GraphInv, pc = "forward", Refilled(graph, graph'), UNCHANGED <<leaves, pc, root, sorted>>
  PROVE  GraphInv' /\ Len(graph') = Len(graph)
<1>1. /\ GraphOK(graph') /\ Len(graph') = Len(graph) /\ LeavesOK(graph') /\ Frozen(graph') /\ AllThere(graph')
  BY RefilledKeeps DEF GraphInv
<1>2. LeavesOK(graph)' /\ AllThere(graph)'
  BY <1>1 DEF LeavesOK, AllThere
<1>. QED  BY <1>1, <1>2 DEF GraphInv

LEMMA ZeroGradKeeps ==
  ASSUME GraphInv, ZeroGrad
  PROVE  GraphInv' /\ Len(graph') = Len(graph)
<1> DEFINE new(n) == IF graph[n].grad = Empty THEN Empty ELSE ZerosLike(graph[n].grad)
<1>1. DOMAIN graph = 1..Len(graph) /\ GraphOK(graph)
  BY GraphIsSeq DEF GraphInv
<1>2. graph' = [n \in 1..Len(graph) |-> [graph[n] EXCEPT !.grad = new(n)]]
  BY <1>1 DEF ZeroGrad
<1>3. ASSUME NEW n \in 1..Len(graph)
      PROVE  graph'[n] = Node(graph[n].o, graph[n].children, graph[n].data, new(n),
                              graph[n].requires_grad, graph[n].backward_fn, graph[n].saved)
  <2>1. graph'[n] = [graph[n] EXCEPT !.grad = new(n)]
    BY <1>2
  <2> HIDE DEF new
  <2>. QED  BY <1>1, <2>1, NodeGrad DEF GraphOK
<1>4. ASSUME NEW n \in 1..Len(graph)
      PROVE  /\ graph'[n] = Node(graph[n].o, graph[n].children, graph'[n].data, graph'[n].grad,
                                 graph[n].requires_grad, graph[n].backward_fn, graph[n].saved)
             /\ graph'[n].data = graph[n].data /\ graph'[n].grad = new(n)
  <2> HIDE DEF new
  <2>. QED  BY <1>3, NodeFields
<1>5. Refilled(graph, graph')
  BY <1>2, <1>4 DEF Refilled, Refit
<1>. QED  BY <1>5, RefillKeeps DEF ZeroGrad, walk

\* What a closure does to the graph: the gradients of the operands that require one.
LEMMA ClosureWrites ==
  ASSUME GraphOK(graph), NEW n \in 1..Len(graph)
  PROVE  /\ Refilled(graph, RunClosure(n))
         /\ \A m \in 1..Len(graph) :
              /\ RunClosure(n)[m].data = graph[m].data
              /\ RunClosure(n)[m].grad = graph[m].grad
                   \/ \E i \in 1..Len(graph[n].children) : graph[n].children[i] = m
<1> DEFINE kids == graph[n].children
           wants == [i \in DOMAIN kids |-> graph[kids[i]].requires_grad]
           at(m) == {i \in Written(graph[n].o, wants) : kids[i] = m}
           h == RunClosure(n)
<1>1. Len(graph) \in Nat /\ DOMAIN graph = 1..Len(graph) /\ DOMAIN kids = 1..Len(kids)
  <2>1. kids \in Seq(1..(n - 1))
    BY DEF GraphOK
  <2>. QED  BY <2>1, GraphIsSeq, LenProperties
<1>2. h = [m \in 1..Len(graph) |-> IF at(m) = {} THEN graph[m] ELSE [graph[m] EXCEPT !.grad = Gathered(n, m, at(m))]]
  BY <1>1 DEF RunClosure
<1>3. ASSUME NEW m \in 1..Len(graph), at(m) # {}
      PROVE  graph[m].requires_grad /\ \E i \in 1..Len(kids) : kids[i] = m
  <2>1. PICK i \in Written(graph[n].o, wants) : kids[i] = m
    BY <1>3
  <2>2. i \in DOMAIN wants /\ wants[i]
    <3> HIDE DEF wants
    <3>. QED  BY DEF Written
  <2>3. i \in 1..Len(kids)
    BY <1>1, <2>2
  <2>4. wants[i] = graph[kids[i]].requires_grad
    BY <1>1, <2>3
  <2>. QED  BY <2>1, <2>2, <2>3, <2>4
<1> HIDE DEF at, h
<1>4. ASSUME NEW m \in 1..Len(graph)
      PROVE  /\ h[m] = Node(graph[m].o, graph[m].children, h[m].data, h[m].grad,
                            graph[m].requires_grad, graph[m].backward_fn, graph[m].saved)
             /\ h[m].data = graph[m].data
             /\ h[m].grad = graph[m].grad \/ at(m) # {}
  <2>1. IsNode(graph[m])
    BY DEF GraphOK
  <2>2. CASE at(m) = {}
    <3>1. h[m] = graph[m]
      BY <1>2, <2>2
    <3>. QED  BY <2>1, <3>1 DEF IsNode
  <2>3. CASE at(m) # {}
    <3>1. h[m] = Node(graph[m].o, graph[m].children, graph[m].data, Gathered(n, m, at(m)),
                      graph[m].requires_grad, graph[m].backward_fn, graph[m].saved)
      BY <1>2, <2>1, <2>3, NodeGrad
    <3>. QED  BY <2>3, <3>1, NodeFields
  <2>. QED  BY <2>2, <2>3
<1>5. Refilled(graph, h)
  <2>1. h = [m \in 1..Len(graph) |-> h[m]]
    BY <1>2
  <2>. QED  BY <1>3, <1>4, <2>1 DEF Refilled, Refit
<1>. QED  BY <1>3, <1>4, <1>5 DEF h

\* The wave goes on with the nodes before the last.
LEMMA FrontIs ==
  ASSUME GraphOK(graph), Topological(graph, sorted), sorted # << >>
  PROVE  /\ Len(sorted) \in Nat \ {0} /\ Last(sorted) \in 1..Len(graph)
         /\ Topological(graph, Front(sorted)) /\ Len(Front(sorted)) = Len(sorted) - 1
         /\ \A i \in 1..(Len(sorted) - 1) : Front(sorted)[i] = sorted[i] /\ sorted[i] # Last(sorted)
         /\ Len(sorted) # 1 => Front(sorted) # << >>
<1> DEFINE S == 1..Len(graph)
           L == Len(sorted)
           f == Front(sorted)
<1>1. sorted \in Seq(S) /\ L \in Nat \ {0}
  <2>1. sorted \in Seq(S)
    BY DEF Topological
  <2> HIDE DEF S
  <2>. QED  BY <2>1, EmptySeq
<1>2. \A i \in 1..L : sorted[i] \in S
  <2> HIDE DEF S
  <2>. QED  BY <1>1, ElementOfSeq
<1>3. f \in Seq(S) /\ Len(f) = L - 1 /\ \A i \in 1..(L - 1) : f[i] = sorted[i]
  <2>1. \A i \in 1..(L - 1) : sorted[i] \in S
    BY <1>1, <1>2
  <2> HIDE DEF S
  <2>2. /\ f \in Seq(S) /\ Len(f) = (IF 1 <= L - 1 THEN L - 1 - 1 + 1 ELSE 0)
        /\ \A i \in 1..(L - 1 - 1 + 1) : f[i] = sorted[1 + i - 1]
    BY <1>1, <2>1, SubSeqProperties DEF Front
  <2>3. L - 1 - 1 + 1 = L - 1 /\ (1 <= L - 1 \/ L - 1 = 0) /\ \A i \in 1..(L - 1) : 1 + i - 1 = i
    <3>1. L \in Nat \ {0}
      BY <1>1
    <3> HIDE DEF L
    <3>2. \A i \in 1..(L - 1) : 1 + i - 1 = i
      OBVIOUS
    <3>3. L - 1 - 1 + 1 = L - 1 /\ (1 <= L - 1 \/ L - 1 = 0)
      BY <3>1
    <3>. QED  BY <3>2, <3>3
  <2> HIDE DEF f
  <2>4. ASSUME NEW i \in 1..(L - 1) PROVE f[i] = sorted[i]
    BY <2>2, <2>3
  <2>5. Len(f) = L - 1
    BY <2>2, <2>3
  <2>. QED  BY <2>2, <2>4, <2>5
<1>4. Last(sorted) = sorted[L] /\ L \in 1..L
  BY <1>1 DEF Last
<1>5. \A i \in 1..(L - 1) : i \in 1..L /\ i # L
  BY <1>1
<1>6. \A i \in 1..(L - 1) : sorted[i] # Last(sorted)
  BY <1>4, <1>5 DEF Topological
<1>7. \A i, j \in 1..Len(f) : f[i] = f[j] => i = j
  BY <1>3, <1>5 DEF Topological
<1>8. ASSUME NEW i \in 1..Len(f), NEW c \in 1..Len(graph[f[i]].children)
      PROVE  \E j \in 1..(i - 1) : f[j] = graph[f[i]].children[c]
  <2>1. f[i] = sorted[i] /\ i \in 1..L
    BY <1>3, <1>5
  <2>2. PICK j \in 1..(i - 1) : sorted[j] = graph[sorted[i]].children[c]
    BY <1>8, <2>1 DEF Topological
  <2>3. j \in 1..(L - 1)
    BY <1>1, <1>3
  <2>. QED  BY <1>3, <2>1, <2>2, <2>3
<1>9. L # 1 => f # << >>
  <2>1. L # 1 => Len(f) # 0
    BY <1>1, <1>3
  <2>. QED  BY <2>1
<1>10. Topological(graph, f)
  BY <1>3, <1>7, <1>8 DEF Topological
<1>11. Last(sorted) \in S
  BY <1>2, <1>4
<1> HIDE DEF f
<1>. QED  BY <1>1, <1>3, <1>6, <1>9, <1>10, <1>11 DEF f

\* Nodes are children of later nodes alone.
LEMMA ChildAhead ==
  ASSUME GraphOK(graph), Ahead(graph, sorted), NEW m,
         NEW i \in 1..Len(graph[Last(sorted)].children), graph[Last(sorted)].children[i] = m
  PROVE  graph[m].data # Empty
<1>1. Len(sorted) \in 1..Len(sorted) /\ Len(sorted) \in Nat
  BY FrontIs DEF Ahead
<1>2. PICK j \in 1..(Len(sorted) - 1) : sorted[j] = graph[sorted[Len(sorted)]].children[i]
  BY <1>1 DEF Ahead, Topological, Last
<1>3. j \in 1..Len(sorted)
  BY <1>1
<1>. QED  BY <1>2, <1>3 DEF Ahead, Last

\* A closure that has run leaves the wave as it was.
LEMMA ClosureKeeps ==
  ASSUME GraphInv, pc = "backward", NEW g,
         g = (IF graph[Last(sorted)].grad = Empty THEN graph ELSE RunClosure(Last(sorted)))
  PROVE  /\ Refilled(graph, g) /\ GraphOK(g) /\ LeavesOK(g) /\ Frozen(g) /\ Retired(g) /\ Len(g) = Len(graph)
         /\ \A m \in 1..Len(graph) :
              /\ g[m].data = graph[m].data /\ g[m].children = graph[m].children
              /\ g[m].requires_grad = graph[m].requires_grad /\ g[m].backward_fn = graph[m].backward_fn
<1> DEFINE n == Last(sorted)
<1>1. /\ GraphOK(graph) /\ LeavesOK(graph) /\ Frozen(graph) /\ Retired(graph) /\ Ahead(graph, sorted)
      /\ n \in 1..Len(graph)
  BY FrontIs DEF GraphInv, Ahead
<1>2. /\ Refilled(graph, g)
      /\ \A m \in 1..Len(graph) :
           /\ g[m].data = graph[m].data
           /\ g[m].grad = graph[m].grad \/ graph[m].data # Empty
  <2>1. CASE graph[n].grad = Empty
    <3>1. g = graph
      BY <2>1
    <3>2. graph = [m \in 1..Len(graph) |-> graph[m]]
      BY <1>1, GraphIsSeq
    <3>3. Refilled(graph, graph)
      BY <1>1, <3>2 DEF Refilled, Refit, GraphOK, IsNode
    <3>. QED  BY <3>1, <3>3
  <2>2. CASE graph[n].grad # Empty
    <3>1. g = RunClosure(n)
      BY <2>2
    <3> HIDE DEF n
    <3>2. ASSUME NEW m \in 1..Len(graph) PROVE g[m].data = graph[m].data /\ (g[m].grad = graph[m].grad \/ graph[m].data # Empty)
      <4>1. /\ RunClosure(n)[m].data = graph[m].data
            /\ RunClosure(n)[m].grad = graph[m].grad
                 \/ \E i \in 1..Len(graph[n].children) : graph[n].children[i] = m
        BY <1>1, ClosureWrites
      <4>2. ASSUME NEW i \in 1..Len(graph[n].children), graph[n].children[i] = m PROVE graph[m].data # Empty
        BY <1>1, <4>2, ChildAhead DEF n
      <4>. QED  BY <3>1, <4>1, <4>2
    <3>. QED  BY <1>1, <3>1, <3>2, ClosureWrites
  <2>. QED  BY <2>1, <2>2
<1>3. /\ GraphOK(g) /\ LeavesOK(g) /\ Frozen(g) /\ Len(g) = Len(graph)
      /\ \A m \in 1..Len(graph) :
           /\ g[m].children = graph[m].children
           /\ g[m].requires_grad = graph[m].requires_grad /\ g[m].backward_fn = graph[m].backward_fn
  BY <1>1, <1>2, RefilledKeeps
<1>4. Retired(g)
  BY <1>1, <1>2, <1>3 DEF Retired
<1>. QED  BY <1>2, <1>3, <1>4

\* w is v, the m-th node, once the wave is past n.
PassedNode(w, v, n, freed, m) ==
  /\ IsNode(w) /\ w.children = IF m = n THEN << >> ELSE v.children
  /\ w.data = IF m \in freed THEN Empty ELSE v.data
  /\ w.grad = IF m \in freed THEN Empty ELSE v.grad
  /\ w.requires_grad = v.requires_grad
  /\ w.backward_fn = IF m = n THEN FALSE ELSE v.backward_fn

\* What passing n makes of each node.
LEMMA PassedIs ==
  ASSUME NEW g, NEW n, NEW freed, NEW m \in DOMAIN g, IsNode(g[m])
  PROVE  PassedNode(Passed(g, n, freed)[m], g[m], n, freed, m)
<1> DEFINE d == IF m \in freed THEN Empty ELSE g[m].data
           r == IF m \in freed THEN Empty ELSE g[m].grad
           c == IF m = n THEN << >> ELSE g[m].children
           f == IF m = n THEN FALSE ELSE g[m].backward_fn
           s == IF m = n THEN << >> ELSE g[m].saved
           v0 == g[m]
           v1 == [v0 EXCEPT !.data = d]
           v2 == [v1 EXCEPT !.grad = r]
           v3 == [v2 EXCEPT !.children = c]
           v4 == [v3 EXCEPT !.backward_fn = f]
           v5 == [v4 EXCEPT !.saved = s]
<1>1. Passed(g, n, freed)[m] = v5
  BY DEF Passed
<1> HIDE DEF d, r, c, f, s
<1>2. v1 = Node(v0.o, v0.children, d, v0.grad, v0.requires_grad, v0.backward_fn, v0.saved)
  BY NodeData
<1> HIDE DEF v1
<1>3. v2 = Node(v0.o, v0.children, d, r, v0.requires_grad, v0.backward_fn, v0.saved)
  BY <1>2, NodeFields, NodeGrad
<1> HIDE DEF v2
<1>4. v3 = Node(v0.o, c, d, r, v0.requires_grad, v0.backward_fn, v0.saved)
  BY <1>3, NodeFields, NodeChildren
<1> HIDE DEF v3
<1>5. v4 = Node(v0.o, c, d, r, v0.requires_grad, f, v0.saved)
  BY <1>4, NodeFields, NodeClosure
<1> HIDE DEF v4
<1>6. v5 = Node(v0.o, c, d, r, v0.requires_grad, f, s)
  BY <1>5, NodeFields, NodeSaved
<1> HIDE DEF v5
<1>7. /\ IsNode(v5) /\ v5.children = c /\ v5.data = d /\ v5.grad = r /\ v5.requires_grad = v0.requires_grad
      /\ v5.backward_fn = f
  BY <1>6, NodeFields
<1>. QED  BY <1>1, <1>7 DEF PassedNode, d, r, c, f

LEMMA BackwardStepKeeps ==
  ASSUME GraphInv, BackwardStep
  PROVE  GraphInv' /\ Len(graph') = Len(graph) /\ pc = "backward" /\ leaves' = leaves
<1> DEFINE n == Last(sorted)
           N == Len(graph)
           g == IF graph[n].grad = Empty THEN graph ELSE RunClosure(n)
           freed == IF n = root THEN {} ELSE {n}
           rest == Front(sorted)
<1>1. /\ pc = "backward" /\ leaves' = leaves /\ root' = root /\ sorted' = rest
      /\ pc' = (IF Len(sorted) = 1 THEN "done" ELSE "backward")
      /\ graph' = IF ~graph[n].backward_fn THEN graph ELSE Passed(g, n, freed)
  BY DEF BackwardStep, Retire
<1>2. /\ GraphOK(graph) /\ LeavesOK(graph) /\ Frozen(graph) /\ Retired(graph) /\ Ahead(graph, sorted)
      /\ N \in Nat /\ leaves \in 0..N
  BY <1>1, GraphIsSeq DEF GraphInv, LeavesOK
<1>3. /\ Len(sorted) \in Nat \ {0} /\ n \in 1..N /\ Topological(graph, rest) /\ Len(rest) = Len(sorted) - 1
      /\ \A i \in 1..(Len(sorted) - 1) : rest[i] = sorted[i] /\ sorted[i] # n
      /\ Len(sorted) # 1 => rest # << >>
  BY <1>2, FrontIs DEF Ahead
<1>4. \A i \in 1..Len(rest) : rest[i] \in 1..N /\ rest[i] # n /\ graph[rest[i]].data # Empty
  <2>1. ASSUME NEW i \in 1..Len(rest) PROVE rest[i] \in 1..N /\ rest[i] # n /\ graph[rest[i]].data # Empty
    <3>1. rest[i] \in 1..N
      BY <1>3, ElementOfSeq DEF Topological
    <3>2. i \in 1..(Len(sorted) - 1) /\ i \in 1..Len(sorted)
      BY <1>3
    <3>. QED  BY <1>2, <1>3, <3>1, <3>2 DEF Ahead
  <2>. QED  BY <2>1
<1>5. CASE ~graph[n].backward_fn
  <2>1. graph' = graph
    BY <1>1, <1>5
  <2>2. pc' = "backward" => Ahead(graph, rest)
    BY <1>1, <1>3, <1>4 DEF Ahead
  <2>3. GraphOK(graph') /\ LeavesOK(graph)' /\ Frozen(graph') /\ Retired(graph)' /\ (pc' = "backward" => Ahead(graph', sorted'))
    BY <1>1, <1>2, <2>1, <2>2 DEF LeavesOK, Retired
  <2>. QED  BY <1>1, <2>1, <2>3 DEF GraphInv
<1>6. CASE graph[n].backward_fn
  <2>1. graph' = Passed(g, n, freed)
    BY <1>1, <1>6
  <2>2. /\ GraphOK(g) /\ LeavesOK(g) /\ Frozen(g) /\ Retired(g) /\ Len(g) = N
        /\ \A m \in 1..N :
             /\ g[m].data = graph[m].data /\ g[m].children = graph[m].children
             /\ g[m].requires_grad = graph[m].requires_grad /\ g[m].backward_fn = graph[m].backward_fn
    BY <1>1, ClosureKeeps
  <2> HIDE DEF g
  <2>3. DOMAIN g = 1..N
    BY <2>2, GraphIsSeq
  <2>4. \A m \in 1..N :
          /\ IsNode(graph'[m]) /\ graph'[m].children = IF m = n THEN << >> ELSE graph[m].children
          /\ graph'[m].data = IF m \in freed THEN Empty ELSE graph[m].data
          /\ graph'[m].grad = IF m \in freed THEN Empty ELSE g[m].grad
          /\ graph'[m].requires_grad = graph[m].requires_grad
          /\ graph'[m].backward_fn = IF m = n THEN FALSE ELSE graph[m].backward_fn
    <3>1. ASSUME NEW m \in 1..N
          PROVE  /\ IsNode(graph'[m]) /\ graph'[m].children = IF m = n THEN << >> ELSE g[m].children
                 /\ graph'[m].data = IF m \in freed THEN Empty ELSE g[m].data
                 /\ graph'[m].grad = IF m \in freed THEN Empty ELSE g[m].grad
                 /\ graph'[m].requires_grad = g[m].requires_grad
                 /\ graph'[m].backward_fn = IF m = n THEN FALSE ELSE g[m].backward_fn
      <4>1. m \in DOMAIN g /\ IsNode(g[m])
        BY <2>2, <2>3 DEF GraphOK
      <4> HIDE DEF freed, n
      <4>2. PassedNode(Passed(g, n, freed)[m], g[m], n, freed, m)
        BY <4>1, PassedIs
      <4>3. PassedNode(graph'[m], g[m], n, freed, m)
        BY <2>1, <4>2
      <4>. QED  BY <4>3 DEF PassedNode
    <3> HIDE DEF freed, n
    <3>. QED  BY <2>2, <3>1
  <2>5. graph' \in Seq({graph'[m] : m \in DOMAIN graph'}) /\ Len(graph') = N
    <3>1. graph' = [m \in 1..N |-> graph'[m]]
      BY <2>1, <2>3 DEF Passed
    <3>. QED  BY <1>2, <3>1, FunIsSeq
  <2>6. freed \subseteq {n} /\ root \notin freed /\ (n # root => n \in freed)
    OBVIOUS
  <2>7. n > leaves
    BY <1>2, <1>3, <1>6 DEF LeavesOK
  <2> HIDE DEF n, freed
  <2>8. GraphOK(graph')
    <3>1. ASSUME NEW m \in 1..N PROVE graph'[m].children \in Seq(1..(m - 1))
      <4>1. << >> \in Seq(1..(m - 1))
        BY EmptySeq
      <4>. QED  BY <1>2, <2>4, <4>1 DEF GraphOK
    <3>. QED  BY <1>2, <2>4, <2>5, <3>1 DEF GraphOK
  <2>9. LeavesOK(graph)'
    <3>1. \A m \in 1..leaves : m \in 1..N /\ m # n /\ m \notin freed
      BY <1>2, <2>6, <2>7
    <3>. QED  BY <1>1, <1>2, <2>4, <2>5, <3>1 DEF LeavesOK
  <2>10. Frozen(graph')
    BY <2>2, <2>4, <2>5 DEF Frozen
  <2>11. Retired(graph)'
    <3>1. root \in 1..N /\ graph'[root].data # Empty
      BY <1>2, <2>4, <2>6 DEF Retired
    <3>2. ASSUME NEW m \in 1..N, m > leaves, m # root, graph'[m].requires_grad, ~graph'[m].backward_fn
          PROVE  graph'[m].data = Empty /\ graph'[m].grad = Empty
      <4>1. CASE m = n
        BY <2>4, <2>6, <3>2, <4>1
      <4>2. CASE m # n
        <5>1. m \notin freed /\ g[m].requires_grad /\ ~g[m].backward_fn
          BY <2>2, <2>4, <2>6, <3>2, <4>2
        <5>2. g[m].data = Empty /\ g[m].grad = Empty
          BY <2>2, <3>2, <5>1 DEF Retired
        <5>. QED  BY <2>2, <2>4, <5>1, <5>2
      <4>. QED  BY <4>1, <4>2
    <3>. QED  BY <1>1, <2>5, <3>1, <3>2 DEF Retired
  <2>12. pc' = "backward" => Ahead(graph', rest)
    <3>1. Topological(graph', rest)
      <4>1. rest \in Seq(1..Len(graph')) /\ \A i, j \in 1..Len(rest) : rest[i] = rest[j] => i = j
        BY <1>3, <2>5 DEF Topological
      <4>2. \A i \in 1..Len(rest) : graph'[rest[i]].children = graph[rest[i]].children
        BY <1>4, <2>4
      <4>3. ASSUME NEW i \in 1..Len(rest), NEW c \in 1..Len(graph'[rest[i]].children)
            PROVE  \E j \in 1..(i - 1) : rest[j] = graph'[rest[i]].children[c]
        <5>1. graph'[rest[i]].children = graph[rest[i]].children
          BY <4>2
        <5>. QED  BY <1>3, <5>1 DEF Topological
      <4>. QED  BY <4>1, <4>3 DEF Topological
    <3>2. \A i \in 1..Len(rest) : graph'[rest[i]].data # Empty
      BY <1>4, <2>4, <2>6
    <3>. QED  BY <1>1, <1>3, <3>1, <3>2 DEF Ahead
  <2>. QED  BY <1>1, <2>5, <2>8, <2>9, <2>10, <2>11, <2>12 DEF GraphInv
<1>. QED  BY <1>5, <1>6

-----------------------------------------------------------------------------
(* The steps of a training run.                                            *)

\* Two sequences, one after the other.
OfLength(a, n) == a = [i \in 1..n |-> a[i]]
Join(a, b) == a \o b

LEMMA JoinIs ==
  ASSUME NEW m \in Nat, NEW a, OfLength(a, m), NEW n \in Nat, NEW b, OfLength(b, n)
  PROVE  /\ OfLength(Join(a, b), m + n)
         /\ \A i \in 1..m : Join(a, b)[i] = a[i]
         /\ \A i \in 1..(m + n) : i > m => Join(a, b)[i] = b[i - m]
<1> DEFINE S == {a[i] : i \in DOMAIN a} \union {b[i] : i \in DOMAIN b}
           h == a \o b
<1>1. a \in Seq(S) /\ Len(a) = m /\ b \in Seq(S) /\ Len(b) = n
  <2>1. a \in Seq({a[i] : i \in DOMAIN a}) /\ Len(a) = m
    BY FunIsSeq DEF OfLength
  <2>2. b \in Seq({b[i] : i \in DOMAIN b}) /\ Len(b) = n
    BY FunIsSeq DEF OfLength
  <2>. QED  BY <2>1, <2>2, SeqMonotonic
<1> HIDE DEF S
<1>2. /\ h \in Seq(S) /\ Len(h) = m + n
      /\ \A i \in 1..(m + n) : h[i] = IF i <= m THEN a[i] ELSE b[i - m]
  BY <1>1, ConcatProperties
<1>3. Join(a, b) = h
  BY DEF Join
<1> HIDE DEF h
<1>4. OfLength(h, m + n)
  BY <1>2, OwnValues DEF OfLength
<1>5. \A i \in 1..m : i \in 1..(m + n) /\ i <= m
  OBVIOUS
<1>6. \A i \in 1..(m + n) : i > m => ~(i <= m)
  OBVIOUS
<1>. QED  BY <1>2, <1>3, <1>4, <1>5, <1>6

\* A leaf with its data and no gradient.
IsLeaf(v) == /\ IsNode(v) /\ v.children = << >> /\ v.data # Empty /\ v.grad = Empty
             /\ v.requires_grad \in BOOLEAN /\ v.backward_fn = FALSE

LEMMA LeafNodeIs == ASSUME NEW d, d # Empty, NEW b \in BOOLEAN PROVE IsLeaf(LeafNode(d, b))
<1>1. IsNode(LeafNode(d, b))
  BY DEF LeafNode, Node, IsNode
<1>2. /\ LeafNode(d, b).children = << >> /\ LeafNode(d, b).data = d /\ LeafNode(d, b).grad = Empty
      /\ LeafNode(d, b).backward_fn = FALSE
  BY DEF LeafNode, Node
<1>3. LeafNode(d, b).requires_grad = b
  BY DEF LeafNode, Node
<1>. QED  BY <1>1, <1>2, <1>3 DEF IsLeaf

LEMMA InputsAre ==
  IsLeaf(InputLeaf) /\ <<InputLeaf>> = [i \in 1..1 |-> InputLeaf] /\ <<InputLeaf, InputLeaf>> = [i \in 1..2 |-> InputLeaf]
<1>1. IsLeaf(InputLeaf)
  BY LeafNodeIs, TensorFull DEF InputLeaf
<1>. QED  BY <1>1

\* A graph of leaves alone.
LEMMA LeavesAlone ==
  ASSUME NEW N \in Nat, graph = [n \in 1..N |-> graph[n]], \A n \in 1..N : IsLeaf(graph[n]), leaves = N, pc = "forward"
  PROVE  GraphInv /\ Len(graph) = N
<1>1. graph \in Seq({graph[n] : n \in DOMAIN graph}) /\ Len(graph) = N
  BY FunIsSeq
<1>2. GraphOK(graph)
  <2>1. ASSUME NEW n \in 1..N PROVE graph[n].children \in Seq(1..(n - 1))
    BY EmptySeq DEF IsLeaf
  <2>. QED  BY <1>1, <2>1 DEF GraphOK, IsLeaf
<1>3. LeavesOK(graph) /\ Frozen(graph) /\ AllThere(graph)
  <2>1. leaves \in 0..N /\ \A n \in 1..N : ~(n > leaves)
    OBVIOUS
  <2>. QED  BY <1>1, <2>1 DEF LeavesOK, Frozen, AllThere, IsLeaf
<1>. QED  BY <1>1, <1>2, <1>3 DEF GraphInv

LEMMA Initially == Init => IInv
<1> SUFFICES ASSUME Init PROVE IInv
  OBVIOUS
<1>1. PICK device \in Devices, p \in Programs :
        LET leaf == [k \in DOMAIN p.shapes |-> LeafNode(Initial(p, k), k \notin p.frozen)]
            inputs == IF p = Explore THEN <<InputLeaf>> ELSE <<InputLeaf, InputLeaf>>
        IN /\ GraphInit(device, leaf \o inputs)
           /\ program = p /\ issued = -1 /\ micro = -1 /\ step = 0 /\ file = Empty
  BY DEF Init
<1> DEFINE P == Len(p.shapes)
           leaf == [k \in 1..P |-> LeafNode(Initial(p, k), k \notin p.frozen)]
           two == IF p = Explore THEN 1 ELSE 2
           inputs == IF p = Explore THEN <<InputLeaf>> ELSE <<InputLeaf, InputLeaf>>
<1>2. P \in Nat /\ DOMAIN p.shapes = 1..P
  BY ProgramsAssumption, LenProperties
<1>3. graph = leaf \o inputs /\ pc = "forward" /\ leaves = Len(graph)
  <2>1. GraphInit(device, leaf \o inputs)
    BY <1>1, <1>2
  <2> HIDE DEF leaf, inputs
  <2>. QED  BY <2>1 DEF GraphInit, walk
<1>4. ASSUME NEW k \in 1..P PROVE IsLeaf(leaf[k])
  <2>1. Initial(p, k) # Empty
    BY TensorFull DEF Initial
  <2>2. (k \notin p.frozen) \in BOOLEAN
    OBVIOUS
  <2>3. leaf[k] = LeafNode(Initial(p, k), k \notin p.frozen)
    OBVIOUS
  <2> DEFINE b == k \notin p.frozen
  <2> HIDE DEF leaf, b
  <2>. QED  BY <2>1, <2>2, <2>3, LeafNodeIs DEF b
<1>5. leaf = [k \in 1..P |-> leaf[k]]
  OBVIOUS
<1>6. two \in Nat /\ inputs = [i \in 1..two |-> InputLeaf] /\ inputs = [i \in 1..two |-> inputs[i]]
  BY InputsAre
<1>7. p # Explore => two = 2
  OBVIOUS
<1> HIDE DEF P, leaf, inputs, two
<1>8. /\ OfLength(graph, P + two)
      /\ \A n \in 1..P : graph[n] = leaf[n]
      /\ \A n \in 1..(P + two) : n > P => graph[n] = inputs[n - P]
  <2>1. OfLength(leaf, P) /\ OfLength(inputs, two)
    BY <1>5, <1>6 DEF OfLength
  <2>2. graph = Join(leaf, inputs)
    BY <1>3 DEF Join
  <2>3. P \in Nat /\ two \in Nat
    BY <1>2, <1>6
  <2>4. /\ OfLength(Join(leaf, inputs), P + two)
        /\ \A n \in 1..P : Join(leaf, inputs)[n] = leaf[n]
        /\ \A n \in 1..(P + two) : n > P => Join(leaf, inputs)[n] = inputs[n - P]
    BY <2>1, <2>3, JoinIs
  <2>. QED  BY <2>2, <2>4
<1>9. ASSUME NEW n \in 1..(P + two) PROVE IsLeaf(graph[n])
  <2>1. CASE n <= P
    <3>1. n \in 1..P
      BY <1>2, <1>6, <2>1
    <3>. QED  BY <1>4, <1>8, <3>1
  <2>2. CASE n > P
    <3>1. n - P \in 1..two
      BY <1>2, <1>6, <2>2
    <3>2. inputs[n - P] = InputLeaf
      BY <1>6, <3>1
    <3>. QED  BY <1>8, <2>2, <3>2, InputsAre
  <2>3. n <= P \/ n > P
    BY <1>2, <1>6
  <2>. QED  BY <2>1, <2>2, <2>3
<1>10. P + two \in Nat
  BY <1>2, <1>6
<1>11. GraphInv /\ Len(graph) = P + two
  <2>1. graph = [n \in 1..(P + two) |-> graph[n]]
    BY <1>8 DEF OfLength
  <2>2. Len(graph) = P + two
    BY <1>10, <2>1, FunIsSeq
  <2>3. pc = "forward" /\ leaves = P + two
    BY <1>3, <2>2
  <2>. QED  BY <1>9, <1>10, <2>1, <2>3, LeavesAlone
<1>12. RunInv
  <2>1. program = p /\ issued = -1 /\ micro = -1 /\ step = 0 /\ file = Empty
    BY <1>1
  <2>2. program # Explore => leaves = Params + 2
    BY <1>3, <1>7, <1>11, <2>1 DEF Params, P
  <2>. QED  BY <1>3, <2>1, <2>2 DEF RunInv
<1>. QED  BY <1>11, <1>12 DEF IInv

\* Between micro-batches the graph is its leaves.
LEMMA Between ==
  ASSUME IInv, program # Explore, issued = -1
  PROVE  pc = "forward" /\ Len(graph) = leaves /\ leaves = Params + 2 /\ Params \in Nat
<1>1. Params \in Nat
  BY ProgramsAssumption, LenProperties DEF IInv, RunInv, Params
<1>. QED  BY <1>1 DEF IInv, RunInv

LEMMA StartStepKeeps == ASSUME IInv, StartStep PROVE IInv'
<1>1. program # Explore
  BY DEF StartStep, Explore, Job, IInv, RunInv
<1>2. /\ GraphInv' /\ Len(graph') = Len(graph) /\ pc = "forward" /\ pc' = "forward" /\ Len(graph) = leaves
      /\ leaves' = leaves
  BY ZeroGradKeeps DEF StartStep, ZeroGrad, IInv, walk
<1>3. RunInv'
  BY <1>1, <1>2 DEF StartStep, IInv, RunInv, Params
<1>. QED  BY <1>2, <1>3 DEF IInv

LEMMA NextBatchKeeps == ASSUME IInv, NextBatch PROVE IInv'
<1>1. program # Explore /\ issued = -1
  BY DEF NextBatch, IInv, RunInv, Explore, Job
<1>2. pc = "forward" /\ Len(graph) = leaves /\ leaves = Params + 2 /\ Params \in Nat
  BY <1>1, Between
<1>3. \E x, y : x # Empty /\ y # Empty /\ graph' = [graph EXCEPT ![Params + 1].data = x, ![Params + 2].data = y]
  <2> DEFINE from  == IF position < Windows THEN position ELSE 0
             size  == IF Windows - from < BatchSize THEN Windows - from ELSE BatchSize
             at(e, shift) == Const(Token(Window(e \div SeqLen), (e % SeqLen) + shift))
             ids   == Tensor(IdsShape(program.layout, size), Floats(size * SeqLen, LAMBDA e : at(e, 0)))
             targets == Tensor(<<size * SeqLen, 1>>, Floats(size * SeqLen, LAMBDA e : at(e, 1)))
  <2>1. ids # Empty /\ targets # Empty
    BY TensorFull
  <2>2. graph' = [graph EXCEPT ![Params + 1].data = ids, ![Params + 2].data = targets]
    BY DEF NextBatch
  <2> HIDE DEF ids, targets
  <2>. QED  BY <2>1, <2>2
<1>4. PICK x, y : x # Empty /\ y # Empty /\ graph' = [graph EXCEPT ![Params + 1].data = x, ![Params + 2].data = y]
  BY <1>3
<1>5. DOMAIN graph = 1..Len(graph) /\ GraphOK(graph) /\ graph = [n \in 1..Len(graph) |-> graph[n]]
  BY GraphIsSeq DEF IInv, GraphInv
<1> DEFINE new(n) == IF n = Params + 1 THEN [graph[n] EXCEPT !.data = x]
                     ELSE IF n = Params + 2 THEN [graph[n] EXCEPT !.data = y] ELSE graph[n]
<1>6. graph' = [n \in 1..Len(graph) |-> new(n)]
  <2> DEFINE a == Params + 1
             b == Params + 2
             one == [graph EXCEPT ![a] = [graph[a] EXCEPT !.data = x]]
  <2>1. a # b /\ a \in 1..Len(graph) /\ b \in 1..Len(graph)
    BY <1>2
  <2>2. graph' = [one EXCEPT ![b] = [one[b] EXCEPT !.data = y]]
    BY <1>4
  <2> HIDE DEF a, b
  <2>3. one = [n \in 1..Len(graph) |-> IF n = a THEN [graph[a] EXCEPT !.data = x] ELSE graph[n]]
    BY <1>5, <2>1
  <2> HIDE DEF one
  <2>4. one[b] = graph[b]
    BY <2>1, <2>3
  <2>5. graph' = [n \in 1..Len(graph) |-> IF n = b THEN [graph[b] EXCEPT !.data = y] ELSE one[n]]
    BY <2>2, <2>3, <2>4
  <2>. QED  BY <2>1, <2>3, <2>5 DEF a, b
<1>7. ASSUME NEW n \in 1..Len(graph) PROVE Refit(graph[n], graph'[n])
  <2>1. IsNode(graph[n])
    BY <1>5 DEF GraphOK
  <2>2. ASSUME NEW d, d # Empty PROVE Refit(graph[n], [graph[n] EXCEPT !.data = d])
    BY <2>1, <2>2, NodeData, NodeFields DEF Refit
  <2>3. Refit(graph[n], graph[n])
    BY <2>1 DEF IsNode, Refit
  <2>4. graph'[n] \in {[graph[n] EXCEPT !.data = x], [graph[n] EXCEPT !.data = y], graph[n]}
    BY <1>6
  <2>. QED  BY <1>4, <2>2, <2>3, <2>4
<1>8. Refilled(graph, graph')
  <2>1. graph' = [n \in 1..Len(graph) |-> graph'[n]]
    BY <1>6
  <2>. QED  BY <1>7, <2>1 DEF Refilled
<1>9. GraphInv' /\ Len(graph') = Len(graph)
  BY <1>2, <1>8, RefillKeeps DEF NextBatch, IInv, walk
<1>10. RunInv'
  BY <1>1, <1>2, <1>9 DEF NextBatch, IInv, RunInv, Params, walk
<1>. QED  BY <1>9, <1>10 DEF IInv

\* An operand of the program is a variable alive.
LEMMA OperandsAlive ==
  ASSUME IInv, pc = "forward", issued \in 0..(Len(Code) - 1)
  PROVE  LET call == Code[issued + 1]
         IN call.o.op \in OpNames /\ Operands(call) # << >> /\ Operands(call) \in Seq(1..Len(graph))
<1> DEFINE call == Code[issued + 1]
           P == Params
<1>1. /\ program \in Programs /\ program # Explore /\ leaves = P + 2 /\ Len(graph) >= leaves + issued
      /\ Len(graph) \in Nat
  BY GraphIsSeq DEF IInv, RunInv, GraphInv
<1>2. InOrder(Code, P + 2) /\ P \in Nat
  BY <1>1, ProgramsAssumption, LenProperties DEF Code, Params
<1>3. issued \in Nat /\ issued + 1 \in 1..Len(Code)
  BY <1>2 DEF InOrder
<1>4. call.o.op \in OpNames /\ call.kids # << >> /\ call.kids \in Seq((-(P + 2))..(-1) \union 1..((issued + 1) - 1))
  BY <1>2, <1>3 DEF InOrder
<1> DEFINE K == (-(P + 2))..(-1) \union 1..((issued + 1) - 1)
           f == Operands(call)
<1> HIDE DEF call, K, P
<1>5. Len(call.kids) \in Nat \ {0} /\ DOMAIN call.kids = 1..Len(call.kids) /\ \A i \in 1..Len(call.kids) : call.kids[i] \in K
  BY <1>4, EmptySeq, LenProperties, ElementOfSeq DEF K
<1>6. \A k \in K : Variable(k) \in 1..Len(graph)
  BY <1>1, <1>2, <1>3 DEF K, Variable
<1>7. f = [i \in 1..Len(call.kids) |-> Variable(call.kids[i])]
  BY <1>5 DEF Operands
<1> HIDE DEF f
<1> DEFINE S == 1..Len(graph)
<1>8. f \in [1..Len(call.kids) -> S]
  BY <1>5, <1>6, <1>7
<1> HIDE DEF S
<1>9. f \in Seq(S) /\ Len(f) = Len(call.kids)
  BY <1>5, <1>8
<1>10. f # << >>
  BY <1>5, <1>9
<1>. QED  BY <1>4, <1>9, <1>10 DEF f, S, call

LEMMA IssueKeeps == ASSUME IInv, Issue PROVE IInv'
<1>1. issued \in 0..(Len(Code) - 1) /\ pc = "forward" /\ program # Explore /\ issued # -1
  BY DEF Issue, Forward, IInv, RunInv
<1>2. GraphInv' /\ Len(graph') = Len(graph) + 1
  BY <1>1, OperandsAlive, ForwardKeeps DEF Issue, IInv
<1>3. /\ issued' = issued + 1 /\ leaves' = leaves /\ pc' = pc
      /\ UNCHANGED <<program, micro, step, file>>
  BY DEF Issue, Forward, walk
<1>4. leaves \in Nat /\ Len(graph) \in Nat
  BY GraphIsSeq DEF IInv, GraphInv, LeavesOK
<1>5. issued \in Nat
  BY <1>1 DEF IInv, RunInv
<1>6. Len(graph') >= leaves' + issued'
  BY <1>1, <1>2, <1>3, <1>4, <1>5 DEF IInv, RunInv
<1>7. Params' = Params
  BY <1>3 DEF Params
<1>8. RunInv'
  BY <1>1, <1>3, <1>5, <1>6, <1>7 DEF IInv, RunInv
<1>. QED  BY <1>2, <1>8 DEF IInv

LEMMA BackwardKeeps == ASSUME IInv, Backward PROVE IInv'
<1>1. GraphInv' /\ pc' = "backward" /\ leaves' = leaves /\ pc = "forward"
  BY StartBackwardKeeps DEF Backward, IInv, StartBackward
<1>2. program # Explore /\ program \in Programs /\ issued = Len(Code) /\ UNCHANGED <<program, issued, micro, step, file>>
  BY DEF Backward, runVars, progress, IInv, RunInv
<1>3. Len(Code) \in Nat
  BY <1>2, ProgramsAssumption DEF Code, InOrder
<1>4. RunInv'
  BY <1>1, <1>2, <1>3 DEF IInv, RunInv, Params
<1>. QED  BY <1>1, <1>4 DEF IInv

LEMMA WaveKeeps == ASSUME IInv, Wave PROVE IInv'
<1>1. GraphInv' /\ Len(graph') = Len(graph) /\ pc = "backward" /\ leaves' = leaves
  BY BackwardStepKeeps DEF Wave, IInv
<1>2. UNCHANGED <<program, issued, micro, step, file>> /\ pc' # "forward"
  BY DEF Wave, runVars, progress, BackwardStep
<1>3. RunInv'
  BY <1>1, <1>2 DEF IInv, RunInv, Params
<1>. QED  BY <1>1, <1>3 DEF IInv

LEMMA EndMicroKeeps == ASSUME IInv, EndMicro PROVE IInv'
<1>1. GraphInv' /\ Len(graph') = leaves' /\ leaves' = leaves /\ pc' = "forward"
  BY ReleaseKeeps DEF EndMicro, IInv
<1>2. RunInv'
  BY <1>1 DEF EndMicro, IInv, RunInv, Params
<1>. QED  BY <1>1, <1>2 DEF IInv

LEMMA RefitIs ==
  ASSUME NEW v, NEW w, NEW d, NEW r,
         w = Node(v.o, v.children, d, r, v.requires_grad, v.backward_fn, v.saved),
         v.data # Empty => d # Empty, ~v.requires_grad /\ v.grad = Empty => r = Empty
  PROVE  Refit(v, w) /\ IsNode(w)
<1>1. w.data = d /\ w.grad = r /\ IsNode(w)
  BY NodeFields
<1>. QED  BY <1>1 DEF Refit

\* A sequence of n nodes, and the same nodes refitted.
Nodes(a, n) == a = [k \in 1..n |-> a[k]] /\ \A k \in 1..n : IsNode(a[k])
Refits(a, h, n) == Nodes(h, n) /\ \A k \in 1..n : Refit(a[k], h[k])

LEMMA ScaleGradsRefits ==
  ASSUME NEW n \in Nat, NEW a, Nodes(a, n), NEW s
  PROVE  Refits(a, ScaleGrads(a, s), n)
<1> DEFINE h == ScaleGrads(a, s)
           new(k) == Scale(a[k].grad, s)
<1>1. h = [k \in 1..n |-> IF Active(a[k]) THEN [a[k] EXCEPT !.grad = new(k)] ELSE a[k]]
  BY DEF ScaleGrads, Nodes
<1> HIDE DEF h, new
<1>2. ASSUME NEW k \in 1..n PROVE Refit(a[k], h[k]) /\ IsNode(h[k])
  <2>1. CASE Active(a[k])
    <3>1. h[k] = [a[k] EXCEPT !.grad = new(k)]
      BY <1>1, <2>1
    <3>2. h[k] = Node(a[k].o, a[k].children, a[k].data, new(k), a[k].requires_grad, a[k].backward_fn, a[k].saved)
      BY <3>1, NodeGrad DEF Nodes
    <3>3. a[k].requires_grad
      BY <2>1 DEF Active
    <3>. QED  BY <3>2, <3>3, RefitIs
  <2>2. CASE ~Active(a[k])
    <3>1. h[k] = a[k]
      BY <1>1, <2>2
    <3>2. IsNode(a[k])
      BY DEF Nodes
    <3>. QED  BY <3>1, <3>2 DEF Refit, IsNode
  <2>. QED  BY <2>1, <2>2
<1>3. h = [k \in 1..n |-> h[k]]
  BY <1>1
<1>. QED  BY <1>2, <1>3 DEF h, Refits, Nodes

LEMMA StepRefits ==
  ASSUME NEW n \in Nat, NEW a, Nodes(a, n), NEW state
  PROVE  Refits(a, StepParams(state, a), n)
<1> DEFINE h == StepParams(state, a)
           after == StepState(state, a)
           new(k) == Updated(a[k], after.m[k], after.v[k], after.lr, after.step_count)
<1>1. h = [k \in 1..n |-> IF ~Active(a[k]) THEN a[k] ELSE [a[k] EXCEPT !.data = new(k)]]
  BY DEF StepParams, Nodes
<1>2. \A k \in 1..n : new(k) # Empty
  BY TensorFull DEF Updated
<1> HIDE DEF h, new
<1>3. ASSUME NEW k \in 1..n PROVE Refit(a[k], h[k]) /\ IsNode(h[k])
  <2>1. CASE Active(a[k])
    <3>1. h[k] = [a[k] EXCEPT !.data = new(k)]
      BY <1>1, <2>1
    <3>2. h[k] = Node(a[k].o, a[k].children, new(k), a[k].grad, a[k].requires_grad, a[k].backward_fn, a[k].saved)
      BY <3>1, NodeData DEF Nodes
    <3>3. a[k].requires_grad
      BY <2>1 DEF Active
    <3>. QED  BY <1>2, <3>2, <3>3, RefitIs
  <2>2. CASE ~Active(a[k])
    <3>1. h[k] = a[k]
      BY <1>1, <2>2
    <3>2. IsNode(a[k])
      BY DEF Nodes
    <3>. QED  BY <3>1, <3>2 DEF Refit, IsNode
  <2>. QED  BY <2>1, <2>2
<1>4. h = [k \in 1..n |-> h[k]]
  BY <1>1
<1>. QED  BY <1>3, <1>4 DEF h, Refits, Nodes

\* A part of a graph.
LEMMA PartIs ==
  ASSUME NEW g, GraphOK(g), NEW m \in 1..(Len(g) + 1), NEW n \in Nat, m + n - 1 <= Len(g)
  PROVE  /\ Nodes(SubSeq(g, m, m + n - 1), n)
         /\ \A k \in 1..n : SubSeq(g, m, m + n - 1)[k] = g[m + k - 1] /\ m + k - 1 \in 1..Len(g)
<1> DEFINE S == {g[k] : k \in DOMAIN g}
           e == m + n - 1
           h == SubSeq(g, m, e)
<1>1. g \in Seq(S) /\ Len(g) \in Nat
  BY GraphIsSeq DEF GraphOK
<1>2. m \in Nat /\ m >= 1 /\ e \in Int /\ n = (IF m <= e THEN e - m + 1 ELSE 0)
  BY <1>1
<1>3. \A k \in m..e : k \in 1..Len(g) /\ g[k] \in S
  <2>1. \A k \in m..e : k \in 1..Len(g)
    BY <1>1, <1>2
  <2> HIDE DEF S, e
  <2>. QED  BY <1>1, <2>1, ElementOfSeq
<1>4. \A k \in 1..n : m + k - 1 \in 1..Len(g) /\ k \in 1..(e - m + 1)
  BY <1>1, <1>2
<1> HIDE DEF S, e
<1>5. /\ h \in Seq(S) /\ Len(h) = (IF m <= e THEN e - m + 1 ELSE 0)
      /\ \A k \in 1..(e - m + 1) : h[k] = g[m + k - 1]
  BY <1>1, <1>2, <1>3, SubSeqProperties
<1> HIDE DEF h
<1>6. h = [k \in 1..n |-> h[k]]
  BY <1>2, <1>5, OwnValues
<1>7. \A k \in 1..n : h[k] = g[m + k - 1] /\ m + k - 1 \in 1..Len(g) /\ IsNode(h[k])
  BY <1>4, <1>5 DEF GraphOK
<1>. QED  BY <1>6, <1>7 DEF h, e, Nodes

\* A sequence of nodes before another.
LEMMA NodesJoin ==
  ASSUME NEW m \in Nat, NEW a, Nodes(a, m), NEW n \in Nat, NEW b, Nodes(b, n)
  PROVE  /\ Nodes(Join(a, b), m + n)
         /\ \A i \in 1..m : Join(a, b)[i] = a[i]
         /\ \A i \in 1..(m + n) : i > m => Join(a, b)[i] = b[i - m]
<1>1. OfLength(a, m) /\ OfLength(b, n)
  BY DEF Nodes, OfLength
<1>2. /\ OfLength(Join(a, b), m + n)
      /\ \A i \in 1..m : Join(a, b)[i] = a[i]
      /\ \A i \in 1..(m + n) : i > m => Join(a, b)[i] = b[i - m]
  BY <1>1, JoinIs
<1>3. ASSUME NEW i \in 1..(m + n) PROVE IsNode(Join(a, b)[i])
  <2>1. i \in 1..m \/ (i > m /\ i - m \in 1..n)
    OBVIOUS
  <2>. QED  BY <1>2, <2>1 DEF Nodes
<1>. QED  BY <1>2, <1>3 DEF Nodes, OfLength

\* Between two steps of a training run the graph is its leaves.
LEMMA StepIsOver ==
  ASSUME IInv, program # Explore, micro \notin 0..(program.micros - 1)
  PROVE  /\ issued = -1 /\ pc = "forward" /\ Len(graph) = leaves /\ leaves = Params + 2
         /\ Params \in Nat /\ GraphOK(graph) /\ LeavesOK(graph)
<1>1. issued = -1
  BY DEF IInv, RunInv
<1>2. Params \in Nat
  BY ProgramsAssumption, LenProperties DEF IInv, RunInv, Params
<1>. QED  BY <1>1, <1>2 DEF IInv, RunInv, GraphInv

LEMMA UpdateParamsKeeps == ASSUME IInv, UpdateParams PROVE IInv'
<1> DEFINE P == Params
           factor == IF program.micros > 1 THEN Share(program.micros) ELSE One
           params == SubSeq(graph, 1, P)
           rest == SubSeq(graph, P + 1, leaves)
           scaled == ScaleGrads(params, factor)
           clipped == ClipGradNorm(scaled)
           after == StepParams(opt, clipped)
<1>1. /\ issued = -1 /\ pc = "forward" /\ Len(graph) = P + 2 /\ leaves = P + 2
      /\ P \in Nat /\ GraphOK(graph) /\ program # Explore
  BY StepIsOver DEF UpdateParams
<1>2. graph' = Join(after, rest)
  BY DEF UpdateParams, Join
<1>3. UNCHANGED <<leaves, pc, root, sorted, program, issued, file>> /\ step' = step + 1 /\ micro' = -1
  BY DEF UpdateParams, walk
<1> HIDE DEF factor
<1>4. Nodes(params, P) /\ \A k \in 1..P : params[k] = graph[k]
  <2>1. 1 \in 1..(Len(graph) + 1) /\ 1 + P - 1 <= Len(graph) /\ 1 + P - 1 = P /\ \A k \in 1..P : 1 + k - 1 = k
    BY <1>1
  <2> HIDE DEF P
  <2>2. /\ Nodes(SubSeq(graph, 1, 1 + P - 1), P)
        /\ \A k \in 1..P : SubSeq(graph, 1, 1 + P - 1)[k] = graph[1 + k - 1]
    BY <1>1, <2>1, PartIs
  <2>. QED  BY <2>1, <2>2
<1>5. Nodes(rest, 2) /\ \A k \in 1..2 : rest[k] = graph[P + k]
  <2>1. P + 1 \in 1..(Len(graph) + 1) /\ P + 1 + 2 - 1 <= Len(graph) /\ P + 1 + 2 - 1 = leaves
        /\ \A k \in 1..2 : P + 1 + k - 1 = P + k
    BY <1>1
  <2> DEFINE Q == P + 1
  <2>2. Q \in 1..(Len(graph) + 1) /\ Q + 2 - 1 <= Len(graph) /\ Q + 2 - 1 = leaves
        /\ \A k \in 1..2 : Q + k - 1 = P + k
    BY <2>1
  <2>3. rest = SubSeq(graph, Q, leaves) /\ 2 \in Nat
    OBVIOUS
  <2> HIDE DEF P, Q, rest
  <2>4. Nodes(SubSeq(graph, Q, Q + 2 - 1), 2) /\ \A k \in 1..2 : SubSeq(graph, Q, Q + 2 - 1)[k] = graph[Q + k - 1]
    BY <1>1, <2>2, <2>3, PartIs
  <2>. QED  BY <2>2, <2>3, <2>4
<1> HIDE DEF params, rest
<1>6. Refits(params, scaled, P)
  <2> HIDE DEF P
  <2>. QED  BY <1>1, <1>4, ScaleGradsRefits
<1> HIDE DEF scaled
<1>7. Refits(scaled, clipped, P)
  <2> DEFINE s == ClipCoefficient(SumSquares(scaled))
  <2>1. clipped = ScaleGrads(scaled, s)
    BY DEF ClipGradNorm
  <2> HIDE DEF P, s, clipped
  <2>. QED  BY <1>1, <1>6, <2>1, ScaleGradsRefits DEF Refits
<1> HIDE DEF clipped
<1>8. Refits(clipped, after, P)
  <2> HIDE DEF P
  <2>. QED  BY <1>1, <1>7, StepRefits DEF Refits
<1> HIDE DEF after
<1>9. /\ Nodes(graph', P + 2) /\ \A k \in 1..P : graph'[k] = after[k]
      /\ \A k \in 1..(P + 2) : k > P => graph'[k] = rest[k - P]
  <2> DEFINE two == 2
  <2>1. P \in Nat /\ two \in Nat /\ Nodes(after, P) /\ Nodes(rest, two)
    BY <1>1, <1>5, <1>8 DEF Refits
  <2> SUFFICES /\ Nodes(graph', P + two) /\ \A k \in 1..P : graph'[k] = after[k]
               /\ \A k \in 1..(P + two) : k > P => graph'[k] = rest[k - P]
    OBVIOUS
  <2> HIDE DEF P, two
  <2>2. /\ Nodes(Join(after, rest), P + two) /\ \A k \in 1..P : Join(after, rest)[k] = after[k]
        /\ \A k \in 1..(P + two) : k > P => Join(after, rest)[k] = rest[k - P]
    BY <2>1, NodesJoin
  <2>. QED  BY <1>2, <2>2
<1>10. ASSUME NEW k \in 1..(P + 2) PROVE Refit(graph[k], graph'[k])
  <2>1. CASE k <= P
    <3>1. k \in 1..P
      BY <1>1, <2>1
    <3> HIDE DEF P
    <3>2. Refit(graph[k], scaled[k]) /\ Refit(scaled[k], clipped[k]) /\ Refit(clipped[k], graph'[k])
      BY <1>4, <1>6, <1>7, <1>8, <1>9, <3>1 DEF Refits
    <3>. QED  BY <3>2, RefitTwice
  <2>2. CASE k > P
    <3>1. k - P \in 1..2 /\ P + (k - P) = k /\ k \in 1..Len(graph)
      BY <1>1, <2>2
    <3>2. graph'[k] = graph[k]
      BY <1>5, <1>9, <2>2, <3>1
    <3>. QED  BY <1>1, <3>1, <3>2 DEF Refit, GraphOK, IsNode
  <2>. QED  BY <1>1, <2>1, <2>2
<1>11. Refilled(graph, graph')
  <2> HIDE DEF P
  <2>. QED  BY <1>1, <1>9, <1>10 DEF Refilled, Nodes
<1>12. GraphInv' /\ Len(graph') = Len(graph)
  BY <1>1, <1>3, <1>11, RefillKeeps DEF IInv
<1>13. RunInv'
  BY <1>1, <1>3, <1>12 DEF IInv, RunInv, Params
<1>. QED  BY <1>12, <1>13 DEF IInv

\* A checkpoint's weights are those of leaves.
LEMMA SaveKeeps == ASSUME IInv, Save PROVE IInv'
<1>1. /\ program # Explore /\ UNCHANGED <<graph, leaves, pc, root, sorted, program, issued, micro, step>>
      /\ file'.weights = Weights /\ file'.step = step
  BY DEF Save, graphVars, walk, progress
<1>2. Params \in Nat /\ leaves = Params + 2 /\ LeavesOK(graph)
  BY <1>1, ProgramsAssumption, LenProperties DEF IInv, RunInv, GraphInv, Params
<1>3. \A k \in 1..Params : file'.weights[k] # Empty
  <2>1. \A k \in 1..Params : k \in 1..leaves
    BY <1>2
  <2>. QED  BY <1>1, <1>2, <2>1 DEF Weights, LeavesOK
<1>4. GraphInv'
  BY <1>1, GraphStands DEF IInv
<1>5. RunInv'
  BY <1>1, <1>3 DEF IInv, RunInv, Params
<1>. QED  BY <1>4, <1>5 DEF IInv

LEMMA GenerateKeeps == ASSUME IInv, Generate PROVE IInv'
<1>1. UNCHANGED <<graph, leaves, pc, root, sorted, program, issued, micro, step, file>>
  BY DEF Generate, graphVars, walk, progress
<1>2. GraphInv'
  BY <1>1, GraphStands DEF IInv
<1>3. RunInv'
  BY <1>1 DEF IInv, RunInv, Params
<1>. QED  BY <1>2, <1>3 DEF IInv

LEMMA StutterKeeps == ASSUME IInv, UNCHANGED vars PROVE IInv'
<1>1. UNCHANGED <<graph, leaves, pc, root, sorted, program, issued, micro, step, file>>
  BY DEF vars, graphVars, runVars, walk, progress
<1>2. GraphInv'
  BY <1>1, GraphStands DEF IInv
<1>3. RunInv'
  BY <1>1 DEF IInv, RunInv, Params
<1>. QED  BY <1>2, <1>3 DEF IInv

\* Exploring, a step has only to keep the graph.
LEMMA ExploringKeeps ==
  ASSUME IInv, program = Explore, UNCHANGED runVars, GraphInv' PROVE IInv'
<1>1. UNCHANGED <<program, issued, micro, step, file>>
  BY DEF runVars, progress
<1>2. RunInv'
  BY <1>1 DEF IInv, RunInv, Params
<1>. QED  BY <1>2 DEF IInv

LEMMA ExploreForwardKeeps == ASSUME IInv, ExploreForward PROVE IInv'
<1>1. program = Explore /\ UNCHANGED runVars /\ FreeForward
  BY DEF ExploreForward, Exploring
<1>2. PICK o \in FreeOps : \E kids \in [1..Arity(o) -> DOMAIN graph] : Forward(o, kids)
  BY <1>1 DEF FreeForward
<1>3. PICK kids \in [1..Arity(o) -> DOMAIN graph] : Forward(o, kids)
  BY <1>2
<1>4. Arity(o) \in {1, 2} /\ o.op \in OpNames
  BY DEF FreeOps, Arity, OpNames
<1>5. DOMAIN graph = 1..Len(graph)
  BY GraphIsSeq DEF IInv, GraphInv
<1> DEFINE S == 1..Len(graph)
           a == Arity(o)
<1>6. a \in Nat /\ a # 0 /\ kids \in [1..a -> S]
  BY <1>4, <1>5
<1> HIDE DEF S, a
<1>7. kids \in Seq(S) /\ Len(kids) = a /\ kids # << >>
  BY <1>6
<1>8. GraphInv'
  BY <1>3, <1>4, <1>7, ForwardKeeps DEF S, IInv
<1>. QED  BY <1>1, <1>8, ExploringKeeps

LEMMA ExploreModeKeeps == ASSUME IInv, ExploreEnter \/ ExploreExit PROVE IInv'
<1>1. program = Explore /\ UNCHANGED runVars /\ UNCHANGED <<graph, leaves, pc, root, sorted>>
  BY DEF ExploreEnter, ExploreExit, Exploring, EnterNoGrad, ExitNoGrad, walk
<1>2. GraphInv'
  BY <1>1, GraphStands DEF IInv
<1>. QED  BY <1>1, <1>2, ExploringKeeps

LEMMA ExploreWaveKeeps == ASSUME IInv, ExploreBackward \/ ExploreRelease \/ ExploreZeroGrad PROVE IInv'
<1>1. CASE ExploreBackward
  <2>1. PICK r : StartBackward(r)
    BY <1>1 DEF ExploreBackward, Exploring
  <2>2. GraphInv'
    BY <2>1, StartBackwardKeeps DEF IInv
  <2>. QED  BY <1>1, <2>2, ExploringKeeps DEF ExploreBackward, Exploring
<1>2. CASE ExploreRelease
  <2>1. GraphInv'
    BY <1>2, ReleaseKeeps DEF IInv, ExploreRelease, Exploring
  <2>. QED  BY <1>2, <2>1, ExploringKeeps DEF ExploreRelease, Exploring
<1>3. CASE ExploreZeroGrad
  <2>1. GraphInv'
    BY <1>3, ZeroGradKeeps DEF IInv, ExploreZeroGrad, Exploring
  <2>. QED  BY <1>3, <2>1, ExploringKeeps DEF ExploreZeroGrad, Exploring
<1>. QED  BY <1>1, <1>2, <1>3

\* A process that goes on from a checkpoint has a graph of leaves.
LEMMA ResumeKeeps == ASSUME IInv, Resume PROVE IInv'
<1> DEFINE P == Params
           two == 2
           params == [k \in 1..P |-> [graph[k] EXCEPT !.data = file.weights[k], !.grad = Empty]]
           inputs == <<InputLeaf, InputLeaf>>
<1>1. /\ file # Empty /\ program # Explore /\ leaves = P + two /\ P \in Nat /\ two \in Nat
      /\ GraphOK(graph) /\ LeavesOK(graph)
  BY ProgramsAssumption, LenProperties DEF Resume, IInv, RunInv, GraphInv, Params
<1>2. /\ graph' = params \o inputs /\ UNCHANGED <<leaves, program, file>>
      /\ step' = file.step /\ issued' = -1 /\ micro' = -1 /\ pc' = "forward"
  BY DEF Resume
<1>3. \A k \in 1..P : k \in 1..leaves /\ k \in 1..Len(graph)
  BY <1>1, GraphIsSeq DEF LeavesOK
<1>4. ASSUME NEW k \in 1..P
      PROVE  /\ IsNode(params[k]) /\ params[k].children = graph[k].children /\ params[k].data = file.weights[k]
             /\ params[k].grad = Empty /\ params[k].requires_grad = graph[k].requires_grad
             /\ params[k].backward_fn = graph[k].backward_fn
  <2>1. IsNode(graph[k])
    BY <1>1, <1>3 DEF GraphOK
  <2>2. params[k] = [graph[k] EXCEPT !.data = file.weights[k], !.grad = Empty]
    OBVIOUS
  <2> HIDE DEF params
  <2>3. params[k] = Node(graph[k].o, graph[k].children, file.weights[k], Empty, graph[k].requires_grad,
                         graph[k].backward_fn, graph[k].saved)
    BY <2>1, <2>2, NodeBoth
  <2>. QED  BY <2>3, NodeFields
<1>5. OfLength(params, P)
  BY DEF OfLength
<1>6. OfLength(inputs, two) /\ \A i \in 1..two : inputs[i] = InputLeaf
  BY DEF OfLength
<1>7. graph' = Join(params, inputs)
  BY <1>2 DEF Join
<1> HIDE DEF P, params, inputs, two
<1>8. /\ OfLength(Join(params, inputs), P + two) /\ \A n \in 1..P : Join(params, inputs)[n] = params[n]
      /\ \A n \in 1..(P + two) : n > P => Join(params, inputs)[n] = inputs[n - P]
  BY <1>1, <1>5, <1>6, JoinIs
<1>9. /\ graph' \in Seq({graph'[n] : n \in DOMAIN graph'}) /\ Len(graph') = P + two
  BY <1>1, <1>7, <1>8, FunIsSeq DEF OfLength
<1>10. ASSUME NEW n \in 1..(P + two)
       PROVE  /\ IsNode(graph'[n]) /\ graph'[n].children \in Seq(1..(n - 1)) /\ graph'[n].data # Empty
              /\ graph'[n].grad = Empty /\ graph'[n].requires_grad \in BOOLEAN /\ graph'[n].backward_fn \in BOOLEAN
              /\ ~graph'[n].backward_fn
  <2>1. CASE n <= P
    <3>1. n \in 1..P
      BY <1>1, <2>1
    <3>2. graph'[n] = params[n] /\ n \in 1..leaves /\ n \in 1..Len(graph)
      BY <1>3, <1>7, <1>8, <3>1
    <3>3. file.weights[n] # Empty
      BY <1>1, <3>1 DEF IInv, RunInv, P
    <3>. QED  BY <1>1, <1>4, <3>1, <3>2, <3>3 DEF GraphOK, LeavesOK
  <2>2. CASE n > P
    <3>1. n - P \in 1..two
      BY <1>1, <2>2
    <3>2. graph'[n] = InputLeaf
      BY <1>6, <1>7, <1>8, <2>2, <3>1
    <3>3. << >> \in Seq(1..(n - 1))
      BY EmptySeq
    <3>. QED  BY <3>2, <3>3, InputsAre DEF IsLeaf
  <2>. QED  BY <1>1, <2>1, <2>2
<1>11. leaves' = P + two /\ leaves' \in Nat
  BY <1>1, <1>2
<1>12. GraphOK(graph')
  BY <1>9, <1>10 DEF GraphOK
<1>13. LeavesOK(graph)' /\ Frozen(graph') /\ AllThere(graph)'
  <2>1. leaves' \in 0..(P + two) /\ \A n \in 1..(P + two) : ~(n > leaves')
    BY <1>11
  <2>. QED  BY <1>9, <1>10, <1>11, <2>1 DEF LeavesOK, Frozen, AllThere
<1>14. GraphInv'
  BY <1>2, <1>12, <1>13 DEF GraphInv
<1>15. RunInv'
  BY <1>1, <1>2, <1>9, <1>11 DEF IInv, RunInv, Params, P, two
<1>. QED  BY <1>14, <1>15 DEF IInv

-----------------------------------------------------------------------------
(* What always holds.                                                      *)

LEMMA StepKeeps == ASSUME IInv, [Next]_vars PROVE IInv'
BY StartStepKeeps, NextBatchKeeps, IssueKeeps, BackwardKeeps, WaveKeeps, EndMicroKeeps, UpdateParamsKeeps,
   SaveKeeps, ResumeKeeps, GenerateKeeps, ExploreForwardKeeps, ExploreModeKeeps, ExploreWaveKeeps, StutterKeeps
   DEF Next

\* The graph is sound and fits the program, always.
THEOREM Invariance == Spec => []IInv
<1>1. IInv /\ [Next]_vars => IInv'
  BY StepKeeps
<1>. QED  BY Initially, <1>1, PTL DEF Spec

\* No closure, optimizer step or checkpoint gives a frozen variable a gradient.
THEOREM NoFrozenGrad == Spec => []FrozenHasNoGrad
<1>1. IInv => FrozenHasNoGrad
  BY GraphIsSeq DEF IInv, GraphInv, Frozen, FrozenHasNoGrad
<1>. QED  BY Invariance, <1>1, PTL

LEMMA AheadIsLive == ASSUME IInv PROVE ReadsLiveData
<1> SUFFICES ASSUME pc = "backward", NEW n \in DOMAIN graph, Contains(sorted, n)
             PROVE  /\ graph[n].data # Empty
                    /\ \A i \in DOMAIN graph[n].children : graph[graph[n].children[i]].data # Empty
  BY DEF ReadsLiveData
<1>1. Ahead(graph, sorted) /\ GraphOK(graph)
  BY DEF IInv, GraphInv
<1>2. sorted \in Seq(1..Len(graph))
  BY <1>1 DEF Ahead, Topological
<1>3. PICK i \in 1..Len(sorted) : sorted[i] = n
  BY DEF Contains
<1>4. graph[n].data # Empty
  BY <1>1, <1>3 DEF Ahead
<1>5. DOMAIN graph[n].children = 1..Len(graph[n].children)
  <2>1. graph[n].children \in Seq(1..(n - 1))
    BY <1>1, GraphIsSeq DEF GraphOK
  <2>. QED  BY <2>1, LenProperties
<1>6. ASSUME NEW c \in 1..Len(graph[n].children) PROVE graph[graph[n].children[c]].data # Empty
  <2>1. PICK j \in 1..(i - 1) : sorted[j] = graph[n].children[c]
    BY <1>1, <1>3 DEF Ahead, Topological
  <2>2. Len(sorted) \in Nat
    BY <1>2, LenProperties
  <2>3. j \in 1..Len(sorted)
    BY <2>2
  <2>. QED  BY <1>1, <2>1, <2>3 DEF Ahead
<1>. QED  BY <1>4, <1>5, <1>6

\* No closure still to run reads a tensor already freed, and after backward() nothing but
\* the loss, the leaves and what the loss does not depend on has its tensors: for every
\* graph and every order of ops.
THEOREM RetiresOnTime == Spec => []RetiredOnTime
<1>1. IInv => OnlyLossRemains
  <2>1. ASSUME IInv, pc = "done" PROVE Retired(graph) /\ leaves \in 0..Len(graph) /\ Len(graph) \in Nat
    BY <2>1, GraphIsSeq DEF IInv, GraphInv, LeavesOK
  <2>2. ASSUME IInv, pc = "done" PROVE \A n \in (leaves + 1)..Len(graph) : n \in 1..Len(graph) /\ n > leaves
    BY <2>1, <2>2
  <2>. QED  BY <2>1, <2>2 DEF OnlyLossRemains, Retired
<1>2. IInv => RetiredOnTime
  BY <1>1, AheadIsLive DEF RetiredOnTime
<1>. QED  BY Invariance, <1>2, PTL

=============================================================================
