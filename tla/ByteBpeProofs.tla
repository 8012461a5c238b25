--------------------------- MODULE ByteBpeProofs ---------------------------
(***************************************************************************)
(* Proofs about the byte-level BPE and its pre-tokenizer for every text,   *)
(* list of specials and number of merges: learning with out-of-date heap   *)
(* entries takes the most frequent pair every time (its invariant is       *)
(* LearnInv); the scan that encodes a piece does to a word what training   *)
(* did, and so does the heap; the hand-written matcher ends every piece    *)
(* where the pattern does; a text encoded through the cache has the ids of *)
(* one encoded without, and they decode to it; a tokenizer file loads as   *)
(* what was saved or not at all. One pass over a word is the scan with one *)
(* merge more (MergeInIs), which carries LearnInv from one list of merges  *)
(* to the next. TextPathProofs goes on from here.                          *)
(***************************************************************************)
EXTENDS ByteBpe, FiniteSetTheorems, SequenceTheorems, WellFoundedInduction, TLAPS
-----------------------------------------------------------------------------
(* Natural numbers.                                                        *)

\* < on the naturals is well-founded.
LEMMA LessIsWellFounded == IsWellFoundedOn({ss \in Nat \X Nat : ss[1] < ss[2]}, Nat)
BY NatLessThanWellFounded DEF OpToRel

\* A set of naturals has a least element.
LEMMA LeastElement == ASSUME NEW T \in SUBSET Nat, T # {} PROVE \E x \in T : \A y \in T : x <= y
<1>1. PICK x \in T : \A y \in T : ~ (<<y, x>> \in {ss \in Nat \X Nat : ss[1] < ss[2]})
  BY LessIsWellFounded, WFMin
<1>2. \A y \in T : <<y, x>> \in Nat \X Nat /\ <<y, x>>[1] = y /\ <<y, x>>[2] = x
  OBVIOUS
<1>3. \A y \in T : ~ (y < x)
  BY <1>1, <1>2
<1>. QED  BY <1>3

\* A set that holds 0 and each successor holds every natural.
LEMMA Induction == ASSUME NEW S, 0 \in S, \A n \in Nat : n \in S => n + 1 \in S PROVE Nat \subseteq S
<1> SUFFICES ASSUME Nat \ S # {} PROVE FALSE
  OBVIOUS
<1>1. PICK x \in Nat \ S : \A y \in Nat \ S : x <= y
  BY LeastElement
<1>2. x # 0 /\ x - 1 \in Nat /\ x - 1 \in S
  BY <1>1
<1>. QED  BY <1>1, <1>2
-----------------------------------------------------------------------------
(* Repeat: a loop.                                                         *)

\* f holds what x becomes step by step.
Goes(f, step, n, x) == f = [k \in 0..n |-> IF k = 0 THEN x ELSE step[f[k - 1]]]

\* A loop can go on for one more step.
LEMMA GoesOn ==
  ASSUME NEW step, NEW x, NEW n \in Nat, NEW f, Goes(f, step, n, x)
  PROVE  \E g : /\ Goes(g, step, n + 1, x) /\ g[n] = f[n] /\ g[n + 1] = step[f[n]]
<1> DEFINE g == [k \in 0..(n + 1) |-> IF k = n + 1 THEN step[f[n]] ELSE f[k]]
<1>1. n + 1 # 0 /\ n \in 0..n /\ n \in 0..(n + 1) /\ n # n + 1 /\ n + 1 \in 0..(n + 1) /\ (n + 1) - 1 = n
  OBVIOUS
<1>2. ASSUME NEW k \in 0..(n + 1) PROVE g[k] = IF k = 0 THEN x ELSE step[g[k - 1]]
  <2>1. CASE k = n + 1
    BY <1>1, <2>1
  <2>2. CASE k # n + 1
    <3>1. k \in 0..n /\ g[k] = f[k]
      BY <2>2
    <3>2. f[k] = IF k = 0 THEN x ELSE step[f[k - 1]]
      BY <3>1 DEF Goes
    <3>3. k # 0 => k - 1 \in 0..(n + 1) /\ k - 1 # n + 1
      BY <3>1
    <3>. QED  BY <3>1, <3>2, <3>3
  <2>. QED  BY <2>1, <2>2
<1>3. g[n] = f[n] /\ g[n + 1] = step[f[n]]
  BY <1>1
<1>4. g = [k \in 0..(n + 1) |-> g[k]]
  OBVIOUS
<1> HIDE DEF g
<1>5. Goes(g, step, n + 1, x)
  BY <1>2, <1>4 DEF Goes
<1>. QED  BY <1>3, <1>5

\* A loop of any length has its record of steps.
LEMMA LoopExists ==
  ASSUME NEW step, NEW x, NEW n \in Nat
  PROVE  \E f : Goes(f, step, n, x)
<1> DEFINE K == {k \in Nat : \E f : Goes(f, step, k, x)}
<1>1. 0 \in K
  <2> DEFINE f == [k \in 0..0 |-> x]
  <2>1. f = [k \in 0..0 |-> IF k = 0 THEN x ELSE step[f[k - 1]]]
    <3>1. \A k \in 0..0 : k = 0
      OBVIOUS
    <3>. QED  BY <3>1
  <2>2. Goes(f, step, 0, x)
    BY <2>1 DEF Goes
  <2>. QED  BY <2>2
<1>2. \A k \in Nat : k \in K => k + 1 \in K
  BY GoesOn
<1> HIDE DEF K
<1>3. n \in K
  BY <1>1, <1>2, Induction
<1>. QED  BY <1>3 DEF K

\* Two runs of a loop agree as far as both go.
LEMMA LoopIsUnique ==
  ASSUME NEW step, NEW x, NEW n \in Nat, NEW m \in Nat, NEW f, NEW g,
         Goes(f, step, n, x), Goes(g, step, m, x)
  PROVE  \A k \in Nat : k <= n /\ k <= m => f[k] = g[k]
<1> DEFINE K == {k \in Nat : k <= n /\ k <= m => f[k] = g[k]}
<1>1. 0 \in K
  BY DEF Goes
<1>2. ASSUME NEW k \in Nat, k \in K PROVE k + 1 \in K
  <2> SUFFICES ASSUME k + 1 <= n, k + 1 <= m PROVE f[k + 1] = g[k + 1]
    OBVIOUS
  <2>1. f[k] = g[k]
    BY <1>2
  <2>2. k + 1 \in 0..n /\ k + 1 \in 0..m /\ k + 1 # 0 /\ (k + 1) - 1 = k
    OBVIOUS
  <2>3. f[k + 1] = step[f[k]] /\ g[k + 1] = step[g[k]]
    BY <2>2 DEF Goes
  <2>. QED  BY <2>1, <2>3
<1> HIDE DEF K
<1>3. Nat \subseteq K
  BY <1>1, <1>2, Induction
<1>. QED  BY <1>3 DEF K

\* A loop returns the last value of its record.
LEMMA RepeatGoes ==
  ASSUME NEW step, NEW x, NEW n \in Nat
  PROVE  \E f : Goes(f, step, n, x) /\ Repeat(step, n, x) = f[n]
<1> DEFINE f == CHOOSE f : f = [k \in 0..n |-> IF k = 0 THEN x ELSE step[f[k - 1]]]
<1>1. Repeat(step, n, x) = f[n]
  BY Zenon DEF Repeat
<1>2. \E g : g = [k \in 0..n |-> IF k = 0 THEN x ELSE step[g[k - 1]]]
  <2> HIDE DEF f
  <2>1. PICK g : Goes(g, step, n, x)
    BY LoopExists
  <2>2. g = [k \in 0..n |-> IF k = 0 THEN x ELSE step[g[k - 1]]]
    BY <2>1, Zenon DEF Goes
  <2>. QED  BY <2>2, Zenon
<1>3. f = [k \in 0..n |-> IF k = 0 THEN x ELSE step[f[k - 1]]]
  BY <1>2, Zenon
<1> HIDE DEF f
<1>4. Goes(f, step, n, x)
  BY <1>3 DEF Goes
<1>. QED  BY <1>1, <1>4

\* What a loop of no step, and of one step more, comes to.
LEMMA RepeatZero == ASSUME NEW step, NEW x PROVE Repeat(step, 0, x) = x
<1>1. PICK f : Goes(f, step, 0, x) /\ Repeat(step, 0, x) = f[0]
  BY RepeatGoes
<1>. QED  BY <1>1 DEF Goes

\* One step more is the step applied to the result.
LEMMA RepeatNext ==
  ASSUME NEW step, NEW x, NEW n \in Nat
  PROVE  Repeat(step, n + 1, x) = step[Repeat(step, n, x)]
<1>1. PICK f : Goes(f, step, n, x) /\ Repeat(step, n, x) = f[n]
  BY RepeatGoes
<1>2. PICK g : Goes(g, step, n + 1, x) /\ g[n + 1] = step[f[n]]
  BY <1>1, GoesOn
<1>3. PICK h : Goes(h, step, n + 1, x) /\ Repeat(step, n + 1, x) = h[n + 1]
  BY RepeatGoes
<1>4. h[n + 1] = g[n + 1]
  BY <1>2, <1>3, LoopIsUnique
<1>. QED  BY <1>1, <1>2, <1>3, <1>4

\* The first step may be taken before the loop.
LEMMA RepeatFirst ==
  ASSUME NEW step, NEW x, NEW n \in Nat
  PROVE  Repeat(step, n + 1, x) = Repeat(step, n, step[x])
<1> DEFINE K == {k \in Nat : Repeat(step, k + 1, x) = Repeat(step, k, step[x])}
<1>1. 0 \in K
  <2>1. Repeat(step, 0 + 1, x) = step[Repeat(step, 0, x)]
    BY RepeatNext
  <2>. QED  BY <2>1, RepeatZero
<1>2. ASSUME NEW k \in Nat, k \in K PROVE k + 1 \in K
  BY <1>2, RepeatNext
<1> HIDE DEF K
<1>3. n \in K
  BY <1>1, <1>2, Induction
<1>. QED  BY <1>3 DEF K

\* What every step keeps, the loop keeps.
LEMMA RepeatKeeps ==
  ASSUME NEW I, NEW step, NEW x \in I, \A s \in I : step[s] \in I, NEW n \in Nat
  PROVE  Repeat(step, n, x) \in I
<1> DEFINE K == {k \in Nat : Repeat(step, k, x) \in I}
<1>1. 0 \in K
  BY RepeatZero
<1>2. ASSUME NEW k \in Nat, k \in K PROVE k + 1 \in K
  BY <1>2, RepeatNext
<1> HIDE DEF K
<1>3. n \in K
  BY <1>1, <1>2, Induction
<1>. QED  BY <1>3 DEF K

\* A loop whose steps count m down, as long as they change anything, is through
\* after m steps.
LEMMA RepeatStops ==
  ASSUME NEW I, NEW step, NEW x \in I, NEW m \in [I -> Nat],
         \A s \in I : step[s] \in I /\ (step[s] = s \/ m[step[s]] < m[s]),
         NEW n \in Nat, m[x] <= n
  PROVE  /\ Repeat(step, n, x) \in I
         /\ step[Repeat(step, n, x)] = Repeat(step, n, x)
<1> DEFINE R(k) == Repeat(step, k, x)
           K == {k \in Nat : step[R(k)] = R(k) \/ m[R(k)] + k <= m[x]}
<1>0. \A k \in Nat : R(k) \in I
  BY RepeatKeeps
<1>1. 0 \in K
  <2>1. R(0) = x
    BY RepeatZero
  <2>. QED  BY <2>1
<1>2. ASSUME NEW k \in Nat, k \in K PROVE k + 1 \in K
  <2>1. R(k) \in I /\ R(k + 1) = step[R(k)]
    BY <1>0, RepeatNext
  <2>2. R(k + 1) \in I
    BY <2>1
  <2> HIDE DEF R
  <2>3. CASE step[R(k)] = R(k)
    BY <2>1, <2>3
  <2>4. CASE m[step[R(k)]] < m[R(k)]
    <3>1. step[R(k)] # R(k)
      BY <2>1, <2>4
    <3>2. m[R(k)] + k <= m[x]
      BY <1>2, <3>1
    <3>3. m[R(k)] \in Nat /\ m[R(k + 1)] \in Nat /\ m[x] \in Nat /\ m[R(k + 1)] < m[R(k)]
      BY <2>1, <2>2, <2>4
    <3>4. m[R(k + 1)] + (k + 1) <= m[x]
      BY <3>2, <3>3
    <3>. QED  BY <3>4
  <2>. QED  BY <2>1, <2>3, <2>4
<1>3. n \in K
  <2> HIDE DEF K
  <2>. QED  BY <1>1, <1>2, Induction
<1>4. R(n) \in I
  BY <1>0
<1> HIDE DEF R
<1>5. CASE m[R(n)] + n <= m[x]
  <2>1. m[R(n)] \in Nat /\ m[x] \in Nat
    BY <1>4
  <2>2. m[R(n)] = 0
    BY <1>5, <2>1
  <2>3. step[R(n)] \in I /\ m[step[R(n)]] \in Nat
    BY <1>4
  <2>. QED  BY <1>4, <2>2, <2>3 DEF R
<1>. QED  BY <1>3, <1>4, <1>5 DEF R

\* Run as often as its measure allows, a loop has come to a fixed point.
LEMMA RepeatIsThrough ==
  ASSUME NEW I, NEW step, NEW x \in I, NEW m \in [I -> Nat],
         \A s \in I : step[s] \in I /\ (step[s] = s \/ m[step[s]] < m[s]),
         NEW n \in Nat, m[x] <= n
  PROVE  step[Repeat(step, n, x)] = Repeat(step, n, x)
BY RepeatStops

\* Once a loop changes nothing, more steps change nothing.
LEMMA RepeatStays ==
  ASSUME NEW step, NEW x, NEW n \in Nat, step[x] = x
  PROVE  Repeat(step, n, x) = x
<1> DEFINE I == {x}
<1>1. x \in I /\ \A s \in I : step[s] \in I
  OBVIOUS
<1> HIDE DEF I
<1>2. Repeat(step, n, x) \in I
  BY <1>1, RepeatKeeps
<1>. QED  BY <1>2 DEF I
-----------------------------------------------------------------------------
(* Sequences.                                                              *)

\* A function on 1..n is a sequence of length n.
LEMMA FunIsSeq ==
  ASSUME NEW S, NEW n \in Nat, NEW f \in [1..n -> S]
  PROVE  f \in Seq(S) /\ Len(f) = n /\ DOMAIN f = 1..n
OBVIOUS

\* A sequence over a set is one over a larger set.
LEMMA SeqMono ==
  ASSUME NEW S, NEW T, S \subseteq T, NEW x \in Seq(S)
  PROVE  x \in Seq(T)
<1>1. Len(x) \in Nat /\ x \in [1..Len(x) -> S]
  BY LenProperties
<1>2. x \in [1..Len(x) -> T]
  BY <1>1
<1>. QED  BY <1>1, <1>2, FunIsSeq

\* The symbols after a merge, one by one.
LEMMA MergeAtIs ==
  ASSUME NEW S, NEW s \in Seq(S), NEW i \in 1..(Len(s) - 1), NEW id \in S
  PROVE  /\ MergeAt(s, i, id) \in Seq(S)
         /\ Len(MergeAt(s, i, id)) = Len(s) - 1
         /\ \A j \in 1..(Len(s) - 1) :
              MergeAt(s, i, id)[j] = IF j < i THEN s[j] ELSE IF j = i THEN id ELSE s[j + 1]
<1> DEFINE n == Len(s)
           a == SubSeq(s, 1, i - 1)
           b == <<id>>
           c == SubSeq(s, i + 2, n)
<1>1. n \in Nat /\ i \in Nat /\ i >= 1 /\ i < n /\ \A j \in 1..n : s[j] \in S
  BY LenProperties, ElementOfSeq
<1>2. /\ a \in Seq(S) /\ Len(a) = i - 1 /\ \A j \in 1..(i - 1) : a[j] = s[j]
  <2> HIDE DEF n
  <2>1. 1 \in Int /\ i - 1 \in Int /\ \A j \in 1..(i - 1) : s[j] \in S
    BY <1>1
  <2>2. /\ a \in Seq(S) /\ Len(a) = (IF 1 <= i - 1 THEN (i - 1) - 1 + 1 ELSE 0)
        /\ \A j \in 1..((i - 1) - 1 + 1) : a[j] = s[1 + j - 1]
    BY <2>1, SubSeqProperties
  <2> HIDE DEF a
  <2>. QED  BY <1>1, <2>2
<1>3. /\ c \in Seq(S) /\ Len(c) = n - i - 1 /\ \A j \in 1..(n - i - 1) : c[j] = s[i + 1 + j]
  <2> HIDE DEF n
  <2>1. i + 2 \in Int /\ n \in Int /\ \A j \in (i + 2)..n : s[j] \in S
    BY <1>1
  <2>2. /\ c \in Seq(S) /\ Len(c) = (IF i + 2 <= n THEN n - (i + 2) + 1 ELSE 0)
        /\ \A j \in 1..(n - (i + 2) + 1) : c[j] = s[i + 2 + j - 1]
    BY <2>1, SubSeqProperties
  <2> HIDE DEF c
  <2>3. n - (i + 2) + 1 = n - i - 1 /\ \A j \in Int : i + 2 + j - 1 = i + 1 + j
    BY <1>1
  <2>4. Len(c) = n - i - 1
    BY <1>1, <2>2
  <2>5. \A j \in 1..(n - i - 1) : c[j] = s[i + 1 + j]
    BY <2>2, <2>3
  <2>. QED  BY <2>2, <2>4, <2>5
<1>4. b \in Seq(S) /\ Len(b) = 1 /\ b[1] = id
  OBVIOUS
<1>5. MergeAt(s, i, id) = (a \o b) \o c
  BY DEF MergeAt
<1> HIDE DEF a, b, c, n
<1>6. /\ a \o b \in Seq(S) /\ Len(a \o b) = i
      /\ \A j \in 1..i : (a \o b)[j] = IF j <= i - 1 THEN a[j] ELSE b[j - (i - 1)]
  <2>1. Len(a) + Len(b) = i
    BY <1>1, <1>2, <1>4
  <2>2. /\ a \o b \in Seq(S) /\ Len(a \o b) = Len(a) + Len(b)
        /\ \A j \in 1..(Len(a) + Len(b)) : (a \o b)[j] = IF j <= Len(a) THEN a[j] ELSE b[j - Len(a)]
    BY <1>2, <1>4, ConcatProperties
  <2>. QED  BY <1>2, <2>1, <2>2
<1>7. /\ MergeAt(s, i, id) \in Seq(S) /\ Len(MergeAt(s, i, id)) = n - 1
      /\ \A j \in 1..(n - 1) : MergeAt(s, i, id)[j] = IF j <= i THEN (a \o b)[j] ELSE c[j - i]
  <2>1. Len(a \o b) + Len(c) = n - 1
    BY <1>1, <1>3, <1>6
  <2> DEFINE d == a \o b
  <2>2. d \in Seq(S) /\ MergeAt(s, i, id) = d \o c
    BY <1>5, <1>6
  <2> HIDE DEF d
  <2>3. /\ d \o c \in Seq(S) /\ Len(d \o c) = Len(d) + Len(c)
        /\ \A j \in 1..(Len(d) + Len(c)) : (d \o c)[j] = IF j <= Len(d) THEN d[j] ELSE c[j - Len(d)]
    BY <1>3, <2>2, ConcatProperties
  <2>4. Len(d) = i /\ Len(d) + Len(c) = n - 1
    BY <1>6, <2>1 DEF d
  <2>5. \A j \in 1..(n - 1) : (d \o c)[j] = IF j <= i THEN d[j] ELSE c[j - i]
    BY <2>3, <2>4
  <2>. QED  BY <2>2, <2>3, <2>4, <2>5 DEF d
<1>8. ASSUME NEW j \in 1..(n - 1)
      PROVE  MergeAt(s, i, id)[j] = IF j < i THEN s[j] ELSE IF j = i THEN id ELSE s[j + 1]
  <2>1. CASE j < i
    BY <1>1, <1>2, <1>6, <1>7, <2>1
  <2>2. CASE j = i
    <3>1. MergeAt(s, i, id)[j] = (a \o b)[j] /\ (a \o b)[j] = b[j - (i - 1)] /\ j - (i - 1) = 1
      BY <1>1, <1>6, <1>7, <2>2
    <3>. QED  BY <1>4, <2>2, <3>1
  <2>3. CASE j > i
    <3>1. j - i \in 1..(n - i - 1) /\ i + 1 + (j - i) = j + 1
      BY <1>1, <2>3
    <3>2. MergeAt(s, i, id)[j] = c[j - i]
      BY <1>1, <1>7, <2>3
    <3>3. c[j - i] = s[i + 1 + (j - i)]
      BY <1>3, <3>1
    <3>. QED  BY <2>3, <3>1, <3>2, <3>3
  <2>. QED  BY <1>1, <2>1, <2>2, <2>3
<1>. QED  BY <1>7, <1>8 DEF n

\* The same over the naturals.
LEMMA MergeAtNat ==
  ASSUME NEW s \in Seq(Nat), NEW i \in 1..(Len(s) - 1), NEW id \in Nat
  PROVE  /\ MergeAt(s, i, id) \in Seq(Nat)
         /\ Len(MergeAt(s, i, id)) = Len(s) - 1
         /\ \A j \in 1..(Len(s) - 1) :
              MergeAt(s, i, id)[j] = IF j < i THEN s[j] ELSE IF j = i THEN id ELSE s[j + 1]
<1> DEFINE S == Nat
<1>1. s \in Seq(S) /\ id \in S
  OBVIOUS
<1> HIDE DEF S
<1>2. /\ MergeAt(s, i, id) \in Seq(S)
      /\ Len(MergeAt(s, i, id)) = Len(s) - 1
      /\ \A j \in 1..(Len(s) - 1) :
           MergeAt(s, i, id)[j] = IF j < i THEN s[j] ELSE IF j = i THEN id ELSE s[j + 1]
  BY <1>1, MergeAtIs
<1>. QED  BY <1>2 DEF S
-----------------------------------------------------------------------------
(* Ranks.                                                                  *)

\* Merges as train() and load() leave them: each joins two earlier tokens, none twice.
IsMerges(ms) ==
  /\ ms \in Seq(Nat \X Nat)
  /\ \A r \in 1..Len(ms) : ms[r][1] < 255 + r /\ ms[r][2] < 255 + r
  /\ \A r, t \in 1..Len(ms) : ms[r] = ms[t] => r = t

\* A rank is 0 or the first place a pair has among the merges.
LEMMA RankIs ==
  ASSUME NEW ms, Len(ms) \in Nat, NEW l, NEW r
  PROVE  /\ Rank(ms, l, r) \in 0..Len(ms)
         /\ Rank(ms, l, r) > 0 => ms[Rank(ms, l, r)] = <<l, r>>
         /\ \A k \in 1..Len(ms) : ms[k] = <<l, r>> => Rank(ms, l, r) > 0 /\ Rank(ms, l, r) <= k
<1> DEFINE I == {i \in 1..Len(ms) : ms[i] = <<l, r>>}
<1>1. Rank(ms, l, r) = IF I # {} THEN CHOOSE x \in I : \A y \in I : x =< y ELSE 0
  BY DEF Rank, SelectInSeq, Min
<1>2. CASE I # {}
  <2>1. I \in SUBSET Nat
    OBVIOUS
  <2>2. \E x \in I : \A y \in I : x <= y
    BY <1>2, <2>1, LeastElement
  <2>3. Rank(ms, l, r) \in I /\ \A y \in I : Rank(ms, l, r) <= y
    BY <1>1, <1>2, <2>2
  <2>. QED  BY <2>3
<1>3. CASE I = {}
  <2>1. Rank(ms, l, r) = 0
    BY <1>1, <1>3
  <2>. QED  BY <1>3, <2>1
<1>. QED  BY <1>2, <1>3

\* Of a merge of known rank, both symbols come before the token it makes.
LEMMA RankBounds ==
  ASSUME NEW ms, IsMerges(ms), NEW l, NEW r, Rank(ms, l, r) > 0
  PROVE  /\ Rank(ms, l, r) \in 1..Len(ms) /\ l \in Nat /\ r \in Nat
         /\ l < 255 + Rank(ms, l, r) /\ r < 255 + Rank(ms, l, r)
<1>1. Len(ms) \in Nat /\ ms \in Seq(Nat \X Nat)
  BY LenProperties DEF IsMerges
<1>2. Rank(ms, l, r) \in 1..Len(ms) /\ ms[Rank(ms, l, r)] = <<l, r>>
  BY <1>1, RankIs
<1>3. ms[Rank(ms, l, r)] \in Nat \X Nat
  BY <1>1, <1>2, ElementOfSeq
<1>4. ms[Rank(ms, l, r)][1] < 255 + Rank(ms, l, r) /\ ms[Rank(ms, l, r)][2] < 255 + Rank(ms, l, r)
  BY <1>2 DEF IsMerges
<1>. QED  BY <1>2, <1>3, <1>4

\* One merge more gives its pair a rank and leaves the others as they were.
LEMMA RankAppend ==
  ASSUME NEW S, NEW ms \in Seq(S), NEW p \in S, NEW l, NEW r
  PROVE  /\ Rank(ms, l, r) > 0 => Rank(Append(ms, p), l, r) = Rank(ms, l, r)
         /\ Rank(ms, l, r) = 0 => Rank(Append(ms, p), l, r) = IF p = <<l, r>> THEN Len(ms) + 1 ELSE 0
<1> DEFINE m2 == Append(ms, p)
           n == Len(ms)
<1>1. /\ n \in Nat /\ Len(m2) = n + 1 /\ m2[n + 1] = p /\ \A k \in 1..n : m2[k] = ms[k]
  BY AppendProperties, LenProperties
<1>2. /\ Rank(ms, l, r) \in 0..n
      /\ Rank(ms, l, r) > 0 => ms[Rank(ms, l, r)] = <<l, r>>
      /\ \A k \in 1..n : ms[k] = <<l, r>> => Rank(ms, l, r) > 0 /\ Rank(ms, l, r) <= k
  BY <1>1, RankIs
<1>3. /\ Rank(m2, l, r) \in 0..(n + 1)
      /\ Rank(m2, l, r) > 0 => m2[Rank(m2, l, r)] = <<l, r>>
      /\ \A k \in 1..(n + 1) : m2[k] = <<l, r>> => Rank(m2, l, r) > 0 /\ Rank(m2, l, r) <= k
  <2> HIDE DEF m2, n
  <2>1. Len(m2) \in Nat
    BY <1>1
  <2>2. /\ Rank(m2, l, r) \in 0..Len(m2)
        /\ Rank(m2, l, r) > 0 => m2[Rank(m2, l, r)] = <<l, r>>
        /\ \A k \in 1..Len(m2) : m2[k] = <<l, r>> => Rank(m2, l, r) > 0 /\ Rank(m2, l, r) <= k
    BY <2>1, RankIs
  <2>. QED  BY <1>1, <2>2
<1> HIDE DEF m2, n
<1>4. CASE Rank(ms, l, r) > 0
  <2>1. m2[Rank(ms, l, r)] = <<l, r>> /\ Rank(ms, l, r) \in 1..n
    BY <1>1, <1>2, <1>4
  <2>2. Rank(m2, l, r) > 0 /\ Rank(m2, l, r) <= Rank(ms, l, r) /\ Rank(m2, l, r) \in 1..n
    BY <1>1, <1>3, <2>1
  <2>3. ms[Rank(m2, l, r)] = <<l, r>>
    BY <1>1, <1>3, <2>2
  <2>4. Rank(ms, l, r) <= Rank(m2, l, r)
    BY <1>2, <2>2, <2>3
  <2>5. Rank(ms, l, r) \in Int /\ Rank(m2, l, r) \in Int
    BY <1>2, <1>3
  <2>. QED  BY <1>4, <2>2, <2>4, <2>5 DEF m2
<1>5. CASE Rank(ms, l, r) = 0
  <2>1. \A k \in 1..n : m2[k] # <<l, r>>
    BY <1>1, <1>2, <1>5
  <2>2. CASE p = <<l, r>>
    <3>1. n + 1 \in 1..(n + 1) /\ Rank(m2, l, r) > 0
      BY <1>1, <1>3, <2>2
    <3>2. ~ (Rank(m2, l, r) \in 1..n)
      BY <1>3, <2>1, <3>1
    <3>. QED  BY <1>1, <1>3, <1>5, <2>2, <3>1, <3>2 DEF m2, n
  <2>3. CASE p # <<l, r>>
    <3>1. ~ (Rank(m2, l, r) \in 1..(n + 1))
      <4>1. ASSUME Rank(m2, l, r) \in 1..(n + 1) PROVE FALSE
        <5>1. m2[Rank(m2, l, r)] = <<l, r>>
          BY <1>3, <4>1
        <5>2. Rank(m2, l, r) = n + 1
          BY <1>1, <2>1, <4>1, <5>1
        <5>. QED  BY <1>1, <2>3, <5>1, <5>2
      <4>. QED  BY <4>1
    <3>. QED  BY <1>1, <1>3, <1>5, <2>3, <3>1 DEF m2
  <2>. QED  BY <2>2, <2>3
<1>. QED  BY <1>1, <1>2, <1>4, <1>5
-----------------------------------------------------------------------------
(* The scan.                                                               *)

\* Where a merge is known, and the one the scan takes: the lowest rank, leftmost first.
Can(ms, s) == {i \in 1..(Len(s) - 1) : Rank(ms, s[i], s[i + 1]) > 0}
IsBest(ms, s, i) ==
  /\ i \in Can(ms, s)
  /\ \A j \in Can(ms, s) :
       \/ Rank(ms, s[i], s[i + 1]) < Rank(ms, s[j], s[j + 1])
       \/ Rank(ms, s[i], s[i + 1]) = Rank(ms, s[j], s[j + 1]) /\ i <= j

\* The scan has one best place.
LEMMA BestIsOne ==
  ASSUME NEW ms, Len(ms) \in Nat, NEW s, Len(s) \in Nat, NEW i, NEW j, IsBest(ms, s, i), IsBest(ms, s, j)
  PROVE  i = j
<1>1. i \in 1..(Len(s) - 1) /\ j \in 1..(Len(s) - 1)
  BY DEF IsBest, Can
<1>2. Rank(ms, s[i], s[i + 1]) \in Nat /\ Rank(ms, s[j], s[j + 1]) \in Nat
  BY RankIs
<1>3. /\ \/ Rank(ms, s[i], s[i + 1]) < Rank(ms, s[j], s[j + 1])
         \/ Rank(ms, s[i], s[i + 1]) = Rank(ms, s[j], s[j + 1]) /\ i <= j
      /\ \/ Rank(ms, s[j], s[j + 1]) < Rank(ms, s[i], s[i + 1])
         \/ Rank(ms, s[j], s[j + 1]) = Rank(ms, s[i], s[i + 1]) /\ j <= i
  BY DEF IsBest
<1> HIDE DEF Can
<1>4. ASSUME NEW x \in Nat, NEW y \in Nat, x < y \/ (x = y /\ i <= j), y < x \/ (y = x /\ j <= i) PROVE i = j
  BY <1>1, <1>4
<1>. QED  BY <1>2, <1>3, <1>4

\* Where a merge applies the scan has a best place.
LEMMA BestExists ==
  ASSUME NEW ms, Len(ms) \in Nat, NEW s, Len(s) \in Nat, Can(ms, s) # {}
  PROVE  \E i : IsBest(ms, s, i)
<1> DEFINE rank(i) == Rank(ms, s[i], s[i + 1])
           R == {rank(i) : i \in Can(ms, s)}
<1>1. \A i : rank(i) \in Nat
  BY RankIs
<1>2. Can(ms, s) \in SUBSET Nat
  BY DEF Can
<1> HIDE DEF rank
<1>3. PICK x \in R : \A y \in R : x <= y
  <2>1. R \in SUBSET Nat /\ R # {}
    BY <1>1
  <2>. QED  BY <2>1, LeastElement
<1> DEFINE T == {i \in Can(ms, s) : rank(i) = x}
<1>4. PICK i \in T : \A j \in T : i <= j
  <2>1. T \in SUBSET Nat /\ T # {}
    BY <1>2, <1>3
  <2>. QED  BY <2>1, LeastElement
<1>5. ASSUME NEW j \in Can(ms, s)
      PROVE  rank(i) < rank(j) \/ (rank(i) = rank(j) /\ i <= j)
  <2>1. rank(i) = x /\ x <= rank(j)
    BY <1>3, <1>4
  <2>2. CASE rank(j) = x
    BY <1>4, <2>1, <2>2
  <2>3. CASE rank(j) # x
    BY <1>1, <2>1, <2>3
  <2>. QED  BY <2>2, <2>3
<1>6. i \in Can(ms, s)
  BY <1>4
<1>. QED  BY <1>5, <1>6 DEF IsBest, rank

\* One step of the scan.
LEMMA ScanStepIs ==
  ASSUME NEW ms, Len(ms) \in Nat, NEW s \in Seq(Nat)
  PROVE  /\ Can(ms, s) = {} => ScanStep(ms)[s] = s
         /\ \A i : IsBest(ms, s, i) => ScanStep(ms)[s] = MergeAt(s, i, 255 + Rank(ms, s[i], s[i + 1]))
<1>0. Len(s) \in Nat
  BY LenProperties
<1> DEFINE rank(i) == Rank(ms, s[i], s[i + 1])
           best == CHOOSE i \in Can(ms, s) :
                     \A j \in Can(ms, s) : rank(i) < rank(j) \/ (rank(i) = rank(j) /\ i <= j)
<1>1. ScanStep(ms)[s] = IF Can(ms, s) = {} THEN s ELSE MergeAt(s, best, 255 + rank(best))
  BY Zenon DEF ScanStep, Can
<1>2. ASSUME NEW i, IsBest(ms, s, i) PROVE ScanStep(ms)[s] = MergeAt(s, i, 255 + rank(i))
  <2>1. Can(ms, s) # {}
    BY <1>2 DEF IsBest
  <2>2. \E k \in Can(ms, s) : \A j \in Can(ms, s) : rank(k) < rank(j) \/ (rank(k) = rank(j) /\ k <= j)
    BY <1>2, Zenon DEF IsBest
  <2>3. best \in Can(ms, s) /\ \A j \in Can(ms, s) : rank(best) < rank(j) \/ (rank(best) = rank(j) /\ best <= j)
    BY <2>2, Zenon
  <2> HIDE DEF best
  <2>4. IsBest(ms, s, best)
    BY <2>3, Zenon DEF IsBest
  <2>5. best = i
    BY <1>0, <1>2, <2>4, BestIsOne
  <2>. QED  BY <1>1, <2>1, <2>5
<1>. QED  BY <1>1, <1>2

\* A step that changes anything shortens the symbols by one.
LEMMA ScanStepShortens ==
  ASSUME NEW ms, IsMerges(ms), NEW s \in Seq(Nat)
  PROVE  /\ ScanStep(ms)[s] \in Seq(Nat)
         /\ ScanStep(ms)[s] # s => Len(ScanStep(ms)[s]) = Len(s) - 1
         /\ ScanStep(ms)[s] = s <=> Can(ms, s) = {}
<1>1. Len(ms) \in Nat /\ Len(s) \in Nat
  BY LenProperties DEF IsMerges
<1>2. CASE Can(ms, s) = {}
  BY <1>1, <1>2, ScanStepIs
<1>3. CASE Can(ms, s) # {}
  <2>1. PICK i : IsBest(ms, s, i)
    BY <1>1, <1>3, BestExists
  <2>2. i \in 1..(Len(s) - 1) /\ Rank(ms, s[i], s[i + 1]) \in 0..Len(ms)
    BY <1>1, <2>1, RankIs DEF IsBest, Can
  <2>3. 255 + Rank(ms, s[i], s[i + 1]) \in Nat
    BY <1>1, <2>2
  <2>4. ScanStep(ms)[s] = MergeAt(s, i, 255 + Rank(ms, s[i], s[i + 1]))
    BY <1>1, <2>1, ScanStepIs
  <2> DEFINE id == 255 + Rank(ms, s[i], s[i + 1])
  <2> HIDE DEF id
  <2>5. ScanStep(ms)[s] \in Seq(Nat) /\ Len(ScanStep(ms)[s]) = Len(s) - 1
    <3>1. id \in Nat /\ ScanStep(ms)[s] = MergeAt(s, i, id)
      BY <2>3, <2>4 DEF id
    <3>2. MergeAt(s, i, id) \in Seq(Nat) /\ Len(MergeAt(s, i, id)) = Len(s) - 1
      BY <2>2, <3>1, MergeAtNat
    <3>. QED  BY <3>1, <3>2
  <2>6. ScanStep(ms)[s] # s
    BY <1>1, <2>5
  <2>. QED  BY <1>3, <2>5, <2>6
<1>. QED  BY <1>2, <1>3

\* The scan goes on until no merge is known.
LEMMA ScanEnds ==
  ASSUME NEW ms, IsMerges(ms), NEW s \in Seq(Nat)
  PROVE  Scan(ms, s) \in Seq(Nat) /\ Can(ms, Scan(ms, s)) = {}
<1> DEFINE m == [x \in Seq(Nat) |-> Len(x)]
<1>1. m \in [Seq(Nat) -> Nat] /\ Len(s) \in Nat /\ m[s] <= Len(s)
  BY LenProperties
<1>2. \A x \in Seq(Nat) : ScanStep(ms)[x] \in Seq(Nat) /\ (ScanStep(ms)[x] = x \/ m[ScanStep(ms)[x]] < m[x])
  BY ScanStepShortens, LenProperties
<1> DEFINE step == ScanStep(ms)
<1> HIDE DEF m, step
<1>3. /\ Repeat(step, Len(s), s) \in Seq(Nat)
      /\ step[Repeat(step, Len(s), s)] = Repeat(step, Len(s), s)
  <2>1. \A x \in Seq(Nat) : step[x] \in Seq(Nat) /\ (step[x] = x \/ m[step[x]] < m[x])
    BY <1>2 DEF step
  <2> DEFINE I == Seq(Nat)
  <2>2. \A x \in I : step[x] \in I /\ (step[x] = x \/ m[step[x]] < m[x])
    BY <2>1
  <2>6. m \in [I -> Nat] /\ s \in I
    BY <1>1
  <2>3. Len(s) \in Nat /\ m[s] <= Len(s)
    BY <1>1
  <2> DEFINE n == Len(s)
  <2> HIDE DEF I, n
  <2>4. n \in Nat /\ m[s] <= n
    BY <2>3 DEF n
  <2>5. Repeat(step, n, s) \in I /\ step[Repeat(step, n, s)] = Repeat(step, n, s)
    BY ONLY <2>2, <2>4, <2>6, RepeatStops
  <2>. QED  BY <2>5 DEF I, n
<1>. QED  BY <1>3, ScanStepShortens DEF Scan, step

\* The scan may take its first step at once.
LEMMA ScanFirst ==
  ASSUME NEW ms, IsMerges(ms), NEW s \in Seq(Nat)
  PROVE  Scan(ms, ScanStep(ms)[s]) = Scan(ms, s)
<1>1. CASE ScanStep(ms)[s] = s
  BY <1>1
<1>2. CASE ScanStep(ms)[s] # s
  <2> DEFINE x == ScanStep(ms)[s]
  <2>1. x \in Seq(Nat) /\ Len(x) = Len(s) - 1 /\ Len(x) \in Nat /\ Len(s) \in Nat
    BY <1>2, ScanStepShortens, LenProperties
  <2>2. Repeat(ScanStep(ms), Len(x) + 1, s) = Repeat(ScanStep(ms), Len(x), x)
    BY <2>1, RepeatFirst
  <2>3. Len(x) + 1 = Len(s)
    BY <2>1
  <2>. QED  BY <2>2, <2>3 DEF Scan
<1>. QED  BY <1>1, <1>2

\* A piece no merge applies to is left alone.
LEMMA ScanOfEnded ==
  ASSUME NEW ms, IsMerges(ms), NEW s \in Seq(Nat), Can(ms, s) = {}
  PROVE  Scan(ms, s) = s
<1>1. ScanStep(ms)[s] = s /\ Len(s) \in Nat
  BY ScanStepShortens, LenProperties
<1>. QED  BY <1>1, RepeatStays DEF Scan
-----------------------------------------------------------------------------
(* One merge more.                                                         *)

\* A pair that may be merged next.
IsNext(ms, p) == p \in (0..(255 + Len(ms))) \X (0..(255 + Len(ms))) /\ Rank(ms, p[1], p[2]) = 0

\* One merge more of tokens that exist leaves a list of merges.
LEMMA MergesGrow ==
  ASSUME NEW ms, IsMerges(ms), NEW p, IsNext(ms, p)
  PROVE  /\ IsMerges(Append(ms, p)) /\ Len(Append(ms, p)) = Len(ms) + 1 /\ Len(ms) \in Nat /\ p \in Nat \X Nat
         /\ p = <<p[1], p[2]>>
<1> DEFINE m2 == Append(ms, p)
           n == Len(ms)
<1>1. n \in Nat /\ ms \in Seq(Nat \X Nat) /\ p \in Nat \X Nat /\ p = <<p[1], p[2]>>
  BY LenProperties DEF IsMerges, IsNext
<1>2. m2 \in Seq(Nat \X Nat) /\ Len(m2) = n + 1 /\ m2[n + 1] = p /\ \A k \in 1..n : m2[k] = ms[k]
  BY <1>1, AppendProperties
<1>3. p[1] < 255 + (n + 1) /\ p[2] < 255 + (n + 1)
  <2>1. p[1] \in 0..(255 + n) /\ p[2] \in 0..(255 + n)
    BY DEF IsNext
  <2>. QED  BY <1>1, <2>1
<1>4. \A r \in 1..n : ms[r] # p
  <2>1. ~ (Rank(ms, p[1], p[2]) > 0)
    BY <1>1 DEF IsNext
  <2>2. \A r \in 1..n : ms[r] # <<p[1], p[2]>>
    BY <1>1, <2>1, RankIs
  <2>. QED  BY <1>1, <2>2
<1>5. \A r \in 1..(n + 1) : m2[r][1] < 255 + r /\ m2[r][2] < 255 + r
  <2> TAKE r \in 1..(n + 1)
  <2>1. CASE r = n + 1
    BY <1>2, <1>3, <2>1
  <2>2. CASE r \in 1..n
    BY <1>2, <2>2 DEF IsMerges
  <2>. QED  BY <1>1, <2>1, <2>2
<1>6. \A r, t \in 1..(n + 1) : m2[r] = m2[t] => r = t
  <2> TAKE r, t \in 1..(n + 1)
  <2>1. CASE r \in 1..n /\ t \in 1..n
    BY <1>2, <2>1 DEF IsMerges
  <2>2. CASE r = n + 1 \/ t = n + 1
    BY <1>1, <1>2, <1>4, <2>2
  <2>. QED  BY <1>1, <2>1, <2>2
<1>. QED  BY <1>1, <1>2, <1>5, <1>6 DEF IsMerges

\* The scan with one merge more starts as the scan without it.
LEMMA ScanOfScan ==
  ASSUME NEW ms, IsMerges(ms), NEW p, IsNext(ms, p), NEW s \in Seq(Nat)
  PROVE  Scan(Append(ms, p), Scan(ms, s)) = Scan(Append(ms, p), s)
<1> DEFINE m2 == Append(ms, p)
           K == {k \in Nat : Scan(m2, Repeat(ScanStep(ms), k, s)) = Scan(m2, s)}
<1>1. IsMerges(m2) /\ Len(ms) \in Nat /\ Len(m2) \in Nat /\ ms \in Seq(Nat \X Nat) /\ p \in Nat \X Nat
  <2>1. IsMerges(m2) /\ Len(m2) = Len(ms) + 1 /\ Len(ms) \in Nat /\ p \in Nat \X Nat
    BY MergesGrow
  <2>2. ms \in Seq(Nat \X Nat)
    BY DEF IsMerges
  <2> HIDE DEF m2, K
  <2>. QED  BY <2>1, <2>2
<1>2. \A l, r : Rank(ms, l, r) > 0 => Rank(m2, l, r) = Rank(ms, l, r)
  BY <1>1, RankAppend
<1>3. ASSUME NEW l, NEW r, Rank(ms, l, r) = 0 PROVE Rank(m2, l, r) = 0 \/ Rank(m2, l, r) = Len(ms) + 1
  <2>1. Rank(m2, l, r) = IF p = <<l, r>> THEN Len(ms) + 1 ELSE 0
    BY <1>1, <1>3, RankAppend
  <2>. QED  BY <2>1
<1>4. \A l, r : Rank(ms, l, r) \in 0..Len(ms)
  BY <1>1, RankIs
<1> HIDE DEF m2
<1>5. ASSUME NEW x \in Seq(Nat), Can(ms, x) # {} PROVE ScanStep(ms)[x] = ScanStep(m2)[x]
  <2>0. Len(x) \in Nat
    BY LenProperties
  <2>1. PICK i : IsBest(ms, x, i)
    BY <1>1, <1>5, <2>0, BestExists
  <2>2. Rank(ms, x[i], x[i + 1]) > 0 /\ i \in 1..(Len(x) - 1)
    BY <2>1 DEF IsBest, Can
  <2>3. Rank(m2, x[i], x[i + 1]) = Rank(ms, x[i], x[i + 1]) /\ Rank(ms, x[i], x[i + 1]) \in 0..Len(ms)
    BY <1>2, <1>4, <2>2
  <2>4. ASSUME NEW j \in Can(m2, x)
        PROVE  \/ Rank(m2, x[i], x[i + 1]) < Rank(m2, x[j], x[j + 1])
               \/ Rank(m2, x[i], x[i + 1]) = Rank(m2, x[j], x[j + 1]) /\ i <= j
    <3>1. j \in 1..(Len(x) - 1) /\ Rank(m2, x[j], x[j + 1]) > 0
      BY DEF Can
    <3>2. CASE Rank(ms, x[j], x[j + 1]) > 0
      <4>1. j \in Can(ms, x)
        BY <3>1, <3>2 DEF Can
      <4>2. Rank(m2, x[j], x[j + 1]) = Rank(ms, x[j], x[j + 1])
        BY <1>2, <3>2
      <4>. QED  BY <2>1, <2>3, <4>1, <4>2 DEF IsBest
    <3>3. CASE Rank(ms, x[j], x[j + 1]) = 0
      <4>1. Rank(m2, x[j], x[j + 1]) = Len(ms) + 1
        <5>1. Rank(m2, x[j], x[j + 1]) = 0 \/ Rank(m2, x[j], x[j + 1]) = Len(ms) + 1
          BY <1>3, <3>3
        <5>. QED  BY <3>1, <5>1
      <4>. QED  BY <1>1, <2>3, <4>1
    <3>. QED  BY <1>4, <3>2, <3>3
  <2>5. IsBest(m2, x, i)
    BY <2>2, <2>3, <2>4 DEF IsBest, Can
  <2>. QED  BY <1>1, <2>1, <2>3, <2>5, ScanStepIs
<1>6. 0 \in K
  BY RepeatZero
<1>7. ASSUME NEW k \in Nat, k \in K PROVE k + 1 \in K
  <2> DEFINE x == Repeat(ScanStep(ms), k, s)
  <2>1. x \in Seq(Nat)
    <3>1. \A y \in Seq(Nat) : ScanStep(ms)[y] \in Seq(Nat)
      BY ScanStepShortens
    <3>. QED  BY <3>1, RepeatKeeps
  <2>2. Repeat(ScanStep(ms), k + 1, s) = ScanStep(ms)[x]
    BY RepeatNext
  <2>3. Scan(m2, x) = Scan(m2, s)
    BY <1>7
  <2> HIDE DEF x
  <2>4. Scan(m2, ScanStep(ms)[x]) = Scan(m2, x)
    <3>1. CASE Can(ms, x) = {}
      BY <2>1, <3>1, ScanStepShortens
    <3>2. CASE Can(ms, x) # {}
      BY <1>1, <1>5, <2>1, <3>2, ScanFirst
    <3>. QED  BY <3>1, <3>2
  <2>. QED  BY <2>2, <2>3, <2>4
<1>8. Len(s) \in Nat
  BY LenProperties
<1> HIDE DEF K
<1>9. Len(s) \in K
  BY <1>6, <1>7, <1>8, Induction
<1>. QED  BY <1>9 DEF K, Scan, m2
-----------------------------------------------------------------------------
(* One pass over a word (MergeIn) is the scan with one merge more.         *)

\* What the pass at r leaves the word as: what is out, then the rest of s.
IsRest(s, r, cur) ==
  /\ Len(cur) = Len(r.out) + Len(s) - r.at + 1
  /\ \A i \in 1..Len(cur) : cur[i] = IF i <= Len(r.out) THEN r.out[i] ELSE s[r.at + i - Len(r.out) - 1]

\* It has no merge but p left, none of them where the pass has been.
Passing(ms, p, s, cur, k) ==
  /\ cur \in Seq(Nat) /\ Scan(Append(ms, p), cur) = Scan(Append(ms, p), s) /\ Can(ms, cur) = {}
  /\ \A i \in 1..(Len(cur) - 1) :
       <<cur[i], cur[i + 1]>> \in PairsIn(s) \/ cur[i] = 256 + Len(ms) \/ cur[i + 1] = 256 + Len(ms)
  /\ \A i \in Can(Append(ms, p), cur) : i > k

PassInv(ms, p, s) ==
  {r \in [at : 1..(Len(s) + 1), out : Seq(Nat)] :
     \E cur : IsRest(s, r, cur) /\ Passing(ms, p, s, cur, Len(r.out))}

\* The new token is in no merge, and only p has a rank it had not.
LEMMA NewToken ==
  ASSUME NEW ms, IsMerges(ms), NEW p, IsNext(ms, p), NEW l, NEW r
  PROVE  /\ l = 256 + Len(ms) \/ r = 256 + Len(ms) => Rank(Append(ms, p), l, r) = 0 /\ Rank(ms, l, r) = 0
         /\ Rank(ms, l, r) = 0 => Rank(Append(ms, p), l, r) = IF <<l, r>> = p THEN Len(ms) + 1 ELSE 0
<1> DEFINE m2 == Append(ms, p)
<1>1. IsMerges(m2) /\ Len(m2) = Len(ms) + 1 /\ Len(ms) \in Nat /\ p \in Nat \X Nat
  BY MergesGrow
<1>2. ms \in Seq(Nat \X Nat)
  BY DEF IsMerges
<1>3. ASSUME l = 256 + Len(ms) \/ r = 256 + Len(ms), Rank(m2, l, r) > 0 PROVE FALSE
  <2>1. /\ Rank(m2, l, r) \in 1..Len(m2) /\ l \in Nat /\ r \in Nat
        /\ l < 255 + Rank(m2, l, r) /\ r < 255 + Rank(m2, l, r)
    BY <1>1, <1>3, RankBounds
  <2> HIDE DEF m2
  <2>. QED  BY <1>1, <1>3, <2>1
<1>4. ASSUME l = 256 + Len(ms) \/ r = 256 + Len(ms), Rank(ms, l, r) > 0 PROVE FALSE
  <2>1. /\ Rank(ms, l, r) \in 1..Len(ms) /\ l \in Nat /\ r \in Nat
        /\ l < 255 + Rank(ms, l, r) /\ r < 255 + Rank(ms, l, r)
    BY <1>1, <1>4, RankBounds
  <2>. QED  BY <1>1, <1>4, <2>1
<1>5. Rank(m2, l, r) \in Nat /\ Rank(ms, l, r) \in Nat
  <2> HIDE DEF m2
  <2>1. Len(m2) \in Nat
    BY <1>1
  <2>. QED  BY <1>1, <2>1, RankIs
<1>6. Rank(ms, l, r) = 0 => Rank(m2, l, r) = IF p = <<l, r>> THEN Len(ms) + 1 ELSE 0
  BY <1>1, <1>2, RankAppend
<1>. QED  BY <1>3, <1>4, <1>5, <1>6

\* Where the pass goes on with a symbol as it is.
LEMMA PassOn ==
  ASSUME NEW ms, IsMerges(ms), NEW p, IsNext(ms, p), NEW s \in Seq(Nat), NEW cur, NEW at \in 1..Len(s),
         NEW o \in Seq(Nat), IsRest(s, [at |-> at, out |-> o], cur), Passing(ms, p, s, cur, Len(o)),
         at < Len(s) => <<s[at], s[at + 1]>> # p
  PROVE  /\ IsRest(s, [at |-> at + 1, out |-> Append(o, s[at])], cur)
         /\ Passing(ms, p, s, cur, Len(Append(o, s[at])))
<1> DEFINE k == Len(o)
           n == Len(s)
           o2 == Append(o, s[at])
<1>1. n \in Nat /\ k \in Nat /\ s[at] \in Nat
  BY LenProperties, ElementOfSeq
<1>2. Len(o2) = k + 1 /\ o2[k + 1] = s[at] /\ \A i \in 1..k : o2[i] = o[i]
  BY <1>1, AppendProperties
<1>3. Len(cur) = k + n - at + 1 /\ \A i \in 1..Len(cur) : cur[i] = IF i <= k THEN o[i] ELSE s[at + i - k - 1]
  BY DEF IsRest
<1> HIDE DEF k, n, o2
<1>4. IsRest(s, [at |-> at + 1, out |-> o2], cur)
  <2>1. Len(cur) = (k + 1) + n - (at + 1) + 1
    BY <1>1, <1>3 DEF n
  <2>2. ASSUME NEW i \in 1..Len(cur) PROVE cur[i] = IF i <= k + 1 THEN o2[i] ELSE s[(at + 1) + i - (k + 1) - 1]
    <3>1. (at + 1) + i - (k + 1) - 1 = at + i - k - 1
      BY <1>1
    <3>2. CASE i = k + 1
      <4>1. at + i - k - 1 = at /\ ~ (i <= k)
        BY <1>1, <3>2
      <4>2. cur[i] = s[at]
        BY <1>3, <4>1
      <4>. QED  BY <1>1, <1>2, <3>2, <4>2
    <3>3. CASE i # k + 1
      <4>1. i <= k + 1 <=> i <= k
        BY <1>1, <3>3
      <4>2. i <= k => o2[i] = o[i]
        BY <1>1, <1>2
      <4>. QED  BY <1>3, <3>1, <4>1, <4>2
    <3>. QED  BY <3>2, <3>3
  <2>. QED  BY <1>2, <2>1, <2>2 DEF IsRest, n
<1>5. ASSUME NEW i \in Can(Append(ms, p), cur) PROVE i > k + 1
  <2>1. i > k /\ i \in 1..(Len(cur) - 1) /\ Rank(Append(ms, p), cur[i], cur[i + 1]) > 0
    BY DEF Passing, Can, k
  <2>2. ASSUME i = k + 1 PROVE FALSE
    <3>1. at < n /\ i \in 1..Len(cur) /\ i + 1 \in 1..Len(cur)
      BY <1>1, <1>3, <2>1, <2>2
    <3>2. at + i - k - 1 = at /\ at + (i + 1) - k - 1 = at + 1 /\ ~ (i <= k) /\ ~ (i + 1 <= k)
      BY <1>1, <2>2
    <3>3. cur[i] = s[at] /\ cur[i + 1] = s[at + 1]
      BY <1>3, <3>1, <3>2
    <3>4. <<cur[i], cur[i + 1]>> # p
      BY <3>1, <3>3 DEF n
    <3>5. Rank(ms, cur[i], cur[i + 1]) = 0
      <4>1. ~ (Rank(ms, cur[i], cur[i + 1]) > 0)
        BY <2>1 DEF Passing, Can
      <4>2. Rank(ms, cur[i], cur[i + 1]) \in Nat
        BY MergesGrow, RankIs
      <4>. QED  BY <4>1, <4>2
    <3>6. Rank(Append(ms, p), cur[i], cur[i + 1]) = 0
      BY <3>4, <3>5, NewToken
    <3>. QED  BY <2>1, <3>6
  <2>. QED  BY <1>1, <2>1, <2>2
<1>6. Passing(ms, p, s, cur, Len(o2))
  BY <1>2, <1>5 DEF Passing
<1>. QED  BY <1>4, <1>6 DEF o2

\* Where the pass merges: what is left becomes what the scan makes of it.
LEMMA PassMerge ==
  ASSUME NEW ms, IsMerges(ms), NEW p, IsNext(ms, p), NEW s \in Seq(Nat), NEW cur, NEW at \in 1..Len(s),
         NEW o \in Seq(Nat), IsRest(s, [at |-> at, out |-> o], cur), Passing(ms, p, s, cur, Len(o)),
         at < Len(s), <<s[at], s[at + 1]>> = p
  PROVE  \E new : /\ IsRest(s, [at |-> at + 2, out |-> Append(o, 256 + Len(ms))], new)
                  /\ Passing(ms, p, s, new, Len(Append(o, 256 + Len(ms))))
<1> DEFINE k == Len(o)
           n == Len(s)
           id == 256 + Len(ms)
           o2 == Append(o, id)
           m2 == Append(ms, p)
           new == MergeAt(cur, k + 1, id)
<1>0. /\ IsMerges(m2) /\ Len(m2) = Len(ms) + 1 /\ Len(ms) \in Nat /\ p = <<p[1], p[2]>>
      /\ Len(m2) \in Nat
  <2>1. Len(m2) = Len(ms) + 1 /\ Len(ms) \in Nat
    BY MergesGrow
  <2>2. Len(m2) \in Nat
    BY <2>1
  <2>. QED  BY <2>1, <2>2, MergesGrow
<1>1. n \in Nat /\ k \in Nat /\ id \in Nat
  BY <1>0, LenProperties
<1>2. o2 \in Seq(Nat) /\ Len(o2) = k + 1 /\ o2[k + 1] = id /\ \A i \in 1..k : o2[i] = o[i]
  BY <1>1, AppendProperties
<1>3. /\ Len(cur) = k + n - at + 1
      /\ \A i \in 1..Len(cur) : cur[i] = IF i <= k THEN o[i] ELSE s[at + i - k - 1]
  BY DEF IsRest
<1>4. cur \in Seq(Nat) /\ Scan(m2, cur) = Scan(m2, s) /\ \A i \in Can(m2, cur) : i > k
  BY DEF Passing
<1>5. \A i \in 1..(Len(cur) - 1) : Rank(ms, cur[i], cur[i + 1]) = 0
  <2>1. \A i \in 1..(Len(cur) - 1) : ~ (Rank(ms, cur[i], cur[i + 1]) > 0)
    BY DEF Passing, Can
  <2>2. \A l, r : Rank(ms, l, r) \in Nat
    BY <1>0, RankIs
  <2>. QED  BY <2>1, <2>2
<1>6. \A l, r : Rank(ms, l, r) = 0 => Rank(m2, l, r) = IF <<l, r>> = p THEN Len(ms) + 1 ELSE 0
  BY NewToken
<1>7. \A l, r : l = id \/ r = id => Rank(m2, l, r) = 0 /\ Rank(ms, l, r) = 0
  BY NewToken
<1> HIDE DEF k, n, id, o2, m2, new
<1>8. k + 1 \in 1..(Len(cur) - 1) /\ Len(cur) \in Nat
  <2>1. at \in Nat /\ at >= 1 /\ at < n
    BY DEF n
  <2>2. Len(cur) \in Nat /\ Len(cur) = k + n - at + 1
    BY <1>3, <1>4, LenProperties
  <2>3. \A c, x, y, z \in Nat : c = x + y - z + 1 /\ z < y => x + 1 \in 1..(c - 1)
    OBVIOUS
  <2>. QED  BY <1>1, <2>1, <2>2, <2>3
<1>9. <<cur[k + 1], cur[k + 2]>> = p
  <2>1. k + 1 \in 1..Len(cur) /\ k + 2 \in 1..Len(cur)
    BY <1>1, <1>8
  <2>2. at + (k + 1) - k - 1 = at /\ at + (k + 2) - k - 1 = at + 1 /\ ~ (k + 1 <= k) /\ ~ (k + 2 <= k)
    BY <1>1
  <2>3. cur[k + 1] = s[at] /\ cur[k + 2] = s[at + 1]
    BY <1>3, <2>1, <2>2
  <2>. QED  BY <2>3
<1>10. \A i \in Can(m2, cur) : Rank(m2, cur[i], cur[i + 1]) = Len(ms) + 1
  <2> TAKE i \in Can(m2, cur)
  <2>1. i \in 1..(Len(cur) - 1) /\ Rank(m2, cur[i], cur[i + 1]) > 0
    BY DEF Can
  <2>2. Rank(m2, cur[i], cur[i + 1]) = IF <<cur[i], cur[i + 1]>> = p THEN Len(ms) + 1 ELSE 0
    BY <1>5, <1>6, <2>1
  <2>. QED  BY <2>1, <2>2
<1>11. IsBest(m2, cur, k + 1) /\ Rank(m2, cur[k + 1], cur[(k + 1) + 1]) = Len(ms) + 1
  <2>1. (k + 1) + 1 = k + 2
    BY <1>1
  <2>2. Rank(ms, cur[k + 1], cur[(k + 1) + 1]) = 0
    BY <1>5, <1>8
  <2>3. Rank(m2, cur[k + 1], cur[(k + 1) + 1]) = Len(ms) + 1
    BY <1>6, <1>9, <2>1, <2>2
  <2>4. k + 1 \in Can(m2, cur)
    BY <1>0, <1>8, <2>3 DEF Can
  <2>5. \A j \in Can(m2, cur) : k + 1 <= j
    <3> TAKE j \in Can(m2, cur)
    <3>1. j \in Int /\ j > k
      BY <1>4 DEF Can
    <3>. QED  BY <1>1, <3>1
  <2>. QED  BY <1>10, <2>3, <2>4, <2>5 DEF IsBest
<1>12. ScanStep(m2)[cur] = new
  <2>1. ScanStep(m2)[cur] = MergeAt(cur, k + 1, 255 + Rank(m2, cur[k + 1], cur[(k + 1) + 1]))
    BY <1>0, <1>4, <1>11, ScanStepIs
  <2>2. 255 + (Len(ms) + 1) = id
    BY <1>0 DEF id
  <2>. QED  BY <1>11, <2>1, <2>2 DEF new
<1>13. Scan(m2, new) = Scan(m2, s)
  BY <1>0, <1>4, <1>12, ScanFirst
<1>14. /\ new \in Seq(Nat) /\ Len(new) = Len(cur) - 1
       /\ \A j \in 1..(Len(cur) - 1) : new[j] = IF j < k + 1 THEN cur[j] ELSE IF j = k + 1 THEN id ELSE cur[j + 1]
  <2>0. PICK a : a = k + 1
    OBVIOUS
  <2>1. a \in 1..(Len(cur) - 1) /\ new = MergeAt(cur, a, id)
    BY <1>8, <2>0 DEF new
  <2>2. cur \in Seq(Nat) /\ id \in Nat
    BY <1>1, <1>4
  <2>8. a \in 1..(Len(cur) - 1) /\ cur \in Seq(Nat) /\ id \in Nat
    BY <2>1, <2>2
  <2>5. MergeAt(cur, a, id) \in Seq(Nat)
    BY ONLY <2>8, MergeAtNat
  <2>6. Len(MergeAt(cur, a, id)) = Len(cur) - 1
    BY ONLY <2>8, MergeAtNat
  <2>7. ASSUME NEW j \in 1..(Len(cur) - 1) PROVE 
             MergeAt(cur, a, id)[j] = IF j < a THEN cur[j] ELSE IF j = a THEN id ELSE cur[j + 1]
    BY ONLY <2>8, MergeAtNat
  <2>. QED  BY <2>0, <2>1, <2>5, <2>6, <2>7
<1>15. Len(cur) \in Nat /\ Len(new) \in Nat /\ Len(cur) = Len(new) + 1
  BY <1>4, <1>14, LenProperties
<1>16. IsRest(s, [at |-> at + 2, out |-> o2], new)
  <2>1. Len(new) = (k + 1) + n - (at + 2) + 1
    BY <1>1, <1>3, <1>14 DEF n
  <2>2. ASSUME NEW i \in 1..Len(new) PROVE new[i] = IF i <= k + 1 THEN o2[i] ELSE s[(at + 2) + i - (k + 1) - 1]
    <3>0. i \in 1..(Len(cur) - 1) /\ i \in 1..Len(cur) /\ i + 1 \in 1..Len(cur)
      BY <1>15
    <3>1. CASE i <= k
      <4>1. new[i] = cur[i] /\ cur[i] = o[i] /\ o[i] = o2[i]
        <5>1. i < k + 1 /\ i \in 1..k
          BY <1>1, <3>1
        <5>. QED  BY <1>2, <1>3, <1>14, <3>0, <3>1, <5>1
      <4>2. i <= k + 1
        BY <1>1, <3>1
      <4>. QED  BY <4>1, <4>2
    <3>2. CASE i = k + 1
      <4>1. ~ (i < k + 1) /\ i <= k + 1
        BY <1>1, <3>2
      <4>. QED  BY <1>2, <1>14, <3>0, <3>2, <4>1
    <3>3. CASE i > k + 1
      <4>1. ~ (i < k + 1) /\ i # k + 1 /\ ~ (i + 1 <= k) /\ ~ (i <= k + 1)
        BY <1>1, <3>3
      <4>2. new[i] = cur[i + 1] /\ cur[i + 1] = s[at + (i + 1) - k - 1]
        BY <1>3, <1>14, <3>0, <4>1
      <4>3. at + (i + 1) - k - 1 = (at + 2) + i - (k + 1) - 1
        BY <1>1
      <4>. QED  BY <4>1, <4>2, <4>3
    <3>. QED  BY <1>1, <3>1, <3>2, <3>3
  <2>. QED  BY <1>2, <2>1, <2>2 DEF IsRest, n
\* A pair of the new symbols is one of the old, or holds the new token.
<1>17. ASSUME NEW i \in 1..(Len(new) - 1)
       PROVE  \/ new[i] = id \/ new[i + 1] = id
              \/ \E j \in 1..(Len(cur) - 1) : new[i] = cur[j] /\ new[i + 1] = cur[j + 1] /\ j >= i /\ (i <= k => j = i)
  <2>0. i \in 1..(Len(cur) - 1) /\ i + 1 \in 1..(Len(cur) - 1)
    BY <1>15
  <2>1. CASE i = k + 1 \/ i + 1 = k + 1
    <3>1. ~ (k + 1 < k + 1)
      BY <1>1
    <3>. QED  BY <1>14, <2>0, <2>1, <3>1
  <2>2. CASE i + 1 < k + 1
    <3>1. i < k + 1
      BY <1>1, <2>2
    <3>2. new[i] = cur[i] /\ new[i + 1] = cur[i + 1]
      BY <1>14, <2>0, <2>2, <3>1
    <3>. QED  BY <2>0, <3>2
  <2>3. CASE i > k + 1
    <3>1. ~ (i < k + 1) /\ i # k + 1 /\ ~ (i + 1 < k + 1) /\ i + 1 # k + 1 /\ ~ (i <= k)
      BY <1>1, <2>3
    <3>2. new[i] = cur[i + 1] /\ new[i + 1] = cur[(i + 1) + 1]
      BY <1>14, <2>0, <3>1
    <3>3. i + 1 \in 1..(Len(cur) - 1) /\ i + 1 >= i
      BY <2>0
    <3>. QED  BY <3>1, <3>2, <3>3
  <2>. QED  BY <1>1, <2>1, <2>2, <2>3
<1>18. ASSUME NEW i \in 1..(Len(new) - 1)
       PROVE  /\ Rank(ms, new[i], new[i + 1]) = 0
              /\ <<new[i], new[i + 1]>> \in PairsIn(s) \/ new[i] = id \/ new[i + 1] = id
  <2>1. CASE new[i] = id \/ new[i + 1] = id
    BY <1>7, <2>1
  <2>2. CASE ~ (new[i] = id \/ new[i + 1] = id)
    <3>1. PICK j \in 1..(Len(cur) - 1) : new[i] = cur[j] /\ new[i + 1] = cur[j + 1]
      BY <1>17, <2>2
    <3>2. <<cur[j], cur[j + 1]>> \in PairsIn(s) \/ cur[j] = id \/ cur[j + 1] = id
      BY DEF Passing, id
    <3>. QED  BY <1>5, <3>1, <3>2
  <2>. QED  BY <2>1, <2>2
<1>19. Can(ms, new) = {}
  <2>1. ASSUME NEW i \in 1..(Len(new) - 1) PROVE ~ (Rank(ms, new[i], new[i + 1]) > 0)
    <3>1. Rank(ms, new[i], new[i + 1]) = 0
      BY <1>18
    <3>. QED  BY <3>1
  <2>. QED  BY <2>1 DEF Can
<1>20. ASSUME NEW i \in Can(m2, new) PROVE i > k + 1
  <2>1. i \in 1..(Len(new) - 1) /\ Rank(m2, new[i], new[i + 1]) > 0
    BY DEF Can
  <2>2. ~ (new[i] = id \/ new[i + 1] = id)
    BY <1>7, <2>1
  <2>3. ASSUME i <= k PROVE FALSE
    <3>1. new[i] = cur[i] /\ new[i + 1] = cur[i + 1] /\ i \in 1..(Len(cur) - 1)
      BY <1>17, <2>1, <2>2, <2>3
    <3>2. i \in Can(m2, cur)
      BY <2>1, <3>1 DEF Can
    <3>. QED  BY <1>1, <1>4, <2>1, <2>3, <3>2
  <2>4. i # k + 1
    <3>1. i \in 1..(Len(cur) - 1) /\ ~ (k + 1 < k + 1)
      BY <1>1, <1>15, <2>1
    <3>. QED  BY <1>14, <2>2, <3>1
  <2>. QED  BY <1>1, <2>1, <2>3, <2>4
<1>21. Passing(ms, p, s, new, Len(o2))
  BY <1>2, <1>13, <1>14, <1>18, <1>19, <1>20 DEF Passing, m2, id
<1>. QED  BY <1>16, <1>21 DEF o2, id

\* A step of the pass keeps the invariant and goes on.
LEMMA PassKeeps ==
  ASSUME NEW ms, IsMerges(ms), NEW p, IsNext(ms, p), NEW s \in Seq(Nat), NEW r \in PassInv(ms, p, s)
  PROVE  LET after == PassStep(s, p, 256 + Len(ms))[r]
         IN  /\ after \in PassInv(ms, p, s)
             /\ after = r \/ after.at > r.at
             /\ after = r => r.at = Len(s) + 1
<1> DEFINE id == 256 + Len(ms)
           after == PassStep(s, p, id)[r]
           n == Len(s)
<1>1. n \in Nat /\ Len(ms) \in Nat
  BY MergesGrow, LenProperties
<1>2. id \in Nat
  BY <1>1
<1>3. r \in [at : 1..(n + 1), out : Seq(Nat)] /\ r.at \in 1..(n + 1) /\ r.out \in Seq(Nat)
      /\ r = [at |-> r.at, out |-> r.out]
  BY DEF PassInv
<1>4. r \in [at : Nat, out : Seq(Nat)]
  BY <1>1, <1>3
<1>9. after = IF r.at > n THEN r
              ELSE IF r.at < n /\ <<s[r.at], s[r.at + 1]>> = p THEN [at |-> r.at + 2, out |-> Append(r.out, id)]
              ELSE [at |-> r.at + 1, out |-> Append(r.out, s[r.at])]
  BY <1>4, Zenon DEF PassStep
<1>5. PICK cur : IsRest(s, r, cur) /\ Passing(ms, p, s, cur, Len(r.out))
  BY DEF PassInv
<1>. SUFFICES after \in PassInv(ms, p, s) /\ (after = r \/ after.at > r.at) /\ (after = r => r.at = n + 1)
  BY DEF id
<1>13. (r.at < n => ~ (r.at > n)) /\ (r.at <= n => ~ (r.at > n))
  BY <1>1, <1>3
<1> HIDE DEF after, id
<1>6. CASE r.at > n
  <2>1. after = r
    BY <1>6, <1>9
  <2>2. r.at = n + 1
    BY <1>1, <1>3, <1>6
  <2>. QED  BY <2>1, <2>2
<1>7. CASE r.at < n /\ <<s[r.at], s[r.at + 1]>> = p
  <2>1. after = [at |-> r.at + 2, out |-> Append(r.out, id)]
    BY <1>7, <1>9, <1>13
  <2>2. r.at \in 1..Len(s) /\ r.at + 2 \in 1..(n + 1)
    BY <1>1, <1>3, <1>7
  <2>3. IsRest(s, [at |-> r.at, out |-> r.out], cur)
    BY <1>3, <1>5
  <2>4. \E new : IsRest(s, [at |-> r.at + 2, out |-> Append(r.out, id)], new) /\ Passing(ms, p, s, new, Len(Append(r.out, id)))
    <3>1. IsMerges(ms) /\ IsNext(ms, p) /\ s \in Seq(Nat) /\ r.out \in Seq(Nat) /\ r.at < Len(s)
      BY <1>3, <1>7 DEF n
    <3>2. Passing(ms, p, s, cur, Len(r.out)) /\ <<s[r.at], s[r.at + 1]>> = p
      BY <1>5, <1>7
    <3>3. \E new : /\ IsRest(s, [at |-> r.at + 2, out |-> Append(r.out, 256 + Len(ms))], new)
                   /\ Passing(ms, p, s, new, Len(Append(r.out, 256 + Len(ms))))
      BY ONLY <2>2, <2>3, <3>1, <3>2, PassMerge
    <3>. QED  BY <3>3 DEF id
  <2>5. Append(r.out, id) \in Seq(Nat)
    BY <1>2, <1>3, AppendProperties
  <2>6. after.at = r.at + 2 /\ after.out = Append(r.out, id)
    BY <2>1
  <2>7. after \in PassInv(ms, p, s)
    BY <2>1, <2>2, <2>4, <2>5 DEF PassInv
  <2>8. after.at > r.at
    BY <1>3, <2>6
  <2>. QED  BY <1>3, <2>7, <2>8
<1>8. CASE r.at <= n /\ ~ (r.at < n /\ <<s[r.at], s[r.at + 1]>> = p)
  <2>1. after = [at |-> r.at + 1, out |-> Append(r.out, s[r.at])]
    BY <1>8, <1>9, <1>13
  <2>2. r.at \in 1..Len(s) /\ r.at + 1 \in 1..(n + 1)
    BY <1>1, <1>3, <1>8
  <2>3. IsRest(s, [at |-> r.at, out |-> r.out], cur)
    BY <1>3, <1>5
  <2>4. IsRest(s, [at |-> r.at + 1, out |-> Append(r.out, s[r.at])], cur) /\ Passing(ms, p, s, cur, Len(Append(r.out, s[r.at])))
    BY <1>3, <1>5, <1>8, <2>2, <2>3, PassOn
  <2>5. Append(r.out, s[r.at]) \in Seq(Nat)
    <3>1. s[r.at] \in Nat
      BY <2>2, ElementOfSeq
    <3>. QED  BY <1>3, <3>1, AppendProperties
  <2>6. after.at = r.at + 1 /\ after.out = Append(r.out, s[r.at])
    BY <2>1
  <2>7. after \in PassInv(ms, p, s)
    BY <2>1, <2>2, <2>4, <2>5 DEF PassInv
  <2>8. after.at > r.at
    BY <1>3, <2>6
  <2>. QED  BY <1>3, <2>7, <2>8
<1>. QED  BY <1>1, <1>3, <1>6, <1>7, <1>8

\* MergeIn: the scan of a word no other merge is left in.
LEMMA MergeInIs ==
  ASSUME NEW ms, IsMerges(ms), NEW p, IsNext(ms, p), NEW s \in Seq(Nat), Can(ms, s) = {}
  PROVE  LET t == MergeIn(s, p, 256 + Len(ms))
         IN  /\ t \in Seq(Nat) /\ t = Scan(Append(ms, p), s) /\ p \notin PairsIn(t)
             /\ \A q \in PairsIn(t) : q \in PairsIn(s) \/ q[1] = 256 + Len(ms) \/ q[2] = 256 + Len(ms)
<1> DEFINE I == PassInv(ms, p, s)
           step == PassStep(s, p, 256 + Len(ms))
           n == Len(s)
           x == [at |-> 1, out |-> <<>>]
           m == [r \in I |-> (n + 1) - r.at]
           z == Repeat(step, n, x)
<1>1. n \in Nat /\ IsMerges(Append(ms, p)) /\ Len(ms) \in Nat /\ Len(Append(ms, p)) = Len(ms) + 1 /\ p = <<p[1], p[2]>>
  BY MergesGrow, LenProperties
<1>2. x \in I
  <2>1. x \in [at : 1..(n + 1), out : Seq(Nat)] /\ x.at = 1 /\ x.out = <<>> /\ Len(x.out) = 0
    BY <1>1
  <2>2. IsRest(s, x, s)
    <3> HIDE DEF x, n
    <3>1. Len(s) = 0 + Len(s) - 1 + 1
      BY <1>1 DEF n
    <3>2. \A i \in 1..Len(s) : ~ (i <= 0) /\ 1 + i - 0 - 1 = i
      BY <1>1 DEF n
    <3>. QED  BY <2>1, <3>1, <3>2 DEF IsRest
  <2>3. Passing(ms, p, s, s, Len(x.out))
    <3>1. \A i \in Can(Append(ms, p), s) : i > 0
      BY DEF Can
    <3>2. \A i \in 1..(Len(s) - 1) : <<s[i], s[i + 1]>> \in PairsIn(s)
      BY DEF PairsIn
    <3>. QED  BY <2>1, <3>1, <3>2 DEF Passing
  <2> HIDE DEF x
  <2>. QED  BY <2>1, <2>2, <2>3 DEF PassInv
<1>3. \A r \in I : step[r] \in I /\ (step[r] = r \/ step[r].at > r.at) /\ (step[r] = r => r.at = n + 1)
  BY PassKeeps
<1>4. \A r \in I : r.at \in 1..(n + 1) /\ r.out \in Seq(Nat)
  BY DEF PassInv
<1>5. m \in [I -> Nat]
  BY <1>1, <1>4
<1>6. m[x] <= n
  BY <1>1, <1>2
<1> HIDE DEF I, step
<1>7. \A r \in I : step[r] \in I /\ (step[r] = r \/ m[step[r]] < m[r])
  <2> TAKE r \in I
  <2>1. step[r] \in I /\ r.at \in 1..(n + 1) /\ step[r].at \in 1..(n + 1) /\ m[r] = (n + 1) - r.at /\ m[step[r]] = (n + 1) - step[r].at
    BY <1>3, <1>4
  <2>2. step[r] = r \/ step[r].at > r.at
    BY <1>3
  <2>. QED  BY <1>1, <2>1, <2>2
<1> HIDE DEF n, x, m
<1>8. z \in I /\ step[z] = z
  <2>1. n \in Nat
    BY <1>1
  <2>2. Repeat(step, n, x) \in I
    BY ONLY <1>2, <1>7, <2>1, RepeatKeeps
  <2>3. step[Repeat(step, n, x)] = Repeat(step, n, x)
    BY ONLY <1>2, <1>5, <1>6, <1>7, <2>1, RepeatIsThrough
  <2>. QED  BY <2>2, <2>3
<1> HIDE DEF z
<1>9. z.at = n + 1 /\ z.out \in Seq(Nat)
  BY <1>3, <1>4, <1>8
<1>10. PICK cur : IsRest(s, z, cur) /\ Passing(ms, p, s, cur, Len(z.out))
  BY <1>8 DEF I, PassInv
<1>11. cur = z.out
  <2> DEFINE o == z.out
  <2>1. Len(o) \in Nat /\ o \in Seq(Nat) /\ cur \in Seq(Nat)
    BY <1>9, <1>10, LenProperties DEF Passing
  <2>2. Len(cur) = Len(o) + n - (n + 1) + 1 /\ \A i \in 1..Len(cur) : i <= Len(o) => cur[i] = o[i]
    BY <1>9, <1>10 DEF IsRest, n
  <2> HIDE DEF o
  <2>3. Len(cur) = Len(o)
    BY <1>1, <2>1, <2>2
  <2>4. \A i \in 1..Len(cur) : cur[i] = o[i]
    BY <2>1, <2>2, <2>3
  <2>5. cur = o
    BY <2>1, <2>3, <2>4, SeqEqual
  <2>. QED  BY <2>5 DEF o
<1>12. MergeIn(s, p, 256 + Len(ms)) = z.out
  BY DEF MergeIn, z, step, n, x
<1> DEFINE t == z.out
           m2 == Append(ms, p)
<1>13. Can(m2, t) = {}
  <2>1. \A i \in Can(m2, cur) : i > Len(t) /\ i \in 1..(Len(t) - 1)
    BY <1>10, <1>11 DEF Passing, Can
  <2>2. Len(t) \in Nat
    BY <1>9, LenProperties
  <2> HIDE DEF t, m2
  <2>. QED  BY <1>11, <2>1, <2>2 DEF t
<1>14. t \in Seq(Nat) /\ t = Scan(m2, s)
  BY <1>1, <1>9, <1>10, <1>11, <1>13, ScanOfEnded DEF Passing
<1>15. ASSUME NEW q \in PairsIn(t) PROVE q \in PairsIn(s) \/ q[1] = 256 + Len(ms) \/ q[2] = 256 + Len(ms)
  <2>1. PICK i \in 1..(Len(t) - 1) : q = <<t[i], t[i + 1]>>
    BY DEF PairsIn
  <2>2. \/ <<t[i], t[i + 1]>> \in PairsIn(s)
        \/ t[i] = 256 + Len(ms) \/ t[i + 1] = 256 + Len(ms)
    BY <1>10, <1>11 DEF Passing
  <2> HIDE DEF t
  <2>3. q[1] = t[i] /\ q[2] = t[i + 1]
    BY <2>1
  <2>. QED  BY <2>1, <2>2, <2>3
<1>16. ASSUME p \in PairsIn(t) PROVE FALSE
  <2>1. PICK i \in 1..(Len(t) - 1) : p = <<t[i], t[i + 1]>>
    BY <1>16 DEF PairsIn
  <2>2. Rank(ms, t[i], t[i + 1]) = 0
    BY <1>1, <2>1 DEF IsNext
  <2>3. Rank(m2, t[i], t[i + 1]) = Len(ms) + 1
    BY <2>1, <2>2, NewToken
  <2>4. i \in Can(m2, t)
    BY <1>1, <2>3 DEF Can
  <2>. QED  BY <1>13, <2>4
<1>. QED  BY <1>12, <1>14, <1>15, <1>16

\* The tokens of a scan are known ones.
LEMMA ScanRange ==
  ASSUME NEW ms, IsMerges(ms), NEW s \in Seq(0..(255 + Len(ms)))
  PROVE  Scan(ms, s) \in Seq(0..(255 + Len(ms)))
<1> DEFINE N == 0..(255 + Len(ms))
           I == Seq(N)
<1>1. Len(ms) \in Nat
  BY LenProperties DEF IsMerges
<1>2. ASSUME NEW x \in I PROVE ScanStep(ms)[x] \in I
  <2>1. x \in Seq(Nat)
    <3>1. N \subseteq Nat
      BY <1>1
    <3>2. x \in Seq(N)
      OBVIOUS
    <3> HIDE DEF N
    <3>. QED  BY ONLY <3>1, <3>2, SeqMono
  <2>2. CASE Can(ms, x) = {}
    <3>1. ScanStep(ms)[x] = x
      BY <1>1, <2>1, <2>2, ScanStepIs
    <3>. QED  BY <3>1
  <2>3. CASE Can(ms, x) # {}
    <3>1. Len(x) \in Nat
      BY <2>1, LenProperties
    <3>2. PICK i : IsBest(ms, x, i)
      BY <1>1, <2>3, <3>1, BestExists
    <3> DEFINE id == 255 + Rank(ms, x[i], x[i + 1])
    <3>3. ScanStep(ms)[x] = MergeAt(x, i, id)
      BY <1>1, <2>1, <3>2, ScanStepIs
    <3>4. id \in N /\ i \in 1..(Len(x) - 1)
      <4>1. Rank(ms, x[i], x[i + 1]) \in 0..Len(ms)
        BY <1>1, RankIs
      <4>. QED  BY <1>1, <3>2, <4>1 DEF IsBest, Can
    <3> HIDE DEF N, id
    <3>5. MergeAt(x, i, id) \in Seq(N)
      BY <3>4, MergeAtIs
    <3>. QED  BY <3>3, <3>5
  <2>. QED  BY <2>2, <2>3
<1>3. Len(s) \in Nat
  BY LenProperties
<1> DEFINE step == ScanStep(ms)
           n == Len(s)
<1> HIDE DEF I, step, n
<1>4. s \in I /\ n \in Nat /\ \A x \in I : step[x] \in I
  BY <1>2, <1>3 DEF I, step, n
<1>5. Repeat(step, n, s) \in I
  BY ONLY <1>4, RepeatKeeps
<1>. QED  BY <1>5 DEF I, step, n, Scan
-----------------------------------------------------------------------------
(* Sums over a finite set.                                                 *)

\* What holds of the empty set, and of a set when of all it is one element larger
\* than, holds of every finite set.
LEMMA SubsetInduction ==
  ASSUME NEW D, IsFiniteSet(D), NEW P, {} \in P,
         \A s \in SUBSET D : s # {} /\ (\A x \in s : s \ {x} \in P) => s \in P
  PROVE  D \in P
<1> DEFINE K == {n \in Nat : \A s \in SUBSET D : Cardinality(s) <= n => s \in P}
<1>0. \A s \in SUBSET D : IsFiniteSet(s) /\ Cardinality(s) \in Nat
  BY FS_Subset, FS_CardinalityType
<1>1. 0 \in K
  <2>1. ASSUME NEW s \in SUBSET D, Cardinality(s) <= 0 PROVE s \in P
    <3>1. s = {}
      BY <1>0, <2>1, FS_EmptySet
    <3>. QED  BY <3>1
  <2>. QED  BY <2>1
<1>2. ASSUME NEW n \in Nat, n \in K PROVE n + 1 \in K
  <2>1. ASSUME NEW s \in SUBSET D, Cardinality(s) <= n + 1, s # {} PROVE s \in P
    <3>1. ASSUME NEW x \in s PROVE s \ {x} \in P
      <4>1. Cardinality(s \ {x}) = Cardinality(s) - 1 /\ s \ {x} \in SUBSET D
        BY <1>0, FS_RemoveElement
      <4>2. Cardinality(s \ {x}) <= n
        BY <1>0, <2>1, <4>1
      <4>. QED  BY <1>2, <4>1, <4>2
    <3>. QED  BY <2>1, <3>1
  <2>2. ASSUME NEW s \in SUBSET D, Cardinality(s) <= n + 1 PROVE s \in P
    <3>1. CASE s = {}
      BY <3>1
    <3>2. CASE s # {}
      BY <2>1, <2>2, <3>2
    <3>. QED  BY <3>1, <3>2
  <2>3. n + 1 \in Nat
    OBVIOUS
  <2>. QED  BY <2>2, <2>3
<1>3. Cardinality(D) \in K
  <2> HIDE DEF K
  <2>. QED  BY <1>0, <1>1, <1>2, Induction
<1>4. D \in SUBSET D /\ Cardinality(D) <= Cardinality(D)
  BY <1>0
<1>. QED  BY <1>3, <1>4

\* The sum of w over D.
SumTotal(w, D) == SumFunction([i \in D |-> w[i]])

\* What the sum of s comes to, when f holds the sums of smaller sets.
Added(f, w, s) == IF s = {} THEN 0 ELSE LET x == CHOOSE x \in s : TRUE IN w[x] + f[s \ {x}]
Sums(f, w, D) == f = [s \in SUBSET D |-> Added(f, w, s)]

\* The recursion that defines a sum has a solution.
LEMMA SumsExist ==
  ASSUME NEW w, NEW D, IsFiniteSet(D)
  PROVE  \E f : Sums(f, w, D)
<1> DEFINE P == {s \in SUBSET D : \E f : Sums(f, w, s)}
<1>1. {} \in P
  <2> DEFINE f == [s \in SUBSET {} |-> 0]
  <2>1. f = [s \in SUBSET {} |-> Added(f, w, s)]
    <3>1. \A s \in SUBSET {} : Added(f, w, s) = 0
      BY DEF Added
    <3>. QED  BY <3>1
  <2> HIDE DEF f
  <2>. QED  BY <2>1 DEF Sums
<1>2. ASSUME NEW s \in SUBSET D, s # {}, \A x \in s : s \ {x} \in P PROVE s \in P
  <2> DEFINE h == [x \in s |-> CHOOSE f : Sums(f, w, s \ {x})]
  <2>1. \A x \in s : Sums(h[x], w, s \ {x})
    BY <1>2
  <2>7. ASSUME NEW x \in s, NEW t \in SUBSET (s \ {x}) PROVE h[x][t] = Added(h[x], w, t)
    <3> HIDE DEF h
    <3>1. h[x] = [u \in SUBSET (s \ {x}) |-> Added(h[x], w, u)]
      BY <2>1 DEF Sums
    <3> DEFINE g == h[x]
    <3> HIDE DEF g
    <3>2. g = [u \in SUBSET (s \ {x}) |-> Added(g, w, u)]
      BY <3>1 DEF g
    <3>3. g[t] = Added(g, w, t)
      BY <3>2
    <3>. QED  BY <3>3 DEF g
  <2> DEFINE less == [t \in (SUBSET s) \ {s} |-> h[CHOOSE x \in s : x \notin t][t]]
             f == [t \in SUBSET s |-> IF t = s THEN Added(less, w, s) ELSE less[t]]
  <2>2. ASSUME NEW x \in s, NEW y \in s
        PROVE  \A t \in SUBSET (s \ {x, y}) : h[x][t] = h[y][t]
    <3> DEFINE Q == {t \in SUBSET (s \ {x, y}) : h[x][t] = h[y][t]}
    <3>1. \A t \in SUBSET (s \ {x, y}) : h[x][t] = Added(h[x], w, t) /\ h[y][t] = Added(h[y], w, t)
      BY <2>7
    <3> HIDE DEF h
    <3>2. {} \in Q
      BY <3>1 DEF Added
    <3>3. ASSUME NEW t \in SUBSET (s \ {x, y}), t # {}, \A z \in t : t \ {z} \in Q PROVE t \in Q
      <4> DEFINE z == CHOOSE z \in t : TRUE
      <4>1. z \in t
        BY <3>3
      <4>2. h[x][t \ {z}] = h[y][t \ {z}]
        BY <3>3, <4>1
      <4>3. Added(h[x], w, t) = Added(h[y], w, t)
        BY <3>3, <4>2 DEF Added
      <4>. QED  BY <3>1, <4>3
    <3>4. ASSUME NEW t \in SUBSET (s \ {x, y}) PROVE t \in Q
      <4>1. IsFiniteSet(t)
        BY FS_Subset
      <4>2. \A u \in SUBSET t : u # {} /\ (\A z \in u : u \ {z} \in Q) => u \in Q
        <5> HIDE DEF Q
        <5>. QED  BY <3>3
      <4> HIDE DEF Q
      <4>. QED  BY <3>2, <4>1, <4>2, SubsetInduction
    <3>. QED  BY <3>4
  <2>3. ASSUME NEW x \in s, NEW t \in SUBSET (s \ {x}) PROVE less[t] = h[x][t]
    <3> DEFINE y == CHOOSE y \in s : y \notin t
    <3>1. y \in s /\ y \notin t /\ t # s
      OBVIOUS
    <3>2. less[t] = h[y][t]
      BY <3>1
    <3> HIDE DEF y, h, less
    <3>3. t \in SUBSET (s \ {x, y})
      BY <3>1
    <3>. QED  BY <2>2, <3>1, <3>2, <3>3
  <2>4. ASSUME NEW t \in SUBSET s PROVE f[t] = Added(f, w, t)
    <3>1. CASE t = s
      <4> DEFINE z == CHOOSE z \in s : TRUE
      <4>1. z \in s /\ s \ {z} # s /\ s \ {z} \in SUBSET s
        BY <1>2
      <4>2. f[s \ {z}] = less[s \ {z}]
        BY <4>1
      <4> HIDE DEF less
      <4>3. f[s] = Added(less, w, s)
        OBVIOUS
      <4> HIDE DEF f
      <4>4. Added(less, w, s) = Added(f, w, s)
        BY <4>2 DEF Added
      <4>. QED  BY <3>1, <4>3, <4>4
    <3>2. CASE t # s
      <4>1. PICK x \in s : x \notin t
        BY <3>2
      <4>2. \A u \in SUBSET (s \ {x}) : f[u] = h[x][u]
        <5>1. \A u \in SUBSET (s \ {x}) : f[u] = less[u]
          OBVIOUS
        <5> HIDE DEF f, less, h
        <5>. QED  BY <2>3, <5>1
      <4>3. t \in SUBSET (s \ {x})
        BY <4>1
      <4>4. h[x][t] = Added(h[x], w, t)
        BY <2>7, <4>3
      <4> HIDE DEF f, less, h
      <4>5. Added(h[x], w, t) = Added(f, w, t)
        <5>1. CASE t = {}
          BY <5>1 DEF Added
        <5>2. CASE t # {}
          <6> DEFINE z == CHOOSE z \in t : TRUE
          <6>1. t \ {z} \in SUBSET (s \ {x})
            BY <4>3
          <6>2. f[t \ {z}] = h[x][t \ {z}]
            BY <4>2, <6>1
          <6>. QED  BY <5>2, <6>2 DEF Added
        <5>. QED  BY <5>1, <5>2
      <4>. QED  BY <4>2, <4>3, <4>4, <4>5
    <3>. QED  BY <3>1, <3>2
  <2>5. f = [t \in SUBSET s |-> f[t]]
    OBVIOUS
  <2> HIDE DEF f, less, h
  <2>6. Sums(f, w, s)
    BY <2>4, <2>5 DEF Sums
  <2>. QED  BY <2>6
<1>3. D \in P
  <2> HIDE DEF P
  <2>. QED  BY <1>1, <1>2, SubsetInduction
<1>. QED  BY <1>3
\* A sum, by its recursion.
LEMMA TotalIs ==
  ASSUME NEW w, NEW D, IsFiniteSet(D)
  PROVE  \E f : Sums(f, [i \in D |-> w[i]], D) /\ SumTotal(w, D) = f[D]
<1> DEFINE v == [i \in D |-> w[i]]
           f == CHOOSE f : f = [s \in SUBSET (DOMAIN v) |-> Added(f, v, s)]
<1>1. SumTotal(w, D) = f[DOMAIN v]
  BY Zenon DEF SumTotal, SumFunction, SumFunctionOnSet, FoldFunctionOnSet, MapThenFoldSet, Added
<1>2. DOMAIN v = D
  OBVIOUS
<1> HIDE DEF v
<1>3. \E g : Sums(g, v, D)
  BY SumsExist
<1>4. f = [s \in SUBSET (DOMAIN v) |-> Added(f, v, s)]
  BY <1>2, <1>3, Zenon DEF Sums
<1> HIDE DEF f
<1>5. Sums(f, v, D)
  BY <1>2, <1>4 DEF Sums
<1>. QED  BY <1>1, <1>2, <1>5 DEF v

\* Two sums over the same elements agree.
LEMMA SumsAgree ==
  ASSUME NEW v, NEW w, NEW D, IsFiniteSet(D), NEW s \in SUBSET D, NEW f, NEW g,
         Sums(f, v, D), Sums(g, w, s), \A i \in s : v[i] = w[i]
  PROVE  f[s] = g[s]
<1> DEFINE Q == {t \in SUBSET s : f[t] = g[t]}
<1>0. \A t \in SUBSET s : f[t] = Added(f, v, t) /\ g[t] = Added(g, w, t)
  <2>1. f = [t \in SUBSET D |-> Added(f, v, t)]
    BY DEF Sums
  <2>2. g = [t \in SUBSET s |-> Added(g, w, t)]
    BY DEF Sums
  <2>3. ASSUME NEW t \in SUBSET s PROVE f[t] = Added(f, v, t)
    <3>1. t \in SUBSET D
      OBVIOUS
    <3>. QED  BY <2>1, <3>1, Zenon
  <2>4. ASSUME NEW t \in SUBSET s PROVE g[t] = Added(g, w, t)
    BY <2>2, Zenon
  <2>. QED  BY <2>3, <2>4
<1>1. {} \in Q
  BY <1>0 DEF Added
<1>2. ASSUME NEW t \in SUBSET s, t # {}, \A z \in t : t \ {z} \in Q PROVE t \in Q
  <2> DEFINE z == CHOOSE z \in t : TRUE
  <2>1. z \in t
    BY <1>2
  <2>2. f[t \ {z}] = g[t \ {z}] /\ v[z] = w[z]
    BY <1>2, <2>1
  <2>3. Added(f, v, t) = Added(g, w, t)
    BY <1>2, <2>2 DEF Added
  <2>. QED  BY <1>0, <2>3
<1>3. IsFiniteSet(s)
  BY FS_Subset
<1> HIDE DEF Q
<1>4. s \in Q
  BY <1>1, <1>2, <1>3, SubsetInduction
<1>. QED  BY <1>4 DEF Q

\* The sum of nothing, and the sum with the element its recursion takes first.
LEMMA TotalChosen ==
  ASSUME NEW w, NEW D, IsFiniteSet(D)
  PROVE  /\ D = {} => SumTotal(w, D) = 0
         /\ D # {} => \E x \in D : SumTotal(w, D) = w[x] + SumTotal(w, D \ {x})
<1> DEFINE v == [i \in D |-> w[i]]
<1>1. PICK f : Sums(f, v, D) /\ SumTotal(w, D) = f[D]
  BY TotalIs
<1>2. f[D] = Added(f, v, D)
  <2>1. f = [s \in SUBSET D |-> Added(f, v, s)]
    BY <1>1 DEF Sums
  <2> HIDE DEF v
  <2>2. D \in SUBSET D
    OBVIOUS
  <2>. QED  BY <2>1, <2>2, Zenon
<1>3. CASE D = {}
  BY <1>1, <1>2, <1>3 DEF Added
<1>4. CASE D # {}
  <2> DEFINE x == CHOOSE x \in D : TRUE
             u == [i \in D \ {x} |-> w[i]]
  <2>1. x \in D /\ f[D] = v[x] + f[D \ {x}] /\ v[x] = w[x]
    BY <1>2, <1>4 DEF Added
  <2> HIDE DEF x
  <2>2. IsFiniteSet(D \ {x})
    BY FS_RemoveElement
  <2>3. PICK g : Sums(g, u, D \ {x}) /\ SumTotal(w, D \ {x}) = g[D \ {x}]
    BY <2>2, TotalIs
  <2>4. \A i \in D \ {x} : v[i] = u[i]
    OBVIOUS
  <2> HIDE DEF u, v
  <2>5. f[D \ {x}] = g[D \ {x}]
    <3> DEFINE E == D \ {x}
    <3>1. E \in SUBSET D
      OBVIOUS
    <3>4. \A i \in E : v[i] = u[i]
      BY <2>4
    <3>2. Sums(f, v, D) /\ Sums(g, u, E)
      BY <1>1, <2>3
    <3> HIDE DEF E
    <3>3. f[E] = g[E]
      BY <3>1, <3>2, <3>4, SumsAgree
    <3>. QED  BY <3>3 DEF E
  <2>. QED  BY <1>1, <2>1, <2>3, <2>5
<1>. QED  BY <1>3, <1>4
-----------------------------------------------------------------------------
(* What a sum of integers is, whatever order it is taken in.               *)

\* A sum of integers is an integer.
LEMMA TotalIsInt ==
  ASSUME NEW w, NEW D, IsFiniteSet(D), \A i \in D : w[i] \in Int
  PROVE  SumTotal(w, D) \in Int
<1> DEFINE P == {s \in SUBSET D : SumTotal(w, s) \in Int}
<1>1. {} \in P
  <2>1. IsFiniteSet({}) /\ {} \in SUBSET D
    BY FS_EmptySet
  <2>. QED  BY <2>1, TotalChosen
<1>2. ASSUME NEW s \in SUBSET D, s # {}, \A x \in s : s \ {x} \in P PROVE s \in P
  <2>1. IsFiniteSet(s)
    BY FS_Subset
  <2>2. PICK x \in s : SumTotal(w, s) = w[x] + SumTotal(w, s \ {x})
    BY <1>2, <2>1, TotalChosen
  <2>3. SumTotal(w, s \ {x}) \in Int /\ w[x] \in Int
    BY <1>2, <2>2
  <2>. QED  BY <2>2, <2>3
<1> HIDE DEF P
<1>3. D \in P
  BY <1>1, <1>2, SubsetInduction
<1>. QED  BY <1>3 DEF P

\* Any element may be taken first.
LEMMA TotalRemove ==
  ASSUME NEW w, NEW D, IsFiniteSet(D), \A i \in D : w[i] \in Int, NEW x \in D
  PROVE  SumTotal(w, D) = w[x] + SumTotal(w, D \ {x})
<1> DEFINE P == {s \in SUBSET D : \A y \in s : SumTotal(w, s) = w[y] + SumTotal(w, s \ {y})}
<1>1. {} \in P
  OBVIOUS
<1>2. ASSUME NEW s \in SUBSET D, s # {}, \A y \in s : s \ {y} \in P PROVE s \in P
  <2>1. IsFiniteSet(s)
    BY FS_Subset
  <2>2. PICK z \in s : SumTotal(w, s) = w[z] + SumTotal(w, s \ {z})
    BY <1>2, <2>1, TotalChosen
  <2>3. ASSUME NEW y \in s PROVE SumTotal(w, s) = w[y] + SumTotal(w, s \ {y})
    <3>1. CASE y = z
      BY <2>2, <3>1
    <3>2. CASE y # z
      <4>1. SumTotal(w, s \ {z}) = w[y] + SumTotal(w, (s \ {z}) \ {y})
        BY <1>2, <3>2
      <4>2. SumTotal(w, s \ {y}) = w[z] + SumTotal(w, (s \ {y}) \ {z})
        BY <1>2, <3>2
      <4>3. (s \ {z}) \ {y} = (s \ {y}) \ {z}
        OBVIOUS
      <4>4. w[y] \in Int /\ w[z] \in Int /\ SumTotal(w, (s \ {y}) \ {z}) \in Int
        <5>1. IsFiniteSet((s \ {y}) \ {z}) /\ \A i \in (s \ {y}) \ {z} : w[i] \in Int
          BY <2>1, FS_RemoveElement
        <5>. QED  BY <5>1, TotalIsInt
      <4> DEFINE r == SumTotal(w, (s \ {y}) \ {z})
      <4>5. SumTotal(w, s \ {z}) = w[y] + r /\ SumTotal(w, s \ {y}) = w[z] + r /\ r \in Int
        BY <4>1, <4>2, <4>3, <4>4
      <4> HIDE DEF r
      <4>. QED  BY <2>2, <4>4, <4>5
    <3>. QED  BY <3>1, <3>2
  <2>. QED  BY <2>3
<1>3. D \in P
  <2> HIDE DEF P
  <2>. QED  BY <1>1, <1>2, SubsetInduction
<1>. QED  BY <1>3

\* A sum of naturals.
LEMMA TotalIsNat ==
  ASSUME NEW w, NEW D, IsFiniteSet(D), \A i \in D : w[i] \in Nat
  PROVE  /\ SumTotal(w, D) \in Nat
         /\ SumTotal(w, D) > 0 <=> \E i \in D : w[i] > 0
<1> DEFINE P == {s \in SUBSET D : SumTotal(w, s) \in Nat /\ (SumTotal(w, s) > 0 <=> \E i \in s : w[i] > 0)}
<1>1. {} \in P
  <2>1. IsFiniteSet({}) /\ {} \in SUBSET D
    BY FS_EmptySet
  <2>. QED  BY <2>1, TotalChosen
<1>2. ASSUME NEW s \in SUBSET D, s # {}, \A x \in s : s \ {x} \in P PROVE s \in P
  <2>1. IsFiniteSet(s)
    BY FS_Subset
  <2>2. PICK x \in s : SumTotal(w, s) = w[x] + SumTotal(w, s \ {x})
    BY <1>2, <2>1, TotalChosen
  <2>3. /\ SumTotal(w, s \ {x}) \in Nat /\ w[x] \in Nat
        /\ SumTotal(w, s \ {x}) > 0 <=> \E i \in s \ {x} : w[i] > 0
    BY <1>2, <2>2
  <2>4. SumTotal(w, s) > 0 <=> w[x] > 0 \/ SumTotal(w, s \ {x}) > 0
    BY <2>2, <2>3
  <2>5. (\E i \in s : w[i] > 0) <=> w[x] > 0 \/ \E i \in s \ {x} : w[i] > 0
    OBVIOUS
  <2>6. SumTotal(w, s) \in Nat
    BY <2>2, <2>3
  <2>. QED  BY <2>3, <2>4, <2>5, <2>6
<1> HIDE DEF P
<1>3. D \in P
  BY <1>1, <1>2, SubsetInduction
<1>. QED  BY <1>3 DEF P

\* A sum of zeros is zero.
LEMMA TotalIsZero ==
  ASSUME NEW w, NEW D, IsFiniteSet(D), \A i \in D : w[i] = 0
  PROVE  SumTotal(w, D) = 0
<1>1. \A i \in D : w[i] \in Nat /\ ~ (w[i] > 0)
  OBVIOUS
<1>. QED  BY <1>1, TotalIsNat

\* What changes on a part of D changes the sum of D by what it changes there.
LEMMA TotalChanges ==
  ASSUME NEW u, NEW v, NEW d, NEW D, IsFiniteSet(D), NEW T \in SUBSET D,
         \A i \in D : u[i] \in Int /\ v[i] \in Int, \A i \in T : d[i] \in Int /\ v[i] = u[i] + d[i],
         \A i \in D \ T : v[i] = u[i]
  PROVE  SumTotal(v, D) = SumTotal(u, D) + SumTotal(d, T)
<1> DEFINE P == {s \in SUBSET D : SumTotal(v, s) = SumTotal(u, s) + SumTotal(d, s \cap T)}
<1>1. {} \in P
  <2>1. IsFiniteSet({}) /\ {} \in SUBSET D /\ {} \cap T = {}
    BY FS_EmptySet
  <2>. QED  BY <2>1, TotalChosen
<1>2. ASSUME NEW s \in SUBSET D, s # {}, \A x \in s : s \ {x} \in P PROVE s \in P
  <2>1. IsFiniteSet(s) /\ IsFiniteSet(s \cap T)
    BY FS_Subset
  <2>2. PICK x \in s : TRUE
    BY <1>2
  <2>3. IsFiniteSet(s \ {x}) /\ IsFiniteSet((s \ {x}) \cap T)
    BY FS_Subset
  <2>4. SumTotal(v, s) = v[x] + SumTotal(v, s \ {x}) /\ SumTotal(u, s) = u[x] + SumTotal(u, s \ {x})
    BY <2>1, TotalRemove
  <2>5. SumTotal(v, s \ {x}) = SumTotal(u, s \ {x}) + SumTotal(d, (s \ {x}) \cap T)
    BY <1>2
  <2>6. /\ SumTotal(v, s \ {x}) \in Int /\ SumTotal(u, s \ {x}) \in Int
        /\ u[x] \in Int /\ v[x] \in Int
    BY <2>3, TotalIsInt
  <2>7. SumTotal(d, (s \ {x}) \cap T) \in Int
    BY <2>3, TotalIsInt
  <2>8. CASE x \in T
    <3>1. (s \cap T) \ {x} = (s \ {x}) \cap T /\ x \in s \cap T /\ \A i \in s \cap T : d[i] \in Int
      BY <2>8
    <3>2. SumTotal(d, s \cap T) = d[x] + SumTotal(d, (s \ {x}) \cap T)
      BY <2>1, <3>1, TotalRemove
    <3>3. d[x] \in Int /\ v[x] = u[x] + d[x]
      BY <2>8
    <3>. QED  BY <2>4, <2>5, <2>6, <2>7, <3>2, <3>3
  <2>9. CASE x \notin T
    <3>1. s \cap T = (s \ {x}) \cap T
      BY <2>9
    <3>2. v[x] = u[x]
      BY <2>9
    <3>3. SumTotal(d, s \cap T) = SumTotal(d, (s \ {x}) \cap T)
      BY <3>1
    <3>4. SumTotal(v, s) = SumTotal(u, s) + SumTotal(d, s \cap T)
      BY <2>4, <2>5, <2>6, <2>7, <3>2, <3>3
    <3>. QED  BY <3>4
  <2>. QED  BY <2>8, <2>9
<1>3. D \in P
  <2> HIDE DEF P
  <2>. QED  BY <1>1, <1>2, SubsetInduction
<1>4. D \cap T = T
  OBVIOUS
<1>. QED  BY <1>3, <1>4
-----------------------------------------------------------------------------
(* The bytes of a token.                                                   *)

\* b holds the bytes of the tokens up to n.
Spells(b, ms, n) ==
  b = [id \in 0..n |-> IF id < 256 THEN <<id>> ELSE b[ms[id - 255][1]] \o b[ms[id - 255][2]]]

\* Both parts of a token come before it.
LEMMA PartsAre ==
  ASSUME NEW ms, IsMerges(ms), NEW id \in 256..(255 + Len(ms))
  PROVE  ms[id - 255][1] \in 0..(id - 1) /\ ms[id - 255][2] \in 0..(id - 1)
<1>1. Len(ms) \in Nat
  BY LenProperties DEF IsMerges
<1>2. id - 255 \in 1..Len(ms) /\ 255 + (id - 255) = id
  BY <1>1
<1>3. ms[id - 255] \in Nat \X Nat
  BY <1>2, ElementOfSeq DEF IsMerges
<1>4. ms[id - 255][1] < 255 + (id - 255) /\ ms[id - 255][2] < 255 + (id - 255)
  BY <1>2 DEF IsMerges
<1>5. ms[id - 255][1] \in Nat /\ ms[id - 255][2] \in Nat
  BY <1>3
<1>. QED  BY <1>2, <1>4, <1>5

\* The bytes of the tokens up to n give those of token n + 1.
LEMMA SpellsOn ==
  ASSUME NEW ms, IsMerges(ms), NEW n \in Nat, n + 1 <= 255 + Len(ms), NEW b, Spells(b, ms, n)
  PROVE  \E g : Spells(g, ms, n + 1)
<1> DEFINE rhs(f, id) == IF id < 256 THEN <<id>> ELSE f[ms[id - 255][1]] \o f[ms[id - 255][2]]
           g == [id \in 0..(n + 1) |-> IF id = n + 1 THEN rhs(b, n + 1) ELSE b[id]]
<1>0. Len(ms) \in Nat
  BY LenProperties DEF IsMerges
<1>1. \A id \in 0..n : b[id] = rhs(b, id)
  BY DEF Spells
<1>2. \A id \in 0..n : g[id] = b[id]
  BY n + 1 # n
<1>3. g[n + 1] = rhs(b, n + 1)
  OBVIOUS
<1>4. g = [id \in 0..(n + 1) |-> g[id]]
  OBVIOUS
<1> HIDE DEF g
<1>5. ASSUME NEW id \in 0..(n + 1) PROVE rhs(b, id) = rhs(g, id)
  <2>1. CASE id < 256
    BY <2>1
  <2>2. CASE ~ (id < 256)
    <3>1. id \in 256..(255 + Len(ms))
      BY <1>0, <2>2
    <3>2. ms[id - 255][1] \in 0..(id - 1) /\ ms[id - 255][2] \in 0..(id - 1)
      BY <3>1, PartsAre
    <3>3. ms[id - 255][1] \in 0..n /\ ms[id - 255][2] \in 0..n
      BY <3>2
    <3>. QED  BY <1>2, <2>2, <3>3
  <2>. QED  BY <2>1, <2>2
<1> HIDE DEF rhs
<1>6. \A id \in 0..(n + 1) : g[id] = rhs(g, id)
  <2> TAKE id \in 0..(n + 1)
  <2>1. CASE id = n + 1
    BY <1>3, <1>5, <2>1
  <2>2. CASE id # n + 1
    <3>1. id \in 0..n
      BY <2>2
    <3>. QED  BY <1>1, <1>2, <1>5, <3>1
  <2>. QED  BY <2>1, <2>2
<1>7. g = [id \in 0..(n + 1) |-> rhs(g, id)]
  BY <1>4, <1>6
<1>. QED  BY <1>7 DEF Spells, rhs

\* BytesOf follows its recursion.
LEMMA BytesOfIs ==
  ASSUME NEW ms, IsMerges(ms)
  PROVE  Spells(BytesOf(ms), ms, 255 + Len(ms))
<1>0. Len(ms) \in Nat
  BY LenProperties DEF IsMerges
<1> DEFINE K == {n \in Nat : n <= 255 + Len(ms) => \E b : Spells(b, ms, n)}
<1>1. 0 \in K
  <2> DEFINE b == [id \in 0..0 |-> <<id>>]
  <2>1. \A id \in 0..0 : id < 256
    OBVIOUS
  <2>2. b = [id \in 0..0 |-> IF id < 256 THEN <<id>> ELSE b[ms[id - 255][1]] \o b[ms[id - 255][2]]]
    BY <2>1
  <2> HIDE DEF b
  <2>3. Spells(b, ms, 0)
    BY <2>2 DEF Spells
  <2>. QED  BY <2>3
<1>2. ASSUME NEW n \in Nat, n \in K PROVE n + 1 \in K
  <2>1. n + 1 <= 255 + Len(ms) => n <= 255 + Len(ms)
    BY <1>0
  <2>. QED  BY <1>2, <2>1, SpellsOn
<1>3. 255 + Len(ms) \in K
  <2>1. 255 + Len(ms) \in Nat
    BY <1>0
  <2> HIDE DEF K
  <2>. QED  BY <1>1, <1>2, <2>1, Induction
<1>4. \E b : Spells(b, ms, 255 + Len(ms))
  BY <1>0, <1>3
<1> DEFINE f == CHOOSE b : b = [id \in 0..(255 + Len(ms)) |->
                     IF id < 256 THEN <<id>> ELSE b[ms[id - 255][1]] \o b[ms[id - 255][2]]]
<1>5. BytesOf(ms) = f
  BY Zenon DEF BytesOf
<1>6. \E b : b = [id \in 0..(255 + Len(ms)) |->
                     IF id < 256 THEN <<id>> ELSE b[ms[id - 255][1]] \o b[ms[id - 255][2]]]
  BY <1>4, Zenon DEF Spells
<1>7. f = [id \in 0..(255 + Len(ms)) |-> IF id < 256 THEN <<id>> ELSE f[ms[id - 255][1]] \o f[ms[id - 255][2]]]
  BY <1>6, Zenon
<1> HIDE DEF f
<1>. QED  BY <1>5, <1>7 DEF Spells

\* A token has one byte at least.
LEMMA BytesAre ==
  ASSUME NEW ms, IsMerges(ms), NEW id \in 0..(255 + Len(ms))
  PROVE  /\ BytesOf(ms)[id] \in Seq(Byte) /\ Len(BytesOf(ms)[id]) > 0
         /\ id < 256 => BytesOf(ms)[id] = <<id>>
         /\ id >= 256 => BytesOf(ms)[id] = BytesOf(ms)[ms[id - 255][1]] \o BytesOf(ms)[ms[id - 255][2]]
<1> DEFINE B == BytesOf(ms)
           N == 255 + Len(ms)
<1>0. Len(ms) \in Nat /\ N \in Nat
  BY LenProperties DEF IsMerges
<1>1. \A k \in 0..N : B[k] = IF k < 256 THEN <<k>> ELSE B[ms[k - 255][1]] \o B[ms[k - 255][2]]
  <2>1. Spells(B, ms, N)
    BY BytesOfIs
  <2> HIDE DEF B, N
  <2>. QED  BY <2>1 DEF Spells
<1> HIDE DEF B
<1>7. \A k \in 0..N : k < 256 => B[k] = <<k>>
  BY <1>1, Zenon
<1>8. ASSUME NEW k \in 0..N, k >= 256 PROVE B[k] = B[ms[k - 255][1]] \o B[ms[k - 255][2]]
  <2>1. ~ (k < 256)
    BY <1>0, <1>8
  <2>. QED  BY <1>1, <2>1, Zenon
<1> DEFINE Good(k) == B[k] \in Seq(Byte) /\ Len(B[k]) > 0
           K == {n \in Nat : \A k \in 0..N : k <= n => Good(k)}
<1>2. \A k \in 0..N : k < 256 => Good(k)
  <2> TAKE k \in 0..N
  <2>1. ASSUME k < 256 PROVE Good(k)
    <3>1. B[k] = <<k>> /\ k \in Byte
      <4>1. B[k] = <<k>>
        BY <1>7, <2>1, Zenon
      <4>2. k \in Nat
        BY <1>0
      <4>3. k \in Byte
        BY <2>1, <4>2 DEF Byte
      <4>. QED  BY ONLY <4>1, <4>3
    <3>2. <<k>> \in Seq(Byte) /\ Len(<<k>>) = 1
      BY <3>1
    <3>. QED  BY <3>1, <3>2
  <2>. QED  BY <2>1
<1>3. 0 \in K
  BY <1>2
<1>4. ASSUME NEW n \in Nat, n \in K PROVE n + 1 \in K
  <2>1. ASSUME NEW k \in 0..N, k = n + 1, k >= 256 PROVE Good(k)
    <3>1. k \in 256..(255 + Len(ms))
      BY <1>0, <2>1
    <3> DEFINE l == ms[k - 255][1]
               r == ms[k - 255][2]
    <3>2. l \in 0..(k - 1) /\ r \in 0..(k - 1)
      BY <3>1, PartsAre
    <3>3. B[k] = B[l] \o B[r]
      BY <1>8, <2>1
    <3> HIDE DEF l, r
    <3>4. l \in 0..N /\ l <= n /\ r \in 0..N /\ r <= n
      BY <1>0, <2>1, <3>2
    <3>5. Good(l) /\ Good(r)
      BY <1>4, <3>4
    <3> DEFINE x == B[l]
               y == B[r]
    <3>6. x \in Seq(Byte) /\ y \in Seq(Byte) /\ Len(x) > 0 /\ Len(y) > 0 /\ B[k] = x \o y
      BY <3>3, <3>5
    <3> HIDE DEF x, y
    <3>7. x \o y \in Seq(Byte) /\ Len(x \o y) = Len(x) + Len(y) /\ Len(x) \in Nat /\ Len(y) \in Nat
      BY <3>6, ConcatProperties, LenProperties
    <3>8. Len(B[k]) > 0
      BY <3>6, <3>7
    <3>. QED  BY <3>6, <3>7, <3>8
  <2>2. \A k \in 0..N : k <= n + 1 => Good(k)
    <3> TAKE k \in 0..N
    <3>1. CASE k <= n
      BY <1>4, <3>1
    <3>2. CASE k = n + 1
      BY <1>2, <2>1, <3>2
    <3>. QED  BY <3>1, <3>2
  <2>3. n + 1 \in Nat
    OBVIOUS
  <2> HIDE DEF Good
  <2>. QED  BY <2>2, <2>3
<1>5. N \in K
  <2> HIDE DEF K, N
  <2>. QED  BY <1>0, <1>3, <1>4, Induction
<1>6. Good(id)
  BY <1>5
<1>9. (id < 256 => B[id] = <<id>>) /\ (id >= 256 => B[id] = B[ms[id - 255][1]] \o B[ms[id - 255][2]])
  BY <1>7, <1>8
<1>. QED  BY <1>6, <1>9 DEF B
-----------------------------------------------------------------------------
(* HeapLower is a strict total order of the entries.                       *)

\* The first k elements of a sequence.
LEMMA PrefixIs ==
  ASSUME NEW S, NEW a \in Seq(S), NEW k \in 0..Len(a)
  PROVE  SubSeq(a, 1, k) \in Seq(S) /\ Len(SubSeq(a, 1, k)) = k /\ \A j \in 1..k : SubSeq(a, 1, k)[j] = a[j]
<1>1. Len(a) \in Nat /\ \A j \in 1..Len(a) : a[j] \in S
  BY LenProperties, ElementOfSeq
<1>2. 1 \in Int /\ k \in Int /\ \A j \in 1..k : a[j] \in S
  BY <1>1
<1>3. /\ SubSeq(a, 1, k) \in Seq(S) /\ Len(SubSeq(a, 1, k)) = (IF 1 <= k THEN k - 1 + 1 ELSE 0)
      /\ \A j \in 1..(k - 1 + 1) : SubSeq(a, 1, k)[j] = a[1 + j - 1]
  BY <1>2, SubSeqProperties
<1> DEFINE c == SubSeq(a, 1, k)
<1> HIDE DEF c
<1>4. /\ c \in Seq(S) /\ Len(c) = (IF 1 <= k THEN k - 1 + 1 ELSE 0) /\ \A j \in 1..(k - 1 + 1) : c[j] = a[1 + j - 1]
  BY <1>3 DEF c
<1>5. Len(c) = k
  BY <1>4
<1>6. \A j \in 1..k : c[j] = a[j]
  BY <1>4
<1>. QED  BY <1>4, <1>5, <1>6 DEF c

\* Two prefixes are equal when they agree everywhere.
LEMMA PrefixesEqual ==
  ASSUME NEW S, NEW a \in Seq(S), NEW b \in Seq(S), NEW k \in Nat, k <= Len(a), k <= Len(b)
  PROVE  SubSeq(a, 1, k) = SubSeq(b, 1, k) <=> \A j \in 1..k : a[j] = b[j]
<1> DEFINE x == SubSeq(a, 1, k)
           y == SubSeq(b, 1, k)
<1>0. k \in 0..Len(a) /\ k \in 0..Len(b)
  BY LenProperties
<1>1. x \in Seq(S) /\ Len(x) = k /\ \A j \in 1..k : x[j] = a[j]
  BY <1>0, PrefixIs
<1>2. y \in Seq(S) /\ Len(y) = k /\ \A j \in 1..k : y[j] = b[j]
  BY <1>0, PrefixIs
<1> HIDE DEF x, y
<1>3. x = y <=> \A j \in 1..k : x[j] = y[j]
  BY <1>1, <1>2, SeqEqual
<1>4. (\A j \in 1..k : x[j] = y[j]) <=> \A j \in 1..k : a[j] = b[j]
  BY <1>1, <1>2
<1>. QED  BY <1>3, <1>4 DEF x, y

\* Before, element by element.
LEMMA BeforeIs ==
  ASSUME NEW a \in Seq(Byte), NEW b \in Seq(Byte)
  PROVE  Before(a, b) <=> \E k \in 0..Len(a) : /\ k < Len(b) /\ \A j \in 1..k : a[j] = b[j]
                                               /\ k = Len(a) \/ a[k + 1] < b[k + 1]
<1>1. Len(a) \in Nat /\ Len(b) \in Nat
  BY LenProperties
<1>2. ASSUME NEW k \in 0..Len(a), k < Len(b)
      PROVE  SubSeq(a, 1, k) = SubSeq(b, 1, k) <=> \A j \in 1..k : a[j] = b[j]
  <2>1. k \in Nat /\ k <= Len(a) /\ k <= Len(b)
    BY <1>1, <1>2
  <2>. QED  BY <2>1, PrefixesEqual
<1>. QED  BY <1>2, Zenon DEF Before

\* A byte is a number.
LEMMA ByteAt ==
  ASSUME NEW a \in Seq(Byte), NEW k \in Nat, k < Len(a)
  PROVE  a[k + 1] \in Nat
<1>1. k + 1 \in 1..Len(a)
  BY LenProperties
<1>2. a[k + 1] \in Byte
  BY <1>1, ElementOfSeq
<1>3. \A x \in Byte : x \in Nat
  BY DEF Byte
<1>. QED  BY <1>2, <1>3

\* Before is irreflexive.
LEMMA BeforeIrreflexive == ASSUME NEW a \in Seq(Byte) PROVE ~ Before(a, a)
<1> SUFFICES ASSUME Before(a, a) PROVE FALSE
  OBVIOUS
<1>1. PICK k \in 0..Len(a) : k < Len(a) /\ (k = Len(a) \/ a[k + 1] < a[k + 1])
  BY BeforeIs
<1>2. Len(a) \in Nat /\ k \in Nat /\ k # Len(a)
  BY <1>1, LenProperties
<1>3. a[k + 1] \in Nat
  BY <1>1, <1>2, ByteAt
<1>. QED  BY <1>1, <1>2, <1>3

\* Before is transitive.
LEMMA BeforeTransitive ==
  ASSUME NEW a \in Seq(Byte), NEW b \in Seq(Byte), NEW c \in Seq(Byte), Before(a, b), Before(b, c)
  PROVE  Before(a, c)
<1>0. Len(a) \in Nat /\ Len(b) \in Nat /\ Len(c) \in Nat
  BY LenProperties
<1>1. PICK k \in 0..Len(a) : /\ k < Len(b) /\ \A j \in 1..k : a[j] = b[j]
                             /\ k = Len(a) \/ a[k + 1] < b[k + 1]
  BY BeforeIs
<1>2. PICK l \in 0..Len(b) : /\ l < Len(c) /\ \A j \in 1..l : b[j] = c[j]
                             /\ l = Len(b) \/ b[l + 1] < c[l + 1]
  BY BeforeIs
<1>3. CASE k < l
  <2>1. k < Len(c) /\ k + 1 \in 1..l
    BY <1>0, <1>2, <1>3
  <2>2. \A j \in 1..k : a[j] = c[j]
    BY <1>1, <1>2, <1>3
  <2>3. b[k + 1] = c[k + 1]
    BY <1>2, <2>1
  <2>4. k = Len(a) \/ a[k + 1] < c[k + 1]
    BY <1>1, <2>3
  <2>. QED  BY <2>1, <2>2, <2>4, BeforeIs
<1>4. CASE l < k
  <2>1. l \in 0..Len(a) /\ l + 1 \in 1..k /\ l # Len(b)
    BY <1>0, <1>1, <1>4
  <2>2. \A j \in 1..l : a[j] = c[j]
    BY <1>1, <1>2, <1>4
  <2>3. a[l + 1] = b[l + 1]
    BY <1>1, <2>1
  <2>4. a[l + 1] < c[l + 1]
    BY <1>2, <2>1, <2>3
  <2>. QED  BY <1>2, <2>1, <2>2, <2>4, BeforeIs
<1>5. CASE k = l
  <2>1. \A j \in 1..k : a[j] = c[j]
    BY <1>1, <1>2, <1>5
  <2>2. b[k + 1] < c[k + 1] /\ k < Len(c) /\ k < Len(b)
    BY <1>0, <1>1, <1>2, <1>5
  <2>3. k = Len(a) \/ a[k + 1] < c[k + 1]
    <3>1. CASE k # Len(a)
      <4>1. k < Len(a) /\ k \in Nat
        BY <1>0, <3>1
      <4>2. a[k + 1] \in Nat /\ b[k + 1] \in Nat /\ c[k + 1] \in Nat
        BY <2>2, <4>1, ByteAt
      <4>. QED  BY <1>1, <2>2, <3>1, <4>2
    <3>. QED  BY <3>1
  <2>. QED  BY <2>1, <2>2, <2>3, BeforeIs
<1>. QED  BY <1>0, <1>3, <1>4, <1>5

\* Before is total.
LEMMA BeforeTotal ==
  ASSUME NEW a \in Seq(Byte), NEW b \in Seq(Byte), a # b
  PROVE  Before(a, b) \/ Before(b, a)
<1>0. Len(a) \in Nat /\ Len(b) \in Nat
  BY LenProperties
<1> DEFINE Splits(k) == k = Len(a) \/ k = Len(b) \/ a[k + 1] # b[k + 1]
           T == {k \in Nat : Splits(k)}
<1>1. PICK k \in T : \A j \in T : k <= j
  <2>1. Len(a) \in T /\ T \in SUBSET Nat
    BY <1>0
  <2> HIDE DEF T
  <2>. QED  BY <2>1, LeastElement
<1>2. k \in Nat /\ k <= Len(a) /\ k <= Len(b)
  <2>1. Len(a) \in T /\ Len(b) \in T
    BY <1>0
  <2>. QED  BY <1>1, <2>1
<1>3. ASSUME NEW j \in 1..k PROVE a[j] = b[j]
  <2>1. j - 1 \in Nat /\ ~ (k <= j - 1) /\ (j - 1) + 1 = j
    BY <1>2
  <2>2. j - 1 \notin T
    BY <1>1, <2>1
  <2>3. ~ Splits(j - 1)
    BY <2>1, <2>2
  <2>. QED  BY <2>1, <2>3
<1>4. CASE k = Len(a) /\ k = Len(b)
  <2>1. a = b
    BY <1>3, <1>4, SeqEqual
  <2>. QED  BY <2>1
<1>5. CASE k = Len(a) /\ k < Len(b)
  <2>1. k \in 0..Len(a)
    BY <1>2
  <2>. QED  BY <1>3, <1>5, <2>1, BeforeIs
<1>6. CASE k = Len(b) /\ k < Len(a)
  <2>1. k \in 0..Len(b) /\ \A j \in 1..k : b[j] = a[j]
    BY <1>2, <1>3
  <2>. QED  BY <1>6, <2>1, BeforeIs
<1>7. CASE k < Len(a) /\ k < Len(b)
  <2>1. k # Len(a) /\ k # Len(b) /\ k \in 0..Len(a) /\ k \in 0..Len(b)
    BY <1>0, <1>2, <1>7
  <2>2. a[k + 1] # b[k + 1]
    BY <1>1, <2>1
  <2>3. a[k + 1] \in Nat /\ b[k + 1] \in Nat
    BY <1>2, <1>7, ByteAt
  <2>4. a[k + 1] < b[k + 1] \/ b[k + 1] < a[k + 1]
    BY <2>2, <2>3
  <2>5. \A j \in 1..k : b[j] = a[j]
    BY <1>3
  <2>. QED  BY <1>3, <1>7, <2>1, <2>4, <2>5, BeforeIs
<1>. QED  BY <1>0, <1>2, <1>4, <1>5, <1>6, <1>7

\* Entries of the heap once ms are merged.
Tokens(ms) == 0..(255 + Len(ms))
Entries(ms) == [count : Nat, pair : Tokens(ms) \X Tokens(ms)]

\* What an entry of the heap consists of.
LEMMA EntryIs ==
  ASSUME NEW ms, IsMerges(ms), NEW x \in Entries(ms)
  PROVE  /\ x.count \in Nat /\ x.pair = <<x.pair[1], x.pair[2]>> /\ x = Entry(x.count, x.pair)
         /\ x.pair[1] \in Nat /\ x.pair[2] \in Nat
         /\ BytesOf(ms)[x.pair[1]] \in Seq(Byte) /\ BytesOf(ms)[x.pair[2]] \in Seq(Byte)
<1>1. Len(ms) \in Nat
  BY LenProperties DEF IsMerges
<1>2. /\ x.count \in Nat /\ x.pair = <<x.pair[1], x.pair[2]>> /\ x = Entry(x.count, x.pair)
      /\ x.pair[1] \in Tokens(ms) /\ x.pair[2] \in Tokens(ms)
  BY DEF Entries, Entry
<1>3. x.pair[1] \in Nat /\ x.pair[2] \in Nat
  BY <1>1, <1>2 DEF Tokens
<1>4. x.pair[1] \in 0..(255 + Len(ms)) /\ x.pair[2] \in 0..(255 + Len(ms))
  BY <1>2 DEF Tokens
<1>5. BytesOf(ms)[x.pair[1]] \in Seq(Byte) /\ BytesOf(ms)[x.pair[2]] \in Seq(Byte)
  <2>1. \A i \in 0..(255 + Len(ms)) : BytesOf(ms)[i] \in Seq(Byte)
    BY BytesAre
  <2> DEFINE i == x.pair[1]
             j == x.pair[2]
  <2>2. i \in 0..(255 + Len(ms)) /\ j \in 0..(255 + Len(ms))
    BY <1>4
  <2> HIDE DEF i, j
  <2>3. BytesOf(ms)[i] \in Seq(Byte) /\ BytesOf(ms)[j] \in Seq(Byte)
    BY <2>1, <2>2
  <2>. QED  BY <2>3 DEF i, j
<1>. QED  BY <1>2, <1>3, <1>5

\* HeapLower with its definitions put in.
LEMMA SoonerIs ==
  ASSUME NEW x, NEW y
  PROVE  Sooner(x, y) <=>
           \/ x.count > y.count
           \/ /\ x.count = y.count
              /\ IF BytesOf(merges)[x.pair[1]] # BytesOf(merges)[y.pair[1]]
                 THEN Before(BytesOf(merges)[x.pair[1]], BytesOf(merges)[y.pair[1]])
                 ELSE IF BytesOf(merges)[x.pair[2]] # BytesOf(merges)[y.pair[2]]
                 THEN Before(BytesOf(merges)[x.pair[2]], BytesOf(merges)[y.pair[2]])
                 ELSE x.pair[1] < y.pair[1] \/ (x.pair[1] = y.pair[1] /\ x.pair[2] < y.pair[2])
BY Zenon DEF Sooner

\* HeapLower is total.
LEMMA SoonerTotal ==
  ASSUME IsMerges(merges), NEW x \in Entries(merges), NEW y \in Entries(merges), x # y
  PROVE  Sooner(x, y) \/ Sooner(y, x)
<1> DEFINE B == BytesOf(merges)
           a == B[x.pair[1]]
           b == B[x.pair[2]]
           c == B[y.pair[1]]
           d == B[y.pair[2]]
<1>1. /\ x.count \in Nat /\ x.pair = <<x.pair[1], x.pair[2]>> /\ x = Entry(x.count, x.pair)
      /\ x.pair[1] \in Nat /\ x.pair[2] \in Nat /\ a \in Seq(Byte) /\ b \in Seq(Byte)
  BY EntryIs
<1>2. /\ y.count \in Nat /\ y.pair = <<y.pair[1], y.pair[2]>> /\ y = Entry(y.count, y.pair)
      /\ y.pair[1] \in Nat /\ y.pair[2] \in Nat /\ c \in Seq(Byte) /\ d \in Seq(Byte)
  BY EntryIs
<1>3. a # c => Before(a, c) \/ Before(c, a)
  BY <1>1, <1>2, BeforeTotal
<1>4. b # d => Before(b, d) \/ Before(d, b)
  BY <1>1, <1>2, BeforeTotal
<1>5. x.count # y.count \/ x.pair[1] # y.pair[1] \/ x.pair[2] # y.pair[2]
  <2>1. ASSUME x.count = y.count, x.pair[1] = y.pair[1], x.pair[2] = y.pair[2] PROVE x = y
    <3>1. x.pair = y.pair
      BY <1>1, <1>2, <2>1
    <3>. QED  BY <1>1, <1>2, <2>1, <3>1 DEF Entry
  <2>. QED  BY <2>1
<1>6. Sooner(x, y) <=>
        \/ x.count > y.count
        \/ /\ x.count = y.count
           /\ IF a # c THEN Before(a, c) ELSE IF b # d THEN Before(b, d)
              ELSE x.pair[1] < y.pair[1] \/ (x.pair[1] = y.pair[1] /\ x.pair[2] < y.pair[2])
  BY SoonerIs, Zenon
<1>7. Sooner(y, x) <=>
        \/ y.count > x.count
        \/ /\ y.count = x.count
           /\ IF c # a THEN Before(c, a) ELSE IF d # b THEN Before(d, b)
              ELSE y.pair[1] < x.pair[1] \/ (y.pair[1] = x.pair[1] /\ y.pair[2] < x.pair[2])
  BY SoonerIs, Zenon
<1> HIDE DEF a, b, c, d, B
<1>8. CASE x.count # y.count
  BY <1>1, <1>2, <1>6, <1>7, <1>8
<1>9. CASE x.count = y.count /\ a # c
  BY <1>3, <1>6, <1>7, <1>9
<1>10. CASE x.count = y.count /\ a = c /\ b # d
  BY <1>4, <1>6, <1>7, <1>10
<1>11. CASE x.count = y.count /\ a = c /\ b = d
  <2>1. \/ x.pair[1] < y.pair[1] \/ (x.pair[1] = y.pair[1] /\ x.pair[2] < y.pair[2])
        \/ y.pair[1] < x.pair[1] \/ (y.pair[1] = x.pair[1] /\ y.pair[2] < x.pair[2])
    BY <1>1, <1>2, <1>5, <1>11
  <2>. QED  BY <1>6, <1>7, <1>11, <2>1
<1>. QED  BY <1>8, <1>9, <1>10, <1>11

\* HeapLower is irreflexive.
LEMMA SoonerIrreflexive ==
  ASSUME IsMerges(merges), NEW x \in Entries(merges)
  PROVE  ~ Sooner(x, x)
<1>1. x.count \in Nat /\ x.pair[1] \in Nat /\ x.pair[2] \in Nat
  BY EntryIs
<1>2. ~ (x.count > x.count) /\ ~ (x.pair[1] < x.pair[1]) /\ ~ (x.pair[2] < x.pair[2])
  BY <1>1
<1>. QED  BY <1>2, SoonerIs

\* HeapLower is transitive.
LEMMA SoonerTransitive ==
  ASSUME IsMerges(merges), NEW x \in Entries(merges), NEW y \in Entries(merges), NEW z \in Entries(merges),
         Sooner(x, y), Sooner(y, z)
  PROVE  Sooner(x, z)
<1> DEFINE B == BytesOf(merges)
           a == B[x.pair[1]]
           b == B[x.pair[2]]
           c == B[y.pair[1]]
           d == B[y.pair[2]]
           e == B[z.pair[1]]
           f == B[z.pair[2]]
           i == x.pair[1]
           j == x.pair[2]
           k == y.pair[1]
           l == y.pair[2]
           m == z.pair[1]
           n == z.pair[2]
<1>1. /\ x.count \in Nat /\ y.count \in Nat /\ z.count \in Nat
      /\ i \in Nat /\ j \in Nat /\ k \in Nat /\ l \in Nat /\ m \in Nat /\ n \in Nat
  BY EntryIs
<1>2. /\ a \in Seq(Byte) /\ b \in Seq(Byte) /\ c \in Seq(Byte) /\ d \in Seq(Byte) /\ e \in Seq(Byte) /\ f \in Seq(Byte)
  BY EntryIs
<1>3. /\ Before(a, c) /\ Before(c, e) => Before(a, e)
      /\ Before(b, d) /\ Before(d, f) => Before(b, f)
      /\ Before(a, c) /\ Before(c, a) => Before(a, a)
      /\ Before(b, d) /\ Before(d, b) => Before(b, b)
      /\ ~ Before(a, a) /\ ~ Before(b, b)
  BY <1>2, BeforeTransitive, BeforeIrreflexive
<1>4. \/ x.count > y.count
      \/ /\ x.count = y.count
         /\ IF a # c THEN Before(a, c) ELSE IF b # d THEN Before(b, d) ELSE i < k \/ (i = k /\ j < l)
  BY SoonerIs, Zenon
<1>5. \/ y.count > z.count
      \/ /\ y.count = z.count
         /\ IF c # e THEN Before(c, e) ELSE IF d # f THEN Before(d, f) ELSE k < m \/ (k = m /\ l < n)
  BY SoonerIs, Zenon
<1>6. Sooner(x, z) <=>
        \/ x.count > z.count
        \/ /\ x.count = z.count
           /\ IF a # e THEN Before(a, e) ELSE IF b # f THEN Before(b, f) ELSE i < m \/ (i = m /\ j < n)
  BY SoonerIs, Zenon
<1> HIDE DEF a, b, c, d, e, f, i, j, k, l, m, n
<1>7. CASE x.count > y.count \/ y.count > z.count
  <2>1. x.count > z.count
    BY <1>1, <1>4, <1>5, <1>7
  <2>. QED  BY <1>6, <2>1
<1>8. CASE x.count = y.count /\ y.count = z.count
  <2>0. x.count = z.count /\ ~ (x.count > y.count) /\ ~ (y.count > z.count)
    BY <1>1, <1>8
  <2>1. IF a # c THEN Before(a, c) ELSE IF b # d THEN Before(b, d) ELSE i < k \/ (i = k /\ j < l)
    BY <1>4, <2>0
  <2>2. IF c # e THEN Before(c, e) ELSE IF d # f THEN Before(d, f) ELSE k < m \/ (k = m /\ l < n)
    BY <1>5, <2>0
  <2>3. (i < k \/ (i = k /\ j < l)) /\ (k < m \/ (k = m /\ l < n)) => (i < m \/ (i = m /\ j < n))
    BY <1>1
  <2>4. a = e => a = c \/ ~ Before(a, c) \/ ~ Before(c, e)
    BY <1>3
  <2>5. b = f => b = d \/ ~ Before(b, d) \/ ~ Before(d, f)
    BY <1>3
  <2>6. IF a # e THEN Before(a, e) ELSE IF b # f THEN Before(b, f) ELSE i < m \/ (i = m /\ j < n)
    BY <1>3, <2>1, <2>2, <2>3, <2>4, <2>5
  <2>. QED  BY <1>6, <2>0, <2>6
<1>. QED  BY <1>1, <1>4, <1>5, <1>7, <1>8

\* A heap that is not empty has a top.
LEMMA TopExists ==
  ASSUME IsMerges(merges), NEW H \in SUBSET Entries(merges), IsFiniteSet(H), H # {}
  PROVE  \E x \in H : \A y \in H \ {x} : Sooner(x, y)
<1> DEFINE P == {s \in SUBSET H : s # {} => \E x \in s : \A y \in s \ {x} : Sooner(x, y)}
<1>1. {} \in P
  OBVIOUS
<1>2. ASSUME NEW s \in SUBSET H, s # {}, \A x \in s : s \ {x} \in P PROVE s \in P
  <2>1. PICK z \in s : TRUE
    BY <1>2
  <2>2. CASE s \ {z} = {}
    <3>1. \A y \in s \ {z} : Sooner(z, y)
      BY <2>2
    <3>. QED  BY <3>1
  <2>3. CASE s \ {z} # {}
    <3>1. PICK x \in s \ {z} : \A y \in (s \ {z}) \ {x} : Sooner(x, y)
      BY <1>2, <2>3
    <3>2. x \in Entries(merges) /\ z \in Entries(merges) /\ x # z
      OBVIOUS
    <3>3. CASE Sooner(x, z)
      <4>1. \A y \in s \ {x} : Sooner(x, y)
        BY <3>1, <3>3
      <4>. QED  BY <4>1
    <3>4. CASE Sooner(z, x)
      <4>1. ASSUME NEW y \in s \ {z} PROVE Sooner(z, y)
        <5>1. CASE y = x
          BY <3>4, <5>1
        <5>2. CASE y # x
          <6>1. Sooner(x, y) /\ y \in Entries(merges)
            BY <3>1, <5>2
          <6>. QED  BY <3>2, <3>4, <6>1, SoonerTransitive
        <5>. QED  BY <5>1, <5>2
      <4>. QED  BY <4>1
    <3>. QED  BY <3>2, <3>3, <3>4, SoonerTotal
  <2>. QED  BY <2>2, <2>3
<1> HIDE DEF P
<1>3. H \in P
  BY <1>1, <1>2, SubsetInduction
<1>. QED  BY <1>3 DEF P

\* The entry that surfaces comes before every other.
LEMMA TopIs ==
  ASSUME IsMerges(merges), heap \in SUBSET Entries(merges), IsFiniteSet(heap), heap # {}
  PROVE  Top \in heap /\ \A y \in heap \ {Top} : Sooner(Top, y)
<1>1. \E x \in heap : \A y \in heap \ {x} : Sooner(x, y)
  BY TopExists
<1>. QED  BY <1>1, Zenon DEF Top
-----------------------------------------------------------------------------
(* Pairs and how often they occur.                                         *)

\* The pairs of a word are finitely many, and those with a count.
LEMMA PairsAre ==
  ASSUME NEW s \in Seq(Nat)
  PROVE  /\ IsFiniteSet(PairsIn(s)) /\ PairsIn(s) \subseteq Nat \X Nat
         /\ \A p : Count(s, p) \in Nat /\ (Count(s, p) > 0 <=> p \in PairsIn(s))
<1> DEFINE I == 1..(Len(s) - 1)
           f == [i \in I |-> <<s[i], s[i + 1]>>]
<1>0. Len(s) \in Nat /\ \A i \in 1..Len(s) : s[i] \in Nat
  BY LenProperties, ElementOfSeq
<1>1. IsFiniteSet(I)
  <2>1. 1 \in Int /\ Len(s) - 1 \in Int
    BY <1>0
  <2>. QED  BY <2>1, FS_Interval
<1>2. PairsIn(s) = {f[i] : i \in I}
  BY DEF PairsIn
<1>3. IsFiniteSet({f[i] : i \in I})
  <2>1. f \in [I -> {f[i] : i \in I}] /\ \A y \in {f[i] : i \in I} : \E i \in I : f[i] = y
    OBVIOUS
  <2> DEFINE R == {f[i] : i \in I}
  <2> HIDE DEF f, I, R
  <2>2. f \in Surjection(I, R)
    BY <2>1 DEF Surjection, R
  <2>3. IsFiniteSet(R)
    BY <1>1, <2>2, FS_Surjection
  <2>. QED  BY <2>3 DEF R
<1>4. PairsIn(s) \subseteq Nat \X Nat
  <2>1. \A i \in I : i \in 1..Len(s) /\ i + 1 \in 1..Len(s)
    BY <1>0
  <2>. QED  BY <1>0, <2>1 DEF PairsIn
<1>5. ASSUME NEW p PROVE Count(s, p) \in Nat /\ (Count(s, p) > 0 <=> p \in PairsIn(s))
  <2> DEFINE C == {i \in I : <<s[i], s[i + 1]>> = p}
  <2>1. IsFiniteSet(C)
    <3>1. C \subseteq I
      OBVIOUS
    <3>. QED  BY <1>1, <3>1, FS_Subset
  <2>2. Count(s, p) = Cardinality(C)
    BY DEF Count
  <2>3. C # {} <=> p \in PairsIn(s)
    BY DEF PairsIn
  <2> HIDE DEF C
  <2>4. Cardinality(C) \in Nat /\ (Cardinality(C) = 0 <=> C = {})
    BY <2>1, FS_CardinalityType, FS_EmptySet
  <2>5. Cardinality(C) > 0 <=> C # {}
    BY <2>4
  <2>. QED  BY <2>2, <2>3, <2>4, <2>5
<1>. QED  BY <1>2, <1>3, <1>4, <1>5

\* The words of a corpus, merged as far as ms goes.
IsCorpus(ws, ms) ==
  /\ IsFiniteSet(DOMAIN ws)
  /\ \A w \in DOMAIN ws : /\ w \in Seq(Byte) /\ ws[w] \in [symbols : Seq(Nat), freq : Nat \ {0}]
                          /\ ws[w].symbols = Scan(ms, w)

\* A word of the corpus: no merge applies to it any more.
LEMMA WordIs ==
  ASSUME NEW ws, NEW ms, IsMerges(ms), IsCorpus(ws, ms), NEW w \in DOMAIN ws
  PROVE  /\ ws[w].symbols \in Seq(Nat) /\ ws[w].symbols \in Seq(Tokens(ms)) /\ Can(ms, ws[w].symbols) = {}
         /\ w \in Seq(Nat) /\ ws[w].freq \in Nat /\ ws[w].freq > 0
<1>1. w \in Seq(Byte) /\ ws[w].symbols \in Seq(Nat) /\ ws[w].symbols = Scan(ms, w) /\ ws[w].freq \in Nat \ {0}
  BY DEF IsCorpus
<1>2. Len(ms) \in Nat
  BY LenProperties DEF IsMerges
<1>3. Byte \subseteq Nat /\ Byte \subseteq Tokens(ms)
  BY <1>2 DEF Byte, Tokens
<1>4. w \in Seq(Nat) /\ w \in Seq(Tokens(ms))
  BY <1>1, <1>3, SeqMono
<1>5. ws[w].symbols \in Seq(Tokens(ms))
  <2>1. w \in Seq(0..(255 + Len(ms)))
    BY <1>4 DEF Tokens
  <2>2. Scan(ms, w) \in Seq(0..(255 + Len(ms)))
    BY <2>1, ScanRange
  <2>. QED  BY <1>1, <2>2 DEF Tokens
<1>6. Can(ms, ws[w].symbols) = {}
  BY <1>1, <1>4, ScanEnds
<1>7. ws[w].freq > 0
  BY <1>1
<1>. QED  BY <1>1, <1>4, <1>5, <1>6, <1>7

\* The pairs of a word are pairs of its symbols.
LEMMA PairIsOfTokens ==
  ASSUME NEW S, NEW s \in Seq(S), NEW p \in PairsIn(s)
  PROVE  p \in S \X S
<1>1. PICK i \in 1..(Len(s) - 1) : p = <<s[i], s[i + 1]>>
  BY DEF PairsIn
<1>2. Len(s) \in Nat
  BY LenProperties
<1>3. i \in 1..Len(s) /\ i + 1 \in 1..Len(s)
  BY <1>2
<1>4. s[i] \in S /\ s[i + 1] \in S
  BY <1>3, ElementOfSeq
<1>. QED  BY <1>1, <1>4

\* A pair occurs as often as Occurrences says, and next is one of those that do.
LEMMA OccurrencesAre ==
  ASSUME NEW ws, NEW ms, IsMerges(ms), IsCorpus(ws, ms)
  PROVE  /\ IsFiniteSet(AllPairs(ws)) /\ AllPairs(ws) \subseteq Tokens(ms) \X Tokens(ms)
         /\ \A p : Occurrences(ws, p) \in Nat /\ (Occurrences(ws, p) > 0 <=> p \in AllPairs(ws))
<1>1. IsFiniteSet(AllPairs(ws))
  <2> DEFINE f == [w \in DOMAIN ws |-> PairsIn(ws[w].symbols)]
             R == {PairsIn(ws[w].symbols) : w \in DOMAIN ws}
  <2>1. f \in [DOMAIN ws -> R] /\ \A y \in R : \E w \in DOMAIN ws : f[w] = y
    OBVIOUS
  <2>2. \A x \in R : IsFiniteSet(x)
    BY WordIs, PairsAre
  <2>3. AllPairs(ws) = UNION R
    BY DEF AllPairs
  <2> HIDE DEF f, R
  <2>4. f \in Surjection(DOMAIN ws, R)
    BY <2>1 DEF Surjection
  <2>5. IsFiniteSet(R)
    BY <2>4, FS_Surjection DEF IsCorpus
  <2>. QED  BY <2>2, <2>3, <2>5, FS_UNION
<1>2. AllPairs(ws) \subseteq Tokens(ms) \X Tokens(ms)
  <2>1. ASSUME NEW p \in AllPairs(ws) PROVE p \in Tokens(ms) \X Tokens(ms)
    <3>1. PICK w \in DOMAIN ws : p \in PairsIn(ws[w].symbols)
      BY DEF AllPairs
    <3> DEFINE s == ws[w].symbols
    <3>2. s \in Seq(Tokens(ms)) /\ p \in PairsIn(s)
      BY <3>1, WordIs
    <3> HIDE DEF s
    <3>. QED  BY <3>2, PairIsOfTokens
  <2>. QED  BY <2>1
<1>3. ASSUME NEW p PROVE Occurrences(ws, p) \in Nat /\ (Occurrences(ws, p) > 0 <=> p \in AllPairs(ws))
  <2> DEFINE g == [w \in DOMAIN ws |-> ws[w].freq * Count(ws[w].symbols, p)]
  <2>1. Occurrences(ws, p) = SumTotal(g, DOMAIN ws)
    BY DEF Occurrences, SumTotal
  <2>2. \A w \in DOMAIN ws : g[w] \in Nat /\ (g[w] > 0 <=> p \in PairsIn(ws[w].symbols))
    <3> TAKE w \in DOMAIN ws
    <3> DEFINE x == ws[w].freq
               y == Count(ws[w].symbols, p)
    <3>1. x \in Nat /\ x > 0 /\ ws[w].symbols \in Seq(Nat)
      BY WordIs
    <3>2. y \in Nat /\ (y > 0 <=> p \in PairsIn(ws[w].symbols))
      BY <3>1, PairsAre
    <3>3. g[w] = x * y
      OBVIOUS
    <3> HIDE DEF x, y, g
    <3>4. x * y \in Nat /\ (x * y > 0 <=> y > 0)
      BY <3>1, <3>2
    <3>. QED  BY <3>2, <3>3, <3>4
  <2> HIDE DEF g
  <2>3. SumTotal(g, DOMAIN ws) \in Nat /\ (SumTotal(g, DOMAIN ws) > 0 <=> \E w \in DOMAIN ws : g[w] > 0)
    BY <2>2, TotalIsNat DEF IsCorpus
  <2>4. (\E w \in DOMAIN ws : g[w] > 0) <=> p \in AllPairs(ws)
    BY <2>2 DEF AllPairs
  <2>. QED  BY <2>1, <2>3, <2>4
<1>. QED  BY <1>1, <1>2, <1>3
-----------------------------------------------------------------------------
(* The pre-tokenizer: every piece ends past its start, within the text.    *)

Classes == {"letter", "number", "space", "other"}

\* The class of a code point.
LEMMA ClassIs == ASSUME NEW cp PROVE Classify(cp) \in Classes /\ AsciiClass(cp) \in Classes
<1>1. AsciiClass(cp) \in Classes
  BY DEF AsciiClass, Classes
<1>2. Classify(cp) \in {AsciiClass(cp), "letter", "number", "space", "other"}
  BY DEF Classify
<1>. QED  BY <1>1, <1>2 DEF Classes

\* A code point has a length and ends within the text.
LEMMA DecodeIs ==
  ASSUME NEW text \in Seq(Byte), NEW p \in 1..Len(text)
  PROVE  /\ DecodeAt(text, p).length \in Nat \ {0} /\ DecodeAt(text, p).cls \in Classes
         /\ p + DecodeAt(text, p).length <= Len(text) + 1
<1> DEFINE b == text[p]
           n == LeadLength(b)
           tail(k) == text[p + k] - 128
           whole == /\ n > 0 /\ p + n - 1 <= Len(text) /\ text[p + 1] \in SecondBytes(b)
                    /\ \A k \in 2..(n - 1) : text[p + k] \in 128..191
           cp == CASE n = 2 -> (b - 192) * 64 + tail(1)
                   [] n = 3 -> ((b - 224) * 64 + tail(1)) * 64 + tail(2)
                   [] OTHER -> (((b - 240) * 64 + tail(1)) * 64 + tail(2)) * 64 + tail(3)
<1>0. Len(text) \in Nat
  BY LenProperties
<1>1. n \in {0, 2, 3, 4}
  BY DEF LeadLength
<1>2. DecodeAt(text, p) = IF b < 128 THEN [length |-> 1, cls |-> AsciiClass(b)]
                          ELSE IF ~whole THEN [length |-> 1, cls |-> "other"]
                          ELSE [length |-> n, cls |-> Classify(cp)]
  BY Zenon DEF DecodeAt
<1>3. whole => n > 0 /\ p + n - 1 <= Len(text)
  OBVIOUS
<1> HIDE DEF whole, cp, n, b
<1>4. AsciiClass(b) \in Classes /\ Classify(cp) \in Classes /\ "other" \in Classes
  BY ClassIs DEF Classes
<1>5. CASE b < 128
  <2>1. DecodeAt(text, p) = [length |-> 1, cls |-> AsciiClass(b)]
    BY <1>2, <1>5
  <2>2. DecodeAt(text, p).length = 1 /\ DecodeAt(text, p).cls = AsciiClass(b)
    BY <2>1
  <2>. QED  BY <1>0, <1>4, <2>2
<1>6. CASE ~ (b < 128) /\ ~ whole
  <2>1. DecodeAt(text, p) = [length |-> 1, cls |-> "other"]
    BY <1>2, <1>6
  <2>2. DecodeAt(text, p).length = 1 /\ DecodeAt(text, p).cls = "other"
    BY <2>1
  <2>. QED  BY <1>0, <1>4, <2>2
<1>7. CASE ~ (b < 128) /\ whole
  <2>1. DecodeAt(text, p) = [length |-> n, cls |-> Classify(cp)]
    BY <1>2, <1>7
  <2>2. DecodeAt(text, p).length = n /\ DecodeAt(text, p).cls = Classify(cp)
    BY <2>1
  <2>3. n \in Nat \ {0} /\ p + n <= Len(text) + 1
    BY <1>0, <1>1, <1>3, <1>7
  <2>. QED  BY <1>4, <2>2, <2>3
<1>. QED  BY <1>5, <1>6, <1>7

\* The next code point starts further on.
LEMMA AfterIs ==
  ASSUME NEW text \in Seq(Byte), NEW p \in 1..Len(text)
  PROVE  After(text, p) \in (p + 1)..(Len(text) + 1)
<1> DEFINE n == DecodeAt(text, p).length
<1>1. n \in Nat \ {0} /\ p + n <= Len(text) + 1
  BY DecodeIs
<1>2. After(text, p) = p + n
  BY DEF After
<1>3. Len(text) \in Nat
  BY LenProperties
<1> HIDE DEF n
<1>. QED  BY <1>1, <1>2, <1>3

\* Where a code point is of class cls, its class is no other.
LEMMA InIs ==
  ASSUME NEW text \in Seq(Byte), NEW p \in 1..(Len(text) + 1), NEW cls
  PROVE  In(text, p, {cls}) <=> p \in 1..Len(text) /\ DecodeAt(text, p).cls = cls
<1>1. Len(text) \in Nat
  BY LenProperties
<1>. QED  BY <1>1 DEF In

\* A loop over positions that stops within the text.
LEMMA PositionLoop ==
  ASSUME NEW text \in Seq(Byte), NEW J \in SUBSET Nat, NEW step, NEW p \in J,
         \A q \in J : q \in 1..(Len(text) + 1) /\ step[q] \in J /\ (step[q] = q \/ step[q] > q)
  PROVE  LET z == Repeat(step, Len(text), p) IN z \in J /\ step[z] = z
<1> DEFINE n == Len(text)
           m == [q \in J |-> n + 1 - q]
<1>1. n \in Nat
  BY LenProperties
<1>2. m \in [J -> Nat]
  BY <1>1
<1>3. m[p] <= n
  BY <1>1
<1>4. ASSUME NEW q \in J PROVE step[q] \in J /\ (step[q] = q \/ m[step[q]] < m[q])
  <2>1. step[q] \in J /\ (step[q] = q \/ step[q] > q)
    OBVIOUS
  <2>2. m[q] = n + 1 - q /\ m[step[q]] = n + 1 - step[q] /\ q \in Nat /\ step[q] \in Nat
    BY <2>1
  <2> HIDE DEF m, n
  <2>. QED  BY <1>1, <2>1, <2>2
<1> HIDE DEF m, n
<1>7. \A q \in J : step[q] \in J /\ (step[q] = q \/ m[step[q]] < m[q])
  BY <1>4
<1>5. Repeat(step, n, p) \in J
  BY ONLY p \in J, <1>1, <1>2, <1>3, <1>7, RepeatStops
<1>6. step[Repeat(step, n, p)] = Repeat(step, n, p)
  BY ONLY p \in J, <1>1, <1>2, <1>3, <1>7, RepeatIsThrough
<1>. QED  BY <1>5, <1>6 DEF n

\* One step of a run.
LEMMA RunStepIs ==
  ASSUME NEW text \in Seq(Byte), NEW cls, NEW q \in 1..(Len(text) + 1)
  PROVE  /\ RunStep(text, cls)[q] \in q..(Len(text) + 1)
         /\ In(text, q, {cls}) => RunStep(text, cls)[q] = After(text, q) /\ RunStep(text, cls)[q] > q
         /\ ~ In(text, q, {cls}) => RunStep(text, cls)[q] = q
<1>1. RunStep(text, cls)[q] = IF In(text, q, {cls}) THEN After(text, q) ELSE q
  BY DEF RunStep
<1>2. Len(text) \in Nat
  BY LenProperties
<1>3. ASSUME In(text, q, {cls}) PROVE After(text, q) \in (q + 1)..(Len(text) + 1)
  BY <1>3, InIs, AfterIs
<1>. QED  BY <1>1, <1>2, <1>3

\* RunEnd: past every code point of the class, and no further.
LEMMA RunEndIs ==
  ASSUME NEW text \in Seq(Byte), NEW cls, NEW p \in 1..(Len(text) + 1)
  PROVE  /\ RunEnd(text, p, cls) \in p..(Len(text) + 1) /\ ~ In(text, RunEnd(text, p, cls), {cls})
         /\ ~ In(text, p, {cls}) => RunEnd(text, p, cls) = p
<1> DEFINE step == RunStep(text, cls)
           J == p..(Len(text) + 1)
           n == Len(text)
           z == Repeat(step, n, p)
<1>0. n \in Nat /\ J \in SUBSET Nat /\ p \in J
  BY LenProperties
<1>1. \A q \in J : q \in 1..(n + 1) /\ step[q] \in J /\ (step[q] = q \/ step[q] > q)
  <2> TAKE q \in J
  <2>1. q \in 1..(n + 1) /\ q >= p
    BY <1>0
  <2>2. step[q] \in q..(n + 1) /\ (step[q] = q \/ step[q] > q)
    BY <2>1, RunStepIs
  <2> HIDE DEF step
  <2>. QED  BY <1>0, <2>1, <2>2
<1>2. z \in J /\ step[z] = z
  <2> HIDE DEF step, J
  <2>. QED  BY <1>0, <1>1, PositionLoop
<1>3. RunEnd(text, p, cls) = z
  BY DEF RunEnd
<1>4. ~ In(text, z, {cls})
  <2>1. z \in 1..(n + 1)
    BY <1>1, <1>2
  <2> HIDE DEF z
  <2>2. In(text, z, {cls}) => step[z] > z
    BY <2>1, RunStepIs
  <2> HIDE DEF step
  <2>3. ~ (z > z)
    BY <2>1
  <2>. QED  BY <1>2, <2>2, <2>3
<1>6. ~ In(text, p, {cls}) => z = p
  <2> SUFFICES ASSUME ~ In(text, p, {cls}) PROVE z = p
    OBVIOUS
  <2>1. step[p] = p
    BY RunStepIs
  <2> HIDE DEF step, n, J
  <2>. QED  BY <1>0, <2>1, RepeatStays
<1>. QED  BY <1>2, <1>3, <1>4, <1>6

\* A run ends where the rest of it ends.
LEMMA RunEndOn ==
  ASSUME NEW text \in Seq(Byte), NEW cls, NEW p \in 1..(Len(text) + 1), In(text, p, {cls})
  PROVE  RunEnd(text, After(text, p), cls) = RunEnd(text, p, cls)
<1> DEFINE step == RunStep(text, cls)
           n == Len(text)
           z == RunEnd(text, p, cls)
           a == After(text, p)
<1>0. n \in Nat /\ p \in Nat
  BY LenProperties
<1>1. step[p] = a
  BY RunStepIs
<1>2. z \in p..(n + 1) /\ ~ In(text, z, {cls})
  BY RunEndIs
<1>3. step[z] = z
  <2>1. z \in 1..(n + 1)
    BY <1>0, <1>2
  <2> HIDE DEF z, n
  <2>. QED  BY <1>2, <2>1, RunStepIs DEF n
<1>4. z = Repeat(step, n, p) /\ RunEnd(text, a, cls) = Repeat(step, n, a)
  BY DEF RunEnd
<1> HIDE DEF step, n, a, z
<1>5. Repeat(step, n + 1, p) = Repeat(step, n, step[p]) /\ Repeat(step, n + 1, p) = step[Repeat(step, n, p)]
  BY <1>0, RepeatFirst, RepeatNext
<1>6. RunEnd(text, a, cls) = z
  BY <1>1, <1>3, <1>4, <1>5
<1>. QED  BY <1>6 DEF a, z

\* LastOfRun: the last whitespace of a run, from its first.
LEMMA LastOfRunIs ==
  ASSUME NEW text \in Seq(Byte), NEW p \in 1..Len(text), In(text, p, {"space"})
  PROVE  LET z == LastOfRun(text, p)
         IN  /\ z \in p..Len(text) /\ In(text, z, {"space"}) /\ After(text, z) = RunEnd(text, p, "space")
             /\ z = p => ~ In(text, After(text, p), {"space"})
<1> DEFINE step == LastStep(text)
           n == Len(text)
           e == RunEnd(text, p, "space")
           J == {q \in p..n : In(text, q, {"space"}) /\ RunEnd(text, q, "space") = e}
           z == Repeat(step, n, p)
<1>0. n \in Nat
  BY LenProperties
<1>1. p \in J /\ J \in SUBSET Nat
  BY <1>0
<1>2. ASSUME NEW q \in J
      PROVE  /\ q \in 1..(n + 1) /\ step[q] \in J /\ (step[q] = q \/ step[q] > q)
             /\ step[q] = q => ~ In(text, After(text, q), {"space"})
             /\ RunEnd(text, After(text, q), "space") = e
  <2>1. q \in 1..n /\ q \in 1..(n + 1) /\ q >= p /\ In(text, q, {"space"}) /\ RunEnd(text, q, "space") = e
    BY <1>0
  <2>2. After(text, q) \in (q + 1)..(n + 1)
    BY <2>1, AfterIs
  <2>3. After(text, q) \in 1..(n + 1) /\ After(text, q) > q /\ After(text, q) >= p
    BY <1>0, <2>1, <2>2
  <2>4. RunEnd(text, After(text, q), "space") = e
    <3>1. q \in 1..(Len(text) + 1) /\ In(text, q, {"space"}) /\ RunEnd(text, q, "space") = e
      BY <2>1
    <3> DEFINE cls == "space"
    <3> HIDE DEF cls, e, J, step, z, n
    <3>2. q \in 1..(Len(text) + 1) /\ In(text, q, {cls})
      BY <3>1 DEF cls
    <3>3. RunEnd(text, After(text, q), cls) = RunEnd(text, q, cls)
      BY ONLY <3>2, text \in Seq(Byte), RunEndOn
    <3>. QED  BY <3>1, <3>3 DEF cls
  <2>5. step[q] = IF In(text, After(text, q), {"space"}) THEN After(text, q) ELSE q
    BY <2>1 DEF LastStep
  <2> HIDE DEF step, e
  <2>6. CASE In(text, After(text, q), {"space"})
    <3>1. After(text, q) \in p..n
      <4>1. After(text, q) \in 1..n
        BY <2>3, <2>6, InIs
      <4>. QED  BY <2>3, <4>1
    <3>. QED  BY <2>1, <2>3, <2>4, <2>5, <2>6, <3>1
  <2>7. CASE ~ In(text, After(text, q), {"space"})
    BY <2>1, <2>4, <2>5, <2>7
  <2>. QED  BY <2>6, <2>7
<1>3. z \in J /\ step[z] = z
  <2> HIDE DEF step, J
  <2>. QED  BY <1>1, <1>2, PositionLoop
<1>4. LastOfRun(text, p) = z
  BY DEF LastOfRun
<1> HIDE DEF step, z, e
<1>5. z \in p..n /\ In(text, z, {"space"})
  BY <1>3
<1>6. ~ In(text, After(text, z), {"space"}) /\ RunEnd(text, After(text, z), "space") = e
  BY <1>2, <1>3
<1>7. After(text, z) = e
  <2>1. z \in 1..n
    BY <1>0, <1>5
  <2>2. After(text, z) \in (z + 1)..(n + 1)
    BY <2>1, AfterIs
  <2>3. After(text, z) \in 1..(n + 1)
    BY <1>0, <2>1, <2>2
  <2>4. RunEnd(text, After(text, z), "space") = After(text, z)
    BY <1>6, <2>3, RunEndIs
  <2>. QED  BY <1>6, <2>4
<1>. QED  BY <1>4, <1>5, <1>6, <1>7 DEF e

\* The length of a contraction, and that it lies within the text.
LEMMA ContractionIs ==
  ASSUME NEW text \in Seq(Byte), NEW p \in 1..Len(text)
  PROVE  /\ Contraction(text, p) \in {0, 2, 3}
         /\ p + Contraction(text, p) <= Len(text) + 1
<1> DEFINE at(k) == IF p + k <= Len(text) THEN text[p + k] ELSE 0
           pairs2 == {<<114, 101>>, <<118, 101>>, <<108, 108>>}
<1>0. Len(text) \in Nat
  BY LenProperties
<1>1. Contraction(text, p) = IF at(0) = 39 /\ at(1) \in {115, 116, 109, 100} THEN 2
                             ELSE IF at(0) = 39 /\ <<at(1), at(2)>> \in pairs2 THEN 3 ELSE 0
  BY Zenon DEF Contraction
<1>2. at(1) # 0 => p + 1 <= Len(text)
  OBVIOUS
<1>3. at(2) # 0 => p + 2 <= Len(text)
  OBVIOUS
<1>4. <<at(1), at(2)>> \in pairs2 => at(2) # 0
  OBVIOUS
<1>5. at(1) \in {115, 116, 109, 100} => at(1) # 0
  OBVIOUS
<1> HIDE DEF at, pairs2
<1>6. \/ Contraction(text, p) = 0
      \/ Contraction(text, p) = 2 /\ at(1) \in {115, 116, 109, 100}
      \/ Contraction(text, p) = 3 /\ <<at(1), at(2)>> \in pairs2
  BY <1>1
<1>. QED  BY <1>0, <1>2, <1>3, <1>4, <1>5, <1>6

\* Where a piece that starts at p begins past an optional space, and NextBoundary
\* as a case for each kind of piece.
Lead(text, p) == IF text[p] = 32 /\ p < Len(text) /\ DecodeAt(text, p + 1).cls # "space" THEN p + 1 ELSE p

\* A piece may take one space before its word.
LEMMA LeadIs ==
  ASSUME NEW text \in Seq(Byte), NEW p \in 1..Len(text)
  PROVE  /\ Lead(text, p) \in 1..Len(text)
         /\ Lead(text, p) = p \/ (Lead(text, p) = p + 1 /\ text[p] = 32 /\ DecodeAt(text, p + 1).cls # "space")
         /\ DecodeAt(text, Lead(text, p)).cls = "space" => Lead(text, p) = p
<1>1. Len(text) \in Nat
  BY LenProperties
<1>. QED  BY <1>1 DEF Lead

\* next_boundary, case by case.
LEMMA BoundaryCases ==
  ASSUME NEW text \in Seq(Byte), NEW p \in 1..Len(text)
  PROVE  LET lead == Lead(text, p)
             cls == DecodeAt(text, lead).cls
             end == RunEnd(text, p, "space")
         IN  /\ Contraction(text, p) > 0 => NextBoundary(text, p) = p + Contraction(text, p)
             /\ ~ (Contraction(text, p) > 0) /\ cls # "space" =>
                  NextBoundary(text, p) = RunEnd(text, After(text, lead), cls)
             /\ ~ (Contraction(text, p) > 0) /\ cls = "space" /\ (end > Len(text) \/ end = After(text, p)) =>
                  NextBoundary(text, p) = end
             /\ ~ (Contraction(text, p) > 0) /\ cls = "space" /\ ~ (end > Len(text) \/ end = After(text, p)) =>
                  NextBoundary(text, p) = LastOfRun(text, p)
<1> DEFINE lead == Lead(text, p)
           c == DecodeAt(text, lead)
           end == RunEnd(text, p, "space")
<1>1. NextBoundary(text, p) = IF Contraction(text, p) > 0 THEN p + Contraction(text, p)
        ELSE IF c.cls # "space" THEN RunEnd(text, lead + c.length, c.cls)
        ELSE IF end > Len(text) \/ end = p + c.length THEN end
        ELSE LastOfRun(text, p)
  BY Zenon DEF NextBoundary, Lead
<1>2. After(text, lead) = lead + c.length
  BY DEF After
<1>3. c.cls = "space" => lead = p
  BY LeadIs
<1> HIDE DEF lead, c, end
<1>4. c.cls = "space" => After(text, p) = p + c.length
  BY <1>2, <1>3
<1>. QED  BY <1>1, <1>2, <1>4 DEF lead, c, end

\* Every piece ends past its start and within the text.
LEMMA BoundaryIs ==
  ASSUME NEW text \in Seq(Byte), NEW p \in 1..Len(text)
  PROVE  NextBoundary(text, p) \in (p + 1)..(Len(text) + 1)
<1> DEFINE lead == Lead(text, p)
           cls == DecodeAt(text, lead).cls
           end == RunEnd(text, p, "space")
           n == Len(text)
<1>0. n \in Nat /\ p \in 1..n
  BY LenProperties
<1>1. CASE Contraction(text, p) > 0
  <2>1. NextBoundary(text, p) = p + Contraction(text, p)
    BY <1>1, BoundaryCases
  <2>. QED  BY <1>0, <1>1, <2>1, ContractionIs
<1>2. CASE ~ (Contraction(text, p) > 0) /\ cls # "space"
  <2>1. NextBoundary(text, p) = RunEnd(text, After(text, lead), cls)
    BY <1>2, BoundaryCases
  <2>2. lead \in 1..n /\ lead >= p
    BY <1>0, LeadIs
  <2> HIDE DEF lead, cls
  <2>3. After(text, lead) \in (lead + 1)..(n + 1)
    BY <2>2, AfterIs
  <2>4. After(text, lead) \in 1..(n + 1) /\ After(text, lead) > p
    BY <1>0, <2>2, <2>3
  <2>5. RunEnd(text, After(text, lead), cls) \in After(text, lead)..(n + 1)
    BY <2>4, RunEndIs
  <2>. QED  BY <1>0, <2>1, <2>4, <2>5
<1>3. CASE ~ (Contraction(text, p) > 0) /\ cls = "space"
  <2>1. lead = p /\ DecodeAt(text, p).cls = "space"
    BY <1>3, LeadIs
  <2>2. In(text, p, {"space"}) /\ p \in 1..(n + 1)
    <3>1. p \in 1..(n + 1)
      BY <1>0
    <3> HIDE DEF lead, cls, end
    <3>2. In(text, p, {"space"})
      BY <1>0, <3>1, <2>1, InIs
    <3>. QED  BY <3>1, <3>2
  <2>3. After(text, p) \in (p + 1)..(n + 1)
    BY AfterIs
  <2>4. After(text, p) \in 1..(n + 1)
    BY <1>0, <2>3
  <2>5. end = RunEnd(text, After(text, p), "space")
    BY <2>2, RunEndOn
  <2>6. RunEnd(text, After(text, p), "space") \in After(text, p)..(n + 1)
    BY <2>4, RunEndIs
  <2>7. end \in (p + 1)..(n + 1)
    <3> HIDE DEF end, n
    <3>. QED  BY <1>0, <2>3, <2>5, <2>6
  <2>8. CASE end > n \/ end = After(text, p)
    <3>1. NextBoundary(text, p) = end
      BY <1>3, <2>8, BoundaryCases
    <3>. QED  BY <2>7, <3>1
  <2>9. CASE ~ (end > n \/ end = After(text, p))
    <3>1. NextBoundary(text, p) = LastOfRun(text, p)
      BY <1>3, <2>9, BoundaryCases
    <3> DEFINE z == LastOfRun(text, p)
    <3>2. z \in p..n /\ (z = p => ~ In(text, After(text, p), {"space"}))
      BY <2>2, LastOfRunIs
    <3>3. In(text, After(text, p), {"space"})
      <4> SUFFICES ASSUME ~ In(text, After(text, p), {"space"}) PROVE FALSE
        OBVIOUS
      <4>1. RunEnd(text, After(text, p), "space") = After(text, p)
        BY <2>4, RunEndIs
      <4>. QED  BY <2>5, <2>9, <4>1
    <3> HIDE DEF z
    <3>4. z \in p..n /\ z # p
      BY <3>2, <3>3
    <3>. QED  BY <1>0, <3>1, <3>4 DEF z
  <2>. QED  BY <2>8, <2>9
<1>. QED  BY <1>1, <1>2, <1>3
-----------------------------------------------------------------------------
(* What a text is split into.                                              *)

\* A part of a text is a text.
LEMMA PartIs ==
  ASSUME NEW S, NEW text \in Seq(S), NEW a \in 1..(Len(text) + 1), NEW b \in 0..Len(text)
  PROVE  SubSeq(text, a, b) \in Seq(S)
<1>1. Len(text) \in Nat /\ \A j \in 1..Len(text) : text[j] \in S
  BY LenProperties, ElementOfSeq
<1>2. a \in Int /\ b \in Int /\ \A j \in a..b : text[j] \in S
  BY <1>1
<1>. QED  BY <1>2, SubSeqProperties

\* A text of bytes is split into pieces of bytes.
LEMMA PiecesAre == ASSUME NEW text \in Seq(Byte) PROVE Pieces(text) \in Seq(Seq(Byte))
<1> DEFINE n == Len(text)
           I == [at : 1..(n + 1), pieces : Seq(Seq(Byte))]
           x == [at |-> 1, pieces |-> <<>>]
           step == PieceStep(text)
<1>0. n \in Nat
  BY LenProperties
<1>1. x \in I
  <2>1. 1 \in 1..(n + 1) /\ <<>> \in Seq(Seq(Byte))
    BY <1>0, EmptySeq
  <2>. QED  BY <2>1
<1>2. ASSUME NEW s \in I PROVE step[s] \in I
  <2>1. s.at \in 1..(n + 1) /\ s.pieces \in Seq(Seq(Byte)) /\ s = [at |-> s.at, pieces |-> s.pieces]
    OBVIOUS
  <2>2. s \in [at : Nat, pieces : Seq(Seq(Nat))]
    <3>1. Byte \subseteq Nat
      BY DEF Byte
    <3> DEFINE S == Nat
    <3> HIDE DEF S
    <3>2. Seq(Byte) \subseteq Seq(S)
      BY <3>1, SeqMono DEF S
    <3>3. s.pieces \in Seq(Seq(S))
      BY <2>1, <3>2, SeqMono
    <3>4. s.at \in Nat
      BY <2>1, <1>0
    <3> HIDE DEF I, n, x, step
    <3>. QED  BY <2>1, <3>3, <3>4 DEF S
  <2> DEFINE q == NextBoundary(text, s.at)
  <2>3. step[s] = IF s.at > Len(text) THEN s
                  ELSE [at |-> q, pieces |-> Append(s.pieces, SubSeq(text, s.at, q - 1))]
    BY <2>2, Zenon DEF PieceStep, CutTo
  <2>4. CASE s.at > n
    BY <2>3, <2>4
  <2>5. CASE ~ (s.at > n)
    <3>1. s.at \in 1..n
      BY <2>1, <2>5, <1>0
    <3>2. q \in (s.at + 1)..(n + 1)
      BY <3>1, BoundaryIs
    <3> HIDE DEF q
    <3>3. q \in 1..(n + 1) /\ q - 1 \in 0..n
      BY <1>0, <3>1, <3>2
    <3>4. SubSeq(text, s.at, q - 1) \in Seq(Byte)
      BY <2>1, <3>3, PartIs
    <3>5. Append(s.pieces, SubSeq(text, s.at, q - 1)) \in Seq(Seq(Byte))
      BY <2>1, <3>4, AppendProperties
    <3>6. step[s] = [at |-> q, pieces |-> Append(s.pieces, SubSeq(text, s.at, q - 1))]
      BY <2>3, <2>5
    <3> HIDE DEF step
    <3>. QED  BY <3>3, <3>5, <3>6
  <2>. QED  BY <2>4, <2>5
<1>3. Pieces(text) = Repeat(step, n, x).pieces
  BY DEF Pieces
<1> HIDE DEF step, x, n, I
<1>4. Repeat(step, n, x) \in I
  BY <1>0, <1>1, <1>2, RepeatKeeps
<1>. QED  BY <1>3, <1>4 DEF I

\* No special occurs at from or after.
NoneFrom(text, from) == \A g \in from..Len(text) : \A j \in DOMAIN Specials : ~ Occurs(text, Specials[j], g)

\* Special k occurs at h, none before, and no longer one there.
FirstFrom(text, from, h, k) ==
  /\ h \in from..Len(text) /\ k \in DOMAIN Specials /\ Occurs(text, Specials[k], h)
  /\ \A g \in from..Len(text) : \A j \in DOMAIN Specials : Occurs(text, Specials[j], g) =>
       h < g \/ (h = g /\ Len(Specials[k]) >= Len(Specials[j]))

\* FindSpecial finds the first, or none.
LEMMA FindFirst ==
  ASSUME NEW text \in Seq(Byte), NEW from \in 1..(Len(text) + 1)
  PROVE  LET hit == FindSpecial(text, from)
         IN  \/ hit = <<Len(text) + 1, 0>> /\ NoneFrom(text, from)
             \/ hit \in (from..Len(text)) \X DOMAIN Specials /\ FirstFrom(text, from, hit[1], hit[2])
<1> DEFINE hits == {h \in (from..Len(text)) \X DOMAIN Specials : Occurs(text, Specials[h[2]], h[1])}
           first(h) == \A g \in hits : \/ h[1] < g[1]
                                       \/ h[1] = g[1] /\ Len(Specials[h[2]]) >= Len(Specials[g[2]])
           n == Len(text)
<1>0. n \in Nat
  BY LenProperties
<1>1. FindSpecial(text, from) = IF hits = {} THEN <<n + 1, 0>> ELSE CHOOSE h \in hits : first(h)
  BY Zenon DEF FindSpecial
<1>2. ASSUME NEW h \in hits
      PROVE h[1] \in 1..n /\ Len(Specials[h[2]]) \in 0..n /\ h \in (from..n) \X DOMAIN Specials
            /\ Occurs(text, Specials[h[2]], h[1])
  <2>1. h \in (from..n) \X DOMAIN Specials /\ Occurs(text, Specials[h[2]], h[1])
    OBVIOUS
  <2>2. h[1] \in 1..n /\ h[2] \in DOMAIN Specials
    BY <2>1, <1>0
  <2>3. Specials \in Seq(Seq(Byte) \ {<<>>})
    BY ByteBpeAssumption
  <2>4. Specials[h[2]] \in Seq(Byte)
    BY <2>2, <2>3, ElementOfSeq, LenProperties
  <2> DEFINE k == Len(Specials[h[2]])
  <2>5. k \in Nat
    BY <2>4, LenProperties
  <2>6. h[1] + k - 1 <= n
    BY <2>1 DEF Occurs
  <2> HIDE DEF k, n, hits
  <2>. QED  BY <1>0, <2>1, <2>2, <2>5, <2>6 DEF k
<1>3. ASSUME hits # {} PROVE \E h \in hits : first(h)
  <2> DEFINE A == {h[1] : h \in hits}
  <2>1. A \in SUBSET Nat /\ A # {}
    BY <1>2, <1>3, <1>0
  <2>2. PICK a \in A : \A b \in A : a <= b
    BY <2>1, LeastElement
  <2> DEFINE B == {n - Len(Specials[h[2]]) : h \in {g \in hits : g[1] = a}}
  <2>3. B \in SUBSET Nat /\ B # {}
    <3>1. \E h \in hits : h[1] = a
      BY <2>2
    <3>2. ASSUME NEW h \in hits PROVE n - Len(Specials[h[2]]) \in Nat
      <4>1. Len(Specials[h[2]]) \in 0..n
        BY <1>2
      <4> HIDE DEF n
      <4>. QED  BY <1>0, <4>1
    <3> HIDE DEF hits, n, A
    <3>. QED  BY <3>1, <3>2
  <2>4. PICK b \in B : \A c \in B : b <= c
    BY <2>3, LeastElement
  <2>5. PICK h \in hits : h[1] = a /\ b = n - Len(Specials[h[2]])
    BY <2>4
  <2>6. ASSUME NEW g \in hits PROVE h[1] < g[1] \/ (h[1] = g[1] /\ Len(Specials[h[2]]) >= Len(Specials[g[2]]))
    <3>1. h[1] <= g[1] /\ h[1] \in Nat /\ g[1] \in Nat
      <4>1. g[1] \in A
        OBVIOUS
      <4>2. h[1] \in 1..n /\ g[1] \in 1..n
        BY <1>2
      <4> HIDE DEF hits, A
      <4>. QED  BY <2>2, <2>5, <4>1, <4>2, <1>0
    <3>2. ASSUME g[1] = h[1] PROVE Len(Specials[h[2]]) >= Len(Specials[g[2]])
      <4> DEFINE lh == Len(Specials[h[2]])
                 lg == Len(Specials[g[2]])
      <4>1. n - lg \in B
        BY <2>5, <3>2
      <4>2. lh \in 0..n /\ lg \in 0..n
        BY <1>2
      <4>3. b <= n - lg /\ b = n - lh
        BY <2>4, <2>5, <4>1
      <4> HIDE DEF lh, lg, n, B, hits, A
      <4>4. lh >= lg
        BY <1>0, <4>2, <4>3
      <4>. QED  BY <4>4 DEF lh, lg
    <3> HIDE DEF hits, A, B, n
    <3>. QED  BY <3>1, <3>2
  <2>. QED  BY <2>6
<1>4. CASE hits = {}
  <2>1. FindSpecial(text, from) = <<n + 1, 0>>
    BY <1>1, <1>4
  <2>2. ASSUME NEW g \in from..n, NEW j \in DOMAIN Specials, Occurs(text, Specials[j], g) PROVE FALSE
    <3> DEFINE h == <<g, j>>
    <3>1. h \in (from..n) \X DOMAIN Specials /\ h[1] = g /\ h[2] = j
      OBVIOUS
    <3> HIDE DEF h
    <3>2. h \in hits
      BY <2>2, <3>1
    <3>. QED  BY <1>4, <3>2
  <2>3. NoneFrom(text, from)
    BY <2>2 DEF NoneFrom
  <2>. QED  BY <2>1, <2>3
<1>5. CASE hits # {}
  <2>1. FindSpecial(text, from) = CHOOSE h \in hits : first(h)
    BY <1>1, <1>5
  <2>2. \E h \in hits : first(h)
    BY <1>3, <1>5
  <2> DEFINE z == FindSpecial(text, from)
  <2>3. z \in hits /\ first(z)
    <3> HIDE DEF hits, first
    <3>. QED  BY <2>1, <2>2, Zenon
  <2> HIDE DEF z
  <2>4. z \in (from..n) \X DOMAIN Specials /\ Occurs(text, Specials[z[2]], z[1])
    BY <2>3
  <2>5. ASSUME NEW g \in from..n, NEW j \in DOMAIN Specials, Occurs(text, Specials[j], g)
        PROVE  z[1] < g \/ (z[1] = g /\ Len(Specials[z[2]]) >= Len(Specials[j]))
    <3> DEFINE h == <<g, j>>
    <3>1. h \in (from..n) \X DOMAIN Specials /\ h[1] = g /\ h[2] = j
      OBVIOUS
    <3> HIDE DEF h
    <3>2. h \in hits
      BY <2>5, <3>1
    <3>. QED  BY <2>3, <3>1, <3>2
  <2>6. FirstFrom(text, from, z[1], z[2])
    <3> HIDE DEF hits, first
    <3>1. z[1] \in from..n /\ z[2] \in DOMAIN Specials
      BY <2>4
    <3>. QED  BY <2>4, <2>5, <3>1 DEF FirstFrom
  <2>. QED  BY <2>4, <2>6 DEF z
<1>. QED  BY <1>4, <1>5

\* A special found lies behind where the search began.
LEMMA FindSpecialIs ==
  ASSUME NEW text \in Seq(Byte), NEW from \in 1..(Len(text) + 1)
  PROVE  LET hit == FindSpecial(text, from)
         IN  \/ hit = <<Len(text) + 1, 0>>
             \/ /\ hit \in (from..Len(text)) \X DOMAIN Specials
                /\ Occurs(text, Specials[hit[2]], hit[1])
<1> DEFINE hit == FindSpecial(text, from)
<1>1. \/ hit = <<Len(text) + 1, 0>> /\ NoneFrom(text, from)
      \/ hit \in (from..Len(text)) \X DOMAIN Specials /\ FirstFrom(text, from, hit[1], hit[2])
  BY FindFirst
<1> HIDE DEF hit
<1>2. \/ hit = <<Len(text) + 1, 0>>
      \/ hit \in (from..Len(text)) \X DOMAIN Specials /\ Occurs(text, Specials[hit[2]], hit[1])
  BY <1>1 DEF FirstFrom
<1>. QED  BY <1>2 DEF hit

ItemOf(S) == [bytes : Seq(S), special : Nat]

\* A special occurs within the text and is not empty.
LEMMA OccursIs ==
  ASSUME NEW text \in Seq(Byte), NEW k \in DOMAIN Specials, NEW a \in Nat, Occurs(text, Specials[k], a)
  PROVE  Len(Specials[k]) \in Nat \ {0} /\ a + Len(Specials[k]) <= Len(text) + 1 /\ k \in Nat /\ k > 0
<1>1. Specials \in Seq(Seq(Byte) \ {<<>>})
  BY ByteBpeAssumption
<1>2. DOMAIN Specials = 1..Len(Specials) /\ Len(Specials) \in Nat /\ k \in 1..Len(Specials)
  BY <1>1, LenProperties
<1>3. Specials[k] \in Seq(Byte) /\ Specials[k] # <<>>
  BY <1>1, <1>2, ElementOfSeq
<1> DEFINE x == Specials[k]
<1> HIDE DEF x
<1>4. x \in Seq(Byte) /\ x # <<>>
  BY <1>3 DEF x
<1>5. Len(x) \in Nat /\ Len(x) # 0
  BY <1>4, LenProperties, EmptySeq
<1>6. a + Len(x) - 1 <= Len(text) /\ Len(text) \in Nat
  BY LenProperties DEF Occurs, x
<1>. QED  BY <1>2, <1>5, <1>6 DEF x

\* A text of bytes consists of pieces of bytes and specials.
LEMMA ItemsAre == ASSUME NEW text \in Seq(Byte) PROVE Items(text) \in Seq(ItemOf(Byte))
<1> DEFINE n == Len(text)
           I == [at : 1..(n + 1), items : Seq(ItemOf(Byte))]
           x == [at |-> 1, items |-> <<>>]
           step == ItemStep(text)
<1>0. n \in Nat
  BY LenProperties
<1>1. x \in I
  <2>1. 1 \in 1..(n + 1) /\ <<>> \in Seq(ItemOf(Byte))
    BY <1>0, EmptySeq
  <2>. QED  BY <2>1
<1>2. ASSUME NEW s \in I PROVE step[s] \in I
  <2>1. s.at \in 1..(n + 1) /\ s.items \in Seq(ItemOf(Byte)) /\ s = [at |-> s.at, items |-> s.items]
    OBVIOUS
  <2>2. s \in [at : Nat, items : Seq([bytes : Seq(Nat), special : Nat])]
    <3>1. Byte \subseteq Nat
      BY DEF Byte
    <3> DEFINE S == Nat
    <3> HIDE DEF S
    <3>2. Seq(Byte) \subseteq Seq(S)
      BY <3>1, SeqMono DEF S
    <3>3. ItemOf(Byte) \subseteq ItemOf(S)
      BY <3>2 DEF ItemOf
    <3>4. s.items \in Seq(ItemOf(S))
      BY <2>1, <3>3, SeqMono
    <3>5. s.at \in Nat
      BY <2>1, <1>0
    <3> HIDE DEF I, n, x, step
    <3>6. s.items \in Seq([bytes : Seq(Nat), special : Nat])
      BY <3>4 DEF S, ItemOf
    <3>. QED  BY <2>1, <3>5, <3>6
  <2> DEFINE hit == FindSpecial(text, s.at)
             sub == SubSeq(text, s.at, hit[1] - 1)
             pieces == Pieces(sub)
             list == [k \in DOMAIN pieces |-> Piece(pieces[k])]
             found == s.items \o list
  <2>3. step[s] = IF hit[2] = 0 THEN [at |-> hit[1], items |-> found]
                  ELSE [at |-> hit[1] + Len(Specials[hit[2]]), items |-> Append(found, Special(hit[2]))]
    BY <2>2, Zenon DEF ItemStep, Through
  <2>4. \/ hit[1] = n + 1 /\ hit[2] = 0
        \/ /\ hit[1] \in 1..n /\ hit[2] \in DOMAIN Specials
           /\ Occurs(text, Specials[hit[2]], hit[1])
    <3>1. \/ hit = <<n + 1, 0>>
          \/ hit \in (s.at..n) \X DOMAIN Specials /\ Occurs(text, Specials[hit[2]], hit[1])
      BY <2>1, FindSpecialIs
    <3>2. s.at..n \subseteq 1..n
      BY <2>1, <1>0
    <3> HIDE DEF hit, n
    <3>. QED  BY <3>1, <3>2
  <2> HIDE DEF hit
  <2>5. found \in Seq(ItemOf(Byte))
    <3>1. hit[1] - 1 \in 0..n
      BY <1>0, <2>4
    <3>2. sub \in Seq(Byte)
      BY <2>1, <3>1, PartIs
    <3> HIDE DEF sub
    <3>3. pieces \in Seq(Seq(Byte))
      BY <3>2, PiecesAre
    <3> HIDE DEF pieces
    <3>4. Len(pieces) \in Nat /\ DOMAIN pieces = 1..Len(pieces) /\ \A k \in 1..Len(pieces) : pieces[k] \in Seq(Byte)
      BY <3>3, LenProperties, ElementOfSeq
    <3>5. \A k \in 1..Len(pieces) : Piece(pieces[k]) \in ItemOf(Byte)
      BY <3>4 DEF Piece, ItemOf
    <3>6. list \in [1..Len(pieces) -> ItemOf(Byte)]
      BY <3>4, <3>5
    <3> HIDE DEF list
    <3>7. list \in Seq(ItemOf(Byte))
      BY <3>4, <3>6, FunIsSeq
    <3>. QED  BY <2>1, <3>7, ConcatProperties
  <2> HIDE DEF found, step, I
  <2>6. CASE hit[2] = 0
    <3>1. hit[1] = n + 1
      <4>1. \A k \in DOMAIN Specials : k > 0
        BY ByteBpeAssumption, LenProperties
      <4>. QED  BY <2>4, <2>6, <4>1
    <3>2. step[s] = [at |-> n + 1, items |-> found]
      BY <2>3, <2>6, <3>1
    <3>3. n + 1 \in 1..(n + 1)
      BY <1>0
    <3>. QED  BY <2>5, <3>2, <3>3 DEF I
  <2>7. CASE hit[2] # 0
    <3>1. hit[1] \in 1..n /\ hit[2] \in DOMAIN Specials /\ Occurs(text, Specials[hit[2]], hit[1])
      BY <2>4, <2>7
    <3> DEFINE k == Len(Specials[hit[2]])
    <3>2. k \in Nat \ {0} /\ hit[1] + k <= n + 1 /\ hit[2] \in Nat
      BY <3>1, <1>0, OccursIs
    <3>3. Special(hit[2]) \in ItemOf(Byte)
      BY <3>2, EmptySeq DEF Special, ItemOf
    <3>4. Append(found, Special(hit[2])) \in Seq(ItemOf(Byte))
      BY <2>5, <3>3, AppendProperties
    <3>5. step[s] = [at |-> hit[1] + k, items |-> Append(found, Special(hit[2]))]
      BY <2>3, <2>7
    <3> HIDE DEF k
    <3>6. hit[1] + k \in 1..(n + 1)
      BY <1>0, <3>1, <3>2
    <3>. QED  BY <3>4, <3>5, <3>6 DEF I
  <2>. QED  BY <2>6, <2>7
<1>3. Items(text) = Repeat(step, n, x).items
  BY DEF Items
<1> HIDE DEF step, x, n, I
<1>4. Repeat(step, n, x) \in I
  BY <1>0, <1>1, <1>2, RepeatKeeps
<1>. QED  BY <1>3, <1>4 DEF I

\* Without merges nothing is merged.
LEMMA NoMerges ==
  /\ IsMerges(<<>>)
  /\ \A s \in Seq(Nat) : Scan(<<>>, s) = s
<1>1. <<>> \in Seq(Nat \X Nat) /\ Len(<<>>) = 0
  BY EmptySeq
<1>2. IsMerges(<<>>)
  BY <1>1 DEF IsMerges
<1>3. ASSUME NEW s \in Seq(Nat) PROVE Scan(<<>>, s) = s
  <2>1. \A l, r : Rank(<<>>, l, r) \in 0..0
    BY <1>1, RankIs
  <2>2. Can(<<>>, s) = {}
    BY <2>1 DEF Can
  <2>. QED  BY <1>2, <2>2, ScanOfEnded
<1>. QED  BY <1>2, <1>3

\* The words of a text are a corpus nothing is merged in yet.
LEMMA WordsOfAre == ASSUME NEW text \in Seq(Byte) PROVE IsCorpus(WordsOf(text), <<>>)
<1> DEFINE items == Items(text)
           D == {items[k].bytes : k \in DOMAIN items}
           W == {q \in D : Len(q) >= 2}
           freq(p) == Cardinality({k \in DOMAIN items : items[k].bytes = p})
<1>1. items \in Seq(ItemOf(Byte))
  BY ItemsAre
<1> HIDE DEF items
<1>2. Len(items) \in Nat /\ DOMAIN items = 1..Len(items) /\ \A k \in 1..Len(items) : items[k] \in ItemOf(Byte)
  BY <1>1, LenProperties, ElementOfSeq
<1>3. \A k \in DOMAIN items : items[k].bytes \in Seq(Byte)
  BY <1>2 DEF ItemOf
<1>4. IsFiniteSet(DOMAIN items)
  <2>1. 1 \in Int /\ Len(items) \in Int
    BY <1>2
  <2>. QED  BY <1>2, <2>1, FS_Interval
<1>5. WordsOf(text) = [p \in W |-> [symbols |-> p, freq |-> freq(p)]]
  BY Zenon DEF WordsOf, Corpus, items
<1>6. IsFiniteSet(W)
  <2> DEFINE f == [k \in DOMAIN items |-> items[k].bytes]
  <2>1. f \in [DOMAIN items -> D] /\ \A y \in D : \E k \in DOMAIN items : f[k] = y
    OBVIOUS
  <2>2. W \subseteq D
    OBVIOUS
  <2> HIDE DEF f, D, W
  <2>3. f \in Surjection(DOMAIN items, D)
    BY <2>1 DEF Surjection
  <2>4. IsFiniteSet(D)
    BY <1>4, <2>3, FS_Surjection
  <2>. QED  BY <2>2, <2>4, FS_Subset
<1>7. ASSUME NEW p \in W PROVE p \in Seq(Byte) /\ p \in Seq(Nat) /\ freq(p) \in Nat \ {0}
  <2>1. PICK k \in DOMAIN items : items[k].bytes = p
    OBVIOUS
  <2>2. p \in Seq(Byte)
    BY <1>3, <2>1
  <2>3. p \in Seq(Nat)
    <3>1. Byte \subseteq Nat
      BY DEF Byte
    <3> DEFINE S == Nat
    <3> HIDE DEF S, W
    <3>2. p \in Seq(S)
      BY <2>2, <3>1, SeqMono DEF S
    <3>. QED  BY <3>2 DEF S
  <2> DEFINE K == {j \in DOMAIN items : items[j].bytes = p}
  <2>4. k \in K /\ K \subseteq DOMAIN items
    BY <2>1
  <2> HIDE DEF K
  <2>5. IsFiniteSet(K)
    BY <1>4, <2>4, FS_Subset
  <2>6. Cardinality(K) \in Nat /\ Cardinality(K) # 0
    BY <2>4, <2>5, FS_CardinalityType, FS_EmptySet
  <2>7. freq(p) \in Nat \ {0}
    BY <2>6 DEF K
  <2>. QED  BY <2>2, <2>3, <2>7
<1> DEFINE ws == WordsOf(text)
<1>8. DOMAIN ws = W
  BY <1>5
<1>9. ASSUME NEW w \in DOMAIN ws
      PROVE w \in Seq(Byte) /\ ws[w] \in [symbols : Seq(Nat), freq : Nat \ {0}] /\ ws[w].symbols = Scan(<<>>, w)
  <2>1. w \in W /\ ws[w] = [symbols |-> w, freq |-> freq(w)]
    BY <1>5, <1>8
  <2>2. w \in Seq(Byte) /\ w \in Seq(Nat) /\ freq(w) \in Nat \ {0}
    BY <1>7, <2>1
  <2>3. Scan(<<>>, w) = w
    BY <2>2, NoMerges
  <2> HIDE DEF ws, freq
  <2>. QED  BY <2>1, <2>2, <2>3
<1> HIDE DEF ws, W
<1>10. IsFiniteSet(DOMAIN ws)
  BY <1>6, <1>8
<1>11. IsCorpus(ws, <<>>)
  BY <1>9, <1>10 DEF IsCorpus
<1>. QED  BY <1>11 DEF ws
-----------------------------------------------------------------------------
(* Learning takes the most frequent pair.                                  *)

\* The counts are those of the words as they are.
PairsCounted == pairs = [p \in AllPairs(words) |-> Occurrences(words, p)]

\* Every pair that occurs has an entry with its count.
HeapComplete ==
  /\ heap \in SUBSET Entries(merges) /\ IsFiniteSet(heap)
  /\ \A p \in AllPairs(words) : Entry(Occurrences(words, p), p) \in heap

\* A word is listed for every pair it has.
WhereComplete ==
  /\ \A w \in DOMAIN words : \A p \in PairsIn(words[w].symbols) : p \in DOMAIN where /\ w \in where[p]
  /\ \A p \in DOMAIN where : where[p] \subseteq DOMAIN words

\* The inductive invariant of learning.
LearnInv ==
  /\ job \in Jobs /\ IsMerges(merges) /\ IsCorpus(words, merges)
  /\ PairsCounted /\ HeapComplete /\ WhereComplete

\* What PopLive names: the words it merges, the words after it, by how much each
\* count changes, the pairs it looks at, and what it counts.
Touched == {w \in where[Top.pair] : Top.pair \in PairsIn(words[w].symbols)}
Merged ==
  [w \in DOMAIN words |->
     IF w \in Touched THEN [words[w] EXCEPT !.symbols = MergeIn(@, Top.pair, 256 + Len(merges))] ELSE words[w]]
Delta(k) ==
  SumFunction([w \in Touched |-> words[w].freq * (Count(Merged[w].symbols, k) - Count(words[w].symbols, k))])
Keys == UNION {PairsIn(words[w].symbols) \cup PairsIn(Merged[w].symbols) : w \in Touched}
Changed == {k \in Keys : Delta(k) # 0}
Now(k) == At(pairs, k) + IF k \in Changed THEN Delta(k) ELSE 0
NowListed(k) == {w \in Touched : k \in Listed(Merged[w].symbols, 256 + Len(merges))}

\* PopLive in those names.
LEMMA PopLiveIs ==
  ASSUME PopLive
  PROVE  /\ Learning /\ Live(Top)
         /\ merges' = Append(merges, Top.pair) /\ words' = Merged
         /\ pairs' = [k \in {q \in (DOMAIN pairs \cup Changed) \ {Top.pair} : Now(q) > 0} |-> Now(k)]
         /\ heap' = (heap \ {Top}) \cup {Entry(Now(k), k) : k \in {q \in Changed : Now(q) > 0}}
         /\ where' = [k \in (DOMAIN where \ {Top.pair}) \cup {q \in Keys : NowListed(q) # {}} |->
                        (IF k \in DOMAIN where /\ k # Top.pair THEN where[k] ELSE {}) \cup NowListed(k)]
         /\ job' = job /\ pc' = pc
BY Zenon DEF PopLive, Touched, Merged, Delta, Keys, Changed, Now, NowListed

\* The pair of a live entry occurs, is no merge yet, and every word that has it is found.
LEMMA LiveTop ==
  ASSUME LearnInv, heap # {}, Live(Top)
  PROVE  /\ Top \in heap /\ Top = Entry(Occurrences(words, Top.pair), Top.pair)
         /\ Top.pair \in AllPairs(words) /\ IsNext(merges, Top.pair)
         /\ Touched = {w \in DOMAIN words : Top.pair \in PairsIn(words[w].symbols)}
<1> DEFINE p == Top.pair
<1>1. IsMerges(merges) /\ IsCorpus(words, merges) /\ heap \in SUBSET Entries(merges) /\ IsFiniteSet(heap)
  BY DEF LearnInv, HeapComplete
<1>2. Top \in heap /\ Top \in Entries(merges)
  BY <1>1, TopIs
<1>3. p \in AllPairs(words) /\ Occurrences(words, p) = Top.count
  BY DEF LearnInv, PairsCounted, Live
<1>4. Top = Entry(Occurrences(words, p), p)
  BY <1>1, <1>2, <1>3, EntryIs
<1>5. IsNext(merges, p)
  <2>1. PICK w \in DOMAIN words : p \in PairsIn(words[w].symbols)
    BY <1>3 DEF AllPairs
  <2>2. Can(merges, words[w].symbols) = {}
    BY <1>1, WordIs
  <2>3. PICK i \in 1..(Len(words[w].symbols) - 1) : p = <<words[w].symbols[i], words[w].symbols[i + 1]>>
    BY <2>1 DEF PairsIn
  <2>4. ~ (Rank(merges, p[1], p[2]) > 0)
    <3> DEFINE s == words[w].symbols
    <3>1. ~ (Rank(merges, s[i], s[i + 1]) > 0)
      BY <2>2, Zenon DEF Can
    <3>2. p = <<s[i], s[i + 1]>>
      BY <2>3
    <3> HIDE DEF p, s
    <3>3. p[1] = s[i] /\ p[2] = s[i + 1]
      BY <3>2
    <3>. QED  BY <3>1, <3>3
  <2>5. Len(merges) \in Nat
    BY <1>1, LenProperties DEF IsMerges
  <2>6. Rank(merges, p[1], p[2]) \in 0..Len(merges)
    BY <2>5, RankIs
  <2>7. p \in Tokens(merges) \X Tokens(merges)
    BY <1>1, <1>3, OccurrencesAre
  <2> HIDE DEF p
  <2>8. Rank(merges, p[1], p[2]) = 0
    BY <2>4, <2>5, <2>6
  <2>. QED  BY <2>7, <2>8 DEF IsNext, Tokens
<1>6. Touched = {w \in DOMAIN words : p \in PairsIn(words[w].symbols)}
  <2>1. p \in DOMAIN where
    BY <1>3 DEF AllPairs, LearnInv, WhereComplete
  <2>. QED  BY <2>1 DEF Touched, LearnInv, WhereComplete
<1>. QED  BY <1>2, <1>3, <1>4, <1>5, <1>6

\* A word with no occurrence of the new pair stays as it is.
LEMMA UntouchedWord ==
  ASSUME NEW ms, IsMerges(ms), NEW p, IsNext(ms, p), NEW w \in Seq(Nat), p \notin PairsIn(Scan(ms, w))
  PROVE  Scan(Append(ms, p), w) = Scan(ms, w)
<1> DEFINE s == Scan(ms, w)
           ns == Append(ms, p)
<1>1. s \in Seq(Nat) /\ Can(ms, s) = {}
  BY ScanEnds
<1>2. IsMerges(ns) /\ ms \in Seq(Nat \X Nat) /\ p \in Nat \X Nat /\ Len(ms) \in Nat
  BY MergesGrow, LenProperties DEF IsMerges
<1> HIDE DEF s, ns
<1>3. Can(ns, s) = {}
  <2>1. ASSUME NEW i \in 1..(Len(s) - 1) PROVE ~ (Rank(ns, s[i], s[i + 1]) > 0)
    <3>1. ~ (Rank(ms, s[i], s[i + 1]) > 0) /\ p # <<s[i], s[i + 1]>>
      BY <1>1 DEF Can, PairsIn, s
    <3>2. Rank(ms, s[i], s[i + 1]) \in 0..Len(ms)
      BY <1>2, RankIs
    <3>3. Rank(ms, s[i], s[i + 1]) = 0
      BY <1>2, <3>1, <3>2
    <3>4. Rank(ns, s[i], s[i + 1]) = 0
      BY <1>2, <3>1, <3>3, RankAppend DEF ns
    <3>. QED  BY <3>4
  <2>. QED  BY <2>1 DEF Can
<1>4. Scan(ns, s) = s
  BY <1>1, <1>2, <1>3, ScanOfEnded
<1>5. Scan(ns, s) = Scan(ns, w)
  BY ScanOfScan DEF s, ns
<1>. QED  BY <1>4, <1>5 DEF s, ns

\* The words after a merge are the corpus of one merge more.
LEMMA MergedIs ==
  ASSUME LearnInv, heap # {}, Live(Top)
  PROVE  /\ IsCorpus(Merged, Append(merges, Top.pair)) /\ DOMAIN Merged = DOMAIN words
         /\ Touched \in SUBSET DOMAIN words
         /\ \A w \in DOMAIN words :
              /\ Merged[w].freq = words[w].freq /\ Top.pair \notin PairsIn(Merged[w].symbols)
              /\ w \notin Touched => Merged[w] = words[w]
              /\ w \in Touched => Merged[w].symbols \in Seq(Nat)
              /\ \A q \in PairsIn(Merged[w].symbols) :
                   q \in PairsIn(words[w].symbols) \/ (w \in Touched /\ w \in NowListed(q))
<1> DEFINE p == Top.pair
           id == 256 + Len(merges)
           ns == Append(merges, p)
<1>1. IsMerges(merges) /\ IsCorpus(words, merges)
  BY DEF LearnInv
<1>2. IsNext(merges, p) /\ Touched = {w \in DOMAIN words : p \in PairsIn(words[w].symbols)}
  BY LiveTop
<1>3. DOMAIN Merged = DOMAIN words /\ Touched \in SUBSET DOMAIN words
  BY <1>2 DEF Merged
<1>4. ASSUME NEW w \in DOMAIN words
      PROVE  /\ words[w] \in [symbols : Seq(Nat), freq : Nat \ {0}] /\ words[w].symbols = Scan(merges, w)
             /\ w \in Seq(Byte) /\ w \in Seq(Nat) /\ Can(merges, words[w].symbols) = {}
  BY <1>1, WordIs DEF IsCorpus
<1>5. ASSUME NEW w \in DOMAIN words, w \notin Touched
      PROVE  /\ Merged[w] = words[w] /\ Scan(ns, w) = words[w].symbols /\ p \notin PairsIn(words[w].symbols)
  <2>1. Merged[w] = words[w]
    BY <1>5 DEF Merged
  <2>2. p \notin PairsIn(Scan(merges, w)) /\ w \in Seq(Nat)
    BY <1>2, <1>4, <1>5
  <2>3. Scan(ns, w) = Scan(merges, w)
    BY <1>1, <1>2, <2>2, UntouchedWord
  <2>. QED  BY <1>4, <2>1, <2>2, <2>3
<1>6. ASSUME NEW w \in DOMAIN words, w \in Touched
      PROVE  /\ Merged[w] \in [symbols : Seq(Nat), freq : Nat \ {0}] /\ Merged[w].freq = words[w].freq
             /\ Merged[w].symbols \in Seq(Nat) /\ Merged[w].symbols = Scan(ns, w)
             /\ p \notin PairsIn(Merged[w].symbols)
             /\ \A q \in PairsIn(Merged[w].symbols) : q \in PairsIn(words[w].symbols) \/ q[1] = id \/ q[2] = id
  <2> DEFINE s == words[w].symbols
             t == MergeIn(s, p, id)
  <2>1. Merged[w] = [words[w] EXCEPT !.symbols = t]
    BY <1>6 DEF Merged
  <2>2. words[w] \in [symbols : Seq(Nat), freq : Nat \ {0}]
    BY <1>4
  <2>3. s \in Seq(Nat) /\ Can(merges, s) = {} /\ w \in Seq(Nat) /\ s = Scan(merges, w)
    BY <1>4
  <2> HIDE DEF t
  <2>4. Merged[w] = [symbols |-> t, freq |-> words[w].freq]
    BY <2>1, <2>2
  <2>7. Merged[w].symbols = t /\ Merged[w].freq = words[w].freq /\ words[w].freq \in Nat \ {0}
    BY <2>2, <2>4
  <2> HIDE DEF s, p, ns, id
  <2>5. /\ t \in Seq(Nat) /\ t = Scan(ns, s) /\ p \notin PairsIn(t)
        /\ \A q \in PairsIn(t) : q \in PairsIn(s) \/ q[1] = id \/ q[2] = id
    BY <1>1, <1>2, <2>3, MergeInIs DEF t, id, ns
  <2>6. Scan(ns, s) = Scan(ns, w)
    BY <1>1, <1>2, <2>3, ScanOfScan DEF ns
  <2>8. Merged[w] \in [symbols : Seq(Nat), freq : Nat \ {0}]
    BY <2>4, <2>5, <2>7
  <2>9. \A q \in PairsIn(Merged[w].symbols) : q \in PairsIn(words[w].symbols) \/ q[1] = id \/ q[2] = id
    BY <2>5, <2>7 DEF s
  <2>. QED  BY <2>5, <2>6, <2>7, <2>8, <2>9
<1>7. IsCorpus(Merged, ns)
  <2>1. ASSUME NEW w \in DOMAIN words
        PROVE w \in Seq(Byte) /\ Merged[w] \in [symbols : Seq(Nat), freq : Nat \ {0}] /\ Merged[w].symbols = Scan(ns, w)
    <3>1. CASE w \notin Touched
      BY <1>4, <1>5, <3>1
    <3>2. CASE w \in Touched
      BY <1>4, <1>6, <3>2
    <3>. QED  BY <3>1, <3>2
  <2>2. IsFiniteSet(DOMAIN Merged)
    BY <1>1, <1>3 DEF IsCorpus
  <2>. QED  BY <1>3, <2>1, <2>2 DEF IsCorpus
<1>8. ASSUME NEW w \in DOMAIN words, w \in Touched, NEW q \in PairsIn(Merged[w].symbols)
      PROVE q \in PairsIn(words[w].symbols) \/ w \in NowListed(q)
  <2> DEFINE t == Merged[w].symbols
  <2>1. q \in PairsIn(words[w].symbols) \/ q[1] = id \/ q[2] = id
    BY <1>6, <1>8
  <2>2. Listed(t, id) = {k \in PairsIn(t) : k[1] = id \/ k[2] = id}
    BY DEF Listed
  <2>3. NowListed(q) = {v \in Touched : q \in Listed(Merged[v].symbols, id)}
    BY DEF NowListed
  <2> HIDE DEF id
  <2>4. q \in PairsIn(words[w].symbols) \/ q \in Listed(t, id)
    BY <2>1, <2>2
  <2>. QED  BY <1>8, <2>3, <2>4
<1>9. ASSUME NEW w \in DOMAIN words
      PROVE /\ Merged[w].freq = words[w].freq /\ p \notin PairsIn(Merged[w].symbols)
            /\ w \notin Touched => Merged[w] = words[w]
            /\ w \in Touched => Merged[w].symbols \in Seq(Nat)
  <2>1. CASE w \in Touched
    <3>1. Merged[w].freq = words[w].freq /\ p \notin PairsIn(Merged[w].symbols) /\ Merged[w].symbols \in Seq(Nat)
      BY <1>6, <2>1
    <3>. QED  BY <2>1, <3>1
  <2>2. CASE w \notin Touched
    <3>1. Merged[w] = words[w] /\ p \notin PairsIn(words[w].symbols)
      BY <1>5, <2>2
    <3>. QED  BY <2>2, <3>1
  <2>. QED  BY <2>1, <2>2
<1>10. ASSUME NEW w \in DOMAIN words, NEW q \in PairsIn(Merged[w].symbols)
       PROVE q \in PairsIn(words[w].symbols) \/ (w \in Touched /\ w \in NowListed(q))
  BY <1>8, <1>9
<1> HIDE DEF p, ns
<1>. QED  BY <1>3, <1>7, <1>9, <1>10 DEF p, ns

\* After PopLive the count it keeps for a pair is how often that pair now occurs.
LEMMA NowIs ==
  ASSUME LearnInv, heap # {}, Live(Top)
  PROVE  /\ \A k : Now(k) = Occurrences(Merged, k)
         /\ \A k : k \notin Changed => Now(k) = Occurrences(words, k)
<1>1. IsMerges(merges) /\ IsCorpus(words, merges) /\ IsFiniteSet(DOMAIN words)
  BY DEF LearnInv, IsCorpus
<1>2. /\ DOMAIN Merged = DOMAIN words /\ Touched \in SUBSET DOMAIN words
      /\ \A w \in DOMAIN words :
              /\ Merged[w].freq = words[w].freq
              /\ w \notin Touched => Merged[w] = words[w]
              /\ w \in Touched => Merged[w].symbols \in Seq(Nat)
  BY MergedIs
<1>3. ASSUME NEW k PROVE Occurrences(words, k) \in Nat /\ At(pairs, k) = Occurrences(words, k)
  <2>1. Occurrences(words, k) \in Nat /\ (Occurrences(words, k) > 0 <=> k \in AllPairs(words))
    BY <1>1, OccurrencesAre
  <2>2. pairs = [p \in AllPairs(words) |-> Occurrences(words, p)]
    BY DEF LearnInv, PairsCounted
  <2>3. CASE k \in AllPairs(words)
    BY <2>1, <2>2, <2>3 DEF At
  <2>4. CASE k \notin AllPairs(words)
    <3>1. k \notin DOMAIN pairs
      BY <2>2, <2>4
    <3>. QED  BY <2>1, <2>4, <3>1 DEF At
  <2>. QED  BY <2>1, <2>3, <2>4
<1>4. ASSUME NEW k
      PROVE  /\ Occurrences(Merged, k) = Occurrences(words, k) + Delta(k)
             /\ k \notin Keys => Delta(k) = 0
             /\ Delta(k) \in Int
  <2> DEFINE D == DOMAIN words
             u == [w \in D |-> words[w].freq * Count(words[w].symbols, k)]
             v == [w \in D |-> Merged[w].freq * Count(Merged[w].symbols, k)]
             d == [w \in Touched |-> words[w].freq * (Count(Merged[w].symbols, k) - Count(words[w].symbols, k))]
  <2>1. Occurrences(words, k) = SumTotal(u, D)
    BY DEF Occurrences, SumTotal
  <2>2. Occurrences(Merged, k) = SumTotal(v, D)
    BY <1>2 DEF Occurrences, SumTotal
  <2>3. Delta(k) = SumTotal(d, Touched)
    BY DEF Delta, SumTotal
  <2>4. ASSUME NEW w \in D
        PROVE  /\ words[w].freq \in Nat /\ Count(words[w].symbols, k) \in Nat
               /\ words[w].symbols \in Seq(Nat) /\ (w \in Touched => Merged[w].symbols \in Seq(Nat))
    <3>1. words[w].freq \in Nat /\ words[w].symbols \in Seq(Nat)
      BY <1>1, WordIs
    <3>2. Count(words[w].symbols, k) \in Nat
      BY <3>1, PairsAre
    <3>. QED  BY <1>2, <3>1, <3>2
  <2>5. ASSUME NEW w \in Touched
        PROVE  u[w] \in Int /\ v[w] \in Int /\ d[w] \in Int /\ v[w] = u[w] + d[w] /\ (k \notin Keys => d[w] = 0)
    <3> DEFINE f == words[w].freq
               a == Count(words[w].symbols, k)
               b == Count(Merged[w].symbols, k)
    <3>1. w \in D /\ Merged[w].freq = f
      BY <1>2
    <3>2. f \in Nat /\ a \in Nat
      BY <2>4, <3>1
    <3>3. b \in Nat
      BY <2>4, <3>1, PairsAre
    <3>4. u[w] = f * a /\ v[w] = f * b /\ d[w] = f * (b - a)
      BY <3>1
    <3>5. k \notin Keys => a = 0 /\ b = 0
      <4> SUFFICES ASSUME k \notin Keys PROVE a = 0 /\ b = 0
        OBVIOUS
      <4>1. k \notin PairsIn(words[w].symbols) /\ k \notin PairsIn(Merged[w].symbols)
        BY DEF Keys
      <4>2. (a > 0 <=> k \in PairsIn(words[w].symbols)) /\ (b > 0 <=> k \in PairsIn(Merged[w].symbols))
        BY <2>4, <3>1, PairsAre
      <4> HIDE DEF a, b
      <4>. QED  BY <3>2, <3>3, <4>1, <4>2
    <3> HIDE DEF f, a, b, u, v, d
    <3>6. f * a \in Int /\ f * b \in Int /\ f * (b - a) \in Int /\ f * b = f * a + f * (b - a)
      BY <3>2, <3>3
    <3>7. k \notin Keys => f * (b - a) = 0
      BY <3>2, <3>5
    <3>. QED  BY <3>4, <3>6, <3>7
  <2>6. ASSUME NEW w \in D \ Touched PROVE v[w] = u[w]
    BY <1>2
  <2>7. ASSUME NEW w \in D PROVE u[w] \in Int /\ v[w] \in Int
    <3>1. CASE w \in Touched
      BY <2>5, <3>1
    <3>2. CASE w \notin Touched
      <4> DEFINE f == words[w].freq
                 a == Count(words[w].symbols, k)
      <4>1. f \in Nat /\ a \in Nat
        BY <2>4
      <4>2. u[w] = f * a
        OBVIOUS
      <4>3. v[w] = u[w]
        BY <2>6, <3>2
      <4> HIDE DEF f, a, u, v
      <4>. QED  BY <4>1, <4>2, <4>3
    <3>. QED  BY <3>1, <3>2
  <2> HIDE DEF u, v, d
  <2>8. SumTotal(v, D) = SumTotal(u, D) + SumTotal(d, Touched)
    <3>1. \A w \in D : u[w] \in Int /\ v[w] \in Int
      BY <2>7
    <3>2. \A w \in Touched : d[w] \in Int /\ v[w] = u[w] + d[w]
      BY <2>5
    <3>3. \A w \in D \ Touched : v[w] = u[w]
      BY <2>6
    <3>4. IsFiniteSet(D) /\ Touched \in SUBSET D
      BY <1>1, <1>2
    <3> HIDE DEF D
    <3>. QED  BY ONLY <3>1, <3>2, <3>3, <3>4, TotalChanges
  <2>9. IsFiniteSet(Touched)
    BY <1>1, <1>2, FS_Subset
  <2>10. k \notin Keys => SumTotal(d, Touched) = 0
    BY <2>5, <2>9, TotalIsZero
  <2>11. SumTotal(d, Touched) \in Int
    BY <2>5, <2>9, TotalIsInt
  <2>. QED  BY <2>1, <2>2, <2>3, <2>8, <2>10, <2>11
<1>5. ASSUME NEW k
      PROVE Now(k) = Occurrences(Merged, k) /\ (k \notin Changed => Now(k) = Occurrences(words, k))
  <2>1. Now(k) = Occurrences(words, k) + IF k \in Changed THEN Delta(k) ELSE 0
    BY <1>3 DEF Now
  <2>2. k \notin Changed => Delta(k) = 0
    BY <1>4 DEF Changed
  <2>3. Occurrences(Merged, k) = Occurrences(words, k) + Delta(k) /\ Delta(k) \in Int /\ Occurrences(words, k) \in Nat
    BY <1>3, <1>4
  <2>. QED  BY <2>1, <2>2, <2>3
<1>. QED  BY <1>5

\* Learning keeps what it counts, its heap and its lists true.
LEMMA PopLiveKeeps == ASSUME LearnInv, PopLive PROVE LearnInv'
<1> DEFINE p == Top.pair
           ns == Append(merges, p)
           new == {q \in Changed : Now(q) > 0}
<1>0. heap # {} /\ Live(Top)
  BY PopLiveIs DEF Learning
<1>1. /\ merges' = ns /\ words' = Merged /\ job' = job
      /\ pairs' = [k \in {q \in (DOMAIN pairs \cup Changed) \ {p} : Now(q) > 0} |-> Now(k)]
      /\ heap' = (heap \ {Top}) \cup {Entry(Now(k), k) : k \in new}
      /\ where' = [k \in (DOMAIN where \ {p}) \cup {q \in Keys : NowListed(q) # {}} |->
                     (IF k \in DOMAIN where /\ k # p THEN where[k] ELSE {}) \cup NowListed(k)]
  BY PopLiveIs
<1>2. /\ IsMerges(merges) /\ IsCorpus(words, merges) /\ job \in Jobs
      /\ pairs = [q \in AllPairs(words) |-> Occurrences(words, q)]
      /\ heap \in SUBSET Entries(merges) /\ IsFiniteSet(heap)
      /\ \A q \in AllPairs(words) : Entry(Occurrences(words, q), q) \in heap
  BY DEF LearnInv, PairsCounted, HeapComplete
<1>3. /\ Top = Entry(Occurrences(words, p), p) /\ IsNext(merges, p)
      /\ IsMerges(ns) /\ Len(ns) = Len(merges) + 1 /\ Len(merges) \in Nat
  BY <1>0, <1>2, LiveTop, MergesGrow
<1>4. /\ IsCorpus(Merged, ns) /\ DOMAIN Merged = DOMAIN words /\ Touched \in SUBSET DOMAIN words
      /\ \A w \in DOMAIN words : p \notin PairsIn(Merged[w].symbols)
  BY <1>0, MergedIs
<1>5. /\ \A k : Now(k) = Occurrences(Merged, k)
      /\ \A k : k \notin Changed => Now(k) = Occurrences(words, k)
  BY <1>0, NowIs
<1>6. /\ IsFiniteSet(AllPairs(Merged)) /\ AllPairs(Merged) \subseteq Tokens(ns) \X Tokens(ns)
      /\ \A q : Occurrences(Merged, q) \in Nat /\ (Occurrences(Merged, q) > 0 <=> q \in AllPairs(Merged))
  BY <1>3, <1>4, OccurrencesAre
<1>7. \A q : Occurrences(words, q) > 0 <=> q \in AllPairs(words)
  BY <1>2, OccurrencesAre
<1>8. p \notin AllPairs(Merged)
  BY <1>4 DEF AllPairs
<1> HIDE DEF p, ns
<1>9. PairsCounted'
  <2>1. {q \in (DOMAIN pairs \cup Changed) \ {p} : Now(q) > 0} = AllPairs(Merged)
    <3>1. ASSUME NEW q PROVE Now(q) > 0 <=> q \in AllPairs(Merged)
      BY <1>5, <1>6
    <3>2. ASSUME NEW q \in AllPairs(Merged) PROVE q \in DOMAIN pairs \cup Changed /\ q # p
      <4>1. CASE q \in Changed
        BY <1>8, <4>1
      <4>2. CASE q \notin Changed
        <5>1. Occurrences(words, q) > 0
          BY <1>5, <3>1, <4>2
        <5>2. q \in DOMAIN pairs
          BY <1>2, <1>7, <5>1
        <5>. QED  BY <1>8, <5>2
      <4>. QED  BY <4>1, <4>2
    <3>. QED  BY <3>1, <3>2
  <2>2. pairs' = [k \in AllPairs(Merged) |-> Now(k)]
    BY <1>1, <2>1
  <2>3. pairs' = [k \in AllPairs(Merged) |-> Occurrences(Merged, k)]
    BY <1>5, <2>2
  <2>4. pairs' = [k \in AllPairs(words') |-> Occurrences(words', k)]
    BY <1>1, <2>3
  <2>5. AllPairs(words)' = AllPairs(words') /\ \A k : Occurrences(words, k)' = Occurrences(words', k)
    BY DEF AllPairs, Occurrences
  <2>. QED  BY <2>4 DEF PairsCounted, AllPairs, Occurrences
<1>10. heap' \in SUBSET Entries(ns) /\ IsFiniteSet(heap')
  <2>1. new \subseteq AllPairs(Merged)
    BY <1>5, <1>6
  <2>2. IsFiniteSet(new)
    BY <1>6, <2>1, FS_Subset
  <2> DEFINE g == [k \in new |-> Entry(Now(k), k)]
             G == {Entry(Now(k), k) : k \in new}
  <2>3. IsFiniteSet(G)
    <3>1. g \in [new -> G] /\ \A y \in G : \E k \in new : g[k] = y
      OBVIOUS
    <3> HIDE DEF g, G, new
    <3>2. g \in Surjection(new, G)
      BY <3>1 DEF Surjection
    <3>. QED  BY <2>2, <3>2, FS_Surjection
  <2>4. G \subseteq Entries(ns)
    <3>1. ASSUME NEW k \in new PROVE Entry(Now(k), k) \in Entries(ns)
      <4>1. Now(k) \in Nat /\ k \in Tokens(ns) \X Tokens(ns)
        BY <1>5, <1>6, <2>1
      <4>. QED  BY <4>1 DEF Entry, Entries
    <3>. QED  BY <3>1
  <2>5. Entries(merges) \subseteq Entries(ns)
    <3>1. Tokens(merges) \subseteq Tokens(ns)
      BY <1>3 DEF Tokens
    <3>. QED  BY <3>1 DEF Entries
  <2>6. heap \ {Top} \subseteq Entries(ns) /\ IsFiniteSet(heap \ {Top})
    <3>1. heap \ {Top} \subseteq heap
      OBVIOUS
    <3>. QED  BY <1>2, <2>5, <3>1, FS_Subset
  <2> HIDE DEF G
  <2>7. heap' = (heap \ {Top}) \cup G
    BY <1>1 DEF G
  <2>8. IsFiniteSet((heap \ {Top}) \cup G)
    BY <2>3, <2>6, FS_Union
  <2>. QED  BY <2>4, <2>6, <2>7, <2>8
<1>11. \A q \in AllPairs(Merged) : Entry(Occurrences(Merged, q), q) \in heap'
  <2> TAKE q \in AllPairs(Merged)
  <2>1. Now(q) = Occurrences(Merged, q) /\ Now(q) > 0 /\ q # p
    BY <1>5, <1>6, <1>8
  <2>2. CASE q \in Changed
    <3>1. q \in new
      BY <2>1, <2>2
    <3>. QED  BY <1>1, <2>1, <3>1
  <2>3. CASE q \notin Changed
    <3>1. Now(q) = Occurrences(words, q) /\ q \in AllPairs(words)
      BY <1>5, <1>7, <2>1, <2>3
    <3>2. Entry(Now(q), q) \in heap
      BY <1>2, <3>1
    <3>3. Entry(Now(q), q) # Top
      <4>1. Entry(Now(q), q).pair = q /\ Top.pair = p
        BY DEF Entry, p
      <4>. QED  BY <2>1, <4>1
    <3>. QED  BY <1>1, <2>1, <3>2, <3>3
  <2>. QED  BY <2>2, <2>3
<1>12. HeapComplete'
  <2>1. heap' \in SUBSET Entries(merges') /\ \A q \in AllPairs(words') : Entry(Occurrences(words', q), q) \in heap'
    BY <1>1, <1>10, <1>11
  <2>. QED  BY <1>10, <2>1 DEF HeapComplete, Entries, Tokens, AllPairs, Occurrences
<1>13. ASSUME NEW w \in DOMAIN words, NEW q \in PairsIn(Merged[w].symbols)
       PROVE  q \in DOMAIN where' /\ w \in where'[q]
  <2>1. q # p
    BY <1>4
  <2>2. q \in PairsIn(words[w].symbols) \/ (w \in Touched /\ w \in NowListed(q))
    BY <1>0, MergedIs
  <2>3. CASE q \in PairsIn(words[w].symbols)
    <3>1. q \in DOMAIN where /\ w \in where[q]
      BY <2>3 DEF LearnInv, WhereComplete
    <3>. QED  BY <1>1, <2>1, <3>1
  <2>4. CASE w \in Touched /\ w \in NowListed(q)
    <3>1. q \in Keys
      BY <2>4 DEF Keys
    <3>. QED  BY <1>1, <2>4, <3>1
  <2>. QED  BY <2>2, <2>3, <2>4
<1>14. ASSUME NEW q \in DOMAIN where' PROVE where'[q] \subseteq DOMAIN words
  <2>1. NowListed(q) \subseteq DOMAIN words
    BY <1>4 DEF NowListed
  <2>2. q \in DOMAIN where => where[q] \subseteq DOMAIN words
    BY DEF LearnInv, WhereComplete
  <2>3. where'[q] = (IF q \in DOMAIN where /\ q # p THEN where[q] ELSE {}) \cup NowListed(q)
    BY <1>1
  <2>. QED  BY <2>1, <2>2, <2>3
<1>15. WhereComplete'
  <2>1. \A w \in DOMAIN words' : \A q \in PairsIn(words'[w].symbols) : q \in DOMAIN where' /\ w \in where'[q]
    BY <1>1, <1>4, <1>13
  <2>2. \A q \in DOMAIN where' : where'[q] \subseteq DOMAIN words'
    BY <1>1, <1>4, <1>14
  <2>. QED  BY <2>1, <2>2 DEF WhereComplete, PairsIn
<1>16. (job \in Jobs /\ IsMerges(merges) /\ IsCorpus(words, merges))'
  <2>1. job' \in Jobs /\ IsMerges(merges') /\ IsCorpus(words', merges')
    BY <1>1, <1>2, <1>3, <1>4
  <2>. QED  BY <2>1
<1>. QED  BY <1>9, <1>12, <1>15, <1>16 DEF LearnInv

\* While merges are learned (learn_merges), and after: the pair counts are those of
\* the words as they are, every pair that occurs has an entry with its count in the
\* heap, where lists every word that has a pair, and every word is what the scan makes
\* of it with the merges so far.
THEOREM LearningIsTrue == Spec => []LearnInv
<1>1. Init => LearnInv
  <2> SUFFICES ASSUME Init PROVE LearnInv
    OBVIOUS
  <2>1. /\ job \in Jobs /\ words = WordsOf(job.text) /\ merges = <<>>
        /\ pairs = [p \in AllPairs(words) |-> Occurrences(words, p)]
        /\ where = [p \in AllPairs(words) |-> {w \in DOMAIN words : p \in PairsIn(words[w].symbols)}]
        /\ heap = {Entry(pairs[p], p) : p \in DOMAIN pairs}
    BY DEF Init
  <2>2. job.text \in Seq(Byte)
    BY <2>1, ByteBpeAssumption
  <2>3. IsCorpus(words, merges)
    BY <2>1, <2>2, WordsOfAre
  <2>4. IsMerges(merges)
    BY <2>1, NoMerges
  <2>5. /\ IsFiniteSet(AllPairs(words)) /\ AllPairs(words) \subseteq Tokens(merges) \X Tokens(merges)
        /\ \A p : Occurrences(words, p) \in Nat
    BY <2>3, <2>4, OccurrencesAre
  <2>6. HeapComplete
    <3> DEFINE g == [p \in AllPairs(words) |-> Entry(Occurrences(words, p), p)]
               G == {Entry(Occurrences(words, p), p) : p \in AllPairs(words)}
    <3>1. heap = G
      BY <2>1
    <3>2. IsFiniteSet(G)
      <4>1. g \in [AllPairs(words) -> G] /\ \A y \in G : \E p \in AllPairs(words) : g[p] = y
        OBVIOUS
      <4> HIDE DEF g, G
      <4>2. g \in Surjection(AllPairs(words), G)
        BY <4>1 DEF Surjection
      <4>. QED  BY <2>5, <4>2, FS_Surjection
    <3>3. G \subseteq Entries(merges)
      <4>1. ASSUME NEW p \in AllPairs(words) PROVE Entry(Occurrences(words, p), p) \in Entries(merges)
        BY <2>5 DEF Entry, Entries
      <4>. QED  BY <4>1
    <3>4. \A p \in AllPairs(words) : Entry(Occurrences(words, p), p) \in G
      OBVIOUS
    <3> HIDE DEF G
    <3>. QED  BY <3>1, <3>2, <3>3, <3>4 DEF HeapComplete
  <2>7. WhereComplete
    <3>1. ASSUME NEW w \in DOMAIN words, NEW p \in PairsIn(words[w].symbols) PROVE p \in DOMAIN where /\ w \in where[p]
      <4>1. p \in AllPairs(words)
        BY DEF AllPairs
      <4>. QED  BY <2>1, <4>1
    <3>2. \A p \in DOMAIN where : where[p] \subseteq DOMAIN words
      BY <2>1
    <3>. QED  BY <3>1, <3>2 DEF WhereComplete
  <2>. QED  BY <2>1, <2>3, <2>4, <2>6, <2>7 DEF LearnInv, PairsCounted
<1>2. LearnInv /\ [Next]_vars => LearnInv'
  <2> SUFFICES ASSUME LearnInv, [Next]_vars PROVE LearnInv'
    OBVIOUS
  <2>1. CASE PopStale
    <3>1. /\ job' = job /\ merges' = merges /\ words' = words /\ pairs' = pairs /\ where' = where
          /\ heap' = heap \ {Top} /\ ~ Live(Top)
      BY <2>1 DEF PopStale
    <3>2. /\ heap \in SUBSET Entries(merges) /\ IsFiniteSet(heap)
          /\ \A p \in AllPairs(words) : Entry(Occurrences(words, p), p) \in heap
          /\ pairs = [p \in AllPairs(words) |-> Occurrences(words, p)]
      BY DEF LearnInv, HeapComplete, PairsCounted
    <3>3. heap' \subseteq heap /\ IsFiniteSet(heap')
      BY <3>1, <3>2, FS_Subset
    <3>4. ASSUME NEW p \in AllPairs(words) PROVE Entry(Occurrences(words, p), p) # Top
      <4>1. Live(Entry(Occurrences(words, p), p))
        BY <3>2 DEF Live, Entry
      <4>. QED  BY <3>1, <4>1
    <3>5. heap' \in SUBSET Entries(merges') /\ \A p \in AllPairs(words') : Entry(Occurrences(words', p), p) \in heap'
      BY <3>1, <3>2, <3>3, <3>4
    <3>6. HeapComplete'
      BY <3>3, <3>5 DEF HeapComplete, Entries, Tokens, AllPairs, Occurrences
    <3>7. (job \in Jobs /\ IsMerges(merges) /\ IsCorpus(words, merges) /\ PairsCounted /\ WhereComplete)'
      BY <3>1 DEF LearnInv, IsMerges, IsCorpus, PairsCounted, AllPairs, Occurrences, WhereComplete
    <3>. QED  BY <3>6, <3>7 DEF LearnInv
  <2>2. CASE PopLive
    BY <2>2, PopLiveKeeps
  <2>3. CASE UNCHANGED <<job, words, pairs, where, heap, merges>>
    <3>1. job' = job /\ merges' = merges /\ words' = words /\ pairs' = pairs /\ where' = where /\ heap' = heap
      BY <2>3
    <3>2. (job \in Jobs /\ IsMerges(merges) /\ IsCorpus(words, merges) /\ PairsCounted /\ WhereComplete)'
      BY <3>1 DEF LearnInv, IsMerges, IsCorpus, PairsCounted, AllPairs, Occurrences, WhereComplete
    <3>3. HeapComplete'
      BY <3>1 DEF LearnInv, HeapComplete, Entries, Tokens, AllPairs, Occurrences
    <3>. QED  BY <3>2, <3>3 DEF LearnInv
  <2>4. PopStale \/ PopLive \/ UNCHANGED <<job, words, pairs, where, heap, merges>>
    <3>1. CASE Next
      BY <3>1 DEF Next, Learned, EncodeSpecial, EncodeByte, EncodeHit, EncodeMiss, Encoded
    <3>2. CASE UNCHANGED vars
      BY <3>2 DEF vars
    <3>. QED  BY <3>1, <3>2
  <2>. QED  BY <2>1, <2>2, <2>3, <2>4
<1>. QED  BY <1>1, <1>2, PTL DEF Spec

\* Every merge learn_merges takes is of the most frequent pair of the corpus as it then
\* is, ties settled by HeapLower, whatever out-of-date entries the heap holds.
THEOREM LearningIsGreedy == Spec => GreedyChoice
<1> DEFINE Greedy == /\ pc = "learn" /\ merges' # merges => TakesTheBest
                     /\ pc = "learn" /\ pc' = "encode" => (Len(merges) = job.merges \/ AllPairs(words) = {})
<1>1. LearnInv /\ [Next]_vars => Greedy \/ UNCHANGED vars
  <2> SUFFICES ASSUME LearnInv, Next PROVE Greedy
    OBVIOUS
  <2>1. ASSUME pc = "learn", merges' # merges PROVE TakesTheBest
    <3>1. PopLive
      BY <2>1 DEF Next, PopStale, Learned, EncodeSpecial, EncodeByte, EncodeHit, EncodeMiss, Encoded
    <3>2. heap # {} /\ Live(Top) /\ merges' = Append(merges, Top.pair)
      BY <3>1, PopLiveIs DEF Learning
    <3>3. Top = Entry(Occurrences(words, Top.pair), Top.pair) /\ IsNext(merges, Top.pair) /\ IsMerges(merges)
      BY <3>2, LiveTop DEF LearnInv
    <3>4. merges'[Len(merges')] = Top.pair
      <4>1. merges \in Seq(Nat \X Nat) /\ Top.pair \in Nat \X Nat
        BY <3>3, MergesGrow DEF IsMerges
      <4>2. Len(Append(merges, Top.pair)) = Len(merges) + 1 /\ Append(merges, Top.pair)[Len(merges) + 1] = Top.pair
        BY <4>1, AppendProperties
      <4>. QED  BY <3>2, <4>2
    <3>5. \A y \in heap \ {Top} : Sooner(Top, y)
      BY <3>2, TopIs DEF LearnInv, HeapComplete
    <3>6. ASSUME NEW q \in AllPairs(words) \ {Top.pair}
          PROVE  Sooner(Entry(Occurrences(words, Top.pair), Top.pair), Entry(Occurrences(words, q), q))
      <4>1. Entry(Occurrences(words, q), q) \in heap
        BY DEF LearnInv, HeapComplete
      <4>2. Entry(Occurrences(words, q), q).pair = q
        BY DEF Entry
      <4>3. Entry(Occurrences(words, q), q) # Top
        BY <4>2
      <4>4. Sooner(Top, Entry(Occurrences(words, q), q))
        BY <3>5, <4>1, <4>3
      <4>. QED  BY <3>3, <4>4
    <3>. QED  BY <3>4, <3>6 DEF TakesTheBest
  <2>2. ASSUME pc = "learn", pc' = "encode" PROVE Len(merges) = job.merges \/ AllPairs(words) = {}
    <3>1. Learned
      BY <2>2 DEF Next, PopStale, PopLive, EncodeSpecial, EncodeByte, EncodeHit, EncodeMiss, Encoded
    <3>2. Len(merges) = job.merges \/ heap = {}
      BY <3>1 DEF Learned
    <3>3. heap = {} => AllPairs(words) = {}
      BY DEF LearnInv, HeapComplete
    <3>. QED  BY <3>2, <3>3
  <2>. QED  BY <2>1, <2>2
<1>2. Spec => []LearnInv
  BY LearningIsTrue
<1>. QED  BY <1>1, <1>2, PTL DEF Spec, GreedyChoice

\* A word of the corpus encodes, by the scan, to the symbols training left it with.
ScanFollowsTraining == \A w \in DOMAIN words : Scan(merges, w) = words[w].symbols

\* A word of the corpus encodes, by the scan of encode_piece, to the symbols training
\* left it with, at every point of the training.
THEOREM ScanAgrees == Spec => []ScanFollowsTraining
<1>1. LearnInv => ScanFollowsTraining
  BY DEF LearnInv, IsCorpus, ScanFollowsTraining
<1>. QED  BY <1>1, LearningIsTrue, PTL
-----------------------------------------------------------------------------
(* The matcher ends every piece where the pattern does.                    *)

\* r is the code point before at: what ends a run so far is at, r or before r.
BeforeEnd(text, cls, p, at, ends, r) ==
  /\ r \in {p} \cup ends /\ r < at /\ at \in ends
  /\ ends \subseteq ((p + 1)..r) \cup {at}
  /\ \A q \in {p} \cup ends : q < r => After(text, q) <= r
  /\ \A q \in ({p} \cup ends) \ {at} : In(text, q, {cls}) /\ After(text, q) \in ends

\* The ends a run can reach are those of its code points, the furthest where it ends.
LEMMA EndsAre ==
  ASSUME NEW text \in Seq(Byte), NEW cls, NEW p \in 1..(Len(text) + 1)
  PROVE  LET E == Ends(text, p, {cls})
             e == RunEnd(text, p, cls)
         IN  /\ ~ In(text, p, {cls}) => E = {}
             /\ In(text, p, {cls}) => \E r \in Nat : BeforeEnd(text, cls, p, e, E, r)
<1> DEFINE n == Len(text)
           step == EndsStep(text, {cls})
           e == RunEnd(text, p, cls)
           I == {s \in [at : p..(n + 1), ends : SUBSET Nat] :
                   /\ RunEnd(text, s.at, cls) = e
                   /\ (s.at = p /\ s.ends = {}) \/ \E r \in Nat : BeforeEnd(text, cls, p, s.at, s.ends, r)}
           x == [at |-> p, ends |-> {}]
           m == [s \in I |-> n + 1 - s.at]
           z == Repeat(step, n, x)
<1>0. n \in Nat /\ p \in Nat /\ p >= 1 /\ p <= n + 1
  BY LenProperties
<1>1. Ends(text, p, {cls}) = z.ends
  BY DEF Ends
<1>2. x \in I
  <2>1. x \in [at : p..(n + 1), ends : SUBSET Nat]
    BY <1>0
  <2>. QED  BY <2>1
<1>3. ASSUME NEW s \in I
      PROVE  /\ s.at \in 1..(n + 1) /\ s.at \in p..(n + 1)
             /\ ~ In(text, s.at, {cls}) => step[s] = s
             /\ In(text, s.at, {cls}) => step[s] \in I /\ step[s].at > s.at
  <2>1. /\ s.at \in p..(n + 1) /\ s.ends \in SUBSET Nat /\ s = [at |-> s.at, ends |-> s.ends]
        /\ RunEnd(text, s.at, cls) = e
        /\ (s.at = p /\ s.ends = {}) \/ \E r \in Nat : BeforeEnd(text, cls, p, s.at, s.ends, r)
    OBVIOUS
  <2>2. s.at \in 1..(n + 1) /\ s.at \in Nat
    BY <1>0, <2>1
  <2> DEFINE a == After(text, s.at)
  <2>3. step[s] = IF In(text, s.at, {cls}) THEN [at |-> a, ends |-> s.ends \cup {a}] ELSE s
    <3>1. s \in [at : Nat, ends : SUBSET Nat]
      BY <2>1, <2>2
    <3>. QED  BY <3>1, Zenon DEF EndsStep
  <2>4. ASSUME In(text, s.at, {cls}) PROVE step[s] \in I /\ step[s].at > s.at
    <3>1. s.at \in 1..n
      BY <2>2, <2>4, InIs
    <3>2. a \in (s.at + 1)..(n + 1)
      BY <3>1, AfterIs
    <3>3. a \in p..(n + 1) /\ a \in Nat /\ a > s.at
      BY <1>0, <2>1, <2>2, <3>2
    <3>4. RunEnd(text, a, cls) = e
      BY <2>1, <2>2, <2>4, RunEndOn
    <3>5. BeforeEnd(text, cls, p, a, s.ends \cup {a}, s.at)
      <4> DEFINE at == s.at
                 ends == s.ends
                 more == s.ends \cup {a}
      <4>1. CASE at = p /\ ends = {}
        <5>1. more = {a} /\ {p} \cup more = {p, a} /\ ({p} \cup more) \ {a} = {p}
          BY <3>3, <4>1
        <5>2. \A q \in {p, a} : ~ (q < at)
          BY <4>1, <3>3, <2>2
        <5>3. In(text, p, {cls}) /\ After(text, p) = a
          BY <2>4, <4>1
        <5> HIDE DEF a, at, ends, more
        <5>. QED  BY <3>3, <4>1, <5>1, <5>2, <5>3 DEF BeforeEnd, at, more
      <4>2. CASE \E r \in Nat : BeforeEnd(text, cls, p, at, ends, r)
        <5>1. PICK r \in Nat : BeforeEnd(text, cls, p, at, ends, r)
          BY <4>2
        <5> HIDE DEF at, ends
        <5>2. /\ r \in {p} \cup ends /\ r < at /\ at \in ends /\ ends \subseteq ((p + 1)..r) \cup {at}
              /\ \A q \in {p} \cup ends : q < r => After(text, q) <= r
              /\ \A q \in ({p} \cup ends) \ {at} : In(text, q, {cls}) /\ After(text, q) \in ends
          BY <5>1 DEF BeforeEnd
        <5>3. In(text, at, {cls}) /\ After(text, at) = a /\ at \in Nat /\ a \in Nat /\ a > at /\ at \in p..(n + 1)
          BY <2>1, <2>2, <2>4, <3>3 DEF at
        <5>4. more = ends \cup {a}
          BY DEF ends
        <5> HIDE DEF a, more
        <5>5. more \subseteq ((p + 1)..at) \cup {a}
          <6>1. at \in (p + 1)..at
            <7>1. r >= p
              BY <5>2, <1>0
            <7>. QED  BY <1>0, <5>2, <5>3, <7>1
          <6>2. ((p + 1)..r) \subseteq ((p + 1)..at)
            BY <5>2, <5>3, <1>0
          <6>. QED  BY <5>2, <5>4, <6>1, <6>2
        <5>6. \A q \in {p} \cup more : q < at => After(text, q) <= at
          <6> TAKE q \in {p} \cup more
          <6> SUFFICES ASSUME q < at PROVE After(text, q) <= at
            OBVIOUS
          <6>1. q \in {p} \cup ends /\ q # at
            BY <5>3, <5>4
          <6>2. After(text, q) \in ends
            BY <5>2, <6>1
          <6>3. ((p + 1)..r) \cup {at} \subseteq 0..at
            BY <1>0, <5>2, <5>3
          <6>4. After(text, q) \in 0..at
            BY ONLY <5>2, <6>2, <6>3
          <6>. QED  BY <5>3, <6>4
        <5>7. \A q \in ({p} \cup more) \ {a} : In(text, q, {cls}) /\ After(text, q) \in more
          <6> TAKE q \in ({p} \cup more) \ {a}
          <6>1. CASE q = at
            BY <5>3, <5>4, <6>1
          <6>2. CASE q # at
            BY <5>2, <5>4, <6>2
          <6>. QED  BY <6>1, <6>2
        <5>8. at \in {p} \cup more /\ a \in more
          BY <5>2, <5>4
        <5>9. BeforeEnd(text, cls, p, a, more, at)
          BY <5>3, <5>5, <5>6, <5>7, <5>8 DEF BeforeEnd
        <5>. QED  BY <5>9 DEF at, more
      <4>. QED  BY <2>1, <4>1, <4>2
    <3>6. step[s] = [at |-> a, ends |-> s.ends \cup {a}]
      BY <2>3, <2>4
    <3>7. s.ends \cup {a} \in SUBSET Nat
      BY <2>1, <3>3
    <3> HIDE DEF step, a, e
    <3>8. step[s].at = a /\ step[s].ends = s.ends \cup {a}
      BY ONLY <3>6
    <3>9. step[s] \in [at : p..(n + 1), ends : SUBSET Nat]
      BY <3>3, <3>6, <3>7
    <3>10. \E r \in Nat : BeforeEnd(text, cls, p, step[s].at, step[s].ends, r)
      BY <2>2, <3>5, <3>8
    <3>11. RunEnd(text, step[s].at, cls) = e
      BY <3>4, <3>8
    <3>. QED  BY <3>3, <3>8, <3>9, <3>10, <3>11
  <2> HIDE DEF step
  <2>. QED  BY <2>1, <2>2, <2>3, <2>4
<1>4. z \in I /\ step[z] = z
  <2>1. m \in [I -> Nat]
    <3>1. ASSUME NEW s \in I PROVE n + 1 - s.at \in Nat
      <4>1. s.at \in 1..(n + 1)
        BY <1>3
      <4> HIDE DEF I, n
      <4>. QED  BY <1>0, <4>1
    <3>. QED  BY <3>1
  <2>2. m[x] <= n
    <3>1. m[x] = n + 1 - p
      BY <1>2
    <3>. QED  BY <1>0, <3>1
  <2>3. ASSUME NEW s \in I PROVE step[s] \in I /\ (step[s] = s \/ m[step[s]] < m[s])
    <3>1. CASE ~ In(text, s.at, {cls})
      BY <1>3, <3>1
    <3>2. CASE In(text, s.at, {cls})
      <4>1. step[s] \in I /\ step[s].at > s.at
        BY <1>3, <3>2
      <4>2. s.at \in 1..(n + 1) /\ step[s].at \in 1..(n + 1)
        BY <1>3, <4>1
      <4>3. m[s] = n + 1 - s.at /\ m[step[s]] = n + 1 - step[s].at
        BY <4>1
      <4> HIDE DEF m, step, n, I
      <4>. QED  BY <1>0, <4>1, <4>2, <4>3
    <3>. QED  BY <3>1, <3>2
  <2> HIDE DEF m, step, n, I, x
  <2>4. \A s \in I : step[s] \in I /\ (step[s] = s \/ m[step[s]] < m[s])
    BY <2>3
  <2>5. Repeat(step, n, x) \in I
    BY ONLY <1>0, <1>2, <2>1, <2>2, <2>4, RepeatStops
  <2>6. step[Repeat(step, n, x)] = Repeat(step, n, x)
    BY ONLY <1>0, <1>2, <2>1, <2>2, <2>4, RepeatIsThrough
  <2>. QED  BY <2>5, <2>6
<1> HIDE DEF z
<1>5. ~ In(text, z.at, {cls}) /\ z.at \in 1..(n + 1)
  <2>1. z.at \in 1..(n + 1)
    BY <1>3, <1>4
  <2>2. In(text, z.at, {cls}) => z.at > z.at
    BY <1>3, <1>4
  <2>3. ~ (z.at > z.at)
    BY <2>1
  <2>. QED  BY <2>1, <2>2, <2>3
<1>6. z.at = e
  <2>1. RunEnd(text, z.at, cls) = z.at
    BY <1>5, RunEndIs
  <2>. QED  BY <1>4, <2>1
<1>7. ASSUME ~ In(text, p, {cls}) PROVE Ends(text, p, {cls}) = {}
  <2>1. step[x] = x
    BY <1>2, <1>3, <1>7
  <2> HIDE DEF step, x, n
  <2>2. z = x
    BY <1>0, <2>1, RepeatStays DEF z
  <2>. QED  BY <1>1, <2>2 DEF x
<1>8. ASSUME In(text, p, {cls}) PROVE \E r \in Nat : BeforeEnd(text, cls, p, e, Ends(text, p, {cls}), r)
  <2>1. z.at # p
    BY <1>5, <1>8
  <2>2. \E r \in Nat : BeforeEnd(text, cls, p, z.at, z.ends, r)
    BY <1>4, <2>1
  <2>. QED  BY <1>1, <1>6, <2>2
<1>. QED  BY <1>7, <1>8

\* What the runs of a class can end with: nothing, or the end of the longest.
LEMMA EndsOfRun ==
  ASSUME NEW text \in Seq(Byte), NEW cls, NEW p \in 1..(Len(text) + 1)
  PROVE  LET E == Ends(text, p, {cls})
             e == RunEnd(text, p, cls)
         IN  /\ E \subseteq Nat
             /\ ~ In(text, p, {cls}) => E = {}
             /\ In(text, p, {cls}) => e \in E /\ (\A q \in E : q <= e)
<1> DEFINE E == Ends(text, p, {cls})
           e == RunEnd(text, p, cls)
<1>0. e \in Nat /\ p \in Nat
  <2>1. e \in p..(Len(text) + 1) /\ Len(text) \in Nat
    BY RunEndIs, LenProperties
  <2>. QED  BY <2>1
<1>1. CASE ~ In(text, p, {cls})
  <2>1. E = {}
    BY <1>1, EndsAre
  <2>. QED  BY <1>1, <2>1
<1>2. CASE In(text, p, {cls})
  <2>1. PICK r \in Nat : BeforeEnd(text, cls, p, e, E, r)
    BY <1>2, EndsAre
  <2> HIDE DEF E, e
  <2>2. r < e /\ e \in E /\ E \subseteq ((p + 1)..r) \cup {e}
    BY <2>1 DEF BeforeEnd
  <2>3. ((p + 1)..r) \cup {e} \subseteq 0..e
    BY <1>0, <2>2
  <2>4. E \subseteq Nat /\ e \in E /\ \A q \in E : q <= e
    BY <1>0, <2>2, <2>3
  <2>. QED  BY <1>2, <2>4 DEF E, e
<1>. QED  BY <1>1, <1>2

\* LastOfRun is the last whitespace a run can end before.
LEMMA LastBefore ==
  ASSUME NEW text \in Seq(Byte), NEW p \in 1..Len(text), In(text, p, {"space"})
  PROVE  LET E == Ends(text, p, {"space"})
             e == RunEnd(text, p, "space")
             z == LastOfRun(text, p)
         IN  /\ z \in Nat /\ z >= p /\ z < e /\ After(text, z) = e /\ z \in {p} \cup E
             /\ E \subseteq ((p + 1)..z) \cup {e} /\ e \in E
             /\ \A q \in E \ {e} : In(text, q, {"space"})
             /\ p < z => After(text, p) <= z
<1> DEFINE E == Ends(text, p, {"space"})
           e == RunEnd(text, p, "space")
           step == LastStep(text)
           n == Len(text)
           z == Repeat(step, n, p)
           J == ({p} \cup E) \ {e}
<1>0. n \in Nat /\ p \in 1..(n + 1) /\ p \in Nat
  BY LenProperties
<1>1. PICK r \in Nat : BeforeEnd(text, "space", p, e, E, r)
  BY <1>0, EndsAre
<1>2. /\ r \in {p} \cup E /\ r < e /\ e \in E /\ E \subseteq ((p + 1)..r) \cup {e}
      /\ \A q \in {p} \cup E : q < r => After(text, q) <= r
      /\ \A q \in J : In(text, q, {"space"}) /\ After(text, q) \in E
  BY <1>1 DEF BeforeEnd
<1>3. e \in p..(n + 1) /\ ~ In(text, e, {"space"})
  BY <1>0, RunEndIs
<1>4. LastOfRun(text, p) = z
  BY DEF LastOfRun
<1>5. z \in p..n /\ In(text, z, {"space"}) /\ After(text, z) = e
  BY <1>4, LastOfRunIs
<1> HIDE DEF e, E
<1>6. z \in J
  <2>1. p \in J
    BY <1>3
  <2>2. ASSUME NEW q \in J PROVE step[q] \in J
    <3>1. q \in Nat
      BY <1>0, <1>2
    <3>2. step[q] = IF In(text, After(text, q), {"space"}) THEN After(text, q) ELSE q
      BY <3>1 DEF LastStep
    <3>3. After(text, q) \in E
      BY <1>2
    <3>. QED  BY <1>3, <3>2, <3>3
  <2> HIDE DEF J, step, n
  <2>. QED  BY <1>0, <2>1, <2>2, RepeatKeeps
<1>7. z = r
  <2>1. z \in Nat /\ z >= p /\ z # e /\ (z = p \/ z \in E)
    BY <1>0, <1>5, <1>6
  <2> HIDE DEF z, J
  <2>2. r >= p
    BY <1>0, <1>2
  <2>3. z <= r
    BY <1>0, <1>2, <2>1, <2>2
  <2>4. ~ (z < r)
    <3> SUFFICES ASSUME z < r PROVE FALSE
      OBVIOUS
    <3>1. After(text, z) <= r
      BY <1>2, <2>1
    <3>2. e \in Nat
      BY <1>0, <1>3
    <3>. QED  BY <1>2, <1>5, <3>1, <3>2
  <2>. QED  BY <2>1, <2>3, <2>4
<1>8. /\ z \in Nat /\ z >= p /\ z < e /\ After(text, z) = e /\ z \in {p} \cup E
      /\ E \subseteq ((p + 1)..z) \cup {e} /\ e \in E
  <2> HIDE DEF z
  <2>1. z \in Nat /\ z >= p
    BY <1>0, <1>5
  <2>. QED  BY <1>2, <1>5, <1>7, <2>1
<1>9. \A q \in E \ {e} : In(text, q, {"space"})
  BY <1>2
<1>10. p < z => After(text, p) <= z
  BY <1>2, <1>7
<1> HIDE DEF z
<1>. QED  BY <1>4, <1>8, <1>9, <1>10 DEF E, e

Contractions == {<<39, 115>>, <<39, 116>>, <<39, 114, 101>>, <<39, 118, 101>>, <<39, 109>>, <<39, 108, 108>>, <<39, 100>>}
WordAt(text, p, s) == p + Len(s) - 1 <= Len(text) /\ SubSeq(text, p, p + Len(s) - 1) = s

\* A word occurs at p if its elements do.
LEMMA WordIsAt ==
  ASSUME NEW text \in Seq(Byte), NEW p \in 1..Len(text), NEW s \in Seq(Byte), Len(s) > 0
  PROVE  WordAt(text, p, s) <=> p + Len(s) - 1 <= Len(text) /\ \A j \in 1..Len(s) : text[p + j - 1] = s[j]
<1> DEFINE n == Len(text)
           k == Len(s)
           c == SubSeq(text, p, p + k - 1)
<1>0. n \in Nat /\ k \in Nat /\ k > 0 /\ \A j \in 1..n : text[j] \in Byte
  BY LenProperties, ElementOfSeq
<1>1. ASSUME p + k - 1 <= n PROVE c \in Seq(Byte) /\ Len(c) = k /\ \A j \in 1..k : c[j] = text[p + j - 1]
  <2> HIDE DEF n, k
  <2>1. p \in Int /\ p + k - 1 \in Int /\ \A j \in p..(p + k - 1) : text[j] \in Byte
    BY <1>0, <1>1
  <2>2. p <= p + k - 1 /\ (p + k - 1) - p + 1 = k
    BY <1>0
  <2>3. /\ c \in Seq(Byte) /\ Len(c) = (IF p <= p + k - 1 THEN (p + k - 1) - p + 1 ELSE 0)
        /\ \A j \in 1..((p + k - 1) - p + 1) : c[j] = text[p + j - 1]
    BY <2>1, SubSeqProperties
  <2> HIDE DEF c
  <2>. QED  BY <2>2, <2>3
<1> HIDE DEF c
<1>2. ASSUME p + k - 1 <= n PROVE c = s <=> \A j \in 1..k : text[p + j - 1] = s[j]
  <2>1. c \in Seq(Byte) /\ Len(c) = Len(s) /\ \A j \in 1..Len(s) : c[j] = text[p + j - 1]
    BY <1>1, <1>2
  <2>2. (\A j \in 1..k : text[p + j - 1] = s[j]) => c = s
    <3> SUFFICES ASSUME \A j \in 1..k : text[p + j - 1] = s[j] PROVE c = s
      OBVIOUS
    <3>1. \A j \in 1..Len(c) : c[j] = s[j]
      BY <2>1
    <3>. QED  BY <2>1, <3>1, SeqEqual
  <2>3. c = s => \A j \in 1..k : text[p + j - 1] = s[j]
    BY <2>1
  <2>. QED  BY <2>2, <2>3
<1>. QED  BY <1>2 DEF WordAt, c

\* Two bytes at a place.
LEMMA TwoAt ==
  ASSUME NEW text \in Seq(Byte), NEW p \in 1..Len(text), NEW a \in Byte, NEW b \in Byte
  PROVE  WordAt(text, p, <<a, b>>) <=> p + 1 <= Len(text) /\ text[p] = a /\ text[p + 1] = b
<1> DEFINE s == <<a, b>>
<1>1. s \in Seq(Byte) /\ Len(s) = 2 /\ s[1] = a /\ s[2] = b
  OBVIOUS
<1> HIDE DEF s
<1>2. WordAt(text, p, s) <=> p + 2 - 1 <= Len(text) /\ \A j \in 1..2 : text[p + j - 1] = s[j]
  <2>1. WordAt(text, p, s) <=> p + Len(s) - 1 <= Len(text) /\ \A j \in 1..Len(s) : text[p + j - 1] = s[j]
    <3>1. s \in Seq(Byte) /\ Len(s) > 0
      BY <1>1
    <3>. QED  BY <3>1, WordIsAt
  <2>. QED  BY <1>1, <2>1
<1>3. (\A j \in 1..2 : text[p + j - 1] = s[j]) <=> text[p] = a /\ text[p + 1] = b
  <2>1. p \in Nat /\ p + 1 - 1 = p /\ p + 2 - 1 = p + 1
    OBVIOUS
  <2>2. \A j \in 1..2 : j = 1 \/ j = 2
    OBVIOUS
  <2>3. (\A j \in 1..2 : text[p + j - 1] = s[j]) <=> (text[p + 1 - 1] = s[1] /\ text[p + 2 - 1] = s[2])
    <3>1. ASSUME \A j \in 1..2 : text[p + j - 1] = s[j] PROVE text[p + 1 - 1] = s[1] /\ text[p + 2 - 1] = s[2]
      <4>1. 1 \in 1..2 /\ 2 \in 1..2
        OBVIOUS
      <4>. QED  BY <3>1, <4>1, Zenon
    <3>2. ASSUME text[p + 1 - 1] = s[1] /\ text[p + 2 - 1] = s[2] PROVE \A j \in 1..2 : text[p + j - 1] = s[j]
      BY <2>2, <3>2, Zenon
    <3>. QED  BY <3>1, <3>2, Zenon
  <2>. QED  BY <1>1, <2>1, <2>3, Zenon
<1>4. p + 2 - 1 = p + 1
  OBVIOUS
<1>. QED  BY <1>2, <1>3, <1>4 DEF s

\* Three bytes at a place.
LEMMA ThreeAt ==
  ASSUME NEW text \in Seq(Byte), NEW p \in 1..Len(text), NEW a \in Byte, NEW b \in Byte, NEW c \in Byte
  PROVE  WordAt(text, p, <<a, b, c>>) <=>
           p + 2 <= Len(text) /\ text[p] = a /\ text[p + 1] = b /\ text[p + 2] = c
<1> DEFINE s == <<a, b, c>>
<1>1. s \in Seq(Byte) /\ Len(s) = 3 /\ s[1] = a /\ s[2] = b /\ s[3] = c
  OBVIOUS
<1> HIDE DEF s
<1>2. WordAt(text, p, s) <=> p + 3 - 1 <= Len(text) /\ \A j \in 1..3 : text[p + j - 1] = s[j]
  <2>1. WordAt(text, p, s) <=> p + Len(s) - 1 <= Len(text) /\ \A j \in 1..Len(s) : text[p + j - 1] = s[j]
    <3>1. s \in Seq(Byte) /\ Len(s) > 0
      BY <1>1
    <3>. QED  BY <3>1, WordIsAt
  <2>. QED  BY <1>1, <2>1
<1>3. (\A j \in 1..3 : text[p + j - 1] = s[j]) <=> text[p] = a /\ text[p + 1] = b /\ text[p + 2] = c
  <2>1. p \in Nat /\ p + 1 - 1 = p /\ p + 2 - 1 = p + 1 /\ p + 3 - 1 = p + 2
    OBVIOUS
  <2>2. \A j \in 1..3 : j = 1 \/ j = 2 \/ j = 3
    OBVIOUS
  <2>3. (\A j \in 1..3 : text[p + j - 1] = s[j]) <=> (text[p + 1 - 1] = s[1] /\ text[p + 2 - 1] = s[2] /\ text[p + 3 - 1] = s[3])
    <3>1. ASSUME \A j \in 1..3 : text[p + j - 1] = s[j] PROVE text[p + 1 - 1] = s[1] /\ text[p + 2 - 1] = s[2] /\ text[p + 3 - 1] = s[3]
      <4>1. 1 \in 1..3 /\ 2 \in 1..3 /\ 3 \in 1..3
        OBVIOUS
      <4>. QED  BY <3>1, <4>1, Zenon
    <3>2. ASSUME text[p + 1 - 1] = s[1] /\ text[p + 2 - 1] = s[2] /\ text[p + 3 - 1] = s[3] PROVE \A j \in 1..3 : text[p + j - 1] = s[j]
      BY <2>2, <3>2, Zenon
    <3>. QED  BY <3>1, <3>2, Zenon
  <2>. QED  BY <1>1, <2>1, <2>3, Zenon
<1>4. p + 3 - 1 = p + 2
  OBVIOUS
<1>. QED  BY <1>2, <1>3, <1>4 DEF s

\* The contractions of the pattern are those of the matcher.
LEMMA ContractionsMatch ==
  ASSUME NEW text \in Seq(Byte), NEW p \in 1..Len(text)
  PROVE  {p + Len(s) : s \in {t \in Contractions : WordAt(text, p, t)}} =
           IF Contraction(text, p) > 0 THEN {p + Contraction(text, p)} ELSE {}
<1> DEFINE at(k) == IF p + k <= Len(text) THEN text[p + k] ELSE 0
           a0 == at(0)
           a1 == at(1)
           a2 == at(2)
           C == Contraction(text, p)
           W == {t \in Contractions : WordAt(text, p, t)}
           E == {p + Len(s) : s \in W}
<1>0. Len(text) \in Nat /\ p \in Nat
  BY LenProperties
<1>1. C = IF a0 = 39 /\ a1 \in {115, 116, 109, 100} THEN 2
          ELSE IF a0 = 39 /\ <<a1, a2>> \in {<<114, 101>>, <<118, 101>>, <<108, 108>>} THEN 3 ELSE 0
  BY Zenon DEF Contraction
<1>2. \A k \in Byte : k \in Nat
  BY DEF Byte
<1>3. ASSUME NEW b \in Byte, b # 0 PROVE WordAt(text, p, <<39, b>>) <=> a0 = 39 /\ a1 = b
  <2>1. 39 \in Byte
    BY DEF Byte
  <2>2. WordAt(text, p, <<39, b>>) <=> p + 1 <= Len(text) /\ text[p] = 39 /\ text[p + 1] = b
    BY <2>1, TwoAt
  <2>3. p + 0 = p
    OBVIOUS
  <2>. QED  BY <1>0, <1>3, <2>2, <2>3
<1>4. ASSUME NEW b \in Byte, NEW c \in Byte, b # 0, c # 0
      PROVE WordAt(text, p, <<39, b, c>>) <=> a0 = 39 /\ a1 = b /\ a2 = c
  <2>1. 39 \in Byte
    BY DEF Byte
  <2>2. WordAt(text, p, <<39, b, c>>) <=> p + 2 <= Len(text) /\ text[p] = 39 /\ text[p + 1] = b /\ text[p + 2] = c
    BY <2>1, ThreeAt
  <2>3. p + 0 = p
    OBVIOUS
  <2>4. p + 2 <= Len(text) => p + 1 <= Len(text)
    BY <1>0
  <2>. QED  BY <1>0, <1>4, <2>2, <2>3, <2>4
<1> DEFINE two == a1 \in {115, 116, 109, 100}
           three == <<a1, a2>> \in {<<114, 101>>, <<118, 101>>, <<108, 108>>}
           is(s) == WordAt(text, p, s)
<1>5. /\ is(<<39, 115>>) <=> a0 = 39 /\ a1 = 115
      /\ is(<<39, 116>>) <=> a0 = 39 /\ a1 = 116
      /\ is(<<39, 109>>) <=> a0 = 39 /\ a1 = 109
      /\ is(<<39, 100>>) <=> a0 = 39 /\ a1 = 100
  <2>1. {115, 116, 109, 100} \subseteq Byte \ {0}
    BY DEF Byte
  <2> HIDE DEF a0, a1, a2
  <2>2. ASSUME NEW b \in Byte \ {0} PROVE is(<<39, b>>) <=> a0 = 39 /\ a1 = b
    BY <1>3
  <2>3. 115 \in Byte \ {0} /\ 116 \in Byte \ {0} /\ 109 \in Byte \ {0} /\ 100 \in Byte \ {0}
    BY <2>1
  <2>4. is(<<39, 115>>) <=> a0 = 39 /\ a1 = 115
    BY ONLY <2>2, <2>3
  <2>5. is(<<39, 116>>) <=> a0 = 39 /\ a1 = 116
    BY ONLY <2>2, <2>3
  <2>6. is(<<39, 109>>) <=> a0 = 39 /\ a1 = 109
    BY ONLY <2>2, <2>3
  <2>7. is(<<39, 100>>) <=> a0 = 39 /\ a1 = 100
    BY ONLY <2>2, <2>3
  <2>. QED  BY <2>4, <2>5, <2>6, <2>7
<1>6. /\ is(<<39, 114, 101>>) <=> a0 = 39 /\ a1 = 114 /\ a2 = 101
      /\ is(<<39, 118, 101>>) <=> a0 = 39 /\ a1 = 118 /\ a2 = 101
      /\ is(<<39, 108, 108>>) <=> a0 = 39 /\ a1 = 108 /\ a2 = 108
  <2>1. {114, 118, 108, 101} \subseteq Byte \ {0}
    BY DEF Byte
  <2> HIDE DEF a0, a1, a2
  <2>2. ASSUME NEW b \in Byte \ {0}, NEW c \in Byte \ {0}
        PROVE  is(<<39, b, c>>) <=> a0 = 39 /\ a1 = b /\ a2 = c
    BY <1>4
  <2>3. 114 \in Byte \ {0} /\ 118 \in Byte \ {0} /\ 108 \in Byte \ {0} /\ 101 \in Byte \ {0}
    BY <2>1
  <2>4. is(<<39, 114, 101>>) <=> a0 = 39 /\ a1 = 114 /\ a2 = 101
    BY ONLY <2>2, <2>3
  <2>5. is(<<39, 118, 101>>) <=> a0 = 39 /\ a1 = 118 /\ a2 = 101
    BY ONLY <2>2, <2>3
  <2>6. is(<<39, 108, 108>>) <=> a0 = 39 /\ a1 = 108 /\ a2 = 108
    BY ONLY <2>2, <2>3
  <2>. QED  BY <2>4, <2>5, <2>6
<1> HIDE DEF a0, a1, a2, at, C
<1>7. three <=> (a1 = 114 /\ a2 = 101) \/ (a1 = 118 /\ a2 = 101) \/ (a1 = 108 /\ a2 = 108)
  <2>1. \A x, y, u, v : <<x, y>> = <<u, v>> <=> x = u /\ y = v
    OBVIOUS
  <2>. QED  BY <2>1, Zenon
<1>8. C = IF a0 = 39 /\ two THEN 2 ELSE IF a0 = 39 /\ three THEN 3 ELSE 0
  BY <1>1
<1>9. two => ~ three
  BY <1>7
<1>10. /\ Len(<<39, 115>>) = 2 /\ Len(<<39, 116>>) = 2 /\ Len(<<39, 109>>) = 2 /\ Len(<<39, 100>>) = 2
       /\ Len(<<39, 114, 101>>) = 3 /\ Len(<<39, 118, 101>>) = 3 /\ Len(<<39, 108, 108>>) = 3
  OBVIOUS
<1> DEFINE w1 == <<39, 115>>
           w2 == <<39, 116>>
           w3 == <<39, 109>>
           w4 == <<39, 100>>
           w5 == <<39, 114, 101>>
           w6 == <<39, 118, 101>>
           w7 == <<39, 108, 108>>
           Twos == {w1, w2, w3, w4}
           Threes == {w5, w6, w7}
<1>11. Contractions = Twos \cup Threes
  BY Zenon DEF Contractions
<1>12. /\ (a0 = 39 /\ two) <=> is(w1) \/ is(w2) \/ is(w3) \/ is(w4)
       /\ (a0 = 39 /\ three) <=> is(w5) \/ is(w6) \/ is(w7)
  <2>1. two <=> a1 = 115 \/ a1 = 116 \/ a1 = 109 \/ a1 = 100
    BY Zenon DEF two
  <2> HIDE DEF two, three
  <2>. QED  BY ONLY <1>5, <1>6, <1>7, <2>1
<1>13. (\A t \in Twos : Len(t) = 2) /\ \A t \in Threes : Len(t) = 3
  BY <1>10
<1> HIDE DEF two, three, w1, w2, w3, w4, w5, w6, w7
<1>14. /\ (\E t \in Twos : is(t)) <=> a0 = 39 /\ two
       /\ (\E t \in Threes : is(t)) <=> a0 = 39 /\ three
  BY <1>12, Zenon
<1> HIDE DEF Twos, Threes
<1>15. \A x : x \in E <=> \E t \in Twos \cup Threes : is(t) /\ x = p + Len(t)
  BY <1>11, Zenon
<1> HIDE DEF E, is
<1>16. ASSUME NEW x PROVE x \in E <=> (x = p + 2 /\ a0 = 39 /\ two) \/ (x = p + 3 /\ a0 = 39 /\ three)
  <2>1. ASSUME x \in E PROVE (x = p + 2 /\ a0 = 39 /\ two) \/ (x = p + 3 /\ a0 = 39 /\ three)
    <3>1. PICK t \in Twos \cup Threes : is(t) /\ x = p + Len(t)
      BY <1>15, <2>1
    <3>2. CASE t \in Twos
      BY <1>13, <1>14, <3>1, <3>2, Zenon
    <3>3. CASE t \in Threes
      BY <1>13, <1>14, <3>1, <3>3, Zenon
    <3>. QED  BY <3>2, <3>3
  <2>2. ASSUME x = p + 2, a0 = 39, two PROVE x \in E
    <3>1. PICK t \in Twos : is(t)
      BY <1>14, <2>2, Zenon
    <3>2. Len(t) = 2
      BY <1>13
    <3>. QED  BY <1>15, <2>2, <3>1, <3>2, Zenon
  <2>3. ASSUME x = p + 3, a0 = 39, three PROVE x \in E
    <3>1. PICK t \in Threes : is(t)
      BY <1>14, <2>3, Zenon
    <3>2. Len(t) = 3
      BY <1>13
    <3>. QED  BY <1>15, <2>3, <3>1, <3>2, Zenon
  <2>. QED  BY <2>1, <2>2, <2>3, Zenon
<1>17. E = IF C > 0 THEN {p + C} ELSE {}
  <2>1. CASE a0 = 39 /\ two
    BY <1>8, <1>9, <1>16, <2>1
  <2>2. CASE a0 = 39 /\ three
    BY <1>8, <1>9, <1>16, <2>2
  <2>3. CASE ~ (a0 = 39 /\ (two \/ three))
    <3>1. C = 0
      BY <1>8, <2>3
    <3>2. E = {}
      BY <1>16, <2>3
    <3>. QED  BY <3>1, <3>2
  <2>. QED  BY <2>1, <2>2, <2>3
<1>. QED  BY <1>17 DEF E, W, C, is

\* What the pattern can end a piece of class cls with, an optional space before it.
Opt(text, p, cls) == Ends(text, p, {cls}) \cup (IF text[p] = 32 THEN Ends(text, p + 1, {cls}) ELSE {})
Spaced(text, p) == {q \in Ends(text, p, {"space"}) : q > Len(text) \/ DecodeAt(text, q).cls = "space"}

\* The alternatives of the pattern, in order.
LEMMA PatternIs ==
  ASSUME NEW text, NEW p
  PROVE  LET alts == PatternEnds(text, p)
         IN  /\ alts[1] = {p + Len(s) : s \in {t \in Contractions : WordAt(text, p, t)}}
             /\ alts[2] = Opt(text, p, "letter") /\ alts[3] = Opt(text, p, "number")
             /\ alts[4] = Opt(text, p, "other") /\ alts[5] = Spaced(text, p)
             /\ alts[6] = Ends(text, p, {"space"})
<1> DEFINE A1 == {p + Len(s) : s \in {t \in Contractions : WordAt(text, p, t)}}
           A2 == Opt(text, p, "letter")
           A3 == Opt(text, p, "number")
           A4 == Opt(text, p, "other")
           A5 == Spaced(text, p)
           A6 == Ends(text, p, {"space"})
<1>1. PatternEnds(text, p) = <<A1, A2, A3, A4, A5, A6>>
  BY Zenon DEF PatternEnds, Contractions, WordAt, Opt, Spaced
<1> HIDE DEF A1, A2, A3, A4, A5, A6
<1>2. LET alts == PatternEnds(text, p)
      IN  alts[1] = A1 /\ alts[2] = A2 /\ alts[3] = A3 /\ alts[4] = A4 /\ alts[5] = A5 /\ alts[6] = A6
  BY <1>1
<1>. QED  BY <1>2 DEF A1, A2, A3, A4, A5, A6

\* The first alternative that matches, at its longest.
LEMMA PatternEndIs ==
  ASSUME NEW text, NEW p, NEW k \in 1..6, NEW m \in PatternEnds(text, p)[k],
         \A j \in 1..6 : j < k => PatternEnds(text, p)[j] = {},
         PatternEnds(text, p)[k] \subseteq Nat, \A r \in PatternEnds(text, p)[k] : r <= m
  PROVE  PatternEnd(text, p) = m
<1> DEFINE alts == PatternEnds(text, p)
           is(i) == alts[i] # {} /\ \A j \in 1..(i - 1) : alts[j] = {}
           top(q) == \A r \in alts[k] : r <= q
<1>1. is(k)
  <2>1. \A j \in 1..(k - 1) : j \in 1..6 /\ j < k
    OBVIOUS
  <2>. QED  BY <2>1
<1>2. ASSUME NEW i \in 1..6, is(i) PROVE i = k
  <2>1. ~ (i < k)
    BY <1>2
  <2>2. ~ (k < i)
    <3> SUFFICES ASSUME k < i PROVE FALSE
      OBVIOUS
    <3>1. k \in 1..(i - 1)
      OBVIOUS
    <3>. QED  BY <1>2, <3>1
  <2>. QED  BY <2>1, <2>2
<1>3. (CHOOSE i \in 1..6 : is(i)) = k
  <2> HIDE DEF is
  <2>. QED  BY <1>1, <1>2, Zenon
<1>4. PatternEnd(text, p) = LET i == CHOOSE i \in 1..6 : is(i) IN CHOOSE q \in alts[i] : \A r \in alts[i] : r <= q
  BY Zenon DEF PatternEnd
<1>5. PatternEnd(text, p) = CHOOSE q \in alts[k] : top(q)
  BY <1>3, <1>4, Zenon
<1>6. m \in alts[k] /\ top(m)
  OBVIOUS
<1>7. ASSUME NEW q \in alts[k], top(q) PROVE q = m
  <2>1. q \in Nat /\ m \in Nat /\ q <= m /\ m <= q
    BY <1>7
  <2>. QED  BY <2>1
<1> HIDE DEF top, alts
<1>. QED  BY <1>5, <1>6, <1>7, Zenon

\* The ends of each alternative where the class of the code point at p is known.
LEMMA OptIs ==
  ASSUME NEW text \in Seq(Byte), NEW p \in 1..Len(text), NEW cls, cls # "space"
  PROVE  /\ DecodeAt(text, Lead(text, p)).cls # cls => Opt(text, p, cls) = {}
         /\ DecodeAt(text, Lead(text, p)).cls = cls =>
              LET e == RunEnd(text, After(text, Lead(text, p)), cls)
              IN  e \in Opt(text, p, cls) /\ Opt(text, p, cls) \subseteq Nat /\ \A q \in Opt(text, p, cls) : q <= e
<1> DEFINE n == Len(text)
           lead == Lead(text, p)
           c == DecodeAt(text, lead).cls
<1>0. n \in Nat /\ p \in 1..n /\ p \in 1..(n + 1) /\ p + 1 \in 1..(n + 1)
  BY LenProperties
<1>1. text[p] = 32 => DecodeAt(text, p).cls = "space"
  <2>1. text[p] = 32 => DecodeAt(text, p) = [length |-> 1, cls |-> AsciiClass(32)]
    BY DEF DecodeAt
  <2>2. AsciiClass(32) = "space"
    BY DEF AsciiClass
  <2>. QED  BY <2>1, <2>2
<1>2. lead = IF text[p] = 32 /\ p < n /\ DecodeAt(text, p + 1).cls # "space" THEN p + 1 ELSE p
  BY DEF Lead
<1>3. /\ In(text, p, {cls}) <=> DecodeAt(text, p).cls = cls
      /\ In(text, p + 1, {cls}) <=> p + 1 <= n /\ DecodeAt(text, p + 1).cls = cls
  <2>1. p + 1 \in 1..n <=> p + 1 <= n
    BY <1>0
  <2>2. In(text, p, {cls}) <=> p \in 1..n /\ DecodeAt(text, p).cls = cls
    BY <1>0, InIs
  <2>3. In(text, p + 1, {cls}) <=> p + 1 \in 1..n /\ DecodeAt(text, p + 1).cls = cls
    BY <1>0, InIs
  <2>. QED  BY <1>0, <2>1, <2>2, <2>3
<1>4. p < n <=> p + 1 <= n
  BY <1>0
<1> DEFINE E == Ends(text, p, {cls})
           F == Ends(text, p + 1, {cls})
<1>5. Opt(text, p, cls) = E \cup (IF text[p] = 32 THEN F ELSE {})
  BY DEF Opt
<1>6. /\ E \subseteq Nat /\ (~ In(text, p, {cls}) => E = {})
      /\ In(text, p, {cls}) => RunEnd(text, p, cls) \in E /\ \A q \in E : q <= RunEnd(text, p, cls)
  BY <1>0, EndsOfRun
<1>7. /\ F \subseteq Nat /\ (~ In(text, p + 1, {cls}) => F = {})
      /\ In(text, p + 1, {cls}) => RunEnd(text, p + 1, cls) \in F /\ \A q \in F : q <= RunEnd(text, p + 1, cls)
  BY <1>0, EndsOfRun
<1> HIDE DEF E, F, n, lead
<1>8. CASE text[p] = 32
  <2>1. E = {}
    BY <1>1, <1>3, <1>6, <1>8
  <2>2. Opt(text, p, cls) = F
    BY <1>5, <1>8, <2>1
  <2>3. CASE p < n /\ DecodeAt(text, p + 1).cls # "space"
    <3>1. lead = p + 1
      BY <1>2, <1>8, <2>3
    <3>2. In(text, p + 1, {cls}) <=> c = cls
      BY <1>3, <1>4, <2>3, <3>1
    <3>3. c = cls => RunEnd(text, After(text, lead), cls) = RunEnd(text, p + 1, cls)
      BY <1>0, <3>1, <3>2, RunEndOn DEF n
    <3>4. c # cls => F = {}
      BY <1>7, <3>2
    <3>5. c = cls => RunEnd(text, p + 1, cls) \in F /\ \A q \in F : q <= RunEnd(text, p + 1, cls)
      BY <1>7, <3>2
    <3>6. c = cls => RunEnd(text, After(text, lead), cls) \in F /\ \A q \in F : q <= RunEnd(text, After(text, lead), cls)
      BY <3>3, <3>5
    <3>. QED  BY <1>7, <2>2, <3>4, <3>6 DEF lead
  <2>4. CASE ~ (p < n /\ DecodeAt(text, p + 1).cls # "space")
    <3>1. lead = p /\ c = "space"
      BY <1>1, <1>2, <1>8, <2>4
    <3>2. ~ In(text, p + 1, {cls})
      BY <1>3, <1>4, <2>4
    <3>3. F = {} /\ c # cls
      BY <1>7, <3>1, <3>2
    <3>. QED  BY <2>2, <3>3 DEF lead
  <2>. QED  BY <2>3, <2>4
<1>9. CASE text[p] # 32
  <2>1. Opt(text, p, cls) = E /\ lead = p
    BY <1>2, <1>5, <1>9
  <2>2. In(text, p, {cls}) <=> c = cls
    BY <1>3, <2>1
  <2>3. c = cls => RunEnd(text, After(text, lead), cls) = RunEnd(text, p, cls)
    BY <1>0, <2>1, <2>2, RunEndOn DEF n
  <2>4. c = cls => RunEnd(text, After(text, lead), cls) \in E /\ \A q \in E : q <= RunEnd(text, After(text, lead), cls)
    BY <1>6, <2>2, <2>3
  <2>5. c # cls => E = {}
    BY <1>6, <2>2
  <2>. QED  BY <1>6, <2>1, <2>4, <2>5 DEF lead
<1>. QED  BY <1>8, <1>9

\* At every place of every text the matcher ends a piece where the pattern does.
LEMMA BoundaryMatches ==
  ASSUME NEW text \in Seq(Byte), NEW p \in 1..Len(text)
  PROVE  NextBoundary(text, p) = PatternEnd(text, p)
<1> DEFINE n == Len(text)
           alts == PatternEnds(text, p)
           lead == Lead(text, p)
           c == DecodeAt(text, lead).cls
           C == Contraction(text, p)
           E == Ends(text, p, {"space"})
           e == RunEnd(text, p, "space")
           z == LastOfRun(text, p)
<1>0. n \in Nat /\ p \in 1..(n + 1) /\ p \in Nat /\ C \in Nat
  BY LenProperties, ContractionIs
<1>1. alts[1] = IF C > 0 THEN {p + C} ELSE {}
  <2> DEFINE A == {p + Len(s) : s \in {t \in Contractions : WordAt(text, p, t)}}
  <2>1. alts[1] = A
    BY PatternIs, Zenon
  <2>2. A = IF C > 0 THEN {p + C} ELSE {}
    BY ContractionsMatch
  <2> HIDE DEF A, alts, C
  <2>. QED  BY <2>1, <2>2
<1>2. CASE C > 0
  <2>1. NextBoundary(text, p) = p + C
    BY <1>2, BoundaryCases
  <2>2. alts[1] = {p + C} /\ p + C \in Nat
    BY <1>0, <1>1, <1>2
  <2> HIDE DEF C
  <2>3. PatternEnd(text, p) = p + C
    <3>1. 1 \in 1..6 /\ p + C \in alts[1] /\ \A j \in 1..6 : ~ (j < 1)
      BY <2>2
    <3>2. alts[1] \subseteq Nat /\ \A r \in alts[1] : r <= p + C
      BY <2>2
    <3>. QED  BY <3>1, <3>2, PatternEndIs
  <2>. QED  BY <2>1, <2>3
<1>3. CASE ~ (C > 0) /\ c # "space"
  <2> DEFINE b == RunEnd(text, After(text, lead), c)
  <2>1. NextBoundary(text, p) = b
    BY <1>3, BoundaryCases
  <2>2. alts[1] = {}
    BY <1>1, <1>3
  <2>3. c \in {"letter", "number", "other"}
    BY <1>3, LeadIs, DecodeIs DEF Classes
  <2>4. \A cls \in {"letter", "number", "other"} :
          /\ c # cls => Opt(text, p, cls) = {}
          /\ c = cls => b \in Opt(text, p, cls) /\ Opt(text, p, cls) \subseteq Nat /\ \A q \in Opt(text, p, cls) : q <= b
    BY OptIs
  <2> HIDE DEF b, c, alts
  <2>5. alts[2] = Opt(text, p, "letter") /\ alts[3] = Opt(text, p, "number") /\ alts[4] = Opt(text, p, "other")
    BY PatternIs DEF alts
  <2>6. ASSUME NEW k \in 2..4, b \in alts[k], alts[k] \subseteq Nat, \A q \in alts[k] : q <= b,
               \A j \in 2..4 : j < k => alts[j] = {}
        PROVE  PatternEnd(text, p) = b
    <3>1. k \in 1..6 /\ \A j \in 1..6 : j < k => alts[j] = {}
      <4>1. \A j \in 1..6 : j < k => j = 1 \/ j \in 2..4
        OBVIOUS
      <4>. QED  BY <2>2, <2>6, <4>1
    <3>. QED  BY <2>6, <3>1, PatternEndIs DEF alts
  <2>7. PatternEnd(text, p) = b
    <3>1. CASE c = "letter"
      <4>1. b \in alts[2] /\ alts[2] \subseteq Nat /\ \A q \in alts[2] : q <= b
        BY <2>4, <2>5, <3>1
      <4>2. 2 \in 2..4 /\ \A j \in 2..4 : ~ (j < 2)
        OBVIOUS
      <4>. QED  BY <2>6, <4>1, <4>2
    <3>2. CASE c = "number"
      <4>1. /\ b \in alts[3] /\ alts[3] \subseteq Nat /\ \A q \in alts[3] : q <= b
            /\ alts[2] = {}
        BY <2>4, <2>5, <3>2
      <4>2. 3 \in 2..4 /\ \A j \in 2..4 : j < 3 => j = 2
        OBVIOUS
      <4>. QED  BY <2>6, <4>1, <4>2
    <3>3. CASE c = "other"
      <4>1. /\ b \in alts[4] /\ alts[4] \subseteq Nat /\ \A q \in alts[4] : q <= b
            /\ alts[2] = {} /\ alts[3] = {}
        BY <2>4, <2>5, <3>3
      <4>2. 4 \in 2..4 /\ \A j \in 2..4 : j < 4 => j = 2 \/ j = 3
        OBVIOUS
      <4>. QED  BY <2>6, <4>1, <4>2
    <3>. QED  BY <2>3, <3>1, <3>2, <3>3
  <2>. QED  BY <2>1, <2>7
<1>4. CASE ~ (C > 0) /\ c = "space"
  <2>1. lead = p /\ DecodeAt(text, p).cls = "space"
    BY <1>4, LeadIs
  <2>2. In(text, p, {"space"})
    <3> HIDE DEF lead, c, E, e, z, alts, C
    <3>. QED  BY <1>0, <2>1, InIs DEF n
  <2>3. /\ z \in Nat /\ z >= p /\ z < e /\ After(text, z) = e /\ z \in {p} \cup E
        /\ E \subseteq ((p + 1)..z) \cup {e} /\ e \in E
        /\ \A q \in E \ {e} : In(text, q, {"space"})
        /\ p < z => After(text, p) <= z
    BY <2>2, LastBefore
  <2>4. E \subseteq Nat /\ \A q \in E : q <= e
    BY <1>0, <2>2, EndsOfRun
  <2>5. e \in p..(n + 1) /\ ~ In(text, e, {"space"})
    BY <1>0, RunEndIs
  <2>6. alts[1] = {} /\ alts[2] = {} /\ alts[3] = {} /\ alts[4] = {}
    <3>1. Opt(text, p, "letter") = {} /\ Opt(text, p, "number") = {} /\ Opt(text, p, "other") = {}
      BY <1>4, OptIs
    <3>2. alts[1] = {}
      BY <1>1, <1>4
    <3>. QED  BY <3>1, <3>2, PatternIs
  <2>7. alts[5] = {q \in E : q > n \/ DecodeAt(text, q).cls = "space"} /\ alts[6] = E
    BY PatternIs DEF Spaced
  <2>8. /\ (e > n \/ e = After(text, p)) => NextBoundary(text, p) = e
        /\ ~ (e > n \/ e = After(text, p)) => NextBoundary(text, p) = z
    BY <1>4, BoundaryCases
  <2> HIDE DEF E, e, z, alts, lead, c, C
  <2>9. e \in Nat /\ (e <= n => DecodeAt(text, e).cls # "space")
    <3>1. e \in Nat /\ e \in 1..(n + 1)
      BY <1>0, <2>5
    <3>2. In(text, e, {"space"}) <=> e \in 1..n /\ DecodeAt(text, e).cls = "space"
      BY <3>1, InIs
    <3>3. e <= n => e \in 1..n
      BY <3>1
    <3>. QED  BY <2>5, <3>1, <3>2, <3>3
  <2>10. ASSUME NEW m \in alts[5], \A r \in alts[5] : r <= m PROVE PatternEnd(text, p) = m
    <3>1. 5 \in 1..6 /\ \A j \in 1..6 : j < 5 => j = 1 \/ j = 2 \/ j = 3 \/ j = 4
      OBVIOUS
    <3>2. \A j \in 1..6 : j < 5 => alts[j] = {}
      BY <2>6, <3>1
    <3>3. alts[5] \subseteq Nat
      BY <2>4, <2>7
    <3>. QED  BY <2>10, <3>1, <3>2, <3>3, PatternEndIs DEF alts
  <2>11. CASE e > n
    <3>1. e \in alts[5] /\ \A r \in alts[5] : r <= e
      BY <2>3, <2>4, <2>7, <2>11
    <3>. QED  BY <2>8, <2>10, <2>11, <3>1
  <2>12. CASE ~ (e > n) /\ e = After(text, p)
    <3>1. ~ (p < z)
      BY <1>0, <2>3, <2>9, <2>12
    <3>2. E = {e}
      <4>1. z = p
        BY <1>0, <2>3, <3>1
      <4>2. ((p + 1)..z) = {}
        BY <1>0, <4>1
      <4>. QED  BY <2>3, <4>2
    <3>3. alts[5] = {}
      BY <1>0, <2>7, <2>9, <2>12, <3>2
    <3>4. 6 \in 1..6 /\ \A j \in 1..6 : j < 6 => j = 1 \/ j = 2 \/ j = 3 \/ j = 4 \/ j = 5
      OBVIOUS
    <3>5. \A j \in 1..6 : j < 6 => alts[j] = {}
      BY <2>6, <3>3, <3>4
    <3>6. e \in alts[6] /\ alts[6] \subseteq Nat /\ \A r \in alts[6] : r <= e
      BY <2>4, <2>7, <3>2
    <3>7. PatternEnd(text, p) = e
      BY <3>4, <3>5, <3>6, PatternEndIs DEF alts
    <3>. QED  BY <2>8, <2>12, <3>7
  <2>13. CASE ~ (e > n) /\ e # After(text, p)
    <3>1. z # p /\ z \in E /\ z # e /\ z \in 1..n
      <4>1. z # p
        BY <2>3, <2>13
      <4>. QED  BY <1>0, <2>3, <2>9, <2>13, <4>1
    <3>2. DecodeAt(text, z).cls = "space"
      <4>1. In(text, z, {"space"}) /\ z \in 1..(n + 1)
        BY <1>0, <2>3, <3>1
      <4>. QED  BY <4>1, InIs
    <3>3. z \in alts[5]
      BY <2>7, <3>1, <3>2
    <3>4. e \notin alts[5]
      BY <1>0, <2>7, <2>9, <2>13
    <3>5. ASSUME NEW r \in alts[5] PROVE r <= z
      <4>1. r \in E /\ r # e
        BY <2>7, <3>4
      <4>. QED  BY <1>0, <2>3, <4>1
    <3>. QED  BY <2>8, <2>10, <2>13, <3>3, <3>5
  <2>. QED  BY <2>11, <2>12, <2>13
<1>. QED  BY <1>2, <1>3, <1>4

\* next_boundary ends every piece of the training text where the pattern it is written
\* for does.
THEOREM MatcherIsPattern == Spec => []MatchesPattern
<1>1. LearnInv => MatchesPattern
  <2> SUFFICES ASSUME LearnInv, NEW p \in DOMAIN job.text PROVE NextBoundary(job.text, p) = PatternEnd(job.text, p)
    BY DEF MatchesPattern
  <2>1. job.text \in Seq(Byte)
    BY ByteBpeAssumption DEF LearnInv
  <2>2. p \in 1..Len(job.text)
    BY <2>1, LenProperties
  <2>. QED  BY <2>1, <2>2, BoundaryMatches
<1>. QED  BY <1>1, LearningIsTrue, PTL
-----------------------------------------------------------------------------
(* The heap encodes a piece as the scan does.                              *)

\* The list l of n cells holds the symbols s, the k-th in cell f[k].
Threads(l, n, s, f) ==
  /\ Len(s) \in 1..n /\ (\A k \in 1..Len(s) : f[k] \in 1..n) /\ f[1] = 1
  /\ l.id \in [1..n -> Int] /\ l.next \in [1..n -> Nat] /\ l.prev \in [1..n -> Nat]
  /\ \A j, k \in 1..Len(s) : j < k => f[j] < f[k]
  /\ \A k \in 1..Len(s) : l.id[f[k]] = s[k]
  /\ \A k \in 1..Len(s) : l.next[f[k]] = IF k = Len(s) THEN n + 1 ELSE f[k + 1]
  /\ \A k \in 1..Len(s) : l.prev[f[k]] = IF k = 1 THEN 0 ELSE f[k - 1]
  /\ \A p \in 1..n : (\A k \in 1..Len(s) : f[k] # p) => l.id[p] = -1

\* The cells after the k-th symbol is merged with the next.
Closed(f, m, k) == [j \in 1..(m - 1) |-> IF j <= k THEN f[j] ELSE f[j + 1]]

\* u is the list l with cell a before c and b gone.
Taken(u, l, n, a, b, c, id) ==
  /\ u.id \in [1..n -> Int] /\ u.next \in [1..n -> Nat] /\ u.prev \in [1..n -> Nat]
  /\ \A p \in 1..n : u.id[p] = IF p = b THEN -1 ELSE IF p = a THEN id ELSE l.id[p]
  /\ \A p \in 1..n : u.next[p] = IF p = a THEN c ELSE l.next[p]
  /\ \A p \in 1..n : u.prev[p] = IF p = c THEN a ELSE l.prev[p]

\* Unlink, cell by cell.
LEMMA UnlinkCells ==
  ASSUME NEW l, NEW n \in Nat, NEW a \in 1..n, NEW b \in 1..n, a # b, NEW c \in Nat, NEW id \in Int,
         l.id \in [1..n -> Int], l.next \in [1..n -> Nat], l.prev \in [1..n -> Nat],
         l.next[a] = b, l.next[b] = c
  PROVE  Taken(Unlink(l, a, id), l, n, a, b, c, id)
<1> DEFINE u == Unlink(l, a, id)
           ids == [l.id EXCEPT ![a] = id, ![b] = -1]
           nx == [l.next EXCEPT ![a] = c]
           pv == IF c \in 1..n THEN [l.prev EXCEPT ![c] = a] ELSE l.prev
<1>1. u.id = ids /\ u.next = nx /\ u.prev = pv
  <2>1. DOMAIN l.id = 1..n
    OBVIOUS
  <2>. QED  BY <2>1 DEF Unlink
<1>2. ids \in [1..n -> Int] /\ \A p \in 1..n : ids[p] = IF p = b THEN -1 ELSE IF p = a THEN id ELSE l.id[p]
  <2> DEFINE I == l.id
             J == [I EXCEPT ![a] = id]
  <2>1. I \in [1..n -> Int]
    OBVIOUS
  <2>2. ids = [J EXCEPT ![b] = -1]
    OBVIOUS
  <2> HIDE DEF I, ids
  <2>3. J \in [1..n -> Int] /\ \A p \in 1..n : J[p] = IF p = a THEN id ELSE I[p]
    BY <2>1
  <2> HIDE DEF J
  <2>4. ids \in [1..n -> Int]
    BY <2>2, <2>3
  <2>5. \A p \in 1..n : ids[p] = IF p = b THEN -1 ELSE J[p]
    BY <2>2, <2>3
  <2>6. \A p \in 1..n : ids[p] = IF p = b THEN -1 ELSE IF p = a THEN id ELSE I[p]
    BY <2>3, <2>5
  <2>. QED  BY <2>4, <2>6 DEF I
<1>3. nx \in [1..n -> Nat] /\ \A p \in 1..n : nx[p] = IF p = a THEN c ELSE l.next[p]
  OBVIOUS
<1>4. pv \in [1..n -> Nat] /\ \A p \in 1..n : pv[p] = IF p = c THEN a ELSE l.prev[p]
  <2>1. CASE c \in 1..n
    <3>1. pv = [l.prev EXCEPT ![c] = a] /\ a \in Nat
      BY <2>1
    <3>. QED  BY <3>1
  <2>2. CASE c \notin 1..n
    BY <2>2
  <2>. QED  BY <2>1, <2>2
<1> HIDE DEF u, ids, nx, pv
<1>5. /\ u.id \in [1..n -> Int] /\ u.next \in [1..n -> Nat] /\ u.prev \in [1..n -> Nat]
  BY ONLY <1>1, <1>2, <1>3, <1>4
<1>6. \A p \in 1..n : u.id[p] = IF p = b THEN -1 ELSE IF p = a THEN id ELSE l.id[p]
  BY ONLY <1>1, <1>2
<1>7. \A p \in 1..n : u.next[p] = IF p = a THEN c ELSE l.next[p]
  BY ONLY <1>1, <1>3
<1>8. \A p \in 1..n : u.prev[p] = IF p = c THEN a ELSE l.prev[p]
  BY ONLY <1>1, <1>4
<1>9. Taken(u, l, n, a, b, c, id)
  BY ONLY <1>5, <1>6, <1>7, <1>8 DEF Taken
<1>. QED  BY <1>9 DEF u

\* A merge in the list is the merge of the symbols.
LEMMA UnlinkIs ==
  ASSUME NEW l, NEW n, NEW s, NEW f, NEW k, NEW id, n \in Nat, s \in Seq(Nat), Threads(l, n, s, f),
         k \in 1..(Len(s) - 1), id \in Nat
  PROVE  Threads(Unlink(l, f[k], id), n, MergeAt(s, k, id), Closed(f, Len(s), k))
<1> DEFINE m == Len(s)
           u == Unlink(l, f[k], id)
           t == MergeAt(s, k, id)
           g == Closed(f, m, k)
           a == f[k]
           b == f[k + 1]
           c == IF k + 1 = m THEN n + 1 ELSE f[k + 2]
<1>1. m \in 1..n /\ (\A j \in 1..m : f[j] \in 1..n) /\ f[1] = 1
  BY DEF Threads
<1>21. l.id \in [1..n -> Int] /\ l.next \in [1..n -> Nat] /\ l.prev \in [1..n -> Nat]
  BY DEF Threads
<1>22. \A i, j \in 1..m : i < j => f[i] < f[j]
  BY DEF Threads
<1>2. \A j \in 1..m : l.id[f[j]] = s[j]
  BY DEF Threads
<1>3. \A j \in 1..m : l.next[f[j]] = IF j = m THEN n + 1 ELSE f[j + 1]
  BY DEF Threads
<1>4. \A j \in 1..m : l.prev[f[j]] = IF j = 1 THEN 0 ELSE f[j - 1]
  BY DEF Threads
<1>5. \A p \in 1..n : (\A j \in 1..m : f[j] # p) => l.id[p] = -1
  BY DEF Threads
<1>6. t \in Seq(Nat) /\ Len(t) = m - 1 /\ \A j \in 1..(m - 1) : t[j] = IF j < k THEN s[j] ELSE IF j = k THEN id ELSE s[j + 1]
  BY MergeAtNat
<1>11. \A j \in 1..(m - 1) : g[j] = IF j <= k THEN f[j] ELSE f[j + 1]
  BY DEF Closed
<1>0. g = [j \in 1..(m - 1) |-> g[j]] /\ m \in Nat /\ k \in 1..(m - 1) /\ n \in Nat /\ id \in Nat
  BY LenProperties DEF Closed
<1> HIDE DEF m, t, g, u, a, b, c
<1>7. k \in 1..m /\ k + 1 \in 1..m /\ k < m /\ k \in Nat /\ m \in Nat /\ m - 1 \in 1..n
  BY ONLY <1>0, <1>1, <1>22
<1>8. a \in 1..n /\ b \in 1..n /\ a < b /\ c \in Nat /\ b < c
  <2>1. k + 1 # m => k + 2 \in 1..m /\ k + 1 < k + 2
    BY ONLY <1>0, <1>7
  <2>2. f[k] \in 1..n /\ f[k + 1] \in 1..n /\ f[k] < f[k + 1]
    BY ONLY <1>0, <1>1, <1>22, <1>7
  <2>3. CASE k + 1 = m
    BY ONLY <1>0, <2>2, <2>3 DEF a, b, c
  <2>4. CASE k + 1 # m
    <3>1. f[k + 2] \in 1..n /\ f[k + 1] < f[k + 2]
      BY ONLY <1>0, <1>1, <1>22, <1>7, <2>1, <2>4
    <3>. QED  BY ONLY <1>0, <2>2, <2>4, <3>1 DEF a, b, c
  <2>. QED  BY ONLY <1>0, <2>3, <2>4
<1>9. l.next[a] = b /\ l.next[b] = c
  <2>1. k # m /\ (k + 1) + 1 = k + 2
    BY ONLY <1>0, <1>7
  <2>2. l.next[f[k]] = f[k + 1]
    BY ONLY <1>0, <1>3, <1>7, <2>1
  <2>3. l.next[f[k + 1]] = IF k + 1 = m THEN n + 1 ELSE f[k + 2]
    BY ONLY <1>0, <1>3, <1>7, <2>1
  <2>. QED  BY ONLY <1>0, <2>2, <2>3 DEF a, b, c
<1>10. /\ u.id \in [1..n -> Int] /\ u.next \in [1..n -> Nat] /\ u.prev \in [1..n -> Nat]
       /\ \A p \in 1..n : u.id[p] = IF p = b THEN -1 ELSE IF p = a THEN id ELSE l.id[p]
       /\ \A p \in 1..n : u.next[p] = IF p = a THEN c ELSE l.next[p]
       /\ \A p \in 1..n : u.prev[p] = IF p = c THEN a ELSE l.prev[p]
  <2>1. a # b /\ id \in Int
    BY ONLY <1>0, <1>8
  <2>2. l.id \in [1..n -> Int] /\ l.next \in [1..n -> Nat] /\ l.prev \in [1..n -> Nat]
    BY ONLY <1>21
  <2>3. u = Unlink(l, a, id)
    BY ONLY <1>0 DEF u, a
  <2>4. Taken(Unlink(l, a, id), l, n, a, b, c, id)
    BY ONLY <1>0, <1>8, <1>9, <2>1, <2>2, UnlinkCells
  <2>5. Taken(u, l, n, a, b, c, id)
    BY ONLY <2>3, <2>4
  <2>. QED  BY ONLY <2>5 DEF Taken
<1>12. \A j \in 1..(m - 1) : (j <= k => j \in 1..m) /\ (j > k => j + 1 \in 1..m)
  BY ONLY <1>0, <1>7
<1>13. (\A j \in 1..(m - 1) : g[j] \in 1..n) /\ g[1] = 1
  <2>1. \A j \in 1..(m - 1) : g[j] \in 1..n
    BY ONLY <1>0, <1>1, <1>22, <1>11, <1>12
  <2>2. 1 \in 1..(m - 1) /\ 1 <= k
    BY ONLY <1>0, <1>7
  <2>. QED  BY ONLY <1>0, <1>1, <1>22, <1>11, <2>1, <2>2
<1>14. \A i, j \in 1..(m - 1) : i < j => g[i] < g[j]
  <2> SUFFICES ASSUME NEW i \in 1..(m - 1), NEW j \in 1..(m - 1), i < j PROVE g[i] < g[j]
    OBVIOUS
  <2>0. i \in 1..(m - 1) /\ j \in 1..(m - 1) /\ i < j
    OBVIOUS
  <2>1. CASE j <= k
    BY ONLY <1>0, <2>0, <1>1, <1>22, <1>11, <1>12, <2>1
  <2>2. CASE i <= k /\ j > k
    <3>1. i < j + 1 /\ i \in 1..m /\ j + 1 \in 1..m
      BY ONLY <1>0, <2>0, <1>12, <2>2
    <3>. QED  BY ONLY <1>0, <2>0, <1>1, <1>22, <1>11, <2>2, <3>1
  <2>3. CASE i > k
    <3>1. i + 1 < j + 1 /\ i + 1 \in 1..m /\ j + 1 \in 1..m /\ j > k
      BY ONLY <1>0, <2>0, <1>12, <2>3
    <3>. QED  BY ONLY <1>0, <2>0, <1>1, <1>22, <1>11, <2>3, <3>1
  <2>. QED  BY ONLY <1>0, <2>0, <2>1, <2>2, <2>3
<1>15. \A j \in 1..(m - 1) : g[j] # b /\ (g[j] = a <=> j = k)
  <2> SUFFICES ASSUME NEW j \in 1..(m - 1) PROVE g[j] # b /\ (g[j] = a <=> j = k)
    OBVIOUS
  <2>0. j \in 1..(m - 1)
    OBVIOUS
  <2>1. CASE j < k
    <3>1. f[j] < f[k] /\ f[j] < f[k + 1] /\ f[j] \in Nat /\ f[k] \in Nat /\ f[k + 1] \in Nat
      BY ONLY <1>0, <2>0, <1>1, <1>22, <1>7, <2>1
    <3>. QED  BY ONLY <1>0, <2>0, <1>11, <2>1, <3>1 DEF a, b
  <2>2. CASE j = k
    BY ONLY <1>0, <2>0, <1>8, <1>11, <2>2 DEF a, b
  <2>3. CASE j > k
    <3>1. j + 1 \in 1..m /\ k < j + 1 /\ k + 1 < j + 1
      BY ONLY <1>0, <2>0, <1>12, <2>3
    <3>2. f[k] < f[j + 1] /\ f[k + 1] < f[j + 1] /\ f[j + 1] \in Nat /\ f[k] \in Nat /\ f[k + 1] \in Nat
      BY ONLY <1>0, <2>0, <1>1, <1>22, <1>7, <3>1
    <3>. QED  BY ONLY <1>0, <2>0, <1>11, <2>3, <3>2 DEF a, b
  <2>. QED  BY ONLY <1>0, <2>0, <2>1, <2>2, <2>3
<1>16. \A j \in 1..(m - 1) : u.id[g[j]] = t[j]
  <2> SUFFICES ASSUME NEW j \in 1..(m - 1) PROVE u.id[g[j]] = t[j]
    OBVIOUS
  <2>0. j \in 1..(m - 1)
    OBVIOUS
  <2>1. g[j] \in 1..n
    BY ONLY <1>0, <2>0, <1>13
  <2>2. CASE j = k
    BY ONLY <1>0, <2>0, <1>6, <1>10, <1>15, <2>1, <2>2
  <2>3. CASE j < k
    <3>1. g[j] = f[j] /\ t[j] = s[j] /\ j \in 1..m /\ g[j] # a /\ g[j] # b
      BY ONLY <1>0, <2>0, <1>6, <1>11, <1>12, <1>15, <2>3
    <3>. QED  BY ONLY <1>0, <2>0, <1>2, <1>10, <2>1, <3>1
  <2>4. CASE j > k
    <3>1. g[j] = f[j + 1] /\ t[j] = s[j + 1] /\ j + 1 \in 1..m /\ g[j] # a /\ g[j] # b
      BY ONLY <1>0, <2>0, <1>6, <1>11, <1>12, <1>15, <2>4
    <3>. QED  BY ONLY <1>0, <2>0, <1>2, <1>10, <2>1, <3>1
  <2>. QED  BY ONLY <1>0, <2>0, <1>7, <2>2, <2>3, <2>4
<1>17. \A j \in 1..(m - 1) : u.next[g[j]] = IF j = m - 1 THEN n + 1 ELSE g[j + 1]
  <2> SUFFICES ASSUME NEW j \in 1..(m - 1) PROVE u.next[g[j]] = IF j = m - 1 THEN n + 1 ELSE g[j + 1]
    OBVIOUS
  <2>0. j \in 1..(m - 1)
    OBVIOUS
  <2>1. g[j] \in 1..n /\ (j # m - 1 => j + 1 \in 1..(m - 1)) /\ (j + 1) + 1 = j + 2
    BY ONLY <1>0, <2>0, <1>7, <1>13
  <2>2. CASE j = k
    <3>1. u.next[g[j]] = c
      BY ONLY <1>0, <2>0, <1>10, <1>15, <2>1, <2>2
    <3>2. j = m - 1 => c = n + 1
      BY ONLY <1>0, <2>0, <2>2 DEF c
    <3>3. j # m - 1 => c = f[k + 2] /\ g[j + 1] = f[k + 2]
      <4> SUFFICES ASSUME j # m - 1 PROVE c = f[k + 2] /\ g[j + 1] = f[k + 2]
        OBVIOUS
      <4>0. j # m - 1
        OBVIOUS
      <4>1. k + 1 # m /\ ~(j + 1 <= k)
        BY ONLY <1>0, <2>0, <4>0, <1>7, <2>2
      <4>. QED  BY ONLY <1>0, <2>0, <4>0, <1>11, <2>1, <2>2, <4>1 DEF c
    <3>. QED  BY ONLY <1>0, <2>0, <3>1, <3>2, <3>3
  <2>3. CASE j < k
    <3>1. g[j] = f[j] /\ j \in 1..m /\ g[j] # a /\ j # m /\ j # m - 1
      BY ONLY <1>0, <2>0, <1>7, <1>11, <1>12, <1>15, <2>3
    <3>2. g[j + 1] = f[j + 1]
      <4>1. j + 1 <= k /\ j + 1 \in 1..(m - 1)
        BY ONLY <1>0, <2>0, <2>1, <2>3, <3>1
      <4>. QED  BY ONLY <1>0, <2>0, <1>11, <4>1
    <3>. QED  BY ONLY <1>0, <2>0, <1>3, <1>10, <2>1, <3>1, <3>2
  <2>4. CASE j > k
    <3>1. g[j] = f[j + 1] /\ j + 1 \in 1..m /\ g[j] # a
      BY ONLY <1>0, <2>0, <1>11, <1>12, <1>15, <2>4
    <3>2. u.next[g[j]] = IF j + 1 = m THEN n + 1 ELSE f[j + 2]
      <4>1. l.next[f[j + 1]] = IF j + 1 = m THEN n + 1 ELSE f[(j + 1) + 1]
        BY ONLY <1>3, <3>1
      <4>2. u.next[g[j]] = l.next[g[j]]
        BY ONLY <1>10, <2>1, <3>1
      <4>. QED  BY ONLY <2>1, <3>1, <4>1, <4>2
    <3>3. j # m - 1 => g[j + 1] = f[j + 2]
      <4> SUFFICES ASSUME j # m - 1 PROVE g[j + 1] = f[j + 2]
        OBVIOUS
      <4>0. j # m - 1
        OBVIOUS
      <4>1. ~(j + 1 <= k)
        BY ONLY <1>0, <2>0, <4>0, <2>4
      <4>. QED  BY ONLY <1>0, <2>0, <4>0, <1>11, <2>1, <4>1
    <3>4. j = m - 1 <=> j + 1 = m
      BY ONLY <1>0, <2>0, <1>7
    <3>. QED  BY ONLY <1>0, <2>0, <3>2, <3>3, <3>4
  <2>. QED  BY ONLY <1>0, <2>0, <1>7, <2>2, <2>3, <2>4
<1>18. \A j \in 1..(m - 1) : u.prev[g[j]] = IF j = 1 THEN 0 ELSE g[j - 1]
  <2> SUFFICES ASSUME NEW j \in 1..(m - 1) PROVE u.prev[g[j]] = IF j = 1 THEN 0 ELSE g[j - 1]
    OBVIOUS
  <2>0. j \in 1..(m - 1)
    OBVIOUS
  <2>1. g[j] \in 1..n /\ (j # 1 => j - 1 \in 1..(m - 1)) /\ (j + 1) - 1 = j
    BY ONLY <1>0, <2>0, <1>7, <1>13
  <2>2. CASE j <= k
    <3>1. g[j] = f[j] /\ j \in 1..m
      BY ONLY <1>0, <2>0, <1>11, <1>12, <2>2
    <3>2. g[j] # c
      <4>1. f[j] < f[k + 1] /\ f[j] \in Nat /\ f[k + 1] = b
        BY ONLY <1>0, <2>0, <1>1, <1>22, <1>7, <2>2, <3>1 DEF b
      <4>. QED  BY ONLY <1>0, <2>0, <1>8, <3>1, <4>1
    <3>3. j # 1 => g[j - 1] = f[j - 1]
      BY ONLY <1>0, <2>0, <1>11, <2>1, <2>2
    <3>4. u.prev[g[j]] = l.prev[f[j]] /\ l.prev[f[j]] = IF j = 1 THEN 0 ELSE f[j - 1]
      BY ONLY <1>0, <2>0, <1>4, <1>10, <2>1, <3>1, <3>2
    <3>. QED  BY ONLY <1>0, <2>0, <3>3, <3>4
  <2>3. CASE j = k + 1
    <3>1. g[j] = f[k + 2] /\ k + 1 # m /\ j # 1 /\ g[j - 1] = f[k]
      <4>1. ~(j <= k) /\ j + 1 = k + 2 /\ j - 1 = k /\ k + 1 # m /\ j # 1 /\ k <= k /\ k \in 1..(m - 1)
        BY ONLY <1>0, <2>0, <1>7, <2>3
      <4>. QED  BY ONLY <1>0, <2>0, <1>11, <4>1
    <3>2. g[j] = c /\ g[j - 1] = a
      BY ONLY <1>0, <2>0, <3>1 DEF c, a
    <3>. QED  BY ONLY <1>0, <2>0, <1>10, <2>1, <3>1, <3>2
  <2>4. CASE j > k + 1
    <3>1. g[j] = f[j + 1] /\ j + 1 \in 1..m /\ j # 1 /\ j > k
      BY ONLY <1>0, <2>0, <1>7, <1>11, <1>12, <2>4
    <3>2. g[j - 1] = f[j]
      <4>1. ~(j - 1 <= k) /\ j - 1 \in 1..(m - 1) /\ (j - 1) + 1 = j
        BY ONLY <1>0, <2>0, <2>1, <2>4, <3>1
      <4>. QED  BY ONLY <1>0, <2>0, <1>11, <4>1
    <3>3. g[j] # c
      <4>1. k + 2 \in 1..m /\ k + 2 < j + 1 /\ k + 1 # m
        BY ONLY <1>0, <2>0, <1>7, <2>4
      <4>2. f[k + 2] < f[j + 1] /\ f[k + 2] \in Nat /\ f[j + 1] \in Nat /\ c = f[k + 2]
        BY ONLY <1>0, <2>0, <1>1, <1>22, <3>1, <4>1 DEF c
      <4>. QED  BY ONLY <1>0, <2>0, <3>1, <4>2
    <3>4. j + 1 # 1
      BY ONLY <1>0, <2>0, <2>4
    <3>5. l.prev[f[j + 1]] = IF j + 1 = 1 THEN 0 ELSE f[(j + 1) - 1]
      BY ONLY <1>4, <3>1
    <3>6. u.prev[g[j]] = l.prev[g[j]]
      BY ONLY <1>10, <2>1, <3>3
    <3>. QED  BY ONLY <2>1, <3>1, <3>2, <3>4, <3>5, <3>6
  <2>. QED  BY ONLY <1>0, <2>0, <1>7, <2>2, <2>3, <2>4
<1>19. \A p \in 1..n : (\A j \in 1..(m - 1) : g[j] # p) => u.id[p] = -1
  <2> SUFFICES ASSUME NEW p \in 1..n, \A j \in 1..(m - 1) : g[j] # p PROVE u.id[p] = -1
    OBVIOUS
  <2>0. p \in 1..n /\ (\A j \in 1..(m - 1) : g[j] # p)
    OBVIOUS
  <2>1. CASE p = b
    BY ONLY <1>0, <2>0, <1>10, <2>1
  <2>2. CASE p # b
    <3>1. p # a
      <4>. QED  BY ONLY <1>0, <2>0, <1>0, <1>15
    <3>2. ASSUME NEW j \in 1..m PROVE f[j] # p
      <4>1. CASE j <= k
        <5>1. j \in 1..(m - 1)
          BY ONLY <1>0, <2>0, <1>7, <4>1
        <5>. QED  BY ONLY <1>0, <2>0, <1>11, <4>1, <5>1
      <4>2. CASE j = k + 1
        BY ONLY <1>0, <2>0, <2>2, <4>2 DEF b
      <4>3. CASE j > k + 1
        <5>1. j - 1 \in 1..(m - 1) /\ ~(j - 1 <= k) /\ (j - 1) + 1 = j
          BY ONLY <1>0, <2>0, <1>7, <4>3
        <5>. QED  BY ONLY <1>0, <2>0, <1>11, <5>1
      <4>. QED  BY ONLY <1>0, <2>0, <1>7, <4>1, <4>2, <4>3
    <3>. QED  BY ONLY <1>0, <2>0, <1>5, <1>10, <2>2, <3>1, <3>2
  <2>. QED  BY ONLY <1>0, <2>0, <2>1, <2>2
<1>20. Threads(u, n, t, g)
  <2>1. Len(t) = m - 1 /\ m - 1 \in 1..n
    BY ONLY <1>6, <1>7
  <2>. QED  BY ONLY <1>10, <1>13, <1>14, <1>16, <1>17, <1>18, <1>19, <2>1 DEF Threads
<1>. QED  BY <1>20 DEF u, t, g, m

\* The candidate for merge r at cell p, and the one for the k-th symbol and the next.
CandOf(ms, r, p) == [rank |-> r, pos |-> p, left |-> ms[r][1], right |-> ms[r][2]]
CandAt(ms, s, f, k) == CandOf(ms, Rank(ms, s[k], s[k + 1]), f[k])
Cands(ms, n) == {CandOf(ms, r, p) : r \in 1..Len(ms), p \in 1..n}

\* The fields of a candidate.
LEMMA CandFields ==
  ASSUME NEW ms, NEW r, NEW p
  PROVE  /\ CandOf(ms, r, p).rank = r /\ CandOf(ms, r, p).pos = p
         /\ CandOf(ms, r, p).left = ms[r][1] /\ CandOf(ms, r, p).right = ms[r][2]
BY DEF CandOf

\* What can be merged names the candidate.
LEMMA CandAtIs ==
  ASSUME NEW ms, IsMerges(ms), NEW s, s \in Seq(Nat), NEW k, k \in Can(ms, s)
  PROVE  LET r == Rank(ms, s[k], s[k + 1])
         IN  /\ r \in 1..Len(ms) /\ ms[r][1] = s[k] /\ ms[r][2] = s[k + 1]
             /\ k \in 1..Len(s) /\ k + 1 \in 1..Len(s) /\ k # Len(s)
<1> DEFINE r == Rank(ms, s[k], s[k + 1])
<1>1. Len(s) \in Nat
  BY LenProperties
<1>2. k \in 1..(Len(s) - 1) /\ r > 0
  BY DEF Can
<1>3. Len(ms) \in Nat
  BY LenProperties DEF IsMerges
<1> HIDE DEF r
<1>4. r \in 0..Len(ms) /\ ms[r] = <<s[k], s[k + 1]>>
  BY <1>2, <1>3, RankIs DEF r
<1>5. ms[r][1] = s[k] /\ ms[r][2] = s[k + 1]
  BY ONLY <1>4
<1>6. r \in 1..Len(ms)
  BY ONLY <1>2, <1>3, <1>4
<1>7. k \in 1..Len(s) /\ k + 1 \in 1..Len(s) /\ k # Len(s)
  BY ONLY <1>1, <1>2
<1>. QED  BY <1>5, <1>6, <1>7 DEF r

\* The cell of a symbol and what the list says of it.
LEMMA CellIs ==
  ASSUME NEW l, NEW n, NEW s, NEW f, n \in Nat, s \in Seq(Nat), Threads(l, n, s, f), NEW k, k \in 1..Len(s)
  PROVE  /\ f[k] \in 1..n /\ f[k] \in DOMAIN l.id /\ l.id[f[k]] = s[k]
         /\ k = Len(s) => l.next[f[k]] = n + 1 /\ l.next[f[k]] \notin DOMAIN l.id
         /\ k # Len(s) => /\ l.next[f[k]] = f[k + 1] /\ l.next[f[k]] \in DOMAIN l.id
                          /\ l.id[l.next[f[k]]] = s[k + 1] /\ k + 1 \in 1..Len(s)
<1>1. Len(s) \in Nat /\ k \in 1..Len(s) /\ n \in Nat
  BY LenProperties
<1>2. l.id \in [1..n -> Int] /\ \A j \in 1..Len(s) : f[j] \in 1..n
  BY DEF Threads
<1>3. \A j \in 1..Len(s) : l.id[f[j]] = s[j]
  BY DEF Threads
<1>4. \A j \in 1..Len(s) : l.next[f[j]] = IF j = Len(s) THEN n + 1 ELSE f[j + 1]
  BY DEF Threads
<1>5. DOMAIN l.id = 1..n
  BY ONLY <1>2
<1>6. f[k] \in 1..n /\ f[k] \in DOMAIN l.id /\ l.id[f[k]] = s[k]
  BY ONLY <1>1, <1>2, <1>3, <1>5
<1>7. ASSUME k = Len(s) PROVE l.next[f[k]] = n + 1 /\ l.next[f[k]] \notin DOMAIN l.id
  <2>1. l.next[f[k]] = n + 1
    BY ONLY <1>1, <1>4, <1>7
  <2>2. n + 1 \notin 1..n
    BY ONLY <1>1
  <2>. QED  BY ONLY <2>1, <2>2, <1>5
<1>8. ASSUME k # Len(s)
      PROVE  /\ l.next[f[k]] = f[k + 1] /\ l.next[f[k]] \in DOMAIN l.id
             /\ l.id[l.next[f[k]]] = s[k + 1] /\ k + 1 \in 1..Len(s)
  <2>1. l.next[f[k]] = f[k + 1] /\ k + 1 \in 1..Len(s)
    BY ONLY <1>1, <1>4, <1>8
  <2>2. f[k + 1] \in 1..n /\ l.id[f[k + 1]] = s[k + 1]
    BY ONLY <1>2, <1>3, <2>1
  <2>. QED  BY ONLY <2>1, <2>2, <1>5
<1>. QED  BY <1>6, <1>7, <1>8

\* A cell that holds a number holds a symbol.
LEMMA HoldsSymbol ==
  ASSUME NEW l, NEW n, NEW s, NEW f, Threads(l, n, s, f), NEW p, p \in DOMAIN l.id, l.id[p] \in Nat
  PROVE  \E k \in 1..Len(s) : f[k] = p
<1>1. l.id \in [1..n -> Int]
  BY DEF Threads
<1>2. \A q \in 1..n : (\A k \in 1..Len(s) : f[k] # q) => l.id[q] = -1
  BY DEF Threads
<1>3. p \in 1..n
  BY ONLY <1>1, p \in DOMAIN l.id
<1>4. l.id[p] # -1
  BY l.id[p] \in Nat
<1>. QED  BY ONLY <1>2, <1>3, <1>4

\* The candidates pushed are those of what can be merged at the cells given.
LEMMA CandidatesAre ==
  ASSUME NEW ms, IsMerges(ms), NEW l, NEW n, NEW s, NEW f, n \in Nat, s \in Seq(Nat),
         Threads(l, n, s, f), NEW at
  PROVE  /\ \A c \in Candidates(ms, l, at) :
              \E k \in Can(ms, s) : c = CandAt(ms, s, f, k) /\ c.pos = f[k] /\ f[k] \in at
         /\ \A k \in Can(ms, s) : f[k] \in at => CandAt(ms, s, f, k) \in Candidates(ms, l, at)
<1> DEFINE rank(q) == Rank(ms, l.id[q], l.id[l.next[q]])
           cand(q) == [rank |-> rank(q), pos |-> q, left |-> l.id[q], right |-> l.id[l.next[q]]]
           Q == {q \in at : q \in DOMAIN l.id /\ l.next[q] \in DOMAIN l.id /\ rank(q) > 0}
<1>1. Candidates(ms, l, at) = {cand(q) : q \in Q}
  BY DEF Candidates
<1>2. ASSUME NEW k, k \in Can(ms, s), f[k] \in at
      PROVE  f[k] \in Q /\ cand(f[k]) = CandAt(ms, s, f, k)
  <2> DEFINE r == Rank(ms, s[k], s[k + 1])
  <2>1. r \in 1..Len(ms) /\ ms[r][1] = s[k] /\ ms[r][2] = s[k + 1] /\ k \in 1..Len(s) /\ k # Len(s)
    BY <1>2, CandAtIs
  <2>2. /\ f[k] \in DOMAIN l.id /\ l.id[f[k]] = s[k]
        /\ l.next[f[k]] \in DOMAIN l.id /\ l.id[l.next[f[k]]] = s[k + 1]
    BY <2>1, CellIs
  <2>3. rank(f[k]) = r
    BY <2>2
  <2> HIDE DEF r
  <2>4. r > 0
    BY <2>1
  <2>5. f[k] \in Q
    BY <1>2, <2>2, <2>3, <2>4
  <2>6. cand(f[k]) = [rank |-> r, pos |-> f[k], left |-> s[k], right |-> s[k + 1]]
    BY <2>2, <2>3
  <2>7. CandAt(ms, s, f, k) = [rank |-> r, pos |-> f[k], left |-> ms[r][1], right |-> ms[r][2]]
    BY DEF CandAt, CandOf, r
  <2>. QED  BY ONLY <2>1, <2>5, <2>6, <2>7
<1>3. ASSUME NEW q \in Q PROVE \E k \in Can(ms, s) : f[k] = q
  <2>1. q \in DOMAIN l.id /\ l.next[q] \in DOMAIN l.id /\ rank(q) > 0
    OBVIOUS
  <2>2. l.id[q] \in Nat
    BY <2>1, RankBounds
  <2>3. PICK k \in 1..Len(s) : f[k] = q
    BY <2>1, <2>2, HoldsSymbol
  <2>4. k # Len(s)
    BY <2>1, <2>3, CellIs
  <2>5. l.id[q] = s[k] /\ l.id[l.next[q]] = s[k + 1]
    <3>1. l.id[f[k]] = s[k] /\ l.id[l.next[f[k]]] = s[k + 1]
      BY <2>4, CellIs
    <3>. QED  BY ONLY <2>3, <3>1
  <2>6. Rank(ms, s[k], s[k + 1]) > 0
    BY <2>1, <2>5
  <2>7. k \in 1..(Len(s) - 1)
    BY <2>3, <2>4, LenProperties
  <2>. QED  BY <2>3, <2>6, <2>7 DEF Can
<1>4. \A c \in Candidates(ms, l, at) : \E q \in Q : c = cand(q) /\ q \in at
  BY <1>1
<1>5. \A q : cand(q).pos = q
  OBVIOUS
<1> HIDE DEF Q, cand
<1>6. \A c \in Candidates(ms, l, at) :
              \E k \in Can(ms, s) : c = CandAt(ms, s, f, k) /\ c.pos = f[k] /\ f[k] \in at
  <2> SUFFICES ASSUME NEW c \in Candidates(ms, l, at)
               PROVE \E k \in Can(ms, s) : c = CandAt(ms, s, f, k) /\ c.pos = f[k] /\ f[k] \in at
    OBVIOUS
  <2>1. PICK q \in Q : c = cand(q) /\ q \in at
    BY <1>4
  <2>2. PICK k \in Can(ms, s) : f[k] = q
    BY <1>3
  <2>3. f[k] \in at /\ k \in Can(ms, s)
    BY <2>1, <2>2
  <2>4. cand(f[k]) = CandAt(ms, s, f, k)
    BY ONLY <1>2, <2>3
  <2>. QED  BY ONLY <1>5, <2>1, <2>2, <2>3, <2>4
<1>7. \A k \in Can(ms, s) : f[k] \in at => CandAt(ms, s, f, k) \in Candidates(ms, l, at)
  BY ONLY <1>1, <1>2
<1>. QED  BY <1>6, <1>7

\* A candidate that is not stale is that of what can be merged, and conversely.
LEMMA StaleIs ==
  ASSUME NEW ms, IsMerges(ms), NEW l, NEW n, NEW s, NEW f, n \in Nat, s \in Seq(Nat), Threads(l, n, s, f)
  PROVE  /\ \A c \in Cands(ms, n) : ~Stale(l, c) => \E k \in Can(ms, s) : c = CandAt(ms, s, f, k)
         /\ \A k \in Can(ms, s) : ~Stale(l, CandAt(ms, s, f, k)) /\ CandAt(ms, s, f, k) \in Cands(ms, n)
<1>1. ASSUME NEW k \in Can(ms, s) PROVE ~Stale(l, CandAt(ms, s, f, k)) /\ CandAt(ms, s, f, k) \in Cands(ms, n)
  <2> DEFINE r == Rank(ms, s[k], s[k + 1])
             c == CandAt(ms, s, f, k)
  <2>1. r \in 1..Len(ms) /\ ms[r][1] = s[k] /\ ms[r][2] = s[k + 1] /\ k \in 1..Len(s) /\ k # Len(s)
    BY CandAtIs
  <2>2. /\ f[k] \in 1..n /\ l.id[f[k]] = s[k]
        /\ l.next[f[k]] \in DOMAIN l.id /\ l.id[l.next[f[k]]] = s[k + 1]
    BY <2>1, CellIs
  <2>3. c = CandOf(ms, r, f[k])
    BY DEF CandAt
  <2> HIDE DEF r, c
  <2>4. c.pos = f[k] /\ c.left = s[k] /\ c.right = s[k + 1]
    BY ONLY <2>1, <2>3, CandFields
  <2>5. ~Stale(l, c)
    BY ONLY <2>2, <2>4 DEF Stale
  <2>6. c \in Cands(ms, n)
    BY ONLY <2>1, <2>2, <2>3 DEF Cands
  <2>. QED  BY <2>5, <2>6 DEF c
<1>2. ASSUME NEW c \in Cands(ms, n), ~Stale(l, c) PROVE \E k \in Can(ms, s) : c = CandAt(ms, s, f, k)
  <2>1. PICK r \in 1..Len(ms), p \in 1..n : c = CandOf(ms, r, p)
    BY DEF Cands
  <2>2. c.pos = p /\ c.left = ms[r][1] /\ c.right = ms[r][2]
    BY <2>1, CandFields
  <2>3. l.id[p] = ms[r][1] /\ l.next[p] \in DOMAIN l.id /\ l.id[l.next[p]] = ms[r][2]
    BY ONLY <1>2, <2>2 DEF Stale
  <2>4. ms \in Seq(Nat \X Nat) /\ Len(ms) \in Nat
    BY LenProperties DEF IsMerges
  <2>5. ms[r] \in Nat \X Nat
    BY <2>4, ElementOfSeq
  <2>6. ms[r] = <<ms[r][1], ms[r][2]>> /\ ms[r][1] \in Nat
    BY ONLY <2>5
  <2>7. DOMAIN l.id = 1..n
    BY DEF Threads
  <2>8. PICK k \in 1..Len(s) : f[k] = p
    BY <2>3, <2>6, <2>7, HoldsSymbol
  <2>9. k # Len(s)
    BY <2>3, <2>8, CellIs
  <2>10. s[k] = ms[r][1] /\ s[k + 1] = ms[r][2]
    <3>1. l.id[f[k]] = s[k] /\ l.id[l.next[f[k]]] = s[k + 1]
      BY <2>9, CellIs
    <3>. QED  BY ONLY <2>3, <2>8, <3>1
  <2>11. ms[r] = <<s[k], s[k + 1]>>
    BY ONLY <2>6, <2>10
  <2> DEFINE t == Rank(ms, s[k], s[k + 1])
  <2>12. t > 0 /\ t \in 0..Len(ms) /\ ms[t] = <<s[k], s[k + 1]>>
    <3>1. t \in 0..Len(ms) /\ (t > 0 => ms[t] = <<s[k], s[k + 1]>>)
      BY <2>4, RankIs
    <3>2. t > 0
      BY <2>4, <2>11, RankIs
    <3>. QED  BY ONLY <3>1, <3>2
  <2> HIDE DEF t
  <2>13. t \in 1..Len(ms)
    BY ONLY <2>4, <2>12
  <2>14. t = r
    BY <2>11, <2>12, <2>13 DEF IsMerges
  <2>15. k \in 1..(Len(s) - 1)
    BY <2>8, <2>9, LenProperties
  <2>16. k \in Can(ms, s)
    BY <2>12, <2>15 DEF Can, t
  <2>17. c = CandAt(ms, s, f, k)
    BY ONLY <2>1, <2>8, <2>14 DEF CandAt, t
  <2>. QED  BY ONLY <2>16, <2>17
<1>. QED  BY <1>1, <1>2

\* There are finitely many candidates.
LEMMA CandsFinite == ASSUME NEW ms, NEW n, Len(ms) \in Nat, n \in Nat PROVE IsFiniteSet(Cands(ms, n))
<1> DEFINE D == (1..Len(ms)) \X (1..n)
           g == [d \in D |-> CandOf(ms, d[1], d[2])]
<1>1. IsFiniteSet(1..Len(ms)) /\ IsFiniteSet(1..n)
  <2>1. 1 \in Int /\ Len(ms) \in Int /\ n \in Int
    OBVIOUS
  <2>. QED  BY <2>1, FS_Interval
<1>2. IsFiniteSet(D)
  BY <1>1, FS_Product
<1>3. g \in [D -> Cands(ms, n)]
  BY DEF Cands
<1>4. ASSUME NEW c \in Cands(ms, n) PROVE \E d \in D : g[d] = c
  <2>1. PICK r \in 1..Len(ms), p \in 1..n : c = CandOf(ms, r, p)
    BY DEF Cands
  <2>2. <<r, p>> \in D /\ g[<<r, p>>] = CandOf(ms, r, p)
    OBVIOUS
  <2>. QED  BY ONLY <2>1, <2>2
<1> HIDE DEF D, g
<1>5. g \in Surjection(D, Cands(ms, n))
  BY <1>3, <1>4 DEF Surjection
<1>. QED  BY <1>2, <1>5, FS_Surjection

\* The candidate that comes out of the heap: the lowest rank, leftmost first.
First(H, c) == c \in H /\ \A y \in H : c.rank < y.rank \/ (c.rank = y.rank /\ c.pos <= y.pos)

\* The first of the candidates is there when there are candidates.
LEMMA TopCandIs ==
  ASSUME NEW ms, NEW n, NEW H, n \in Nat, Len(ms) \in Nat, H \in SUBSET Cands(ms, n), H # {}
  PROVE  First(H, CHOOSE x \in H : \A y \in H : x.rank < y.rank \/ (x.rank = y.rank /\ x.pos <= y.pos))
<1>1. ASSUME NEW c \in H PROVE c.rank \in Nat /\ c.pos \in Nat
  <2>1. PICK r \in 1..Len(ms), p \in 1..n : c = CandOf(ms, r, p)
    BY DEF Cands
  <2>2. c.rank = r /\ c.pos = p
    BY <2>1, CandFields
  <2>. QED  BY ONLY <2>2, n \in Nat, Len(ms) \in Nat, r \in 1..Len(ms), p \in 1..n
<1> DEFINE R == {c.rank : c \in H}
<1>2. R \in SUBSET Nat /\ R # {}
  BY <1>1
<1>3. PICK r \in R : \A q \in R : r <= q
  BY <1>2, LeastElement
<1> DEFINE G == {c \in H : c.rank = r}
           P == {c.pos : c \in G}
<1>4. P \in SUBSET Nat /\ P # {}
  BY <1>1
<1>5. PICK p \in P : \A q \in P : p <= q
  BY <1>4, LeastElement
<1>6. PICK c \in H : c.rank = r /\ c.pos = p
  OBVIOUS
<1>7. ASSUME NEW y \in H PROVE c.rank < y.rank \/ (c.rank = y.rank /\ c.pos <= y.pos)
  <2>1. r <= y.rank /\ r \in Nat /\ y.rank \in Nat
    BY <1>1, <1>2, <1>3
  <2>2. y.rank = r => p <= y.pos
    BY <1>5
  <2> HIDE DEF P, R, G
  <2>. QED  BY ONLY <1>6, <2>1, <2>2
<1>8. \E x \in H : \A y \in H : x.rank < y.rank \/ (x.rank = y.rank /\ x.pos <= y.pos)
  BY <1>7
<1>. QED  BY <1>8, Zenon DEF First

\* At most as many candidates as cells are pushed.
LEMMA CandidatesCount ==
  ASSUME NEW ms, NEW l, NEW at, IsFiniteSet(at)
  PROVE  /\ IsFiniteSet(Candidates(ms, l, at)) /\ Cardinality(Candidates(ms, l, at)) \in Nat
         /\ Cardinality(Candidates(ms, l, at)) <= Cardinality(at)
<1> DEFINE cand(q) == [rank |-> Rank(ms, l.id[q], l.id[l.next[q]]), pos |-> q,
                       left |-> l.id[q], right |-> l.id[l.next[q]]]
           Q == {q \in at : q \in DOMAIN l.id /\ l.next[q] \in DOMAIN l.id
                            /\ Rank(ms, l.id[q], l.id[l.next[q]]) > 0}
           C == Candidates(ms, l, at)
           g == [q \in Q |-> cand(q)]
<1>1. C = {cand(q) : q \in Q}
  BY DEF Candidates
<1> HIDE DEF cand, C
<1>2. g \in [Q -> C] /\ \A c \in C : \E q \in Q : g[q] = c
  BY <1>1
<1>3. Q \in SUBSET at
  OBVIOUS
<1> HIDE DEF Q, g
<1>4. IsFiniteSet(Q) /\ Cardinality(Q) <= Cardinality(at)
  BY <1>3, FS_Subset
<1>5. g \in Surjection(Q, C)
  BY <1>2 DEF Surjection
<1>6. IsFiniteSet(C) /\ Cardinality(C) <= Cardinality(Q)
  BY <1>4, <1>5, FS_Surjection
<1>7. Cardinality(C) \in Nat /\ Cardinality(Q) \in Nat /\ Cardinality(at) \in Nat
  BY <1>4, <1>6, FS_CardinalityType
<1>8. Cardinality(C) <= Cardinality(at)
  BY ONLY <1>4, <1>6, <1>7
<1>. QED  BY <1>6, <1>7, <1>8 DEF C

\* A merge takes one candidate out and puts at most two in.
LEMMA HeapCount ==
  ASSUME NEW ms, NEW l, NEW H, NEW c, NEW a, NEW b, IsFiniteSet(H), c \in H
  PROVE  LET G == (H \ {c}) \cup Candidates(ms, l, {a, b})
         IN  IsFiniteSet(G) /\ Cardinality(G) \in Nat /\ Cardinality(G) <= Cardinality(H) + 1
<1> DEFINE C == Candidates(ms, l, {a, b})
           G == (H \ {c}) \cup C
<1>1. IsFiniteSet({a, b}) /\ Cardinality({a, b}) <= 2
  <2>1. IsFiniteSet({a}) /\ Cardinality({a}) = 1
    BY FS_Singleton
  <2>2. {a, b} = {a} \cup {b}
    OBVIOUS
  <2>3. IsFiniteSet({a} \cup {b}) /\ Cardinality({a} \cup {b}) = IF b \in {a} THEN 1 ELSE 2
    BY <2>1, FS_AddElement
  <2>. QED  BY <2>2, <2>3
<1>2. IsFiniteSet(C) /\ Cardinality(C) \in Nat /\ Cardinality(C) <= Cardinality({a, b})
  BY <1>1, CandidatesCount
<1>3. Cardinality({a, b}) \in Nat /\ Cardinality(H) \in Nat
  BY <1>1, FS_CardinalityType
<1>4. IsFiniteSet(H \ {c}) /\ Cardinality(H \ {c}) = Cardinality(H) - 1
  BY FS_RemoveElement
<1> HIDE DEF C
<1>5. IsFiniteSet(G) /\ Cardinality(G) = Cardinality(H \ {c}) + Cardinality(C) - Cardinality((H \ {c}) \cap C)
  BY <1>2, <1>4, FS_Union
<1>6. IsFiniteSet((H \ {c}) \cap C)
  BY <1>4, FS_Intersection
<1>7. Cardinality((H \ {c}) \cap C) \in Nat /\ Cardinality(G) \in Nat
  BY <1>5, <1>6, FS_CardinalityType
<1>. QED  BY <1>1, <1>2, <1>3, <1>4, <1>5, <1>7 DEF C

\* What the heap encoder works on: d.list holds the symbols s, and whatever can be
\* merged in s has its candidate in d.heap.
HeapInv(ms, n, d, s, f) ==
  /\ s \in Seq(Nat) /\ Threads(d.list, n, s, f) /\ d.heap \in SUBSET Cands(ms, n)
  /\ \A k \in Can(ms, s) : CandAt(ms, s, f, k) \in d.heap

Lists(n) == [id : [1..n -> Int], next : [1..n -> Nat], prev : [1..n -> Nat]]
Heaps(ms, n) == [list : Lists(n), heap : SUBSET Cands(ms, n)]

\* A candidate in a proper heap that is not stale and comes first is the scan's choice.
LEMMA FirstIsBest ==
  ASSUME NEW ms, IsMerges(ms), NEW n, n \in Nat, NEW d, NEW s, NEW f, HeapInv(ms, n, d, s, f),
         NEW c, First(d.heap, c), ~Stale(d.list, c)
  PROVE  \E k : /\ k \in Can(ms, s) /\ c = CandAt(ms, s, f, k) /\ IsBest(ms, s, k)
                /\ c.pos = f[k] /\ c.rank = Rank(ms, s[k], s[k + 1])
<1>1. s \in Seq(Nat) /\ Threads(d.list, n, s, f) /\ d.heap \in SUBSET Cands(ms, n)
  BY DEF HeapInv
<1>2. c \in d.heap /\ c \in Cands(ms, n)
  BY <1>1 DEF First
<1>3. PICK k \in Can(ms, s) : c = CandAt(ms, s, f, k)
  BY <1>1, <1>2, StaleIs
<1>4. \A j : CandAt(ms, s, f, j).rank = Rank(ms, s[j], s[j + 1]) /\ CandAt(ms, s, f, j).pos = f[j]
  BY CandFields DEF CandAt
<1>5. \A j \in Can(ms, s) : j \in 1..Len(s) /\ f[j] \in 1..n
  <2>1. \A j \in Can(ms, s) : j \in 1..Len(s)
    BY <1>1, CandAtIs
  <2>2. \A j \in 1..Len(s) : f[j] \in 1..n
    BY <1>1 DEF Threads
  <2>. QED  BY ONLY <2>1, <2>2
<1>6. \A i, j \in 1..Len(s) : i < j => f[i] < f[j]
  BY <1>1 DEF Threads
<1>7. ASSUME NEW j \in Can(ms, s)
      PROVE  \/ Rank(ms, s[k], s[k + 1]) < Rank(ms, s[j], s[j + 1])
             \/ Rank(ms, s[k], s[k + 1]) = Rank(ms, s[j], s[j + 1]) /\ k <= j
  <2> DEFINE y == CandAt(ms, s, f, j)
  <2>1. y \in d.heap
    BY DEF HeapInv
  <2>2. c.rank < y.rank \/ (c.rank = y.rank /\ c.pos <= y.pos)
    BY <2>1 DEF First
  <2>3. c.rank = Rank(ms, s[k], s[k + 1]) /\ c.pos = f[k] /\ y.rank = Rank(ms, s[j], s[j + 1]) /\ y.pos = f[j]
    BY ONLY <1>3, <1>4
  <2>4. f[k] <= f[j] => k <= j
    <3>1. k \in 1..Len(s) /\ j \in 1..Len(s) /\ f[k] \in 1..n /\ f[j] \in 1..n
      BY <1>5
    <3>2. j < k => f[j] < f[k]
      BY ONLY <1>6, <3>1
    <3>3. Len(s) \in Nat
      BY <1>1, LenProperties
    <3>. QED  BY ONLY <3>1, <3>2, <3>3, n \in Nat
  <2> HIDE DEF y
  <2>. QED  BY ONLY <2>2, <2>3, <2>4
<1>8. IsBest(ms, s, k)
  BY <1>7 DEF IsBest
<1>. QED  BY <1>3, <1>4, <1>8

\* What can be merged after a merge is new beside it, or could be merged before.
LEMMA CandsAfter ==
  ASSUME NEW ms, IsMerges(ms), NEW n, n \in Nat, NEW d, NEW s, NEW f, HeapInv(ms, n, d, s, f),
         NEW k, k \in Can(ms, s), NEW id, id \in Nat, NEW j, j \in Can(ms, MergeAt(s, k, id)),
         j # k, j # k - 1
  PROVE  /\ CandAt(ms, MergeAt(s, k, id), Closed(f, Len(s), k), j) \in d.heap
         /\ CandAt(ms, MergeAt(s, k, id), Closed(f, Len(s), k), j).pos # f[k]
<1> DEFINE t == MergeAt(s, k, id)
           g == Closed(f, Len(s), k)
           m == Len(s)
<1>0. s \in Seq(Nat) /\ Threads(d.list, n, s, f)
  BY DEF HeapInv
<1>1. m \in Nat /\ k \in 1..(m - 1)
  BY <1>0, LenProperties DEF Can
<1>2. t \in Seq(Nat) /\ Len(t) = m - 1 /\ \A i \in 1..(m - 1) : t[i] = IF i < k THEN s[i] ELSE IF i = k THEN id ELSE s[i + 1]
  BY <1>0, <1>1, MergeAtNat
<1>3. \A i \in 1..(m - 1) : g[i] = IF i <= k THEN f[i] ELSE f[i + 1]
  BY DEF Closed
<1>4. \A i, h \in 1..m : i < h => f[i] < f[h]
  BY <1>0 DEF Threads
<1>5. \A i \in 1..m : f[i] \in 1..n
  BY <1>0 DEF Threads
<1>6. j \in 1..(Len(t) - 1) /\ Rank(ms, t[j], t[j + 1]) > 0
  BY DEF Can
<1>7. CandAt(ms, t, g, j) = CandOf(ms, Rank(ms, t[j], t[j + 1]), g[j])
  BY DEF CandAt
<1>8. CandAt(ms, t, g, j).pos = g[j]
  BY <1>7, CandFields
<1>9. \A i \in 1..(m - 1) : Rank(ms, s[i], s[i + 1]) > 0 => CandOf(ms, Rank(ms, s[i], s[i + 1]), f[i]) \in d.heap
  BY DEF HeapInv, Can, CandAt
<1> HIDE DEF t, g, m
<1>13. Len(t) = m - 1 /\ j \in 1..(Len(t) - 1) /\ j # k - 1 /\ j # k
  BY ONLY <1>2, <1>6, j # k - 1, j # k
<1>10. j \in 1..(m - 1) /\ j + 1 \in 1..(m - 1) /\ j \in Nat /\ k \in Nat /\ k # j + 1
  BY ONLY <1>1, <1>13
<1>11. CASE j < k
  <2>1. j + 1 < k
    BY ONLY <1>10, <1>11
  <2>2. t[j] = s[j] /\ t[j + 1] = s[j + 1]
    BY ONLY <1>2, <1>10, <1>11, <2>1
  <2>3. g[j] = f[j]
    BY ONLY <1>3, <1>10, <1>11
  <2>4. f[j] < f[k] /\ f[j] \in 1..n /\ f[k] \in 1..n
    <3>1. j \in 1..m /\ k \in 1..m
      BY ONLY <1>1, <1>10
    <3>. QED  BY ONLY <1>4, <1>5, <1>11, <3>1
  <2>5. g[j] # f[k]
    BY ONLY <2>3, <2>4, n \in Nat
  <2>6. CandAt(ms, t, g, j) \in d.heap
    BY ONLY <1>6, <1>7, <1>9, <1>10, <2>2, <2>3
  <2>. QED  BY ONLY <1>8, <2>5, <2>6 DEF t, g, m
<1>12. CASE k < j
  <2>1. k < j + 1 /\ ~(j <= k) /\ j + 1 \in 1..m /\ k \in 1..m /\ ~(j < k) /\ ~(j + 1 < k)
    BY ONLY <1>1, <1>10, <1>12
  <2>2. t[j] = s[j + 1] /\ t[j + 1] = s[(j + 1) + 1]
    BY ONLY <1>2, <1>10, <1>12, <2>1, j # k
  <2>3. g[j] = f[j + 1]
    BY ONLY <1>3, <1>10, <2>1
  <2>4. f[k] < f[j + 1] /\ f[j + 1] \in 1..n /\ f[k] \in 1..n
    BY ONLY <1>4, <1>5, <2>1
  <2>5. g[j] # f[k]
    BY ONLY <2>3, <2>4, n \in Nat
  <2>6. CandAt(ms, t, g, j) \in d.heap
    BY ONLY <1>6, <1>7, <1>9, <1>10, <2>2, <2>3
  <2>. QED  BY ONLY <1>8, <2>5, <2>6 DEF t, g, m
<1>. QED  BY ONLY <1>10, <1>11, <1>12, j # k DEF t, g, m

\* Merging the first candidate keeps the heap complete.
LEMMA MergeKeepsHeap ==
  ASSUME NEW ms, IsMerges(ms), NEW n, n \in Nat, NEW d, NEW s, NEW f, HeapInv(ms, n, d, s, f),
         NEW k, k \in Can(ms, s), NEW c, c = CandAt(ms, s, f, k),
         NEW e, e.list = Unlink(d.list, c.pos, 255 + c.rank),
         e.heap = (d.heap \ {c}) \cup Candidates(ms, e.list, {e.list.prev[c.pos], c.pos}),
         NEW id, id = 255 + Rank(ms, s[k], s[k + 1])
  PROVE  HeapInv(ms, n, e, MergeAt(s, k, id), Closed(f, Len(s), k))
<1> DEFINE r == Rank(ms, s[k], s[k + 1])
           t == MergeAt(s, k, id)
           g == Closed(f, Len(s), k)
           l == e.list
           m == Len(s)
           at == {l.prev[c.pos], c.pos}
<1>0. s \in Seq(Nat) /\ Threads(d.list, n, s, f) /\ d.heap \in SUBSET Cands(ms, n) /\ m \in Nat
  BY LenProperties DEF HeapInv
<1>1. r \in 1..Len(ms) /\ k \in 1..m /\ k # m /\ Len(ms) \in Nat
  <2>1. Len(ms) \in Nat
    BY LenProperties DEF IsMerges
  <2>. QED  BY <1>0, <2>1, CandAtIs
<1>2. c.pos = f[k] /\ c.rank = r
  BY CandFields DEF CandAt
<1> HIDE DEF r, m
<1>12. id = 255 + r
  BY DEF r
<1>3. id \in Nat /\ k \in 1..(m - 1) /\ k \in Nat
  BY ONLY <1>0, <1>1, <1>12
<1>4. Threads(l, n, t, g)
  <2>1. l = Unlink(d.list, f[k], id)
    BY ONLY <1>2, e.list = Unlink(d.list, c.pos, 255 + c.rank), <1>12 DEF l
  <2>2. k \in 1..(Len(s) - 1)
    BY <1>3 DEF m
  <2>3. Threads(Unlink(d.list, f[k], id), n, MergeAt(s, k, id), Closed(f, Len(s), k))
    BY ONLY <1>0, <1>3, <2>2, n \in Nat, UnlinkIs
  <2>. QED  BY ONLY <2>1, <2>3 DEF t, g
<1>5. t \in Seq(Nat) /\ Len(t) = m - 1
  <2>1. s \in Seq(Nat) /\ k \in 1..(Len(s) - 1) /\ id \in Nat
    BY ONLY <1>0, <1>3 DEF m
  <2>2. t \in Seq(Nat) /\ Len(t) = Len(s) - 1
    BY ONLY <2>1, MergeAtNat DEF t
  <2>. QED  BY ONLY <2>2 DEF m
<1>6. \A i \in 1..(m - 1) : g[i] = IF i <= k THEN f[i] ELSE f[i + 1]
  BY DEF Closed, m
<1> HIDE DEF t, g, l
<1>7. g[k] = f[k]
  BY ONLY <1>3, <1>6
<1>8. k # 1 => l.prev[c.pos] = g[k - 1]
  <2>1. \A i \in 1..Len(t) : l.prev[g[i]] = IF i = 1 THEN 0 ELSE g[i - 1]
    BY <1>4 DEF Threads
  <2>. QED  BY ONLY <1>2, <1>3, <1>5, <1>7, <2>1
<1>9. ASSUME NEW j \in Can(ms, t) PROVE CandAt(ms, t, g, j) \in e.heap
  <2>0. j \in 1..(Len(t) - 1) /\ Len(t) \in Nat
    BY <1>5, LenProperties DEF Can
  <2>1. CASE j = k \/ j = k - 1
    <3>1. g[j] \in at
      <4>1. CASE j = k
        BY ONLY <1>2, <1>7, <4>1
      <4>2. CASE j = k - 1
        <5>1. k # 1
          BY ONLY <1>3, <2>0, <4>2
        <5>. QED  BY ONLY <1>8, <4>2, <5>1
      <4>. QED  BY ONLY <2>1, <4>1, <4>2
    <3> HIDE DEF at
    <3>2. CandAt(ms, t, g, j) \in Candidates(ms, l, at)
      BY <1>4, <1>5, <3>1, CandidatesAre
    <3>. QED  BY ONLY <3>2, e.heap = (d.heap \ {c}) \cup Candidates(ms, e.list, {e.list.prev[c.pos], c.pos}) DEF at, l
  <2>2. CASE j # k /\ j # k - 1
    <3>1. CandAt(ms, t, g, j) \in d.heap /\ CandAt(ms, t, g, j).pos # f[k]
      <4>1. j \in Can(ms, MergeAt(s, k, id))
        BY DEF t
      <4>2. IsMerges(ms) /\ n \in Nat /\ HeapInv(ms, n, d, s, f) /\ k \in Can(ms, s)
        OBVIOUS
      <4>3. id \in Nat
        BY <1>3
      <4>4. t = MergeAt(s, k, id) /\ g = Closed(f, Len(s), k)
        BY DEF t, g
      <4>. QED  BY ONLY <2>2, <4>1, <4>2, <4>3, <4>4, CandsAfter
    <3>2. CandAt(ms, t, g, j) # c
      BY ONLY <1>2, <3>1
    <3>. QED  BY ONLY <3>1, <3>2, e.heap = (d.heap \ {c}) \cup Candidates(ms, e.list, {e.list.prev[c.pos], c.pos})
  <2>. QED  BY ONLY <2>1, <2>2
<1>10. e.heap \in SUBSET Cands(ms, n)
  <2>1. ASSUME NEW x \in Candidates(ms, l, at) PROVE x \in Cands(ms, n)
    <3> HIDE DEF at
    <3>1. PICK j \in Can(ms, t) : x = CandAt(ms, t, g, j)
      BY <1>4, <1>5, CandidatesAre
    <3>. QED  BY <1>4, <1>5, <3>1, StaleIs
  <2>. QED  BY ONLY <1>0, <2>1, e.heap = (d.heap \ {c}) \cup Candidates(ms, e.list, {e.list.prev[c.pos], c.pos}) DEF l
<1>11. HeapInv(ms, n, e, t, g)
  BY ONLY <1>4, <1>5, <1>9, <1>10 DEF HeapInv, l
<1>. QED  BY <1>11 DEF t, g

\* How much the heap encoder may still do.
Left(d, s) == Cardinality(d.heap) + 2 * Len(s)

\* What the step makes of d when c is first: c is dropped or its merge is made.
Drained(ms, d, c, e) ==
  LET l == Unlink(d.list, c.pos, 255 + c.rank)
  IN  /\ First(d.heap, c)
      /\ Stale(d.list, c) => e = [list |-> d.list, heap |-> d.heap \ {c}]
      /\ ~Stale(d.list, c) =>
           e = [list |-> l, heap |-> (d.heap \ {c}) \cup Candidates(ms, l, {l.prev[c.pos], c.pos})]

\* What the step works on, by cases.
LEMMA DrainStepIs ==
  ASSUME NEW ms, IsMerges(ms), NEW n, n \in Nat, NEW d, d \in Heaps(ms, n)
  PROVE  /\ d.heap = {} => DrainStep(ms)[d] = d
         /\ d.heap # {} => \E c : Drained(ms, d, c, DrainStep(ms)[d])
<1> DEFINE c == CHOOSE x \in d.heap : \A y \in d.heap : x.rank < y.rank \/ (x.rank = y.rank /\ x.pos <= y.pos)
           l == Unlink(d.list, c.pos, 255 + c.rank)
           D == [list : [id : Seq(Int), next : Seq(Nat), prev : Seq(Nat)],
                 heap : SUBSET [rank : Nat, pos : Nat, left : Nat, right : Nat]]
<1>1. d = [list |-> d.list, heap |-> d.heap] /\ d.list \in Lists(n) /\ d.heap \in SUBSET Cands(ms, n)
  BY DEF Heaps
<1>2. Len(ms) \in Nat /\ ms \in Seq(Nat \X Nat)
  BY LenProperties DEF IsMerges
<1>3. d.list \in [id : Seq(Int), next : Seq(Nat), prev : Seq(Nat)]
  <2> DEFINE e == d.list
             S == Nat
             T == Int
  <2>1. e = [id |-> e.id, next |-> e.next, prev |-> e.prev] /\ e.id \in [1..n -> Int] /\ e.next \in [1..n -> Nat]
        /\ e.prev \in [1..n -> Nat]
    BY <1>1 DEF Lists
  <2>2. e.id \in [1..n -> T] /\ e.next \in [1..n -> S] /\ e.prev \in [1..n -> S]
    BY ONLY <2>1
  <2> HIDE DEF S, T
  <2>3. e.id \in Seq(T) /\ e.next \in Seq(S) /\ e.prev \in Seq(S)
    BY ONLY <2>2, n \in Nat, FunIsSeq
  <2>4. e \in [id : Seq(T), next : Seq(S), prev : Seq(S)]
    BY ONLY <2>1, <2>3
  <2>. QED  BY <2>4 DEF e, S, T
<1>4. Cands(ms, n) \subseteq [rank : Nat, pos : Nat, left : Nat, right : Nat]
  <2> SUFFICES ASSUME NEW x \in Cands(ms, n) PROVE x \in [rank : Nat, pos : Nat, left : Nat, right : Nat]
    OBVIOUS
  <2>1. PICK r \in 1..Len(ms), p \in 1..n : x = CandOf(ms, r, p)
    BY DEF Cands
  <2>2. ms[r] \in Nat \X Nat
    BY <1>2, ElementOfSeq
  <2>3. ms[r][1] \in Nat /\ ms[r][2] \in Nat /\ r \in Nat /\ p \in Nat
    BY <1>2, <2>2
  <2>. QED  BY ONLY <2>1, <2>3 DEF CandOf
<1>5. d \in D
  <2>1. d.heap \in SUBSET [rank : Nat, pos : Nat, left : Nat, right : Nat]
    BY ONLY <1>1, <1>4
  <2>. QED  BY ONLY <1>1, <1>3, <2>1
<1> HIDE DEF D
<1>6. DrainStep(ms)[d] = IF d.heap = {} THEN d ELSE IF Stale(d.list, c) THEN [d EXCEPT !.heap = @ \ {c}]
                         ELSE [list |-> l, heap |-> (d.heap \ {c}) \cup Candidates(ms, l, {l.prev[c.pos], c.pos})]
  BY <1>5, Zenon DEF DrainStep, D
<1>7. d.heap # {} => First(d.heap, c)
  BY <1>1, <1>2, TopCandIs
<1> HIDE DEF c
<1>8. [d EXCEPT !.heap = @ \ {c}] = [list |-> d.list, heap |-> d.heap \ {c}]
  BY ONLY <1>1
<1>9. d.heap = {} => DrainStep(ms)[d] = d
  BY ONLY <1>6
<1>10. d.heap # {} /\ Stale(d.list, c) => DrainStep(ms)[d] = [list |-> d.list, heap |-> d.heap \ {c}]
  BY ONLY <1>6, <1>8
<1>11. d.heap # {} /\ ~Stale(d.list, c) =>
         DrainStep(ms)[d] = [list |-> l, heap |-> (d.heap \ {c}) \cup Candidates(ms, l, {l.prev[c.pos], c.pos})]
  BY ONLY <1>6
<1>12. d.heap # {} => Drained(ms, d, c, DrainStep(ms)[d])
  BY ONLY <1>7, <1>10, <1>11 DEF Drained
<1>. QED  BY ONLY <1>9, <1>12

\* A candidate that is taken leaves less to do and encodes the same.
LEMMA DrainStepKeeps ==
  ASSUME NEW ms, IsMerges(ms), NEW n, n \in Nat, NEW d, d \in Heaps(ms, n), NEW s, NEW f, HeapInv(ms, n, d, s, f),
         d.heap # {}
  PROVE  LET e == DrainStep(ms)[d]
         IN  /\ e \in Heaps(ms, n)
             /\ \E t, g : HeapInv(ms, n, e, t, g) /\ Scan(ms, t) = Scan(ms, s) /\ Left(e, t) < Left(d, s)
<1> DEFINE e == DrainStep(ms)[d]
<1>0. s \in Seq(Nat) /\ Threads(d.list, n, s, f) /\ d.heap \in SUBSET Cands(ms, n) /\ Len(s) \in Nat
  BY LenProperties DEF HeapInv
<1>1. Len(ms) \in Nat
  BY LenProperties DEF IsMerges
<1>2. IsFiniteSet(d.heap) /\ Cardinality(d.heap) \in Nat
  BY <1>0, <1>1, CandsFinite, FS_Subset, FS_CardinalityType
<1>7. PICK c : Drained(ms, d, c, e)
  BY DrainStepIs
<1> HIDE DEF e
<1>3. First(d.heap, c) /\ (Stale(d.list, c) => e = [list |-> d.list, heap |-> d.heap \ {c}])
  BY ONLY <1>7 DEF Drained
<1>8. ~Stale(d.list, c) =>
        LET l == Unlink(d.list, c.pos, 255 + c.rank)
        IN  e = [list |-> l, heap |-> (d.heap \ {c}) \cup Candidates(ms, l, {l.prev[c.pos], c.pos})]
  BY ONLY <1>7 DEF Drained
<1>4. c \in d.heap
  BY <1>3 DEF First
<1>5. CASE Stale(d.list, c)
  <2>1. e.list = d.list /\ e.heap = d.heap \ {c} /\ e = [list |-> d.list, heap |-> d.heap \ {c}]
    BY <1>3, <1>5
  <2>2. \A k \in Can(ms, s) : CandAt(ms, s, f, k) # c
    BY <1>0, <1>5, StaleIs
  <2>3. \A k \in Can(ms, s) : CandAt(ms, s, f, k) \in e.heap
    BY <2>1, <2>2 DEF HeapInv
  <2>4. e.heap \in SUBSET Cands(ms, n)
    BY ONLY <1>0, <2>1
  <2>5. HeapInv(ms, n, e, s, f)
    BY ONLY <1>0, <2>1, <2>3, <2>4 DEF HeapInv
  <2>6. d.list \in Lists(n)
    BY DEF Heaps
  <2>7. e \in Heaps(ms, n)
    BY ONLY <2>1, <2>4, <2>6 DEF Heaps
  <2>8. Cardinality(e.heap) = Cardinality(d.heap) - 1
    BY <1>2, <1>4, <2>1, FS_RemoveElement
  <2>9. Left(e, s) < Left(d, s)
    BY ONLY <1>0, <1>2, <2>8 DEF Left
  <2>. QED  BY <2>5, <2>7, <2>9 DEF e
<1>6. CASE ~Stale(d.list, c)
  <2> DEFINE l == Unlink(d.list, c.pos, 255 + c.rank)
             H == (d.heap \ {c}) \cup Candidates(ms, l, {l.prev[c.pos], c.pos})
  <2>1. e = [list |-> l, heap |-> H]
    BY ONLY <1>6, <1>8
  <2> HIDE DEF l, H
  <2>2. e.list = l /\ e.heap = H
    BY ONLY <2>1
  <2>3. PICK k : /\ k \in Can(ms, s) /\ c = CandAt(ms, s, f, k) /\ IsBest(ms, s, k)
                 /\ c.pos = f[k] /\ c.rank = Rank(ms, s[k], s[k + 1])
    <3>1. IsMerges(ms) /\ n \in Nat /\ HeapInv(ms, n, d, s, f)
      OBVIOUS
    <3>. QED  BY ONLY <1>3, <1>6, <3>1, FirstIsBest
  <2> DEFINE id == 255 + Rank(ms, s[k], s[k + 1])
             t == MergeAt(s, k, id)
             g == Closed(f, Len(s), k)
  <2>13. id = 255 + Rank(ms, s[k], s[k + 1])
    OBVIOUS
  <2>5. t = ScanStep(ms)[s]
    BY <1>0, <1>1, <2>3, ScanStepIs
  <2> HIDE DEF id
  <2>4. HeapInv(ms, n, e, t, g)
    <3>1. e.list = Unlink(d.list, c.pos, 255 + c.rank)
      BY ONLY <2>2 DEF l
    <3>2. e.heap = (d.heap \ {c}) \cup Candidates(ms, e.list, {e.list.prev[c.pos], c.pos})
      BY ONLY <2>2 DEF H
    <3>3. IsMerges(ms) /\ n \in Nat /\ HeapInv(ms, n, d, s, f)
      OBVIOUS
    <3>. QED  BY ONLY <2>3, <2>13, <3>1, <3>2, <3>3, MergeKeepsHeap
  <2>6. Scan(ms, t) = Scan(ms, s)
    BY <1>0, <2>5, ScanFirst
  <2>7. Len(t) = Len(s) - 1
    <3>1. Can(ms, s) # {}
      BY <2>3
    <3>2. ScanStep(ms)[s] # s
      BY <1>0, <3>1, ScanStepShortens
    <3>3. Len(ScanStep(ms)[s]) = Len(s) - 1
      BY <1>0, <3>2, ScanStepShortens
    <3>. QED  BY ONLY <2>5, <3>3
  <2> HIDE DEF t, g
  <2>8. Cardinality(H) \in Nat /\ Cardinality(H) <= Cardinality(d.heap) + 1
    BY <1>2, <1>4, HeapCount DEF H
  <2>9. Left(e, t) < Left(d, s)
    BY ONLY <1>0, <1>2, <2>2, <2>7, <2>8 DEF Left
  <2>10. H \in SUBSET Cands(ms, n) /\ Threads(l, n, t, g)
    BY ONLY <2>2, <2>4 DEF HeapInv
  <2>11. l \in Lists(n)
    <3>1. l = [id |-> l.id, next |-> l.next, prev |-> l.prev]
      BY DEF l, Unlink
    <3>2. l.id \in [1..n -> Int] /\ l.next \in [1..n -> Nat] /\ l.prev \in [1..n -> Nat]
      BY ONLY <2>10 DEF Threads
    <3>. QED  BY ONLY <3>1, <3>2 DEF Lists
  <2>12. e \in Heaps(ms, n)
    BY ONLY <2>1, <2>10, <2>11 DEF Heaps
  <2>. QED  BY <2>4, <2>6, <2>9, <2>12 DEF e
<1>. QED  BY <1>5, <1>6

\* The list of a piece holds its bytes, cell by cell.
LEMMA LinkedIs ==
  ASSUME NEW piece, piece \in Seq(Nat), NEW n, n = Len(piece), n # 0
  PROVE  Linked(piece) \in Lists(n) /\ Threads(Linked(piece), n, piece, [k \in 1..n |-> k])
<1> DEFINE l == Linked(piece)
           f == [k \in 1..n |-> k]
           T == Nat
           nx == [i \in 1..n |-> i + 1]
           pv == [i \in 1..n |-> i - 1]
<1>0. n \in Nat /\ DOMAIN piece = 1..n
  BY LenProperties
<1>1. piece \in [1..n -> Int] /\ \A k \in 1..n : piece[k] \in Nat
  <2>1. \A k \in 1..n : piece[k] \in Nat
    BY <1>0, ElementOfSeq
  <2>2. piece = [k \in 1..n |-> piece[k]]
    BY <1>0, LenProperties
  <2> HIDE DEF f, l
  <2>. QED  BY ONLY <2>1, <2>2
<1>2. l = [id |-> piece, next |-> nx, prev |-> pv]
  BY <1>0 DEF Linked
<1> HIDE DEF l
<1>3. nx \in [1..n -> Nat] /\ pv \in [1..n -> Nat]
  BY ONLY <1>0
<1>4. l.id = piece /\ l.next = nx /\ l.prev = pv
  BY ONLY <1>2
<1>5. (\A k \in 1..n : f[k] = k) /\ f[1] = 1 /\ n \in 1..n /\ 1 \in 1..n
  BY ONLY <1>0, n # 0
<1>6. (\A k \in 1..n : nx[k] = k + 1) /\ (\A k \in 1..n : pv[k] = k - 1)
  OBVIOUS
<1> HIDE DEF f, nx, pv
<1>7. l \in Lists(n)
  BY ONLY <1>1, <1>2, <1>3 DEF Lists
<1>8. \A j, k \in 1..n : j < k => f[j] < f[k]
  BY ONLY <1>5
<1>9. \A k \in 1..n : l.id[f[k]] = piece[k]
  BY ONLY <1>4, <1>5
<1>10. \A k \in 1..n : l.next[f[k]] = IF k = n THEN n + 1 ELSE f[k + 1]
  <2> SUFFICES ASSUME NEW k, k \in 1..n PROVE l.next[f[k]] = IF k = n THEN n + 1 ELSE f[k + 1]
    OBVIOUS
  <2>0. k \in 1..n
    OBVIOUS
  <2>1. l.next[f[k]] = k + 1
    BY ONLY <2>0, <1>4, <1>5, <1>6
  <2>2. k # n => k + 1 \in 1..n
    BY ONLY <1>0, <2>0
  <2>3. k # n => f[k + 1] = k + 1
    BY ONLY <2>2, <1>5
  <2>. QED  BY ONLY <2>1, <2>3
<1>11. \A k \in 1..n : l.prev[f[k]] = IF k = 1 THEN 0 ELSE f[k - 1]
  <2> SUFFICES ASSUME NEW k, k \in 1..n PROVE l.prev[f[k]] = IF k = 1 THEN 0 ELSE f[k - 1]
    OBVIOUS
  <2>0. k \in 1..n
    OBVIOUS
  <2>1. l.prev[f[k]] = k - 1
    BY ONLY <2>0, <1>4, <1>5, <1>6
  <2>2. k # 1 => k - 1 \in 1..n
    BY ONLY <1>0, <2>0
  <2>3. k # 1 => f[k - 1] = k - 1
    BY ONLY <2>2, <1>5
  <2>. QED  BY ONLY <2>1, <2>3
<1>12. \A p \in 1..n : (\A k \in 1..n : f[k] # p) => l.id[p] = -1
  BY ONLY <1>5
<1>13. l.id \in [1..n -> Int] /\ l.next \in [1..n -> Nat] /\ l.prev \in [1..n -> Nat]
  BY ONLY <1>1, <1>3, <1>4
<1>14. \A k \in 1..n : f[k] \in 1..n
  BY ONLY <1>5
<1>15. Threads(l, n, piece, f)
  BY ONLY <1>5, <1>8, <1>9, <1>10, <1>11, <1>12, <1>13, <1>14, n = Len(piece) DEF Threads
<1>. QED  BY <1>7, <1>15 DEF l, f

\* The walk reads the symbols off the list.
LEMMA WalkIs ==
  ASSUME NEW l, NEW n, NEW s, NEW f, n \in Nat, s \in Seq(Nat), Threads(l, n, s, f)
  PROVE  Walk(l) = s
<1> DEFINE m == Len(s)
           x == [at |-> 1, ids |-> <<>>]
           step == WalkStep(l)
           place(k) == IF k < m THEN f[k + 1] ELSE n + 1
           Read(k, r) == /\ r = [at |-> place(k), ids |-> r.ids] /\ r.ids \in Seq(Int) /\ Len(r.ids) = k
                         /\ \A j \in 1..k : r.ids[j] = s[j]
           K == {k \in Nat : k <= m => Read(k, Repeat(step, k, x))}
           T == [at |-> n + 1, ids |-> s]
           J == {k \in Nat : Repeat(step, m + k, x) = T}
<1>1. m \in 1..n /\ (\A k \in 1..m : f[k] \in 1..n) /\ f[1] = 1 /\ l.id \in [1..n -> Int]
  BY DEF Threads
<1>2. \A k \in 1..m : l.id[f[k]] = s[k]
  BY DEF Threads
<1>3. \A k \in 1..m : l.next[f[k]] = IF k = m THEN n + 1 ELSE f[k + 1]
  BY DEF Threads
<1>4. m \in Nat /\ n \in Nat /\ n - m \in Nat
  BY <1>1
<1>5. Len(l.id) = n
  BY <1>1, FunIsSeq
<1>6. \A r \in [at : Nat, ids : Seq(Int)] :
        step[r] = IF r.at > n THEN r ELSE [at |-> l.next[r.at], ids |-> Append(r.ids, l.id[r.at])]
  BY <1>5 DEF WalkStep
<1>7. Walk(l) = Repeat(step, n, x).ids
  BY <1>5 DEF Walk
<1>8. s \in Seq(Int)
  <2> DEFINE S == Nat
             I == Int
  <2>1. S \subseteq I /\ s \in Seq(S)
    OBVIOUS
  <2> HIDE DEF S, I
  <2>2. s \in Seq(I)
    BY <2>1, SeqMono
  <2>. QED  BY <2>2 DEF I
<1> HIDE DEF m, step
<1>9. 0 \in K
  <2>1. Repeat(step, 0, x) = x
    BY RepeatZero
  <2>2. place(0) = 1
    BY ONLY <1>1, <1>4
  <2>3. x.ids \in Seq(Int) /\ Len(x.ids) = 0
    BY EmptySeq
  <2> HIDE DEF place
  <2>4. Read(0, x)
    BY ONLY <2>2, <2>3
  <2>. QED  BY <2>1, <2>4
<1>10. \A k \in Nat : k \in K => k + 1 \in K
  <2> SUFFICES ASSUME NEW k, k \in Nat, k \in K, k + 1 <= m PROVE Read(k + 1, Repeat(step, k + 1, x))
    OBVIOUS
  <2> DEFINE r == Repeat(step, k, x)
  <2>0. k \in Nat /\ k + 1 \in 1..m /\ k < m /\ k <= m
    BY <1>4
  <2>1. Read(k, r)
    BY <2>0
  <2>2. Repeat(step, k + 1, x) = step[r]
    BY RepeatNext
  <2> HIDE DEF r, K, x
  <2>3. r = [at |-> f[k + 1], ids |-> r.ids] /\ r.ids \in Seq(Int) /\ Len(r.ids) = k
    BY ONLY <2>0, <2>1
  <2>4. r.at = f[k + 1] /\ f[k + 1] \in 1..n /\ ~(f[k + 1] > n)
    <3>1. r.at = f[k + 1]
      BY ONLY <2>3
    <3>2. f[k + 1] \in 1..n
      BY ONLY <2>0, <1>1
    <3>. QED  BY ONLY <1>4, <3>1, <3>2
  <2>5. r \in [at : Nat, ids : Seq(Int)]
    <3>1. f[k + 1] \in Nat
      BY ONLY <2>4, <1>4
    <3>. QED  BY ONLY <2>3, <3>1
  <2>6. step[r] = [at |-> l.next[f[k + 1]], ids |-> Append(r.ids, l.id[f[k + 1]])]
    BY ONLY <1>6, <2>4, <2>5
  <2> DEFINE o == Append(r.ids, s[k + 1])
  <2>7. step[r] = [at |-> l.next[f[k + 1]], ids |-> o]
    BY ONLY <1>2, <2>0, <2>6
  <2>8. l.next[f[k + 1]] = place(k + 1)
    <3>1. l.next[f[k + 1]] = IF k + 1 = m THEN n + 1 ELSE f[(k + 1) + 1]
      BY ONLY <1>3, <2>0
    <3>2. (k + 1 = m) <=> ~(k + 1 < m)
      BY ONLY <1>4, <2>0
    <3>. QED  BY ONLY <3>1, <3>2
  <2>9. s[k + 1] \in Int
    BY <1>8, <2>0, ElementOfSeq DEF m
  <2>10. o \in Seq(Int) /\ Len(o) = k + 1 /\ \A j \in 1..(k + 1) : o[j] = IF j = k + 1 THEN s[k + 1] ELSE r.ids[j]
    BY <2>3, <2>9, AppendProperties
  <2> HIDE DEF o, place
  <2>11. \A j \in 1..(k + 1) : o[j] = s[j]
    <3> SUFFICES ASSUME NEW j, j \in 1..(k + 1) PROVE o[j] = s[j]
      OBVIOUS
    <3>1. j # k + 1 => j \in 1..k
      BY <2>0
    <3>2. \A i \in 1..k : r.ids[i] = s[i]
      BY ONLY <2>1
    <3>. QED  BY ONLY <2>10, <3>1, <3>2, j \in 1..(k + 1)
  <2>12. step[r].ids = o /\ step[r].at = place(k + 1)
    BY ONLY <2>7, <2>8
  <2>13. step[r] = [at |-> place(k + 1), ids |-> step[r].ids]
    BY ONLY <2>7, <2>8, <2>12
  <2>14. Read(k + 1, step[r])
    BY ONLY <2>10, <2>11, <2>12, <2>13
  <2>. QED  BY ONLY <2>2, <2>14
<1>11. m \in K
  <2> HIDE DEF K
  <2>1. K \in SUBSET Nat
    BY DEF K
  <2>2. Nat \subseteq K
    BY ONLY <1>9, <1>10, Induction
  <2>. QED  BY <2>2, <1>4
<1>12. Repeat(step, m, x) = T
  <2> DEFINE r == Repeat(step, m, x)
  <2>1. Read(m, r) /\ place(m) = n + 1
    BY <1>4, <1>11
  <2> HIDE DEF r, K, place
  <2>2. r = [at |-> n + 1, ids |-> r.ids] /\ r.ids \in Seq(Int) /\ Len(r.ids) = Len(s) /\ \A j \in 1..Len(r.ids) : r.ids[j] = s[j]
    BY ONLY <2>1 DEF m
  <2>3. r.ids = s
    BY ONLY <1>8, <2>2, SeqEqual
  <2>. QED  BY ONLY <2>2, <2>3 DEF r
<1> HIDE DEF K, place, x
<1>13. step[T] = T
  <2> DEFINE q == n + 1
  <2>1. q \in Nat /\ q > n
    BY <1>4
  <2> HIDE DEF q
  <2>2. T \in [at : Nat, ids : Seq(Int)] /\ T.at = q
    BY <1>8, <2>1 DEF q
  <2> HIDE DEF T
  <2>. QED  BY ONLY <1>6, <2>1, <2>2
<1> HIDE DEF T
<1>14. 0 \in J
  <2>1. m + 0 = m
    BY <1>4
  <2>. QED  BY <2>1, <1>12
<1>15. \A k \in Nat : k \in J => k + 1 \in J
  <2> SUFFICES ASSUME NEW k \in Nat, k \in J PROVE k + 1 \in J
    OBVIOUS
  <2>1. m + k \in Nat /\ m + (k + 1) = (m + k) + 1
    BY <1>4
  <2>2. Repeat(step, (m + k) + 1, x) = step[Repeat(step, m + k, x)]
    BY <2>1, RepeatNext
  <2>. QED  BY <1>13, <2>1, <2>2
<1>16. Repeat(step, n, x) = T
  <2>1. n - m \in J
    <3> HIDE DEF J
    <3>1. Nat \subseteq J
      BY ONLY <1>14, <1>15, Induction
    <3>. QED  BY <3>1, <1>4
  <2>2. m + (n - m) = n
    BY <1>4
  <2>. QED  BY <2>1, <2>2
<1>. QED  BY <1>7, <1>16 DEF T

\* The heap encodes a piece to what the scan does.
LEMMA ByHeapIs ==
  ASSUME NEW ms, IsMerges(ms), NEW piece, piece \in Seq(Nat), Len(piece) # 0
  PROVE  ByHeap(ms, piece) = Scan(ms, piece)
<1> DEFINE n == Len(piece)
           l0 == Linked(piece)
           x == [list |-> l0, heap |-> Candidates(ms, l0, DOMAIN piece)]
           f0 == [k \in 1..n |-> k]
           step == DrainStep(ms)
           word == Scan(ms, piece)
           at(k) == Repeat(step, k, x)
           Near(k, d) == \/ d \in Heaps(ms, n) /\ d.heap = {} /\ \E s, f : HeapInv(ms, n, d, s, f) /\ Scan(ms, s) = word
                         \/ /\ d \in Heaps(ms, n)
                            /\ \E s, f : HeapInv(ms, n, d, s, f) /\ Scan(ms, s) = word /\ Left(d, s) + k <= 3 * n
           K == {k \in Nat : Near(k, at(k))}
<1>0. n \in Nat /\ n # 0 /\ DOMAIN piece = 1..n /\ Len(ms) \in Nat
  BY LenProperties DEF IsMerges
<1>1. l0 \in Lists(n) /\ Threads(l0, n, piece, f0)
  BY <1>0, LinkedIs
<1>2. ByHeap(ms, piece) = Walk(at(3 * n).list)
  BY DEF ByHeap
<1>3. x.list = l0 /\ x.heap = Candidates(ms, l0, 1..n) /\ x = [list |-> l0, heap |-> x.heap]
  BY <1>0
<1> HIDE DEF n, l0, x, f0, step, word
<1>4. \A c \in Candidates(ms, l0, 1..n) : \E k \in Can(ms, piece) : c = CandAt(ms, piece, f0, k)
  BY <1>0, <1>1, CandidatesAre
<1>5. \A k \in Can(ms, piece) : CandAt(ms, piece, f0, k) \in Candidates(ms, l0, 1..n)
  <2>1. \A k \in Can(ms, piece) : k \in 1..n
    BY CandAtIs DEF n
  <2>2. \A k \in 1..n : f0[k] \in 1..n
    BY DEF f0
  <2>. QED  BY <1>0, <1>1, <2>1, <2>2, CandidatesAre
<1>6. x.heap \in SUBSET Cands(ms, n)
  <2>1. \A k \in Can(ms, piece) : CandAt(ms, piece, f0, k) \in Cands(ms, n)
    BY <1>0, <1>1, StaleIs
  <2>. QED  BY ONLY <1>3, <1>4, <2>1
<1>7. x \in Heaps(ms, n) /\ HeapInv(ms, n, x, piece, f0)
  <2>1. x \in Heaps(ms, n)
    BY ONLY <1>1, <1>3, <1>6 DEF Heaps
  <2>2. \A k \in Can(ms, piece) : CandAt(ms, piece, f0, k) \in x.heap
    BY ONLY <1>3, <1>5
  <2>3. Threads(x.list, n, piece, f0)
    BY ONLY <1>1, <1>3
  <2>4. piece \in Seq(Nat)
    OBVIOUS
  <2>. QED  BY ONLY <1>6, <2>1, <2>2, <2>3, <2>4 DEF HeapInv
<1>8. Left(x, piece) <= 3 * n /\ Left(x, piece) \in Nat
  <2>1. IsFiniteSet(1..n) /\ Cardinality(1..n) = n
    <3>1. 1 \in Int /\ n \in Int /\ (IF 1 > n THEN 0 ELSE n - 1 + 1) = n
      BY <1>0
    <3>. QED  BY <3>1, FS_Interval
  <2>2. Cardinality(x.heap) \in Nat /\ Cardinality(x.heap) <= n
    BY <1>3, <2>1, CandidatesCount
  <2>. QED  BY <1>0, <2>2 DEF Left, n
<1>9. 0 \in K
  <2>1. at(0) = x
    BY RepeatZero
  <2>2. Left(x, piece) + 0 <= 3 * n
    BY <1>0, <1>8
  <2>3. Near(0, x)
    BY <1>7, <2>2 DEF word
  <2>. QED  BY <2>1, <2>3
<1>10. \A d, s, f : d \in Heaps(ms, n) /\ HeapInv(ms, n, d, s, f) => Left(d, s) \in Nat /\ Left(d, s) >= 2
  <2> SUFFICES ASSUME NEW d, NEW s, NEW f, HeapInv(ms, n, d, s, f) PROVE Left(d, s) \in Nat /\ Left(d, s) >= 2
    OBVIOUS
  <2>1. d.heap \in SUBSET Cands(ms, n) /\ Len(s) \in 1..n
    BY DEF HeapInv, Threads
  <2>2. Cardinality(d.heap) \in Nat
    BY <1>0, <2>1, CandsFinite, FS_Subset, FS_CardinalityType
  <2>. QED  BY ONLY <1>0, <2>1, <2>2 DEF Left
<1>11. \A k \in Nat : k \in K => k + 1 \in K
  <2> SUFFICES ASSUME NEW k \in Nat, Near(k, at(k)) PROVE Near(k + 1, at(k + 1))
    OBVIOUS
  <2> DEFINE d == at(k)
             e == at(k + 1)
  <2>1. e = step[d]
    BY RepeatNext
  <2> HIDE DEF e
  <2>2. CASE d.heap = {}
    <3>1. d \in Heaps(ms, n) /\ \E s, f : HeapInv(ms, n, d, s, f) /\ Scan(ms, s) = word
      OBVIOUS
    <3> HIDE DEF d
    <3>2. step[d] = d
      BY <1>0, <2>2, <3>1, DrainStepIs DEF step
    <3>. QED  BY <2>1, <2>2, <3>1, <3>2 DEF e
  <2>3. CASE d.heap # {}
    <3>1. d \in Heaps(ms, n) /\ \E s, f : HeapInv(ms, n, d, s, f) /\ Scan(ms, s) = word /\ Left(d, s) + k <= 3 * n
      BY <2>3
    <3> HIDE DEF d
    <3>2. PICK s, f : HeapInv(ms, n, d, s, f) /\ Scan(ms, s) = word /\ Left(d, s) + k <= 3 * n
      BY <3>1
    <3>3. e = DrainStep(ms)[d]
      BY ONLY <2>1 DEF step
    <3>4. /\ e \in Heaps(ms, n)
          /\ \E t, g : HeapInv(ms, n, e, t, g) /\ Scan(ms, t) = Scan(ms, s) /\ Left(e, t) < Left(d, s)
      BY <1>0, <2>3, <3>1, <3>2, <3>3, DrainStepKeeps
    <3>5. PICK t, g : HeapInv(ms, n, e, t, g) /\ Scan(ms, t) = Scan(ms, s) /\ Left(e, t) < Left(d, s)
      BY <3>4
    <3>6. Left(e, t) \in Nat /\ Left(d, s) \in Nat
      BY ONLY <1>10, <3>1, <3>2, <3>4, <3>5
    <3>7. Left(e, t) + (k + 1) <= 3 * n
      BY ONLY <1>0, <3>2, <3>5, <3>6, k \in Nat
    <3>8. Near(k + 1, e)
      BY <3>2, <3>4, <3>5, <3>7
    <3>. QED  BY <3>8 DEF e
  <2>. QED  BY <2>2, <2>3
<1>12. Near(3 * n, at(3 * n))
  <2>1. 3 * n \in Nat
    BY <1>0
  <2>2. Nat \subseteq K
    <3> HIDE DEF K
    <3>. QED  BY ONLY <1>9, <1>11, Induction
  <2>. QED  BY <2>1, <2>2
<1> DEFINE d == at(3 * n)
<1>13. d \in Heaps(ms, n) /\ d.heap = {} /\ \E s, f : HeapInv(ms, n, d, s, f) /\ Scan(ms, s) = word
  <2> HIDE DEF d
  <2>1. Near(3 * n, d)
    BY <1>12 DEF d
  <2>2. \A s, f : HeapInv(ms, n, d, s, f) /\ d \in Heaps(ms, n) => ~(Left(d, s) + 3 * n <= 3 * n)
    <3> SUFFICES ASSUME NEW s, NEW f, HeapInv(ms, n, d, s, f), d \in Heaps(ms, n)
                 PROVE ~(Left(d, s) + 3 * n <= 3 * n)
      OBVIOUS
    <3>1. Left(d, s) \in Nat /\ Left(d, s) >= 2
      BY <1>10
    <3>. QED  BY ONLY <1>0, <3>1
  <2>. QED  BY ONLY <2>1, <2>2
<1>14. PICK s, f : HeapInv(ms, n, d, s, f) /\ Scan(ms, s) = word
  BY <1>13
<1> HIDE DEF d
<1>15. s \in Seq(Nat) /\ Threads(d.list, n, s, f) /\ Can(ms, s) = {}
  BY ONLY <1>13, <1>14 DEF HeapInv
<1>16. Scan(ms, s) = s
  BY <1>15, ScanOfEnded
<1>17. Walk(d.list) = s
  BY <1>0, <1>15, WalkIs
<1>. QED  BY <1>2, <1>14, <1>16, <1>17 DEF d, word

\* An empty piece has nothing to merge.
LEMMA ByHeapOfNothing == ASSUME NEW ms, NEW piece, piece \in Seq(Nat), Len(piece) = 0 PROVE ByHeap(ms, piece) = Scan(ms, piece)
<1> DEFINE l == Linked(piece)
           x == [list |-> l, heap |-> Candidates(ms, l, DOMAIN piece)]
<1>1. Scan(ms, piece) = piece
  BY RepeatZero DEF Scan
<1>2. ByHeap(ms, piece) = Walk(x.list)
  <2>1. 3 * Len(piece) = 0
    OBVIOUS
  <2>2. Repeat(DrainStep(ms), 0, x) = x
    BY RepeatZero
  <2>. QED  BY <2>1, <2>2, Zenon DEF ByHeap
<1>3. x.list = l /\ l.id = piece
  BY DEF Linked
<1>4. Walk(l) = <<>>
  <2>1. Repeat(WalkStep(l), 0, [at |-> 1, ids |-> <<>>]) = [at |-> 1, ids |-> <<>>]
    BY RepeatZero
  <2>. QED  BY <1>3, <2>1 DEF Walk
<1>5. piece = <<>>
  BY EmptySeq
<1>. QED  BY <1>1, <1>2, <1>3, <1>4, <1>5

\* Either way of encoding a piece is the scan.
LEMMA EncodePieceIs ==
  ASSUME NEW ms, IsMerges(ms), NEW piece, piece \in Seq(Nat)
  PROVE  EncodePiece(ms, piece) = Scan(ms, piece)
<1>1. CASE Len(piece) <= SmallPiece
  BY <1>1 DEF EncodePiece
<1>2. CASE ~(Len(piece) <= SmallPiece)
  BY <1>2, ByHeapIs, ByHeapOfNothing DEF EncodePiece
<1>. QED  BY <1>1, <1>2

\* By the time a text is encoded, a word of the corpus encodes, by the scan and by the
\* heap, to the symbols training left it with (learn_merges, encode_piece).
THEOREM EncodingIsTraining == Spec => []EncodersAgree
<1>1. LearnInv => EncodersAgree
  <2> SUFFICES ASSUME LearnInv, NEW w \in DOMAIN words
               PROVE Scan(merges, w) = words[w].symbols /\ ByHeap(merges, w) = words[w].symbols
    BY DEF EncodersAgree
  <2>1. IsMerges(merges) /\ IsCorpus(words, merges)
    BY DEF LearnInv
  <2>2. w \in Seq(Nat) /\ words[w].symbols = Scan(merges, w) 
    BY <2>1, WordIs DEF IsCorpus
  <2>3. ByHeap(merges, w) = Scan(merges, w)
    BY <2>1, <2>2, ByHeapIs, ByHeapOfNothing
  <2>. QED  BY <2>2, <2>3
<1>. QED  BY <1>1, LearningIsTrue, PTL
-----------------------------------------------------------------------------
(* FlattenSeq.                                                             *)

\* f solves the recursion of FlattenSeq for the first n of ss.
Flattens(f, ss, n) == f = [i \in 1..n |-> IF i = 1 THEN ss[i] ELSE f[i - 1] \o ss[i]]

\* A solution for n goes on to one for n + 1.
LEMMA FlattensOn ==
  ASSUME NEW ss, NEW n \in Nat \ {0}, NEW f, Flattens(f, ss, n)
  PROVE  \E g : Flattens(g, ss, n + 1) /\ g[n + 1] = f[n] \o ss[n + 1]
<1> DEFINE g == [i \in 1..(n + 1) |-> IF i = n + 1 THEN f[n] \o ss[n + 1] ELSE f[i]]
<1>1. n + 1 # 1 /\ n \in 1..n /\ n \in 1..(n + 1) /\ n # n + 1 /\ n + 1 \in 1..(n + 1) /\ (n + 1) - 1 = n
  OBVIOUS
<1>2. ASSUME NEW i \in 1..(n + 1) PROVE g[i] = IF i = 1 THEN ss[i] ELSE g[i - 1] \o ss[i]
  <2>1. CASE i = n + 1
    BY <1>1, <2>1
  <2>2. CASE i # n + 1
    <3>1. i \in 1..n /\ g[i] = f[i]
      BY <2>2
    <3>2. f[i] = IF i = 1 THEN ss[i] ELSE f[i - 1] \o ss[i]
      BY <3>1 DEF Flattens
    <3>3. i # 1 => i - 1 \in 1..(n + 1) /\ i - 1 # n + 1
      BY <3>1
    <3>. QED  BY <3>1, <3>2, <3>3
  <2>. QED  BY <2>1, <2>2
<1>3. g[n + 1] = f[n] \o ss[n + 1]
  BY <1>1
<1>4. g = [i \in 1..(n + 1) |-> g[i]]
  OBVIOUS
<1> HIDE DEF g
<1>5. Flattens(g, ss, n + 1)
  BY <1>2, <1>4 DEF Flattens
<1>. QED  BY <1>3, <1>5

\* There is a solution.
LEMMA FlattensExist == ASSUME NEW ss, NEW n \in Nat \ {0} PROVE \E f : Flattens(f, ss, n)
<1> DEFINE K == {k \in Nat : \E f : Flattens(f, ss, k + 1)}
<1>1. 0 \in K
  <2> DEFINE f == [i \in 1..1 |-> ss[i]]
  <2>1. f = [i \in 1..1 |-> IF i = 1 THEN ss[i] ELSE f[i - 1] \o ss[i]]
    OBVIOUS
  <2> HIDE DEF f
  <2>2. Flattens(f, ss, 0 + 1)
    BY <2>1 DEF Flattens
  <2>. QED  BY <2>2
<1>2. ASSUME NEW k \in Nat, k \in K PROVE k + 1 \in K
  <2>1. PICK f : Flattens(f, ss, k + 1)
    BY <1>2
  <2>2. k + 1 \in Nat \ {0}
    OBVIOUS
  <2>3. \E g : Flattens(g, ss, (k + 1) + 1)
    BY ONLY <2>1, <2>2, FlattensOn
  <2>. QED  BY <2>3
<1>3. n - 1 \in K
  <2> HIDE DEF K
  <2>. QED  BY <1>1, <1>2, Induction
<1>. QED  BY <1>3

\* Two functions agree up to n.
SameTo(f, g, n) == \A i \in 1..n : f[i] = g[i]

\* Solutions agree on what sequences agree on.
LEMMA FlattensAgree ==
  ASSUME NEW ss, NEW tt, NEW n, NEW m, n \in Nat, m \in Nat, n <= m, NEW f, NEW g,
         Flattens(f, ss, n), Flattens(g, tt, m), SameTo(ss, tt, n)
  PROVE  SameTo(f, g, n)
<1> DEFINE K == {k \in Nat : k + 1 <= n => f[k + 1] = g[k + 1]}
<1>0. ASSUME NEW i \in 1..n PROVE /\ f[i] = IF i = 1 THEN ss[i] ELSE f[i - 1] \o ss[i]
                                  /\ g[i] = IF i = 1 THEN ss[i] ELSE g[i - 1] \o ss[i]
  <2>1. i \in 1..m
    OBVIOUS
  <2>2. f[i] = IF i = 1 THEN ss[i] ELSE f[i - 1] \o ss[i]
    BY Zenon DEF Flattens
  <2>3. g[i] = IF i = 1 THEN tt[i] ELSE g[i - 1] \o tt[i]
    BY <2>1, Zenon DEF Flattens
  <2>. QED  BY <2>2, <2>3 DEF SameTo
<1>1. 0 \in K
  <2>1. 1 <= n => f[1] = g[1]
    BY <1>0
  <2>. QED  BY <2>1
<1>2. ASSUME NEW k \in Nat, k \in K PROVE k + 1 \in K
  <2>1. ASSUME k + 2 <= n PROVE f[k + 2] = g[k + 2]
    <3>1. k + 2 \in 1..n /\ k + 2 # 1 /\ (k + 2) - 1 = k + 1 /\ k + 1 <= n
      BY <2>1
    <3>. QED  BY <1>0, <1>2, <3>1
  <2>2. (k + 1) + 1 = k + 2
    OBVIOUS
  <2>. QED  BY <2>1, <2>2
<1>3. Nat \subseteq K
  <2> HIDE DEF K
  <2>. QED  BY <1>1, <1>2, Induction
<1> SUFFICES ASSUME NEW i \in 1..n PROVE f[i] = g[i]
  BY DEF SameTo
<1>4. i - 1 \in Nat /\ (i - 1) + 1 = i
  OBVIOUS
<1>. QED  BY <1>3, <1>4

\* FlattenSeq is the solution's last.
LEMMA FlattenIs ==
  ASSUME NEW ss, Len(ss) \in Nat \ {0}
  PROVE  \E f : Flattens(f, ss, Len(ss)) /\ FlattenSeq(ss) = f[Len(ss)]
<1> DEFINE f == CHOOSE f : f = [i \in 1..Len(ss) |-> IF i = 1 THEN ss[i] ELSE f[i - 1] \o ss[i]]
<1>1. \E g : g = [i \in 1..Len(ss) |-> IF i = 1 THEN ss[i] ELSE g[i - 1] \o ss[i]]
  <2>1. \E g : Flattens(g, ss, Len(ss))
    BY FlattensExist
  <2>. QED  BY <2>1, Zenon DEF Flattens
<1>2. f = [i \in 1..Len(ss) |-> IF i = 1 THEN ss[i] ELSE f[i - 1] \o ss[i]]
  BY <1>1, Zenon
<1>3. FlattenSeq(ss) = f[Len(ss)]
  <2>1. Len(ss) # 0
    OBVIOUS
  <2>. QED  BY <2>1, Zenon DEF FlattenSeq
<1> HIDE DEF f
<1>. QED  BY <1>2, <1>3 DEF Flattens

\* Nothing flattens to nothing.
LEMMA FlattenNone == FlattenSeq(<<>>) = <<>>
<1>1. Len(<<>>) = 0
  BY EmptySeq
<1>. QED  BY <1>1, Zenon DEF FlattenSeq

\* A sequence alone flattens to itself.
LEMMA FlattenOne == ASSUME NEW s PROVE FlattenSeq(<<s>>) = s
<1>1. Len(<<s>>) = 1 /\ <<s>>[1] = s
  OBVIOUS
<1> DEFINE ss == <<s>>
<1> HIDE DEF ss
<1>2. PICK f : Flattens(f, ss, 1) /\ FlattenSeq(ss) = f[1]
  <2>1. Len(ss) = 1 /\ 1 \in Nat \ {0}
    BY <1>1 DEF ss
  <2>. QED  BY <2>1, FlattenIs
<1>3. f[1] = ss[1]
  BY <1>2 DEF Flattens
<1>. QED  BY <1>1, <1>2, <1>3 DEF ss

\* One sequence more.
LEMMA FlattenAppend ==
  ASSUME NEW S, NEW ss \in Seq(Seq(S)), NEW s \in Seq(S)
  PROVE  FlattenSeq(Append(ss, s)) = FlattenSeq(ss) \o s
<1> DEFINE tt == Append(ss, s)
           n == Len(ss)
<1>1. n \in Nat /\ Len(tt) = n + 1 /\ (\A i \in 1..n : tt[i] = ss[i]) /\ tt[n + 1] = s
  BY LenProperties, AppendProperties
<1>2. CASE n = 0
  <2>1. ss = <<>> /\ tt = <<s>>
    BY <1>2, EmptySeq
  <2>2. <<>> \o s = s
    BY ConcatEmptySeq
  <2>. QED  BY <2>1, <2>2, FlattenNone, FlattenOne
<1>3. CASE n # 0
  <2> HIDE DEF tt
  <2>1. PICK f : Flattens(f, ss, n) /\ FlattenSeq(ss) = f[n]
    BY <1>1, <1>3, FlattenIs
  <2>2. PICK g : Flattens(g, tt, n + 1) /\ FlattenSeq(tt) = g[n + 1]
    BY <1>1, FlattenIs
  <2> HIDE DEF n
  <2>3. SameTo(f, g, n)
    <3>1. n <= n + 1 /\ n + 1 \in Nat
      BY <1>1
    <3>2. SameTo(ss, tt, n)
      BY <1>1 DEF SameTo
    <3>. QED  BY ONLY <1>1, <2>1, <2>2, <3>1, <3>2, FlattensAgree
  <2>4. n \in 1..n /\ n + 1 \in 1..(n + 1) /\ n + 1 # 1 /\ (n + 1) - 1 = n
    BY <1>1, <1>3
  <2>5. g[n + 1] = g[n] \o tt[n + 1]
    BY <2>2, <2>4 DEF Flattens
  <2>. QED  BY <1>1, <2>1, <2>2, <2>3, <2>4, <2>5 DEF tt, SameTo
<1>. QED  BY <1>2, <1>3

\* Concatenation is associative.
LEMMA Associates ==
  ASSUME NEW S, NEW a, NEW b, NEW c, a \in Seq(S), b \in Seq(S), c \in Seq(S)
  PROVE  (a \o b) \o c = a \o (b \o c)
BY ConcatAssociative

\* What is appended to the end.
LEMMA ConcatAppend ==
  ASSUME NEW S, NEW v, NEW w, NEW s, v \in Seq(S), w \in Seq(S), s \in S
  PROVE  v \o Append(w, s) = Append(v \o w, s)
<1>1. Append(w, s) = w \o <<s>> /\ v \o w \in Seq(S) /\ <<s>> \in Seq(S)
  BY AppendIsConcat, ConcatProperties
<1>2. Append(v \o w, s) = (v \o w) \o <<s>>
  BY <1>1, AppendIsConcat
<1>3. (v \o w) \o <<s>> = v \o (w \o <<s>>)
  BY <1>1, Associates
<1>. QED  BY <1>1, <1>2, <1>3

\* Flattening sequences over S gives one over S, and goes through concatenation.
LEMMA FlattenConcat ==
  ASSUME NEW S, NEW ss, NEW tt, ss \in Seq(Seq(S)), tt \in Seq(Seq(S))
  PROVE  FlattenSeq(ss \o tt) = FlattenSeq(ss) \o FlattenSeq(tt) /\ FlattenSeq(tt) \in Seq(S)
<1>0. \A a, b, c : a \in Seq(S) /\ b \in Seq(S) /\ c \in Seq(S) => (a \o b) \o c = a \o (b \o c)
  BY ONLY Associates
<1> DEFINE SS == Seq(Seq(S))
           Good(u) == FlattenSeq(u) \in Seq(S) /\ \A v \in SS : FlattenSeq(v) \in Seq(S) =>
                                                 FlattenSeq(v \o u) = FlattenSeq(v) \o FlattenSeq(u)
           K == {k \in Nat : \A u \in SS : Len(u) = k => Good(u)}
<1>1. 0 \in K
  <2> SUFFICES ASSUME NEW u \in SS, Len(u) = 0 PROVE Good(u)
    OBVIOUS
  <2>1. u = <<>>
    BY EmptySeq
  <2>2. <<>> \in Seq(S)
    BY EmptySeq
  <2>3. ASSUME NEW v \in SS, FlattenSeq(v) \in Seq(S) PROVE FlattenSeq(v \o <<>>) = FlattenSeq(v) \o <<>>
    <3>1. v \o <<>> = v
      BY ConcatEmptySeq
    <3> DEFINE x == FlattenSeq(v)
    <3> HIDE DEF x
    <3>2. x \o <<>> = x
      BY <2>3, ConcatEmptySeq DEF x
    <3>. QED  BY <3>1, <3>2 DEF x
  <2>. QED  BY <2>1, <2>2, <2>3, FlattenNone
<1>2. ASSUME NEW k \in Nat, k \in K PROVE k + 1 \in K
  <2> SUFFICES ASSUME NEW u \in SS, Len(u) = k + 1 PROVE Good(u)
    OBVIOUS
  <2>1. u # <<>>
    BY EmptySeq
  <2>2. PICK w \in SS, s \in Seq(S) : u = Append(w, s)
    BY <2>1, SequenceEmptyOrAppend
  <2>3. Len(w) = k
    <3>1. Len(w) + 1 = k + 1 /\ Len(w) \in Nat
      BY <2>2, AppendProperties, LenProperties
    <3>. QED  BY <3>1
  <2>4. Good(w)
    BY <1>2, <2>3
  <2>5. FlattenSeq(u) = FlattenSeq(w) \o s
    BY <2>2, FlattenAppend
  <2> DEFINE fw == FlattenSeq(w)
  <2>6. fw \in Seq(S)
    BY <2>4
  <2> HIDE DEF fw
  <2>7. FlattenSeq(u) \in Seq(S)
    BY <2>5, <2>6, ConcatProperties DEF fw
  <2>8. ASSUME NEW v \in SS, FlattenSeq(v) \in Seq(S) PROVE FlattenSeq(v \o u) = FlattenSeq(v) \o FlattenSeq(u)
    <3> DEFINE fv == FlattenSeq(v)
    <3>1. FlattenSeq(v \o w) = fv \o fw
      BY <2>4, <2>8 DEF fw
    <3>2. v \o u = Append(v \o w, s)
      BY <2>2, ConcatAppend
    <3>3. v \o w \in SS
      BY ConcatProperties
    <3>4. FlattenSeq(v \o u) = FlattenSeq(v \o w) \o s
      BY <3>2, <3>3, FlattenAppend
    <3>5. fv \in Seq(S)
      BY <2>8
    <3> HIDE DEF fv
    <3>6. (fv \o fw) \o s = fv \o (fw \o s)
      <4>1. s \in Seq(S)
        OBVIOUS
      <4>. QED  BY ONLY <1>0, <2>6, <3>5, <4>1
    <3>. QED  BY <2>5, <3>1, <3>4, <3>6 DEF fv, fw
  <2>. QED  BY <2>7, <2>8
<1>3. \A u \in SS : Good(u)
  <2> HIDE DEF K, Good
  <2>1. Nat \subseteq K
    BY <1>1, <1>2, Induction
  <2>2. \A u \in SS : Len(u) \in Nat
    BY LenProperties
  <2>. QED  BY <2>1, <2>2 DEF K
<1> HIDE DEF K
<1>4. Good(ss) /\ Good(tt)
  BY <1>3
<1>. QED  BY <1>4
-----------------------------------------------------------------------------
(* A loop that goes through a text from place to place and gathers a       *)
(* sequence: what it gathers from a place on.                              *)

\* From place a of n the loop moves on to nx[a] and gathers blk[a].
Moves(n, nx, blk, S) == \A a \in 1..n : nx[a] \in (a + 1)..(n + 1) /\ blk[a] \in Seq(S)

\* R is what is gathered from each place on.
Gathers(R, n, nx, blk, S) ==
  /\ \A a \in 1..(n + 1) : R[a] \in Seq(S)
  /\ R[n + 1] = <<>>
  /\ \A a \in 1..n : R[a] = blk[a] \o R[nx[a]]

\* mk makes the loop's state out of a place and what has been gathered.
Loops(step, mk, n, nx, blk, S) ==
  /\ \A a \in 1..n : \A acc \in Seq(S) : step[mk[<<a, acc>>]] = mk[<<nx[a], acc \o blk[a]>>]
  /\ \A acc \in Seq(S) : step[mk[<<n + 1, acc>>]] = mk[<<n + 1, acc>>]

\* R gathers from the last k places on.
GathersLast(R, k, n, nx, blk, S) ==
  /\ \A a \in (n + 1 - k)..(n + 1) : R[a] \in Seq(S)
  /\ R[n + 1] = <<>>
  /\ \A a \in (n + 1 - k)..n : R[a] = blk[a] \o R[nx[a]]

\* One place more.
LEMMA GathersOn ==
  ASSUME NEW n \in Nat, NEW nx, NEW blk, NEW S, Moves(n, nx, blk, S),
         NEW k \in Nat, k + 1 <= n, NEW R, GathersLast(R, k, n, nx, blk, S)
  PROVE  \E Q : GathersLast(Q, k + 1, n, nx, blk, S)
<1> DEFINE b == n - k
           Q == [a \in b..(n + 1) |-> IF a = b THEN blk[b] \o R[nx[b]] ELSE R[a]]
<1>1. b \in 1..n /\ n + 1 - (k + 1) = b /\ n + 1 - k = b + 1 /\ b \in Nat
  OBVIOUS
<1> HIDE DEF b
<1>2. nx[b] \in (b + 1)..(n + 1) /\ blk[b] \in Seq(S)
  BY <1>1 DEF Moves
<1>3. R[nx[b]] \in Seq(S)
  BY <1>1, <1>2 DEF GathersLast
<1>4. blk[b] \o R[nx[b]] \in Seq(S)
  BY ONLY <1>2, <1>3, ConcatProperties
<1>5. \A a \in (b + 1)..(n + 1) : a \in b..(n + 1) /\ a # b
  BY <1>1
<1>6. (\A a \in (b + 1)..(n + 1) : Q[a] = R[a]) /\ Q[b] = blk[b] \o R[nx[b]]
  <2>1. b \in b..(n + 1)
    BY <1>1
  <2>2. Q[b] = blk[b] \o R[nx[b]]
    BY <2>1, Zenon
  <2>3. \A a \in (b + 1)..(n + 1) : Q[a] = R[a]
    BY <1>5, Zenon
  <2>. QED  BY <2>2, <2>3
<1> HIDE DEF Q
<1>7. \A a \in (b + 1)..(n + 1) : R[a] \in Seq(S)
  BY <1>1 DEF GathersLast
<1>8. \A a \in b..(n + 1) : a = b \/ a \in (b + 1)..(n + 1)
  BY <1>1
<1>9. ASSUME NEW a \in b..(n + 1) PROVE Q[a] \in Seq(S)
  BY <1>4, <1>6, <1>7, <1>8
<1>10. Q[n + 1] = <<>>
  BY <1>1, <1>6 DEF GathersLast
<1>11. ASSUME NEW a \in b..n PROVE Q[a] = blk[a] \o Q[nx[a]]
  <2>1. CASE a = b
    BY <1>2, <1>6, <2>1
  <2>2. CASE a # b
    <3>1. a \in (b + 1)..(n + 1) /\ a \in (b + 1)..n /\ a \in 1..n
      BY <1>1, <2>2
    <3>2. nx[a] \in (a + 1)..(n + 1)
      BY <3>1 DEF Moves
    <3>3. nx[a] \in (b + 1)..(n + 1)
      BY <1>1, <3>1, <3>2
    <3>4. R[a] = blk[a] \o R[nx[a]]
      BY <1>1, <3>1 DEF GathersLast
    <3>. QED  BY <1>6, <3>1, <3>3, <3>4
  <2>. QED  BY <2>1, <2>2
<1>12. GathersLast(Q, k + 1, n, nx, blk, S)
  BY <1>1, <1>9, <1>10, <1>11 DEF GathersLast
<1>. QED  BY <1>12

\* What is gathered is well defined.
LEMMA GatherExists ==
  ASSUME NEW n \in Nat, NEW nx, NEW blk, NEW S, Moves(n, nx, blk, S)
  PROVE  \E R : Gathers(R, n, nx, blk, S)
<1> DEFINE K == {k \in Nat : k <= n => \E R : GathersLast(R, k, n, nx, blk, S)}
<1>1. 0 \in K
  <2> DEFINE R == [a \in {n + 1} |-> <<>>]
  <2>1. R[n + 1] = <<>> /\ <<>> \in Seq(S)
    BY EmptySeq
  <2>2. (n + 1 - 0)..(n + 1) = {n + 1} /\ (n + 1 - 0)..n = {}
    OBVIOUS
  <2> HIDE DEF R
  <2>3. GathersLast(R, 0, n, nx, blk, S)
    BY <2>1, <2>2 DEF GathersLast
  <2>. QED  BY <2>3
<1>2. ASSUME NEW k \in Nat, k \in K PROVE k + 1 \in K
  <2>1. k + 1 <= n => k <= n
    OBVIOUS
  <2>. QED  BY <1>2, <2>1, GathersOn
<1>3. n \in K
  <2> HIDE DEF K
  <2>. QED  BY <1>1, <1>2, Induction
<1>4. PICK R : GathersLast(R, n, n, nx, blk, S)
  BY <1>3
<1>5. n + 1 - n = 1
  OBVIOUS
<1>6. Gathers(R, n, nx, blk, S)
  BY <1>4, <1>5 DEF Gathers, GathersLast
<1>. QED  BY <1>6

\* The loop ends with R[a] after what it had at a.
Gathered(R, step, mk, n, S) ==
  \A a \in 1..(n + 1) : \A acc \in Seq(S) : Repeat(step, n, mk[<<a, acc>>]) = mk[<<n + 1, acc \o R[a]>>]

\* The loop gathers it.
LEMMA LoopGathers ==
  ASSUME NEW n \in Nat, NEW nx, NEW blk, NEW S, NEW R, NEW step, NEW mk,
         Moves(n, nx, blk, S), Gathers(R, n, nx, blk, S), Loops(step, mk, n, nx, blk, S)
  PROVE  Gathered(R, step, mk, n, S)
<1> DEFINE Done(k, a) == \A acc \in Seq(S) : Repeat(step, k, mk[<<a, acc>>]) = mk[<<n + 1, acc \o R[a]>>]
           K == {k \in Nat : \A a \in 1..(n + 1) : n + 1 - a <= k => Done(k, a)}
<1>0. \A a, b, c : a \in Seq(S) /\ b \in Seq(S) /\ c \in Seq(S) => (a \o b) \o c = a \o (b \o c)
  BY Associates
<1>1. ASSUME NEW k \in Nat PROVE Done(k, n + 1)
  <2> SUFFICES ASSUME NEW acc \in Seq(S) PROVE Repeat(step, k, mk[<<n + 1, acc>>]) = mk[<<n + 1, acc \o R[n + 1]>>]
    OBVIOUS
  <2>1. acc \o <<>> = acc
    BY ConcatEmptySeq
  <2>2. step[mk[<<n + 1, acc>>]] = mk[<<n + 1, acc>>]
    BY DEF Loops
  <2>3. Repeat(step, k, mk[<<n + 1, acc>>]) = mk[<<n + 1, acc>>]
    BY <2>2, RepeatStays
  <2>4. R[n + 1] = <<>>
    BY DEF Gathers
  <2>. QED  BY <2>1, <2>3, <2>4
<1>2. 0 \in K
  <2>1. \A a \in 1..(n + 1) : n + 1 - a <= 0 => a = n + 1
    OBVIOUS
  <2> HIDE DEF Done
  <2>. QED  BY <1>1, <2>1
<1>3. ASSUME NEW k \in Nat, k \in K PROVE k + 1 \in K
  <2> SUFFICES ASSUME NEW a \in 1..(n + 1), n + 1 - a <= k + 1, a # n + 1 PROVE Done(k + 1, a)
    <3> HIDE DEF Done
    <3>. QED  BY <1>1
  <2> SUFFICES ASSUME NEW acc \in Seq(S) PROVE Repeat(step, k + 1, mk[<<a, acc>>]) = mk[<<n + 1, acc \o R[a]>>]
    OBVIOUS
  <2>1. a \in 1..n
    OBVIOUS
  <2>2. nx[a] \in (a + 1)..(n + 1) /\ blk[a] \in Seq(S) /\ R[a] = blk[a] \o R[nx[a]]
    BY <2>1 DEF Moves, Gathers
  <2>3. nx[a] \in 1..(n + 1) /\ n + 1 - nx[a] <= k
    BY <2>1, <2>2
  <2> DEFINE b == nx[a]
             x == blk[a]
             r == R[b]
  <2>4. r \in Seq(S)
    BY <2>3 DEF Gathers
  <2>5. step[mk[<<a, acc>>]] = mk[<<b, acc \o x>>]
    BY <2>1 DEF Loops
  <2>6. Done(k, b)
    BY <1>3, <2>3
  <2> HIDE DEF b, x
  <2>7. acc \o x \in Seq(S)
    BY <2>2, ConcatProperties DEF x
  <2>8. Repeat(step, k, mk[<<b, acc \o x>>]) = mk[<<n + 1, (acc \o x) \o R[b]>>]
    BY <2>6, <2>7
  <2> HIDE DEF r
  <2>9. (acc \o x) \o r = acc \o (x \o r)
    <3>1. acc \in Seq(S) /\ x \in Seq(S)
      BY <2>2 DEF x
    <3>. QED  BY ONLY <1>0, <2>4, <3>1
  <2>10. Repeat(step, k + 1, mk[<<a, acc>>]) = Repeat(step, k, step[mk[<<a, acc>>]])
    BY RepeatFirst
  <2>. QED  BY <2>2, <2>5, <2>8, <2>9, <2>10 DEF b, x, r
<1>4. n \in K
  <2> HIDE DEF K
  <2>. QED  BY <1>2, <1>3, Induction
<1>5. \A a \in 1..(n + 1) : Done(n, a)
  <2>1. \A a \in 1..(n + 1) : n + 1 - a <= n
    OBVIOUS
  <2> HIDE DEF Done
  <2>. QED  BY <1>4, <2>1
<1>. QED  BY <1>5 DEF Gathered
-----------------------------------------------------------------------------
(* The pieces of a text from each place on, and its items.                 *)

\* What holds from the end backwards holds everywhere.
LEMMA Downward ==
  ASSUME NEW n, n \in Nat, NEW K, n + 1 \in K,
         \A a \in 1..n : (\A b \in (a + 1)..(n + 1) : b \in K) => a \in K
  PROVE  \A a \in 1..(n + 1) : a \in K
<1> DEFINE L == {k \in Nat : \A a \in 1..(n + 1) : n + 1 - a <= k => a \in K}
<1>1. 0 \in L
  <2>1. \A a \in 1..(n + 1) : n + 1 - a <= 0 => a = n + 1
    OBVIOUS
  <2>. QED  BY <2>1
<1>2. ASSUME NEW k \in Nat, k \in L PROVE k + 1 \in L
  <2> SUFFICES ASSUME NEW a \in 1..(n + 1), n + 1 - a <= k + 1 PROVE a \in K
    OBVIOUS
  <2>1. CASE a = n + 1
    BY <2>1
  <2>2. CASE a # n + 1
    <3>1. a \in 1..n
      BY <2>2
    <3>2. \A b \in (a + 1)..(n + 1) : b \in 1..(n + 1) /\ n + 1 - b <= k
      OBVIOUS
    <3>3. \A b \in (a + 1)..(n + 1) : b \in K
      BY <1>2, <3>2
    <3>. QED  BY <3>1, <3>3
  <2>. QED  BY <2>1, <2>2
<1>3. n \in L
  <2> HIDE DEF L
  <2>. QED  BY <1>1, <1>2, Induction
<1>4. \A a \in 1..(n + 1) : n + 1 - a <= n
  OBVIOUS
<1>. QED  BY <1>3, <1>4

\* The texts of one byte or more.
NonEmpty == Seq(Byte) \ {<<>>}

\* Where a piece that starts at a ends, and the piece.
Ends1(u) == [a \in 1..Len(u) |-> NextBoundary(u, a)]
Piece1(u) == [a \in 1..Len(u) |-> <<SubSeq(u, a, NextBoundary(u, a) - 1)>>]

\* R[a] is the pieces of u from a on.
PiecesFrom(u, R) == Gathers(R, Len(u), Ends1(u), Piece1(u), NonEmpty)

\* Pieces move on and are not empty.
LEMMA PiecesMove == ASSUME NEW u, u \in Seq(Byte) PROVE Moves(Len(u), Ends1(u), Piece1(u), NonEmpty)
<1> DEFINE n == Len(u)
<1>0. n \in Nat
  BY LenProperties
<1> SUFFICES ASSUME NEW a, a \in 1..n
             PROVE Ends1(u)[a] \in (a + 1)..(n + 1) /\ Piece1(u)[a] \in Seq(NonEmpty)
  BY DEF Moves
<1> DEFINE q == NextBoundary(u, a)
<1>1. q \in (a + 1)..(n + 1)
  BY BoundaryIs
<1>2. Ends1(u)[a] = q /\ Piece1(u)[a] = <<SubSeq(u, a, q - 1)>>
  BY Zenon DEF Ends1, Piece1
<1> HIDE DEF q
<1> DEFINE x == SubSeq(u, a, q - 1)
<1>3. a \in Int /\ q - 1 \in Int /\ a <= q - 1 /\ a \in 1..(n + 1) /\ q - 1 \in 0..n
  BY <1>0, <1>1
<1>4. x \in Seq(Byte)
  BY <1>3, PartIs
<1>5. Len(x) = (q - 1) - a + 1
  <2>1. \A j \in a..(q - 1) : j \in 1..Len(u)
    BY <1>0, <1>3
  <2>2. \A j \in a..(q - 1) : u[j] \in Byte
    BY <2>1, ElementOfSeq
  <2>. QED  BY <1>3, <2>2, SubSeqProperties
<1> HIDE DEF x
<1>6. x # <<>>
  <2>1. Len(x) > 0
    BY <1>0, <1>1, <1>3, <1>5
  <2>. QED  BY <2>1, EmptySeq
<1>7. x \in NonEmpty
  BY <1>4, <1>6 DEF NonEmpty
<1>8. <<x>> \in Seq(NonEmpty)
  BY <1>7
<1>. QED  BY <1>1, <1>2, <1>8 DEF x

\* A sequence of bytes, or of texts, is one of naturals.
LEMMA TextsAreNat ==
  /\ \A x : x \in Seq(Byte) => x \in Seq(Nat)
  /\ \A x : x \in Seq(NonEmpty) => x \in Seq(Seq(Nat))
<1> DEFINE S == Nat
           T == Seq(S)
<1>1. Byte \subseteq S
  BY DEF Byte
<1> HIDE DEF S
<1>2. \A x : x \in Seq(Byte) => x \in T
  BY <1>1, SeqMono
<1>3. NonEmpty \subseteq T
  BY <1>2 DEF NonEmpty
<1> HIDE DEF T
<1>4. \A x : x \in Seq(NonEmpty) => x \in Seq(T)
  BY <1>3, SeqMono
<1>. QED  BY <1>2, <1>4 DEF S, T

\* Pieces gathers them.
LEMMA PiecesGather ==
  ASSUME NEW u, u \in Seq(Byte)
  PROVE  \E R : PiecesFrom(u, R) /\ Pieces(u) = R[1]
<1> DEFINE n == Len(u)
           S == NonEmpty
           mk == [z \in (1..(n + 1)) \X Seq(S) |-> [at |-> z[1], pieces |-> z[2]]]
           step == PieceStep(u)
<1>0. n \in Nat
  BY LenProperties
<1>1. Moves(n, Ends1(u), Piece1(u), S)
  BY PiecesMove
<1>2. PICK R : Gathers(R, n, Ends1(u), Piece1(u), S)
  BY <1>0, <1>1, GatherExists
<1>3. ASSUME NEW a, NEW acc, a \in 1..(n + 1), acc \in Seq(S)
      PROVE  /\ mk[<<a, acc>>] = [at |-> a, pieces |-> acc]
             /\ mk[<<a, acc>>] \in [at : Nat, pieces : Seq(Seq(Nat))]
  <2>1. <<a, acc>> \in (1..(n + 1)) \X Seq(S)
    BY <1>3
  <2>2. mk[<<a, acc>>] = [at |-> <<a, acc>>[1], pieces |-> <<a, acc>>[2]]
    BY <2>1, Zenon
  <2>3. <<a, acc>>[1] = a /\ <<a, acc>>[2] = acc
    OBVIOUS
  <2>4. acc \in Seq(Seq(Nat))
    BY <1>3, TextsAreNat
  <2>5. a \in Nat
    BY <1>0, <1>3
  <2>. QED  BY <2>2, <2>3, <2>4, <2>5
<1>4. ASSUME NEW a, NEW acc, a \in 1..(n + 1), acc \in Seq(S)
      PROVE  step[[at |-> a, pieces |-> acc]] =
               IF a > n THEN [at |-> a, pieces |-> acc] ELSE CutTo(u, [at |-> a, pieces |-> acc], NextBoundary(u, a))
  <2> DEFINE s == [at |-> a, pieces |-> acc]
  <2>1. s \in [at : Nat, pieces : Seq(Seq(Nat))] /\ s.at = a
    BY <1>3, <1>4
  <2> HIDE DEF s
  <2>2. step[s] = IF s.at > Len(u) THEN s ELSE CutTo(u, s, NextBoundary(u, s.at))
    BY <2>1, Zenon DEF PieceStep
  <2>. QED  BY <2>1, <2>2 DEF s
<1>5. Loops(step, mk, n, Ends1(u), Piece1(u), S)
  <2>1. ASSUME NEW a \in 1..n, NEW acc \in Seq(S)
        PROVE step[mk[<<a, acc>>]] = mk[<<Ends1(u)[a], acc \o Piece1(u)[a]>>]
    <3>1. a \in 1..(n + 1) /\ ~ (a > n)
      BY <1>0
    <3> DEFINE q == NextBoundary(u, a)
               x == SubSeq(u, a, q - 1)
    <3>2. Ends1(u)[a] = q /\ Piece1(u)[a] = <<x>>
      BY Zenon DEF Ends1, Piece1
    <3>3. q \in (a + 1)..(n + 1) /\ <<x>> \in Seq(S)
      BY <1>1, <3>2 DEF Moves
    <3>4. x \in S
      BY <3>3
    <3> HIDE DEF x, q
    <3>5. Append(acc, x) = acc \o <<x>> /\ acc \o <<x>> \in Seq(S)
      BY <3>3, <3>4, AppendIsConcat, ConcatProperties
    <3>6. q \in 1..(n + 1)
      BY <3>1, <3>3
    <3>7. CutTo(u, [at |-> a, pieces |-> acc], q) = [at |-> q, pieces |-> Append(acc, x)]
      BY DEF CutTo, x
    <3> HIDE DEF mk, step, n
    <3>8. step[mk[<<a, acc>>]] = [at |-> q, pieces |-> Append(acc, x)]
      BY <1>3, <1>4, <3>1, <3>7 DEF q
    <3>9. mk[<<q, acc \o <<x>>>>] = [at |-> q, pieces |-> acc \o <<x>>]
      BY <1>3, <3>5, <3>6
    <3>. QED  BY <3>2, <3>5, <3>8, <3>9
  <2>2. ASSUME NEW acc \in Seq(S) PROVE step[mk[<<n + 1, acc>>]] = mk[<<n + 1, acc>>]
    <3> DEFINE e == n + 1
    <3>1. e \in 1..(n + 1) /\ e > n
      BY <1>0
    <3> HIDE DEF mk, step, n, e
    <3>2. mk[<<e, acc>>] = [at |-> e, pieces |-> acc]
      BY <1>3, <3>1
    <3>3. step[[at |-> e, pieces |-> acc]] = [at |-> e, pieces |-> acc]
      BY <1>4, <3>1
    <3>. QED  BY <3>2, <3>3 DEF e
  <2>. QED  BY <2>1, <2>2 DEF Loops
<1>6. Pieces(u) = Repeat(step, n, [at |-> 1, pieces |-> <<>>]).pieces
  BY DEF Pieces
<1>7. 1 \in 1..(n + 1) /\ n + 1 \in 1..(n + 1) /\ <<>> \in Seq(S)
  BY <1>0, EmptySeq
<1>8. mk[<<1, <<>>>>] = [at |-> 1, pieces |-> <<>>]
  BY <1>3, <1>7
<1>9. R[1] \in Seq(S)
  BY <1>2, <1>7 DEF Gathers
<1>10. <<>> \o R[1] = R[1]
  BY <1>9, ConcatEmptySeq
<1>11. mk[<<n + 1, R[1]>>] = [at |-> n + 1, pieces |-> R[1]]
  BY <1>3, <1>7, <1>9
<1> HIDE DEF mk, step, S, n
<1>12. Repeat(step, n, mk[<<1, <<>>>>]) = mk[<<n + 1, <<>> \o R[1]>>]
  <2>1. Gathered(R, step, mk, n, S)
    BY ONLY <1>0, <1>1, <1>2, <1>5, LoopGathers
  <2>. QED  BY <1>7, <2>1, Zenon DEF Gathered
<1>13. Pieces(u) = R[1]
  BY <1>6, <1>8, <1>10, <1>11, <1>12
<1>. QED  BY <1>2, <1>13 DEF PiecesFrom, S, n
-----------------------------------------------------------------------------
(* What a text is made of, put together item by item: a sequence mapped    *)
(* and flattened.                                                          *)

Mapped(f, x) == [k \in DOMAIN x |-> f[x[k]]]
Hom(f, x) == FlattenSeq(Mapped(f, x))

\* f gives sequences over C for what is in A.
Gives(f, A, C) == \A a \in A : f[a] \in Seq(C)

\* f gives elements of B for what is in A.
Into(f, A, B) == \A a \in A : f[a] \in B

\* Mapping goes through concatenation.
LEMMA MappedConcat ==
  ASSUME NEW A, NEW B, NEW f, Into(f, A, B), NEW x, NEW y, x \in Seq(A), y \in Seq(A)
  PROVE  Mapped(f, y) \in Seq(B) /\ Mapped(f, x \o y) = Mapped(f, x) \o Mapped(f, y)
<1>1. ASSUME NEW z, z \in Seq(A)
      PROVE  Mapped(f, z) \in Seq(B) /\ Len(Mapped(f, z)) = Len(z) /\ \A k \in 1..Len(z) : Mapped(f, z)[k] = f[z[k]]
  <2>1. Len(z) \in Nat /\ DOMAIN z = 1..Len(z) /\ \A k \in 1..Len(z) : z[k] \in A
    BY <1>1, LenProperties, ElementOfSeq
  <2> DEFINE n == Len(z)
             m == [k \in 1..n |-> f[z[k]]]
  <2>2. Mapped(f, z) = m
    BY <2>1 DEF Mapped
  <2>3. m \in [1..n -> B]
    BY <2>1 DEF Into
  <2>4. \A k \in 1..n : m[k] = f[z[k]]
    OBVIOUS
  <2> HIDE DEF m, n
  <2>5. m \in Seq(B) /\ Len(m) = n
    BY <2>1, <2>3, FunIsSeq DEF n
  <2>. QED  BY <2>2, <2>4, <2>5 DEF n
<1>2. /\ x \o y \in Seq(A) /\ Len(x \o y) = Len(x) + Len(y) /\ Len(x) \in Nat /\ Len(y) \in Nat
      /\ \A k \in 1..(Len(x) + Len(y)) : (x \o y)[k] = IF k <= Len(x) THEN x[k] ELSE y[k - Len(x)]
  BY ConcatProperties, LenProperties
<1> DEFINE mx == Mapped(f, x)
           my == Mapped(f, y)
           xy == x \o y
           mxy == Mapped(f, xy)
<1>3. mx \in Seq(B) /\ Len(mx) = Len(x) /\ \A k \in 1..Len(x) : mx[k] = f[x[k]]
  BY <1>1
<1>4. my \in Seq(B) /\ Len(my) = Len(y) /\ \A k \in 1..Len(y) : my[k] = f[y[k]]
  BY <1>1
<1>5. mxy \in Seq(B) /\ Len(mxy) = Len(x) + Len(y) /\ \A k \in 1..(Len(x) + Len(y)) : mxy[k] = f[xy[k]]
  BY <1>1, <1>2
<1> HIDE DEF mx, my, mxy
<1>6. /\ mx \o my \in Seq(B) /\ Len(mx \o my) = Len(x) + Len(y)
      /\ \A k \in 1..(Len(x) + Len(y)) : (mx \o my)[k] = IF k <= Len(x) THEN mx[k] ELSE my[k - Len(x)]
  <2>1. /\ mx \o my \in Seq(B) /\ Len(mx \o my) = Len(mx) + Len(my)
        /\ \A k \in 1..(Len(mx) + Len(my)) : (mx \o my)[k] = IF k <= Len(mx) THEN mx[k] ELSE my[k - Len(mx)]
    BY <1>3, <1>4, ConcatProperties
  <2>. QED  BY ONLY <1>3, <1>4, <2>1
<1>7. ASSUME NEW k \in 1..(Len(x) + Len(y)) PROVE mxy[k] = (mx \o my)[k]
  <2>1. CASE k <= Len(x)
    <3>1. k \in 1..Len(x)
      BY <1>2, <2>1
    <3>2. xy[k] = x[k] /\ (mx \o my)[k] = mx[k]
      BY <1>2, <1>6, <2>1
    <3>. QED  BY <1>3, <1>5, <3>1, <3>2
  <2>2. CASE ~ (k <= Len(x))
    <3>1. k - Len(x) \in 1..Len(y)
      BY <1>2, <2>2
    <3>2. xy[k] = y[k - Len(x)] /\ (mx \o my)[k] = my[k - Len(x)]
      BY <1>2, <1>6, <2>2
    <3>. QED  BY <1>4, <1>5, <3>1, <3>2
  <2>. QED  BY <2>1, <2>2
<1>8. mxy = mx \o my
  <2> DEFINE c == mx \o my
  <2>1. c \in Seq(B) /\ Len(mxy) = Len(c) /\ \A k \in 1..Len(mxy) : mxy[k] = c[k]
    BY <1>5, <1>6, <1>7
  <2> HIDE DEF c
  <2>2. mxy = c
    BY <1>5, <2>1, SeqEqual
  <2>. QED  BY <2>2 DEF c
<1>. QED  BY <1>4, <1>8 DEF mx, my, mxy

\* Nothing and one item mapped.
LEMMA MappedSmall ==
  /\ \A f : Mapped(f, <<>>) = <<>>
  /\ \A f, a : Mapped(f, <<a>>) = <<f[a]>>
<1>1. ASSUME NEW f PROVE Mapped(f, <<>>) = <<>>
  BY DEF Mapped
<1>2. ASSUME NEW f, NEW a PROVE Mapped(f, <<a>>) = <<f[a]>>
  BY DEF Mapped
<1>. QED  BY <1>1, <1>2

\* So does mapping and flattening.
LEMMA HomConcat ==
  ASSUME NEW A, NEW C, NEW f, Gives(f, A, C), NEW x, NEW y, x \in Seq(A), y \in Seq(A)
  PROVE  Hom(f, y) \in Seq(C) /\ Hom(f, x \o y) = Hom(f, x) \o Hom(f, y)
<1> DEFINE T == Seq(C)
<1>1. Into(f, A, T)
  BY DEF Gives, Into
<1> HIDE DEF T
<1>2. Mapped(f, x) \in Seq(T) /\ Mapped(f, y) \in Seq(T) /\ Mapped(f, x \o y) = Mapped(f, x) \o Mapped(f, y)
  <2>1. Mapped(f, x) \in Seq(T)
    BY <1>1, MappedConcat
  <2>2. Mapped(f, y) \in Seq(T) /\ Mapped(f, x \o y) = Mapped(f, x) \o Mapped(f, y)
    BY <1>1, MappedConcat
  <2>. QED  BY <2>1, <2>2
<1> DEFINE mx == Mapped(f, x)
           my == Mapped(f, y)
<1>3. mx \in Seq(Seq(C)) /\ my \in Seq(Seq(C))
  BY <1>2 DEF T
<1> HIDE DEF mx, my
<1>4. FlattenSeq(mx \o my) = FlattenSeq(mx) \o FlattenSeq(my) /\ FlattenSeq(my) \in Seq(C)
  BY <1>3, FlattenConcat
<1>. QED  BY <1>2, <1>4 DEF Hom, mx, my

\* Nothing and one item.
LEMMA HomSmall ==
  /\ \A f : Hom(f, <<>>) = <<>>
  /\ \A f, a : Hom(f, <<a>>) = f[a]
<1>1. ASSUME NEW f PROVE Hom(f, <<>>) = <<>>
  BY MappedSmall, FlattenNone DEF Hom
<1>2. ASSUME NEW f, NEW a PROVE Hom(f, <<a>>) = f[a]
  <2>1. Mapped(f, <<a>>) = <<f[a]>>
    BY MappedSmall
  <2>. QED  BY <2>1, FlattenOne DEF Hom
<1>. QED  BY <1>1, <1>2

\* One item more.
LEMMA HomAppend ==
  ASSUME NEW A, NEW C, NEW f, Gives(f, A, C), NEW x, NEW a, x \in Seq(A), a \in A
  PROVE  Hom(f, Append(x, a)) = Hom(f, x) \o f[a]
<1>1. <<a>> \in Seq(A) /\ Append(x, a) = x \o <<a>>
  BY AppendIsConcat
<1> DEFINE o == <<a>>
<1>2. Hom(f, o) = f[a]
  BY HomSmall
<1> HIDE DEF o
<1>0. o \in Seq(A)
  BY <1>1 DEF o
<1>3. Hom(f, x \o o) = Hom(f, x) \o Hom(f, o)
  BY <1>0, HomConcat
<1>. QED  BY <1>1, <1>2, <1>3 DEF o

\* Two in a row are one, when they are for every item.
LEMMA HomOfHom ==
  ASSUME NEW A, NEW C, NEW D, NEW f, NEW g, NEW h, Gives(f, A, C), Gives(g, C, D), Gives(h, A, D),
         \A a \in A : Hom(g, f[a]) = h[a], NEW x, x \in Seq(A)
  PROVE  Hom(g, Hom(f, x)) = Hom(h, x)
<1> DEFINE Same(z) == Hom(g, Hom(f, z)) = Hom(h, z)
           K == {k \in Nat : \A z : z \in Seq(A) /\ Len(z) = k => Same(z)}
<1>1. 0 \in K
  <2> SUFFICES ASSUME NEW z, z \in Seq(A), Len(z) = 0 PROVE Same(z)
    OBVIOUS
  <2>1. z = <<>>
    BY EmptySeq
  <2>. QED  BY <2>1, HomSmall
<1>2. ASSUME NEW k \in Nat, k \in K PROVE k + 1 \in K
  <2> SUFFICES ASSUME NEW z, z \in Seq(A), Len(z) = k + 1 PROVE Same(z)
    OBVIOUS
  <2>1. z # <<>>
    BY EmptySeq
  <2>2. PICK w \in Seq(A), a \in A : z = Append(w, a)
    BY <2>1, SequenceEmptyOrAppend
  <2>3. Len(w) = k
    <3>1. Len(w) + 1 = k + 1 /\ Len(w) \in Nat
      BY <2>2, AppendProperties, LenProperties
    <3>. QED  BY <3>1
  <2>4. Same(w)
    BY <1>2, <2>3
  <2>5. Hom(f, z) = Hom(f, w) \o f[a] /\ Hom(h, z) = Hom(h, w) \o h[a]
    <3>1. Hom(f, Append(w, a)) = Hom(f, w) \o f[a]
      BY HomAppend
    <3>2. Hom(h, Append(w, a)) = Hom(h, w) \o h[a]
      BY HomAppend
    <3>. QED  BY <2>2, <3>1, <3>2
  <2>6. Hom(f, w) \in Seq(C)
    BY HomConcat
  <2> DEFINE u == Hom(f, w)
             v == f[a]
  <2>7. v \in Seq(C)
    BY DEF Gives
  <2> HIDE DEF u, v
  <2>8. Hom(g, u \o v) = Hom(g, u) \o Hom(g, v)
    BY <2>6, <2>7, HomConcat DEF u
  <2>9. Hom(g, v) = h[a]
    BY DEF v
  <2>. QED  BY <2>4, <2>5, <2>8, <2>9 DEF u, v
<1>3. Nat \subseteq K
  <2> HIDE DEF K
  <2>. QED  BY <1>1, <1>2, Induction
<1>4. Len(x) \in Nat
  BY LenProperties
<1>. QED  BY <1>3, <1>4

\* What a text of n bytes is from a on.
LEMMA Adjacent ==
  ASSUME NEW S, NEW t, t \in Seq(S), NEW a, NEW q, a \in 1..(Len(t) + 1), q \in a..(Len(t) + 1)
  PROVE  SubSeq(t, a, q - 1) \o SubSeq(t, q, Len(t)) = SubSeq(t, a, Len(t))
<1> DEFINE n == Len(t)
           k == q - 1
<1>1. n \in Nat
  BY LenProperties
<1>2. k \in (a - 1)..n /\ n \in k..n /\ k + 1 = q /\ a \in 1..(n + 1)
  BY <1>1
<1> HIDE DEF k
<1>3. SubSeq(t, a, k) \o SubSeq(t, k + 1, n) = SubSeq(t, a, n)
  BY <1>2, ConcatAdjacentSubSeq
<1>. QED  BY <1>2, <1>3 DEF k

\* The end of a text is empty.
LEMMA PastEnd == ASSUME NEW S, NEW t, t \in Seq(S) PROVE SubSeq(t, Len(t) + 1, Len(t)) = <<>>
<1>1. Len(t) \in Nat
  BY LenProperties
<1>2. Len(t) + 1 \in Int /\ Len(t) \in Int /\ Len(t) < Len(t) + 1
  BY <1>1
<1>. QED  BY <1>2, SubSeqEmpty

\* The pieces from a place on are the text from there on.
LEMMA PiecesSpell ==
  ASSUME NEW u, u \in Seq(Byte), NEW R, PiecesFrom(u, R)
  PROVE  \A a \in 1..(Len(u) + 1) : FlattenSeq(R[a]) = SubSeq(u, a, Len(u))
<1> DEFINE n == Len(u)
           K == {a \in 1..(n + 1) : FlattenSeq(R[a]) = SubSeq(u, a, n)}
<1>0. n \in Nat
  BY LenProperties
<1>1. n + 1 \in K
  <2>1. R[n + 1] = <<>> /\ n + 1 \in 1..(n + 1)
    BY <1>0 DEF PiecesFrom, Gathers
  <2>2. FlattenSeq(R[n + 1]) = SubSeq(u, n + 1, n)
    BY <2>1, FlattenNone, PastEnd
  <2>. QED  BY <2>1, <2>2
<1>2. ASSUME NEW a \in 1..n, \A b \in (a + 1)..(n + 1) : b \in K PROVE a \in K
  <2> DEFINE q == NextBoundary(u, a)
             x == SubSeq(u, a, q - 1)
             r == R[q]
  <2>1. Ends1(u)[a] = q /\ Piece1(u)[a] = <<x>>
    BY Zenon DEF Ends1, Piece1
  <2>2. q \in (a + 1)..(n + 1) /\ <<x>> \in Seq(NonEmpty)
    BY <2>1, PiecesMove DEF Moves
  <2>3. R[a] = <<x>> \o R[q]
    BY <2>1 DEF PiecesFrom, Gathers
  <2>4. q \in K /\ q \in 1..(n + 1) /\ q \in a..(n + 1) /\ a \in 1..(n + 1)
    BY <1>0, <1>2, <2>2
  <2>5. R[q] \in Seq(NonEmpty)
    BY <2>4 DEF PiecesFrom, Gathers
  <2>6. FlattenSeq(R[q]) = SubSeq(u, q, n)
    BY <2>4
  <2> HIDE DEF x, q
  <2> DEFINE o == <<x>>
  <2>7. o \in Seq(Seq(Byte)) /\ r \in Seq(Seq(Byte))
    <3> DEFINE T == Seq(Byte)
    <3>1. NonEmpty \subseteq T
      BY DEF NonEmpty
    <3> HIDE DEF T, o, r
    <3>2. o \in Seq(NonEmpty) /\ r \in Seq(NonEmpty)
      BY <2>2, <2>5 DEF o, r
    <3>3. o \in Seq(T) /\ r \in Seq(T)
      BY <3>1, <3>2, SeqMono
    <3>. QED  BY <3>3 DEF T
  <2>8. FlattenSeq(o) = x
    BY FlattenOne
  <2> HIDE DEF o, r, K
  <2>9. FlattenSeq(o \o r) = FlattenSeq(o) \o FlattenSeq(r)
    BY <2>7, FlattenConcat
  <2>10. x \o SubSeq(u, q, n) = SubSeq(u, a, n)
    BY <2>4, Adjacent DEF x
  <2>11. FlattenSeq(R[a]) = SubSeq(u, a, n)
    BY <2>3, <2>6, <2>8, <2>9, <2>10 DEF o, r
  <2>. QED  BY <2>4, <2>11 DEF K
<1>3. \A a \in 1..(n + 1) : a \in K
  <2> HIDE DEF K, n
  <2>. QED  BY <1>0, <1>1, <1>2, Downward
<1>. QED  BY <1>3

\* What a text is made of: pieces that are not empty, and specials.
TextItem == {Piece(b) : b \in NonEmpty} \cup {Special(k) : k \in DOMAIN Specials}
ItemText == [i \in TextItem |-> IF i.special = 0 THEN i.bytes ELSE Specials[i.special]]
AsItems(ps) == [k \in DOMAIN ps |-> Piece(ps[k])]
PieceOf == [b \in NonEmpty |-> Piece(b)]

\* Numbers of specials are not 0, and specials are not empty.
LEMMA SpecialsAre ==
  /\ Len(Specials) \in Nat /\ DOMAIN Specials = 1..Len(Specials)
  /\ \A k \in DOMAIN Specials : /\ k \in Nat /\ k # 0 /\ k <= Len(Specials) /\ Specials[k] \in Seq(Byte)
                                /\ Specials[k] # <<>> /\ Len(Specials[k]) \in Nat \ {0}
<1> DEFINE T == Seq(Byte) \ {<<>>}
<1>1. Specials \in Seq(T)
  BY ByteBpeAssumption
<1> HIDE DEF T
<1>2. Len(Specials) \in Nat /\ DOMAIN Specials = 1..Len(Specials) /\ \A k \in 1..Len(Specials) : Specials[k] \in T
  BY <1>1, LenProperties, ElementOfSeq
<1>3. \A x : x \in T => x \in Seq(Byte) /\ x # <<>> /\ Len(x) \in Nat \ {0}
  BY EmptySeq DEF T
<1>. QED  BY <1>2, <1>3

\* Their fields and texts.
LEMMA ItemFields ==
  /\ \A b \in NonEmpty : /\ Piece(b) \in TextItem /\ Piece(b).special = 0 /\ Piece(b).bytes = b
                         /\ ItemText[Piece(b)] = b
  /\ \A k \in DOMAIN Specials : /\ Special(k) \in TextItem /\ Special(k).special = k /\ k # 0
                                /\ Special(k).bytes = <<>> /\ ItemText[Special(k)] = Specials[k]
<1>1. ASSUME NEW b \in NonEmpty
      PROVE Piece(b) \in TextItem /\ Piece(b).special = 0 /\ Piece(b).bytes = b /\ ItemText[Piece(b)] = b
  <2>1. Piece(b) \in TextItem
    BY DEF TextItem
  <2>2. Piece(b).special = 0 /\ Piece(b).bytes = b
    BY DEF Piece
  <2>3. ItemText[Piece(b)] = IF Piece(b).special = 0 THEN Piece(b).bytes ELSE Specials[Piece(b).special]
    BY <2>1, Zenon DEF ItemText
  <2>. QED  BY <2>1, <2>2, <2>3
<1>2. ASSUME NEW k \in DOMAIN Specials
      PROVE /\ Special(k) \in TextItem /\ Special(k).special = k /\ k # 0
            /\ Special(k).bytes = <<>> /\ ItemText[Special(k)] = Specials[k]
  <2>1. Special(k) \in TextItem
    BY DEF TextItem
  <2>2. Special(k).special = k /\ Special(k).bytes = <<>>
    BY DEF Special
  <2>3. ItemText[Special(k)] = IF Special(k).special = 0 THEN Special(k).bytes ELSE Specials[Special(k).special]
    BY <2>1, Zenon DEF ItemText
  <2>4. k # 0
    BY SpecialsAre
  <2>. QED  BY <2>1, <2>2, <2>3, <2>4
<1>. QED  BY <1>1, <1>2

\* Items give bytes.
LEMMA ItemTextGives == Gives(ItemText, TextItem, Byte)
<1>1. ASSUME NEW b \in NonEmpty PROVE ItemText[Piece(b)] \in Seq(Byte)
  <2>1. b \in Seq(Byte)
    BY DEF NonEmpty
  <2>. QED  BY <2>1, ItemFields
<1>2. ASSUME NEW k \in DOMAIN Specials PROVE ItemText[Special(k)] \in Seq(Byte)
  BY ItemFields, SpecialsAre
<1>. QED  BY <1>1, <1>2 DEF Gives, TextItem

\* Pieces as items.
LEMMA AsItemsIs ==
  ASSUME NEW ps, ps \in Seq(NonEmpty)
  PROVE  AsItems(ps) \in Seq(TextItem) /\ AsItems(ps) = Mapped(PieceOf, ps) /\ Hom(ItemText, AsItems(ps)) = FlattenSeq(ps)
<1> DEFINE n == Len(ps)
<1>1. n \in Nat /\ DOMAIN ps = 1..n /\ \A k \in 1..n : ps[k] \in NonEmpty
  BY LenProperties, ElementOfSeq
<1>2. AsItems(ps) = Mapped(PieceOf, ps)
  <2>1. \A k \in DOMAIN ps : PieceOf[ps[k]] = Piece(ps[k])
    BY <1>1, Zenon DEF PieceOf
  <2>. QED  BY <2>1 DEF AsItems, Mapped
<1> DEFINE m == [k \in 1..n |-> Piece(ps[k])]
<1>3. AsItems(ps) = m
  BY <1>1 DEF AsItems
<1>4. m \in [1..n -> TextItem] /\ \A k \in 1..n : m[k] = Piece(ps[k])
  BY <1>1, ItemFields
<1> HIDE DEF m, n
<1>5. m \in Seq(TextItem) /\ DOMAIN m = 1..n
  BY <1>1, <1>4, FunIsSeq
<1>6. Mapped(ItemText, m) = ps
  <2>1. \A k \in 1..n : ItemText[m[k]] = ps[k]
    BY <1>1, <1>4, ItemFields
  <2>2. Mapped(ItemText, m) = [k \in 1..n |-> ps[k]]
    BY <1>5, <2>1 DEF Mapped
  <2>3. ps = [k \in 1..n |-> ps[k]]
    BY LenProperties DEF n
  <2>. QED  BY <2>2, <2>3
<1>. QED  BY <1>2, <1>3, <1>5, <1>6 DEF Hom

\* The pieces up to the special hit at a or after, where the items from a lead, and those items.
RunTo(t, hit, a) == AsItems(Pieces(SubSeq(t, a, hit[1] - 1)))
EndOf(hit) == IF hit[2] = 0 THEN hit[1] ELSE hit[1] + Len(Specials[hit[2]])
AndHit(run, hit) == IF hit[2] = 0 THEN run ELSE Append(run, Special(hit[2]))
ItemEnd(t) == [a \in 1..Len(t) |-> EndOf(FindSpecial(t, a))]
ItemRun(t) == [a \in 1..Len(t) |-> AndHit(RunTo(t, FindSpecial(t, a), a), FindSpecial(t, a))]

\* R[a] is the items of t from a on.
ItemsFrom(t, R) == Gathers(R, Len(t), ItemEnd(t), ItemRun(t), TextItem)

\* A special is found where it occurs, or none is.
IsHit(t, a, hit) ==
  \/ hit[1] = Len(t) + 1 /\ hit[2] = 0
  \/ /\ hit[1] \in a..Len(t) /\ hit[2] \in DOMAIN Specials /\ hit[2] # 0
     /\ Occurs(t, Specials[hit[2]], hit[1])
     /\ Len(Specials[hit[2]]) \in Nat \ {0} /\ hit[1] + Len(Specials[hit[2]]) <= Len(t) + 1

\* FindSpecial finds so.
LEMMA HitIs ==
  ASSUME NEW t, t \in Seq(Byte), NEW a, a \in 1..(Len(t) + 1)
  PROVE  IsHit(t, a, FindSpecial(t, a)) /\ EndOf(FindSpecial(t, a)) \in a..(Len(t) + 1)
<1> DEFINE hit == FindSpecial(t, a)
           n == Len(t)
<1>0. n \in Nat
  BY LenProperties
<1>1. \/ hit = <<n + 1, 0>>
      \/ hit \in (a..n) \X DOMAIN Specials /\ Occurs(t, Specials[hit[2]], hit[1])
  BY FindSpecialIs
<1> HIDE DEF hit
<1>2. CASE hit = <<n + 1, 0>>
  <2>1. hit[1] = n + 1 /\ hit[2] = 0
    BY <1>2
  <2>2. IsHit(t, a, hit) /\ EndOf(hit) = n + 1
    BY <2>1 DEF IsHit, EndOf
  <2>. QED  BY <1>0, <2>2 DEF hit
<1>3. CASE hit \in (a..n) \X DOMAIN Specials /\ Occurs(t, Specials[hit[2]], hit[1])
  <2> DEFINE h == hit[1]
             k == hit[2]
  <2>1. h \in a..n /\ k \in DOMAIN Specials /\ Occurs(t, Specials[k], h)
    BY <1>3
  <2> HIDE DEF h, k
  <2>2. h \in Nat
    BY <1>0, <2>1
  <2>3. Len(Specials[k]) \in Nat \ {0} /\ h + Len(Specials[k]) <= n + 1 /\ k # 0
    BY <2>1, <2>2, OccursIs
  <2> DEFINE e == h + Len(Specials[k])
  <2>4. e \in a..(n + 1)
    <3> DEFINE l == Len(Specials[k])
    <3> HIDE DEF n, l
    <3>1. l \in Nat \ {0} /\ h + l <= n + 1
      BY <2>3 DEF l
    <3>. QED  BY <1>0, <2>1, <2>2, <3>1 DEF l
  <2>5. EndOf(hit) = e
    BY <2>3 DEF EndOf, h, k
  <2>6. IsHit(t, a, hit)
    BY <2>1, <2>3 DEF IsHit, h, k
  <2>. QED  BY <2>4, <2>5, <2>6 DEF hit
<1>. QED  BY <1>1, <1>2, <1>3

\* The text up to a hit is split into pieces, and the hit is one special.
LEMMA RunIs ==
  ASSUME NEW t, t \in Seq(Byte), NEW a, a \in 1..(Len(t) + 1), NEW hit, IsHit(t, a, hit)
  PROVE  /\ RunTo(t, hit, a) \in Seq(TextItem) /\ AndHit(RunTo(t, hit, a), hit) \in Seq(TextItem)
         /\ Hom(ItemText, RunTo(t, hit, a)) = SubSeq(t, a, hit[1] - 1)
         /\ hit[1] \in a..(Len(t) + 1)
<1> DEFINE n == Len(t)
           h == hit[1]
           sub == SubSeq(t, a, h - 1)
<1>0. n \in Nat
  BY LenProperties
<1>1. h \in a..(n + 1)
  BY <1>0 DEF IsHit
<1>2. h - 1 \in 0..n /\ a \in 1..(n + 1)
  BY <1>0, <1>1
<1>3. sub \in Seq(Byte)
  BY <1>2, PartIs
<1> HIDE DEF sub
<1>4. PICK R : PiecesFrom(sub, R) /\ Pieces(sub) = R[1]
  BY <1>3, PiecesGather
<1>5. 1 \in 1..(Len(sub) + 1) /\ Len(sub) \in Nat
  BY <1>3, LenProperties
<1>6. R[1] \in Seq(NonEmpty) /\ FlattenSeq(R[1]) = SubSeq(sub, 1, Len(sub))
  <2>1. R[1] \in Seq(NonEmpty)
    BY <1>4, <1>5 DEF PiecesFrom, Gathers
  <2>2. FlattenSeq(R[1]) = SubSeq(sub, 1, Len(sub))
    BY <1>3, <1>4, <1>5, PiecesSpell
  <2>. QED  BY <2>1, <2>2
<1>7. SubSeq(sub, 1, Len(sub)) = sub
  BY <1>3, SubSeqFull
<1> DEFINE run == AsItems(Pieces(sub))
<1>8. run \in Seq(TextItem) /\ Hom(ItemText, run) = sub
  BY <1>4, <1>6, <1>7, AsItemsIs
<1>9. RunTo(t, hit, a) = run
  BY DEF RunTo, sub
<1> HIDE DEF run
<1>10. AndHit(run, hit) \in Seq(TextItem)
  <2>1. CASE hit[2] = 0
    BY <1>8, <2>1 DEF AndHit
  <2>2. CASE hit[2] # 0
    <3>1. hit[2] \in DOMAIN Specials
      BY <2>2 DEF IsHit
    <3>2. Special(hit[2]) \in TextItem
      BY <3>1, ItemFields
    <3>3. Append(run, Special(hit[2])) \in Seq(TextItem)
      BY <1>8, <3>2, AppendProperties
    <3>. QED  BY <2>2, <3>3 DEF AndHit
  <2>. QED  BY <2>1, <2>2
<1>. QED  BY <1>1, <1>8, <1>9, <1>10 DEF sub

\* Items move on.
LEMMA ItemsMove == ASSUME NEW t, t \in Seq(Byte) PROVE Moves(Len(t), ItemEnd(t), ItemRun(t), TextItem)
<1> DEFINE n == Len(t)
<1>0. n \in Nat
  BY LenProperties
<1> SUFFICES ASSUME NEW a, a \in 1..n
             PROVE ItemEnd(t)[a] \in (a + 1)..(n + 1) /\ ItemRun(t)[a] \in Seq(TextItem)
  BY DEF Moves
<1> DEFINE hit == FindSpecial(t, a)
<1>1. a \in 1..(n + 1)
  BY <1>0
<1>2. IsHit(t, a, hit)
  BY <1>1, HitIs
<1>3. ItemEnd(t)[a] = EndOf(hit) /\ ItemRun(t)[a] = AndHit(RunTo(t, hit, a), hit)
  BY Zenon DEF ItemEnd, ItemRun
<1> HIDE DEF hit
<1>4. AndHit(RunTo(t, hit, a), hit) \in Seq(TextItem)
  BY <1>1, <1>2, RunIs
<1>5. EndOf(hit) \in (a + 1)..(n + 1)
  <2>1. CASE hit[1] = n + 1 /\ hit[2] = 0
    BY <1>0, <2>1 DEF EndOf
  <2>2. CASE /\ hit[1] \in a..n /\ hit[2] # 0 /\ Len(Specials[hit[2]]) \in Nat \ {0}
             /\ hit[1] + Len(Specials[hit[2]]) <= n + 1
    <3> DEFINE h == hit[1]
               l == Len(Specials[hit[2]])
    <3>1. EndOf(hit) = h + l
      BY <2>2 DEF EndOf
    <3>2. h \in a..n /\ l \in Nat \ {0} /\ h + l <= n + 1
      BY <2>2
    <3> HIDE DEF h, l, n
    <3>. QED  BY <1>0, <3>1, <3>2
  <2>. QED  BY <1>2, <2>1, <2>2 DEF IsHit
<1>. QED  BY <1>3, <1>4, <1>5

\* The text of one item more.
LEMMA ItemsAppend ==
  ASSUME NEW x, NEW i, x \in Seq(TextItem), i \in TextItem
  PROVE  Hom(ItemText, Append(x, i)) = Hom(ItemText, x) \o ItemText[i]
BY ItemTextGives, HomAppend

\* The items from a place on are the text from there on.
LEMMA ItemsSpell ==
  ASSUME NEW t, t \in Seq(Byte), NEW R, ItemsFrom(t, R)
  PROVE  \A a \in 1..(Len(t) + 1) : Hom(ItemText, R[a]) = SubSeq(t, a, Len(t))
<1> DEFINE n == Len(t)
           K == {a \in 1..(n + 1) : Hom(ItemText, R[a]) = SubSeq(t, a, n)}
<1>0. n \in Nat
  BY LenProperties
<1>1. n + 1 \in K
  <2>1. R[n + 1] = <<>> /\ n + 1 \in 1..(n + 1)
    BY <1>0 DEF ItemsFrom, Gathers
  <2>2. Hom(ItemText, R[n + 1]) = SubSeq(t, n + 1, n)
    BY <2>1, HomSmall, PastEnd
  <2>. QED  BY <2>1, <2>2
<1>2. ASSUME NEW a \in 1..n, \A b \in (a + 1)..(n + 1) : b \in K PROVE a \in K
  <2> DEFINE hit == FindSpecial(t, a)
             h == hit[1]
             e == EndOf(hit)
             run == RunTo(t, hit, a)
             x == AndHit(run, hit)
  <2>0. a \in 1..(n + 1)
    BY <1>0
  <2>1. ItemEnd(t)[a] = e /\ ItemRun(t)[a] = x
    BY Zenon DEF ItemEnd, ItemRun
  <2>2. e \in (a + 1)..(n + 1) /\ x \in Seq(TextItem)
    BY <2>1, ItemsMove DEF Moves
  <2>3. R[a] = x \o R[e]
    BY <2>1 DEF ItemsFrom, Gathers
  <2>4. e \in K /\ e \in 1..(n + 1) /\ e \in a..(n + 1)
    BY <1>0, <1>2, <2>2
  <2>5. R[e] \in Seq(TextItem)
    BY <2>4 DEF ItemsFrom, Gathers
  <2>6. Hom(ItemText, R[e]) = SubSeq(t, e, n)
    BY <2>4
  <2>7. IsHit(t, a, hit)
    BY <2>0, HitIs
  <2>8. run \in Seq(TextItem) /\ Hom(ItemText, run) = SubSeq(t, a, h - 1) /\ h \in a..(n + 1)
    BY <2>0, <2>7, RunIs
  <2> DEFINE r == R[e]
  <2> HIDE DEF hit, h, e, run, x, r
  <2>9. Hom(ItemText, x) = SubSeq(t, a, e - 1)
    <3>1. CASE hit[2] = 0
      <4>1. x = run /\ e = h
        BY <3>1 DEF x, e, h, AndHit, EndOf
      <4>. QED  BY <2>8, <4>1
    <3>2. CASE hit[2] # 0
      <4> DEFINE k == hit[2]
                 s == Specials[k]
      <4>1. x = Append(run, Special(k)) /\ e = h + Len(s)
        BY <3>2 DEF x, e, h, AndHit, EndOf
      <4>2. k \in DOMAIN Specials /\ Occurs(t, s, h) /\ Len(s) \in Nat \ {0} /\ h \in a..n
        BY <2>7, <3>2 DEF IsHit, h
      <4>3. s = SubSeq(t, h, e - 1)
        <5>1. SubSeq(t, h, h + Len(s) - 1) = s
          BY <4>2 DEF Occurs
        <5> DEFINE l == Len(s)
        <5> HIDE DEF k, s, l
        <5>2. h + l - 1 = e - 1
          <6>1. e = h + l /\ l \in Nat /\ h \in a..n
            BY <4>1, <4>2 DEF l
          <6> HIDE DEF n
          <6>. QED  BY <1>0, <2>0, <6>1
        <5>. QED  BY <5>1, <5>2, Zenon DEF l
      <4>4. Special(k) \in TextItem /\ ItemText[Special(k)] = s
        BY <4>2, ItemFields
      <4>5. Hom(ItemText, Append(run, Special(k))) = Hom(ItemText, run) \o ItemText[Special(k)]
        <5> DEFINE i == Special(k)
        <5>1. i \in TextItem
          BY <4>4
        <5> HIDE DEF i
        <5>2. Hom(ItemText, Append(run, i)) = Hom(ItemText, run) \o ItemText[i]
          BY <2>8, <5>1, ItemsAppend
        <5>. QED  BY <5>2 DEF i
      <4> HIDE DEF k, s
      <4>6. SubSeq(t, a, h - 1) \o SubSeq(t, h, e - 1) = SubSeq(t, a, e - 1)
        <5> DEFINE m == h - 1
                   z == e - 1
        <5>1. m \in (a - 1)..n /\ z \in m..n /\ m + 1 = h
          <6>1. e = h + Len(s) /\ Len(s) \in Nat \ {0} /\ h \in a..n /\ e \in a..(n + 1)
            BY <2>4, <4>1, <4>2
          <6> HIDE DEF n
          <6>. QED  BY <1>0, <2>0, <6>1
        <5> HIDE DEF m, z
        <5>2. SubSeq(t, a, m) \o SubSeq(t, m + 1, z) = SubSeq(t, a, z)
          BY <2>0, <5>1, ConcatAdjacentSubSeq
        <5>. QED  BY <5>1, <5>2 DEF m, z
      <4>. QED  BY <2>8, <4>1, <4>3, <4>4, <4>5, <4>6
    <3>. QED  BY <3>1, <3>2
  <2>10. SubSeq(t, a, e - 1) \o SubSeq(t, e, n) = SubSeq(t, a, n)
    BY <2>0, <2>4, Adjacent
  <2> HIDE DEF K, n
  <2>11. x \in Seq(TextItem) /\ r \in Seq(TextItem)
    BY <2>2, <2>5 DEF r
  <2>12. Hom(ItemText, x \o r) = Hom(ItemText, x) \o Hom(ItemText, r)
    BY <2>11, ItemTextGives, HomConcat
  <2>13. Hom(ItemText, R[a]) = SubSeq(t, a, n)
    BY <2>3, <2>6, <2>9, <2>10, <2>12 DEF r
  <2>. QED  BY <2>0, <2>13 DEF K
<1>3. \A a \in 1..(n + 1) : a \in K
  <2> HIDE DEF K, n
  <2>. QED  BY <1>0, <1>1, <1>2, Downward
<1>. QED  BY <1>3

\* Items are records of what the loop gathers.
LEMMA TextItemsAre ==
  \A x : x \in Seq(TextItem) => x \in Seq([bytes : Seq(Nat), special : Nat])
<1> DEFINE S == [bytes : Seq(Nat), special : Nat]
<1>1. ASSUME NEW b \in NonEmpty PROVE Piece(b) \in S
  <2>1. b \in Seq(Nat)
    BY TextsAreNat DEF NonEmpty
  <2>. QED  BY <2>1 DEF Piece
<1>2. ASSUME NEW k \in DOMAIN Specials PROVE Special(k) \in S
  <2>1. k \in Nat
    BY SpecialsAre
  <2>2. <<>> \in Seq(Nat)
    BY EmptySeq
  <2>. QED  BY <2>1, <2>2 DEF Special
<1>3. TextItem \subseteq S
  <2> HIDE DEF S
  <2>. QED  BY <1>1, <1>2 DEF TextItem
<1> HIDE DEF S
<1>4. \A x : x \in Seq(TextItem) => x \in Seq(S)
  BY <1>3, SeqMono
<1>. QED  BY <1>4 DEF S

\* Nothing has no pieces.
LEMMA PiecesOfNothing == Pieces(<<>>) = <<>> /\ AsItems(<<>>) = <<>>
<1>1. <<>> \in Seq(Byte) /\ Len(<<>>) = 0
  BY EmptySeq
<1> DEFINE u == <<>>
<1>2. u \in Seq(Byte) /\ Len(u) + 1 = 1
  BY <1>1
<1> HIDE DEF u
<1>3. PICK R : PiecesFrom(u, R) /\ Pieces(u) = R[1]
  BY <1>2, PiecesGather
<1>4. R[Len(u) + 1] = <<>>
  BY <1>3 DEF PiecesFrom, Gathers
<1>5. Pieces(u) = <<>>
  BY <1>2, <1>3, <1>4
<1>6. AsItems(<<>>) = <<>>
  BY DEF AsItems
<1>. QED  BY <1>5, <1>6 DEF u

\* Items gathers them.
LEMMA ItemsGather ==
  ASSUME NEW t, t \in Seq(Byte)
  PROVE  \E R : ItemsFrom(t, R) /\ Items(t) = R[1]
<1> DEFINE n == Len(t)
           S == TextItem
           mk == [z \in (1..(n + 1)) \X Seq(S) |-> [at |-> z[1], items |-> z[2]]]
           step == ItemStep(t)
<1>0. n \in Nat
  BY LenProperties
<1>1. Moves(n, ItemEnd(t), ItemRun(t), S)
  BY ItemsMove
<1>2. PICK R : Gathers(R, n, ItemEnd(t), ItemRun(t), S)
  BY <1>0, <1>1, GatherExists
<1>3. ASSUME NEW a, NEW acc, a \in 1..(n + 1), acc \in Seq(S)
      PROVE  /\ mk[<<a, acc>>] = [at |-> a, items |-> acc]
             /\ mk[<<a, acc>>] \in [at : Nat, items : Seq([bytes : Seq(Nat), special : Nat])]
  <2>1. <<a, acc>> \in (1..(n + 1)) \X Seq(S)
    BY <1>3
  <2>2. mk[<<a, acc>>] = [at |-> <<a, acc>>[1], items |-> <<a, acc>>[2]]
    BY <2>1, Zenon
  <2>3. <<a, acc>>[1] = a /\ <<a, acc>>[2] = acc
    OBVIOUS
  <2>4. acc \in Seq([bytes : Seq(Nat), special : Nat])
    BY <1>3, TextItemsAre
  <2>5. a \in Nat
    BY <1>0, <1>3
  <2>. QED  BY <2>2, <2>3, <2>4, <2>5
<1>4. ASSUME NEW a, NEW acc, a \in 1..(n + 1), acc \in Seq(S)
      PROVE  LET hit == FindSpecial(t, a) IN
             step[[at |-> a, items |-> acc]] = [at |-> EndOf(hit), items |-> acc \o AndHit(RunTo(t, hit, a), hit)]
  <2> DEFINE s == [at |-> a, items |-> acc]
             hit == FindSpecial(t, a)
             run == RunTo(t, hit, a)
  <2>1. s \in [at : Nat, items : Seq([bytes : Seq(Nat), special : Nat])] /\ s.at = a /\ s.items = acc
    BY <1>3, <1>4
  <2>2. step[s] = Through(s, FindSpecial(t, s.at), Pieces(SubSeq(t, s.at, FindSpecial(t, s.at)[1] - 1)))
    <3> HIDE DEF s
    <3>. QED  BY <2>1, Zenon DEF ItemStep
  <2>3. step[s] = Through(s, hit, Pieces(SubSeq(t, a, hit[1] - 1)))
    <3> HIDE DEF s
    <3>. QED  BY <2>1, <2>2
  <2>4. IsHit(t, a, hit)
    BY <1>4, HitIs
  <2> HIDE DEF hit
  <2>5. run \in Seq(S) /\ AndHit(run, hit) \in Seq(S)
    BY <1>4, <2>4, RunIs
  <2>6. step[s] = IF hit[2] = 0 THEN [at |-> hit[1], items |-> acc \o run]
                  ELSE [at |-> hit[1] + Len(Specials[hit[2]]), items |-> Append(acc \o run, Special(hit[2]))]
    <3> HIDE DEF s
    <3>. QED  BY <2>1, <2>3, Zenon DEF Through, RunTo, AsItems
  <2> HIDE DEF run, s, step
  <2>7. CASE hit[2] = 0
    BY <2>6, <2>7 DEF EndOf, AndHit, hit, run, s
  <2>8. CASE hit[2] # 0
    <3> DEFINE i == Special(hit[2])
    <3>1. i \in S
      <4>1. hit[2] \in DOMAIN Specials
        BY <2>4, <2>8 DEF IsHit
      <4>. QED  BY <4>1, ItemFields
    <3> HIDE DEF i, S
    <3>2. acc \o Append(run, i) = Append(acc \o run, i)
      BY <1>4, <2>5, <3>1, ConcatAppend
    <3>. QED  BY <2>6, <2>8, <3>2 DEF EndOf, AndHit, hit, run, s, i
  <2>. QED  BY <2>7, <2>8
<1>5. Loops(step, mk, n, ItemEnd(t), ItemRun(t), S)
  <2>1. ASSUME NEW a \in 1..n, NEW acc \in Seq(S)
        PROVE step[mk[<<a, acc>>]] = mk[<<ItemEnd(t)[a], acc \o ItemRun(t)[a]>>]
    <3>1. a \in 1..(n + 1)
      BY <1>0
    <3> DEFINE hit == FindSpecial(t, a)
               e == EndOf(hit)
               x == AndHit(RunTo(t, hit, a), hit)
    <3>2. ItemEnd(t)[a] = e /\ ItemRun(t)[a] = x
      BY Zenon DEF ItemEnd, ItemRun
    <3>3. e \in (a + 1)..(n + 1) /\ x \in Seq(S)
      BY <1>1, <3>2 DEF Moves
    <3>4. step[[at |-> a, items |-> acc]] = [at |-> e, items |-> acc \o x]
      BY <1>4, <3>1
    <3> HIDE DEF x, e
    <3>5. acc \o x \in Seq(S)
      BY <3>3, ConcatProperties
    <3>6. e \in 1..(n + 1)
      BY <3>1, <3>3
    <3> HIDE DEF mk, step, n
    <3>7. mk[<<a, acc>>] = [at |-> a, items |-> acc]
      BY <1>3, <3>1
    <3>8. mk[<<e, acc \o x>>] = [at |-> e, items |-> acc \o x]
      BY <1>3, <3>5, <3>6
    <3>. QED  BY <3>2, <3>4, <3>7, <3>8
  <2>2. ASSUME NEW acc \in Seq(S) PROVE step[mk[<<n + 1, acc>>]] = mk[<<n + 1, acc>>]
    <3> DEFINE e == n + 1
               hit == FindSpecial(t, e)
               run == RunTo(t, hit, e)
    <3>1. e \in 1..(n + 1) /\ ~ (e <= n)
      BY <1>0
    <3>2. IsHit(t, e, hit)
      BY <3>1, HitIs
    <3>3. hit[1] = e /\ hit[2] = 0
      <4> HIDE DEF hit
      <4>. QED  BY <1>0, <3>1, <3>2 DEF IsHit
    <3>4. run = <<>>
      <4>1. SubSeq(t, e, e - 1) = <<>>
        <5>1. e \in Int /\ e - 1 \in Int /\ e - 1 < e
          BY <1>0
        <5> HIDE DEF e
        <5>. QED  BY <5>1, SubSeqEmpty
      <4> HIDE DEF e, hit
      <4>2. run = AsItems(Pieces(SubSeq(t, e, e - 1)))
        BY <3>3 DEF RunTo
      <4>. QED  BY <4>1, <4>2, PiecesOfNothing
    <3>5. EndOf(hit) = e /\ AndHit(run, hit) = <<>>
      <4> HIDE DEF e, hit, run
      <4>. QED  BY <3>3, <3>4 DEF EndOf, AndHit
    <3>6. acc \o <<>> = acc
      BY ConcatEmptySeq
    <3>7. step[[at |-> e, items |-> acc]] = [at |-> EndOf(hit), items |-> acc \o AndHit(run, hit)]
      BY <1>4, <3>1
    <3> HIDE DEF mk, step, n, e, hit, run
    <3>8. mk[<<e, acc>>] = [at |-> e, items |-> acc]
      BY <1>3, <3>1
    <3>. QED  BY <3>5, <3>6, <3>7, <3>8 DEF e
  <2>. QED  BY <2>1, <2>2 DEF Loops
<1>6. Items(t) = Repeat(step, n, [at |-> 1, items |-> <<>>]).items
  BY DEF Items
<1>7. 1 \in 1..(n + 1) /\ n + 1 \in 1..(n + 1) /\ <<>> \in Seq(S)
  BY <1>0, EmptySeq
<1>8. mk[<<1, <<>>>>] = [at |-> 1, items |-> <<>>]
  BY <1>3, <1>7
<1>9. R[1] \in Seq(S)
  BY <1>2, <1>7 DEF Gathers
<1>10. <<>> \o R[1] = R[1]
  BY <1>9, ConcatEmptySeq
<1>11. mk[<<n + 1, R[1]>>] = [at |-> n + 1, items |-> R[1]]
  BY <1>3, <1>7, <1>9
<1> HIDE DEF mk, step, S, n
<1>12. Repeat(step, n, mk[<<1, <<>>>>]) = mk[<<n + 1, <<>> \o R[1]>>]
  <2>1. Gathered(R, step, mk, n, S)
    BY ONLY <1>0, <1>1, <1>2, <1>5, LoopGathers
  <2>. QED  BY <1>7, <2>1, Zenon DEF Gathered
<1>13. Items(t) = R[1]
  BY <1>6, <1>8, <1>10, <1>11, <1>12
<1>. QED  BY <1>2, <1>13 DEF ItemsFrom, S, n

\* A text is what its items spell, and they are pieces that are not empty and specials.
LEMMA ItemsAreText ==
  ASSUME NEW t, t \in Seq(Byte)
  PROVE  Items(t) \in Seq(TextItem) /\ Hom(ItemText, Items(t)) = t
<1>1. PICK R : ItemsFrom(t, R) /\ Items(t) = R[1]
  BY ItemsGather
<1>2. 1 \in 1..(Len(t) + 1)
  BY LenProperties
<1>3. R[1] \in Seq(TextItem)
  BY <1>1, <1>2 DEF ItemsFrom, Gathers
<1>4. Hom(ItemText, R[1]) = SubSeq(t, 1, Len(t))
  BY <1>1, <1>2, ItemsSpell
<1>5. SubSeq(t, 1, Len(t)) = t
  BY SubSeqFull
<1>. QED  BY <1>1, <1>3, <1>4, <1>5
-----------------------------------------------------------------------------
(* Decoding: what the ids of a text spell.                                 *)

Ids(ms) == 0..(255 + Len(ms) + Len(Specials))
Spell(ms) == [id \in Ids(ms) |-> IF id < 256 + Len(ms) THEN BytesOf(ms)[id] ELSE Specials[id - 255 - Len(ms)]]

\* What each id spells.
LEMMA SpellIs ==
  ASSUME NEW ms, IsMerges(ms)
  PROVE  /\ Len(ms) \in Nat /\ Tokens(ms) \subseteq Ids(ms) /\ Ids(ms) \subseteq Nat /\ Byte \subseteq Tokens(ms)
         /\ \A id \in Tokens(ms) : Spell(ms)[id] = BytesOf(ms)[id]
         /\ \A k \in DOMAIN Specials : 255 + Len(ms) + k \in Ids(ms) /\ Spell(ms)[255 + Len(ms) + k] = Specials[k]
<1> DEFINE m == Len(ms)
           n == Len(Specials)
<1>1. m \in Nat /\ n \in Nat /\ DOMAIN Specials = 1..n
  BY LenProperties, SpecialsAre DEF IsMerges
<1> HIDE DEF m, n
<1>2. Tokens(ms) = 0..(255 + m) /\ Ids(ms) = 0..(255 + m + n)
  BY DEF Tokens, Ids, m, n
<1>3. ASSUME NEW id \in Ids(ms)
      PROVE  Spell(ms)[id] = IF id < 256 + m THEN BytesOf(ms)[id] ELSE Specials[id - 255 - m]
  BY Zenon DEF Spell, m
<1>4. ASSUME NEW id \in Tokens(ms) PROVE Spell(ms)[id] = BytesOf(ms)[id]
  <2>1. id \in Ids(ms) /\ id < 256 + m
    BY <1>1, <1>2
  <2>. QED  BY <1>3, <2>1
<1>5. ASSUME NEW k \in DOMAIN Specials PROVE 255 + m + k \in Ids(ms) /\ Spell(ms)[255 + m + k] = Specials[k]
  <2> DEFINE id == 255 + m + k
  <2>1. id \in Ids(ms) /\ ~ (id < 256 + m) /\ id - 255 - m = k
    BY <1>1, <1>2
  <2> HIDE DEF id
  <2>2. Spell(ms)[id] = Specials[k]
    BY <1>3, <2>1
  <2>. QED  BY <2>1, <2>2 DEF id
<1>6. Byte \subseteq Tokens(ms) /\ Tokens(ms) \subseteq Ids(ms) /\ Ids(ms) \subseteq Nat
  BY <1>1, <1>2 DEF Byte
<1>. QED  BY <1>1, <1>4, <1>5, <1>6 DEF m

\* Every id spells bytes.
LEMMA SpellGives == ASSUME NEW ms, IsMerges(ms) PROVE Gives(Spell(ms), Ids(ms), Byte) /\ Gives(Spell(ms), Tokens(ms), Byte)
<1>1. ASSUME NEW id, id \in Tokens(ms) PROVE Spell(ms)[id] \in Seq(Byte)
  <2>1. Spell(ms)[id] = BytesOf(ms)[id]
    BY <1>1, SpellIs
  <2>2. id \in 0..(255 + Len(ms))
    BY <1>1 DEF Tokens
  <2>3. BytesOf(ms)[id] \in Seq(Byte)
    BY <2>2, BytesAre
  <2>. QED  BY <2>1, <2>3
<1>2. ASSUME NEW id \in Ids(ms), id \notin Tokens(ms) PROVE Spell(ms)[id] \in Seq(Byte)
  <2> DEFINE k == id - 255 - Len(ms)
  <2>1. Len(ms) \in Nat /\ Len(Specials) \in Nat /\ DOMAIN Specials = 1..Len(Specials)
    BY SpellIs, SpecialsAre
  <2>2. k \in DOMAIN Specials /\ 255 + Len(ms) + k = id
    BY <1>2, <2>1 DEF Ids, Tokens
  <2> HIDE DEF k
  <2>3. Spell(ms)[255 + Len(ms) + k] = Specials[k] /\ Specials[k] \in Seq(Byte)
    BY <2>2, SpellIs, SpecialsAre
  <2>. QED  BY <2>2, <2>3
<1>. QED  BY <1>1, <1>2 DEF Gives

\* A text as tokens of one byte each spells itself.
LEMMA BytesSpell ==
  ASSUME NEW ms, IsMerges(ms), NEW p, p \in Seq(Byte)
  PROVE  p \in Seq(Tokens(ms)) /\ Hom(Spell(ms), p) = p
<1> DEFINE f == Spell(ms)
           Same(z) == Hom(f, z) = z
           K == {k \in Nat : \A z : z \in Seq(Byte) /\ Len(z) = k => Same(z)}
<1>0. Gives(f, Byte, Byte) /\ \A b \in Byte : f[b] = <<b>>
  <2>1. \A b \in Byte : f[b] = <<b>>
    <3>1. ASSUME NEW b \in Byte PROVE f[b] = <<b>>
      <4>1. b \in Tokens(ms)
        BY SpellIs
      <4>2. b < 256
        BY DEF Byte
      <4>3. b \in 0..(255 + Len(ms))
        BY <4>1 DEF Tokens
      <4>4. BytesOf(ms)[b] = <<b>>
        BY <4>2, <4>3, BytesAre
      <4>. QED  BY <4>1, <4>4, SpellIs
    <3>. QED  BY <3>1
  <2>2. ASSUME NEW b \in Byte PROVE f[b] \in Seq(Byte)
    <3>1. <<b>> \in Seq(Byte)
      OBVIOUS
    <3>. QED  BY <2>1, <3>1
  <2> HIDE DEF f
  <2>3. Gives(f, Byte, Byte)
    BY <2>2 DEF Gives
  <2>. QED  BY <2>1, <2>3
<1> HIDE DEF f
<1>1. 0 \in K
  <2> SUFFICES ASSUME NEW z, z \in Seq(Byte), Len(z) = 0 PROVE Same(z)
    OBVIOUS
  <2>1. z = <<>>
    BY EmptySeq
  <2>. QED  BY <2>1, HomSmall
<1>2. ASSUME NEW k \in Nat, k \in K PROVE k + 1 \in K
  <2> SUFFICES ASSUME NEW z, z \in Seq(Byte), Len(z) = k + 1 PROVE Same(z)
    OBVIOUS
  <2>1. z # <<>>
    BY EmptySeq
  <2>2. PICK w \in Seq(Byte), b \in Byte : z = Append(w, b)
    BY <2>1, SequenceEmptyOrAppend
  <2>3. Len(w) = k
    <3>1. Len(w) + 1 = k + 1 /\ Len(w) \in Nat
      BY <2>2, AppendProperties, LenProperties
    <3>. QED  BY <3>1
  <2>4. Same(w)
    BY <1>2, <2>3
  <2>5. Hom(f, Append(w, b)) = Hom(f, w) \o f[b]
    BY <1>0, HomAppend
  <2>6. Append(w, b) = w \o <<b>>
    BY AppendIsConcat
  <2>. QED  BY <1>0, <2>2, <2>4, <2>5, <2>6
<1>3. Nat \subseteq K
  <2> HIDE DEF K
  <2>. QED  BY <1>1, <1>2, Induction
<1>4. Len(p) \in Nat
  BY LenProperties
<1>5. p \in Seq(Tokens(ms))
  BY SpellIs, SeqMono
<1>. QED  BY <1>3, <1>4, <1>5 DEF f

\* Merge r makes token id of a and b.
Joins(ms, r, id, a, b) == r \in 1..Len(ms) /\ id = 255 + r /\ ms[r] = <<a, b>>

\* What id stands for is what a and b do.
Parted(f, id, a, b) == f[id] = f[a] \o f[b]

\* The token of a merge has the bytes of both its parts.
LEMMA PartsSpell ==
  ASSUME NEW ms, IsMerges(ms), NEW r, NEW id, NEW a, NEW b, Joins(ms, r, id, a, b)
  PROVE  Parted(BytesOf(ms), id, a, b)
<1> DEFINE B == BytesOf(ms)
           N == 255 + Len(ms)
           j == id - 255
<1>1. Len(ms) \in Nat
  BY SpellIs
<1>2. id \in 0..N /\ ~ (id < 256) /\ j = r
  BY <1>1 DEF Joins
<1>3. Spells(B, ms, N)
  BY BytesOfIs
<1>4. ms[j][1] = a /\ ms[j][2] = b
  BY <1>2 DEF Joins
<1> HIDE DEF B, N
<1>5. B[id] = IF id < 256 THEN <<id>> ELSE B[ms[j][1]] \o B[ms[j][2]]
  BY <1>2, <1>3 DEF Spells
<1> HIDE DEF j
<1>. QED  BY <1>2, <1>4, <1>5 DEF B, Parted

\* A merge leaves what the symbols spell as it is.
LEMMA MergeSpells ==
  ASSUME NEW ms, IsMerges(ms), NEW x, x \in Seq(Tokens(ms)), NEW i, i \in 1..(Len(x) - 1), NEW id, id \in Tokens(ms),
         Spell(ms)[id] = Spell(ms)[x[i]] \o Spell(ms)[x[i + 1]]
  PROVE  Hom(Spell(ms), MergeAt(x, i, id)) = Hom(Spell(ms), x)
<1> DEFINE f == Spell(ms)
           A == Tokens(ms)
           n == Len(x)
           l == x[i]
           r == x[i + 1]
           a == SubSeq(x, 1, i - 1)
           b == SubSeq(x, 1, i)
           c == SubSeq(x, 1, i + 1)
           d == SubSeq(x, i + 2, n)
<1>0. Gives(f, A, Byte)
  BY SpellGives
<1> HIDE DEF f, A
<1>1. n \in Nat /\ i \in 1..n /\ i + 1 \in 1..n /\ i + 2 \in Int /\ 1 \in 1..n /\ 1 \in 1..i /\ i + 1 \in 1..(i + 1)
  BY LenProperties
<1>2. \A k \in 1..n : x[k] \in A
  BY ElementOfSeq DEF A
<1>3. l \in A /\ r \in A
  BY <1>1, <1>2
<1>4. /\ a \in Seq(A) /\ b \in Seq(A) /\ c \in Seq(A) /\ d \in Seq(A)
  <2>1. \A j \in 1..(i - 1) : x[j] \in A
    BY <1>1, <1>2
  <2>2. \A j \in 1..i : x[j] \in A
    BY <1>1, <1>2
  <2>3. \A j \in 1..(i + 1) : x[j] \in A
    BY <1>1, <1>2
  <2>4. \A j \in (i + 2)..n : x[j] \in A
    BY <1>1, <1>2
  <2>5. i - 1 \in Int /\ i \in Int /\ i + 1 \in Int /\ 1 \in Int /\ n \in Int
    BY <1>1
  <2> HIDE DEF n
  <2>6. a \in Seq(A)
    BY <2>1, <2>5, SubSeqProperties
  <2>7. b \in Seq(A)
    BY <2>2, <2>5, SubSeqProperties
  <2>8. c \in Seq(A)
    BY <2>3, <2>5, SubSeqProperties
  <2>9. d \in Seq(A)
    BY <1>1, <2>4, <2>5, SubSeqProperties
  <2>. QED  BY <2>6, <2>7, <2>8, <2>9
<1>5. b = Append(a, l) /\ c = Append(b, r)
  <2>1. b = a \o <<l>>
    <3>1. 1 \in 1..Len(x) /\ i \in 1..Len(x)
      BY <1>1
    <3>. QED  BY <3>1, SubSeqRecursiveSecond
  <2>2. c = b \o <<r>>
    <3> DEFINE j == i + 1
    <3>1. 1 \in 1..Len(x) /\ j \in 1..Len(x) /\ j - 1 = i
      BY <1>1
    <3> HIDE DEF j
    <3>2. SubSeq(x, 1, j) = SubSeq(x, 1, j - 1) \o <<x[j]>>
      BY <3>1, SubSeqRecursiveSecond
    <3>. QED  BY <3>1, <3>2 DEF j
  <2> HIDE DEF a, b, c, l, r
  <2>3. Append(a, l) = a \o <<l>>
    BY <1>3, <1>4, AppendIsConcat
  <2>4. Append(b, r) = b \o <<r>>
    BY <1>3, <1>4, AppendIsConcat
  <2>. QED  BY <2>1, <2>2, <2>3, <2>4
<1>6. c \o d = x
  <2> DEFINE k == i + 1
  <2>1. 1 \in 1..(n + 1) /\ k \in (1 - 1)..n /\ n \in k..n /\ k + 1 = i + 2
    BY <1>1
  <2> HIDE DEF k
  <2>2. SubSeq(x, 1, k) \o SubSeq(x, k + 1, n) = SubSeq(x, 1, n)
    BY <2>1, ConcatAdjacentSubSeq
  <2>3. SubSeq(x, 1, n) = x
    BY SubSeqFull
  <2>4. c = SubSeq(x, 1, k) /\ d = SubSeq(x, k + 1, n)
    BY <2>1 DEF k
  <2>. QED  BY <2>2, <2>3, <2>4
<1> DEFINE g == Append(a, id)
<1>7. MergeAt(x, i, id) = g \o d /\ g \in Seq(A)
  <2>1. Append(a, id) = a \o <<id>> /\ Append(a, id) \in Seq(A)
    <3> HIDE DEF a
    <3>. QED  BY <1>4, AppendIsConcat, AppendProperties DEF A
  <2>. QED  BY <2>1 DEF MergeAt
<1>8. id \in A
  BY DEF A
<1>9. f[id] = f[l] \o f[r]
  BY DEF f
<1> HIDE DEF a, b, c, d, l, r
<1>10. Hom(f, b) = Hom(f, a) \o f[l]
  BY <1>0, <1>3, <1>4, <1>5, HomAppend
<1>11. Hom(f, c) = Hom(f, b) \o f[r]
  <2>1. r \in A /\ b \in Seq(A) /\ c = Append(b, r)
    BY <1>3, <1>4, <1>5
  <2>2. Hom(f, Append(b, r)) = Hom(f, b) \o f[r]
    BY ONLY <1>0, <2>1, HomAppend
  <2>. QED  BY <2>1, <2>2
<1>12. Hom(f, g) = Hom(f, a) \o f[id]
  BY <1>0, <1>4, <1>8, HomAppend
<1>13. Hom(f, a) \in Seq(Byte) /\ f[l] \in Seq(Byte) /\ f[r] \in Seq(Byte)
  <2>1. Hom(f, a) \in Seq(Byte)
    BY <1>0, <1>4, HomConcat
  <2>. QED  BY <1>0, <1>3, <2>1 DEF Gives
<1>14. Hom(f, g) = Hom(f, c)
  <2> DEFINE ha == Hom(f, a)
             fl == f[l]
             fr == f[r]
  <2>1. ha \in Seq(Byte) /\ fl \in Seq(Byte) /\ fr \in Seq(Byte)
    BY <1>13
  <2> HIDE DEF ha, fl, fr
  <2>2. (ha \o fl) \o fr = ha \o (fl \o fr)
    BY <2>1, Associates
  <2>. QED  BY <1>9, <1>10, <1>11, <1>12, <2>2 DEF ha, fl, fr
<1> HIDE DEF g
<1>15. Hom(f, g \o d) = Hom(f, g) \o Hom(f, d)
  BY <1>0, <1>4, <1>7, HomConcat
<1>16. Hom(f, c \o d) = Hom(f, c) \o Hom(f, d)
  BY <1>0, <1>4, HomConcat
<1>. QED  BY <1>6, <1>7, <1>14, <1>15, <1>16 DEF f

\* The scan keeps what the symbols spell.
LEMMA ScanSpells ==
  ASSUME NEW ms, IsMerges(ms), NEW p, p \in Seq(Byte)
  PROVE  Scan(ms, p) \in Seq(Tokens(ms)) /\ Hom(Spell(ms), Scan(ms, p)) = p
<1> DEFINE A == Tokens(ms)
           I == {x \in Seq(A) : Hom(Spell(ms), x) = p}
<1>1. Len(ms) \in Nat /\ A \subseteq Nat
  BY SpellIs
<1>2. ASSUME NEW x \in I PROVE ScanStep(ms)[x] \in I
  <2>0. x \in Seq(A) /\ Hom(Spell(ms), x) = p
    OBVIOUS
  <2> HIDE DEF I
  <2>1. x \in Seq(Nat)
    <3> HIDE DEF A
    <3>. QED  BY ONLY <1>1, <2>0, SeqMono
  <2>2. CASE Can(ms, x) = {}
    <3>1. ScanStep(ms)[x] = x
      BY <1>1, <2>1, <2>2, ScanStepIs
    <3>. QED  BY <3>1
  <2>3. CASE Can(ms, x) # {}
    <3>1. Len(x) \in Nat
      BY <2>1, LenProperties
    <3>2. PICK i : IsBest(ms, x, i)
      BY <1>1, <2>3, <3>1, BestExists
    <3> DEFINE r == Rank(ms, x[i], x[i + 1])
               id == 255 + r
    <3>3. ScanStep(ms)[x] = MergeAt(x, i, id)
      BY <1>1, <2>1, <3>2, ScanStepIs
    <3>4. i \in 1..(Len(x) - 1) /\ r > 0
      BY <3>2 DEF IsBest, Can
    <3>5. r \in 1..Len(ms)
      BY <3>4, RankBounds
    <3>6. ms[r] = <<x[i], x[i + 1]>>
      BY <1>1, <3>4, RankIs
    <3> HIDE DEF r
    <3>7. id \in A 
      BY <1>1, <3>5 DEF Tokens
    <3>14. id = 255 + r
      OBVIOUS
    <3> HIDE DEF id
    <3> DEFINE l == x[i]
               k == x[i + 1]
    <3>15. ms[r] = <<l, k>>
      BY <3>6
    <3> HIDE DEF l, k
    <3>17. Joins(ms, r, id, l, k)
      BY <3>5, <3>14, <3>15 DEF Joins
    <3>16. Parted(BytesOf(ms), id, l, k)
      BY <3>17, PartsSpell
    <3>8. BytesOf(ms)[id] = BytesOf(ms)[x[i]] \o BytesOf(ms)[x[i + 1]]
      BY <3>16 DEF l, k, Parted
    <3>10. x[i] \in A /\ x[i + 1] \in A
      <4>1. i \in 1..Len(x) /\ i + 1 \in 1..Len(x)
        BY <3>1, <3>4
      <4> HIDE DEF A
      <4>. QED  BY <2>0, <4>1, ElementOfSeq
    <3>11. Spell(ms)[id] = Spell(ms)[x[i]] \o Spell(ms)[x[i + 1]]
      <4>1. Spell(ms)[id] = BytesOf(ms)[id]
        BY <3>7, SpellIs
      <4>2. Spell(ms)[x[i]] = BytesOf(ms)[x[i]] /\ Spell(ms)[x[i + 1]] = BytesOf(ms)[x[i + 1]]
        BY <3>10, SpellIs
      <4>. QED  BY <3>8, <4>1, <4>2
    <3>12. Hom(Spell(ms), MergeAt(x, i, id)) = p
      BY <2>0, <3>4, <3>7, <3>11, MergeSpells
    <3>13. MergeAt(x, i, id) \in Seq(A)
      <4> HIDE DEF A
      <4>. QED  BY <2>0, <3>4, <3>7, MergeAtIs
    <3>. QED  BY <3>3, <3>12, <3>13 DEF I
  <2>. QED  BY <2>2, <2>3
<1> DEFINE step == ScanStep(ms)
           n == Len(p)
<1>3. n \in Nat
  BY LenProperties
<1>4. p \in I
  BY BytesSpell
<1> HIDE DEF I, step, n
<1>5. p \in I /\ n \in Nat /\ \A x \in I : step[x] \in I
  BY <1>2, <1>3, <1>4 DEF step
<1>6. Repeat(step, n, p) \in I
  BY ONLY <1>5, RepeatKeeps
<1>. QED  BY <1>6 DEF I, step, n, Scan
-----------------------------------------------------------------------------
(* Encoding without a cache.                                               *)

\* The ids of an item.
IdsBy(ms) == [i \in TextItem |-> IF i.special # 0 THEN <<255 + Len(ms) + i.special>> ELSE EncodePiece(ms, i.bytes)]

\* Of a piece, and of a special.
LEMMA IdsByIs ==
  ASSUME NEW ms, IsMerges(ms)
  PROVE  /\ \A b \in NonEmpty : IdsBy(ms)[Piece(b)] = EncodePiece(ms, b) /\ EncodePiece(ms, b) = Scan(ms, b)
         /\ \A k \in DOMAIN Specials : IdsBy(ms)[Special(k)] = <<255 + Len(ms) + k>>
<1>0. ASSUME NEW i \in TextItem
      PROVE  IdsBy(ms)[i] = IF i.special # 0 THEN <<255 + Len(ms) + i.special>> ELSE EncodePiece(ms, i.bytes)
  BY Zenon DEF IdsBy
<1>1. ASSUME NEW b \in NonEmpty PROVE IdsBy(ms)[Piece(b)] = EncodePiece(ms, b)
  <2> DEFINE i == Piece(b)
  <2>1. i \in TextItem /\ i.special = 0 /\ i.bytes = b
    BY ItemFields
  <2> HIDE DEF i
  <2>2. IdsBy(ms)[i] = EncodePiece(ms, b)
    BY <1>0, <2>1
  <2>. QED  BY <2>2 DEF i
<1>2. ASSUME NEW b \in NonEmpty PROVE EncodePiece(ms, b) = Scan(ms, b)
  <2>1. b \in Seq(Byte)
    BY DEF NonEmpty
  <2>2. b \in Seq(Nat)
    <3> DEFINE N == Nat
    <3>1. Byte \subseteq N
      BY DEF Byte
    <3> HIDE DEF N
    <3>2. b \in Seq(N)
      BY <2>1, <3>1, SeqMono
    <3>. QED  BY <3>2 DEF N
  <2>. QED  BY <2>2, EncodePieceIs
<1>3. ASSUME NEW k \in DOMAIN Specials PROVE IdsBy(ms)[Special(k)] = <<255 + Len(ms) + k>>
  <2> DEFINE i == Special(k)
  <2>1. i \in TextItem /\ i.special = k /\ k # 0
    BY ItemFields
  <2> HIDE DEF i
  <2>2. IdsBy(ms)[i] = <<255 + Len(ms) + k>>
    BY <1>0, <2>1
  <2>. QED  BY <2>2 DEF i
<1>. QED  BY <1>1, <1>2, <1>3

\* The ids of an item spell it.
LEMMA IdsBySpell ==
  ASSUME NEW ms, IsMerges(ms)
  PROVE  /\ Gives(IdsBy(ms), TextItem, Ids(ms))
         /\ \A i \in TextItem : Hom(Spell(ms), IdsBy(ms)[i]) = ItemText[i]
<1> DEFINE Good(i) == IdsBy(ms)[i] \in Seq(Ids(ms)) /\ Hom(Spell(ms), IdsBy(ms)[i]) = ItemText[i]
<1>1. ASSUME NEW b \in NonEmpty PROVE Good(Piece(b))
  <2> DEFINE s == Scan(ms, b)
             T == Tokens(ms)
             D == Ids(ms)
  <2>1. b \in Seq(Byte)
    BY DEF NonEmpty
  <2>2. s \in Seq(T) /\ Hom(Spell(ms), s) = b
    BY <2>1, ScanSpells
  <2>3. T \subseteq D
    BY SpellIs
  <2> HIDE DEF s, T, D
  <2>4. s \in Seq(D)
    BY <2>2, <2>3, SeqMono
  <2>5. IdsBy(ms)[Piece(b)] = s
    BY IdsByIs DEF s
  <2>6. ItemText[Piece(b)] = b
    BY ItemFields
  <2>. QED  BY <2>2, <2>4, <2>5, <2>6 DEF D
<1>2. ASSUME NEW k \in DOMAIN Specials PROVE Good(Special(k))
  <2> DEFINE id == 255 + Len(ms) + k
             D == Ids(ms)
  <2>1. id \in D /\ Spell(ms)[id] = Specials[k]
    BY SpellIs
  <2>2. IdsBy(ms)[Special(k)] = <<id>>
    BY IdsByIs
  <2> HIDE DEF id, D
  <2>3. <<id>> \in Seq(D)
    BY <2>1
  <2>4. Hom(Spell(ms), <<id>>) = Spell(ms)[id]
    BY HomSmall
  <2>5. ItemText[Special(k)] = Specials[k]
    BY ItemFields
  <2>. QED  BY <2>1, <2>2, <2>3, <2>4, <2>5 DEF D
<1>3. \A i \in TextItem : Good(i)
  <2> HIDE DEF Good
  <2>. QED  BY <1>1, <1>2 DEF TextItem
<1>. QED  BY <1>3 DEF Gives

\* The ids of items, and what they decode to.
LEMMA IdsOfAllIs ==
  ASSUME IsMerges(merges), NEW items, items \in Seq(TextItem)
  PROVE  /\ IdsOfAll(items) = Hom(IdsBy(merges), items) /\ IdsOfAll(items) \in Seq(Ids(merges))
         /\ Decode(IdsOfAll(items)) = Hom(ItemText, items)
<1> DEFINE f == IdsBy(merges)
           D == Ids(merges)
           g == Spell(merges)
<1>1. ASSUME NEW i \in TextItem PROVE IdsOf(i) = f[i]
  <2>1. f[i] = IF i.special # 0 THEN <<255 + Len(merges) + i.special>> ELSE EncodePiece(merges, i.bytes)
    BY Zenon DEF IdsBy
  <2>. QED  BY <2>1, Zenon DEF IdsOf, SpecialId
<1>2. DOMAIN items = 1..Len(items) /\ \A k \in 1..Len(items) : items[k] \in TextItem
  BY LenProperties, ElementOfSeq
<1> HIDE DEF f, D, g
<1>3. IdsOfAll(items) = Hom(f, items)
  <2>1. [k \in DOMAIN items |-> IdsOf(items[k])] = [k \in DOMAIN items |-> f[items[k]]]
    BY <1>1, <1>2
  <2>. QED  BY <2>1 DEF IdsOfAll, Hom, Mapped
<1>4. Gives(f, TextItem, D) /\ Gives(g, D, Byte) /\ \A i \in TextItem : Hom(g, f[i]) = ItemText[i]
  BY IdsBySpell, SpellGives DEF f, g, D
<1>5. Gives(ItemText, TextItem, Byte)
  BY ItemTextGives
<1>6. Hom(f, items) \in Seq(D)
  BY <1>4, HomConcat
<1>7. Hom(g, Hom(f, items)) = Hom(ItemText, items)
  BY <1>4, <1>5, HomOfHom
<1> DEFINE ids == Hom(f, items)
<1>8. ids \in Seq(D)
  BY <1>6
<1> HIDE DEF ids
<1>9. Decode(ids) = Hom(g, ids)
  <2>1. DOMAIN ids = 1..Len(ids) /\ \A k \in 1..Len(ids) : ids[k] \in D
    BY <1>8, LenProperties, ElementOfSeq
  <2>2. ASSUME NEW id \in D PROVE TokenBytes(id) = g[id]
    <3>1. g[id] = IF id < 256 + Len(merges) THEN BytesOf(merges)[id] ELSE Specials[id - 255 - Len(merges)]
      BY Zenon DEF Spell, D, g
    <3>. QED  BY <3>1, Zenon DEF TokenBytes
  <2>3. [k \in DOMAIN ids |-> TokenBytes(ids[k])] = [k \in DOMAIN ids |-> g[ids[k]]]
    BY <2>1, <2>2
  <2>. QED  BY <2>3 DEF Decode, Hom, Mapped
<1>. QED  BY <1>3, <1>7, <1>8, <1>9 DEF f, D, ids

\* A text encodes to ids that decode to it.
LEMMA RoundTrip ==
  ASSUME IsMerges(merges), NEW t, t \in Seq(Byte)
  PROVE  /\ Items(t) \in Seq(TextItem) /\ Encoding(t) = Hom(IdsBy(merges), Items(t))
         /\ Encoding(t) \in Seq(Ids(merges)) /\ Decode(Encoding(t)) = t
<1> DEFINE items == Items(t)
<1>1. items \in Seq(TextItem) /\ Hom(ItemText, items) = t
  BY ItemsAreText
<1> HIDE DEF items
<1>2. /\ IdsOfAll(items) = Hom(IdsBy(merges), items) /\ IdsOfAll(items) \in Seq(Ids(merges))
      /\ Decode(IdsOfAll(items)) = Hom(ItemText, items)
  BY <1>1, IdsOfAllIs
<1>. QED  BY <1>1, <1>2 DEF Encoding, items

\* A piece of one byte is its own id.
LEMMA OneByte ==
  ASSUME NEW ms, IsMerges(ms), NEW b, b \in NonEmpty, Len(b) = 1
  PROVE  IdsBy(ms)[Piece(b)] = b
<1>1. IdsBy(ms)[Piece(b)] = Scan(ms, b)
  BY IdsByIs
<1>2. b \in Seq(Nat)
  <2> DEFINE N == Nat
  <2>1. b \in Seq(Byte) /\ Byte \subseteq N
    BY DEF NonEmpty, Byte
  <2> HIDE DEF N
  <2>2. b \in Seq(N)
    BY <2>1, SeqMono
  <2>. QED  BY <2>2 DEF N
<1>3. Can(ms, b) = {}
  <2>1. 1..(Len(b) - 1) = {}
    OBVIOUS
  <2>. QED  BY <2>1 DEF Can
<1>4. Len(ms) \in Nat
  BY SpellIs
<1>5. ScanStep(ms)[b] = b
  BY <1>2, <1>3, <1>4, ScanStepIs
<1> DEFINE step == ScanStep(ms)
<1>6. step[b] = b /\ 1 \in Nat
  BY <1>5
<1> HIDE DEF step
<1>7. Repeat(step, 1, b) = b
  BY <1>6, RepeatStays
<1>. QED  BY <1>1, <1>7 DEF Scan, step
-----------------------------------------------------------------------------
(* Encoding through the cache.                                             *)

\* What the cache holds for a piece, and that it is the piece's encoding.
Held(c, p) == SubSeq(c.ids, c.index[p][1] + 1, c.index[p][1] + c.index[p][2])
CacheSound(c, ms) ==
  /\ c.ids \in Seq(Nat)
  /\ \A p \in DOMAIN c.index :
       /\ p \in NonEmpty /\ c.index[p][1] \in Nat /\ c.index[p][2] \in Nat
       /\ c.index[p][1] + c.index[p][2] <= Len(c.ids)
       /\ Held(c, p) = EncodePiece(ms, p)

\* The ids in o and those of the items in r are the ids of text t.
StillTo(ms, o, r, t) ==
  /\ r \in Seq(TextItem) /\ o \in Seq(Ids(ms))
  /\ o \o Hom(IdsBy(ms), r) = Hom(IdsBy(ms), Items(t))

\* The inductive invariant of encoding.
EncodeInv ==
  /\ pc \in {"learn", "encode", "done"}
  /\ pc = "learn" => out = <<>> /\ rest = <<>> /\ cache = [index |-> <<>>, ids |-> <<>>]
  /\ pc # "learn" => StillTo(merges, out, rest, job.prompt) /\ CacheSound(cache, merges)
  /\ pc = "done" => rest = <<>>

\* An empty cache is sound.
LEMMA EmptyCache ==
  ASSUME NEW ms PROVE CacheSound([index |-> <<>>, ids |-> <<>>], ms)
<1> DEFINE c == [index |-> <<>>, ids |-> <<>>]
<1>1. c.index = <<>> /\ c.ids = <<>>
  OBVIOUS
<1>2. DOMAIN <<>> = {} /\ <<>> \in Seq(Nat)
  OBVIOUS
<1> HIDE DEF c
<1>3. DOMAIN c.index = {}
  BY ONLY <1>1, <1>2
<1>. QED  BY <1>1, <1>2, <1>3 DEF CacheSound, c

\* A part of a sequence is the same part of a longer one.
LEMMA PartStays ==
  ASSUME NEW S, NEW s, NEW t, s \in Seq(S), t \in Seq(S), NEW o, NEW l, o \in Nat, l \in Nat, o + l <= Len(s)
  PROVE  SubSeq(s \o t, o + 1, o + l) = SubSeq(s, o + 1, o + l)
<1> DEFINE m == o + 1
           n == o + l
<1>1. Len(s) \in Nat /\ m \in Int /\ n \in Int
  BY LenProperties
<1>2. CASE l = 0
  <2>1. n < m
    BY <1>2
  <2> HIDE DEF m, n
  <2>2. SubSeq(s \o t, m, n) = <<>> /\ SubSeq(s, m, n) = <<>>
    BY <1>1, <2>1, SubSeqEmpty
  <2>. QED  BY <2>2 DEF m, n
<1>3. CASE l # 0
  <2>1. m \in 1..Len(s) /\ n \in 1..Len(s)
    BY <1>1, <1>3
  <2> HIDE DEF m, n
  <2>2. SubSeq(s \o t, m, n) = SubSeq(s, m, n)
    BY <2>1, SubSeqOfConcat1
  <2>. QED  BY <2>2 DEF m, n
<1>. QED  BY <1>2, <1>3

\* What is put behind a sequence is what comes after it.
LEMMA PartBehind ==
  ASSUME NEW S, NEW s, NEW t, s \in Seq(S), t \in Seq(S)
  PROVE  SubSeq(s \o t, Len(s) + 1, Len(s) + Len(t)) = t
<1> DEFINE m == Len(s) + 1
           n == Len(s) + Len(t)
<1>1. Len(s) \in Nat /\ Len(t) \in Nat /\ m \in Int /\ n \in Int
  BY LenProperties
<1>2. CASE t = <<>>
  <2>1. n < m
    BY <1>1, <1>2, EmptySeq
  <2> HIDE DEF m, n
  <2>2. SubSeq(s \o t, m, n) = <<>>
    BY <1>1, <2>1, SubSeqEmpty
  <2>. QED  BY <1>2, <2>2 DEF m, n
<1>3. CASE t # <<>>
  <2>0. Len(t) # 0
    BY <1>3, EmptySeq
  <2>1. m \in (Len(s) + 1)..(Len(s) + Len(t)) /\ n \in (Len(s) + 1)..(Len(s) + Len(t)) /\ m - Len(s) = 1 /\ n - Len(s) = Len(t)
    BY <1>1, <2>0
  <2> HIDE DEF m, n
  <2>2. SubSeq(s \o t, m, n) = SubSeq(t, m - Len(s), n - Len(s))
    BY <2>1, SubSeqOfConcat2
  <2>3. SubSeq(t, 1, Len(t)) = t
    BY SubSeqFull
  <2>. QED  BY <2>1, <2>2, <2>3 DEF m, n
<1>. QED  BY <1>2, <1>3

\* An item is a piece or a special.
LEMMA ItemCases ==
  ASSUME NEW i, i \in TextItem
  PROVE  \/ i.bytes \in NonEmpty /\ i = Piece(i.bytes) /\ i.special = 0 /\ Len(i.bytes) \in Nat \ {0}
         \/ i.special \in DOMAIN Specials /\ i = Special(i.special) /\ i.special # 0 /\ i.bytes = <<>>
<1>1. CASE \E b \in NonEmpty : i = Piece(b)
  <2>1. PICK b \in NonEmpty : i = Piece(b)
    BY <1>1
  <2>2. i.special = 0 /\ i.bytes = b
    BY <2>1, ItemFields
  <2>3. b \in Seq(Byte) /\ b # <<>>
    BY DEF NonEmpty
  <2>4. Len(b) \in Nat \ {0}
    BY <2>3, EmptySeq
  <2>. QED  BY <2>1, <2>2, <2>4
<1>2. CASE \E k \in DOMAIN Specials : i = Special(k)
  <2>1. PICK k \in DOMAIN Specials : i = Special(k)
    BY <1>2
  <2>2. i.special = k /\ i.bytes = <<>> /\ k # 0
    BY <2>1, ItemFields
  <2>. QED  BY <2>1, <2>2
<1>. QED  BY <1>1, <1>2 DEF TextItem

\* The first item's ids are put out.
LEMMA Spend ==
  ASSUME NEW ms, IsMerges(ms), NEW o, NEW r, NEW t, StillTo(ms, o, r, t), r # <<>>
  PROVE  r[1] \in TextItem /\ IdsBy(ms)[r[1]] \in Seq(Ids(ms)) /\ StillTo(ms, o \o IdsBy(ms)[r[1]], Tail(r), t)
<1> DEFINE D == Ids(ms)
           f == IdsBy(ms)
           a == r[1]
           x == f[a]
           w == Tail(r)
           all == Hom(f, Items(t))
<1>1. Gives(f, TextItem, D)
  BY IdsBySpell
<1> HIDE DEF D, f, all
<1>2. r \in Seq(TextItem) /\ o \in Seq(D) /\ o \o Hom(f, r) = all
  BY DEF StillTo, D, f, all
<1>3. Len(r) \in Nat \ {0}
  BY <1>2, EmptySeq
<1>4. a \in TextItem /\ w \in Seq(TextItem)
  <2>1. 1 \in 1..Len(r)
    BY <1>3
  <2>. QED  BY <1>2, <2>1, ElementOfSeq, HeadTailProperties
<1>5. r = <<a>> \o w
  <2>1. 1 \in 1..Len(r) /\ Len(r) \in 1..Len(r)
    BY <1>3
  <2>2. SubSeq(r, 1, Len(r)) = <<r[1]>> \o SubSeq(r, 1 + 1, Len(r))
    BY <1>2, <2>1, SubSeqRecursiveFirst
  <2>3. SubSeq(r, 1, Len(r)) = r
    BY <1>2, SubSeqFull
  <2>4. w = SubSeq(r, 2, Len(r))
    BY <1>2, TailIsSubSeq
  <2>5. 1 + 1 = 2
    OBVIOUS
  <2> HIDE DEF w
  <2>. QED  BY <2>2, <2>3, <2>4, <2>5
<1>6. x \in Seq(D)
  BY <1>1, <1>4 DEF Gives
<1> DEFINE one == <<a>>
<1>13. one \in Seq(TextItem) /\ Hom(f, one) = x
  <2>1. <<a>> \in Seq(TextItem)
    BY <1>4
  <2>. QED  BY <2>1, HomSmall
<1> HIDE DEF a, w, one
<1>7. Hom(f, one \o w) = Hom(f, one) \o Hom(f, w)
  <2>1. Gives(f, TextItem, D) /\ one \in Seq(TextItem) /\ w \in Seq(TextItem)
    BY <1>1, <1>4, <1>13
  <2>. QED  BY ONLY <2>1, HomConcat
<1> DEFINE h == Hom(f, w)
<1>8. h \in Seq(D)
  BY <1>1, <1>4, HomConcat
<1> HIDE DEF x, h
<1>9. (o \o x) \o h = o \o (x \o h)
  BY <1>2, <1>6, <1>8, Associates
<1>10. o \o x \in Seq(D)
  BY <1>2, <1>6, ConcatProperties
<1>11. o \o (x \o h) = all
  BY <1>2, <1>5, <1>7, <1>13 DEF h, one
<1>12. StillTo(ms, o \o x, w, t)
  BY <1>4, <1>9, <1>10, <1>11 DEF StillTo, D, f, h, all
<1>. QED  BY <1>4, <1>6, <1>12 DEF x, a, w, D, f

\* A piece more in the cache.
LEMMA CacheMore ==
  ASSUME NEW ms, IsMerges(ms), NEW c, CacheSound(c, ms), NEW p, p \in NonEmpty, p \notin DOMAIN c.index
  PROVE  CacheSound(Cached(c, p, EncodePiece(ms, p)), ms)
<1> DEFINE ids == EncodePiece(ms, p)
           e == Cached(c, p, ids)
           new == <<Len(c.ids), Len(ids)>>
           N == Nat
<1>1. ids \in Seq(N) /\ c.ids \in Seq(N)
  <2> DEFINE D == Ids(ms)
  <2>1. ids = IdsBy(ms)[Piece(p)] /\ Piece(p) \in TextItem
    BY IdsByIs, ItemFields
  <2>2. ids \in Seq(D)
    BY <2>1, IdsBySpell DEF Gives
  <2>3. D \subseteq N
    BY SpellIs
  <2>4. c.ids \in Seq(N)
    BY DEF CacheSound
  <2> HIDE DEF D, N, ids
  <2>5. ids \in Seq(N)
    BY <2>2, <2>3, SeqMono
  <2>. QED  BY <2>4, <2>5
<1>2. e.ids = c.ids \o ids /\ e.index = [q \in DOMAIN c.index \cup {p} |-> IF q = p THEN new ELSE c.index[q]]
  BY DEF Cached
<1>3. /\ DOMAIN e.index = DOMAIN c.index \cup {p} /\ e.index[p] = new
      /\ \A q \in DOMAIN c.index : e.index[q] = c.index[q]
  <2> DEFINE f == c.index
             g == e.index
  <2>1. p \notin DOMAIN f
    OBVIOUS
  <2>2. g = [q \in (DOMAIN f) \cup {p} |-> IF q = p THEN new ELSE f[q]]
    BY <1>2
  <2> HIDE DEF f, g, new
  <2>. QED  BY <2>1, <2>2 DEF f, g
<1> DEFINE s == c.ids
           u == e.ids
           n == Len(s)
           k == Len(ids)
<1>4. n \in Nat /\ k \in Nat
  BY <1>1, LenProperties
<1>5. new[1] = n /\ new[2] = k
  OBVIOUS
<1> HIDE DEF ids, e, new, N, s, u, n, k
<1>6. u \in Seq(N) /\ Len(u) = n + k
  <2>1. s \in Seq(N) /\ u = s \o ids /\ n = Len(s) /\ k = Len(ids)
    BY <1>1, <1>2 DEF s, u, n, k
  <2>. QED  BY <1>1, <2>1, ConcatProperties
<1>7. ASSUME NEW q \in DOMAIN c.index
      PROVE  /\ q \in NonEmpty /\ e.index[q][1] \in Nat /\ e.index[q][2] \in Nat
             /\ e.index[q][1] + e.index[q][2] <= Len(u) /\ Held(e, q) = EncodePiece(ms, q)
  <2> DEFINE o == c.index[q][1]
             l == c.index[q][2]
  <2>1. q \in NonEmpty /\ o \in Nat /\ l \in Nat /\ o + l <= n /\ SubSeq(s, o + 1, o + l) = EncodePiece(ms, q)
    BY DEF CacheSound, Held, s, n
  <2>2. e.index[q][1] = o /\ e.index[q][2] = l
    BY <1>3
  <2> HIDE DEF o, l
  <2>3. o + l <= Len(u)
    BY <1>4, <1>6, <2>1
  <2>4. s \in Seq(N) /\ u = s \o ids
    BY <1>1, <1>2 DEF s, u
  <2>5. SubSeq(s \o ids, o + 1, o + l) = SubSeq(s, o + 1, o + l)
    BY <1>1, <2>1, <2>4, PartStays DEF n
  <2>6. Held(e, q) = EncodePiece(ms, q)
    BY <2>1, <2>2, <2>4, <2>5 DEF Held, u
  <2>. QED  BY <2>1, <2>2, <2>3, <2>6
<1>8. /\ e.index[p][1] \in Nat /\ e.index[p][2] \in Nat
      /\ e.index[p][1] + e.index[p][2] <= Len(u) /\ Held(e, p) = EncodePiece(ms, p)
  <2>1. e.index[p][1] = n /\ e.index[p][2] = k
    BY <1>3, <1>5
  <2>2. s \in Seq(N) /\ u = s \o ids
    BY <1>1, <1>2 DEF s, u
  <2>3. SubSeq(s \o ids, Len(s) + 1, Len(s) + Len(ids)) = ids
    BY <1>1, <2>2, PartBehind
  <2>4. Held(e, p) = ids
    BY <2>1, <2>2, <2>3 DEF Held, u, n, k
  <2>5. ids = EncodePiece(ms, p)
    BY DEF ids
  <2>6. n + k <= Len(u)
    BY <1>4, <1>6
  <2>. QED  BY <1>4, <2>1, <2>4, <2>5, <2>6
<1>9. \A q \in DOMAIN e.index :
        /\ q \in NonEmpty /\ e.index[q][1] \in Nat /\ e.index[q][2] \in Nat
        /\ e.index[q][1] + e.index[q][2] <= Len(e.ids) /\ Held(e, q) = EncodePiece(ms, q)
  <2> TAKE q \in DOMAIN e.index
  <2>1. CASE q \in DOMAIN c.index
    BY <1>7, <2>1 DEF u
  <2>2. CASE q = p
    BY <1>8, <2>2 DEF u
  <2>. QED  BY <1>3, <2>1, <2>2
<1>10. CacheSound(e, ms)
  BY <1>6, <1>9 DEF CacheSound, u, N
<1>. QED  BY <1>10 DEF e, ids

\* The first item's ids, put out, leave the cache and the rest as they were meant to be.
LEMMA EncodeGoesOn ==
  ASSUME LearnInv, EncodeInv, pc = "encode", rest # <<>>, pc' = pc, job' = job, merges' = merges,
         rest' = Tail(rest), out' = out \o IdsBy(merges)[rest[1]], CacheSound(cache', merges)
  PROVE  EncodeInv'
<1>1. IsMerges(merges) /\ StillTo(merges, out, rest, job.prompt)
  BY DEF LearnInv, EncodeInv
<1>2. StillTo(merges, out \o IdsBy(merges)[rest[1]], Tail(rest), job.prompt)
  BY <1>1, Spend
<1>3. StillTo(merges', out', rest', job'.prompt)
  BY <1>2
<1>4. CacheSound(cache', merges')
  OBVIOUS
<1>. QED  BY <1>3, <1>4 DEF EncodeInv

\* Every step of encoding keeps its invariant.
LEMMA EncodeKeeps == ASSUME LearnInv, EncodeInv, [Next]_vars PROVE EncodeInv'
<1>1. IsMerges(merges) /\ job.prompt \in Seq(Byte)
  BY ByteBpeAssumption DEF LearnInv
<1>2. CASE PopStale \/ PopLive
  <2>1. pc = "learn" /\ pc' = "learn" /\ out' = out /\ rest' = rest /\ cache' = cache
    <3>1. CASE PopStale
      BY <3>1 DEF PopStale, Learning
    <3>2. CASE PopLive
      BY <3>2, Zenon DEF PopLive, Learning
    <3>. QED  BY <1>2, <3>1, <3>2
  <2>. QED  BY <2>1 DEF EncodeInv
<1>3. CASE Learned
  <2>1. /\ pc = "learn" /\ pc' = "encode" /\ rest' = Items(job.prompt) /\ out' = out /\ cache' = cache
        /\ merges' = merges /\ job' = job
    BY <1>3 DEF Learned
  <2>2. out = <<>> /\ cache = [index |-> <<>>, ids |-> <<>>]
    BY <2>1 DEF EncodeInv
  <2>3. CacheSound(cache', merges')
    BY <2>1, <2>2, EmptyCache
  <2> DEFINE D == Ids(merges)
             h == Hom(IdsBy(merges), Items(job.prompt))
  <2>4. Items(job.prompt) \in Seq(TextItem) /\ h \in Seq(D)
    BY <1>1, RoundTrip
  <2>5. <<>> \o h = h /\ <<>> \in Seq(D)
    <3> HIDE DEF D, h
    <3>. QED  BY <2>4, ConcatEmptySeq
  <2>6. StillTo(merges, <<>>, Items(job.prompt), job.prompt)
    BY <2>4, <2>5 DEF StillTo
  <2>7. StillTo(merges', out', rest', job'.prompt)
    BY <2>1, <2>2, <2>6
  <2>. QED  BY <2>1, <2>3, <2>7 DEF EncodeInv
<1>4. ASSUME pc = "encode", rest # <<>>
      PROVE  /\ StillTo(merges, out, rest, job.prompt) /\ CacheSound(cache, merges) /\ rest[1] \in TextItem
             /\ \/ /\ rest[1].bytes \in NonEmpty /\ rest[1] = Piece(rest[1].bytes) /\ rest[1].special = 0
                   /\ Len(rest[1].bytes) \in Nat \ {0}
                \/ /\ rest[1].special \in DOMAIN Specials /\ rest[1] = Special(rest[1].special)
                   /\ rest[1].special # 0 /\ rest[1].bytes = <<>>
  <2>1. StillTo(merges, out, rest, job.prompt) /\ CacheSound(cache, merges)
    BY <1>4 DEF EncodeInv
  <2>2. rest[1] \in TextItem
    BY <1>1, <1>4, <2>1, Spend
  <2>. QED  BY <2>1, <2>2, ItemCases
<1>5. CASE EncodeSpecial
  <2>1. /\ pc = "encode" /\ rest # <<>> /\ rest[1].special # 0 /\ out' = Append(out, SpecialId(rest[1].special))
        /\ rest' = Tail(rest) /\ pc' = pc /\ job' = job /\ merges' = merges /\ cache' = cache
    BY <1>5 DEF EncodeSpecial
  <2> DEFINE k == rest[1].special
             id == 255 + Len(merges) + k
             D == Ids(merges)
  <2>2. k \in DOMAIN Specials /\ rest[1] = Special(k) /\ CacheSound(cache, merges) /\ out \in Seq(D)
    BY <1>4, <2>1 DEF StillTo
  <2>3. IdsBy(merges)[rest[1]] = <<id>>
    BY <1>1, <2>2, IdsByIs
  <2>4. id \in D /\ out' = Append(out, id)
    BY <1>1, <2>1, <2>2, SpellIs DEF SpecialId
  <2> HIDE DEF id, D
  <2>5. Append(out, id) = out \o <<id>>
    BY <2>2, <2>4, AppendIsConcat
  <2>6. out' = out \o IdsBy(merges)[rest[1]]
    BY <2>3, <2>4, <2>5
  <2>. QED  BY <2>1, <2>2, <2>6, EncodeGoesOn
<1>6. CASE EncodeByte
  <2>1. /\ pc = "encode" /\ rest # <<>> /\ Len(rest[1].bytes) = 1 /\ out' = out \o rest[1].bytes
        /\ rest' = Tail(rest) /\ pc' = pc /\ job' = job /\ merges' = merges /\ cache' = cache
    BY <1>6 DEF EncodeByte
  <2> DEFINE b == rest[1].bytes
  <2>2. b # <<>>
    <3>1. Len(<<>>) = 0
      OBVIOUS
    <3>2. Len(b) # 0
      BY <2>1
    <3>. QED  BY <3>1, <3>2
  <2>3. b \in NonEmpty /\ rest[1] = Piece(b) /\ CacheSound(cache, merges)
    BY <1>4, <2>1, <2>2
  <2>4. IdsBy(merges)[Piece(b)] = b
    <3> HIDE DEF b
    <3>1. Len(b) = 1
      BY <2>1 DEF b
    <3>. QED  BY <1>1, <2>3, <3>1, OneByte
  <2>5. out' = out \o IdsBy(merges)[rest[1]]
    BY <2>1, <2>3, <2>4
  <2>. QED  BY <2>1, <2>3, <2>5, EncodeGoesOn
<1>7. CASE EncodeHit
  <2> DEFINE b == rest[1].bytes
  <2>1. /\ pc = "encode" /\ rest # <<>> /\ b \in DOMAIN cache.index /\ out' = out \o Held(cache, b)
        /\ rest' = Tail(rest) /\ pc' = pc /\ job' = job /\ merges' = merges /\ cache' = cache
    BY <1>7, Zenon DEF EncodeHit, Held
  <2>2. CacheSound(cache, merges)
    BY <1>4, <2>1
  <2>3. b \in NonEmpty /\ Held(cache, b) = EncodePiece(merges, b)
    BY <2>1, <2>2 DEF CacheSound
  <2>4. b # <<>>
    BY <2>3 DEF NonEmpty
  <2>5. rest[1] = Piece(b)
    BY <1>4, <2>1, <2>4
  <2>6. IdsBy(merges)[Piece(b)] = EncodePiece(merges, b)
    BY <1>1, <2>3, IdsByIs
  <2>7. out' = out \o IdsBy(merges)[rest[1]]
    BY <2>1, <2>3, <2>5, <2>6
  <2>. QED  BY <2>1, <2>2, <2>7, EncodeGoesOn
<1>8. CASE EncodeMiss
  <2> DEFINE b == rest[1].bytes
             ids == EncodePiece(merges, b)
  <2>1. /\ pc = "encode" /\ rest # <<>> /\ Len(b) >= 2 /\ b \notin DOMAIN cache.index /\ out' = out \o ids
        /\ rest' = Tail(rest) /\ pc' = pc /\ job' = job /\ merges' = merges /\ cache' = Cached(Room(cache), b, ids)
    BY <1>8, Zenon DEF EncodeMiss
  <2>2. b # <<>>
    <3>1. Len(<<>>) = 0
      OBVIOUS
    <3>2. Len(b) # 0
      BY <2>1
    <3>. QED  BY <3>1, <3>2
  <2>3. CacheSound(cache, merges) /\ b \in NonEmpty /\ rest[1] = Piece(b)
    BY <1>4, <2>1, <2>2
  <2>4. IdsBy(merges)[Piece(b)] = ids
    BY <1>1, <2>3, IdsByIs
  <2>5. out' = out \o IdsBy(merges)[rest[1]]
    BY <2>1, <2>3, <2>4
  <2> DEFINE c == Room(cache)
  <2>6. CacheSound(c, merges) /\ b \notin DOMAIN c.index
    <3>1. CASE c = cache
      BY <2>1, <2>3, <3>1
    <3>2. CASE c = [index |-> <<>>, ids |-> <<>>]
      <4>1. CacheSound(c, merges)
        BY <3>2, EmptyCache
      <4>2. c.index = <<>> /\ DOMAIN <<>> = {}
        BY <3>2
      <4> HIDE DEF c
      <4>3. DOMAIN c.index = {}
        BY ONLY <4>2
      <4>. QED  BY <4>1, <4>3
    <3>3. c = cache \/ c = [index |-> <<>>, ids |-> <<>>]
      BY Zenon DEF Room
    <3>. QED  BY <3>1, <3>2, <3>3
  <2> HIDE DEF c
  <2>7. CacheSound(Cached(c, b, EncodePiece(merges, b)), merges)
    BY <1>1, <2>3, <2>6, CacheMore
  <2>8. CacheSound(cache', merges)
    BY <2>1, <2>7 DEF c
  <2>. QED  BY <2>1, <2>5, <2>8, EncodeGoesOn
<1>9. CASE Encoded
  <2>1. /\ pc = "encode" /\ rest = <<>> /\ pc' = "done" /\ rest' = rest /\ out' = out /\ cache' = cache
        /\ merges' = merges /\ job' = job
    BY <1>9 DEF Encoded
  <2>2. StillTo(merges, out, rest, job.prompt) /\ CacheSound(cache, merges)
    BY <2>1 DEF EncodeInv
  <2>. QED  BY <2>1, <2>2 DEF EncodeInv
<1>10. CASE UNCHANGED vars
  <2>1. pc' = pc /\ rest' = rest /\ out' = out /\ cache' = cache /\ merges' = merges /\ job' = job
    BY <1>10 DEF vars
  <2>. QED  BY <2>1 DEF EncodeInv
<1>. QED  BY <1>2, <1>3, <1>5, <1>6, <1>7, <1>8, <1>9, <1>10 DEF Next

\* Encoding a text (encode_into): what the cache holds for a piece is the piece's
\* encoding, and the ids put out and those of what is left are the ids of the text
\* without a cache, however often the cache was emptied.
THEOREM EncodingIsTrue == Spec => []EncodeInv
<1>1. Init => EncodeInv
  BY DEF Init, EncodeInv
<1>2. LearnInv /\ EncodeInv /\ [Next]_vars => EncodeInv'
  BY EncodeKeeps
<1>. QED  BY <1>1, <1>2, LearningIsTrue, PTL DEF Spec

\* So with every text encoded, through a cache of any limit (encode_into), the ids are
\* those of an encoding without a cache, and decode to the text (decode).
THEOREM CacheChangesNothing == Spec => []CacheIsTrue
<1>1. LearnInv /\ EncodeInv => CacheIsTrue
  <2> SUFFICES ASSUME LearnInv, EncodeInv PROVE CacheIsTrue
    OBVIOUS
  <2>1. IsMerges(merges) /\ job.prompt \in Seq(Byte)
    BY ByteBpeAssumption DEF LearnInv
  <2>2. CacheSound(cache, merges)
    BY EmptyCache DEF EncodeInv
  <2>3. \A p \in DOMAIN cache.index :
          SubSeq(cache.ids, cache.index[p][1] + 1, cache.index[p][1] + cache.index[p][2]) = EncodePiece(merges, p)
    BY <2>2 DEF CacheSound, Held
  <2>4. ASSUME pc = "done" PROVE out = Encoding(job.prompt) /\ Decode(out) = job.prompt
    <3>1. StillTo(merges, out, rest, job.prompt) /\ rest = <<>>
      BY <2>4 DEF EncodeInv
    <3> DEFINE D == Ids(merges)
    <3>2. out \in Seq(D) /\ out \o <<>> = Hom(IdsBy(merges), Items(job.prompt))
      BY <3>1, HomSmall DEF StillTo
    <3> HIDE DEF D
    <3>3. out \o <<>> = out
      BY <3>2, ConcatEmptySeq
    <3>4. Encoding(job.prompt) = Hom(IdsBy(merges), Items(job.prompt)) /\ Decode(Encoding(job.prompt)) = job.prompt
      BY <2>1, RoundTrip
    <3>5. out = Encoding(job.prompt)
      BY <3>2, <3>3, <3>4
    <3>. QED  BY <3>4, <3>5
  <2>. QED  BY <2>3, <2>4 DEF CacheIsTrue
<1>. QED  BY <1>1, LearningIsTrue, EncodingIsTrue, PTL
-----------------------------------------------------------------------------
(* The tokenizer file.                                                     *)

\* Every element of z has length c.
EachLong(z, c) == \A k \in 1..Len(z) : Len(z[k]) = c

\* A sequence of pairs flattened: each of them in its place.
FlattenTwosAt(S, z) ==
  /\ FlattenSeq(z) \in Seq(S) /\ Len(FlattenSeq(z)) = 2 * Len(z)
  /\ \A k \in 1..Len(z) : FlattenSeq(z)[2 * k - 1] = z[k][1] /\ FlattenSeq(z)[2 * k] = z[k][2]

\* Pairs put in a row stand two by two.
LEMMA FlattenTwos ==
  ASSUME NEW S, NEW z, z \in Seq(Seq(S)), EachLong(z, 2)
  PROVE  FlattenTwosAt(S, z)
<1> DEFINE T == {s \in Seq(S) : Len(s) = 2}
           Good(x) == /\ FlattenSeq(x) \in Seq(S) /\ Len(FlattenSeq(x)) = 2 * Len(x)
                      /\ \A k \in 1..Len(x) : FlattenSeq(x)[2 * k - 1] = x[k][1] /\ FlattenSeq(x)[2 * k] = x[k][2]
           K == {n \in Nat : \A x : x \in Seq(T) /\ Len(x) = n => Good(x)}
<1>1. 0 \in K
  <2> SUFFICES ASSUME NEW x, x \in Seq(T), Len(x) = 0 PROVE Good(x)
    OBVIOUS
  <2>1. x = <<>>
    BY EmptySeq
  <2>2. FlattenSeq(<<>>) = <<>> /\ <<>> \in Seq(S) /\ Len(<<>>) = 0
    BY FlattenNone, EmptySeq
  <2> DEFINE e == <<>>
  <2>3. FlattenSeq(e) = e /\ e \in Seq(S) /\ Len(e) = 0 /\ x = e
    BY <2>1, <2>2
  <2> HIDE DEF e
  <2>4. 1..Len(x) = {}
    OBVIOUS
  <2>5. FlattenSeq(x) \in Seq(S) /\ Len(FlattenSeq(x)) = 0
    BY ONLY <2>3
  <2>6. 2 * Len(x) = 0
    OBVIOUS
  <2>. QED  BY <2>4, <2>5, <2>6
<1>2. ASSUME NEW n \in Nat, n \in K PROVE n + 1 \in K
  <2> SUFFICES ASSUME NEW x, x \in Seq(T), Len(x) = n + 1 PROVE Good(x)
    OBVIOUS
  <2> HIDE DEF T
  <2>1. x # <<>>
    BY EmptySeq
  <2>2. PICK w \in Seq(T), a \in T : x = Append(w, a)
    BY <2>1, SequenceEmptyOrAppend
  <2>3. Len(w) = n /\ \A k \in 1..n : x[k] = w[k]
    <3>1. Len(w) + 1 = n + 1 /\ Len(w) \in Nat
      BY <2>2, AppendProperties, LenProperties
    <3>2. \A k \in 1..Len(w) : x[k] = w[k]
      BY <2>2, AppendProperties
    <3>. QED  BY <3>1, <3>2
  <2>4. x[n + 1] = a
    BY <2>2, <2>3, AppendProperties
  <2>5. Good(w)
    BY <1>2, <2>3
  <2>6. a \in Seq(S) /\ Len(a) = 2
    BY <2>2 DEF T
  <2> DEFINE u == FlattenSeq(w)
             v == FlattenSeq(x)
  <2>7. v = u \o a
    <3> DEFINE Q == Seq(S)
    <3>1. T \subseteq Q
      BY DEF T
    <3> HIDE DEF Q
    <3>2. w \in Seq(Q)
      BY <2>2, <3>1, SeqMono
    <3>3. w \in Seq(Seq(S))
      BY <3>2 DEF Q
    <3>. QED  BY <2>2, <2>6, <3>3, FlattenAppend
  <2>8. u \in Seq(S) /\ Len(u) = 2 * n /\ \A k \in 1..n : u[2 * k - 1] = w[k][1] /\ u[2 * k] = w[k][2]
    BY <2>3, <2>5
  <2> HIDE DEF u, v, K
  <2>9. /\ v \in Seq(S) /\ Len(v) = Len(u) + Len(a)
        /\ \A j \in 1..(Len(u) + Len(a)) : v[j] = IF j <= Len(u) THEN u[j] ELSE a[j - Len(u)]
    BY <2>6, <2>7, <2>8, ConcatProperties
  <2>10. ASSUME NEW k \in 1..(n + 1) PROVE v[2 * k - 1] = x[k][1] /\ v[2 * k] = x[k][2]
    <3>1. CASE k <= n
      <4>1. k \in 1..n /\ 2 * k - 1 \in 1..(Len(u) + Len(a)) /\ 2 * k - 1 <= Len(u) /\ 2 * k \in 1..(Len(u) + Len(a)) /\ 2 * k <= Len(u)
        BY <2>6, <2>8, <3>1
      <4>2. v[2 * k - 1] = u[2 * k - 1] /\ v[2 * k] = u[2 * k]
        BY <2>9, <4>1
      <4>. QED  BY <2>3, <2>8, <4>1, <4>2
    <3>2. CASE k = n + 1
      <4>1. 2 * k - 1 \in 1..(Len(u) + Len(a)) /\ ~ (2 * k - 1 <= Len(u)) /\ 2 * k - 1 - Len(u) = 1 /\ 2 * k \in 1..(Len(u) + Len(a)) /\ ~ (2 * k <= Len(u)) /\ 2 * k - Len(u) = 2
        BY <2>6, <2>8, <3>2
      <4>2. v[2 * k - 1] = a[1] /\ v[2 * k] = a[2]
        BY <2>9, <4>1
      <4>. QED  BY <2>4, <3>2, <4>2
    <3>. QED  BY <3>1, <3>2
  <2>11. Len(v) = 2 * (n + 1)
    BY <2>6, <2>8, <2>9
  <2>. QED  BY <2>9, <2>10, <2>11 DEF v
<1>3. Nat \subseteq K
  <2> HIDE DEF K
  <2>. QED  BY <1>1, <1>2, Induction
<1>4. z \in Seq(T)
  <2>1. Len(z) \in Nat /\ z \in [1..Len(z) -> Seq(S)]
    <3> DEFINE Q == Seq(S)
    <3>1. z \in Seq(Q)
      OBVIOUS
    <3> HIDE DEF Q
    <3>2. Len(z) \in Nat /\ z \in [1..Len(z) -> Q]
      BY <3>1, LenProperties
    <3>. QED  BY <3>2 DEF Q
  <2>2. z \in [1..Len(z) -> T]
    BY <2>1 DEF EachLong
  <2> HIDE DEF T
  <2>. QED  BY <2>1, <2>2, FunIsSeq
<1>5. Len(z) \in Nat
  BY <1>4, LenProperties
<1>. QED  BY <1>3, <1>4, <1>5 DEF FlattenTwosAt

\* A sequence of triples flattened: each of them in its place.
FlattenThreesAt(S, z) ==
  /\ FlattenSeq(z) \in Seq(S) /\ Len(FlattenSeq(z)) = 3 * Len(z)
  /\ \A k \in 1..Len(z) : FlattenSeq(z)[3 * k - 2] = z[k][1] /\ FlattenSeq(z)[3 * k - 1] = z[k][2] /\ FlattenSeq(z)[3 * k] = z[k][3]

\* Triples put in a row stand three by three.
LEMMA FlattenThrees ==
  ASSUME NEW S, NEW z, z \in Seq(Seq(S)), EachLong(z, 3)
  PROVE  FlattenThreesAt(S, z)
<1> DEFINE T == {s \in Seq(S) : Len(s) = 3}
           Good(x) == /\ FlattenSeq(x) \in Seq(S) /\ Len(FlattenSeq(x)) = 3 * Len(x)
                      /\ \A k \in 1..Len(x) : FlattenSeq(x)[3 * k - 2] = x[k][1] /\ FlattenSeq(x)[3 * k - 1] = x[k][2] /\ FlattenSeq(x)[3 * k] = x[k][3]
           K == {n \in Nat : \A x : x \in Seq(T) /\ Len(x) = n => Good(x)}
<1>1. 0 \in K
  <2> SUFFICES ASSUME NEW x, x \in Seq(T), Len(x) = 0 PROVE Good(x)
    OBVIOUS
  <2>1. x = <<>>
    BY EmptySeq
  <2>2. FlattenSeq(<<>>) = <<>> /\ <<>> \in Seq(S) /\ Len(<<>>) = 0
    BY FlattenNone, EmptySeq
  <2> DEFINE e == <<>>
  <2>3. FlattenSeq(e) = e /\ e \in Seq(S) /\ Len(e) = 0 /\ x = e
    BY <2>1, <2>2
  <2> HIDE DEF e
  <2>4. 1..Len(x) = {}
    OBVIOUS
  <2>5. FlattenSeq(x) \in Seq(S) /\ Len(FlattenSeq(x)) = 0
    BY ONLY <2>3
  <2>6. 3 * Len(x) = 0
    OBVIOUS
  <2>. QED  BY <2>4, <2>5, <2>6
<1>2. ASSUME NEW n \in Nat, n \in K PROVE n + 1 \in K
  <2> SUFFICES ASSUME NEW x, x \in Seq(T), Len(x) = n + 1 PROVE Good(x)
    OBVIOUS
  <2> HIDE DEF T
  <2>1. x # <<>>
    BY EmptySeq
  <2>2. PICK w \in Seq(T), a \in T : x = Append(w, a)
    BY <2>1, SequenceEmptyOrAppend
  <2>3. Len(w) = n /\ \A k \in 1..n : x[k] = w[k]
    <3>1. Len(w) + 1 = n + 1 /\ Len(w) \in Nat
      BY <2>2, AppendProperties, LenProperties
    <3>2. \A k \in 1..Len(w) : x[k] = w[k]
      BY <2>2, AppendProperties
    <3>. QED  BY <3>1, <3>2
  <2>4. x[n + 1] = a
    BY <2>2, <2>3, AppendProperties
  <2>5. Good(w)
    BY <1>2, <2>3
  <2>6. a \in Seq(S) /\ Len(a) = 3
    BY <2>2 DEF T
  <2> DEFINE u == FlattenSeq(w)
             v == FlattenSeq(x)
  <2>7. v = u \o a
    <3> DEFINE Q == Seq(S)
    <3>1. T \subseteq Q
      BY DEF T
    <3> HIDE DEF Q
    <3>2. w \in Seq(Q)
      BY <2>2, <3>1, SeqMono
    <3>3. w \in Seq(Seq(S))
      BY <3>2 DEF Q
    <3>. QED  BY <2>2, <2>6, <3>3, FlattenAppend
  <2>8. u \in Seq(S) /\ Len(u) = 3 * n /\ \A k \in 1..n : u[3 * k - 2] = w[k][1] /\ u[3 * k - 1] = w[k][2] /\ u[3 * k] = w[k][3]
    BY <2>3, <2>5
  <2> HIDE DEF u, v, K
  <2>9. /\ v \in Seq(S) /\ Len(v) = Len(u) + Len(a)
        /\ \A j \in 1..(Len(u) + Len(a)) : v[j] = IF j <= Len(u) THEN u[j] ELSE a[j - Len(u)]
    BY <2>6, <2>7, <2>8, ConcatProperties
  <2>10. ASSUME NEW k \in 1..(n + 1) PROVE v[3 * k - 2] = x[k][1] /\ v[3 * k - 1] = x[k][2] /\ v[3 * k] = x[k][3]
    <3>1. CASE k <= n
      <4>1. k \in 1..n /\ 3 * k - 2 \in 1..(Len(u) + Len(a)) /\ 3 * k - 2 <= Len(u) /\ 3 * k - 1 \in 1..(Len(u) + Len(a)) /\ 3 * k - 1 <= Len(u) /\ 3 * k \in 1..(Len(u) + Len(a)) /\ 3 * k <= Len(u)
        BY <2>6, <2>8, <3>1
      <4>2. v[3 * k - 2] = u[3 * k - 2] /\ v[3 * k - 1] = u[3 * k - 1] /\ v[3 * k] = u[3 * k]
        BY <2>9, <4>1
      <4>. QED  BY <2>3, <2>8, <4>1, <4>2
    <3>2. CASE k = n + 1
      <4>1. 3 * k - 2 \in 1..(Len(u) + Len(a)) /\ ~ (3 * k - 2 <= Len(u)) /\ 3 * k - 2 - Len(u) = 1 /\ 3 * k - 1 \in 1..(Len(u) + Len(a)) /\ ~ (3 * k - 1 <= Len(u)) /\ 3 * k - 1 - Len(u) = 2 /\ 3 * k \in 1..(Len(u) + Len(a)) /\ ~ (3 * k <= Len(u)) /\ 3 * k - Len(u) = 3
        BY <2>6, <2>8, <3>2
      <4>2. v[3 * k - 2] = a[1] /\ v[3 * k - 1] = a[2] /\ v[3 * k] = a[3]
        BY <2>9, <4>1
      <4>. QED  BY <2>4, <3>2, <4>2
    <3>. QED  BY <3>1, <3>2
  <2>11. Len(v) = 3 * (n + 1)
    BY <2>6, <2>8, <2>9
  <2>. QED  BY <2>9, <2>10, <2>11 DEF v
<1>3. Nat \subseteq K
  <2> HIDE DEF K
  <2>. QED  BY <1>1, <1>2, Induction
<1>4. z \in Seq(T)
  <2>1. Len(z) \in Nat /\ z \in [1..Len(z) -> Seq(S)]
    <3> DEFINE Q == Seq(S)
    <3>1. z \in Seq(Q)
      OBVIOUS
    <3> HIDE DEF Q
    <3>2. Len(z) \in Nat /\ z \in [1..Len(z) -> Q]
      BY <3>1, LenProperties
    <3>. QED  BY <3>2 DEF Q
  <2>2. z \in [1..Len(z) -> T]
    BY <2>1 DEF EachLong
  <2> HIDE DEF T
  <2>. QED  BY <2>1, <2>2, FunIsSeq
<1>5. Len(z) \in Nat
  BY <1>4, LenProperties
<1>. QED  BY <1>3, <1>4, <1>5 DEF FlattenThreesAt

\* One sequence behind another, place by place.
InRow(S, x, y) ==
  /\ x \o y \in Seq(S) /\ Len(x \o y) = Len(x) + Len(y)
  /\ \A i \in 1..Len(x) : (x \o y)[i] = x[i]
  /\ \A i \in 1..Len(y) : (x \o y)[Len(x) + i] = y[i]

\* Two sequences put together are in a row.
LEMMA Behind == ASSUME NEW S, NEW x, NEW y, x \in Seq(S), y \in Seq(S) PROVE InRow(S, x, y)
<1>1. Len(x) \in Nat /\ Len(y) \in Nat
  BY LenProperties
<1> DEFINE z == x \o y
           n == Len(x)
           m == Len(y)
<1>2. /\ z \in Seq(S) /\ Len(z) = n + m
      /\ \A i \in 1..(n + m) : z[i] = IF i <= n THEN x[i] ELSE y[i - n]
  BY ConcatProperties
<1>3. n \in Nat /\ m \in Nat
  BY <1>1
<1> HIDE DEF z, n, m
<1>4. \A i \in 1..n : z[i] = x[i]
  BY <1>2, <1>3
<1>5. ASSUME NEW i \in 1..m PROVE z[n + i] = y[i]
  <2>1. n + i \in 1..(n + m) /\ ~ (n + i <= n) /\ (n + i) - n = i
    BY <1>3
  <2> DEFINE j == n + i
  <2> HIDE DEF j
  <2>2. z[j] = y[j - n]
    BY <1>2, <2>1 DEF j
  <2>. QED  BY <2>1, <2>2 DEF j
<1>. QED  BY <1>2, <1>4, <1>5 DEF InRow, z, n, m

\* A head of six, two bodies and a last field, place by place.
Joined(f, S, h, x, y, l, a, b) ==
  /\ a \in Nat /\ b \in Nat /\ f \in Seq(S) /\ Len(f) = 6 + a + b + 1
  /\ \A i \in 1..6 : f[i] = h[i]
  /\ \A i \in 1..a : f[6 + i] = x[i]
  /\ \A i \in 1..b : f[6 + a + i] = y[i]
  /\ f[6 + a + b + 1] = l

\* They are joined when put together.
LEMMA JoinedFields ==
  ASSUME NEW S, NEW h, NEW x, NEW y, NEW l, h \in Seq(S), x \in Seq(S), y \in Seq(S), l \in S, Len(h) = 6,
         NEW f, f = ((h \o x) \o y) \o <<l>>
  PROVE  Joined(f, S, h, x, y, l, Len(x), Len(y))
<1> DEFINE a == Len(x)
           b == Len(y)
           u == h \o x
           v == u \o y
           o == <<l>>
<1>0. a \in Nat /\ b \in Nat /\ a = Len(x) /\ b = Len(y)
  BY LenProperties
<1> HIDE DEF a, b
<1>1. o \in Seq(S) /\ Len(o) = 1 /\ o[1] = l
  OBVIOUS
<1>2. f = v \o o
  OBVIOUS
<1>3. /\ u \in Seq(S) /\ Len(u) = 6 + a /\ \A i \in 1..6 : u[i] = h[i]
      /\ \A i \in 1..a : u[6 + i] = x[i]
  <2>1. InRow(S, h, x)
    BY Behind
  <2>. QED  BY <1>0, <2>1 DEF InRow
<1> HIDE DEF u
<1>4. /\ v \in Seq(S) /\ Len(v) = 6 + a + b /\ \A i \in 1..(6 + a) : v[i] = u[i]
      /\ \A i \in 1..b : v[6 + a + i] = y[i]
  <2>1. InRow(S, u, y)
    BY <1>3, Behind
  <2>. QED  BY <1>0, <1>3, <2>1 DEF InRow
<1> HIDE DEF v, o
<1>5. /\ f \in Seq(S) /\ Len(f) = 6 + a + b + 1 /\ \A i \in 1..(6 + a + b) : f[i] = v[i]
      /\ f[6 + a + b + 1] = l
  <2>1. InRow(S, v, o)
    BY <1>1, <1>4, Behind
  <2>2. 1 \in 1..Len(o)
    BY <1>1
  <2>3. (v \o o)[Len(v) + 1] = o[1]
    BY <2>1, <2>2 DEF InRow
  <2>. QED  BY <1>1, <1>2, <1>4, <2>1, <2>3 DEF InRow
<1>6. ASSUME NEW i \in 1..6 PROVE f[i] = h[i]
  <2>1. i \in 1..(6 + a) /\ i \in 1..(6 + a + b)
    BY <1>0
  <2>. QED  BY <1>3, <1>4, <1>5, <2>1
<1>7. ASSUME NEW i \in 1..a PROVE f[6 + i] = x[i]
  <2> DEFINE j == 6 + i
  <2>1. j \in 1..(6 + a) /\ j \in 1..(6 + a + b)
    BY <1>0
  <2>2. u[j] = x[i]
    BY <1>3
  <2> HIDE DEF j
  <2>3. f[j] = x[i]
    BY <1>4, <1>5, <2>1, <2>2
  <2>. QED  BY <2>3 DEF j
<1>8. ASSUME NEW i \in 1..b PROVE f[6 + a + i] = y[i]
  <2> DEFINE j == 6 + a + i
  <2>1. j \in 1..(6 + a + b)
    BY <1>0
  <2>2. v[j] = y[i]
    BY <1>4
  <2> HIDE DEF j
  <2>3. f[j] = y[i]
    BY <1>5, <2>1, <2>2
  <2>. QED  BY <2>3 DEF j
<1>. QED  BY <1>0, <1>5, <1>6, <1>7, <1>8 DEF Joined

\* File f has the fields of merges ms and specials sps.
Saved(f, ms, sps) ==
  /\ Len(f) = 6 + 3 * Len(sps) + 2 * Len(ms) + 1 /\ DOMAIN f = 1..Len(f)
  /\ f[1] = "GTOK" /\ f[2] = 1 /\ f[3] = "pre" /\ f[4] = 256 + Len(ms) + Len(sps) /\ f[5] = Len(ms) /\ f[6] = Len(sps)
  /\ \A k \in 1..Len(sps) : f[4 + 3 * k] = 255 + Len(ms) + k /\ f[5 + 3 * k] = Len(sps[k]) /\ f[6 + 3 * k] = sps[k]
  /\ \A r \in 1..Len(ms) : f[5 + 3 * Len(sps) + 2 * r] = ms[r][1] /\ f[6 + 3 * Len(sps) + 2 * r] = ms[r][2]
  /\ f[Len(f)] = Fingerprint(ms, sps)

\* What the file of merges and specials is made of: triples, pairs, and any value.
Triples(ms, sps) == [k \in DOMAIN sps |-> <<255 + Len(ms) + k, Len(sps[k]), sps[k]>>]
Fields(ms, sps) == {"GTOK", "pre"} \cup Nat \cup {sps[k] : k \in DOMAIN sps} \cup {Fingerprint(ms, sps)}

\* The n specials, and the triples of them.
Named(sps, n) ==
  /\ n \in Nat /\ DOMAIN sps = 1..n /\ Len(sps) = n /\ sps = [k \in 1..n |-> sps[k]]
  /\ \A k \in 1..n : Len(sps[k]) \in Nat
TriplesOf(t, ms, sps, n) ==
  /\ t \in Seq(Seq(Fields(ms, sps))) /\ Len(t) = n
  /\ \A k \in 1..n : Len(t[k]) = 3 /\ t[k][1] = 255 + Len(ms) + k /\ t[k][2] = Len(sps[k]) /\ t[k][3] = sps[k]

\* The triples of the specials.
LEMMA TriplesAre ==
  ASSUME NEW ms, Len(ms) \in Nat, NEW n, NEW sps, Named(sps, n)
  PROVE  TriplesOf(Triples(ms, sps), ms, sps, n)
<1>0. n \in Nat /\ DOMAIN sps = 1..n /\ Len(sps) = n /\ \A k \in 1..n : Len(sps[k]) \in Nat
  BY DEF Named
<1> DEFINE S == Fields(ms, sps)
           Q == Seq(S)
           t == Triples(ms, sps)
           x(k) == 255 + Len(ms) + k
<1>1. Nat \subseteq S /\ \A k \in 1..n : sps[k] \in S
  BY <1>0 DEF Fields
<1>2. ASSUME NEW k \in 1..n PROVE x(k) \in S /\ Len(sps[k]) \in S /\ sps[k] \in S
  <2>1. x(k) \in Nat
    BY <1>0
  <2> HIDE DEF x, S
  <2>. QED  BY <1>0, <1>1, <2>1
<1>3. t = [k \in 1..n |-> <<x(k), Len(sps[k]), sps[k]>>]
  BY <1>0 DEF Triples
<1> HIDE DEF x, S, t
<1>4. ASSUME NEW k \in 1..n
      PROVE  t[k] \in Q /\ Len(t[k]) = 3 /\ t[k][1] = x(k) /\ t[k][2] = Len(sps[k]) /\ t[k][3] = sps[k]
  <2> DEFINE b == Len(sps[k])
             c == sps[k]
             a == x(k)
  <2>1. t[k] = <<a, b, c>> /\ a \in S /\ b \in S /\ c \in S
    BY <1>2, <1>3
  <2> HIDE DEF a, b, c
  <2>2. <<a, b, c>> \in Seq(S) /\ Len(<<a, b, c>>) = 3 /\ <<a, b, c>>[1] = a /\ <<a, b, c>>[2] = b /\ <<a, b, c>>[3] = c
    BY <2>1
  <2>. QED  BY <2>1, <2>2 DEF a, b, c
<1> HIDE DEF Q
<1>5. t \in [1..n -> Q]
  BY <1>3, <1>4
<1>6. t \in Seq(Q) /\ Len(t) = n
  BY <1>0, <1>5, FunIsSeq
<1>. QED  BY <1>4, <1>6 DEF t, S, Q, x, TriplesOf

\* Pairs of naturals as sequences.
LEMMA PairsAreSeqs ==
  ASSUME NEW ms, ms \in Seq(Nat \X Nat), NEW S, Nat \subseteq S
  PROVE  ms \in Seq(Seq(S)) /\ \A r \in 1..Len(ms) : Len(ms[r]) = 2 /\ ms[r] = <<ms[r][1], ms[r][2]>>
<1> DEFINE P == Nat \X Nat
           Q == Seq(S)
<1>1. ASSUME NEW p \in P PROVE p \in Q /\ Len(p) = 2 /\ p = <<p[1], p[2]>>
  <2>1. PICK a \in Nat, b \in Nat : p = <<a, b>>
    OBVIOUS
  <2>2. a \in S /\ b \in S
    OBVIOUS
  <2>3. <<a, b>> \in Seq(S) /\ Len(<<a, b>>) = 2 /\ <<a, b>>[1] = a /\ <<a, b>>[2] = b
    BY <2>2
  <2>. QED  BY <2>1, <2>3
<1>2. ms \in Seq(P)
  OBVIOUS
<1> HIDE DEF P, Q
<1>3. P \subseteq Q
  BY <1>1
<1>4. ms \in Seq(Q)
  BY <1>2, <1>3, SeqMono
<1>5. \A r \in 1..Len(ms) : ms[r] \in P
  BY <1>2, ElementOfSeq
<1>. QED  BY <1>1, <1>4, <1>5 DEF Q

\* save() leaves every field in its place.
LEMMA FileHas ==
  ASSUME NEW ms, ms \in Seq(Nat \X Nat), NEW sps, NEW n, Named(sps, n)
  PROVE  Saved(FileOf(ms, sps), ms, sps)
<1> DEFINE S == Fields(ms, sps)
           m == Len(ms)
           h == <<"GTOK", 1, "pre", 256 + m + n, m, n>>
           t == Triples(ms, sps)
           x == FlattenSeq(t)
           y == FlattenSeq(ms)
           l == Fingerprint(ms, sps)
           f == FileOf(ms, sps)
           a == Len(x)
           b == Len(y)
<1>0. n \in Nat /\ DOMAIN sps = 1..n /\ Len(sps) = n /\ \A k \in 1..n : Len(sps[k]) \in Nat
  BY DEF Named
<1>1. m \in Nat
  <2> DEFINE P == Nat \X Nat
  <2> HIDE DEF P
  <2>1. ms \in Seq(P)
    BY DEF P
  <2>. QED  BY <2>1, LenProperties
<1>2. Nat \subseteq S /\ "GTOK" \in S /\ "pre" \in S /\ l \in S
  BY DEF Fields
<1>3. f = ((h \o x) \o y) \o <<l>>
  BY <1>0 DEF FileOf, Triples
<1>4. /\ t \in Seq(Seq(S)) /\ Len(t) = n
      /\ \A k \in 1..n : /\ Len(t[k]) = 3 /\ t[k][1] = 255 + m + k
                         /\ t[k][2] = Len(sps[k]) /\ t[k][3] = sps[k]
  <2>1. TriplesOf(Triples(ms, sps), ms, sps, n)
    BY <1>1, TriplesAre
  <2>. QED  BY <2>1 DEF TriplesOf
<1> HIDE DEF t, S, l
<1>5. /\ x \in Seq(S) /\ a = 3 * n
      /\ \A k \in 1..n : x[3 * k - 2] = t[k][1] /\ x[3 * k - 1] = t[k][2] /\ x[3 * k] = t[k][3]
  <2>1. EachLong(t, 3)
    BY <1>4 DEF EachLong
  <2>2. FlattenThreesAt(S, t)
    BY <1>4, <2>1, FlattenThrees
  <2>. QED  BY <1>4, <2>2 DEF FlattenThreesAt
<1>6. /\ y \in Seq(S) /\ b = 2 * m /\ \A r \in 1..m : y[2 * r - 1] = ms[r][1] /\ y[2 * r] = ms[r][2]
  <2>1. ms \in Seq(Seq(S)) /\ EachLong(ms, 2)
    BY <1>2, PairsAreSeqs DEF EachLong
  <2>2. FlattenTwosAt(S, ms)
    BY <2>1, FlattenTwos
  <2>. QED  BY <2>2 DEF FlattenTwosAt
<1>7. /\ h \in Seq(S) /\ Len(h) = 6 /\ h[1] = "GTOK" /\ h[2] = 1 /\ h[3] = "pre" /\ h[4] = 256 + m + n
      /\ h[5] = m /\ h[6] = n
  <2> DEFINE w == 256 + m + n
             g == "GTOK"
             p == "pre"
  <2>1. w \in S /\ m \in S /\ n \in S /\ 1 \in S /\ g \in S /\ p \in S
    <3>1. w \in Nat
      BY <1>0, <1>1
    <3> HIDE DEF w
    <3>. QED  BY <1>0, <1>1, <1>2, <3>1
  <2>2. h = <<g, 1, p, w, m, n>>
    OBVIOUS
  <2> HIDE DEF w, g, p, m, h
  <2>3. h \in Seq(S) /\ Len(h) = 6
    BY <2>1, <2>2
  <2>4. h[1] = g /\ h[2] = 1 /\ h[3] = p /\ h[4] = w /\ h[5] = m /\ h[6] = n
    BY <2>2
  <2>. QED  BY <2>3, <2>4 DEF w, g, p
<1> HIDE DEF x, y, f, h
<1>8. /\ a \in Nat /\ b \in Nat /\ f \in Seq(S) /\ Len(f) = 6 + a + b + 1
      /\ \A i \in 1..6 : f[i] = h[i]
      /\ \A i \in 1..a : f[6 + i] = x[i]
      /\ \A i \in 1..b : f[6 + a + i] = y[i]
      /\ f[6 + a + b + 1] = l
  <2>1. Joined(f, S, h, x, y, l, a, b)
    BY <1>2, <1>3, <1>5, <1>6, <1>7, JoinedFields
  <2>. QED  BY <2>1 DEF Joined
<1> HIDE DEF a, b, m
<1>9. /\ f[1] = "GTOK" /\ f[2] = 1 /\ f[3] = "pre" /\ f[4] = 256 + m + n /\ f[5] = m /\ f[6] = n
  <2>1. f[1] = h[1] /\ f[2] = h[2] /\ f[3] = h[3] /\ f[4] = h[4] /\ f[5] = h[5] /\ f[6] = h[6]
    BY <1>8
  <2>. QED  BY <1>7, <2>1
<1>10. ASSUME NEW k \in 1..n PROVE f[4 + 3 * k] = 255 + m + k /\ f[5 + 3 * k] = Len(sps[k]) /\ f[6 + 3 * k] = sps[k]
  <2> DEFINE i1 == 3 * k - 2
             i2 == 3 * k - 1
             i3 == 3 * k
  <2>1. /\ i1 \in 1..a /\ i2 \in 1..a /\ i3 \in 1..a
        /\ 6 + i1 = 4 + 3 * k /\ 6 + i2 = 5 + 3 * k /\ 6 + i3 = 6 + 3 * k
    BY <1>0, <1>5
  <2>2. x[i1] = t[k][1] /\ x[i2] = t[k][2] /\ x[i3] = t[k][3]
    BY <1>5
  <2> HIDE DEF i1, i2, i3
  <2>3. f[6 + i1] = x[i1] /\ f[6 + i2] = x[i2] /\ f[6 + i3] = x[i3]
    BY <1>8, <2>1
  <2>4. t[k][1] = 255 + m + k /\ t[k][2] = Len(sps[k]) /\ t[k][3] = sps[k]
    BY <1>4
  <2>5. f[4 + 3 * k] = t[k][1]
    BY <2>1, <2>2, <2>3
  <2>6. f[5 + 3 * k] = t[k][2]
    BY <2>1, <2>2, <2>3
  <2>7. f[6 + 3 * k] = t[k][3]
    BY <2>1, <2>2, <2>3
  <2>. QED  BY <2>4, <2>5, <2>6, <2>7
<1>11. ASSUME NEW r \in 1..m PROVE f[5 + 3 * n + 2 * r] = ms[r][1] /\ f[6 + 3 * n + 2 * r] = ms[r][2]
  <2> DEFINE i1 == 2 * r - 1
             i2 == 2 * r
  <2>1. /\ i1 \in 1..b /\ i2 \in 1..b
        /\ 6 + a + i1 = 5 + 3 * n + 2 * r /\ 6 + a + i2 = 6 + 3 * n + 2 * r
    BY <1>0, <1>1, <1>5, <1>6
  <2>2. y[i1] = ms[r][1] /\ y[i2] = ms[r][2]
    BY <1>6
  <2> HIDE DEF i1, i2
  <2>3. f[6 + a + i1] = y[i1] /\ f[6 + a + i2] = y[i2]
    BY <1>8, <2>1
  <2>4. f[5 + 3 * n + 2 * r] = ms[r][1]
    BY <2>1, <2>2, <2>3
  <2>5. f[6 + 3 * n + 2 * r] = ms[r][2]
    BY <2>1, <2>2, <2>3
  <2>. QED  BY <2>4, <2>5
<1>12. Len(f) = 6 + 3 * n + 2 * m + 1 /\ DOMAIN f = 1..Len(f)
  <2>1. Len(f) = 6 + 3 * n + 2 * m + 1
    BY <1>5, <1>6, <1>8
  <2>2. DOMAIN f = 1..Len(f)
    BY <1>8, LenProperties
  <2>. QED  BY <2>1, <2>2
<1>13. f[Len(f)] = l
  BY <1>8
<1>14. \A k \in 1..n : f[4 + 3 * k] = 255 + m + k /\ f[5 + 3 * k] = Len(sps[k]) /\ f[6 + 3 * k] = sps[k]
  BY <1>10
<1>15. \A r \in 1..m : f[5 + 3 * n + 2 * r] = ms[r][1] /\ f[6 + 3 * n + 2 * r] = ms[r][2]
  BY <1>11
<1>16. n = Len(sps) /\ m = Len(ms) /\ l = Fingerprint(ms, sps) /\ f = FileOf(ms, sps)
  BY <1>0 DEF m, l, f
<1> HIDE DEF l, f, m
<1>17. Saved(f, ms, sps)
  BY <1>9, <1>12, <1>13, <1>14, <1>15, <1>16 DEF Saved
<1>. QED  BY <1>16, <1>17

\* What load() reads, and when it accepts it.
MergesIn(f) == [r \in 1..f[5] |-> <<f[6 + 3 * f[6] + 2 * r - 1], f[6 + 3 * f[6] + 2 * r]>>]
SpecialsIn(f) == [k \in 1..f[6] |-> f[4 + 3 * k + 2]]
Accepted(f) ==
  /\ Len(f) >= 6 /\ f[1] = "GTOK" /\ f[2] = 1 /\ f[3] = "pre"
  /\ 256 + f[5] + f[6] = f[4] /\ Len(f) = (6 + 3 * f[6]) + 2 * f[5] + 1
  /\ \A k \in 1..f[6] : /\ f[4 + 3 * k] = 255 + f[5] + k /\ f[4 + 3 * k + 1] = Len(SpecialsIn(f)[k])
                        /\ Len(SpecialsIn(f)[k]) > 0
  /\ \A r \in 1..f[5] : MergesIn(f)[r][1] < 255 + r /\ MergesIn(f)[r][2] < 255 + r
  /\ IsInjective(MergesIn(f)) /\ IsInjective(SpecialsIn(f))
  /\ f[Len(f)] = Fingerprint(MergesIn(f), SpecialsIn(f))

\* load() in those names.
LEMMA LoadIs ==
  ASSUME NEW f
  PROVE  LoadFile(f) = IF Accepted(f) THEN <<MergesIn(f), SpecialsIn(f)>> ELSE "refused"
BY Zenon DEF LoadFile, Accepted, MergesIn, SpecialsIn

\* Specials a tokenizer may have.
Distinct(sps, n) == Named(sps, n) /\ IsInjective(sps) /\ \A k \in 1..n : Len(sps[k]) > 0

\* What was saved is read as it was.
LEMMA ReadBack ==
  ASSUME NEW ms, IsMerges(ms), NEW n, NEW sps, Distinct(sps, n), NEW f, Saved(f, ms, sps)
  PROVE  MergesIn(f) = ms /\ SpecialsIn(f) = sps
<1> DEFINE m == Len(ms)
<1>0. /\ n \in Nat /\ DOMAIN sps = 1..n /\ Len(sps) = n /\ m \in Nat
      /\ f[5] = m /\ f[6] = n
      /\ \A k \in 1..n : f[6 + 3 * k] = sps[k]
      /\ \A r \in 1..m : f[5 + 3 * n + 2 * r] = ms[r][1] /\ f[6 + 3 * n + 2 * r] = ms[r][2]
  BY SpellIs DEF Distinct, Named, Saved
<1>1. /\ DOMAIN ms = 1..m /\ ms = [r \in 1..m |-> ms[r]]
      /\ \A r \in 1..m : ms[r] = <<ms[r][1], ms[r][2]>>
  <2>1. ms \in Seq(Nat \X Nat)
    BY DEF IsMerges
  <2>2. \A r \in 1..Len(ms) : ms[r] = <<ms[r][1], ms[r][2]>>
    <3> DEFINE S == Nat
    <3>1. ms \in Seq(Nat \X Nat) /\ Nat \subseteq S
      BY <2>1
    <3> HIDE DEF S
    <3>. QED  BY <3>1, PairsAreSeqs
  <2> DEFINE P == Nat \X Nat
  <2>3. ms \in Seq(P)
    BY <2>1
  <2> HIDE DEF P
  <2>4. ms \in [1..m -> P]
    BY <2>3, LenProperties
  <2>. QED  BY <2>2, <2>4
<1> HIDE DEF m
<1>2. MergesIn(f) = ms
  <2>1. MergesIn(f) = [r \in 1..m |-> <<f[6 + 3 * n + 2 * r - 1], f[6 + 3 * n + 2 * r]>>]
    BY <1>0 DEF MergesIn
  <2>2. ASSUME NEW r \in 1..m PROVE <<f[6 + 3 * n + 2 * r - 1], f[6 + 3 * n + 2 * r]>> = ms[r]
    <3>1. 6 + 3 * n + 2 * r - 1 = 5 + 3 * n + 2 * r
      BY <1>0
    <3>. QED  BY <1>0, <1>1, <3>1
  <2>3. [r \in 1..m |-> <<f[6 + 3 * n + 2 * r - 1], f[6 + 3 * n + 2 * r]>>] = [r \in 1..m |-> ms[r]]
    BY <2>2
  <2>. QED  BY <1>1, <2>1, <2>3
<1>3. SpecialsIn(f) = sps
  <2>1. SpecialsIn(f) = [k \in 1..n |-> f[4 + 3 * k + 2]]
    BY <1>0 DEF SpecialsIn
  <2>2. ASSUME NEW k \in 1..n PROVE f[4 + 3 * k + 2] = sps[k]
    <3>1. 4 + 3 * k + 2 = 6 + 3 * k
      BY <1>0
    <3>. QED  BY <1>0, <3>1
  <2>3. Len(sps) \in Nat /\ sps = [k \in 1..n |-> sps[k]]
    BY <1>0 DEF Distinct, Named
  <2>. QED  BY <2>1, <2>2, <2>3
<1>. QED  BY <1>2, <1>3

\* A saved file is accepted as what was saved.
LEMMA SavedLoads ==
  ASSUME NEW ms, IsMerges(ms), NEW n, NEW sps, Distinct(sps, n), NEW f, Saved(f, ms, sps)
  PROVE  LoadFile(f) = <<ms, sps>>
<1> DEFINE m == Len(ms)
<1>0. /\ n \in Nat /\ DOMAIN sps = 1..n /\ Len(sps) = n /\ m \in Nat /\ Len(f) = 6 + 3 * n + 2 * m + 1
      /\ f[1] = "GTOK" /\ f[2] = 1 /\ f[3] = "pre" /\ f[4] = 256 + m + n /\ f[5] = m /\ f[6] = n
      /\ \A k \in 1..n : f[4 + 3 * k] = 255 + m + k /\ f[5 + 3 * k] = Len(sps[k])
      /\ f[Len(f)] = Fingerprint(ms, sps)
  BY SpellIs DEF Distinct, Named, Saved
<1>1. MergesIn(f) = ms /\ SpecialsIn(f) = sps
  BY ReadBack
<1>2. \A k \in 1..n : Len(sps[k]) > 0
  BY DEF Distinct
<1>3. \A r \in 1..m : ms[r][1] < 255 + r /\ ms[r][2] < 255 + r
  BY DEF IsMerges
<1>4. IsInjective(ms) /\ IsInjective(sps)
  <2>1. DOMAIN ms = 1..Len(ms)
    <3> DEFINE P == Nat \X Nat
    <3>1. ms \in Seq(P)
      BY DEF IsMerges
    <3> HIDE DEF P
    <3>. QED  BY <3>1, LenProperties
  <2>2. \A r, t \in DOMAIN ms : ms[r] = ms[t] => r = t
    BY <2>1 DEF IsMerges
  <2>. QED  BY <2>2 DEF Distinct, IsInjective
<1> HIDE DEF m
<1>5. \A k \in 1..n : /\ f[4 + 3 * k] = 255 + m + k /\ f[4 + 3 * k + 1] = Len(sps[k]) /\ Len(sps[k]) > 0
  <2> TAKE k \in 1..n
  <2>1. 4 + 3 * k + 1 = 5 + 3 * k
    BY <1>0
  <2>. QED  BY <1>0, <1>2, <2>1
<1>6. Len(f) >= 6 /\ 256 + m + n = f[4] /\ Len(f) = (6 + 3 * n) + 2 * m + 1
  BY <1>0
<1>7. Accepted(f)
  BY <1>0, <1>1, <1>3, <1>4, <1>5, <1>6 DEF Accepted
<1>. QED  BY <1>1, <1>7, LoadIs

\* A file cut short is refused: its fields say how long it is.
LEMMA CutRefused ==
  ASSUME NEW ms, IsMerges(ms), NEW n, NEW sps, Distinct(sps, n), NEW f, Saved(f, ms, sps), NEW k \in 0..(Len(f) - 1)
  PROVE  LoadFile(SubSeq(f, 1, k)) = "refused"
<1> DEFINE m == Len(ms)
           g == SubSeq(f, 1, k)
           S == {f[i] : i \in 1..Len(f)}
<1>0. n \in Nat /\ m \in Nat /\ Len(f) = 6 + 3 * n + 2 * m + 1 /\ f[5] = m /\ f[6] = n
  BY SpellIs DEF Distinct, Named, Saved
<1>1. k \in Nat /\ k < Len(f) /\ 1 \in Int /\ k \in Int
  BY <1>0
<1>2. \A i \in 1..k : f[i] \in S
  BY <1>0, <1>1
<1> HIDE DEF S, m
<1>3. Len(g) = k /\ \A i \in 1..k : g[i] = f[i]
  <2>1. /\ Len(g) = (IF 1 <= k THEN k - 1 + 1 ELSE 0)
        /\ \A i \in 1..(k - 1 + 1) : g[i] = f[1 + i - 1]
    BY <1>1, <1>2, SubSeqProperties
  <2> HIDE DEF g
  <2>. QED  BY <1>1, <2>1
<1> HIDE DEF g
<1>4. ASSUME Accepted(g) PROVE FALSE
  <2>1. Len(g) >= 6 /\ Len(g) = (6 + 3 * g[6]) + 2 * g[5] + 1
    BY <1>4 DEF Accepted
  <2>2. g[5] = m /\ g[6] = n
    BY <1>0, <1>1, <1>3, <2>1
  <2>. QED  BY <1>0, <1>1, <1>3, <2>1, <2>2
<1>5. LoadFile(g) = "refused"
  BY <1>4, LoadIs
<1>. QED  BY <1>5 DEF g

\* f with v in place k.
LEMMA PutIn ==
  ASSUME NEW f, NEW L, L \in Nat, DOMAIN f = 1..L, NEW k \in 1..L, NEW v
  PROVE  /\ Len([f EXCEPT ![k] = v]) = L /\ [f EXCEPT ![k] = v][k] = v
         /\ \A i \in 1..L : i # k => [f EXCEPT ![k] = v][i] = f[i]
<1> DEFINE g == [f EXCEPT ![k] = v]
           S == {g[i] : i \in 1..L}
<1>1. g = [i \in 1..L |-> g[i]] /\ g[k] = v /\ \A i \in 1..L : i # k => g[i] = f[i]
  OBVIOUS
<1> HIDE DEF g
<1>2. g \in [1..L -> S]
  BY <1>1
<1> HIDE DEF S
<1>3. Len(g) = L
  BY <1>2, FunIsSeq
<1>. QED  BY <1>1, <1>3 DEF g

\* k is a place of a special, or of a merge behind n specials.
OfSpecial(n, k) == \E j \in 1..n : k = 4 + 3 * j \/ k = 5 + 3 * j \/ k = 6 + 3 * j
OfMerge(n, m, k) == \E r \in 1..m : k = 5 + 3 * n + 2 * r \/ k = 6 + 3 * n + 2 * r

\* Every place of a file after the head belongs to a special or to a merge.
LEMMA PlacesOf ==
  ASSUME NEW n, NEW m, n \in Nat, m \in Nat, NEW k, k \in 7..(6 + 3 * n + 2 * m)
  PROVE  OfSpecial(n, k) \/ OfMerge(n, m, k)
<1>1. CASE k <= 6 + 3 * n
  <2> DEFINE j == (k - 4) \div 3
  <2>1. j \in 1..n /\ (k = 4 + 3 * j \/ k = 5 + 3 * j \/ k = 6 + 3 * j)
    BY <1>1
  <2>. QED  BY <2>1 DEF OfSpecial
<1>2. CASE k > 6 + 3 * n
  <2> DEFINE r == (k - 5 - 3 * n) \div 2
  <2>1. r \in 1..m /\ (k = 5 + 3 * n + 2 * r \/ k = 6 + 3 * n + 2 * r)
    BY <1>2
  <2>. QED  BY <2>1 DEF OfMerge
<1>. QED  BY <1>1, <1>2

\* A file with one field changed is refused: the field is checked against another or
\* covered by the fingerprint.
LEMMA ChangeRefused ==
  ASSUME NEW ms, IsMerges(ms), NEW n, NEW sps, Distinct(sps, n), NEW f, Saved(f, ms, sps),
         NEW k \in 2..(Len(f) - 1), k # 3, NEW v, v # f[k], k \in {5, 6} => v \in Int
  PROVE  LoadFile([f EXCEPT ![k] = v]) = "refused"
<1> DEFINE m == Len(ms)
           L == Len(f)
           g == [f EXCEPT ![k] = v]
<1>0. /\ n \in Nat /\ m \in Nat /\ L = 6 + 3 * n + 2 * m + 1 /\ DOMAIN f = 1..L
      /\ f[1] = "GTOK" /\ f[2] = 1 /\ f[4] = 256 + m + n /\ f[5] = m /\ f[6] = n
      /\ \A j \in 1..n : f[4 + 3 * j] = 255 + m + j /\ f[5 + 3 * j] = Len(sps[j]) /\ f[6 + 3 * j] = sps[j]
      /\ \A r \in 1..m : f[5 + 3 * n + 2 * r] = ms[r][1] /\ f[6 + 3 * n + 2 * r] = ms[r][2]
      /\ f[L] = Fingerprint(ms, sps)
  BY SpellIs DEF Distinct, Named, Saved
<1> HIDE DEF m, L
<1>k. k \in 2..(L - 1)
  BY DEF L
<1>1. Len(g) = L /\ g[k] = v /\ \A i \in 1..L : i # k => g[i] = f[i]
  <2>1. L \in Nat /\ k \in 1..L
    BY <1>0, <1>k
  <2>. QED  BY <1>0, <2>1, PutIn
<1> HIDE DEF g
<1>2. SUFFICES ASSUME Accepted(g) PROVE FALSE
  <2>1. Accepted(g) \/ ~ Accepted(g)
    OBVIOUS
  <2>2. ASSUME ~ Accepted(g) PROVE LoadFile(g) = "refused"
    BY <2>2, LoadIs
  <2>. QED  BY <2>1, <2>2 DEF g
<1>3. /\ g[2] = 1 /\ 256 + g[5] + g[6] = g[4]
      /\ \A j \in 1..g[6] : g[4 + 3 * j] = 255 + g[5] + j /\ g[4 + 3 * j + 1] = Len(SpecialsIn(g)[j])
      /\ g[L] = Fingerprint(MergesIn(g), SpecialsIn(g))
  BY <1>1, <1>2 DEF Accepted
<1>4. CASE k \in 2..6
  <2>1. CASE k = 2
    BY <1>0, <1>1, <1>3, <2>1
  <2>2. CASE k = 4
    BY <1>0, <1>1, <1>3, <2>2
  <2>3. CASE k = 5
    <3>1. g[6] = n /\ g[4] = 256 + m + n /\ v \in Int /\ v # m
      BY <1>0, <1>1, <2>3
    <3>. QED  BY <1>0, <1>1, <1>3, <2>3, <3>1
  <2>4. CASE k = 6
    <3>1. g[5] = m /\ g[4] = 256 + m + n /\ v \in Int /\ v # n
      BY <1>0, <1>1, <2>4
    <3>. QED  BY <1>0, <1>1, <1>3, <2>4, <3>1
  <2>. QED  BY <1>4, <2>1, <2>2, <2>3, <2>4
<1>5. CASE k \in 7..(6 + 3 * n + 2 * m)
  <2>1. g[5] = m /\ g[6] = n /\ g[L] = f[L]
    <3>1. 5 \in 1..L /\ 6 \in 1..L /\ L \in 1..L /\ k # 5 /\ k # 6 /\ k # L
      BY <1>0, <1>5
    <3>. QED  BY <1>0, <1>1, <3>1
  <2>2. MergesIn(g) = ms /\ SpecialsIn(g) = sps
    <3> DEFINE mg == MergesIn(g)
               sg == SpecialsIn(g)
    <3> HIDE DEF mg, sg
    <3>1. <<"fingerprint", ms, sps>> = <<"fingerprint", mg, sg>>
      BY <1>0, <1>3, <2>1 DEF Fingerprint, mg, sg
    <3>2. ms = mg /\ sps = sg
      BY ONLY <3>1
    <3>. QED  BY <3>2 DEF mg, sg
  <2>3. CASE OfSpecial(n, k)
    <3>1. PICK j \in 1..n : k = 4 + 3 * j \/ k = 5 + 3 * j \/ k = 6 + 3 * j
      BY <2>3 DEF OfSpecial
    <3>2. g[4 + 3 * j] = 255 + m + j /\ g[5 + 3 * j] = Len(sps[j])
      <4>1. 4 + 3 * j + 1 = 5 + 3 * j
        BY <1>0
      <4>. QED  BY <1>3, <2>1, <2>2, <4>1
    <3>3. g[6 + 3 * j] = sps[j]
      <4>1. SpecialsIn(g)[j] = g[4 + 3 * j + 2]
        BY <2>1 DEF SpecialsIn
      <4>2. 4 + 3 * j + 2 = 6 + 3 * j
        BY <1>0
      <4>. QED  BY <2>2, <4>1, <4>2
    <3>4. f[4 + 3 * j] = 255 + m + j /\ f[5 + 3 * j] = Len(sps[j]) /\ f[6 + 3 * j] = sps[j]
      BY <1>0
    <3>5. CASE k = 4 + 3 * j
      BY <1>1, <3>2, <3>4, <3>5
    <3>6. CASE k = 5 + 3 * j
      BY <1>1, <3>2, <3>4, <3>6
    <3>7. CASE k = 6 + 3 * j
      BY <1>1, <3>3, <3>4, <3>7
    <3>. QED  BY <3>1, <3>5, <3>6, <3>7
  <2>4. CASE OfMerge(n, m, k)
    <3>1. PICK r \in 1..m : k = 5 + 3 * n + 2 * r \/ k = 6 + 3 * n + 2 * r
      BY <2>4 DEF OfMerge
    <3> DEFINE x == g[5 + 3 * n + 2 * r]
               y == g[6 + 3 * n + 2 * r]
    <3>2. MergesIn(g)[r] = <<x, y>>
      <4>1. MergesIn(g)[r] = <<g[6 + 3 * n + 2 * r - 1], g[6 + 3 * n + 2 * r]>>
        BY <2>1 DEF MergesIn
      <4>2. 6 + 3 * n + 2 * r - 1 = 5 + 3 * n + 2 * r
        BY <1>0
      <4>. QED  BY <4>1, <4>2
    <3>3. ms[r][1] = x /\ ms[r][2] = y
      <4> HIDE DEF x, y
      <4>1. ms[r] = <<x, y>>
        BY <2>2, <3>2
      <4>. QED  BY <4>1
    <3>4. f[5 + 3 * n + 2 * r] = ms[r][1] /\ f[6 + 3 * n + 2 * r] = ms[r][2]
      BY <1>0
    <3>5. CASE k = 5 + 3 * n + 2 * r
      BY <1>1, <3>3, <3>4, <3>5
    <3>6. CASE k = 6 + 3 * n + 2 * r
      BY <1>1, <3>3, <3>4, <3>6
    <3>. QED  BY <3>1, <3>5, <3>6
  <2>. QED  BY <1>0, <1>5, <2>3, <2>4, PlacesOf
<1>. QED  BY <1>0, <1>k, <1>4, <1>5

\* A field is a number, or the text of a special, which one byte more changes.
FieldIs(f, n, k) ==
  /\ k \notin {6 + 3 * j : j \in 1..n} => f[k] \in Nat
  /\ k \in {6 + 3 * j : j \in 1..n} => k \notin {5, 6} /\ [f[k] EXCEPT ![1] = (@ + 1) % 256] # f[k]

\* What a field is changed to is another value.
LEMMA FieldsDiffer ==
  ASSUME NEW ms, IsMerges(ms), NEW n, NEW sps, Distinct(sps, n), \A k \in 1..n : sps[k] \in Seq(Byte),
         NEW f, Saved(f, ms, sps), NEW k \in 2..(Len(f) - 1), k # 3
  PROVE  FieldIs(f, n, k)
<1> DEFINE m == Len(ms)
<1>0. /\ n \in Nat /\ m \in Nat /\ Len(f) = 6 + 3 * n + 2 * m + 1
      /\ f[2] = 1 /\ f[4] = 256 + m + n /\ f[5] = m /\ f[6] = n
      /\ \A j \in 1..n : f[4 + 3 * j] = 255 + m + j /\ f[5 + 3 * j] = Len(sps[j]) /\ f[6 + 3 * j] = sps[j]
      /\ \A r \in 1..m : f[5 + 3 * n + 2 * r] = ms[r][1] /\ f[6 + 3 * n + 2 * r] = ms[r][2]
      /\ \A j \in 1..n : Len(sps[j]) \in Nat /\ Len(sps[j]) > 0
  BY SpellIs DEF Distinct, Named, Saved
<1>1. \A r \in 1..m : ms[r][1] \in Nat /\ ms[r][2] \in Nat
  <2> DEFINE P == Nat \X Nat
  <2>1. ms \in Seq(P)
    BY DEF IsMerges
  <2> HIDE DEF P
  <2>2. \A r \in 1..m : ms[r] \in P
    BY <2>1, ElementOfSeq
  <2>. QED  BY <2>2 DEF P
<1> HIDE DEF m
<1>2. ASSUME k \notin {6 + 3 * j : j \in 1..n} PROVE f[k] \in Nat
  <2>1. CASE k \in 2..6
    BY <1>0, <2>1
  <2>2. CASE k \in 7..(6 + 3 * n + 2 * m)
    <3>1. CASE OfSpecial(n, k)
      <4>1. PICK j \in 1..n : k = 4 + 3 * j \/ k = 5 + 3 * j \/ k = 6 + 3 * j
        BY <3>1 DEF OfSpecial
      <4>2. k # 6 + 3 * j
        BY <1>2
      <4>3. f[4 + 3 * j] = 255 + m + j /\ f[5 + 3 * j] = Len(sps[j]) /\ Len(sps[j]) \in Nat
        BY <1>0
      <4>4. 255 + m + j \in Nat
        BY <1>0
      <4>. QED  BY <4>1, <4>2, <4>3, <4>4
    <3>2. CASE OfMerge(n, m, k)
      <4>1. PICK r \in 1..m : k = 5 + 3 * n + 2 * r \/ k = 6 + 3 * n + 2 * r
        BY <3>2 DEF OfMerge
      <4>2. f[5 + 3 * n + 2 * r] = ms[r][1] /\ f[6 + 3 * n + 2 * r] = ms[r][2]
        BY <1>0
      <4>3. ms[r][1] \in Nat /\ ms[r][2] \in Nat
        BY <1>1
      <4>. QED  BY <4>1, <4>2, <4>3
    <3>. QED  BY <1>0, <2>2, <3>1, <3>2, PlacesOf
  <2>3. k \in 2..6 \/ k \in 7..(6 + 3 * n + 2 * m)
    BY <1>0
  <2>. QED  BY <2>1, <2>2, <2>3
<1>3. ASSUME k \in {6 + 3 * j : j \in 1..n} PROVE k \notin {5, 6} /\ [f[k] EXCEPT ![1] = (@ + 1) % 256] # f[k]
  <2>1. PICK j \in 1..n : k = 6 + 3 * j
    BY <1>3
  <2> DEFINE s == f[k]
             b == s[1]
             c == (b + 1) % 256
  <2>2. s = sps[j] /\ s \in Seq(Byte) /\ Len(s) \in Nat /\ Len(s) > 0
    BY <1>0, <2>1
  <2> HIDE DEF s
  <2>3. 1 \in 1..Len(s)
    BY <2>2
  <2>4. b \in Byte /\ DOMAIN s = 1..Len(s)
    BY <2>2, <2>3, ElementOfSeq, LenProperties
  <2>5. c # b
    <3> HIDE DEF b
    <3>1. b \in 0..255
      BY <2>4 DEF Byte
    <3>2. CASE b = 255
      BY <3>2
    <3>3. CASE b # 255
      <4> DEFINE w == b + 1
      <4>1. w \in 0..255 /\ w # b
        BY <3>1, <3>3
      <4> HIDE DEF w
      <4>2. w % 256 = w
        BY <4>1
      <4>. QED  BY <4>1, <4>2 DEF w
    <3>. QED  BY <3>1, <3>2, <3>3
  <2> DEFINE t == [s EXCEPT ![1] = c]
  <2>6. t[1] = c
    BY <2>3, <2>4
  <2>7. t # s
    BY <2>5, <2>6
  <2>8. k \notin {5, 6}
    BY <1>0, <2>1
  <2>. QED  BY <2>7, <2>8 DEF s
<1>. QED  BY <1>2, <1>3 DEF FieldIs

\* The specials of the configuration are such specials.
LEMMA SpecialsDistinct == Distinct(Specials, Len(Specials))
<1> DEFINE T == Seq(Byte) \ {<<>>}
           n == Len(Specials)
<1>1. Specials \in Seq(T) /\ IsInjective(Specials)
  BY ByteBpeAssumption
<1> HIDE DEF T
<1>2. n \in Nat /\ Specials \in [1..n -> T]
  BY <1>1, LenProperties
<1>3. \A k \in 1..n : Len(Specials[k]) \in Nat /\ Len(Specials[k]) > 0
  BY SpecialsAre
<1>. QED  BY <1>1, <1>2, <1>3 DEF Distinct, Named

\* A tokenizer file (save) loads as what was saved; cut short, or with a field changed,
\* it is refused (load).
THEOREM FilesLoadAsSaved == Spec => []FileIsExact
<1>1. LearnInv => FileIsExact
  <2> SUFFICES ASSUME LearnInv PROVE FileIsExact
    OBVIOUS
  <2> DEFINE file == FileOf(merges, Specials)
             n == Len(Specials)
  <2>1. IsMerges(merges) /\ merges \in Seq(Nat \X Nat)
    BY DEF LearnInv, IsMerges
  <2>2. Distinct(Specials, n) /\ DOMAIN Specials = 1..n /\ \A k \in 1..n : Specials[k] \in Seq(Byte)
    BY SpecialsDistinct, SpecialsAre
  <2>3. Saved(file, merges, Specials)
    BY <2>1, <2>2, FileHas DEF Distinct
  <2> HIDE DEF n
  <2>4. LoadFile(file) = <<merges, Specials>>
    <3> HIDE DEF file
    <3>. QED  BY <2>1, <2>2, <2>3, SavedLoads
  <2>5. \A i \in 0..(Len(file) - 1) : LoadFile(SubSeq(file, 1, i)) = "refused"
    <3> HIDE DEF file
    <3>. QED  BY <2>1, <2>2, <2>3, CutRefused
  <2> DEFINE texts == {6 + 3 * k : k \in DOMAIN Specials}
             others(k) == IF k \in texts THEN {[file[k] EXCEPT ![1] = (@ + 1) % 256]}
                          ELSE {file[k] + 1} \cup (IF file[k] > 0 THEN {file[k] - 1} ELSE {})
  <2>6. ASSUME NEW k \in 2..(Len(file) - 1) \ {3}, NEW v \in others(k) PROVE LoadFile([file EXCEPT ![k] = v]) = "refused"
    <3> HIDE DEF file
    <3>1. /\ k \notin {6 + 3 * j : j \in 1..n} => file[k] \in Nat
          /\ k \in {6 + 3 * j : j \in 1..n} => k \notin {5, 6} /\ [file[k] EXCEPT ![1] = (@ + 1) % 256] # file[k]
      <4>1. k \in 2..(Len(file) - 1) /\ k # 3
        BY <2>6
      <4>2. FieldIs(file, n, k)
        BY <2>1, <2>2, <2>3, <4>1, FieldsDiffer
      <4>. QED  BY <4>2 DEF FieldIs
    <3>2. texts = {6 + 3 * j : j \in 1..n}
      BY <2>2
    <3> HIDE DEF texts
    <3>3. CASE k \in texts
      <4>1. v = [file[k] EXCEPT ![1] = (@ + 1) % 256]
        BY <2>6, <3>3
      <4>2. v # file[k] /\ k \notin {5, 6}
        BY <3>1, <3>2, <3>3, <4>1
      <4>. QED  BY <2>1, <2>2, <2>3, <4>2, ChangeRefused
    <3>4. CASE k \notin texts
      <4>1. file[k] \in Nat
        BY <3>1, <3>2, <3>4
      <4>2. v = file[k] + 1 \/ v = file[k] - 1
        BY <2>6, <3>4
      <4>3. v \in Int /\ v # file[k]
        <5> DEFINE w == file[k]
        <5>1. w \in Nat /\ (v = w + 1 \/ v = w - 1)
          BY <4>1, <4>2
        <5> HIDE DEF w
        <5>2. v \in Int /\ v # w
          BY <5>1
        <5>. QED  BY <5>2 DEF w
      <4>. QED  BY <2>1, <2>2, <2>3, <4>3, ChangeRefused
    <3>. QED  BY <3>3, <3>4
  <2>. QED  BY <2>4, <2>5, <2>6, Zenon DEF FileIsExact
<1>. QED  BY <1>1, LearningIsTrue, PTL
=============================================================================
