--------------------------- MODULE TextPathProofs ---------------------------
(***************************************************************************)
(* Proofs about the way of a text to ids and back, with either tokenizer,  *)
(* for every text, list of specials, number of merges, size of a chunk,    *)
(* context length, number of tokens, penalty window, filter and prompt. A  *)
(* text encoded in chunks has the ids of the whole; a call that generates  *)
(* ends where the code means it to, and what it samples survived both      *)
(* filters, which rank ids (Sorted) and add up probabilities (SumOf), a    *)
(* recursion over the subsets of a finite set; that both are what they     *)
(* should be takes an induction over the naturals and the pigeonhole       *)
(* principle. The first tokenizer keeps V1Inv, whatever becomes of its     *)
(* pair counts: it encodes as it was trained, decodes what it encoded, and *)
(* its file too loads as what was saved or not at all.                     *)
(***************************************************************************)
EXTENDS TextPath, ByteBpeProofs
-----------------------------------------------------------------------------
(* A text within a text: what the matcher does there.                      *)

\* The bytes of u are those of t behind the first o.
Within(u, t, o) ==
  /\ u \in Seq(Byte) /\ t \in Seq(Byte) /\ o \in Nat
  /\ o + Len(u) <= Len(t) /\ \A q \in 1..Len(u) : u[q] = t[o + q]

\* u goes to the end of t or ends with a byte that no code point goes on over.
Flush(u, t, o) == o + Len(u) = Len(t) \/ (Len(u) > 0 /\ u[Len(u)] < 128)

\* A part of a text is a window on it.
LEMMA WindowIs ==
  ASSUME NEW t, t \in Seq(Byte), NEW a, NEW b, a \in 1..(Len(t) + 1), b \in (a - 1)..Len(t)
  PROVE  Within(SubSeq(t, a, b), t, a - 1) /\ Len(SubSeq(t, a, b)) = b - a + 1
<1> DEFINE n == Len(t)
           u == SubSeq(t, a, b)
<1>1. n \in Nat /\ \A j \in 1..n : t[j] \in Byte
  BY LenProperties, ElementOfSeq
<1>2. a \in Int /\ b \in Int /\ a \in Nat /\ b \in Nat /\ a >= 1 /\ b >= a - 1 /\ b <= n
  BY <1>1
<1>3. \A j \in a..b : t[j] \in Byte
  <2> HIDE DEF n
  <2>. QED  BY <1>1, <1>2
<1>4. u \in Seq(Byte) /\ Len(u) = (IF a <= b THEN b - a + 1 ELSE 0) /\ \A i \in 1..(b - a + 1) : u[i] = t[a + i - 1]
  BY <1>2, <1>3, SubSeqProperties
<1> HIDE DEF n, u
<1>5. Len(u) = b - a + 1
  BY <1>2, <1>4
<1>6. \A q \in 1..Len(u) : u[q] = t[(a - 1) + q]
  <2> TAKE q \in 1..Len(u)
  <2>1. q \in 1..(b - a + 1)
    BY <1>5
  <2>2. a + q - 1 = (a - 1) + q
    BY <1>2, <2>1
  <2>. QED  BY <1>4, <2>1, <2>2
<1>7. (a - 1) \in Nat /\ (a - 1) + Len(u) <= n
  BY <1>1, <1>2, <1>5
<1>. QED  BY <1>4, <1>5, <1>6, <1>7 DEF Within, u, n

\* A window has a length.
LEMMA WindowLen ==
  ASSUME NEW u, NEW t, NEW o, Within(u, t, o)
  PROVE  /\ Len(u) \in Nat /\ Len(t) \in Nat /\ o \in Nat /\ o + Len(u) <= Len(t)
         /\ u \in Seq(Byte) /\ t \in Seq(Byte)
BY LenProperties DEF Within

\* From a to b u is what t is behind o.
SamePart(u, t, o, a, b) == SubSeq(u, a, b) = SubSeq(t, o + a, o + b)

\* The same part of both is the same.
LEMMA WindowPart ==
  ASSUME NEW u, NEW t, NEW o, Within(u, t, o), NEW a, NEW b, a \in 1..(Len(u) + 1), b \in (a - 1)..Len(u)
  PROVE  SamePart(u, t, o, a, b)
<1> DEFINE x == SubSeq(u, a, b)
           c == o + a
           d == o + b
           y == SubSeq(t, c, d)
<1>1. Len(u) \in Nat /\ Len(t) \in Nat /\ o \in Nat /\ o + Len(u) <= Len(t) /\ u \in Seq(Byte) /\ t \in Seq(Byte)
  BY WindowLen
<1>2. c \in 1..(Len(t) + 1) /\ d \in (c - 1)..Len(t) /\ d - c = b - a /\ c - 1 = o + (a - 1)
  BY <1>1
<1>3. Within(x, u, a - 1) /\ Len(x) = b - a + 1
  BY <1>1, WindowIs
<1> HIDE DEF c, d
<1>4. Within(y, t, c - 1) /\ Len(y) = d - c + 1
  BY <1>1, <1>2, WindowIs
<1> HIDE DEF x, y
<1>5. a \in Int /\ b \in Int /\ c \in Int /\ d \in Int
  BY <1>1, <1>2 DEF c, d
<1>6. Len(x) = Len(y)
  BY <1>2, <1>3, <1>4, <1>5
<1>7. \A i \in 1..Len(x) : x[i] = y[i]
  <2> TAKE i \in 1..Len(x)
  <2>1. x[i] = u[(a - 1) + i] /\ y[i] = t[(c - 1) + i]
    BY <1>3, <1>4, <1>6 DEF Within
  <2>2. (a - 1) + i \in 1..Len(u) /\ (c - 1) + i = o + ((a - 1) + i)
    BY <1>1, <1>2, <1>3, <1>5
  <2>3. u[(a - 1) + i] = t[o + ((a - 1) + i)]
    BY <2>2 DEF Within
  <2>. QED  BY <2>1, <2>2, <2>3
<1>8. x \in Seq(Byte) /\ y \in Seq(Byte)
  BY <1>3, <1>4 DEF Within
<1>9. x = y
  BY <1>6, <1>7, <1>8, SeqEqual
<1>. QED  BY <1>9 DEF SamePart, x, y, c, d

\* Whether the code point at p has all of its bytes, and which it is.
WholeAt(text, p) ==
  /\ LeadLength(text[p]) > 0 /\ p + LeadLength(text[p]) - 1 <= Len(text) /\ text[p + 1] \in SecondBytes(text[p])
  /\ \A k \in 2..(LeadLength(text[p]) - 1) : text[p + k] \in 128..191
CodeAt(text, p) ==
  CASE LeadLength(text[p]) = 2 -> (text[p] - 192) * 64 + (text[p + 1] - 128)
    [] LeadLength(text[p]) = 3 -> ((text[p] - 224) * 64 + (text[p + 1] - 128)) * 64 + (text[p + 2] - 128)
    [] OTHER -> (((text[p] - 240) * 64 + (text[p + 1] - 128)) * 64 + (text[p + 2] - 128)) * 64 + (text[p + 3] - 128)

\* decode(), case by case.
LEMMA DecodeCases ==
  ASSUME NEW text, NEW p
  PROVE  /\ text[p] < 128 => DecodeAt(text, p) = [length |-> 1, cls |-> AsciiClass(text[p])]
         /\ ~ (text[p] < 128) /\ ~ WholeAt(text, p) => DecodeAt(text, p) = [length |-> 1, cls |-> "other"]
         /\ ~ (text[p] < 128) /\ WholeAt(text, p) =>
              DecodeAt(text, p) = [length |-> LeadLength(text[p]), cls |-> Classify(CodeAt(text, p))]
<1>1. DecodeAt(text, p) = IF text[p] < 128 THEN [length |-> 1, cls |-> AsciiClass(text[p])]
                          ELSE IF ~ WholeAt(text, p) THEN [length |-> 1, cls |-> "other"]
                          ELSE [length |-> LeadLength(text[p]), cls |-> Classify(CodeAt(text, p))]
  BY Zenon DEF DecodeAt, WholeAt, CodeAt
<1>. QED  BY <1>1

\* The bytes behind a lead byte are no ASCII.
LEMMA TailBytes ==
  ASSUME NEW text, NEW p, p \in Nat, WholeAt(text, p), NEW b, b \in (p + 1)..(p + LeadLength(text[p]) - 1)
  PROVE  ~ (text[b] < 128) /\ LeadLength(text[p]) \in {2, 3, 4}
<1> DEFINE n == LeadLength(text[p])
<1>1. n \in {0, 2, 3, 4} /\ n > 0
  BY DEF LeadLength, WholeAt
<1>2. text[p + 1] \in SecondBytes(text[p]) /\ \A k \in 2..(n - 1) : text[p + k] \in 128..191
  BY DEF WholeAt
<1>3. SecondBytes(text[p]) \subseteq 128..191
  BY DEF SecondBytes
<1> DEFINE k == b - p
<1> HIDE DEF n
<1>4. k \in 1..(n - 1) /\ b = p + k
  BY <1>1 DEF n
<1>5. text[b] \in 128..191
  <2>1. CASE k = 1
    BY <1>2, <1>3, <1>4, <2>1
  <2>2. CASE k # 1
    <3>1. k \in 2..(n - 1)
      BY <1>1, <1>4, <2>2
    <3>. QED  BY <1>2, <1>4, <3>1
  <2>. QED  BY <2>1, <2>2
<1>6. ~ (text[b] < 128)
  BY <1>5
<1>. QED  BY <1>1, <1>6 DEF n

\* No code point goes on over an ASCII byte.
LEMMA AsciiStands ==
  ASSUME NEW u, u \in Seq(Byte), NEW a, NEW b, a \in 1..Len(u), b \in (a + 1)..Len(u), u[b] < 128
  PROVE  After(u, a) <= b
<1>1. Len(u) \in Nat
  BY LenProperties
<1>2. a \in Nat /\ b \in Nat /\ a + 1 <= b
  BY <1>1
<1>3. After(u, a) = a + DecodeAt(u, a).length
  BY DEF After
<1>4. CASE u[a] < 128 \/ ~ WholeAt(u, a)
  <2>1. DecodeAt(u, a).length = 1
    BY <1>4, DecodeCases
  <2>. QED  BY <1>2, <1>3, <2>1
<1>5. CASE ~ (u[a] < 128) /\ WholeAt(u, a)
  <2> DEFINE n == LeadLength(u[a])
  <2>1. DecodeAt(u, a).length = n
    BY <1>5, DecodeCases
  <2>2. n \in {0, 2, 3, 4}
    BY DEF LeadLength
  <2> HIDE DEF n
  <2>3. ASSUME ~ (a + n <= b) PROVE FALSE
    <3>1. b \in (a + 1)..(a + n - 1)
      BY <1>2, <2>2, <2>3
    <3>2. ~ (u[b] < 128)
      BY <1>2, <1>5, <3>1, TailBytes DEF n
    <3>. QED  BY <3>2
  <2>. QED  BY <1>3, <2>1, <2>3
<1>. QED  BY <1>4, <1>5

\* A code point of a window is that of the text, or is cut by the window's end.
LEMMA DecodeWithin ==
  ASSUME NEW u, NEW t, NEW o, Within(u, t, o), NEW q, q \in 1..Len(u)
  PROVE  /\ DecodeAt(u, q) = DecodeAt(t, o + q) \/ DecodeAt(u, q).cls = "other"
         /\ Flush(u, t, o) => DecodeAt(u, q) = DecodeAt(t, o + q)
<1> DEFINE b == u[q]
           n == LeadLength(b)
           r == o + q
<1>1. Len(u) \in Nat /\ Len(t) \in Nat /\ o \in Nat /\ o + Len(u) <= Len(t)
  BY WindowLen
<1>2. q \in Nat /\ r \in Nat /\ t[r] = b
  BY <1>1 DEF Within
<1>3. n \in {0, 2, 3, 4}
  BY DEF LeadLength
<1>4. \A k \in 0..3 : q + k <= Len(u) => u[q + k] = t[r + k]
  <2> SUFFICES ASSUME NEW k \in 0..3, q + k <= Len(u) PROVE u[q + k] = t[r + k]
    OBVIOUS
  <2>1. q + k \in 1..Len(u) /\ o + (q + k) = r + k
    BY <1>1, <1>2
  <2>2. u[q + k] = t[o + (q + k)]
    BY <2>1 DEF Within
  <2>. QED  BY <2>1, <2>2
<1> HIDE DEF b, n, r
<1>5. CASE b < 128
  <2>1. DecodeAt(u, q) = [length |-> 1, cls |-> AsciiClass(b)] /\ DecodeAt(t, r) = [length |-> 1, cls |-> AsciiClass(b)]
    BY <1>2, <1>5, DecodeCases DEF b
  <2>. QED  BY <2>1 DEF r
<1>6. CASE ~ (b < 128) /\ q + n - 1 <= Len(u) /\ n > 0
  <2>1. \A k \in 0..(n - 1) : u[q + k] = t[r + k]
    <3> TAKE k \in 0..(n - 1)
    <3>1. k \in 0..3 /\ q + k <= Len(u)
      BY <1>1, <1>2, <1>3, <1>6
    <3>. QED  BY <1>4, <3>1
  <2>2. WholeAt(u, q) <=> WholeAt(t, r)
    <3>1. q + n - 1 <= Len(u) /\ r + n - 1 <= Len(t)
      BY <1>1, <1>2, <1>3, <1>6 DEF r
    <3>2. u[q + 1] = t[r + 1]
      <4>1. 1 \in 0..(n - 1)
        BY <1>3, <1>6
      <4>. QED  BY <2>1, <4>1
    <3>3. \A k \in 2..(n - 1) : u[q + k] = t[r + k]
      <4>1. \A k \in 2..(n - 1) : k \in 0..(n - 1)
        BY <1>3
      <4>. QED  BY <2>1, <4>1
    <3>4. WholeAt(u, q) <=> u[q + 1] \in SecondBytes(b) /\ \A k \in 2..(n - 1) : u[q + k] \in 128..191
      BY <1>6, <3>1, Zenon DEF WholeAt, n, b
    <3>5. WholeAt(t, r) <=> t[r + 1] \in SecondBytes(b) /\ \A k \in 2..(n - 1) : t[r + k] \in 128..191
      BY <1>2, <1>6, <3>1, Zenon DEF WholeAt, n
    <3>. QED  BY <3>2, <3>3, <3>4, <3>5
  <2>3. CodeAt(u, q) = CodeAt(t, r)
    <3>1. n = 2 \/ n = 3 \/ n = 4
      BY <1>3, <1>6
    <3>2. CASE n = 2
      <4>1. 1 \in 0..(n - 1)
        BY <3>2
      <4>2. u[q + 1] = t[r + 1]
        BY <2>1, <4>1
      <4>. QED  BY <1>2, <3>2, <4>2 DEF CodeAt, n, b
    <3>3. CASE n = 3
      <4>1. 1 \in 0..(n - 1) /\ 2 \in 0..(n - 1)
        BY <3>3
      <4>2. u[q + 1] = t[r + 1] /\ u[q + 2] = t[r + 2]
        BY <2>1, <4>1
      <4>. QED  BY <1>2, <3>3, <4>2 DEF CodeAt, n, b
    <3>4. CASE n = 4
      <4>1. 1 \in 0..(n - 1) /\ 2 \in 0..(n - 1) /\ 3 \in 0..(n - 1)
        BY <3>4
      <4>2. u[q + 1] = t[r + 1] /\ u[q + 2] = t[r + 2] /\ u[q + 3] = t[r + 3]
        BY <2>1, <4>1
      <4>. QED  BY <1>2, <3>4, <4>2 DEF CodeAt, n, b
    <3>. QED  BY <3>1, <3>2, <3>3, <3>4
  <2>4. CASE WholeAt(u, q)
    <3>1. DecodeAt(u, q) = [length |-> n, cls |-> Classify(CodeAt(u, q))]
      BY <1>6, <2>4, DecodeCases DEF n, b
    <3>2. DecodeAt(t, r) = [length |-> n, cls |-> Classify(CodeAt(t, r))]
      BY <1>2, <1>6, <2>2, <2>4, DecodeCases DEF n
    <3>. QED  BY <2>3, <3>1, <3>2 DEF r
  <2>5. CASE ~ WholeAt(u, q)
    <3>1. DecodeAt(u, q) = [length |-> 1, cls |-> "other"] /\ DecodeAt(t, r) = [length |-> 1, cls |-> "other"]
      BY <1>2, <1>6, <2>2, <2>5, DecodeCases DEF b
    <3>. QED  BY <3>1 DEF r
  <2>. QED  BY <2>4, <2>5
<1>7. CASE ~ (b < 128) /\ ~ (q + n - 1 <= Len(u) /\ n > 0)
  <2>1. ~ WholeAt(u, q)
    BY <1>7 DEF WholeAt, n, b
  <2>2. DecodeAt(u, q) = [length |-> 1, cls |-> "other"]
    BY <1>7, <2>1, DecodeCases DEF b
  <2>3. CASE ~ WholeAt(t, r)
    <3>1. DecodeAt(t, r) = [length |-> 1, cls |-> "other"]
      BY <1>2, <1>7, <2>3, DecodeCases
    <3>. QED  BY <2>2, <3>1 DEF r
  <2>4. CASE WholeAt(t, r)
    <3>1. n > 0 /\ r + n - 1 <= Len(t)
      BY <1>2, <2>4 DEF WholeAt, n
    <3>2. ~ (q + n - 1 <= Len(u))
      BY <1>7, <3>1
    <3>3. ~ (o + Len(u) = Len(t))
      BY <1>1, <1>2, <1>3, <3>1, <3>2 DEF r
    <3>4. ~ (Len(u) > 0 /\ u[Len(u)] < 128)
      <4> SUFFICES ASSUME u[Len(u)] < 128 PROVE FALSE
        OBVIOUS
      <4> DEFINE k == Len(u) - q
      <4>1. k \in Nat /\ k < n - 1 /\ k \in 0..3 /\ q + k = Len(u)
        BY <1>1, <1>2, <1>3, <3>2
      <4>2. t[r + k] = u[Len(u)]
        <5> HIDE DEF k
        <5>1. u[q + k] = t[r + k]
          BY <1>1, <1>4, <4>1
        <5>. QED  BY <4>1, <5>1
      <4> HIDE DEF k
      <4>3. CASE k = 0
        <5>1. q = Len(u)
          BY <1>1, <1>2, <4>1, <4>3
        <5>. QED  BY <1>7, <5>1 DEF b
      <4>4. CASE k # 0
        <5> DEFINE c == r + k
        <5>1. c \in (r + 1)..(r + n - 1)
          BY <1>2, <1>3, <4>1, <4>4
        <5> HIDE DEF c
        <5>2. ~ (t[c] < 128)
          BY <1>2, <2>4, <5>1, TailBytes DEF n
        <5>. QED  BY <4>2, <5>2 DEF c
      <4>. QED  BY <4>3, <4>4
    <3>. QED  BY <2>2, <3>3, <3>4 DEF Flush
  <2>. QED  BY <2>3, <2>4
<1>. QED  BY <1>5, <1>6, <1>7

\* A code point of a window that is flush, its class, its end.
LEMMA InWithin ==
  ASSUME NEW u, NEW t, NEW o, Within(u, t, o), Flush(u, t, o), NEW q, q \in 1..Len(u)
  PROVE  /\ \A C : In(u, q, C) <=> In(t, o + q, C)
         /\ DecodeAt(u, q) = DecodeAt(t, o + q)
         /\ After(t, o + q) = o + After(u, q) /\ After(u, q) \in (q + 1)..(Len(u) + 1)
         /\ o + q \in 1..Len(t)
<1>1. Len(u) \in Nat /\ Len(t) \in Nat /\ o \in Nat /\ o + Len(u) <= Len(t) /\ u \in Seq(Byte)
  BY WindowLen
<1>2. DecodeAt(u, q) = DecodeAt(t, o + q)
  BY DecodeWithin
<1>3. q <= Len(u) /\ o + q <= Len(t) /\ o + q \in 1..Len(t) /\ q \in Nat
  BY <1>1
<1>4. \A C : In(u, q, C) <=> In(t, o + q, C)
  BY <1>2, <1>3 DEF In
<1> DEFINE l == DecodeAt(u, q).length
<1>5. l \in Nat
  BY <1>1, DecodeIs
<1>6. After(u, q) = q + l /\ After(t, o + q) = (o + q) + l
  BY <1>2 DEF After
<1>7. After(u, q) \in (q + 1)..(Len(u) + 1)
  BY <1>1, AfterIs
<1> HIDE DEF l
<1>8. (o + q) + l = o + (q + l)
  BY <1>1, <1>3, <1>5
<1>. QED  BY <1>2, <1>3, <1>4, <1>6, <1>7, <1>8

\* Behind the window: nothing of class cls, which at the end of a text there never is.
Past(u, t, o, cls) == ~ In(t, o + Len(u) + 1, {cls})

\* A run that ends in the window, or with it, ends there in the text.
LEMMA RunWithin ==
  ASSUME NEW u, NEW t, NEW o, Within(u, t, o), Flush(u, t, o), NEW cls, NEW a, a \in 1..(Len(u) + 1),
         RunEnd(u, a, cls) <= Len(u) \/ Past(u, t, o, cls)
  PROVE  RunEnd(t, o + a, cls) = o + RunEnd(u, a, cls)
<1> DEFINE n == Len(u)
           Good(b) == (RunEnd(u, b, cls) <= n \/ Past(u, t, o, cls)) => RunEnd(t, o + b, cls) = o + RunEnd(u, b, cls)
           K == {b \in 1..(n + 1) : Good(b)}
<1>1. n \in Nat /\ Len(t) \in Nat /\ o \in Nat /\ o + n <= Len(t) /\ u \in Seq(Byte) /\ t \in Seq(Byte)
  BY WindowLen
<1>2. Good(n + 1)
  <2> DEFINE e == n + 1
  <2>1. e \in 1..(n + 1) /\ o + e \in 1..(Len(t) + 1) /\ ~ (e \in 1..n) /\ ~ (e <= n) /\ o + e = o + n + 1
    BY <1>1
  <2>2. ~ In(u, e, {cls})
    BY <1>1, <2>1, InIs
  <2>3. RunEnd(u, e, cls) = e
    BY <1>1, <2>1, <2>2, RunEndIs
  <2>4. ASSUME Past(u, t, o, cls) PROVE RunEnd(t, o + e, cls) = o + e
    <3>1. ~ In(t, o + e, {cls})
      BY <2>1, <2>4 DEF Past
    <3> HIDE DEF e
    <3>. QED  BY <1>1, <2>1, <3>1, RunEndIs
  <2> HIDE DEF e, n
  <2>5. Good(e)
    BY <2>1, <2>3, <2>4
  <2>. QED  BY <2>5 DEF e
<1>3. ASSUME NEW b \in 1..n, \A c \in (b + 1)..(n + 1) : c \in K PROVE Good(b)
  <2> DEFINE c == After(u, b)
  <2>1. /\ In(u, b, {cls}) <=> In(t, o + b, {cls})
        /\ After(t, o + b) = o + c /\ c \in (b + 1)..(n + 1) /\ o + b \in 1..Len(t)
    BY InWithin
  <2>2. b \in 1..(n + 1) /\ o + b \in 1..(Len(t) + 1)
    BY <1>1
  <2>3. CASE In(u, b, {cls})
    <3>1. RunEnd(u, c, cls) = RunEnd(u, b, cls)
      BY <1>1, <2>2, <2>3, RunEndOn
    <3>2. RunEnd(t, After(t, o + b), cls) = RunEnd(t, o + b, cls)
      BY <1>1, <2>1, <2>2, <2>3, RunEndOn
    <3>3. Good(c)
      BY <1>3, <2>1
    <3> HIDE DEF c
    <3>. QED  BY <2>1, <3>1, <3>2, <3>3
  <2>4. CASE ~ In(u, b, {cls})
    <3>1. RunEnd(u, b, cls) = b
      BY <1>1, <2>2, <2>4, RunEndIs
    <3>2. RunEnd(t, o + b, cls) = o + b
      BY <1>1, <2>1, <2>2, <2>4, RunEndIs
    <3>. QED  BY <3>1, <3>2
  <2>. QED  BY <2>3, <2>4
<1>4. \A b \in 1..(n + 1) : b \in K
  <2> HIDE DEF Good
  <2>1. n + 1 \in K
    BY <1>1, <1>2
  <2>2. \A b \in 1..n : (\A c \in (b + 1)..(n + 1) : c \in K) => b \in K
    <3>1. \A b \in 1..n : b \in 1..(n + 1)
      BY <1>1
    <3>. QED  BY <1>3, <3>1
  <2> HIDE DEF K, n
  <2>. QED  BY <1>1, <2>1, <2>2, Downward
<1>5. Good(a)
  <2> HIDE DEF Good
  <2>. QED  BY <1>4
<1>. QED  BY <1>5

\* A run of another class stops at an ASCII byte.
LEMMA RunStops ==
  ASSUME NEW u, u \in Seq(Byte), NEW cls, NEW b, b \in 1..Len(u), u[b] < 128, AsciiClass(u[b]) # cls,
         NEW a, a \in 1..b
  PROVE  RunEnd(u, a, cls) <= b
<1> DEFINE K == {c \in 1..(b + 1) : c <= b => RunEnd(u, c, cls) <= b}
<1>1. Len(u) \in Nat /\ b \in Nat /\ b <= Len(u)
  BY LenProperties
<1>2. DecodeAt(u, b).cls # cls
  BY DecodeCases
<1>3. b + 1 \in K
  BY <1>1
<1>4. ASSUME NEW c \in 1..b, \A d \in (c + 1)..(b + 1) : d \in K PROVE c \in K
  <2>1. c \in 1..(Len(u) + 1) /\ c \in 1..Len(u) /\ c \in 1..(b + 1) /\ c <= b
    BY <1>1
  <2>2. CASE ~ In(u, c, {cls})
    <3>1. RunEnd(u, c, cls) = c
      BY <2>1, <2>2, RunEndIs
    <3>. QED  BY <2>1, <3>1
  <2>3. CASE In(u, c, {cls})
    <3>1. c # b
      BY <1>2, <2>1, <2>3, InIs
    <3>2. b \in (c + 1)..Len(u)
      BY <1>1, <2>1, <3>1
    <3>3. After(u, c) <= b /\ After(u, c) \in (c + 1)..(Len(u) + 1)
      BY <2>1, <3>2, AsciiStands, AfterIs
    <3>4. RunEnd(u, After(u, c), cls) = RunEnd(u, c, cls)
      BY <2>1, <2>3, RunEndOn
    <3> DEFINE d == After(u, c)
    <3>5. d <= b /\ d \in (c + 1)..(Len(u) + 1)
      BY <3>3
    <3> HIDE DEF d
    <3>6. d \in (c + 1)..(b + 1)
      BY <1>1, <2>1, <3>5
    <3>7. RunEnd(u, d, cls) <= b
      BY <1>4, <3>5, <3>6
    <3>. QED  BY <2>1, <3>4, <3>7 DEF d
  <2>. QED  BY <2>2, <2>3
<1>5. \A c \in 1..(b + 1) : c \in K
  <2> HIDE DEF K
  <2>. QED  BY <1>1, <1>3, <1>4, Downward
<1>6. a \in 1..(b + 1) /\ a <= b
  BY <1>1
<1>. QED  BY <1>5, <1>6

\* The last whitespace from q on, by one step.
LEMMA LastOn ==
  ASSUME NEW u, u \in Seq(Byte), NEW a, a \in 1..Len(u)
  PROVE  /\ In(u, After(u, a), {"space"}) => LastOfRun(u, After(u, a)) = LastOfRun(u, a)
         /\ ~ In(u, After(u, a), {"space"}) => LastOfRun(u, a) = a
<1> DEFINE step == LastStep(u)
           n == Len(u)
           J == 1..n
           z == Repeat(step, n, a)
           b == After(u, a)
<1>0. n \in Nat /\ a \in Nat /\ a \in J /\ J \in SUBSET Nat
  BY LenProperties
<1>1. ASSUME NEW q \in J
      PROVE q \in 1..(n + 1) /\ step[q] \in J /\ (step[q] = q \/ step[q] > q)
  <2>1. After(u, q) \in (q + 1)..(n + 1)
    BY AfterIs
  <2>2. step[q] = IF In(u, After(u, q), {"space"}) THEN After(u, q) ELSE q
    BY <1>0, Zenon DEF LastStep
  <2> DEFINE d == After(u, q)
  <2>3. In(u, d, {"space"}) => d <= n
    BY DEF In
  <2> HIDE DEF d, step, n
  <2>. QED  BY <1>0, <2>1, <2>2, <2>3 DEF d
<1>2. z \in J /\ step[z] = z
  <2> HIDE DEF step, J, n
  <2>1. \A q \in J : q \in 1..(n + 1) /\ step[q] \in J /\ (step[q] = q \/ step[q] > q)
    BY <1>1
  <2>. QED  BY <1>0, <2>1, PositionLoop DEF n
<1>3. step[a] = IF In(u, b, {"space"}) THEN b ELSE a
  BY <1>0, Zenon DEF LastStep
<1>4. LastOfRun(u, a) = z /\ LastOfRun(u, b) = Repeat(step, n, b)
  BY DEF LastOfRun
<1>5. ASSUME In(u, b, {"space"}) PROVE LastOfRun(u, b) = LastOfRun(u, a)
  <2>1. step[a] = b
    BY <1>3, <1>5
  <2> HIDE DEF step, b, n, z, J
  <2>2. Repeat(step, n + 1, a) = Repeat(step, n, step[a]) /\ Repeat(step, n + 1, a) = step[Repeat(step, n, a)]
    BY <1>0, RepeatFirst, RepeatNext
  <2>. QED  BY <1>2, <1>4, <2>1, <2>2 DEF z
<1>6. ASSUME ~ In(u, b, {"space"}) PROVE LastOfRun(u, a) = a
  <2>1. step[a] = a
    BY <1>3, <1>6
  <2> HIDE DEF step, n, b, J
  <2>2. z = a
    BY <1>0, <2>1, RepeatStays
  <2>. QED  BY <1>4, <2>2
<1>. QED  BY <1>5, <1>6

\* The last whitespace of a run is the same in a window.
LEMMA LastWithin ==
  ASSUME NEW u, NEW t, NEW o, Within(u, t, o), Flush(u, t, o), Past(u, t, o, "space"), NEW a, a \in 1..Len(u)
  PROVE  LastOfRun(t, o + a) = o + LastOfRun(u, a)
<1> DEFINE n == Len(u)
           Good(b) == b <= n => LastOfRun(t, o + b) = o + LastOfRun(u, b)
           K == {b \in 1..(n + 1) : Good(b)}
<1>1. n \in Nat /\ Len(t) \in Nat /\ o \in Nat /\ o + n <= Len(t) /\ u \in Seq(Byte) /\ t \in Seq(Byte)
  BY WindowLen
<1>2. n + 1 \in K
  BY <1>1
<1>3. ASSUME NEW b \in 1..n, \A c \in (b + 1)..(n + 1) : c \in K PROVE Good(b)
  <2> DEFINE c == After(u, b)
  <2>1. After(t, o + b) = o + c /\ c \in (b + 1)..(n + 1) /\ o + b \in 1..Len(t)
    BY InWithin
  <2>2. c \in 1..(n + 1) /\ c \in Nat
    BY <1>1, <2>1
  <2>3. In(u, c, {"space"}) <=> In(t, o + c, {"space"})
    <3>1. CASE c \in 1..n
      BY <3>1, InWithin
    <3>2. CASE ~ (c \in 1..n)
      <4>1. c = n + 1
        BY <1>1, <2>2, <3>2
      <4>2. ~ In(u, c, {"space"})
        BY <1>1, <2>2, <3>2, InIs
      <4>3. o + c = o + Len(u) + 1
        BY <1>1, <4>1
      <4>4. ~ In(t, o + c, {"space"})
        <5> HIDE DEF c
        <5>. QED  BY <4>3 DEF Past
      <4>. QED  BY <4>2, <4>4
    <3>. QED  BY <3>1, <3>2
  <2>4. CASE In(u, c, {"space"})
    <3>1. LastOfRun(u, c) = LastOfRun(u, b)
      BY <1>1, <2>4, LastOn
    <3>2. LastOfRun(t, After(t, o + b)) = LastOfRun(t, o + b)
      BY <1>1, <2>1, <2>3, <2>4, LastOn
    <3>3. Good(c)
      BY <1>3, <2>1
    <3>4. c <= n
      BY <2>4 DEF In
    <3> HIDE DEF c
    <3>. QED  BY <2>1, <3>1, <3>2, <3>3, <3>4
  <2>5. CASE ~ In(u, c, {"space"})
    <3>1. LastOfRun(u, b) = b
      BY <1>1, <2>5, LastOn
    <3>2. LastOfRun(t, o + b) = o + b
      BY <1>1, <2>1, <2>3, <2>5, LastOn
    <3>. QED  BY <3>1, <3>2
  <2>. QED  BY <2>4, <2>5
<1>4. \A b \in 1..(n + 1) : b \in K
  <2> HIDE DEF Good
  <2>2. \A b \in 1..n : (\A c \in (b + 1)..(n + 1) : c \in K) => b \in K
    <3>1. \A b \in 1..n : b \in 1..(n + 1)
      BY <1>1
    <3>. QED  BY <1>3, <3>1
  <2> HIDE DEF K, n
  <2>. QED  BY <1>1, <1>2, <2>2, Downward
<1>5. a \in 1..(n + 1) /\ a <= n
  BY <1>1
<1>6. Good(a)
  <2> HIDE DEF Good
  <2>. QED  BY <1>4, <1>5
<1>. QED  BY <1>5, <1>6

\* u goes to the end of t, or ends with a newline behind no other whitespace and
\* before none: no piece goes on over its end.
Ending(u, t, o) ==
  \/ o + Len(u) = Len(t)
  \/ /\ Len(u) > 0 /\ u[Len(u)] = 10 /\ Past(u, t, o, "space")
     /\ Len(u) > 1 => u[Len(u) - 1] < 128 /\ AsciiClass(u[Len(u) - 1]) # "space"

\* Such an end is flush, and no whitespace follows.
LEMMA EndingIs ==
  ASSUME NEW u, NEW t, NEW o, Within(u, t, o), Ending(u, t, o)
  PROVE  /\ Flush(u, t, o) /\ Past(u, t, o, "space")
         /\ ~ (o + Len(u) = Len(t)) => Len(u) > 0 /\ u[Len(u)] = 10
<1>1. Len(u) \in Nat /\ Len(t) \in Nat /\ o \in Nat /\ o + Len(u) <= Len(t)
  BY WindowLen
<1>2. CASE o + Len(u) = Len(t)
  <2>1. ~ (o + Len(u) + 1 <= Len(t))
    BY <1>1, <1>2
  <2>2. Past(u, t, o, "space")
    BY <2>1 DEF Past, In
  <2>. QED  BY <1>2, <2>2 DEF Flush
<1>3. CASE Len(u) > 0 /\ u[Len(u)] = 10 /\ Past(u, t, o, "space")
  <2>1. u[Len(u)] < 128
    BY <1>3
  <2>. QED  BY <1>3, <2>1 DEF Flush
<1>. QED  BY <1>2, <1>3 DEF Ending

\* The byte k behind p, 0 past the end.
ByteFrom(text, p, k) == IF p + k <= Len(text) THEN text[p + k] ELSE 0

\* A contraction, by three bytes.
LEMMA ContractionBytes ==
  ASSUME NEW text, NEW p
  PROVE  Contraction(text, p) =
           IF ByteFrom(text, p, 0) = 39 /\ ByteFrom(text, p, 1) \in {115, 116, 109, 100} THEN 2
           ELSE IF /\ ByteFrom(text, p, 0) = 39
                   /\ <<ByteFrom(text, p, 1), ByteFrom(text, p, 2)>> \in {<<114, 101>>, <<118, 101>>, <<108, 108>>}
           THEN 3 ELSE 0
BY Zenon DEF Contraction, ByteFrom

\* A contraction is the same in a window.
LEMMA ContractionWithin ==
  ASSUME NEW u, NEW t, NEW o, Within(u, t, o), Ending(u, t, o), NEW a, a \in 1..Len(u)
  PROVE  Contraction(t, o + a) = Contraction(u, a)
<1> DEFINE n == Len(u)
           r == o + a
           threes == {<<114, 101>>, <<118, 101>>, <<108, 108>>}
<1>1. n \in Nat /\ Len(t) \in Nat /\ o \in Nat /\ o + n <= Len(t) /\ a \in Nat /\ r \in Nat
  BY WindowLen
<1>2. ASSUME NEW k \in 0..2, a + k <= n PROVE ByteFrom(t, r, k) = u[a + k] /\ ByteFrom(u, a, k) = u[a + k]
  <2>1. a + k \in 1..n /\ r + k <= Len(t) /\ r + k = o + (a + k)
    BY <1>1, <1>2
  <2>2. u[a + k] = t[r + k]
    BY <2>1 DEF Within
  <2>. QED  BY <1>2, <2>1, <2>2 DEF ByteFrom
<1>3. CASE o + n = Len(t)
  <2>1. ASSUME NEW k \in 0..2 PROVE ByteFrom(t, r, k) = ByteFrom(u, a, k)
    <3>1. CASE a + k <= n
      BY <1>2, <3>1
    <3>2. CASE ~ (a + k <= n)
      <4>1. ~ (r + k <= Len(t))
        BY <1>1, <1>3, <3>2
      <4>. QED  BY <3>2, <4>1 DEF ByteFrom
    <3>. QED  BY <3>1, <3>2
  <2>2. 0 \in 0..2 /\ 1 \in 0..2 /\ 2 \in 0..2
    OBVIOUS
  <2>3. ByteFrom(t, r, 0) = ByteFrom(u, a, 0) /\ ByteFrom(t, r, 1) = ByteFrom(u, a, 1) /\ ByteFrom(t, r, 2) = ByteFrom(u, a, 2)
    BY <2>1, <2>2
  <2> HIDE DEF r
  <2>. QED  BY <2>3, ContractionBytes DEF r
<1>4. CASE ~ (o + n = Len(t))
  <2>1. n > 0 /\ u[n] = 10
    BY <1>4, EndingIs
  <2>2. 0 \in 0..2 /\ 1 \in 0..2 /\ 2 \in 0..2 /\ a + 0 <= n /\ a + 0 = a
    BY <1>1
  <2>3. ByteFrom(t, r, 0) = u[a] /\ ByteFrom(u, a, 0) = u[a]
    BY <1>2, <2>2
  <2> HIDE DEF r
  <2>4. CASE a = n
    <3>1. ByteFrom(t, r, 0) = 10 /\ ByteFrom(u, a, 0) = 10
      BY <2>1, <2>3, <2>4
    <3>2. ~ (ByteFrom(t, r, 0) = 39) /\ ~ (ByteFrom(u, a, 0) = 39)
      BY <3>1
    <3>3. Contraction(t, r) = 0 /\ Contraction(u, a) = 0
      BY <3>2, ContractionBytes
    <3>. QED  BY <3>3 DEF r
  <2>5. CASE a + 1 = n
    <3>1. ByteFrom(t, r, 1) = 10 /\ ByteFrom(u, a, 1) = 10
      <4>1. a + 1 <= n
        BY <1>1, <2>5
      <4>2. ByteFrom(t, r, 1) = u[a + 1] /\ ByteFrom(u, a, 1) = u[a + 1]
        BY <1>2, <2>2, <4>1
      <4>. QED  BY <2>1, <2>5, <4>2
    <3>2. ~ (10 \in {115, 116, 109, 100}) /\ \A x : ~ (<<10, x>> \in threes)
      OBVIOUS
    <3> HIDE DEF threes
    <3>3. ASSUME NEW s, NEW p, ByteFrom(s, p, 1) = 10 PROVE Contraction(s, p) = 0
      <4>1. ~ (ByteFrom(s, p, 1) \in {115, 116, 109, 100}) /\ ~ (<<ByteFrom(s, p, 1), ByteFrom(s, p, 2)>> \in threes)
        BY <3>2, <3>3
      <4>. QED  BY <4>1, ContractionBytes DEF threes
    <3>4. Contraction(t, r) = 0 /\ Contraction(u, a) = 0
      BY <3>1, <3>3
    <3>. QED  BY <3>4 DEF r
  <2>6. CASE a # n /\ a + 1 # n
    <3>1. a + 1 <= n /\ a + 2 <= n
      BY <1>1, <2>6
    <3>2. ByteFrom(t, r, 1) = ByteFrom(u, a, 1) /\ ByteFrom(t, r, 2) = ByteFrom(u, a, 2)
      BY <1>2, <2>2, <3>1
    <3>. QED  BY <2>3, <3>2, ContractionBytes DEF r
  <2>. QED  BY <2>4, <2>5, <2>6
<1>. QED  BY <1>3, <1>4

\* So is the start of a piece past its space.
LEMMA LeadWithin ==
  ASSUME NEW u, NEW t, NEW o, Within(u, t, o), Ending(u, t, o), NEW a, a \in 1..Len(u)
  PROVE  Lead(t, o + a) = o + Lead(u, a)
<1> DEFINE n == Len(u)
           r == o + a
<1>1. n \in Nat /\ Len(t) \in Nat /\ o \in Nat /\ o + n <= Len(t) /\ a \in Nat /\ r \in Nat
  BY WindowLen
<1>2. t[r] = u[a]
  BY DEF Within
<1>3. CASE a < n
  <2>1. a + 1 \in 1..n /\ r < Len(t) /\ o + (a + 1) = r + 1
    BY <1>1, <1>3
  <2>2. DecodeAt(u, a + 1) = DecodeAt(t, o + (a + 1))
    BY <2>1, EndingIs, InWithin
  <2>3. DecodeAt(u, a + 1) = DecodeAt(t, r + 1)
    BY <2>1, <2>2
  <2> HIDE DEF n
  <2>4. Lead(u, a) = IF u[a] = 32 /\ DecodeAt(u, a + 1).cls # "space" THEN a + 1 ELSE a
    BY <1>3 DEF Lead, n
  <2> HIDE DEF r
  <2>5. Lead(t, r) = IF u[a] = 32 /\ DecodeAt(u, a + 1).cls # "space" THEN r + 1 ELSE r
    BY <1>2, <2>1, <2>3 DEF Lead
  <2>. QED  BY <2>1, <2>4, <2>5 DEF r
<1>4. CASE ~ (a < n)
  <2>1. a = n /\ Lead(u, a) = a
    BY <1>1, <1>4 DEF Lead
  <2>2. CASE o + n = Len(t)
    <3>1. ~ (r < Len(t))
      BY <1>1, <2>1, <2>2
    <3>2. Lead(t, r) = r
      BY <3>1 DEF Lead
    <3>. QED  BY <2>1, <3>2
  <2>3. CASE ~ (o + n = Len(t))
    <3>1. u[a] = 10
      BY <2>1, <2>3, EndingIs
    <3>2. t[r] # 32
      BY <1>2, <3>1
    <3> HIDE DEF r
    <3>3. Lead(t, r) = r
      BY <3>2 DEF Lead
    <3>. QED  BY <2>1, <3>3 DEF r
  <2>. QED  BY <2>2, <2>3
<1>. QED  BY <1>3, <1>4

\* Behind a lead of another class the run ends within such a window, or with the text.
LEMMA WordWithin ==
  ASSUME NEW u, NEW t, NEW o, Within(u, t, o), Ending(u, t, o), NEW a, a \in 1..Len(u),
         DecodeAt(u, a).cls # "space"
  PROVE  RunEnd(t, After(t, o + a), DecodeAt(u, a).cls) = o + RunEnd(u, After(u, a), DecodeAt(u, a).cls)
<1> DEFINE n == Len(u)
           cls == DecodeAt(u, a).cls
           b == After(u, a)
<1>1. n \in Nat /\ Len(t) \in Nat /\ o \in Nat /\ o + n <= Len(t) /\ u \in Seq(Byte)
  BY WindowLen
<1>2. After(t, o + a) = o + b /\ b \in (a + 1)..(n + 1)
  BY EndingIs, InWithin
<1>3. b \in 1..(n + 1)
  BY <1>1, <1>2
<1>4. RunEnd(u, b, cls) <= n \/ Past(u, t, o, cls)
  <2>1. CASE o + n = Len(t)
    <3>1. ~ (o + Len(u) + 1 <= Len(t))
      BY <1>1, <2>1
    <3>. QED  BY <3>1 DEF Past, In
  <2>2. CASE ~ (o + n = Len(t))
    <3>1. u[n] = 10 /\ n > 0
      BY <2>2, EndingIs
    <3>2. u[n] < 128 /\ AsciiClass(u[n]) = "space" /\ n \in 1..Len(u) /\ a \in 1..n
      BY <1>1, <3>1 DEF AsciiClass
    <3>3. AsciiClass(u[n]) # cls
      BY <3>2
    <3> HIDE DEF n, cls, b
    <3>4. RunEnd(u, a, cls) <= n
      BY <1>1, <3>2, <3>3, RunStops
    <3>5. In(u, a, {cls}) /\ a \in 1..(Len(u) + 1)
      <4>1. a \in 1..(Len(u) + 1)
        BY <1>1 DEF n
      <4>. QED  BY <1>1, <4>1, InIs DEF cls
    <3>6. RunEnd(u, After(u, a), cls) = RunEnd(u, a, cls)
      BY <1>1, <3>5, RunEndOn
    <3>. QED  BY <3>4, <3>6 DEF b
  <2>. QED  BY <2>1, <2>2
<1> HIDE DEF b, cls
<1>5. RunEnd(t, o + b, cls) = o + RunEnd(u, b, cls)
  BY <1>3, <1>4, EndingIs, RunWithin DEF n
<1>. QED  BY <1>2, <1>5 DEF b, cls

\* A piece ends where it ends in the text.
LEMMA BoundaryWithin ==
  ASSUME NEW u, NEW t, NEW o, Within(u, t, o), Ending(u, t, o), NEW a, a \in 1..Len(u)
  PROVE  NextBoundary(t, o + a) = o + NextBoundary(u, a)
<1> DEFINE n == Len(u)
           r == o + a
           lead == Lead(u, a)
           cls == DecodeAt(u, lead).cls
           end == RunEnd(u, a, "space")
           c == Contraction(u, a)
<1>1. n \in Nat /\ Len(t) \in Nat /\ o \in Nat /\ o + n <= Len(t) /\ a \in Nat /\ u \in Seq(Byte) /\ t \in Seq(Byte)
  BY WindowLen
<1>2. Contraction(t, r) = c /\ Lead(t, r) = o + lead
  BY ContractionWithin, LeadWithin
<1>3. lead \in 1..n /\ (cls = "space" => lead = a)
  BY <1>1, LeadIs
<1>4. r \in 1..Len(t) /\ After(t, r) = o + After(u, a) /\ After(u, a) \in (a + 1)..(n + 1)
  BY EndingIs, InWithin
<1>5. DecodeAt(t, o + lead).cls = cls
  <2> HIDE DEF lead
  <2>1. DecodeAt(u, lead) = DecodeAt(t, o + lead)
    BY <1>3, EndingIs, InWithin
  <2>. QED  BY <2>1
<1>6. CASE c > 0
  <2>1. NextBoundary(u, a) = a + c
    BY <1>1, <1>6, BoundaryCases
  <2>2. NextBoundary(t, r) = r + c
    <3> HIDE DEF r, c
    <3>. QED  BY <1>1, <1>2, <1>4, <1>6, BoundaryCases
  <2>3. c \in {0, 2, 3}
    BY <1>1, ContractionIs
  <2> HIDE DEF c
  <2>. QED  BY <1>1, <2>1, <2>2, <2>3
<1>7. CASE ~ (c > 0) /\ cls # "space"
  <2>1. NextBoundary(u, a) = RunEnd(u, After(u, lead), cls)
    BY <1>1, <1>7, BoundaryCases
  <2>2. NextBoundary(t, r) = RunEnd(t, After(t, o + lead), cls)
    <3> HIDE DEF r, c, lead, cls
    <3>. QED  BY <1>1, <1>2, <1>4, <1>5, <1>7, BoundaryCases
  <2>3. RunEnd(t, After(t, o + lead), cls) = o + RunEnd(u, After(u, lead), cls)
    <3> HIDE DEF lead
    <3>. QED  BY <1>3, <1>7, WordWithin
  <2>. QED  BY <2>1, <2>2, <2>3
<1>8. CASE ~ (c > 0) /\ cls = "space"
  <2>1. lead = a /\ DecodeAt(u, a).cls = "space"
    BY <1>3, <1>8
  <2>2. a \in 1..(n + 1) /\ Flush(u, t, o) /\ Past(u, t, o, "space")
    BY <1>1, EndingIs
  <2>3. RunEnd(t, r, "space") = o + end
    BY <2>2, RunWithin
  <2>4. end \in a..(n + 1)
    BY <1>1, <2>2, RunEndIs
  <2>5. DecodeAt(t, Lead(t, r)).cls = "space"
    BY <1>2, <1>5, <1>8
  <2>6. (end > n \/ end = After(u, a)) <=> (o + end > Len(t) \/ o + end = After(t, r))
    <3>1. o + end = After(t, r) <=> end = After(u, a)
      <4> DEFINE d == After(u, a)
      <4>1. d \in Int /\ end \in Int
        BY <1>1, <1>4, <2>4
      <4> HIDE DEF d, end
      <4>2. o + end = o + d <=> end = d
        BY <1>1, <4>1
      <4>. QED  BY <1>4, <4>2 DEF d
    <3>2. CASE o + n = Len(t)
      <4>1. end > n <=> o + end > Len(t)
        <5> HIDE DEF end
        <5>. QED  BY <1>1, <2>4, <3>2
      <4>. QED  BY <3>1, <4>1
    <3>3. CASE ~ (o + n = Len(t))
      <4>1. ~ (o + end > Len(t))
        <5> HIDE DEF end, n
        <5>. QED  BY <1>1, <2>4, <3>3
      <4>2. ASSUME end > n PROVE end = After(u, a)
        <5>1. n > 0 /\ u[n] = 10 /\ (n > 1 => u[n - 1] < 128 /\ AsciiClass(u[n - 1]) # "space")
          BY <3>3 DEF Ending
        <5>2. a = n
          <6> SUFFICES ASSUME a # n PROVE FALSE
            OBVIOUS
          <6> DEFINE m == n - 1
          <6>1. m \in 1..Len(u) /\ a \in 1..m /\ n > 1 /\ m < n /\ m \in Int
            BY <1>1
          <6>2. u[m] < 128 /\ AsciiClass(u[m]) # "space"
            BY <5>1, <6>1
          <6> HIDE DEF m
          <6>3. RunEnd(u, a, "space") <= m
            BY <1>1, <6>1, <6>2, RunStops
          <6> HIDE DEF end, n
          <6>4. end <= m
            BY <6>3 DEF end
          <6>. QED  BY <1>1, <2>4, <4>2, <6>1, <6>4
        <5>3. After(u, a) = n + 1
          <6> DEFINE d == After(u, a)
          <6> HIDE DEF d, n
          <6>1. d \in (a + 1)..(n + 1)
            BY <1>4 DEF d
          <6>2. d = n + 1
            BY <1>1, <5>2, <6>1
          <6>. QED  BY <6>2 DEF d
        <5> HIDE DEF end, n
        <5>4. end = n + 1
          BY <1>1, <2>4, <4>2
        <5>. QED  BY <5>3, <5>4
      <4>. QED  BY <3>1, <4>1, <4>2
    <3>. QED  BY <3>2, <3>3
  <2>7. CASE end > n \/ end = After(u, a)
    <3>1. NextBoundary(u, a) = end
      BY <1>1, <1>8, <2>7, BoundaryCases
    <3>2. NextBoundary(t, r) = RunEnd(t, r, "space")
      <4>1. RunEnd(t, r, "space") > Len(t) \/ RunEnd(t, r, "space") = After(t, r)
        BY <2>3, <2>6, <2>7
      <4> HIDE DEF r, c, end
      <4>. QED  BY <1>1, <1>2, <1>4, <1>8, <2>5, <4>1, BoundaryCases
    <3>. QED  BY <2>3, <3>1, <3>2
  <2>8. CASE ~ (end > n \/ end = After(u, a))
    <3>1. NextBoundary(u, a) = LastOfRun(u, a)
      BY <1>1, <1>8, <2>8, BoundaryCases
    <3>2. NextBoundary(t, r) = LastOfRun(t, r)
      <4>1. ~ (RunEnd(t, r, "space") > Len(t) \/ RunEnd(t, r, "space") = After(t, r))
        BY <2>3, <2>6, <2>8
      <4> HIDE DEF r, c, end
      <4>. QED  BY <1>1, <1>2, <1>4, <1>8, <2>5, <4>1, BoundaryCases
    <3>3. LastOfRun(t, r) = o + LastOfRun(u, a)
      BY <2>2, LastWithin
    <3>. QED  BY <3>1, <3>2, <3>3
  <2>. QED  BY <2>7, <2>8
<1>. QED  BY <1>6, <1>7, <1>8

\* The m places behind o of a loop over n places move and gather as a loop over m.
Shifted(n, nx, blk, m, mx, clk, o) ==
  o + m <= n /\ \A a \in 1..m : nx[o + a] = o + mx[a] /\ blk[o + a] = clk[a]

\* R is Q, then what R is behind.
GoesInto(R, Q, m, o) == \A a \in 1..(m + 1) : R[o + a] = Q[a] \o R[o + (m + 1)]

\* Such a loop gathers what the other does, then what there is behind.
LEMMA GathersWithin ==
  ASSUME NEW n, NEW nx, NEW blk, NEW S, NEW R, Gathers(R, n, nx, blk, S), n \in Nat,
         NEW m, NEW mx, NEW clk, NEW Q, Gathers(Q, m, mx, clk, S), m \in Nat, Moves(m, mx, clk, S),
         NEW o, o \in Nat, Shifted(n, nx, blk, m, mx, clk, o)
  PROVE  GoesInto(R, Q, m, o)
<1> DEFINE z == R[o + (m + 1)]
           K == {a \in 1..(m + 1) : R[o + a] = Q[a] \o z}
<1>1. o + m <= n /\ o + (m + 1) \in 1..(n + 1)
  BY DEF Shifted
<1>2. z \in Seq(S)
  BY <1>1 DEF Gathers
<1>3. m + 1 \in K
  <2>1. Q[m + 1] = <<>> /\ m + 1 \in 1..(m + 1)
    BY DEF Gathers
  <2>2. <<>> \o z = z
    BY <1>2, ConcatEmptySeq
  <2> HIDE DEF z
  <2>. QED  BY <2>1, <2>2 DEF z
<1>4. ASSUME NEW a \in 1..m, \A b \in (a + 1)..(m + 1) : b \in K PROVE a \in K
  <2> DEFINE b == mx[a]
             x == clk[a]
             q == Q[b]
  <2>1. b \in (a + 1)..(m + 1) /\ x \in Seq(S)
    BY DEF Moves
  <2>2. nx[o + a] = o + b /\ blk[o + a] = x
    BY DEF Shifted
  <2>3. o + a \in 1..n
    BY <1>1
  <2>4. R[o + a] = x \o R[o + b]
    BY <2>2, <2>3 DEF Gathers
  <2>5. Q[a] = x \o q
    BY DEF Gathers
  <2>6. b \in K /\ b \in 1..(m + 1)
    BY <1>4, <2>1
  <2>7. q \in Seq(S)
    BY <2>6 DEF Gathers
  <2> HIDE DEF b, x, z
  <2>8. R[o + b] = q \o z
    BY <2>6 DEF z
  <2> HIDE DEF q
  <2>9. (x \o q) \o z = x \o (q \o z)
    BY ONLY <1>2, <2>1, <2>7, Associates
  <2>10. R[o + a] = Q[a] \o z
    BY <2>4, <2>5, <2>8, <2>9
  <2>11. a \in 1..(m + 1)
    OBVIOUS
  <2>. QED  BY <2>10, <2>11 DEF z
<1>5. \A a \in 1..(m + 1) : a \in K
  <2> HIDE DEF K
  <2>. QED  BY <1>3, <1>4, Downward
<1>. QED  BY <1>5 DEF GoesInto

\* The pieces of a window.
LEMMA PiecesWithin ==
  ASSUME NEW u, NEW t, NEW o, Within(u, t, o), Ending(u, t, o),
         NEW R, PiecesFrom(t, R), NEW Q, PiecesFrom(u, Q)
  PROVE  R[o + 1] = Q[1] \o R[o + (Len(u) + 1)]
<1> DEFINE n == Len(t)
           m == Len(u)
<1>1. m \in Nat /\ n \in Nat /\ o \in Nat /\ o + m <= n /\ u \in Seq(Byte) /\ t \in Seq(Byte)
  BY WindowLen
<1>2. ASSUME NEW a \in 1..m
      PROVE Ends1(t)[o + a] = o + Ends1(u)[a] /\ Piece1(t)[o + a] = Piece1(u)[a]
  <2> DEFINE r == o + a
             b == NextBoundary(u, a)
  <2>1. r \in 1..n
    BY <1>1
  <2>2. NextBoundary(t, r) = o + b
    BY BoundaryWithin
  <2>3. b \in (a + 1)..(m + 1)
    BY <1>1, BoundaryIs
  <2> HIDE DEF r, b
  <2>4. a \in 1..(m + 1) /\ b - 1 \in (a - 1)..m /\ o + (b - 1) = (o + b) - 1
    BY <1>1, <2>3
  <2> DEFINE d == b - 1
  <2>5. SamePart(u, t, o, a, d)
    <3> HIDE DEF d
    <3>1. d \in (a - 1)..m
      BY <2>4 DEF d
    <3>2. a \in 1..(Len(u) + 1) /\ d \in (a - 1)..Len(u)
      BY <2>4, <3>1
    <3>. QED  BY <3>2, WindowPart
  <2>6. SubSeq(u, a, b - 1) = SubSeq(t, r, (o + b) - 1)
    BY <2>4, <2>5 DEF SamePart, r
  <2>7. Ends1(t)[r] = o + b /\ Piece1(t)[r] = <<SubSeq(t, r, (o + b) - 1)>>
    BY <2>1, <2>2, Zenon DEF Ends1, Piece1
  <2>8. Ends1(u)[a] = b /\ Piece1(u)[a] = <<SubSeq(u, a, b - 1)>>
    BY Zenon DEF Ends1, Piece1, b
  <2>. QED  BY <2>6, <2>7, <2>8 DEF r
<1>3. Shifted(n, Ends1(t), Piece1(t), m, Ends1(u), Piece1(u), o)
  BY <1>1, <1>2 DEF Shifted
<1>4. Moves(m, Ends1(u), Piece1(u), NonEmpty)
  BY <1>1, PiecesMove
<1>5. Gathers(R, n, Ends1(t), Piece1(t), NonEmpty) /\ Gathers(Q, m, Ends1(u), Piece1(u), NonEmpty)
  BY DEF PiecesFrom
<1> DEFINE S == NonEmpty
           f == Ends1(t)
           g == Piece1(t)
           h == Ends1(u)
           k == Piece1(u)
<1> HIDE DEF n, m, S, f, g, h, k
<1>6. GoesInto(R, Q, m, o)
  <2>1. Gathers(R, n, f, g, S) /\ Gathers(Q, m, h, k, S) /\ Moves(m, h, k, S) /\ Shifted(n, f, g, m, h, k, o)
    BY <1>3, <1>4, <1>5 DEF S, f, g, h, k
  <2>. QED  BY ONLY <1>1, <2>1, GathersWithin
<1>7. 1 \in 1..(m + 1)
  BY <1>1
<1>. QED  BY <1>6, <1>7 DEF GoesInto, m

\* p starts a new piece, whatever there is before: the text before it is an Ending.
Parts(t, p) == p \in 1..(Len(t) + 1) /\ Ending(SubSeq(t, 1, p - 1), t, 0)

\* The two parts of a text.
LEMMA TwoParts ==
  ASSUME NEW t, t \in Seq(Byte), NEW p, p \in 1..(Len(t) + 1)
  PROVE  /\ Within(SubSeq(t, 1, p - 1), t, 0) /\ Len(SubSeq(t, 1, p - 1)) = p - 1
         /\ Within(SubSeq(t, p, Len(t)), t, p - 1) /\ (p - 1) + Len(SubSeq(t, p, Len(t))) = Len(t)
         /\ Ending(SubSeq(t, p, Len(t)), t, p - 1)
<1> DEFINE n == Len(t)
           d == p - 1
<1>1. n \in Nat /\ p \in Nat /\ d \in Nat /\ d <= n
  BY LenProperties
<1>2. 1 \in 1..(n + 1) /\ d \in (1 - 1)..n /\ n \in (p - 1)..n /\ 1 - 1 = 0 /\ d - 1 + 1 = d
  BY <1>1
<1> HIDE DEF d
<1>3. Within(SubSeq(t, 1, d), t, 1 - 1) /\ Len(SubSeq(t, 1, d)) = d - 1 + 1
  BY <1>2, WindowIs
<1>4. Within(SubSeq(t, p, n), t, p - 1) /\ Len(SubSeq(t, p, n)) = n - p + 1
  BY <1>2, WindowIs
<1> DEFINE l == Len(SubSeq(t, p, n))
<1> HIDE DEF l, n
<1>5. l = n - p + 1
  BY <1>4 DEF l
<1>6. (p - 1) + l = n
  BY <1>1, <1>5
<1>7. Ending(SubSeq(t, p, n), t, p - 1)
  BY <1>6 DEF Ending, l, n
<1>. QED  BY <1>2, <1>3, <1>4, <1>6, <1>7 DEF d, l, n

\* The pieces of a text are those of its parts.
LEMMA PiecesSplit ==
  ASSUME NEW t, t \in Seq(Byte), NEW p, Parts(t, p)
  PROVE  Pieces(t) = Pieces(SubSeq(t, 1, p - 1)) \o Pieces(SubSeq(t, p, Len(t)))
<1> DEFINE n == Len(t)
           u == SubSeq(t, 1, p - 1)
           v == SubSeq(t, p, n)
           o == p - 1
<1>1. n \in Nat /\ p \in 1..(n + 1)
  BY LenProperties DEF Parts
<1>2. Within(u, t, 0) /\ Len(u) = o /\ Within(v, t, o) /\ o + Len(v) = n /\ Ending(v, t, o)
  BY <1>1, TwoParts
<1>3. Ending(u, t, 0)
  BY DEF Parts
<1>4. u \in Seq(Byte) /\ v \in Seq(Byte) /\ Len(v) \in Nat
  BY <1>2, WindowLen
<1> HIDE DEF u, v, n
<1>5. PICK R : PiecesFrom(t, R) /\ Pieces(t) = R[1]
  BY PiecesGather
<1>6. PICK Q : PiecesFrom(u, Q) /\ Pieces(u) = Q[1]
  BY <1>4, PiecesGather
<1>7. PICK P : PiecesFrom(v, P) /\ Pieces(v) = P[1]
  BY <1>4, PiecesGather
<1>8. 0 + 1 = 1 /\ 0 + (o + 1) = p /\ o + 1 = p /\ o + (Len(v) + 1) = n + 1
  BY <1>1, <1>2, <1>4
<1> HIDE DEF o
<1>9. R[0 + 1] = Q[1] \o R[0 + (Len(u) + 1)]
  BY <1>2, <1>3, <1>5, <1>6, PiecesWithin
<1>10. R[o + 1] = P[1] \o R[o + (Len(v) + 1)]
  BY <1>2, <1>5, <1>7, PiecesWithin
<1>11. R[n + 1] = <<>>
  BY <1>5 DEF PiecesFrom, Gathers, n
<1>12. P[1] \in Seq(NonEmpty)
  <2>1. 1 \in 1..(Len(v) + 1)
    BY <1>4
  <2>. QED  BY <1>7, <2>1 DEF PiecesFrom, Gathers
<1>13. P[1] \o <<>> = P[1]
  BY <1>12, ConcatEmptySeq
<1>14. R[1] = Q[1] \o P[1]
  BY <1>2, <1>8, <1>9, <1>10, <1>11, <1>13
<1>. QED  BY <1>5, <1>6, <1>7, <1>14 DEF u, v, n

\* What occurs first is found, and when nothing occurs nothing is.
LEMMA FirstIsFound ==
  ASSUME NEW t, t \in Seq(Byte), NEW a, a \in 1..(Len(t) + 1)
  PROVE  /\ \A h, k : FirstFrom(t, a, h, k) => FindSpecial(t, a) = <<h, k>>
         /\ NoneFrom(t, a) => FindSpecial(t, a) = <<Len(t) + 1, 0>>
<1> DEFINE hit == FindSpecial(t, a)
           x == hit[1]
           y == hit[2]
<1>1. \/ hit = <<Len(t) + 1, 0>> /\ NoneFrom(t, a)
      \/ hit \in (a..Len(t)) \X DOMAIN Specials /\ FirstFrom(t, a, x, y)
  BY FindFirst
<1> HIDE DEF hit
<1>2. ASSUME NEW h, NEW k, FirstFrom(t, a, h, k) PROVE hit = <<h, k>>
  <2>1. ~ NoneFrom(t, a)
    BY <1>2 DEF FirstFrom, NoneFrom
  <2>2. FirstFrom(t, a, x, y) /\ hit = <<x, y>>
    BY <1>1, <2>1
  <2> HIDE DEF x, y
  <2>3. /\ h \in a..Len(t) /\ k \in DOMAIN Specials /\ Occurs(t, Specials[k], h)
        /\ x \in a..Len(t) /\ y \in DOMAIN Specials /\ Occurs(t, Specials[y], x)
    BY <1>2, <2>2 DEF FirstFrom
  <2>4. h < x \/ (h = x /\ Len(Specials[k]) >= Len(Specials[y]))
    BY <1>2, <2>3, Zenon DEF FirstFrom
  <2>5. x < h \/ (x = h /\ Len(Specials[y]) >= Len(Specials[k]))
    BY <2>2, <2>3, Zenon DEF FirstFrom
  <2>6. Len(Specials[k]) \in Nat /\ Len(Specials[y]) \in Nat
    BY <2>3, SpecialsAre
  <2>7. Len(t) \in Nat
    BY LenProperties
  <2>8. h = x /\ Len(Specials[k]) = Len(Specials[y])
    BY <2>3, <2>4, <2>5, <2>6, <2>7
  <2>9. Specials[k] = Specials[y]
    <3>1. SubSeq(t, h, h + Len(Specials[k]) - 1) = Specials[k] /\ SubSeq(t, x, x + Len(Specials[y]) - 1) = Specials[y]
      BY <2>3 DEF Occurs
    <3>. QED  BY <2>8, <3>1
  <2>10. k = y
    <3>1. IsInjective(Specials)
      BY ByteBpeAssumption
    <3>. QED  BY <2>3, <2>9, <3>1 DEF IsInjective
  <2>. QED  BY <2>2, <2>8, <2>10
<1>3. ASSUME NoneFrom(t, a) PROVE hit = <<Len(t) + 1, 0>>
  <2>1. ~ FirstFrom(t, a, x, y)
    BY <1>3 DEF FirstFrom, NoneFrom
  <2>. QED  BY <1>1, <2>1
<1>. QED  BY <1>2, <1>3 DEF hit

\* A special occurs in a window as in the text, when it is whole there.
LEMMA OccursWithin ==
  ASSUME NEW u, NEW t, NEW o, Within(u, t, o), NEW h, h \in 1..Len(u), NEW k, k \in DOMAIN Specials
  PROVE  /\ Occurs(u, Specials[k], h) => Occurs(t, Specials[k], o + h)
         /\ Occurs(t, Specials[k], o + h) /\ h + Len(Specials[k]) <= Len(u) + 1 => Occurs(u, Specials[k], h)
<1> DEFINE s == Specials[k]
           l == Len(s)
           d == h + l - 1
<1>1. Len(u) \in Nat /\ Len(t) \in Nat /\ o \in Nat /\ o + Len(u) <= Len(t) /\ h \in Nat /\ l \in Nat \ {0}
  BY WindowLen, SpecialsAre
<1>2. d \in Nat /\ d >= h /\ o + d = (o + h) + l - 1
  BY <1>1
<1>3. ASSUME d <= Len(u) PROVE SamePart(u, t, o, h, d)
  <2>1. h \in 1..(Len(u) + 1) /\ d \in (h - 1)..Len(u)
    BY <1>1, <1>2, <1>3
  <2>. QED  BY <2>1, WindowPart
<1>4. Occurs(u, s, h) <=> d <= Len(u) /\ SubSeq(u, h, d) = s
  BY DEF Occurs
<1>5. Occurs(t, s, o + h) <=> o + d <= Len(t) /\ SubSeq(t, o + h, o + d) = s
  <2>1. Occurs(t, s, o + h) <=> (o + h) + l - 1 <= Len(t) /\ SubSeq(t, o + h, (o + h) + l - 1) = s
    BY DEF Occurs
  <2>. QED  BY <1>2, <2>1
<1>6. d <= Len(u) => o + d <= Len(t)
  BY <1>1, <1>2
<1>7. h + l <= Len(u) + 1 => d <= Len(u)
  BY <1>1
<1> HIDE DEF d, l, s
<1>8. Occurs(u, s, h) => Occurs(t, s, o + h)
  BY <1>3, <1>4, <1>5, <1>6 DEF SamePart
<1>9. Occurs(t, s, o + h) /\ h + l <= Len(u) + 1 => Occurs(u, s, h)
  BY <1>3, <1>4, <1>5, <1>7 DEF SamePart
<1>. QED  BY <1>8, <1>9 DEF s, l

\* A special that begins in the window ends in it.
HoldsWhole(u, t, o) ==
  \A h \in 1..Len(u) : \A k \in DOMAIN Specials :
    Occurs(t, Specials[k], o + h) => h + Len(Specials[k]) <= Len(u) + 1

\* What is found in such a window is found in the text; otherwise the search goes on behind it.
LEMMA FindWithin ==
  ASSUME NEW u, NEW t, NEW o, Within(u, t, o), HoldsWhole(u, t, o), NEW a, a \in 1..(Len(u) + 1)
  PROVE  LET hit == FindSpecial(u, a) IN
         \/ /\ hit[1] \in a..Len(u) /\ hit[2] \in DOMAIN Specials /\ hit[2] # 0
            /\ FindSpecial(t, o + a) = <<o + hit[1], hit[2]>>
         \/ hit = <<Len(u) + 1, 0>> /\ FindSpecial(t, o + a) = FindSpecial(t, o + (Len(u) + 1))
<1> DEFINE hit == FindSpecial(u, a)
           m == Len(u)
           n == Len(t)
           c == o + a
           e == o + (m + 1)
<1>1. m \in Nat /\ n \in Nat /\ o \in Nat /\ o + m <= n /\ u \in Seq(Byte) /\ t \in Seq(Byte) /\ a \in Nat
  BY WindowLen
<1>2. \/ hit = <<m + 1, 0>> /\ NoneFrom(u, a)
      \/ hit \in (a..m) \X DOMAIN Specials /\ FirstFrom(u, a, hit[1], hit[2])
  BY <1>1, FindFirst
<1>3. c \in 1..(n + 1) /\ e \in 1..(n + 1) /\ c <= e
  BY <1>1
<1>4. ASSUME NEW g, g \in c..(o + m), NEW j, j \in DOMAIN Specials, Occurs(t, Specials[j], g)
      PROVE  g - o \in a..m /\ Occurs(u, Specials[j], g - o) /\ o + (g - o) = g
  <2> DEFINE b == g - o
  <2>1. b \in a..m /\ b \in 1..m /\ o + b = g
    BY <1>1, <1>4
  <2> HIDE DEF b, m
  <2>2. b + Len(Specials[j]) <= Len(u) + 1
    BY <1>4, <2>1 DEF HoldsWhole, m
  <2>3. Occurs(u, Specials[j], b)
    BY <1>4, <2>1, <2>2, OccursWithin DEF m
  <2>. QED  BY <2>1, <2>3 DEF b, m
<1> HIDE DEF hit, m, n, c, e
<1>5. CASE hit \in (a..m) \X DOMAIN Specials /\ FirstFrom(u, a, hit[1], hit[2])
  <2> DEFINE h == hit[1]
             k == hit[2]
  <2>1. FirstFrom(u, a, h, k) /\ h \in a..m /\ k \in DOMAIN Specials
    BY <1>5
  <2> HIDE DEF h, k
  <2>2. Occurs(u, Specials[k], h)
    BY <2>1 DEF FirstFrom
  <2>3. h \in 1..m /\ o + h \in c..n /\ h \in Nat
    BY <1>1, <2>1 DEF c
  <2>4. Occurs(t, Specials[k], o + h)
    BY <2>1, <2>2, <2>3, OccursWithin DEF m
  <2>5. ASSUME NEW g \in c..n, NEW j \in DOMAIN Specials, Occurs(t, Specials[j], g)
        PROVE  o + h < g \/ (o + h = g /\ Len(Specials[k]) >= Len(Specials[j]))
    <3>1. CASE g <= o + m
      <4> DEFINE b == g - o
      <4>1. g \in c..(o + m)
        BY <1>1, <1>3, <3>1
      <4>2. b \in a..m /\ Occurs(u, Specials[j], b) /\ o + b = g
        BY <1>4, <2>5, <4>1
      <4> HIDE DEF b
      <4>3. h < b \/ (h = b /\ Len(Specials[k]) >= Len(Specials[j]))
        BY <2>1, <4>2, Zenon DEF FirstFrom, m
      <4>4. b \in Nat
        BY <1>1, <4>2
      <4>5. CASE h < b
        BY <1>1, <2>3, <4>2, <4>4, <4>5
      <4>. QED  BY <4>2, <4>3, <4>5
    <3>2. CASE ~ (g <= o + m)
      BY <1>1, <1>3, <2>3, <3>2
    <3>. QED  BY <3>1, <3>2
  <2>6. FirstFrom(t, c, o + h, k)
    BY <2>1, <2>3, <2>4, <2>5 DEF FirstFrom, n
  <2>7. FindSpecial(t, c) = <<o + h, k>>
    BY <1>1, <1>3, <2>6, FirstIsFound DEF n
  <2>8. k # 0
    BY <2>1, SpecialsAre
  <2>. QED  BY <2>1, <2>7, <2>8 DEF h, k, m, n, c, hit
<1>6. CASE hit = <<m + 1, 0>> /\ NoneFrom(u, a)
  <2>1. ASSUME NEW g, g \in c..n, NEW j, j \in DOMAIN Specials, Occurs(t, Specials[j], g) PROVE g \in e..n
    <3> SUFFICES ASSUME ~ (g \in e..n) PROVE FALSE
      OBVIOUS
    <3> DEFINE b == g - o
    <3>1. g \in c..(o + m)
      BY <1>1, <1>3, <2>1 DEF e
    <3>2. b \in a..m /\ Occurs(u, Specials[j], b)
      BY <1>4, <2>1, <3>1
    <3> HIDE DEF b
    <3>. QED  BY <1>6, <2>1, <3>2 DEF NoneFrom, m
  <2> DEFINE z == FindSpecial(t, e)
             x == z[1]
             y == z[2]
  <2>2. \/ z = <<n + 1, 0>> /\ NoneFrom(t, e)
        \/ z \in (e..n) \X DOMAIN Specials /\ FirstFrom(t, e, x, y)
    BY <1>1, <1>3, FindFirst DEF n
  <2> HIDE DEF z
  <2>3. CASE z = <<n + 1, 0>> /\ NoneFrom(t, e)
    <3>1. NoneFrom(t, c)
      BY <2>1, <2>3 DEF NoneFrom, n
    <3>2. FindSpecial(t, c) = <<n + 1, 0>>
      BY <1>1, <1>3, <3>1, FirstIsFound DEF n
    <3>. QED  BY <1>6, <2>3, <3>2 DEF z, hit, c, e, m
  <2>4. CASE z \in (e..n) \X DOMAIN Specials /\ FirstFrom(t, e, x, y)
    <3>1. FirstFrom(t, e, x, y) /\ x \in e..n /\ y \in DOMAIN Specials /\ z = <<x, y>>
      BY <2>4
    <3> HIDE DEF x, y
    <3>2. x \in c..n
      BY <1>1, <1>3, <3>1
    <3>3. Occurs(t, Specials[y], x)
      BY <3>1 DEF FirstFrom
    <3>4. ASSUME NEW g \in c..n, NEW j \in DOMAIN Specials, Occurs(t, Specials[j], g)
          PROVE  x < g \/ (x = g /\ Len(Specials[y]) >= Len(Specials[j]))
      <4>1. g \in e..n
        BY <2>1, <3>4
      <4>. QED  BY <3>1, <3>4, <4>1, Zenon DEF FirstFrom, n
    <3>5. FirstFrom(t, c, x, y)
      BY <3>1, <3>2, <3>3, <3>4 DEF FirstFrom, n
    <3>6. FindSpecial(t, c) = <<x, y>>
      BY <1>1, <1>3, <3>5, FirstIsFound DEF n
    <3>. QED  BY <1>6, <3>1, <3>6 DEF z, hit, c, e, m
  <2>. QED  BY <2>2, <2>3, <2>4
<1>. QED  BY <1>2, <1>5, <1>6 DEF m, hit

\* The same special, o bytes further on.
Further(hit, far, o) == far[1] = o + hit[1] /\ far[2] = hit[2]
EndsFurther(hit, far, o) == EndOf(far) = o + EndOf(hit)

\* What the items of a window gather at a hit is what those of the text do.
LEMMA HitWithin ==
  ASSUME NEW u, NEW t, NEW o, Within(u, t, o), NEW a, a \in 1..(Len(u) + 1), NEW hit, IsHit(u, a, hit),
         NEW far, Further(hit, far, o)
  PROVE  /\ EndsFurther(hit, far, o)
         /\ AndHit(RunTo(t, far, o + a), far) = AndHit(RunTo(u, hit, a), hit)
<1> DEFINE h == hit[1]
           k == hit[2]
           l == Len(Specials[k])
           d == h - 1
<1>1. Len(u) \in Nat /\ Len(t) \in Nat /\ o \in Nat /\ o + Len(u) <= Len(t) /\ u \in Seq(Byte) /\ t \in Seq(Byte)
  BY WindowLen
<1>2. h \in a..(Len(u) + 1)
  BY <1>1, RunIs
<1>3. h \in Nat /\ d \in (a - 1)..Len(u) /\ o + d = (o + h) - 1
  BY <1>1, <1>2
<1>4. k # 0 => l \in Nat
  BY DEF IsHit
<1>5. far[1] = o + h /\ far[2] = k
  BY DEF Further
<1>6. EndOf(far) = o + EndOf(hit)
  <2>1. CASE k = 0
    BY <1>5, <2>1 DEF EndOf
  <2>2. CASE k # 0
    <3>1. EndOf(far) = (o + h) + l /\ EndOf(hit) = h + l
      BY <1>5, <2>2 DEF EndOf
    <3>2. l \in Nat
      BY <1>4, <2>2
    <3> HIDE DEF h, l
    <3>3. (o + h) + l = o + (h + l)
      BY <1>1, <1>3, <3>2
    <3>. QED  BY <3>1, <3>3
  <2>. QED  BY <2>1, <2>2
<1> HIDE DEF d
<1>7. SamePart(u, t, o, a, d)
  BY <1>3, WindowPart
<1>8. RunTo(t, far, o + a) = RunTo(u, hit, a)
  <2>1. SubSeq(u, a, d) = SubSeq(t, o + a, o + d)
    BY <1>7 DEF SamePart
  <2>2. far[1] - 1 = o + d /\ hit[1] - 1 = d
    BY <1>3, <1>5 DEF d
  <2> DEFINE x == SubSeq(u, a, d)
  <2>3. RunTo(u, hit, a) = AsItems(Pieces(x))
    BY <2>2 DEF RunTo
  <2>4. RunTo(t, far, o + a) = AsItems(Pieces(x))
    BY <2>1, <2>2 DEF RunTo
  <2>. QED  BY <2>3, <2>4
<1>9. AndHit(RunTo(t, far, o + a), far) = AndHit(RunTo(u, hit, a), hit)
  BY <1>5, <1>8 DEF AndHit
<1>. QED  BY <1>6, <1>9 DEF EndsFurther

\* The items of the end of a text are those of the text from there on.
LEMMA ItemsBehind ==
  ASSUME NEW v, NEW t, NEW o, Within(v, t, o), o + Len(v) = Len(t),
         NEW R, ItemsFrom(t, R), NEW P, ItemsFrom(v, P)
  PROVE  R[o + 1] = P[1]
<1> DEFINE n == Len(t)
           m == Len(v)
<1>1. m \in Nat /\ n \in Nat /\ o \in Nat /\ o + m = n /\ v \in Seq(Byte) /\ t \in Seq(Byte)
  BY WindowLen
<1>2. HoldsWhole(v, t, o)
  <2> SUFFICES ASSUME NEW h \in 1..m, NEW k \in DOMAIN Specials, Occurs(t, Specials[k], o + h)
               PROVE  h + Len(Specials[k]) <= m + 1
    BY DEF HoldsWhole
  <2> DEFINE l == Len(Specials[k])
  <2>1. l \in Nat
    BY SpecialsAre
  <2>2. (o + h) + l <= n + 1
    <3> DEFINE c == o + h
    <3>1. c \in Nat /\ Occurs(t, Specials[k], c)
      BY <1>1
    <3> HIDE DEF c
    <3>2. c + Len(Specials[k]) <= Len(t) + 1
      BY <1>1, <3>1, OccursIs
    <3>. QED  BY <3>2 DEF c
  <2> HIDE DEF l, m, n
  <2>3. h + l <= m + 1
    BY <1>1, <2>1, <2>2
  <2>. QED  BY <2>3 DEF l
<1>3. ASSUME NEW a \in 1..m
      PROVE ItemEnd(t)[o + a] = o + ItemEnd(v)[a] /\ ItemRun(t)[o + a] = ItemRun(v)[a]
  <2> DEFINE c == o + a
             hit == FindSpecial(v, a)
             far == FindSpecial(t, c)
  <2>1. a \in 1..(m + 1) /\ c \in 1..n /\ o + (m + 1) = n + 1 /\ n + 1 \in 1..(n + 1)
    BY <1>1
  <2>2. IsHit(v, a, hit)
    BY <1>1, <2>1, HitIs
  <2>3. Further(hit, far, o)
    <3>1. \/ FindSpecial(t, c) = <<o + hit[1], hit[2]>>
          \/ hit = <<m + 1, 0>> /\ FindSpecial(t, c) = FindSpecial(t, n + 1)
      BY <1>2, <2>1, FindWithin
    <3>2. FindSpecial(t, n + 1) = <<n + 1, 0>>
      <4> DEFINE e == n + 1
      <4>1. e \in 1..(n + 1) /\ NoneFrom(t, e)
        BY <1>1 DEF NoneFrom
      <4> HIDE DEF e
      <4>2. FindSpecial(t, e) = <<n + 1, 0>>
        BY <1>1, <4>1, FirstIsFound
      <4>. QED  BY <4>2 DEF e
    <3> HIDE DEF c, hit, m, n
    <3>3. far = <<o + hit[1], hit[2]>> \/ (hit = <<m + 1, 0>> /\ far = <<o + (m + 1), 0>>)
      BY <2>1, <3>1, <3>2
    <3> HIDE DEF far
    <3>. QED  BY <3>3 DEF Further
  <2>4. ItemEnd(t)[c] = EndOf(far) /\ ItemRun(t)[c] = AndHit(RunTo(t, far, c), far)
    BY <2>1, Zenon DEF ItemEnd, ItemRun
  <2>5. ItemEnd(v)[a] = EndOf(hit) /\ ItemRun(v)[a] = AndHit(RunTo(v, hit, a), hit)
    BY Zenon DEF ItemEnd, ItemRun
  <2> HIDE DEF hit, far
  <2>6. EndsFurther(hit, far, o) /\ AndHit(RunTo(t, far, o + a), far) = AndHit(RunTo(v, hit, a), hit)
    BY <2>1, <2>2, <2>3, HitWithin
  <2>. QED  BY <2>4, <2>5, <2>6 DEF EndsFurther
<1> DEFINE S == TextItem
           f == ItemEnd(t)
           g == ItemRun(t)
           h == ItemEnd(v)
           k == ItemRun(v)
<1>4. Shifted(n, f, g, m, h, k, o)
  BY <1>1, <1>3 DEF Shifted
<1>5. Moves(m, h, k, S)
  BY <1>1, ItemsMove
<1>6. Gathers(R, n, f, g, S) /\ Gathers(P, m, h, k, S)
  BY DEF ItemsFrom
<1> HIDE DEF n, m, S, f, g, h, k
<1>7. GoesInto(R, P, m, o)
  BY ONLY <1>1, <1>4, <1>5, <1>6, GathersWithin
<1>8. 1 \in 1..(m + 1) /\ o + (m + 1) = n + 1
  BY <1>1
<1>9. R[o + 1] = P[1] \o R[n + 1]
  BY <1>7, <1>8 DEF GoesInto
<1>10. R[n + 1] = <<>> /\ P[1] \in Seq(S)
  BY <1>6, <1>8 DEF Gathers
<1>11. P[1] \o <<>> = P[1]
  BY <1>10, ConcatEmptySeq
<1>. QED  BY <1>9, <1>10, <1>11

\* find_cut accepts p.
CutAt(t, p) ==
  /\ p \in 2..Len(t) /\ t[p - 1] = 10 /\ (p > 2 => t[p - 2] < 128 /\ AsciiClass(t[p - 2]) # "space")
  /\ DecodeAt(t, p).cls # "space" /\ ~ Straddles(t, p)

\* A cut parts any stretch of text around it.
LEMMA CutParts ==
  ASSUME NEW t, t \in Seq(Byte), NEW p, CutAt(t, p), NEW a, a \in 1..(p - 1), NEW h, h \in p..(Len(t) + 1)
  PROVE  Pieces(SubSeq(t, a, h - 1)) = Pieces(SubSeq(t, a, p - 1)) \o Pieces(SubSeq(t, p, h - 1))
<1> DEFINE w == SubSeq(t, a, h - 1)
           o == a - 1
           q == p - o
           d == h - 1
           u == SubSeq(w, 1, q - 1)
<1>1. Len(t) \in Nat /\ p \in 2..Len(t)
  BY LenProperties DEF CutAt
<1>2. p \in Nat /\ a \in Nat /\ h \in Nat /\ o \in Nat /\ d \in (a - 1)..Len(t) /\ a \in 1..(Len(t) + 1)
  BY <1>1
<1> HIDE DEF d
<1>3. Within(SubSeq(t, a, d), t, a - 1) /\ Len(SubSeq(t, a, d)) = d - a + 1
  BY <1>2, WindowIs
<1>4. Within(w, t, o) /\ Len(w) = d - a + 1
  BY <1>3 DEF d
<1> HIDE DEF w
<1>5. Len(w) = h - a
  BY <1>2, <1>4 DEF d
<1>6. q \in 2..(Len(w) + 1) /\ q = p - a + 1 /\ o + q = p
  BY <1>1, <1>2, <1>5
<1> HIDE DEF o, q
<1>7. w \in Seq(Byte) /\ Len(w) \in Nat
  BY <1>4, WindowLen
<1>8. q \in 1..(Len(w) + 1)
  BY <1>6, <1>7
<1>9. Within(u, w, 0) /\ Len(u) = q - 1
  BY <1>7, <1>8, TwoParts
<1> HIDE DEF u
<1>10. Ending(u, w, 0)
  <2>1. CASE h = p
    <3>1. q - 1 = Len(w)
      BY <1>2, <1>5, <1>6, <2>1
    <3>2. 0 + Len(u) = Len(w)
      BY <1>7, <1>9, <3>1
    <3>. QED  BY <3>2 DEF Ending
  <2>2. CASE h # p
    <3>1. q \in 1..Len(w)
      BY <1>1, <1>2, <1>5, <1>6, <2>2
    <3> DEFINE l == Len(u)
    <3>2. l > 0 /\ l \in Nat /\ l = q - 1 /\ l \in 1..Len(w) /\ o + l = p - 1 /\ 0 + l = l
      BY <1>2, <1>6, <1>7, <1>9, <3>1 DEF o
    <3>3. ASSUME NEW k \in 1..l PROVE u[k] = t[o + k]
      <4>1. u[k] = w[0 + k] /\ 0 + k = k
        BY <1>9, <3>2 DEF Within
      <4>2. k \in 1..Len(w)
        BY <1>7, <3>2
      <4>3. w[k] = t[o + k]
        BY <1>4, <4>2 DEF Within
      <4>. QED  BY <4>1, <4>3
    <3>4. u[l] = 10
      <4> HIDE DEF l
      <4>1. l \in 1..l
        BY <3>2
      <4>2. u[l] = t[p - 1]
        BY <3>2, <3>3, <4>1
      <4>. QED  BY <4>2 DEF CutAt
    <3>5. ASSUME l > 1 PROVE u[l - 1] < 128 /\ AsciiClass(u[l - 1]) # "space"
      <4> HIDE DEF l
      <4> DEFINE k == l - 1
      <4>1. k \in 1..l /\ o + k = p - 2 /\ p > 2
        <5>1. p > 2
          BY <1>2, <1>6, <3>2, <3>5
        <5>2. k \in 1..l
          BY <3>2, <3>5
        <5>3. o + k = p - 2
          BY <1>2, <3>2
        <5>. QED  BY <5>1, <5>2, <5>3
      <4> HIDE DEF k
      <4>2. u[k] = t[p - 2]
        BY <3>3, <4>1
      <4>. QED  BY <4>1, <4>2 DEF CutAt, k
    <3>6. Past(u, w, 0, "space")
      <4>1. DecodeAt(w, q) = DecodeAt(t, o + q) \/ DecodeAt(w, q).cls = "other"
        BY <1>4, <3>1, DecodeWithin
      <4>2. DecodeAt(w, q).cls # "space"
        BY <1>6, <4>1 DEF CutAt
      <4>3. ~ In(w, q, {"space"})
        BY <1>7, <1>8, <4>2, InIs
      <4>4. 0 + Len(u) + 1 = q
        BY <1>6, <1>7, <1>9
      <4>. QED  BY <4>3, <4>4 DEF Past
    <3>. QED  BY <3>2, <3>4, <3>5, <3>6 DEF Ending
  <2>. QED  BY <2>1, <2>2
<1>11. Parts(w, q)
  BY <1>8, <1>10 DEF Parts, u
<1>12. Pieces(w) = Pieces(SubSeq(w, 1, q - 1)) \o Pieces(SubSeq(w, q, Len(w)))
  BY <1>7, <1>11, PiecesSplit
<1> DEFINE c == q - 1
           e == Len(w)
<1>13. 1 \in 1..(Len(w) + 1) /\ c \in (1 - 1)..Len(w) /\ e \in (q - 1)..Len(w) /\ o + 1 = a /\ o + c = p - 1 /\ o + e = h - 1
  BY <1>1, <1>2, <1>5, <1>6, <1>7 DEF o
<1> HIDE DEF c, e
<1>14. SamePart(w, t, o, 1, c)
  BY <1>4, <1>13, WindowPart
<1>15. SamePart(w, t, o, q, e)
  BY <1>4, <1>8, <1>13, WindowPart
<1>16. SubSeq(w, 1, c) = SubSeq(t, a, p - 1)
  BY <1>13, <1>14 DEF SamePart
<1>17. SubSeq(w, q, e) = SubSeq(t, p, h - 1)
  BY <1>6, <1>13, <1>15 DEF SamePart
<1>. QED  BY <1>12, <1>16, <1>17 DEF w, c, e

\* Pieces are not empty.
LEMMA PiecesNonEmpty == ASSUME NEW t, t \in Seq(Byte) PROVE Pieces(t) \in Seq(NonEmpty)
<1>1. PICK R : PiecesFrom(t, R) /\ Pieces(t) = R[1]
  BY PiecesGather
<1>2. 1 \in 1..(Len(t) + 1)
  BY LenProperties
<1>. QED  BY <1>1, <1>2 DEF PiecesFrom, Gathers

\* More pieces before a hit.
LEMMA MoreBefore ==
  ASSUME NEW x, NEW y, x \in Seq(NonEmpty), y \in Seq(NonEmpty), NEW hit,
         hit[2] = 0 \/ hit[2] \in DOMAIN Specials
  PROVE  AndHit(AsItems(x \o y), hit) = AsItems(x) \o AndHit(AsItems(y), hit)
<1> DEFINE X == AsItems(x)
           Y == AsItems(y)
           i == Special(hit[2])
<1>1. Into(PieceOf, NonEmpty, TextItem)
  <2>1. ASSUME NEW b \in NonEmpty PROVE PieceOf[b] \in TextItem
    <3>1. PieceOf[b] = Piece(b)
      BY Zenon DEF PieceOf
    <3>. QED  BY <3>1, ItemFields
  <2>. QED  BY <2>1 DEF Into
<1>2. x \o y \in Seq(NonEmpty)
  BY ConcatProperties
<1>3. X = Mapped(PieceOf, x) /\ Y = Mapped(PieceOf, y) /\ AsItems(x \o y) = Mapped(PieceOf, x \o y)
  BY <1>2, AsItemsIs
<1>4. Mapped(PieceOf, x \o y) = Mapped(PieceOf, x) \o Mapped(PieceOf, y)
  BY <1>1, MappedConcat
<1>5. X \in Seq(TextItem) /\ Y \in Seq(TextItem)
  BY AsItemsIs
<1> HIDE DEF X, Y
<1>6. CASE hit[2] = 0
  BY <1>3, <1>4, <1>6 DEF AndHit, X, Y
<1>7. CASE hit[2] # 0
  <2>1. i \in TextItem
    BY <1>7, ItemFields
  <2> HIDE DEF i
  <2>2. X \o Append(Y, i) = Append(X \o Y, i)
    BY <1>5, <2>1, ConcatAppend
  <2>. QED  BY <1>3, <1>4, <1>7, <2>2 DEF AndHit, X, Y, i
<1>. QED  BY <1>6, <1>7

\* u is the text before p.
TextBefore(u, t, p) == u = SubSeq(t, 1, p - 1)

\* Those of t are those of u, and then those of t from p on.
CutJoins(R, Q, p) == R[1] = Q[1] \o R[p]

\* The items of a text from a place before a cut: those up to the cut, then those behind it.
LEMMA ItemsToCut ==
  ASSUME NEW t, t \in Seq(Byte), NEW p, CutAt(t, p), NEW u, TextBefore(u, t, p),
         NEW R, ItemsFrom(t, R), NEW Q, ItemsFrom(u, Q)
  PROVE  CutJoins(R, Q, p)
<1> DEFINE n == Len(t)
           m == Len(u)
           z == R[p]
           K == {a \in 1..(m + 1) : R[a] = Q[a] \o z}
<1>1. n \in Nat /\ p \in 2..n /\ p \in 1..(n + 1)
  BY LenProperties DEF CutAt
<1>2. Within(u, t, 0) /\ m = p - 1
  BY <1>1, TwoParts DEF TextBefore
<1>3. u \in Seq(Byte) /\ m \in Nat
  BY <1>2, WindowLen
<1>4. m + 1 = p /\ m + 1 \in 1..(m + 1) /\ m <= n /\ m >= 1
  BY <1>1, <1>2
<1>41. p \in 1..n /\ p \in Nat
  BY <1>1
<1>5. HoldsWhole(u, t, 0)
  <2> SUFFICES ASSUME NEW h \in 1..m, NEW k \in DOMAIN Specials, Occurs(t, Specials[k], 0 + h)
               PROVE  h + Len(Specials[k]) <= m + 1
    BY DEF HoldsWhole
  <2> DEFINE s == Specials[k]
             l == Len(s)
  <2>1. s \in ToSet(Specials) /\ l \in Nat
    BY SpecialsAre DEF ToSet
  <2>2. h \in 1..(p - 1) /\ 0 + h = h /\ h \in Nat
    BY <1>2, <1>3
  <2>3. ~ Straddles(t, p)
    BY DEF CutAt
  <2> HIDE DEF s, m
  <2>4. ~ (h + Len(s) > p)
    BY <2>1, <2>2, <2>3 DEF Straddles, s
  <2>5. h + l <= m + 1
    <3> HIDE DEF l
    <3>. QED  BY <1>1, <1>4, <2>1, <2>2, <2>4 DEF l
  <2>. QED  BY <2>5 DEF s
<1>12. PICK o : o = 0
  OBVIOUS
<1>13. Within(u, t, o) /\ HoldsWhole(u, t, o)
  BY <1>2, <1>5, <1>12
<1>6. z \in Seq(TextItem)
  BY <1>1 DEF ItemsFrom, Gathers
<1>7. m + 1 \in K
  <2>1. Q[m + 1] = <<>>
    BY DEF ItemsFrom, Gathers
  <2>2. <<>> \o z = z
    BY <1>6, ConcatEmptySeq
  <2>. QED  BY <1>4, <2>1, <2>2
<1> HIDE DEF z, m, n
<1>8. ASSUME NEW a \in 1..m, \A b \in (a + 1)..(m + 1) : b \in K PROVE R[a] = Q[a] \o z
  <2> DEFINE hit == FindSpecial(u, a)
             far == FindSpecial(t, a)
             e == EndOf(hit)
             x == AndHit(RunTo(u, hit, a), hit)
  <2>1. a \in 1..(m + 1) /\ a \in 1..n /\ a \in 1..(n + 1) /\ o + a = a /\ o + (m + 1) = p
    BY <1>1, <1>3, <1>4, <1>12
  <2>2. IsHit(u, a, hit) /\ IsHit(t, a, far)
    BY <1>3, <2>1, HitIs DEF m, n
  <2>3. ItemEnd(u)[a] = e /\ ItemRun(u)[a] = x
    BY Zenon DEF ItemEnd, ItemRun, m
  <2>4. ItemEnd(t)[a] = EndOf(far) /\ ItemRun(t)[a] = AndHit(RunTo(t, far, a), far)
    BY <2>1, Zenon DEF ItemEnd, ItemRun, n
  <2>5. e \in (a + 1)..(m + 1) /\ x \in Seq(TextItem)
    BY <1>3, <2>3, ItemsMove DEF Moves, m
  <2>6. Q[a] = x \o Q[e]
    BY <2>3 DEF ItemsFrom, Gathers, m
  <2>7. R[a] = AndHit(RunTo(t, far, a), far) \o R[EndOf(far)]
    BY <2>1, <2>4 DEF ItemsFrom, Gathers, n
  <2>8. \/ hit[2] # 0 /\ FindSpecial(t, o + a) = <<o + hit[1], hit[2]>>
        \/ hit = <<m + 1, 0>> /\ FindSpecial(t, o + a) = FindSpecial(t, o + (m + 1))
    <3>1. a \in 1..(Len(u) + 1)
      BY <2>1 DEF m
    <3>. QED  BY ONLY <1>13, <3>1, FindWithin DEF m, hit
  <2>9. Q[e] \in Seq(TextItem) /\ R[e] = Q[e] \o z
    <3> HIDE DEF e, x
    <3>1. e \in K
      BY <1>8, <2>5
    <3>2. e \in 1..(m + 1)
      BY <3>1
    <3>. QED  BY <3>1, <3>2 DEF ItemsFrom, Gathers, m
  <2>10. CASE hit[2] # 0 /\ FindSpecial(t, o + a) = <<o + hit[1], hit[2]>>
    <3>1. far = <<o + hit[1], hit[2]>>
      BY <2>1, <2>10
    <3> HIDE DEF hit, far
    <3>2. Further(hit, far, o)
      BY <3>1 DEF Further
    <3>3. EndOf(far) = o + EndOf(hit) /\ AndHit(RunTo(t, far, o + a), far) = AndHit(RunTo(u, hit, a), hit)
      <4>1. a \in 1..(Len(u) + 1)
        BY <2>1 DEF m
      <4>2. IsHit(u, a, hit) /\ Within(u, t, o)
        BY <1>13, <2>2
      <4> HIDE DEF e, x, K
      <4>3. EndsFurther(hit, far, o)
        BY ONLY <3>2, <4>1, <4>2, HitWithin
      <4>4. AndHit(RunTo(t, far, o + a), far) = AndHit(RunTo(u, hit, a), hit)
        BY ONLY <3>2, <4>1, <4>2, HitWithin
      <4>. QED  BY <4>3, <4>4 DEF EndsFurther
    <3> HIDE DEF e
    <3>4. o + e = e
      BY <1>3, <1>12, <2>5
    <3>5. EndOf(far) = e /\ AndHit(RunTo(t, far, a), far) = x
      BY <2>1, <3>3, <3>4 DEF e
    <3> DEFINE q == Q[e]
    <3> HIDE DEF x
    <3>6. R[a] = x \o R[e]
      BY <2>7, <3>5
    <3> HIDE DEF q
    <3>7. (x \o q) \o z = x \o (q \o z)
      <4>1. q \in Seq(TextItem)
        BY <2>9 DEF q
      <4>. QED  BY ONLY <1>6, <2>5, <4>1, Associates
    <3>. QED  BY <2>6, <2>9, <3>6, <3>7 DEF q
  <2>11. CASE hit = <<m + 1, 0>> /\ FindSpecial(t, o + a) = FindSpecial(t, o + (m + 1))
    <3> DEFINE f == FindSpecial(t, p)
               E == R[EndOf(f)]
               h == f[1]
               X == Pieces(SubSeq(t, a, p - 1))
               Y == Pieces(SubSeq(t, p, h - 1))
    <3>1. far = f
      BY <2>1, <2>11
    <3>2. IsHit(t, p, f) /\ EndOf(f) \in p..(n + 1)
      BY <1>1, HitIs DEF n
    <3>3. ItemEnd(t)[p] = EndOf(f) /\ ItemRun(t)[p] = AndHit(RunTo(t, f, p), f)
      BY <1>41, Zenon DEF ItemEnd, ItemRun, n
    <3>4. z = AndHit(RunTo(t, f, p), f) \o E
      BY <1>41, <3>3 DEF ItemsFrom, Gathers, n, z
    <3>5. h \in p..(n + 1)
      BY <1>1, <3>2, RunIs DEF n
    <3>6. f[2] = 0 \/ f[2] \in DOMAIN Specials
      BY <3>2 DEF IsHit
    <3>7. E \in Seq(TextItem)
      <4> DEFINE b == EndOf(f)
      <4>1. b \in 1..(n + 1)
        BY <1>1, <3>2
      <4> HIDE DEF b
      <4>2. R[b] \in Seq(TextItem)
        BY <4>1 DEF ItemsFrom, Gathers, n
      <4>. QED  BY <4>2 DEF b
    <3> HIDE DEF f, E
    <3>8. Pieces(SubSeq(t, a, h - 1)) = X \o Y
      <4>1. a \in 1..(p - 1) /\ h \in p..(Len(t) + 1)
        BY <1>2, <3>5 DEF n, m
      <4> HIDE DEF h
      <4>. QED  BY <4>1, CutParts
    <3>9. X \in Seq(NonEmpty) /\ Y \in Seq(NonEmpty)
      <4>1. p - 1 \in 0..n /\ h - 1 \in 0..n
        BY <1>1, <3>5
      <4> DEFINE c == p - 1
                 d == h - 1
      <4>2. c \in 0..n /\ d \in 0..n
        BY <4>1
      <4> HIDE DEF c, d
      <4>3. SubSeq(t, a, c) \in Seq(Byte) /\ SubSeq(t, p, d) \in Seq(Byte)
        BY <1>1, <2>1, <4>2, PartIs DEF n
      <4> DEFINE v == SubSeq(t, a, c)
                 w == SubSeq(t, p, d)
      <4> HIDE DEF v, w
      <4>4. Pieces(v) \in Seq(NonEmpty) /\ Pieces(w) \in Seq(NonEmpty)
        BY <4>3, PiecesNonEmpty DEF v, w
      <4>. QED  BY <4>4 DEF v, w, c, d
    <3>10. RunTo(t, f, a) = AsItems(X \o Y) /\ RunTo(t, f, p) = AsItems(Y)
      BY <3>8 DEF RunTo
    <3>11. x = AsItems(X) /\ e = m + 1
      <4>1. SamePart(u, t, 0, a, m)
        <5>1. a \in 1..(Len(u) + 1) /\ m \in (a - 1)..Len(u)
          BY <1>3, <2>1 DEF m
        <5>. QED  BY <1>2, <5>1, WindowPart
      <4>2. SubSeq(u, a, m) = SubSeq(t, a, p - 1)
        <5>1. 0 + a = a /\ 0 + m = p - 1
          BY <1>2, <1>3, <2>1
        <5>. QED  BY <4>1, <5>1 DEF SamePart
      <4> HIDE DEF hit
      <4>3. hit[1] - 1 = m /\ hit[1] = m + 1 /\ hit[2] = 0
        BY <1>3, <2>11
      <4>4. RunTo(u, hit, a) = AsItems(X)
        BY <4>2, <4>3 DEF RunTo
      <4>. QED  BY <4>3, <4>4 DEF AndHit, EndOf
    <3> HIDE DEF X, Y, h, far, hit, x, e
    <3>12. AndHit(AsItems(X \o Y), f) = AsItems(X) \o AndHit(AsItems(Y), f)
      BY <3>6, <3>9, MoreBefore
    <3> DEFINE Z == AndHit(AsItems(Y), f)
    <3>13. Z \in Seq(TextItem)
      <4>1. AndHit(RunTo(t, f, p), f) \in Seq(TextItem)
        BY <1>1, <3>2, RunIs DEF n, f
      <4>. QED  BY <3>10, <4>1
    <3> HIDE DEF Z
    <3>14. (x \o Z) \o E = x \o (Z \o E)
      BY ONLY <2>5, <3>7, <3>13, Associates
    <3>15. R[a] = x \o z
      <4>1. R[a] = (x \o Z) \o E
        BY <2>7, <3>1, <3>10, <3>11, <3>12 DEF Z, E
      <4>2. z = Z \o E
        BY <3>4, <3>10 DEF Z
      <4>. QED  BY <3>14, <4>1, <4>2
    <3>16. Q[a] = x
      <4>1. Q[m + 1] = <<>>
        BY DEF ItemsFrom, Gathers, m
      <4>2. x \o <<>> = x
        BY <2>5, ConcatEmptySeq
      <4>. QED  BY <2>6, <3>11, <4>1, <4>2
    <3>. QED  BY <3>15, <3>16
  <2> HIDE DEF hit, far
  <2>. QED  BY <2>8, <2>10, <2>11
<1>9. \A a \in 1..m : (\A b \in (a + 1)..(m + 1) : b \in K) => a \in K
  <2>1. \A a \in 1..m : a \in 1..(m + 1)
    BY <1>3
  <2>. QED  BY <1>8, <2>1
<1>10. \A a \in 1..(m + 1) : a \in K
  <2> HIDE DEF K
  <2>. QED  BY <1>3, <1>7, <1>9, Downward
<1>11. 1 \in 1..(m + 1)
  BY <1>3
<1>. QED  BY <1>10, <1>11 DEF z, CutJoins

\* The items of a text are those of the parts a cut leaves.
LEMMA ItemsSplit ==
  ASSUME NEW t, t \in Seq(Byte), NEW p, CutAt(t, p)
  PROVE  Items(t) = Items(SubSeq(t, 1, p - 1)) \o Items(SubSeq(t, p, Len(t)))
<1> DEFINE u == SubSeq(t, 1, p - 1)
           v == SubSeq(t, p, Len(t))
           o == p - 1
<1>1. p \in 1..(Len(t) + 1) /\ o + 1 = p
  BY LenProperties DEF CutAt
<1>2. Within(u, t, 0) /\ Within(v, t, o) /\ o + Len(v) = Len(t)
  BY <1>1, TwoParts
<1>3. u \in Seq(Byte) /\ v \in Seq(Byte)
  BY <1>2, WindowLen
<1>4. PICK R : ItemsFrom(t, R) /\ Items(t) = R[1]
  BY ItemsGather
<1> HIDE DEF u, v, o
<1>6. PICK Q : ItemsFrom(u, Q) /\ Items(u) = Q[1]
  BY <1>3, ItemsGather
<1>7. PICK P : ItemsFrom(v, P) /\ Items(v) = P[1]
  BY <1>3, ItemsGather
<1>8. R[1] = Q[1] \o R[p]
  <2>1. TextBefore(u, t, p)
    BY DEF u, TextBefore
  <2>2. CutJoins(R, Q, p)
    BY <1>4, <1>6, <2>1, ItemsToCut
  <2>. QED  BY <2>2 DEF CutJoins
<1>9. R[o + 1] = P[1]
  BY <1>2, <1>4, <1>7, ItemsBehind
<1>. QED  BY <1>1, <1>4, <1>6, <1>7, <1>8, <1>9 DEF u, v

\* The encodings of the two parts a cut leaves are the encoding of the text.
SplitAt(t, p) == Encoding(t) = Encoding(SubSeq(t, 1, p - 1)) \o Encoding(SubSeq(t, p, Len(t)))

\* A cut parts the encoding.
LEMMA EncodingSplit ==
  ASSUME IsMerges(merges), NEW t, t \in Seq(Byte), NEW p, CutAt(t, p)
  PROVE  SplitAt(t, p)
<1> DEFINE u == SubSeq(t, 1, p - 1)
           v == SubSeq(t, p, Len(t))
           f == IdsBy(merges)
           D == Ids(merges)
<1>1. p \in 1..(Len(t) + 1)
  BY LenProperties DEF CutAt
<1>2. Within(u, t, 0) /\ Within(v, t, p - 1)
  BY <1>1, TwoParts
<1>3. u \in Seq(Byte) /\ v \in Seq(Byte)
  BY <1>2, WindowLen
<1>4. Items(t) = Items(u) \o Items(v)
  BY ItemsSplit
<1> HIDE DEF u, v
<1>5. Items(u) \in Seq(TextItem) /\ Encoding(u) = Hom(f, Items(u))
  BY <1>3, RoundTrip
<1>6. Items(v) \in Seq(TextItem) /\ Encoding(v) = Hom(f, Items(v))
  BY <1>3, RoundTrip
<1>7. Encoding(t) = Hom(f, Items(t))
  BY RoundTrip
<1>8. Gives(f, TextItem, D)
  BY IdsBySpell
<1> DEFINE x == Items(u)
           y == Items(v)
<1> HIDE DEF f, D, x, y
<1>9. Hom(f, x \o y) = Hom(f, x) \o Hom(f, y)
  <2>1. x \in Seq(TextItem) /\ y \in Seq(TextItem)
    BY <1>5, <1>6 DEF x, y
  <2>. QED  BY ONLY <1>8, <2>1, HomConcat
<1>10. Encoding(t) = Encoding(u) \o Encoding(v)
  BY <1>4, <1>5, <1>6, <1>7, <1>9 DEF x, y
<1>. QED  BY <1>10 DEF SplitAt, u, v

\* The empty text encodes to no ids.
LEMMA EncodingOfNone == ASSUME IsMerges(merges) PROVE Encoding(<<>>) = <<>>
<1> DEFINE t == <<>>
<1>1. t \in Seq(Byte) /\ Len(t) = 0
  BY EmptySeq
<1> HIDE DEF t
<1>2. PICK R : ItemsFrom(t, R) /\ Items(t) = R[1]
  BY <1>1, ItemsGather
<1>3. R[Len(t) + 1] = <<>>
  BY <1>2 DEF ItemsFrom, Gathers
<1>4. Len(t) + 1 = 1
  BY <1>1
<1>5. Items(t) = <<>>
  BY <1>2, <1>3, <1>4
<1>6. Encoding(t) = Hom(IdsBy(merges), Items(t))
  BY <1>1, RoundTrip
<1>7. Encoding(t) = <<>>
  BY <1>5, <1>6, HomSmall
<1>. QED  BY <1>7 DEF t

\* A cut of the text is a cut of what is left of it.
LEMMA CutBehind ==
  ASSUME NEW t, t \in Seq(Byte), NEW a, a \in 1..Len(t), NEW p, p \in (a + 1)..Len(t), CutAt(t, p)
  PROVE  CutAt(SubSeq(t, a, Len(t)), p - a + 1)
<1> DEFINE n == Len(t)
           v == SubSeq(t, a, n)
           o == a - 1
           q == p - a + 1
<1>1. n \in Nat /\ a \in 1..(n + 1) /\ o \in Nat /\ a \in Nat /\ p \in Nat
  BY LenProperties
<1>2. Within(v, t, o) /\ o + Len(v) = n
  BY <1>1, TwoParts
<1> HIDE DEF v
<1>3. Flush(v, t, o)
  BY <1>2 DEF Flush
<1>4. Len(v) \in Nat
  BY <1>2, WindowLen
<1>5. q \in 2..Len(v) /\ o + q = p /\ q \in Nat /\ q \in 1..Len(v)
  BY <1>1, <1>2, <1>4
<1>6. t[p - 1] = 10 /\ (p > 2 => t[p - 2] < 128 /\ AsciiClass(t[p - 2]) # "space") /\ DecodeAt(t, p).cls # "space"
      /\ ~ Straddles(t, p)
  BY DEF CutAt
<1> HIDE DEF q, o, n
<1>7. ASSUME NEW k, k \in 1..Len(v) PROVE v[k] = t[o + k]
  BY <1>2, <1>7 DEF Within
<1>8. v[q - 1] = 10
  <2> DEFINE k == q - 1
  <2>1. k \in 1..Len(v) /\ o + k = p - 1
    BY <1>1, <1>4, <1>5
  <2> HIDE DEF k
  <2>2. v[k] = 10
    BY <1>6, <1>7, <2>1
  <2>. QED  BY <2>2 DEF k
<1>9. ASSUME q > 2 PROVE v[q - 2] < 128 /\ AsciiClass(v[q - 2]) # "space"
  <2> DEFINE k == q - 2
  <2>1. k \in 1..Len(v) /\ o + k = p - 2 /\ p > 2
    BY <1>1, <1>4, <1>5, <1>9
  <2> HIDE DEF k
  <2>2. v[k] = t[p - 2]
    BY <1>7, <2>1
  <2>. QED  BY <1>6, <2>1, <2>2 DEF k
<1>10. DecodeAt(v, q).cls # "space"
  <2>1. DecodeAt(v, q) = DecodeAt(t, o + q)
    BY <1>2, <1>3, <1>5, DecodeWithin
  <2>. QED  BY <1>5, <1>6, <2>1
<1>11. ASSUME Straddles(v, q) PROVE FALSE
  <2>1. PICK s \in ToSet(Specials), h \in 1..(q - 1) : Occurs(v, s, h) /\ h + Len(s) > q
    BY <1>11 DEF Straddles
  <2>2. PICK k \in DOMAIN Specials : s = Specials[k]
    BY DEF ToSet
  <2>3. h \in 1..Len(v) /\ h \in Nat
    BY <1>4, <1>5
  <2>4. Len(s) \in Nat
    BY <2>2, SpecialsAre
  <2>5. Occurs(v, Specials[k], h)
    BY <2>1, <2>2
  <2>6. Occurs(t, Specials[k], o + h)
    BY <1>2, <2>3, <2>5, OccursWithin
  <2> DEFINE c == o + h
             l == Len(s)
  <2>7. c \in 1..(p - 1)
    BY <1>1, <1>5, <2>3
  <2>8. c + l > p
    <3> HIDE DEF l
    <3>. QED  BY <1>1, <1>5, <2>1, <2>3, <2>4 DEF l
  <2>9. Occurs(t, s, c)
    BY <2>2, <2>6
  <2> HIDE DEF c
  <2>. QED  BY <1>6, <2>7, <2>8, <2>9 DEF Straddles
<1>. QED  BY <1>5, <1>8, <1>9, <1>10, <1>11 DEF CutAt, v, q, n

\* Where a chunk that starts at a ends, and the chunk.
ChunkEnd(t, size) ==
  [a \in 1..Len(t) |-> IF Cuts(t, a + size) = {} THEN Len(t) + 1 ELSE Min(Cuts(t, a + size))]
Chunk1(t, size) == [a \in 1..Len(t) |-> <<SubSeq(t, a, ChunkEnd(t, size)[a] - 1)>>]

\* A chunk ends with the text or at a cut.
LEMMA ChunkEndIs ==
  ASSUME NEW t, t \in Seq(Byte), NEW size, size \in Nat \ {0}, NEW a, a \in 1..Len(t)
  PROVE  \/ ChunkEnd(t, size)[a] = Len(t) + 1
         \/ ChunkEnd(t, size)[a] \in (a + 1)..Len(t) /\ CutAt(t, ChunkEnd(t, size)[a])
<1> DEFINE n == Len(t)
           from == a + size
           K == Cuts(t, from)
           e == ChunkEnd(t, size)[a]
<1>1. n \in Nat /\ a \in Nat /\ from \in Nat /\ from >= a + 1
  BY LenProperties
<1>2. e = IF K = {} THEN n + 1 ELSE Min(K)
  BY Zenon DEF ChunkEnd
<1> HIDE DEF from, e
<1>3. ASSUME NEW p, p \in K PROVE p \in (a + 1)..n /\ CutAt(t, p)
  <2>1. p \in 2..n /\ p >= from
    BY <1>3 DEF Cuts
  <2>2. CutAt(t, p)
    BY <1>3 DEF Cuts, CutAt
  <2>. QED  BY <1>1, <2>1, <2>2
<1> HIDE DEF K
<1>4. CASE K # {}
  <2>1. K \in SUBSET Nat
    BY <1>1, <1>3
  <2>2. \E x \in K : \A y \in K : x <= y
    BY <1>4, <2>1, LeastElement
  <2>3. Min(K) \in K
    BY <2>2, Zenon DEF Min
  <2>4. e \in K
    BY <1>2, <1>4, <2>3
  <2>. QED  BY <1>3, <2>4 DEF e, n
<1>. QED  BY <1>2, <1>4 DEF e, n

\* Chunks move on and are not empty.
LEMMA ChunksMove ==
  ASSUME NEW t, t \in Seq(Byte), NEW size, size \in Nat \ {0}
  PROVE  Moves(Len(t), ChunkEnd(t, size), Chunk1(t, size), NonEmpty)
<1> DEFINE n == Len(t)
<1>0. n \in Nat
  BY LenProperties
<1> SUFFICES ASSUME NEW a, a \in 1..n
             PROVE ChunkEnd(t, size)[a] \in (a + 1)..(n + 1) /\ Chunk1(t, size)[a] \in Seq(NonEmpty)
  BY DEF Moves
<1> DEFINE q == ChunkEnd(t, size)[a]
           x == SubSeq(t, a, q - 1)
<1>1. q \in (a + 1)..(n + 1)
  <2>1. q = n + 1 \/ q \in (a + 1)..n
    BY ChunkEndIs
  <2> HIDE DEF q
  <2>. QED  BY <1>0, <2>1
<1>2. Chunk1(t, size)[a] = <<x>>
  BY Zenon DEF Chunk1
<1> HIDE DEF q
<1>3. a \in 1..(n + 1) /\ q - 1 \in (a - 1)..n /\ (q - 1) - a + 1 = q - a /\ q - a > 0
  BY <1>0, <1>1
<1> DEFINE d == q - 1
<1>4. d \in (a - 1)..n /\ d - a + 1 > 0
  BY <1>0, <1>1, <1>3
<1> HIDE DEF d
<1>5. Within(SubSeq(t, a, d), t, a - 1) /\ Len(SubSeq(t, a, d)) = d - a + 1
  BY <1>3, <1>4, WindowIs
<1>6. x \in Seq(Byte) /\ Len(x) > 0
  BY <1>4, <1>5, WindowLen DEF d
<1> HIDE DEF x
<1>7. x # <<>>
  BY <1>6, EmptySeq
<1>8. x \in NonEmpty
  BY <1>6, <1>7 DEF NonEmpty
<1>9. <<x>> \in Seq(NonEmpty)
  BY <1>8
<1>. QED  BY <1>1, <1>2, <1>9 DEF q

\* R[a] is the chunks of t from a on.
ChunksFrom(t, size, R) == Gathers(R, Len(t), ChunkEnd(t, size), Chunk1(t, size), NonEmpty)

\* Chunks gathers them.
LEMMA ChunksGather ==
  ASSUME NEW t, t \in Seq(Byte), NEW size, size \in Nat \ {0}
  PROVE  \E R : ChunksFrom(t, size, R) /\ Chunks(t, size) = R[1]
<1> DEFINE n == Len(t)
           S == NonEmpty
           nx == ChunkEnd(t, size)
           blk == Chunk1(t, size)
           mk == [z \in (1..(n + 1)) \X Seq(S) |-> [at |-> z[1], chunks |-> z[2]]]
           step == ChunkStep(t, size)
<1>0. n \in Nat
  BY LenProperties
<1>1. Moves(n, nx, blk, S)
  BY ChunksMove
<1>2. PICK R : Gathers(R, n, nx, blk, S)
  <2> HIDE DEF nx, blk, S, n
  <2>. QED  BY <1>0, <1>1, GatherExists
<1>3. ASSUME NEW a, NEW acc, a \in 1..(n + 1), acc \in Seq(S)
      PROVE  /\ mk[<<a, acc>>] = [at |-> a, chunks |-> acc]
             /\ mk[<<a, acc>>] \in [at : Nat, chunks : Seq(Seq(Nat))]
  <2>1. <<a, acc>> \in (1..(n + 1)) \X Seq(S)
    BY <1>3
  <2>2. mk[<<a, acc>>] = [at |-> <<a, acc>>[1], chunks |-> <<a, acc>>[2]]
    BY <2>1, Zenon
  <2>3. <<a, acc>>[1] = a /\ <<a, acc>>[2] = acc
    OBVIOUS
  <2>4. acc \in Seq(Seq(Nat))
    BY <1>3, TextsAreNat
  <2>5. a \in Nat
    BY <1>0, <1>3
  <2>. QED  BY <2>2, <2>3, <2>4, <2>5
<1>4. ASSUME NEW a, NEW acc, a \in 1..(n + 1), acc \in Seq(S)
      PROVE  /\ a > n => step[[at |-> a, chunks |-> acc]] = [at |-> a, chunks |-> acc]
             /\ ~ (a > n) => step[[at |-> a, chunks |-> acc]]
                               = [at |-> nx[a], chunks |-> Append(acc, SubSeq(t, a, nx[a] - 1))]
  <2> DEFINE s == [at |-> a, chunks |-> acc]
             cut(b) == IF Cuts(t, b + size) = {} THEN Len(t) + 1 ELSE Min(Cuts(t, b + size))
             c == cut(a)
  <2>1. s \in [at : Nat, chunks : Seq(Seq(Nat))] /\ s.at = a /\ s.chunks = acc
    BY <1>3, <1>4
  <2> HIDE DEF s
  <2>2. step[s] = IF s.at > Len(t) THEN s
                  ELSE [at |-> cut(s.at), chunks |-> Append(s.chunks, SubSeq(t, s.at, cut(s.at) - 1))]
    BY <2>1, Zenon DEF ChunkStep
  <2>3. step[s] = IF a > n THEN s ELSE [at |-> c, chunks |-> Append(acc, SubSeq(t, a, c - 1))]
    BY <2>1, <2>2
  <2>4. ~ (a > n) => nx[a] = c
    <3> SUFFICES ASSUME ~ (a > n) PROVE nx[a] = c
      OBVIOUS
    <3>1. a \in 1..Len(t)
      BY <1>0, <1>4
    <3>. QED  BY <3>1, Zenon DEF ChunkEnd
  <2> HIDE DEF c, nx, step, n
  <2>. QED  BY <2>3, <2>4 DEF s
<1>5. Loops(step, mk, n, nx, blk, S)
  <2>1. ASSUME NEW a \in 1..n, NEW acc \in Seq(S)
        PROVE step[mk[<<a, acc>>]] = mk[<<nx[a], acc \o blk[a]>>]
    <3>1. a \in 1..(n + 1) /\ ~ (a > n)
      BY <1>0
    <3> DEFINE q == nx[a]
               x == SubSeq(t, a, q - 1)
    <3>2. blk[a] = <<x>>
      BY Zenon DEF Chunk1
    <3>3. q \in (a + 1)..(n + 1) /\ <<x>> \in Seq(S)
      BY <1>1, <3>2 DEF Moves
    <3>4. x \in S
      BY <3>3
    <3>41. step[[at |-> a, chunks |-> acc]] = [at |-> q, chunks |-> Append(acc, x)]
      <4> HIDE DEF nx, step, S, n
      <4>. QED  BY <1>4, <3>1
    <3> HIDE DEF x, q
    <3>5. Append(acc, x) = acc \o <<x>> /\ acc \o <<x>> \in Seq(S)
      BY <3>3, <3>4, AppendIsConcat, ConcatProperties
    <3>6. q \in 1..(n + 1)
      BY <3>1, <3>3
    <3> HIDE DEF mk, step, n, nx, blk
    <3>8. step[mk[<<a, acc>>]] = [at |-> q, chunks |-> Append(acc, x)]
      BY <1>3, <3>1, <3>41
    <3>9. mk[<<q, acc \o <<x>>>>] = [at |-> q, chunks |-> acc \o <<x>>]
      BY <1>3, <3>5, <3>6
    <3>. QED  BY <3>2, <3>5, <3>8, <3>9 DEF q
  <2>2. ASSUME NEW acc \in Seq(S) PROVE step[mk[<<n + 1, acc>>]] = mk[<<n + 1, acc>>]
    <3> DEFINE e == n + 1
    <3>1. e \in 1..(n + 1) /\ e > n
      BY <1>0
    <3> HIDE DEF mk, step, n, e, nx, blk
    <3>2. mk[<<e, acc>>] = [at |-> e, chunks |-> acc]
      BY <1>3, <3>1
    <3>3. step[[at |-> e, chunks |-> acc]] = [at |-> e, chunks |-> acc]
      BY <1>4, <3>1
    <3>. QED  BY <3>2, <3>3 DEF e
  <2>. QED  BY <2>1, <2>2 DEF Loops
<1>6. Chunks(t, size) = Repeat(step, n, [at |-> 1, chunks |-> <<>>]).chunks
  BY DEF Chunks
<1>7. 1 \in 1..(n + 1) /\ n + 1 \in 1..(n + 1) /\ <<>> \in Seq(S)
  BY <1>0, EmptySeq
<1>8. mk[<<1, <<>>>>] = [at |-> 1, chunks |-> <<>>]
  BY <1>3, <1>7
<1>9. R[1] \in Seq(S)
  BY <1>2, <1>7 DEF Gathers
<1>10. <<>> \o R[1] = R[1]
  BY <1>9, ConcatEmptySeq
<1>11. mk[<<n + 1, R[1]>>] = [at |-> n + 1, chunks |-> R[1]]
  BY <1>3, <1>7, <1>9
<1> HIDE DEF mk, step, S, n, nx, blk
<1>12. Repeat(step, n, mk[<<1, <<>>>>]) = mk[<<n + 1, <<>> \o R[1]>>]
  <2>1. Gathered(R, step, mk, n, S)
    BY ONLY <1>0, <1>1, <1>2, <1>5, LoopGathers
  <2>. QED  BY <1>7, <2>1, Zenon DEF Gathered
<1>13. Chunks(t, size) = R[1]
  BY <1>6, <1>8, <1>10, <1>11, <1>12
<1>. QED  BY <1>2, <1>13 DEF ChunksFrom, S, n, nx, blk

\* What each chunk encodes to.
EncFn == [c \in NonEmpty |-> Encoding(c)]

\* The chunks from a on encode to what the text from there on does.
RestIs(t, R, a) == Hom(EncFn, R[a]) = Encoding(SubSeq(t, a, Len(t)))

\* One chunk more.
LEMMA RestOn ==
  ASSUME IsMerges(merges), NEW t, t \in Seq(Byte), NEW size, size \in Nat \ {0}, NEW R, ChunksFrom(t, size, R),
         NEW a, a \in 1..Len(t), RestIs(t, R, ChunkEnd(t, size)[a])
  PROVE  RestIs(t, R, a)
<1> DEFINE n == Len(t)
           e == ChunkEnd(t, size)[a]
           c == SubSeq(t, a, e - 1)
           v == SubSeq(t, a, n)
           o == a - 1
           y == R[e]
           D == Ids(merges)
<1>1. n \in Nat /\ a \in Nat /\ o \in Nat /\ a \in 1..(n + 1) /\ o + 1 = a
  BY LenProperties
<1>2. e = n + 1 \/ (e \in (a + 1)..n /\ CutAt(t, e))
  BY ChunkEndIs
<1>3. e \in (a + 1)..(n + 1) /\ Chunk1(t, size)[a] \in Seq(NonEmpty)
  BY ChunksMove DEF Moves
<1>4. Chunk1(t, size)[a] = <<c>>
  BY Zenon DEF Chunk1
<1>5. R[a] = Chunk1(t, size)[a] \o y
  BY DEF ChunksFrom, Gathers
<1> HIDE DEF e
<1>6. y \in Seq(NonEmpty)
  <2>1. e \in 1..(n + 1)
    BY <1>1, <1>3
  <2>. QED  BY <2>1 DEF ChunksFrom, Gathers
<1>7. c \in NonEmpty /\ c \in Seq(Byte)
  <2>1. <<c>> \in Seq(NonEmpty)
    BY <1>3, <1>4
  <2> HIDE DEF c
  <2>2. c \in NonEmpty
    BY <2>1
  <2>. QED  BY <2>2 DEF NonEmpty
<1>8. Hom(EncFn, R[a]) = Encoding(c) \o Hom(EncFn, y)
  <2>1. Gives(EncFn, NonEmpty, D)
    <3>1. ASSUME NEW x \in NonEmpty PROVE EncFn[x] \in Seq(D)
      <4>1. x \in Seq(Byte)
        BY DEF NonEmpty
      <4>2. Encoding(x) \in Seq(D)
        BY <4>1, RoundTrip
      <4>. QED  BY <4>2, Zenon DEF EncFn
    <3>. QED  BY <3>1 DEF Gives
  <2>2. EncFn[c] = Encoding(c)
    BY <1>7, Zenon DEF EncFn
  <2> DEFINE f == EncFn
             A == NonEmpty
  <2> HIDE DEF c, y, D
  <2>3. Gives(f, A, D) /\ c \in A /\ y \in Seq(A)
    BY <1>6, <1>7, <2>1
  <2> HIDE DEF f, A
  <2>4. Hom(f, <<c>> \o y) = f[c] \o Hom(f, y)
    <3> DEFINE w == <<c>>
    <3>1. w \in Seq(A)
      BY <2>3
    <3>2. Hom(f, w) = f[c]
      BY HomSmall
    <3> HIDE DEF w
    <3>3. Hom(f, w \o y) = Hom(f, w) \o Hom(f, y)
      BY ONLY <2>3, <3>1, HomConcat
    <3>. QED  BY <3>2, <3>3 DEF w
  <2>. QED  BY <1>4, <1>5, <2>2, <2>4 DEF f
<1>9. Hom(EncFn, y) = Encoding(SubSeq(t, e, n))
  BY DEF RestIs, e
<1>10. Within(v, t, o) /\ o + Len(v) = n
  BY <1>1, TwoParts
<1>11. CASE e = n + 1
  <2>1. e \in 1..(n + 1)
    BY <1>1, <1>3
  <2>2. Within(SubSeq(t, e, n), t, e - 1) /\ (e - 1) + Len(SubSeq(t, e, n)) = n
    BY <2>1, TwoParts
  <2> DEFINE z == SubSeq(t, e, n)
  <2>3. z \in Seq(Byte) /\ Len(z) \in Nat
    BY <2>2, WindowLen
  <2> HIDE DEF z, n
  <2>4. Len(z) = 0
    BY <1>1, <1>11, <2>2, <2>3 DEF z
  <2>5. z = <<>>
    BY <2>3, <2>4, EmptySeq
  <2>6. Hom(EncFn, y) = <<>>
    BY <1>9, <2>5, EncodingOfNone DEF z
  <2>7. e - 1 = n
    BY <1>1, <1>11
  <2> HIDE DEF y
  <2>8. Encoding(c) \in Seq(D)
    <3> HIDE DEF c, D
    <3>. QED  BY <1>7, RoundTrip DEF D
  <2>9. Encoding(c) \o <<>> = Encoding(c)
    <3> HIDE DEF c, D
    <3>. QED  BY <2>8, ConcatEmptySeq
  <2>. QED  BY <1>8, <2>6, <2>7, <2>9 DEF RestIs, n
<1>12. CASE e \in (a + 1)..n /\ CutAt(t, e)
  <2> DEFINE q == e - a + 1
  <2>1. CutAt(v, q)
    <3>. QED  BY <1>12, CutBehind
  <2>2. v \in Seq(Byte) /\ Len(v) \in Nat
    BY <1>10, WindowLen
  <2> HIDE DEF v, q
  <2>3. SplitAt(v, q)
    BY <2>1, <2>2, EncodingSplit
  <2> DEFINE b == q - 1
             l == Len(v)
  <2> HIDE DEF o, n
  <2>4. o + b = e - 1 /\ o + q = e /\ o + l = n /\ b \in 0..l /\ q \in 1..(l + 1) /\ l \in (q - 1)..l
        /\ 1 \in 1..(l + 1) /\ b \in (1 - 1)..l
    BY <1>1, <1>10, <1>12, <2>2 DEF q
  <2> HIDE DEF b, l
  <2>5. SamePart(v, t, o, 1, b)
    BY <1>10, <2>4, WindowPart DEF l
  <2>6. SamePart(v, t, o, q, l)
    BY <1>10, <2>4, WindowPart DEF l
  <2>7. SubSeq(v, 1, b) = c
    BY <1>1, <2>4, <2>5 DEF SamePart
  <2>8. SubSeq(v, q, l) = SubSeq(t, e, n)
    BY <2>4, <2>6 DEF SamePart
  <2>9. Encoding(v) = Encoding(SubSeq(v, 1, b)) \o Encoding(SubSeq(v, q, l))
    BY <2>3 DEF SplitAt, b, l
  <2> HIDE DEF c, y
  <2>10. Encoding(v) = Encoding(c) \o Hom(EncFn, y)
    BY <1>9, <2>7, <2>8, <2>9
  <2>. QED  BY <1>8, <2>10 DEF RestIs, v, n
<1>. QED  BY <1>2, <1>11, <1>12

\* The chunks of a text, each encoded on its own, put together in order.
LEMMA ChunksEncode ==
  ASSUME IsMerges(merges), NEW t, t \in Seq(Byte), NEW size, size \in Nat \ {0}
  PROVE  EncodeChunked(t, size) = Encoding(t)
<1> DEFINE n == Len(t)
<1>1. n \in Nat
  BY LenProperties
<1>2. PICK R : ChunksFrom(t, size, R) /\ Chunks(t, size) = R[1]
  BY ChunksGather
<1> DEFINE K == {a \in 1..(n + 1) : RestIs(t, R, a)}
<1>3. n + 1 \in K
  <2> DEFINE e == n + 1
             z == SubSeq(t, e, n)
  <2>1. e \in 1..(n + 1) /\ e - 1 = n
    BY <1>1
  <2>2. R[e] = <<>>
    BY <1>2 DEF ChunksFrom, Gathers
  <2> HIDE DEF e
  <2>3. Within(z, t, e - 1) /\ (e - 1) + Len(z) = n
    BY <2>1, TwoParts
  <2>4. z \in Seq(Byte) /\ Len(z) \in Nat
    BY <2>3, WindowLen
  <2> HIDE DEF z, n
  <2>5. Len(z) = 0
    BY <1>1, <2>1, <2>3, <2>4
  <2>6. z = <<>>
    BY <2>4, <2>5, EmptySeq
  <2>7. Hom(EncFn, R[e]) = <<>> /\ Encoding(z) = <<>>
    BY <2>2, <2>6, HomSmall, EncodingOfNone
  <2>8. RestIs(t, R, e)
    BY <2>7 DEF RestIs, z, n
  <2>. QED  BY <2>1, <2>8 DEF e
<1>4. ASSUME NEW a \in 1..n, \A b \in (a + 1)..(n + 1) : b \in K PROVE a \in K
  <2> DEFINE e == ChunkEnd(t, size)[a]
  <2>1. e \in (a + 1)..(n + 1)
    BY ChunksMove DEF Moves
  <2>2. RestIs(t, R, e)
    <3> HIDE DEF e, n
    <3>. QED  BY <1>4, <2>1
  <2>3. RestIs(t, R, a)
    BY <1>2, <2>2, RestOn
  <2>4. a \in 1..(n + 1)
    BY <1>1
  <2>. QED  BY <2>3, <2>4
<1>5. \A a \in 1..(n + 1) : a \in K
  <2> HIDE DEF K, n
  <2>. QED  BY <1>1, <1>3, <1>4, Downward
<1>6. RestIs(t, R, 1)
  <2>1. 1 \in 1..(n + 1)
    BY <1>1
  <2>. QED  BY <1>5, <2>1
<1>7. SubSeq(t, 1, n) = t
  BY SubSeqFull
<1>8. Hom(EncFn, R[1]) = Encoding(t)
  BY <1>6, <1>7 DEF RestIs
<1>9. CASE ~ (n <= size)
  <2> DEFINE x == Chunks(t, size)
  <2>1. x \in Seq(NonEmpty) /\ x = R[1]
    <3>1. 1 \in 1..(n + 1)
      BY <1>1
    <3>. QED  BY <1>2, <3>1 DEF ChunksFrom, Gathers
  <2>2. EncodeChunked(t, size) = FlattenSeq([k \in DOMAIN x |-> Encoding(x[k])])
    BY <1>9 DEF EncodeChunked
  <2> HIDE DEF x
  <2>3. \A k \in DOMAIN x : x[k] \in NonEmpty
    BY <2>1, LenProperties, ElementOfSeq
  <2>4. \A k \in DOMAIN x : Encoding(x[k]) = EncFn[x[k]]
    BY <2>3, Zenon DEF EncFn
  <2>5. [k \in DOMAIN x |-> Encoding(x[k])] = [k \in DOMAIN x |-> EncFn[x[k]]]
    BY <2>4
  <2>6. EncodeChunked(t, size) = Hom(EncFn, x)
    BY <2>2, <2>5 DEF Hom, Mapped
  <2>. QED  BY <1>8, <2>1, <2>6
<1>10. CASE n <= size
  <2> DEFINE x == <<t>>
  <2>1. EncodeChunked(t, size) = FlattenSeq([k \in DOMAIN x |-> Encoding(x[k])])
    BY <1>10 DEF EncodeChunked
  <2>2. [k \in DOMAIN x |-> Encoding(x[k])] = <<Encoding(t)>>
    OBVIOUS
  <2>3. FlattenSeq(<<Encoding(t)>>) = Encoding(t)
    BY FlattenOne
  <2>. QED  BY <2>1, <2>2, <2>3
<1>. QED  BY <1>9, <1>10

\* Encoding in chunks of any size (encode_chunked) gives the ids of the whole text: at a
\* cut no code point, run of a class, contraction or special goes on, so what find_cut
\* accepts parts the items, and so the ids.
THEOREM ChunksChangeNothing == Spec => []ChunksAgree
<1>1. LearnInv /\ CacheIsTrue => ChunksAgree
  <2> SUFFICES ASSUME LearnInv, CacheIsTrue, pc = "done", NEW size \in 1..Len(job.prompt)
               PROVE  EncodeChunked(job.prompt, size) = out
    BY DEF ChunksAgree
  <2>1. IsMerges(merges) /\ job.prompt \in Seq(Byte)
    BY ByteBpeAssumption DEF LearnInv
  <2>2. size \in Nat \ {0}
    OBVIOUS
  <2>3. EncodeChunked(job.prompt, size) = Encoding(job.prompt)
    BY <2>1, <2>2, ChunksEncode
  <2>4. out = Encoding(job.prompt)
    BY DEF CacheIsTrue
  <2>. QED  BY <2>3, <2>4
<1>. QED  BY <1>1, LearningIsTrue, CacheChangesNothing, PTL

-----------------------------------------------------------------------------
(* SumOf, a recursion over the subsets of a finite set.                    *)

\* The sum of a set, when f holds the sums of smaller ones.
AddedUp(f, w, s) == IF s = {} THEN 0 ELSE LET x == CHOOSE x \in s : TRUE IN w[x] + f[s \ {x}]

\* f solves the recursion for the sets of up to n elements.
AddsUp(f, w, S, n) == \A s \in SUBSET S : Cardinality(s) <= n => f[s] = AddedUp(f, w, s)

\* AddedUp looks at a set of one element less.
LEMMA AddedIsLocal ==
  ASSUME NEW w, NEW S, IsFiniteSet(S), NEW s \in SUBSET S, NEW f, NEW g,
         \A t \in SUBSET S : Cardinality(t) < Cardinality(s) => f[t] = g[t]
  PROVE  AddedUp(f, w, s) = AddedUp(g, w, s)
<1>1. CASE s = {}
  BY <1>1 DEF AddedUp
<1>2. CASE s # {}
  <2> DEFINE x == CHOOSE x \in s : TRUE
  <2>1. x \in s
    BY <1>2
  <2>2. s \ {x} \in SUBSET S /\ Cardinality(s \ {x}) < Cardinality(s)
    BY <2>1, FS_Subset, FS_RemoveElement, FS_CardinalityType
  <2>3. f[s \ {x}] = g[s \ {x}]
    BY <2>2
  <2>4. AddedUp(f, w, s) = w[x] + f[s \ {x}] /\ AddedUp(g, w, s) = w[x] + g[s \ {x}]
    BY <1>2 DEF AddedUp
  <2>. QED  BY <2>3, <2>4
<1>. QED  BY <1>1, <1>2

\* The recursion has a solution for sets one larger.
LEMMA AddsUpOneMore ==
  ASSUME NEW w, NEW S, IsFiniteSet(S), NEW n \in Nat, NEW f, AddsUp(f, w, S, n)
  PROVE  \E g : AddsUp(g, w, S, n + 1)
<1> DEFINE g == [s \in SUBSET S |-> IF Cardinality(s) <= n THEN f[s] ELSE AddedUp(f, w, s)]
<1>1. \A s \in SUBSET S : Cardinality(s) \in Nat
  BY FS_Subset, FS_CardinalityType
<1>2. ASSUME NEW s \in SUBSET S, Cardinality(s) <= n + 1 PROVE g[s] = AddedUp(g, w, s)
  <2>1. \A t \in SUBSET S : Cardinality(t) < Cardinality(s) => f[t] = g[t]
    BY <1>1, <1>2
  <2>2. AddedUp(f, w, s) = AddedUp(g, w, s)
    <3>. HIDE DEF g
    <3>. QED  BY <2>1, AddedIsLocal
  <2>3. g[s] = AddedUp(f, w, s)
    BY DEF AddsUp
  <2>. QED  BY <2>2, <2>3
<1>3. AddsUp(g, w, S, n + 1)
  <2>. HIDE DEF g
  <2>. QED  BY <1>2 DEF AddsUp
<1>. QED  BY <1>3

\* The recursion of SumOf has a solution.
LEMMA AddsUpExists ==
  ASSUME NEW w, NEW S, IsFiniteSet(S)
  PROVE  \E f : f = [s \in SUBSET S |-> AddedUp(f, w, s)]
<1> DEFINE T == {n \in Nat : \E f : AddsUp(f, w, S, n)}
<1>1. 0 \in T
  <2> DEFINE f == [s \in SUBSET S |-> 0]
  <2>1. ASSUME NEW s \in SUBSET S, Cardinality(s) <= 0 PROVE f[s] = AddedUp(f, w, s)
    <3>1. s = {}
      BY <2>1, FS_Subset, FS_CardinalityType, FS_EmptySet
    <3>. QED  BY <3>1 DEF AddedUp
  <2>2. AddsUp(f, w, S, 0)
    BY <2>1 DEF AddsUp
  <2>. QED  BY <2>2
<1>2. \A n \in Nat : n \in T => n + 1 \in T
  BY AddsUpOneMore
<1>3. Nat \subseteq T
  <2>. HIDE DEF T
  <2>. QED  BY <1>1, <1>2, Induction
<1>4. PICK f : AddsUp(f, w, S, Cardinality(S))
  BY <1>3, FS_CardinalityType
<1> DEFINE g == [s \in SUBSET S |-> f[s]]
<1>5. ASSUME NEW s \in SUBSET S PROVE g[s] = AddedUp(g, w, s)
  <2>1. f[s] = AddedUp(f, w, s)
    BY <1>4, FS_Subset DEF AddsUp
  <2>2. \A t \in SUBSET S : f[t] = g[t]
    OBVIOUS
  <2>3. AddedUp(f, w, s) = AddedUp(g, w, s)
    <3>. HIDE DEF g
    <3>. QED  BY <2>2, AddedIsLocal
  <2>. QED  BY <2>1, <2>2, <2>3
<1>6. g = [s \in SUBSET S |-> AddedUp(g, w, s)]
  <2>1. g = [s \in SUBSET S |-> g[s]]
    OBVIOUS
  <2>. HIDE DEF g
  <2>. QED  BY <1>5, <2>1
<1>. QED  BY <1>6

\* SumOf is a solution's value.
LEMMA SumOfIsSolved ==
  ASSUME NEW w, NEW S, IsFiniteSet(S)
  PROVE  \E f : f = [s \in SUBSET S |-> AddedUp(f, w, s)] /\ SumOf(w, S) = f[S]
<1> DEFINE f == CHOOSE f : f = [s \in SUBSET S |-> AddedUp(f, w, s)]
<1>1. SumOf(w, S) = f[S]
  BY Zenon DEF SumOf, MapThenSumSet, MapThenFoldSet, AddedUp
<1>2. f = [s \in SUBSET S |-> AddedUp(f, w, s)]
  BY AddsUpExists
<1>. QED  BY <1>1, <1>2

\* The sum of nothing is 0, and a sum of naturals is a natural.
LEMMA SumOfIsNat ==
  ASSUME NEW w, NEW S, IsFiniteSet(S), \A i \in S : w[i] \in Nat
  PROVE  SumOf(w, S) \in Nat /\ (S = {} => SumOf(w, S) = 0)
<1>1. PICK f : f = [s \in SUBSET S |-> AddedUp(f, w, s)] /\ SumOf(w, S) = f[S]
  BY SumOfIsSolved
<1>2. \A s \in SUBSET S : f[s] = AddedUp(f, w, s)
  BY <1>1
<1>0. f[{}] = 0
  <2>1. {} \in SUBSET S /\ AddedUp(f, w, {}) = 0
    BY DEF AddedUp
  <2>. QED  BY <2>1, <1>2
<1> DEFINE T == {n \in Nat : \A s \in SUBSET S : Cardinality(s) <= n => f[s] \in Nat}
<1>3. 0 \in T
  <2>1. ASSUME NEW s \in SUBSET S, Cardinality(s) <= 0 PROVE f[s] \in Nat
    <3>1. s = {}
      BY <2>1, FS_Subset, FS_CardinalityType, FS_EmptySet
    <3>. QED  BY <3>1, <1>0
  <2>. QED  BY <2>1
<1>4. ASSUME NEW n \in Nat, n \in T PROVE n + 1 \in T
  <2>1. ASSUME NEW s \in SUBSET S, Cardinality(s) <= n + 1 PROVE f[s] \in Nat
    <3>1. CASE s = {}
      BY <3>1, <1>0
    <3>2. CASE s # {}
      <4> DEFINE x == CHOOSE x \in s : TRUE
      <4>1. x \in s
        BY <3>2
      <4>2. s \ {x} \in SUBSET S /\ Cardinality(s \ {x}) <= n
        BY <4>1, <2>1, FS_Subset, FS_RemoveElement, FS_CardinalityType
      <4>3. f[s \ {x}] \in Nat
        BY <4>2, <1>4
      <4>4. f[s] = w[x] + f[s \ {x}]
        BY <3>2, <1>2 DEF AddedUp
      <4>. QED  BY <4>1, <4>3, <4>4
    <3>. QED  BY <3>1, <3>2
  <2>. QED  BY <2>1
<1>5. Nat \subseteq T
  <2>. HIDE DEF T
  <2>. QED  BY <1>3, <1>4, Induction
<1>6. f[S] \in Nat
  BY <1>5, FS_CardinalityType
<1>. QED  BY <1>0, <1>1, <1>6

-----------------------------------------------------------------------------
(* Sorted: a rank for every place.                                         *)

\* What comes no later than i.
Ahead(f, i) == {j \in DOMAIN f : f[j] > f[i] \/ (f[j] = f[i] /\ j <= i)}

\* A place is between 1 and the number of ids.
LEMMA AheadIsFinite ==
  ASSUME NEW D \in SUBSET Int, IsFiniteSet(D), NEW f \in [D -> Int], NEW i \in D
  PROVE  /\ Ahead(f, i) \in SUBSET D /\ i \in Ahead(f, i) /\ IsFiniteSet(Ahead(f, i))
         /\ Cardinality(Ahead(f, i)) \in 1..Cardinality(D)
<1>1. Ahead(f, i) \in SUBSET D /\ i \in Ahead(f, i)
  BY DEF Ahead
<1>2. /\ IsFiniteSet(Ahead(f, i)) /\ Cardinality(Ahead(f, i)) <= Cardinality(D)
      /\ Cardinality(Ahead(f, i)) \in Nat /\ Cardinality(D) \in Nat
  BY <1>1, FS_Subset, FS_CardinalityType
<1>3. Cardinality(Ahead(f, i)) # 0
  BY <1>1, <1>2, FS_EmptySet
<1>. QED  BY <1>1, <1>2, <1>3

\* Two ids have different places.
LEMMA PlacesDiffer ==
  ASSUME NEW D \in SUBSET Int, IsFiniteSet(D), NEW f \in [D -> Int], NEW i \in D, NEW j \in D, i # j,
         f[j] > f[i] \/ (f[j] = f[i] /\ j < i)
  PROVE  Cardinality(Ahead(f, j)) < Cardinality(Ahead(f, i))
<1>0. f[i] \in Int /\ f[j] \in Int /\ i \in Int /\ j \in Int /\ DOMAIN f = D
  OBVIOUS
<1>1. Ahead(f, j) \in SUBSET Ahead(f, i) /\ i \notin Ahead(f, j) /\ i \in Ahead(f, i)
  <2>1. ASSUME NEW k \in Ahead(f, j) PROVE k \in Ahead(f, i)
    <3>1. k \in D /\ k \in Int /\ f[k] \in Int /\ (f[k] > f[j] \/ (f[k] = f[j] /\ k <= j))
      BY <1>0 DEF Ahead
    <3>2. f[k] > f[i] \/ (f[k] = f[i] /\ k <= i)
      BY <1>0, <3>1
    <3>. QED  BY <1>0, <3>1, <3>2 DEF Ahead
  <2>2. ~ (f[i] > f[j] \/ (f[i] = f[j] /\ i <= j))
    BY <1>0
  <2>3. i \notin Ahead(f, j)
    BY <2>2 DEF Ahead
  <2>4. i \in Ahead(f, i)
    BY AheadIsFinite
  <2>. QED  BY <2>1, <2>3, <2>4
<1>2. /\ IsFiniteSet(Ahead(f, i)) /\ Cardinality(Ahead(f, i)) \in Nat /\ Cardinality(Ahead(f, j)) \in Nat
  BY AheadIsFinite
<1>3. /\ Cardinality(Ahead(f, j)) <= Cardinality(Ahead(f, i))
      /\ Cardinality(Ahead(f, j)) # Cardinality(Ahead(f, i))
  BY <1>1, <1>2, FS_Subset
<1>. QED  BY <1>2, <1>3

\* Every rank is somebody's place.
LEMMA EveryRankIsTaken ==
  ASSUME NEW D \in SUBSET Int, IsFiniteSet(D), NEW f \in [D -> Int], NEW n \in 1..Cardinality(D)
  PROVE  \E i \in D : Cardinality(Ahead(f, i)) = n
<1> DEFINE place == [i \in D |-> Cardinality(Ahead(f, i))]
<1>1. place \in [D -> 1..Cardinality(D)]
  BY AheadIsFinite
<1>2. ASSUME NEW i \in D, NEW j \in D, i # j PROVE place[i] # place[j]
  <2>1. /\ (f[j] > f[i] \/ (f[j] = f[i] /\ j < i)) \/ (f[i] > f[j] \/ (f[i] = f[j] /\ i < j))
        /\ Cardinality(Ahead(f, i)) \in Int /\ Cardinality(Ahead(f, j)) \in Int
    BY <1>2, AheadIsFinite
  <2>2. Cardinality(Ahead(f, j)) < Cardinality(Ahead(f, i)) \/ Cardinality(Ahead(f, i)) < Cardinality(Ahead(f, j))
    BY <1>2, <2>1, PlacesDiffer
  <2>. QED  BY <2>1, <2>2
<1>3. place \in Injection(D, 1..Cardinality(D))
  BY <1>1, <1>2 DEF Injection, IsInjective
<1>4. /\ Cardinality(D) \in Nat /\ IsFiniteSet(1..Cardinality(D))
      /\ Cardinality(1..Cardinality(D)) = Cardinality(D)
  BY FS_CardinalityType, FS_Interval
<1>5. place \in Surjection(D, 1..Cardinality(D))
  <2>. HIDE DEF place
  <2>. QED  BY <1>3, <1>4, FS_Injection
<1>6. \E i \in D : place[i] = n
  BY <1>5 DEF Surjection
<1>. QED  BY <1>6

\* The n-th id sorted has n - 1 ids before it.
LEMMA SortedHasPlaces ==
  ASSUME NEW D \in SUBSET Int, IsFiniteSet(D), NEW f \in [D -> Int]
  PROVE  /\ DOMAIN Sorted(f) = 1..Cardinality(D)
         /\ \A n \in 1..Cardinality(D) : Sorted(f)[n] \in D /\ Cardinality(Ahead(f, Sorted(f)[n])) = n
<1>1. Sorted(f) = [n \in 1..Cardinality(D) |-> CHOOSE i \in D : Cardinality(Ahead(f, i)) = n]
  <2>1. DOMAIN f = D
    OBVIOUS
  <2>2. Sorted(f) = [n \in 1..Cardinality(DOMAIN f) |-> CHOOSE i \in DOMAIN f : Cardinality(Ahead(f, i)) = n]
    BY Zenon DEF Sorted, Ahead
  <2>. QED  BY <2>1, <2>2, Zenon
<1>2. ASSUME NEW n \in 1..Cardinality(D)
      PROVE  Sorted(f)[n] \in D /\ Cardinality(Ahead(f, Sorted(f)[n])) = n
  <2>1. Sorted(f)[n] = CHOOSE i \in D : Cardinality(Ahead(f, i)) = n
    BY <1>1, <1>2
  <2>2. \E i \in D : Cardinality(Ahead(f, i)) = n
    BY <1>2, EveryRankIsTaken
  <2>. QED  BY <2>1, <2>2
<1>. QED  BY <1>1, <1>2

\* The first id sorted is among the best.
LEMMA TopRankIsBest ==
  ASSUME NEW D \in SUBSET Int, IsFiniteSet(D), D # {}, NEW f \in [D -> Int]
  PROVE  1 \in 1..Cardinality(D) /\ Sorted(f)[1] \in Best(f)
<1>1. Cardinality(D) \in Nat /\ Cardinality(D) # 0
  BY FS_CardinalityType, FS_EmptySet
<1>2. 1 \in 1..Cardinality(D)
  BY <1>1
<1> DEFINE b == Sorted(f)[1]
<1>3. b \in D /\ Cardinality(Ahead(f, b)) = 1
  BY <1>2, SortedHasPlaces
<1>4. IsFiniteSet(Ahead(f, b)) /\ b \in Ahead(f, b)
  BY <1>3, AheadIsFinite
<1>5. \A j \in Ahead(f, b) : j = b
  BY <1>3, <1>4, FS_Singleton
<1>6. b \in Best(f)
  <2>. HIDE DEF b
  <2>. QED  BY <1>3, <1>5 DEF Best, Ahead
<1>. QED  BY <1>2, <1>6

\* A finite set of naturals has a greatest element.
LEMMA GreatestElement ==
  ASSUME NEW D \in SUBSET Nat, IsFiniteSet(D), NEW S \in SUBSET D, S # {}
  PROVE  \E m \in S : \A j \in S : j <= m
<1> DEFINE f == [i \in S |-> i]
<1>1. IsFiniteSet(S)
  BY FS_Subset
<1>2. S \in SUBSET Int /\ \A i \in S : i \in Int
  OBVIOUS
<1>3. f \in [S -> Int] /\ DOMAIN f = S /\ \A i \in S : f[i] = i
  BY <1>2
<1>. HIDE DEF f
<1>4. Sorted(f)[1] \in Best(f)
  BY <1>1, <1>2, <1>3, TopRankIsBest
<1>. QED  BY <1>3, <1>4 DEF Best

-----------------------------------------------------------------------------
(* The two filters.                                                        *)

\* top_k keeps some id, and with k = 1 none but the best.
LEMMA TopKKeeps ==
  ASSUME NEW D \in SUBSET Int, IsFiniteSet(D), D # {}, NEW scores \in [D -> Int], NEW k \in Nat
  PROVE  /\ TopK(scores, k) \in SUBSET D /\ TopK(scores, k) # {}
         /\ k = 1 => TopK(scores, k) \subseteq Best(scores)
<1>0. DOMAIN scores = D /\ Cardinality(D) \in Nat
  BY FS_CardinalityType
<1>1. CASE k = 0 \/ k > Cardinality(D)
  <2>1. TopK(scores, k) = D
    BY <1>0, <1>1 DEF TopK
  <2>2. k # 1
    BY <1>0, <1>1, TopRankIsBest
  <2>. QED  BY <2>1, <2>2
<1>2. CASE ~ (k = 0 \/ k > Cardinality(D))
  <2>1. TopK(scores, k) = {i \in D : scores[i] >= scores[Sorted(scores)[k]]}
    BY <1>0, <1>2 DEF TopK
  <2>2. k \in 1..Cardinality(D)
    BY <1>0, <1>2
  <2>3. Sorted(scores)[k] \in D
    BY <2>2, SortedHasPlaces
  <2> DEFINE b == Sorted(scores)[k]
  <2>4. b \in D /\ scores[b] \in Int /\ TopK(scores, k) = {i \in D : scores[i] >= scores[b]}
    BY <2>1, <2>3
  <2>5. b \in TopK(scores, k) /\ TopK(scores, k) \in SUBSET D
    <3>. HIDE DEF b
    <3>. QED  BY <2>4
  <2>6. ASSUME k = 1 PROVE TopK(scores, k) \subseteq Best(scores)
    <3>1. b \in Best(scores)
      BY <2>6, TopRankIsBest
    <3>. HIDE DEF b
    <3>2. \A j \in D : scores[j] <= scores[b]
      BY <1>0, <3>1 DEF Best
    <3>3. ASSUME NEW i \in TopK(scores, k), NEW j \in D PROVE i \in D /\ scores[j] <= scores[i]
      <4>1. i \in D /\ scores[i] >= scores[b] /\ scores[j] <= scores[b]
        BY <2>4, <3>2
      <4>2. scores[i] \in Int /\ scores[j] \in Int
        BY <4>1
      <4>. QED  BY <2>4, <4>1, <4>2
    <3>. QED  BY <1>0, <2>5, <3>3 DEF Best
  <2>. QED  BY <2>5, <2>6
<1>. QED  BY <1>1, <1>2

\* top_p keeps some id.
LEMMA TopPKeeps ==
  ASSUME NEW D \in SUBSET Int, IsFiniteSet(D), D # {}, NEW w \in [D -> Int], NEW p
  PROVE  TopP(w, p) \in SUBSET D /\ TopP(w, p) # {}
<1>1. DOMAIN w = D /\ DOMAIN Sorted(w) = 1..Cardinality(D) /\ 1 \in 1..Cardinality(D)
  BY SortedHasPlaces, TopRankIsBest
<1> DEFINE order == Sorted(w)
           reached == {n \in DOMAIN order : 10 * SumOf(w, {order[k] : k \in 1..n}) >= p * SumOf(w, DOMAIN w)}
           cutoff == IF reached = {} THEN 1 ELSE CHOOSE n \in reached : \A o \in reached : n <= o
<1>2. cutoff \in 1..Cardinality(D)
  <2>1. reached \in SUBSET (1..Cardinality(D))
    BY <1>1
  <2>2. ASSUME reached # {} PROVE (CHOOSE n \in reached : \A o \in reached : n <= o) \in reached
    <3>. HIDE DEF reached
    <3>1. reached \in SUBSET Nat
      BY <2>1
    <3>2. \E n \in reached : \A o \in reached : n <= o
      BY <2>2, <3>1, LeastElement
    <3>. QED  BY <3>2
  <2>. HIDE DEF reached
  <2>. QED  BY <1>1, <2>1, <2>2
<1>3. TopP(w, p) = {i \in D : w[i] >= w[order[cutoff]]}
  <2>. QED  BY <1>1, Zenon DEF TopP
<1>4. order[cutoff] \in D
  <2>. HIDE DEF cutoff
  <2>. QED  BY <1>2, SortedHasPlaces
<1> DEFINE b == order[cutoff]
<1>5. b \in D /\ w[b] \in Int /\ TopP(w, p) = {i \in D : w[i] >= w[b]}
  BY <1>3, <1>4
<1>. HIDE DEF b
<1>. QED  BY <1>5

\* What both filters keep.
LEMMA KeptSurvives ==
  ASSUME NEW D \in SUBSET Int, IsFiniteSet(D), D # {}, NEW scores \in [D -> Int],
         NEW mode \in [greedy : BOOLEAN, k : Nat, p : 1..10]
  PROVE  /\ Kept(scores, mode) \in SUBSET D /\ Kept(scores, mode) # {}
         /\ mode.k = 1 => Kept(scores, mode) \subseteq Best(scores)
<1> DEFINE T == TopK(scores, mode.k)
           w == [i \in T |-> Weight(scores[i])]
<1>1. T \in SUBSET D /\ T # {} /\ (mode.k = 1 => T \subseteq Best(scores))
  BY TopKKeeps
<1>2. T \in SUBSET Int /\ IsFiniteSet(T)
  BY <1>1, FS_Subset
<1>3. w \in [T -> Int] /\ DOMAIN w = T
  <2>1. ASSUME NEW i \in T PROVE Weight(scores[i]) \in Int
    <3>1. scores[i] \in Int
      BY <1>1
    <3>. QED  BY <3>1 DEF Weight
  <2>. HIDE DEF T
  <2>. QED  BY <2>1
<1>4. Kept(scores, mode) = IF mode.p = 10 THEN T ELSE TopP(w, mode.p)
  BY <1>3 DEF Kept
<1>5. TopP(w, mode.p) \in SUBSET T /\ TopP(w, mode.p) # {}
  <2>. HIDE DEF T, w
  <2>. QED  BY <1>1, <1>2, <1>3, TopPKeeps
<1>. HIDE DEF T, w
<1>. QED  BY <1>1, <1>4, <1>5

-----------------------------------------------------------------------------
(* The draw.                                                               *)

\* A probability is a natural.
LEMMA WeightsAreNat ==
  ASSUME NEW D \in SUBSET Nat, NEW scores \in [D -> Int], NEW kept \in SUBSET D, NEW i \in kept
  PROVE  [j \in kept |-> Weight(scores[j])][i] \in Nat
<1>1. scores[i] \in Int
  OBVIOUS
<1>2. Weight(scores[i]) \in Nat
  BY <1>1 DEF Weight
<1>. QED  BY <1>2

\* The sum up to an id.
Cum(scores, kept, i) == SumOf([j \in kept |-> Weight(scores[j])], {j \in kept : j <= i})

\* The sum up to an id is a natural, 0 below the first id kept.
LEMMA CumIsNat ==
  ASSUME NEW D \in SUBSET Nat, IsFiniteSet(D), NEW scores \in [D -> Int], NEW kept \in SUBSET D, NEW i \in Nat
  PROVE  /\ Cum(scores, kept, i) \in Nat
         /\ {j \in kept : j <= i} = {} => Cum(scores, kept, i) = 0
<1> DEFINE w == [j \in kept |-> Weight(scores[j])]
           S == {j \in kept : j <= i}
<1>1. S \in SUBSET D /\ IsFiniteSet(S)
  BY FS_Subset
<1>2. \A j \in S : w[j] \in Nat
  BY WeightsAreNat
<1>3. Cum(scores, kept, i) = SumOf(w, S)
  BY DEF Cum
<1>. HIDE DEF w, S
<1>4. SumOf(w, S) \in Nat /\ (S = {} => SumOf(w, S) = 0)
  BY <1>1, <1>2, SumOfIsNat
<1>5. S = {j \in kept : j <= i}
  BY DEF S
<1>. QED  BY <1>3, <1>4, <1>5

\* A total is a number.
LEMMA WeightTotalIsNat ==
  ASSUME NEW D \in SUBSET Nat, IsFiniteSet(D), NEW scores \in [D -> Int], NEW kept \in SUBSET D
  PROVE  Total(scores, kept) \in Nat
<1> DEFINE w == [j \in kept |-> Weight(scores[j])]
<1>1. \A j \in kept : w[j] \in Nat
  BY WeightsAreNat
<1>2. IsFiniteSet(kept)
  BY FS_Subset
<1>3. Total(scores, kept) = SumOf(w, kept)
  BY DEF Total
<1>. HIDE DEF w
<1>. QED  BY <1>1, <1>2, <1>3, SumOfIsNat

\* Where the draw lands, by the first cumulative sum that reaches it.
Hits(scores, kept, r) == {i \in DOMAIN scores : Cum(scores, kept, i) >= r}

\* The draw gives the least hit, or the last id when nothing is hit.
LEMMA DrawnIsFirst ==
  ASSUME NEW D \in SUBSET Nat, NEW scores \in [D -> Int], NEW kept, NEW r
  PROVE  LET hits == Hits(scores, kept, r) IN
         /\ hits \in SUBSET D
         /\ hits = {} => Drawn(scores, kept, r) = gen.vocab - 1
         /\ hits # {} => /\ Drawn(scores, kept, r) \in hits
                         /\ \A i \in hits : Drawn(scores, kept, r) <= i
<1> DEFINE hits == Hits(scores, kept, r)
<1>1. Drawn(scores, kept, r) = IF hits = {} THEN gen.vocab - 1 ELSE CHOOSE i \in hits : \A j \in hits : i <= j
  BY Zenon DEF Drawn, Hits, Cum
<1>2. hits \in SUBSET D /\ hits \in SUBSET Nat
  BY DEF Hits
<1>. HIDE DEF hits
<1>3. ASSUME hits # {} PROVE \E i \in hits : \A j \in hits : i <= j
  BY <1>2, <1>3, LeastElement
<1>4. ASSUME hits # {}
      PROVE  Drawn(scores, kept, r) \in hits /\ \A i \in hits : Drawn(scores, kept, r) <= i
  BY <1>1, <1>3, <1>4
<1>. QED  BY <1>1, <1>2, <1>4 DEF hits

\* A draw inside the total gives an id that was kept.
LEMMA DrawnIsKept ==
  ASSUME NEW D \in SUBSET Nat, IsFiniteSet(D), NEW scores \in [D -> Int], NEW kept \in SUBSET D, kept # {},
         NEW r \in Nat, 0 < r, r <= Total(scores, kept)
  PROVE  Drawn(scores, kept, r) \in kept
<1>0. \A i \in D : Cum(scores, kept, i) \in Nat
  BY CumIsNat
<1>1. PICK m \in kept : \A j \in kept : j <= m
  BY GreatestElement
<1>2. m \in Hits(scores, kept, r)
  <2>1. {j \in kept : j <= m} = kept
    BY <1>1
  <2>2. Cum(scores, kept, m) = Total(scores, kept)
    BY <2>1, Zenon DEF Cum, Total
  <2>. QED  BY <2>2, WeightTotalIsNat DEF Hits
<1> DEFINE i == Drawn(scores, kept, r)
<1>3. i \in D /\ i \in Hits(scores, kept, r) /\ \A j \in Hits(scores, kept, r) : i <= j
  BY <1>2, DrawnIsFirst
<1>. HIDE DEF i
<1>4. Cum(scores, kept, i) \in Nat /\ Cum(scores, kept, i) >= r
  BY <1>0, <1>3 DEF Hits
<1>5. ASSUME i \notin kept PROVE FALSE
  <2>1. {j \in kept : j <= i} # {}
    BY <1>3, <1>4, CumIsNat
  <2> DEFINE below == {j \in kept : j <= i}
  <2>2. PICK b \in below : \A j \in below : j <= b
    <3>1. below \in SUBSET D /\ below # {}
      BY <2>1
    <3>. HIDE DEF below
    <3>. QED  BY <3>1, GreatestElement
  <2>3. b \in kept /\ b \in D /\ b < i
    BY <1>3, <1>5, <2>2
  <2>4. {j \in kept : j <= b} = {j \in kept : j <= i}
    <3>1. i \in Nat /\ b \in Nat /\ \A j \in kept : j \in Nat
      BY <1>3, <2>3
    <3>2. ASSUME NEW j \in kept PROVE j <= b <=> j <= i
      <4>1. ASSUME j <= i PROVE j <= b
        BY <2>2, <4>1
      <4>2. ASSUME j <= b PROVE j <= i
        BY <2>3, <3>1, <4>2
      <4>. QED  BY <4>1, <4>2
    <3>. QED  BY <3>2
  <2>5. Cum(scores, kept, b) = Cum(scores, kept, i)
    BY <2>4, Zenon DEF Cum
  <2>6. b \in Hits(scores, kept, r)
    BY <1>4, <2>3, <2>5 DEF Hits
  <2>. QED  BY <1>3, <2>3, <2>6
<1>. QED  BY <1>5 DEF i

\* A draw of exactly 0 gives id 0, kept or not.
LEMMA DrawnAtZero ==
  ASSUME NEW D \in SUBSET Nat, IsFiniteSet(D), 0 \in D, NEW scores \in [D -> Int], NEW kept \in SUBSET D
  PROVE  Drawn(scores, kept, 0) = 0
<1>1. Cum(scores, kept, 0) \in Nat
  BY CumIsNat
<1>2. 0 \in Hits(scores, kept, 0)
  BY <1>1 DEF Hits
<1> DEFINE d == Drawn(scores, kept, 0)
<1>3. d \in D /\ d <= 0
  BY <1>2, DrawnIsFirst
<1>4. d \in Nat
  BY <1>3
<1>. HIDE DEF d
<1>5. d = 0
  BY <1>3, <1>4
<1>. QED  BY <1>5 DEF d

-----------------------------------------------------------------------------
(* The penalty.                                                            *)

\* f holds the scores after up to n occurrences.
Penalizes(f, x, n) ==
  /\ f \in [0..n -> Int]
  /\ \A m \in 0..n : f[m] = IF m = 0 THEN x ELSE PenalizedScore(f[m - 1])

\* The recursion of the penalty has a solution.
LEMMA PenalizesExists == ASSUME NEW x \in Int, NEW n \in Nat PROVE \E f : Penalizes(f, x, n)
<1> DEFINE T == {k \in Nat : \E f : Penalizes(f, x, k)}
<1>1. 0 \in T
  <2> DEFINE f == [m \in 0..0 |-> x]
  <2>1. Penalizes(f, x, 0)
    BY DEF Penalizes
  <2>. QED  BY <2>1
<1>2. ASSUME NEW k \in Nat, k \in T PROVE k + 1 \in T
  <2>1. PICK f : Penalizes(f, x, k)
    BY <1>2
  <2> DEFINE g == [m \in 0..(k + 1) |-> IF m = k + 1 THEN PenalizedScore(f[k]) ELSE f[m]]
  <2>2. f[k] \in Int /\ PenalizedScore(f[k]) \in Int
    BY <2>1 DEF Penalizes, PenalizedScore
  <2>3. g \in [0..(k + 1) -> Int]
    BY <2>1, <2>2 DEF Penalizes
  <2>4. ASSUME NEW m \in 0..(k + 1) PROVE g[m] = IF m = 0 THEN x ELSE PenalizedScore(g[m - 1])
    <3>1. CASE m = k + 1
      BY <3>1
    <3>2. CASE m \in 0..k
      <4>1. g[m] = f[m] /\ (m # 0 => m - 1 \in 0..k /\ g[m - 1] = f[m - 1])
        BY <3>2
      <4>2. f[m] = IF m = 0 THEN x ELSE PenalizedScore(f[m - 1])
        BY <2>1, <3>2 DEF Penalizes
      <4>. HIDE DEF g
      <4>. QED  BY <4>1, <4>2
    <3>. QED  BY <3>1, <3>2
  <2>5. Penalizes(g, x, k + 1)
    <3>. HIDE DEF g
    <3>. QED  BY <2>3, <2>4 DEF Penalizes
  <2>. QED  BY <2>5
<1>3. Nat \subseteq T
  <2>. HIDE DEF T
  <2>. QED  BY <1>1, <1>2, Induction
<1>. QED  BY <1>3

\* A penalized score is a score.
LEMMA PenalizedTimesIsInt == ASSUME NEW x \in Int, NEW n \in Nat PROVE PenalizedTimes(x, n) \in Int
<1> DEFINE p == CHOOSE p : p = [m \in 0..n |-> IF m = 0 THEN x ELSE PenalizedScore(p[m - 1])]
<1>1. PenalizedTimes(x, n) = p[n]
  BY Zenon DEF PenalizedTimes
<1>2. \E q : q = [m \in 0..n |-> IF m = 0 THEN x ELSE PenalizedScore(q[m - 1])]
  <2>1. PICK f : Penalizes(f, x, n)
    BY PenalizesExists
  <2>2. f = [m \in 0..n |-> IF m = 0 THEN x ELSE PenalizedScore(f[m - 1])]
    BY <2>1 DEF Penalizes
  <2>. QED  BY <2>2
<1>3. p = [m \in 0..n |-> IF m = 0 THEN x ELSE PenalizedScore(p[m - 1])]
  BY <1>2
<1>. HIDE DEF p
<1>4. \A m \in 0..n : p[m] = IF m = 0 THEN x ELSE PenalizedScore(p[m - 1])
  BY <1>3
<1> DEFINE T == {k \in Nat : k <= n => p[k] \in Int}
<1>5. 0 \in T
  BY <1>4
<1>6. ASSUME NEW k \in Nat, k \in T PROVE k + 1 \in T
  <2>1. ASSUME k + 1 <= n PROVE p[k + 1] \in Int
    <3>1. p[k] \in Int
      BY <1>6, <2>1
    <3>2. p[k + 1] = PenalizedScore(p[k])
      BY <1>4, <2>1
    <3>. QED  BY <3>1, <3>2 DEF PenalizedScore
  <2>. QED  BY <2>1
<1>7. Nat \subseteq T
  <2>. HIDE DEF T
  <2>. QED  BY <1>5, <1>6, Induction
<1>. QED  BY <1>1, <1>7

\* Penalized scores are scores of the same ids.
LEMMA PenalizedIsScores ==
  ASSUME NEW D, NEW scores \in [D -> Int], NEW tokens \in Seq(Nat)
  PROVE  Penalized(scores, tokens) \in [D -> Int]
<1> DEFINE window == IF Len(tokens) < Window THEN tokens ELSE SubSeq(tokens, Len(tokens) - Window + 1, Len(tokens))
           Found(i) == {k \in DOMAIN window : window[k] = i}
<1>1. \E n \in Nat : DOMAIN window = 1..n
  BY GenerationAssumption
<1>2. \A i : Cardinality(Found(i)) \in Nat
  <2>1. IsFiniteSet(DOMAIN window)
    BY <1>1, FS_Interval
  <2>2. ASSUME NEW i PROVE Cardinality(Found(i)) \in Nat
    <3>1. Found(i) \in SUBSET DOMAIN window
      OBVIOUS
    <3>. HIDE DEF Found, window
    <3>. QED  BY <2>1, <3>1, FS_Subset, FS_CardinalityType
  <2>. QED  BY <2>2
<1>3. Penalized(scores, tokens) = [i \in D |-> PenalizedTimes(scores[i], Cardinality(Found(i)))]
  BY DEF Penalized
<1>4. \A i \in D : PenalizedTimes(scores[i], Cardinality(Found(i))) \in Int
  <2>. HIDE DEF Found
  <2>. QED  BY <1>2, PenalizedTimesIsInt
<1>. HIDE DEF Found
<1>. QED  BY <1>3, <1>4

-----------------------------------------------------------------------------
(* The invariant.                                                          *)

Picks == [draw : {"none", "inside", "zero", "beyond"}, id : Nat, kept : SUBSET Nat, best : SUBSET Nat]

Phases == {"feed", "pick", "done", "refused"}

Calls ==
  [phase : Phases, vocab : Nat, mode : Modes, prompt : Seq(Nat),
   tokens : Seq(Nat), position : Nat, shown : Seq(Nat), last : Picks]

\* What was fed is in the vocabulary, and fits; the tokens are the prompt and what
\* was shown; only the prompt can be wrong, for every token picked is an id and a
\* full context ends the call before the next one is fed.
TokensInv(g) ==
  /\ Len(g.tokens) = Len(g.prompt) + Len(g.shown)
  /\ \A k \in 1..Len(g.prompt) : g.tokens[k] = g.prompt[k]
  /\ g.position <= MaxLen /\ g.position <= Len(g.tokens) /\ Len(g.shown) <= MaxTokens
  /\ \A k \in 1..g.position : g.tokens[k] < g.vocab

PhaseInv(g) ==
  /\ g.phase # "done" => g.prompt # <<>>
  /\ g.phase = "feed" =>
       /\ g.position < Len(g.tokens)
       /\ g.shown # <<>> =>
            g.position < MaxLen /\ Len(g.tokens) = g.position + 1 /\ g.tokens[g.position + 1] < g.vocab
  /\ g.phase = "pick" => g.position = Len(g.tokens)

RoomLeft(g) == MaxLen - Len(g.prompt) + 1

EndInv(g) ==
  /\ g.phase = "done" /\ g.prompt # <<>> =>
       Len(g.shown) = IF MaxTokens < RoomLeft(g) THEN MaxTokens ELSE RoomLeft(g)
  /\ g.phase = "refused" =>
       Len(g.prompt) > MaxLen \/ \E k \in DOMAIN g.prompt : g.prompt[k] >= g.vocab

PickInv(g) ==
  /\ g.last.draw = "inside" =>
       g.last.id \in g.last.kept /\ (g.mode.k = 1 \/ g.mode.greedy => g.last.id \in g.last.best)
  /\ g.last.draw = "zero" => g.last.id = 0
  /\ g.last.draw = "beyond" => g.last.id = g.vocab - 1

CallInv(g) == g \in Calls /\ TokensInv(g) /\ PhaseInv(g) /\ EndInv(g) /\ PickInv(g)

GenInv == gen = Idle \/ CallInv(gen)

-----------------------------------------------------------------------------
(* What a step picks.                                                      *)

\* The ids that score in a step.
LEMMA ContendersAreIds ==
  ASSUME CallInv(gen), gen.phase = "pick"
  PROVE  /\ Contenders \in SUBSET Nat /\ IsFiniteSet(Contenders) /\ 0 \in Contenders
         /\ gen.vocab - 1 \in Nat /\ \A i \in Contenders : i < gen.vocab
<1>1. gen.prompt \in Seq(Nat) /\ gen.tokens \in Seq(Nat) /\ gen.vocab \in Nat /\ gen.prompt # <<>>
  BY DEF CallInv, Calls, PhaseInv
<1>2. Len(gen.prompt) \in 1..Len(gen.prompt) /\ Len(gen.prompt) \in 1..gen.position
  <2>1. Len(gen.prompt) \in Nat /\ Len(gen.prompt) # 0 /\ Len(gen.shown) \in Nat
    BY <1>1, EmptySeq DEF CallInv, Calls
  <2>2. gen.position = Len(gen.prompt) + Len(gen.shown)
    BY DEF CallInv, PhaseInv, TokensInv
  <2> DEFINE n == Len(gen.prompt)
             m == Len(gen.shown)
  <2>3. n \in Nat /\ n # 0 /\ m \in Nat /\ gen.position = n + m
    BY <2>1, <2>2
  <2>. HIDE DEF n, m
  <2>4. n \in 1..n /\ n \in 1..gen.position
    BY <2>3
  <2>. QED  BY <2>4 DEF n
<1>3. gen.prompt[Len(gen.prompt)] < gen.vocab /\ gen.prompt[Len(gen.prompt)] \in Nat
  BY <1>1, <1>2 DEF CallInv, TokensInv
<1>4. gen.vocab - 1 \in Nat
  BY <1>1, <1>3
<1>5. \A i \in Contenders : i \in 0..(gen.vocab - 1)
  BY <1>1, <1>3, <1>4 DEF Contenders
<1>6. IsFiniteSet(Contenders)
  <2>1. Contenders \in SUBSET (0..(gen.vocab - 1))
    BY <1>5
  <2>2. IsFiniteSet(0..(gen.vocab - 1))
    BY <1>4, FS_Interval
  <2>. QED  BY <2>1, <2>2, FS_Subset
<1>7. 0 \in Contenders
  BY DEF Contenders
<1>. QED  BY <1>1, <1>4, <1>5, <1>6, <1>7

\* argmax is one of the best.
LEMMA ArgmaxIsBest ==
  ASSUME NEW D \in SUBSET Nat, IsFiniteSet(D), D # {}, NEW s \in [D -> Int]
  PROVE  Argmax(s) \in Best(s) /\ Best(s) \in SUBSET D
<1>1. Best(s) \in SUBSET D /\ Best(s) \in SUBSET Nat
  BY DEF Best
<1>2. D \in SUBSET Int
  OBVIOUS
<1>3. Best(s) # {}
  BY <1>2, TopRankIsBest
<1>4. \E i \in Best(s) : \A j \in Best(s) : i <= j
  BY <1>1, <1>3, LeastElement
<1>. QED  BY <1>1, <1>4 DEF Argmax

\* Levels are scores.
LEMMA RawIsScores == ASSUME NEW D, NEW raw \in [D -> Levels] PROVE raw \in [D -> Int]
<1>1. Levels \in SUBSET Int
  BY GenerationAssumption
<1>. QED  BY <1>1

\* A pick as the invariant wants it: an id, with a true account of the draw.
GoodPick(id, last) ==
  /\ id \in Nat /\ id < gen.vocab /\ last \in Picks
  /\ last.draw = "inside" => last.id \in last.kept /\ (gen.mode.k = 1 \/ gen.mode.greedy => last.id \in last.best)
  /\ last.draw = "zero" => last.id = 0
  /\ last.draw = "beyond" => last.id = gen.vocab - 1

\* generate_greedy picks the least of the best ids.
LEMMA GreedyIsGood ==
  ASSUME CallInv(gen), gen.phase = "pick", PickGreedy
  PROVE  \E id, last : GoodPick(id, last) /\ Pick(id, last)
<1>1. PICK raw \in [Contenders -> Levels] :
        LET s == Penalized(raw, gen.tokens)
        IN  Pick(Argmax(s), [draw |-> "inside", id |-> Argmax(s), kept |-> Best(s), best |-> Best(s)])
  BY Zenon DEF PickGreedy
<1> DEFINE s == Penalized(raw, gen.tokens)
           id == Argmax(s)
           last == [draw |-> "inside", id |-> id, kept |-> Best(s), best |-> Best(s)]
<1>2. /\ Contenders \in SUBSET Nat /\ IsFiniteSet(Contenders) /\ Contenders # {}
      /\ \A i \in Contenders : i < gen.vocab
  BY ContendersAreIds
<1>3. s \in [Contenders -> Int]
  <2>1. raw \in [Contenders -> Int]
    BY RawIsScores
  <2>2. gen.tokens \in Seq(Nat)
    BY DEF CallInv, Calls
  <2>. QED  BY <2>1, <2>2, PenalizedIsScores
<1>4. id \in Best(s) /\ Best(s) \in SUBSET Contenders
  <2>. HIDE DEF s
  <2>. QED  BY <1>2, <1>3, ArgmaxIsBest
<1>5. Pick(id, last)
  BY <1>1
<1>6. GoodPick(id, last)
  <2> DEFINE best == Best(s)
  <2>1. best \in SUBSET Nat /\ id \in best /\ id \in Nat /\ id < gen.vocab
    <3>. HIDE DEF s, id
    <3>. QED  BY <1>2, <1>4
  <2>. HIDE DEF s, id, best
  <2>2. last = [draw |-> "inside", id |-> id, kept |-> best, best |-> best]
    BY DEF best
  <2>. HIDE DEF last
  <2>3. last.draw = "inside" /\ last.id = id /\ last.kept = best /\ last.best = best /\ last \in Picks
    BY <2>1, <2>2 DEF Picks
  <2>. QED  BY <2>1, <2>3 DEF GoodPick
<1>. HIDE DEF last, id
<1>. QED  BY <1>5, <1>6

\* How PickSample calls what it drew.
Outcome(r, total) == CASE r = 0 -> "zero" [] r > total -> "beyond" [] OTHER -> "inside"

\* sample_from_logits picks an id that was kept, id 0 or the last.
LEMMA SampleIsGood ==
  ASSUME CallInv(gen), gen.phase = "pick", PickSample
  PROVE  \E id, last : GoodPick(id, last) /\ Pick(id, last)
<1>1. PICK raw \in [Contenders -> Levels] :
        LET s == Penalized(raw, gen.tokens)
            kept == Kept(s, gen.mode)
            total == Total(s, kept)
            cums == {Total(s, {j \in kept : j <= i}) : i \in kept}
        IN  \E r \in {0, total, total + 1} \cup cums :
              LET id == IF r > total THEN gen.vocab - 1 ELSE Drawn(s, kept, r)
              IN  Pick(id, [draw |-> Outcome(r, total), id |-> id, kept |-> kept, best |-> Best(s)])
  BY Zenon DEF PickSample, Outcome
<1> DEFINE s == Penalized(raw, gen.tokens)
           kept == Kept(s, gen.mode)
           total == Total(s, kept)
           cums == {Total(s, {j \in kept : j <= i}) : i \in kept}
<1>2. PICK r \in {0, total, total + 1} \cup cums :
              LET id == IF r > total THEN gen.vocab - 1 ELSE Drawn(s, kept, r)
              IN  Pick(id, [draw |-> Outcome(r, total), id |-> id, kept |-> kept, best |-> Best(s)])
  BY <1>1, Zenon
<1> DEFINE id == IF r > total THEN gen.vocab - 1 ELSE Drawn(s, kept, r)
           last == [draw |-> Outcome(r, total), id |-> id, kept |-> kept, best |-> Best(s)]
<1>3. /\ Contenders \in SUBSET Nat /\ IsFiniteSet(Contenders) /\ 0 \in Contenders
      /\ gen.vocab - 1 \in Nat /\ \A i \in Contenders : i < gen.vocab
  BY ContendersAreIds
<1>4. s \in [Contenders -> Int]
  <2>1. raw \in [Contenders -> Int]
    BY RawIsScores
  <2>2. gen.tokens \in Seq(Nat)
    BY DEF CallInv, Calls
  <2>. QED  BY <2>1, <2>2, PenalizedIsScores
<1>5. gen.mode \in [greedy : BOOLEAN, k : Nat, p : 1..10] /\ gen.vocab \in Nat
  BY GenerationAssumption DEF CallInv, Calls
<1>6. Contenders \in SUBSET Int /\ Contenders # {}
  BY <1>3
<1>. HIDE DEF s
<1>7. /\ kept \in SUBSET Contenders /\ kept # {}
      /\ gen.mode.k = 1 => kept \subseteq Best(s)
  BY <1>3, <1>4, <1>5, <1>6, KeptSurvives
<1>. HIDE DEF kept
<1>8. total \in Nat
  BY <1>3, <1>4, <1>7, WeightTotalIsNat
<1>9. r \in Nat
  <2>1. \A i \in kept : Total(s, {j \in kept : j <= i}) \in Nat
    <3>1. ASSUME NEW i \in kept PROVE Total(s, {j \in kept : j <= i}) \in Nat
      <4> DEFINE part == {j \in kept : j <= i}
      <4>1. part \in SUBSET Contenders
        BY <1>7
      <4>. HIDE DEF part
      <4>2. Total(s, part) \in Nat
        BY <1>3, <1>4, <4>1, WeightTotalIsNat
      <4>. QED  BY <4>2 DEF part
    <3>. QED  BY <3>1
  <2>2. cums \in SUBSET Nat
    BY <2>1
  <2>. HIDE DEF cums, total
  <2>. QED  BY <1>8, <2>2
<1>10. id \in Nat /\ id < gen.vocab
  <2>1. CASE r > total
    BY <1>3, <1>5, <2>1
  <2>2. CASE ~ (r > total)
    <3> DEFINE d == Drawn(s, kept, r)
    <3>1. d \in Contenders \/ d = gen.vocab - 1
      BY <1>3, <1>4, DrawnIsFirst
    <3>2. id = d
      BY <2>2
    <3>. HIDE DEF id, d
    <3>3. CASE d \in Contenders
      BY <1>3, <3>2, <3>3
    <3>4. CASE d = gen.vocab - 1
      BY <1>3, <1>5, <3>2, <3>4
    <3>. QED  BY <3>1, <3>3, <3>4
  <2>. QED  BY <2>1, <2>2
<1>11. r = 0 => id = 0
  <2>1. ASSUME r = 0 PROVE id = 0
    <3>1. id = Drawn(s, kept, 0)
      BY <1>8, <2>1
    <3>. HIDE DEF id
    <3>. QED  BY <1>3, <1>4, <1>7, <3>1, DrawnAtZero
  <2>. QED  BY <2>1
<1>12. r # 0 /\ ~ (r > total) => id \in kept
  <2>1. ASSUME r # 0, ~ (r > total) PROVE id \in kept
    <3>1. 0 < r /\ r <= Total(s, kept)
      BY <1>8, <1>9, <2>1
    <3>2. Drawn(s, kept, r) \in kept
      BY <1>3, <1>4, <1>7, <1>9, <3>1, DrawnIsKept
    <3>. QED  BY <2>1, <3>2
  <2>. QED  BY <2>1
<1>13. Pick(id, last)
  BY <1>2
<1>14. GoodPick(id, last)
  <2> DEFINE outcome == Outcome(r, total)
             best == Best(s)
  <2>1. /\ r = 0 => outcome = "zero"
        /\ r # 0 /\ r > total => outcome = "beyond"
        /\ r # 0 /\ ~ (r > total) => outcome = "inside"
    <3>. HIDE DEF total
    <3>. QED  BY <1>8, <1>9 DEF Outcome
  <2>2. r > total => id = gen.vocab - 1
    OBVIOUS
  <2>3. best \in SUBSET Nat /\ kept \in SUBSET Nat
    BY <1>3, <1>4, <1>7 DEF Best
  <2>4. gen.mode.greedy = FALSE
    BY <1>5 DEF PickSample
  <2>. HIDE DEF total, id, outcome, best
  <2>5. last = [draw |-> outcome, id |-> id, kept |-> kept, best |-> best]
    BY DEF outcome, best
  <2>. HIDE DEF last
  <2>6. last.draw = outcome /\ last.id = id /\ last.kept = kept /\ last.best = best
    BY <2>5
  <2>7. last \in Picks
    BY <1>10, <2>1, <2>3, <2>5 DEF Picks
  <2>8. gen.mode.k = 1 => kept \subseteq best
    BY <1>7 DEF best
  <2>. QED  BY <1>10, <1>11, <1>12, <2>1, <2>2, <2>4, <2>6, <2>7, <2>8 DEF GoodPick
<1>. HIDE DEF last, id
<1>. QED  BY <1>13, <1>14

-----------------------------------------------------------------------------
(* The steps.                                                              *)

\* Start: the call's fields.
LEMMA StartKeeps ==
  ASSUME NEW ids \in Seq(Nat), NEW size \in Nat, NEW mode \in Modes, Start(ids, size, mode)
  PROVE  GenInv'
<1> DEFINE phase == IF ids = <<>> THEN "done" ELSE "feed"
<1>1. gen' = [phase |-> phase, vocab |-> size, mode |-> mode, prompt |-> ids, tokens |-> ids, position |-> 0,
              shown |-> <<>>, last |-> NoPick]
  BY DEF Start
<1>2. NoPick \in Picks /\ NoPick.draw = "none"
  BY DEF NoPick, Picks
<1>3. phase \in {"done", "feed"} /\ phase \in Phases /\ (phase = "feed" <=> ids # <<>>) /\ <<>> \in Seq(Nat) /\ Len(<<>>) = 0
  BY EmptySeq DEF Phases
<1>. HIDE DEF phase
<1>4. gen' \in Calls
  BY <1>1, <1>2, <1>3 DEF Calls
<1>5. /\ gen'.phase = phase /\ gen'.vocab = size /\ gen'.prompt = ids /\ gen'.tokens = ids
      /\ gen'.position = 0 /\ gen'.shown = <<>> /\ gen'.last = NoPick
  BY <1>1
<1>6. Len(ids) \in Nat /\ (ids # <<>> => Len(ids) # 0)
  BY EmptySeq
<1>7. TokensInv(gen')
  BY <1>3, <1>5, <1>6, GenerationAssumption DEF TokensInv
<1>8. PhaseInv(gen')
  BY <1>3, <1>5, <1>6 DEF PhaseInv
<1>9. EndInv(gen')
  BY <1>3, <1>5 DEF EndInv
<1>10. PickInv(gen')
  BY <1>2, <1>5 DEF PickInv
<1>. QED  BY <1>4, <1>7, <1>8, <1>9, <1>10 DEF GenInv, CallInv

\* A call c that is g with other fields.
Becomes(g, c, phase, tokens, position, shown, last) ==
  /\ c \in Calls
  /\ c.phase = phase /\ c.tokens = tokens /\ c.position = position /\ c.shown = shown /\ c.last = last
  /\ c.vocab = g.vocab /\ c.mode = g.mode /\ c.prompt = g.prompt

\* What each handler's update makes of a call.
LEMMA LastUpdate ==
  ASSUME NEW g \in Calls, NEW l \in Picks
  PROVE  Becomes(g, [g EXCEPT !.last = l], g.phase, g.tokens, g.position, g.shown, l)
BY DEF Becomes, Calls

\* The phase alone: a refusal.
LEMMA PhaseUpdate ==
  ASSUME NEW g \in Calls, NEW p \in Phases
  PROVE  Becomes(g, [g EXCEPT !.phase = p], p, g.tokens, g.position, g.shown, g.last)
BY DEF Becomes, Calls, Phases

\* A step of the session.
LEMMA StepUpdate ==
  ASSUME NEW g \in Calls, NEW n \in Nat, NEW p \in Phases
  PROVE  Becomes(g, [g EXCEPT !.position = n, !.phase = p], p, g.tokens, n, g.shown, g.last)
BY DEF Becomes, Calls, Phases

\* The end.
LEMMA FinishUpdate ==
  ASSUME NEW g \in Calls, NEW p \in Phases, NEW l \in Picks
  PROVE  Becomes(g, [g EXCEPT !.phase = p, !.last = l], p, g.tokens, g.position, g.shown, l)
BY DEF Becomes, Calls, Phases

\* A pick.
LEMMA PickUpdate ==
  ASSUME NEW g \in Calls, NEW p \in Phases, NEW l \in Picks, NEW t \in Seq(Nat), NEW s \in Seq(Nat)
  PROVE  Becomes(g, [g EXCEPT !.tokens = t, !.shown = s, !.last = l, !.phase = p], p, t, g.position, s, l)
BY DEF Becomes, Calls, Phases

\* Feed: a token joins, or the call is refused for its prompt.
LEMMA FeedKeeps ==
  ASSUME CallInv(gen), Feed
  PROVE  CallInv(gen')
<1> DEFINE n == gen.position
           token == gen.tokens[n + 1]
           h == [gen EXCEPT !.last = NoPick]
<1>1. /\ gen \in Calls /\ gen.phase = "feed" /\ gen' = StepWith(h, token)
      /\ gen.tokens \in Seq(Nat) /\ gen.prompt \in Seq(Nat) /\ gen.shown \in Seq(Nat) /\ n \in Nat /\ gen.vocab \in Nat
  BY DEF CallInv, Calls, Feed
<1>2. NoPick \in Picks /\ NoPick.draw = "none"
  BY DEF NoPick, Picks
<1>3. Becomes(gen, h, gen.phase, gen.tokens, n, gen.shown, NoPick)
  BY <1>1, <1>2, LastUpdate
<1>4. /\ Len(gen.tokens) \in Nat /\ Len(gen.prompt) \in Nat /\ Len(gen.shown) \in Nat
      /\ (gen.shown = <<>> <=> Len(gen.shown) = 0)
  BY <1>1, EmptySeq
<1>5. n < Len(gen.tokens) /\ gen.prompt # <<>> /\ token \in Nat
  <2>1. n < Len(gen.tokens) /\ gen.prompt # <<>>
    BY <1>1 DEF CallInv, PhaseInv
  <2>2. n + 1 \in 1..Len(gen.tokens)
    <3>1. n \in Nat /\ Len(gen.tokens) \in Nat
      BY <1>1, <1>4
    <3> HIDE DEF n
    <3>. QED  BY <3>1, <2>1
  <2>3. token \in Nat
    BY <1>1, <2>2, ElementOfSeq
  <2>. QED  BY <2>1, <2>3
<1>6. TokensInv(gen) /\ PhaseInv(gen)
  BY DEF CallInv
<1>. HIDE DEF h, n, token
<1>7. CASE n >= MaxLen \/ token \notin 0..(gen.vocab - 1)
  <2>1. Becomes(h, gen', "refused", gen.tokens, n, gen.shown, NoPick)
    <3>1. gen' = [h EXCEPT !.phase = "refused"]
      BY <1>1, <1>3, <1>7 DEF StepWith, Becomes
    <3>2. "refused" \in Phases /\ h \in Calls
      BY <1>3 DEF Phases, Becomes
    <3>. QED  BY <1>3, <3>1, <3>2, PhaseUpdate DEF Becomes
  <2>2. Becomes(gen, gen', "refused", gen.tokens, n, gen.shown, NoPick)
    BY <1>3, <2>1 DEF Becomes
  <2>3. gen.shown = <<>>
    <3>1. ASSUME gen.shown # <<>> PROVE n < MaxLen /\ token < gen.vocab
      BY <1>1, <1>6, <3>1 DEF PhaseInv, n, token
    <3>. QED  BY <1>1, <1>5, <1>7, <3>1, GenerationAssumption
  <2>4. TokensInv(gen')
    BY <1>1, <1>6, <2>2 DEF TokensInv, Becomes, n
  <2>5. PhaseInv(gen')
    BY <1>5, <2>2 DEF PhaseInv, Becomes
  <2>6. Len(gen.prompt) > MaxLen \/ \E k \in DOMAIN gen.prompt : gen.prompt[k] >= gen.vocab
    <3>1. Len(gen.prompt) = Len(gen.tokens)
      BY <1>4, <1>6, <2>3 DEF TokensInv
    <3>2. CASE n >= MaxLen
      BY <1>1, <1>4, <1>5, <3>1, <3>2, GenerationAssumption
    <3>3. CASE token \notin 0..(gen.vocab - 1)
      <4>1. n + 1 \in 1..Len(gen.prompt)
        BY <1>1, <1>4, <1>5, <3>1
      <4>2. gen.prompt[n + 1] = token
        BY <1>6, <4>1 DEF TokensInv, token
      <4>3. token >= gen.vocab
        BY <1>1, <1>5, <3>3
      <4>4. n + 1 \in DOMAIN gen.prompt
        BY <1>1, <4>1
      <4>. QED  BY <4>2, <4>3, <4>4
    <3>. QED  BY <1>7, <3>2, <3>3
  <2>7. EndInv(gen')
    BY <2>2, <2>6 DEF EndInv, Becomes
  <2>8. PickInv(gen')
    BY <1>2, <2>2 DEF PickInv, Becomes
  <2>. QED  BY <2>2, <2>4, <2>5, <2>7, <2>8 DEF CallInv, Becomes
<1>8. CASE ~ (n >= MaxLen \/ token \notin 0..(gen.vocab - 1))
  <2> DEFINE p == IF n + 1 = Len(gen.tokens) THEN "pick" ELSE "feed"
  <2>1. Becomes(h, gen', p, gen.tokens, n + 1, gen.shown, NoPick)
    <3>1. gen' = [h EXCEPT !.position = n + 1, !.phase = p]
      BY <1>1, <1>3, <1>8 DEF StepWith, Becomes
    <3>2. p \in Phases /\ h \in Calls /\ n + 1 \in Nat
      BY <1>1, <1>3 DEF Phases, Becomes
    <3>. HIDE DEF p
    <3>3. Becomes(h, gen', p, h.tokens, n + 1, h.shown, h.last)
      BY <3>1, <3>2, StepUpdate
    <3>4. h.tokens = gen.tokens /\ h.shown = gen.shown /\ h.last = NoPick
      BY <1>3 DEF Becomes
    <3>. QED  BY <3>3, <3>4
  <2>2. /\ p \in {"pick", "feed"} /\ (p = "pick" <=> n + 1 = Len(gen.tokens))
    OBVIOUS
  <2>. HIDE DEF p
  <2>3. Becomes(gen, gen', p, gen.tokens, n + 1, gen.shown, NoPick)
    BY <1>3, <2>1 DEF Becomes
  <2>4. n + 1 <= MaxLen /\ token < gen.vocab
    BY <1>1, <1>5, <1>8, GenerationAssumption
  <2>5. \A k \in 1..(n + 1) : gen.tokens[k] < gen.vocab
    <3>1. \A k \in 1..n : gen.tokens[k] < gen.vocab
      BY <1>6 DEF TokensInv, n
    <3>. QED  BY <1>1, <2>4, <3>1 DEF token
  <2>6. TokensInv(gen')
    <3>1. /\ Len(gen.tokens) = Len(gen.prompt) + Len(gen.shown) /\ Len(gen.shown) <= MaxTokens
          /\ \A k \in 1..Len(gen.prompt) : gen.tokens[k] = gen.prompt[k]
      BY <1>6 DEF TokensInv
    <3>2. n + 1 <= Len(gen.tokens)
      BY <1>1, <1>4, <1>5
    <3>. QED  BY <2>3, <2>4, <2>5, <3>1, <3>2 DEF TokensInv, Becomes
  <2>7. PhaseInv(gen')
    <3>1. ASSUME gen.shown # <<>> PROVE n + 1 = Len(gen.tokens)
      BY <1>1, <1>6, <3>1 DEF PhaseInv, n
    <3>2. p = "feed" => n + 1 < Len(gen.tokens) /\ gen.shown = <<>>
      BY <1>1, <1>4, <1>5, <2>2, <3>1
    <3>. QED  BY <1>5, <2>2, <2>3, <3>2 DEF PhaseInv, Becomes
  <2>8. EndInv(gen')
    BY <2>2, <2>3 DEF EndInv, Becomes
  <2>9. PickInv(gen')
    BY <1>2, <2>3 DEF PickInv, Becomes
  <2>. QED  BY <2>3, <2>6, <2>7, <2>8, <2>9 DEF CallInv, Becomes
<1>. QED  BY <1>7, <1>8

\* A good pick, greedy or sampled: the context ends the call, or it goes on.
LEMMA PickKeeps ==
  ASSUME CallInv(gen), Wanted, NEW id, NEW last, GoodPick(id, last), Pick(id, last)
  PROVE  CallInv(gen')
<1> DEFINE tokens == Append(gen.tokens, id)
           shown == Append(gen.shown, id)
           n == gen.position
           p == IF n >= MaxLen THEN "done" ELSE "feed"
<1>1. /\ gen \in Calls /\ gen.phase = "pick" /\ id \in Nat /\ id < gen.vocab /\ last \in Picks
      /\ gen.tokens \in Seq(Nat) /\ gen.prompt \in Seq(Nat) /\ gen.shown \in Seq(Nat) /\ n \in Nat /\ gen.vocab \in Nat
      /\ Len(gen.tokens) - Len(gen.prompt) < MaxTokens
  BY DEF CallInv, Calls, Wanted, GoodPick
<1>2. Becomes(gen, gen', p, tokens, n, shown, last)
  <2>1. gen' = [gen EXCEPT !.tokens = tokens, !.shown = shown, !.last = last, !.phase = p]
    BY DEF Pick, Full
  <2>2. tokens \in Seq(Nat) /\ shown \in Seq(Nat) /\ p \in Phases
    BY <1>1, AppendProperties DEF Phases
  <2>. HIDE DEF tokens, shown, p
  <2>. QED  BY <1>1, <2>1, <2>2, PickUpdate
<1> DEFINE t == Len(gen.tokens)
           q == Len(gen.prompt)
           m == Len(gen.shown)
<1>3. t \in Nat /\ q \in Nat /\ m \in Nat
  BY <1>1
<1>4. /\ Len(tokens) = t + 1 /\ tokens[t + 1] = id /\ \A k \in 1..t : tokens[k] = gen.tokens[k]
  BY <1>1, AppendProperties
<1>5. Len(shown) = m + 1 /\ shown # <<>>
  <2>1. Len(shown) = m + 1 /\ shown \in Seq(Nat)
    BY <1>1, AppendProperties
  <2>. HIDE DEF shown, m
  <2>. QED  BY <1>3, <2>1, EmptySeq
<1>6. TokensInv(gen) /\ n = t /\ gen.prompt # <<>>
  BY <1>1 DEF CallInv, PhaseInv
<1>7. /\ t = q + m /\ n <= MaxLen /\ t - q < MaxTokens
      /\ \A k \in 1..q : gen.tokens[k] = gen.prompt[k]
      /\ \A k \in 1..n : gen.tokens[k] < gen.vocab
  BY <1>1, <1>6 DEF TokensInv
<1>8. p \in {"done", "feed"} /\ (p = "done" <=> n >= MaxLen)
  OBVIOUS
<1>9. MaxLen \in Nat /\ MaxTokens \in Nat
  BY GenerationAssumption
<1>. HIDE DEF tokens, shown, p, n, t, m
<1>10. TokensInv(gen')
  <2>1. \A k \in 1..q : tokens[k] = gen.prompt[k]
    <3>. HIDE DEF q
    <3>. QED  BY <1>3, <1>4, <1>7
  <2>2. \A k \in 1..n : tokens[k] < gen.vocab
    BY <1>4, <1>6, <1>7
  <2>3. Len(tokens) = q + Len(shown) /\ n <= Len(tokens) /\ Len(shown) <= MaxTokens
    <3>. HIDE DEF q
    <3>. QED  BY <1>3, <1>4, <1>5, <1>6, <1>7, <1>9
  <2>. QED  BY <1>2, <1>7, <2>1, <2>2, <2>3 DEF TokensInv, Becomes
<1>11. PhaseInv(gen')
  <2>1. n < Len(tokens) /\ Len(tokens) = n + 1 /\ tokens[n + 1] < gen.vocab
    BY <1>1, <1>3, <1>4, <1>6
  <2>2. p = "feed" => n < MaxLen
    BY <1>1, <1>8, <1>9
  <2>. QED  BY <1>2, <1>6, <1>8, <2>1, <2>2 DEF PhaseInv, Becomes
<1>12. EndInv(gen')
  <2>1. p = "done" => Len(shown) = IF MaxTokens < MaxLen - q + 1 THEN MaxTokens ELSE MaxLen - q + 1
    <3>. HIDE DEF q
    <3>. QED  BY <1>3, <1>5, <1>6, <1>7, <1>8, <1>9
  <2>. QED  BY <1>2, <1>8, <2>1 DEF EndInv, RoomLeft, Becomes
<1>13. PickInv(gen')
  BY <1>2 DEF PickInv, GoodPick, Becomes
<1>. QED  BY <1>2, <1>10, <1>11, <1>12, <1>13 DEF CallInv, Becomes

\* Finish: max_tokens were picked, and the context was long enough.
LEMMA FinishKeeps ==
  ASSUME CallInv(gen), Finish
  PROVE  CallInv(gen')
<1>1. /\ gen \in Calls /\ gen.phase = "pick" /\ gen' = [gen EXCEPT !.phase = "done", !.last = NoPick]
      /\ gen.prompt \in Seq(Nat) /\ gen.shown \in Seq(Nat)
      /\ Len(gen.tokens) - Len(gen.prompt) >= MaxTokens
  BY DEF CallInv, Calls, Finish
<1>2. NoPick \in Picks /\ NoPick.draw = "none" /\ "done" \in Phases
  BY DEF NoPick, Picks, Phases
<1>3. Becomes(gen, gen', "done", gen.tokens, gen.position, gen.shown, NoPick)
  BY <1>1, <1>2, FinishUpdate
<1>4. TokensInv(gen) /\ gen.position = Len(gen.tokens)
  BY <1>1 DEF CallInv, PhaseInv
<1>5. TokensInv(gen')
  BY <1>3, <1>4 DEF TokensInv, Becomes
<1>6. PhaseInv(gen')
  BY <1>3 DEF PhaseInv, Becomes
<1>7. EndInv(gen')
  <2> DEFINE t == Len(gen.tokens)
             q == Len(gen.prompt)
             m == Len(gen.shown)
  <2>1. q \in Nat /\ m \in Nat
    BY <1>1
  <2>2. t = q + m /\ t <= MaxLen /\ m <= MaxTokens /\ t - q >= MaxTokens
    BY <1>1, <1>4 DEF TokensInv
  <2>3. MaxLen \in Nat /\ MaxTokens \in Nat
    BY GenerationAssumption
  <2>4. m = IF MaxTokens < MaxLen - q + 1 THEN MaxTokens ELSE MaxLen - q + 1
    <3>. HIDE DEF t, q, m
    <3>. QED  BY <2>1, <2>2, <2>3
  <2>. QED  BY <1>3, <2>4 DEF EndInv, RoomLeft, Becomes
<1>8. PickInv(gen')
  BY <1>2, <1>3 DEF PickInv, Becomes
<1>. QED  BY <1>3, <1>5, <1>6, <1>7, <1>8 DEF CallInv, Becomes

\* Every step keeps the invariant.
LEMMA StepKeeps == GenInv /\ [GenNext]_gen => GenInv'
<1> SUFFICES ASSUME GenInv, [GenNext]_gen PROVE GenInv'
  OBVIOUS
<1>1. ASSUME gen = Idle PROVE gen.phase = "idle"
  BY <1>1 DEF Idle
<1>2. ASSUME gen.phase # "idle" PROVE CallInv(gen)
  BY <1>1, <1>2 DEF GenInv
<1>3. ASSUME NEW ids \in Seq(Nat), NEW size \in Nat, NEW mode \in Modes, Start(ids, size, mode) PROVE GenInv'
  BY <1>3, StartKeeps
<1>4. CASE Feed
  <2>1. CallInv(gen)
    BY <1>2, <1>4 DEF Feed
  <2>. QED  BY <1>4, <2>1, FeedKeeps DEF GenInv
<1>5. CASE PickGreedy
  <2>1. Wanted /\ gen.phase = "pick"
    BY <1>5 DEF PickGreedy, Wanted
  <2>2. CallInv(gen)
    BY <1>2, <2>1
  <2>3. PICK id, last : GoodPick(id, last) /\ Pick(id, last)
    BY <1>5, <2>1, <2>2, GreedyIsGood
  <2>. QED  BY <2>1, <2>2, <2>3, PickKeeps DEF GenInv
<1>6. CASE PickSample
  <2>1. Wanted /\ gen.phase = "pick"
    BY <1>6 DEF PickSample, Wanted
  <2>2. CallInv(gen)
    BY <1>2, <2>1
  <2>3. PICK id, last : GoodPick(id, last) /\ Pick(id, last)
    BY <1>6, <2>1, <2>2, SampleIsGood
  <2>. QED  BY <2>1, <2>2, <2>3, PickKeeps DEF GenInv
<1>7. CASE Finish
  <2>1. CallInv(gen)
    BY <1>2, <1>7 DEF Finish
  <2>. QED  BY <1>7, <2>1, FinishKeeps DEF GenInv
<1>8. CASE UNCHANGED gen
  BY <1>8 DEF GenInv, CallInv, TokensInv, PhaseInv, EndInv, PickInv, RoomLeft, Calls
<1>. QED  BY <1>3, <1>4, <1>5, <1>6, <1>7, <1>8 DEF GenNext, Continuing

\* The invariant holds of every call.
THEOREM Invariance == GenSpec => []GenInv
<1>1. gen = Idle => GenInv
  BY DEF GenInv
<1>. QED  BY <1>1, StepKeeps, PTL DEF GenSpec

\* A call ends after max_tokens or one token past the context, whichever comes
\* first, and is refused for its prompt only (generate_greedy, generate_sample,
\* generate_stream, InferenceSession::step).
THEOREM StopsInTime == GenSpec => []FillsOrStops
<1>1. GenInv => FillsOrStops
  BY DEF GenInv, CallInv, EndInv, RoomLeft, FillsOrStops
<1>. QED  BY <1>1, Invariance, PTL

\* What was sampled survived top_k and top_p, and is the best with k = 1, but for
\* a draw of exactly 0 and one past the sum (sample_from_logits).
THEOREM FiltersHold == GenSpec => []SamplesKept
<1>1. GenInv => SamplesKept
  BY DEF GenInv, CallInv, PickInv, SamplesKept
<1>. QED  BY <1>1, Invariance, PTL
-----------------------------------------------------------------------------
(* The first tokenizer. An instance brings library operators of its own.   *)

\* They are the library's.
LEMMA V1Library ==
  /\ \A S : V1!Cardinality(S) = Cardinality(S) /\ V1!IsFiniteSet(S) = IsFiniteSet(S)
  /\ \A s : V1!FlattenSeq(s) = FlattenSeq(s) /\ V1!ToSet(s) = ToSet(s) /\ V1!Range(s) = Range(s)
  /\ \A S : V1!SetToSeqs(S) = SetToSeqs(S)
<1>1. ASSUME NEW S PROVE V1!Cardinality(S) = Cardinality(S)
  BY DEF V1!Cardinality, Cardinality
<1>2. ASSUME NEW S PROVE V1!IsFiniteSet(S) = IsFiniteSet(S)
  BY DEF V1!IsFiniteSet, IsFiniteSet
<1>3. ASSUME NEW s PROVE V1!FlattenSeq(s) = FlattenSeq(s)
  BY DEF V1!FlattenSeq, FlattenSeq
<1>4. ASSUME NEW s PROVE V1!ToSet(s) = ToSet(s) /\ V1!Range(s) = Range(s)
  BY DEF V1!ToSet, ToSet, V1!Range, Range
<1>5. ASSUME NEW S PROVE V1!SetToSeqs(S) = SetToSeqs(S)
  BY <1>1 DEF V1!SetToSeqs, SetToSeqs
<1>. QED  BY <1>1, <1>2, <1>3, <1>4, <1>5
-----------------------------------------------------------------------------
(* Numbers in order.                                                       *)

\* s lists the elements of S, each once.
ListsAll(s, S) ==
  /\ s \in Seq(S) /\ Len(s) = Cardinality(S) /\ Len(s) \in Nat
  /\ \A x \in S : \E k \in 1..Len(s) : s[k] = x
  /\ \A j, k \in 1..Len(s) : s[j] = s[k] => j = k

\* InOrder lists a finite set of integers.
LEMMA InOrderLists ==
  ASSUME NEW S, S \subseteq Int, IsFiniteSet(S)
  PROVE  ListsAll(V1!InOrder(S), S)
<1> DEFINE f == [i \in S |-> 0]
           n == Cardinality(S)
           s == V1!InOrder(S)
<1>1. f \in [S -> Int] /\ n \in Nat /\ DOMAIN f = S
  BY FS_CardinalityType
<1>2. ASSUME NEW x \in S PROVE {y \in S : y <= x} = Ahead(f, x)
  BY <1>2 DEF Ahead
<1>3. s = [k \in 1..n |-> CHOOSE x \in S : Cardinality({y \in S : y <= x}) = k]
  <2>1. V1!Cardinality(S) = Cardinality(S)
    BY V1Library
  <2>2. ASSUME NEW x PROVE V1!Cardinality({y \in S : y <= x}) = Cardinality({y \in S : y <= x})
    BY V1Library
  <2>3. s = [k \in 1..V1!Cardinality(S) |-> CHOOSE x \in S : V1!Cardinality({y \in S : y <= x}) = k]
    BY DEF V1!InOrder
  <2>. QED  BY <2>1, <2>2, <2>3
<1>4. ASSUME NEW x \in S PROVE Cardinality(Ahead(f, x)) \in 1..n
  <2>. HIDE DEF f
  <2>. QED  BY <1>1, <1>4, AheadIsFinite
<1>5. ASSUME NEW k \in 1..n PROVE \E x \in S : Cardinality(Ahead(f, x)) = k
  <2>. HIDE DEF f
  <2>. QED  BY <1>1, <1>5, EveryRankIsTaken
<1>6. ASSUME NEW x \in S, NEW y \in S, x # y PROVE Cardinality(Ahead(f, x)) # Cardinality(Ahead(f, y))
  <2>1. f[x] = 0 /\ f[y] = 0 /\ x \in Int /\ y \in Int /\ (x < y \/ y < x)
    BY <1>6
  <2>2. Cardinality(Ahead(f, x)) < Cardinality(Ahead(f, y)) \/ Cardinality(Ahead(f, y)) < Cardinality(Ahead(f, x))
    <3>. HIDE DEF f
    <3>. QED  BY <1>1, <1>6, <2>1, PlacesDiffer
  <2>3. Cardinality(Ahead(f, x)) \in Int /\ Cardinality(Ahead(f, y)) \in Int
    <3>. HIDE DEF f
    <3>. QED  BY <1>1, <1>4
  <2>. QED  BY <2>2, <2>3
<1>7. ASSUME NEW k \in 1..n PROVE s[k] \in S /\ Cardinality(Ahead(f, s[k])) = k
  <2>1. \E x \in S : Cardinality({y \in S : y <= x}) = k
    BY <1>2, <1>5
  <2>2. s[k] = CHOOSE x \in S : Cardinality({y \in S : y <= x}) = k
    BY <1>3
  <2>3. s[k] \in S /\ Cardinality({y \in S : y <= s[k]}) = k
    BY <2>1, <2>2
  <2>. QED  BY <1>2, <2>3
<1>8. s \in [1..n -> S]
  BY <1>3, <1>7
<1>9. s \in Seq(S) /\ Len(s) = n
  <2>. HIDE DEF s, n
  <2>. QED  BY <1>1, <1>8, FunIsSeq
<1>10. ASSUME NEW x \in S PROVE \E k \in 1..n : s[k] = x
  BY <1>4, <1>6, <1>7
<1>11. \A j, k \in 1..n : s[j] = s[k] => j = k
  BY <1>7
<1>12. ListsAll(s, S)
  <2>. HIDE DEF s
  <2>. QED  BY <1>1, <1>9, <1>10, <1>11 DEF ListsAll
<1>. QED  BY <1>12
-----------------------------------------------------------------------------
(* The words of a text.                                                    *)

\* The characters words are made of.
Letters1(t) == {V1!Underscore} \cup (ToSet(t) \ V1!Blank)

\* A word that starts at i ends at j.
EndsAt(t, i, j) ==
  /\ j \in i..Len(t) /\ \A k \in i..j : t[k] \notin V1!Blank
  /\ j = Len(t) \/ t[j + 1] \in V1!Blank

\* A word ends.
LEMMA WordEnds ==
  ASSUME NEW t, t \in Seq(Byte), NEW i, i \in 1..Len(t), t[i] \notin V1!Blank
  PROVE  \E j : EndsAt(t, i, j)
<1> DEFINE T == {j \in i..Len(t) : j = Len(t) \/ t[j + 1] \in V1!Blank}
<1>1. Len(t) \in Nat /\ i \in Nat
  OBVIOUS
<1>2. T \in SUBSET Nat /\ Len(t) \in T
  BY <1>1
<1>3. PICK m \in T : \A y \in T : m <= y
  BY <1>2, LeastElement
<1>4. m \in i..Len(t) /\ (m = Len(t) \/ t[m + 1] \in V1!Blank)
  BY <1>3
<1>5. ASSUME NEW k \in i..m PROVE t[k] \notin V1!Blank
  <2>1. CASE k = i
    BY <2>1
  <2>2. CASE k # i
    <3>1. k - 1 \in i..Len(t) /\ k - 1 < m /\ k - 1 # Len(t) /\ (k - 1) + 1 = k
      BY <1>1, <1>4, <2>2
    <3>2. k - 1 \notin T
      <4>1. \A y \in T : m <= y
        BY <1>3
      <4>2. k - 1 \in Int /\ m \in Int
        BY <1>1, <1>4, <3>1
      <4>. HIDE DEF T
      <4>. QED  BY <3>1, <4>1, <4>2
    <3>. QED  BY <3>1, <3>2
  <2>. QED  BY <2>1, <2>2
<1>. QED  BY <1>4, <1>5 DEF EndsAt

\* A part of a text without blanks.
LEMMA PartIsWord ==
  ASSUME NEW t, t \in Seq(Byte), NEW i, i \in 1..Len(t), NEW j, EndsAt(t, i, j)
  PROVE  SubSeq(t, i, j) \in Seq(Letters1(t))
<1>1. j \in i..Len(t) /\ Len(t) \in Nat /\ i \in Nat /\ j \in Nat /\ DOMAIN t = 1..Len(t)
  BY DEF EndsAt
<1>2. SubSeq(t, i, j) = [k \in 1..(j - i + 1) |-> t[i + k - 1]]
  BY <1>1
<1>3. ASSUME NEW k \in 1..(j - i + 1) PROVE t[i + k - 1] \in Letters1(t)
  <2>1. i + k - 1 \in i..j /\ i + k - 1 \in DOMAIN t
    BY <1>1
  <2>. QED  BY <2>1 DEF EndsAt, Letters1, ToSet
<1>4. j - i + 1 \in Nat
  BY <1>1
<1>5. [k \in 1..(j - i + 1) |-> t[i + k - 1]] \in [1..(j - i + 1) -> Letters1(t)]
  BY <1>3
<1>6. [k \in 1..(j - i + 1) |-> t[i + k - 1]] \in Seq(Letters1(t))
  BY ONLY <1>4, <1>5, FunIsSeq
<1>. QED  BY <1>2, <1>6

\* Where words start.
Starts1(t) == {i \in DOMAIN t : t[i] \notin V1!Blank /\ (i = 1 \/ t[i - 1] \in V1!Blank)}

\* The words of a text are made of its characters and the underscore.
LEMMA WordsAre ==
  ASSUME NEW t, t \in Seq(Byte)
  PROVE  V1!SplitWords(t) \in Seq(Seq(Letters1(t))) /\ Letters1(t) \subseteq Byte
<1> DEFINE starts == V1!InOrder(Starts1(t))
           end(i) == CHOOSE j \in i..Len(t) : /\ \A k \in i..j : t[k] \notin V1!Blank
                                              /\ j = Len(t) \/ t[j + 1] \in V1!Blank
           raw(n) == SubSeq(t, starts[n], end(starts[n]))
           C == Letters1(t)
<1>1. V1!SplitWords(t) = [n \in DOMAIN starts |-> IF n = 1 THEN raw(n) ELSE <<V1!Underscore>> \o raw(n)]
  BY DEF V1!SplitWords, Starts1
<1>2. DOMAIN t = 1..Len(t) /\ Len(t) \in Nat /\ Starts1(t) \subseteq 1..Len(t)
  BY DEF Starts1
<1>3. ListsAll(starts, Starts1(t))
  <2>1. IsFiniteSet(Starts1(t)) /\ Starts1(t) \subseteq Int
    <3>1. IsFiniteSet(1..Len(t))
      BY <1>2, FS_Interval
    <3>. QED  BY <1>2, <3>1, FS_Subset
  <2>. QED  BY <2>1, InOrderLists
<1>4. ASSUME NEW n \in DOMAIN starts PROVE raw(n) \in Seq(C)
  <2>1. starts[n] \in Starts1(t)
    BY <1>3 DEF ListsAll
  <2>2. starts[n] \in 1..Len(t) /\ t[starts[n]] \notin V1!Blank
    BY <1>2, <2>1 DEF Starts1
  <2>3. \E j : EndsAt(t, starts[n], j)
    BY <2>2, WordEnds
  <2>4. EndsAt(t, starts[n], end(starts[n]))
    BY <2>3 DEF EndsAt
  <2>. HIDE DEF end, starts
  <2>. QED  BY <2>2, <2>4, PartIsWord
<1>5. V1!Underscore \in C
  BY DEF Letters1
<1>6. ASSUME NEW n \in DOMAIN starts PROVE (IF n = 1 THEN raw(n) ELSE <<V1!Underscore>> \o raw(n)) \in Seq(C)
  <2>. HIDE DEF raw, C, starts
  <2>1. raw(n) \in Seq(C) /\ <<V1!Underscore>> \in Seq(C)
    BY <1>4, <1>5
  <2>. QED  BY <2>1
<1>7. DOMAIN starts = 1..Len(starts) /\ Len(starts) \in Nat
  BY <1>3 DEF ListsAll
<1>8. V1!SplitWords(t) \in Seq(Seq(C))
  <2>1. V1!SplitWords(t) \in [1..Len(starts) -> Seq(C)]
    <3>. HIDE DEF raw, C, starts
    <3>. QED  BY <1>1, <1>6, <1>7
  <2>. HIDE DEF C, starts
  <2>. QED  BY <1>7, <2>1, FunIsSeq
<1>9. C \subseteq Byte
  <2>1. ToSet(t) \subseteq Byte
    BY <1>2 DEF ToSet
  <2>2. V1!Underscore \in Byte
    BY DEF V1!Underscore, Byte
  <2>. QED  BY <2>1, <2>2 DEF Letters1
<1>. QED  BY <1>8, <1>9
-----------------------------------------------------------------------------
(* A recursion whose step is told which one it is.                         *)

\* f holds what x becomes in n steps, the k-th of them k's.
Runs(f, step, n, x) == f = [k \in 0..n |-> IF k = 0 THEN x ELSE step[<<k, f[k - 1]>>]]

\* The steps stay in S.
Within1(step, n, S) == \A k \in 1..n : \A s \in S : step[<<k, s>>] \in S

\* f is in S up to n.
AllIn(f, n, S) == \A k \in 0..n : f[k] \in S

\* One step more.
LEMMA RunsOn ==
  ASSUME NEW S, NEW step, NEW x, NEW n, n \in Nat, NEW m, m \in Nat, n + 1 <= m, Within1(step, m, S),
         NEW f, Runs(f, step, n, x), AllIn(f, n, S)
  PROVE  \E g : Runs(g, step, n + 1, x) /\ AllIn(g, n + 1, S)
<1> DEFINE g == [k \in 0..(n + 1) |-> IF k = n + 1 THEN step[<<n + 1, f[n]>>] ELSE f[k]]
<1>1. n + 1 # 0 /\ n \in 0..n /\ n \in 0..(n + 1) /\ n # n + 1 /\ n + 1 \in 0..(n + 1) /\ (n + 1) - 1 = n
  OBVIOUS
<1>2. ASSUME NEW k \in 0..(n + 1) PROVE /\ g[k] = IF k = 0 THEN x ELSE step[<<k, g[k - 1]>>]
                                        /\ g[k] \in S
  <2>1. CASE k = n + 1
    <3>1. g[k] = step[<<n + 1, f[n]>>] /\ g[k - 1] = f[n] /\ k # 0
      BY <1>1, <2>1
    <3>2. f[n] \in S /\ n + 1 \in 1..m
      BY <1>1 DEF AllIn
    <3>. QED  BY <2>1, <3>1, <3>2 DEF Within1
  <2>2. CASE k # n + 1
    <3>1. k \in 0..n /\ g[k] = f[k]
      BY <2>2
    <3>2. f[k] = IF k = 0 THEN x ELSE step[<<k, f[k - 1]>>]
      BY <3>1 DEF Runs
    <3>3. k # 0 => k - 1 \in 0..(n + 1) /\ k - 1 # n + 1 /\ g[k - 1] = f[k - 1]
      BY <3>1
    <3>. QED  BY <3>1, <3>2, <3>3 DEF AllIn
  <2>. QED  BY <2>1, <2>2
<1>3. g = [k \in 0..(n + 1) |-> g[k]]
  OBVIOUS
<1>4. Runs(g, step, n + 1, x) /\ AllIn(g, n + 1, S)
  <2>. HIDE DEF g
  <2>. QED  BY <1>2, <1>3 DEF Runs, AllIn
<1>. QED  BY <1>4

\* The recursion has a solution, and it stays in S.
LEMMA RunsExist ==
  ASSUME NEW S, NEW step, NEW x, x \in S, NEW m, m \in Nat, Within1(step, m, S)
  PROVE  \E f : Runs(f, step, m, x) /\ AllIn(f, m, S)
<1> DEFINE K == {n \in Nat : n <= m => \E f : Runs(f, step, n, x) /\ AllIn(f, n, S)}
<1>1. 0 \in K
  <2> DEFINE f == [k \in 0..0 |-> x]
  <2>1. Runs(f, step, 0, x) /\ AllIn(f, 0, S)
    BY DEF Runs, AllIn
  <2>. QED  BY <2>1
<1>2. \A n \in Nat : n \in K => n + 1 \in K
  <2> SUFFICES ASSUME NEW n \in Nat, n \in K, n + 1 <= m PROVE \E f : Runs(f, step, n + 1, x) /\ AllIn(f, n + 1, S)
    OBVIOUS
  <2>1. n <= m
    OBVIOUS
  <2>2. PICK f : Runs(f, step, n, x) /\ AllIn(f, n, S)
    BY <2>1
  <2>. QED  BY <2>2, RunsOn
<1>3. Nat \subseteq K
  <2>. HIDE DEF K
  <2>. QED  BY <1>1, <1>2, Induction
<1>. QED  BY <1>3

\* What holds of the first value and goes on with each step holds of all.
LEMMA UpTo ==
  ASSUME NEW n, n \in Nat, NEW K, 0 \in K, \A k \in 1..n : k - 1 \in K => k \in K
  PROVE  \A k \in 0..n : k \in K
<1> DEFINE T == {k \in Nat : k <= n => k \in K}
<1>1. 0 \in T
  OBVIOUS
<1>2. ASSUME NEW k \in Nat, k \in T PROVE k + 1 \in T
  <2>1. k + 1 <= n => k + 1 \in 1..n /\ (k + 1) - 1 = k /\ k <= n
    OBVIOUS
  <2>2. k + 1 <= n => k + 1 \in K
    BY <1>2, <2>1
  <2>. QED  BY <2>2
<1>3. Nat \subseteq T
  <2>. HIDE DEF T
  <2>. QED  BY <1>1, <1>2, Induction
<1>. QED  BY <1>3
-----------------------------------------------------------------------------
(* Where a pair is joined in a word.                                       *)

\* A join at i: the pair stands there, and its left token was not just joined.
JoinsAt(T, w, p, i) == i < Len(w) /\ <<w[i], w[i + 1]>> = p /\ i - 1 \notin T

\* T holds the places of the joins.
IsTaken(T, w, p) ==
  /\ T \subseteq 1..Len(w)
  /\ \A i \in 1..Len(w) : i \in T <=> JoinsAt(T, w, p, i)

\* Taken holds them.
LEMMA TakenIs ==
  ASSUME NEW w, Len(w) \in Nat, NEW p
  PROVE  IsTaken(V1!Taken(w, p), w, p)
<1> DEFINE n == Len(w)
           Hit(i) == i \in 1..(n - 1) /\ <<w[i], w[i + 1]>> = p
           step == [r \in (1..n) \X BOOLEAN |-> Hit(r[1]) /\ ~ r[2]]
<1>1. \E t : t = [i \in 0..n |-> Hit(i) /\ ~ t[i - 1]]
  <2>1. Within1(step, n, BOOLEAN)
    BY DEF Within1
  <2>2. PICK t : Runs(t, step, n, FALSE) /\ AllIn(t, n, BOOLEAN)
    <3>. HIDE DEF step
    <3>. QED  BY <2>1, RunsExist
  <2>3. ASSUME NEW i \in 0..n PROVE t[i] = (Hit(i) /\ ~ t[i - 1])
    <3>1. t[i] = IF i = 0 THEN FALSE ELSE step[<<i, t[i - 1]>>]
      BY <2>2, <2>3 DEF Runs
    <3>2. CASE i = 0
      <4>1. Hit(i) = FALSE /\ t[i] = FALSE
        BY <3>1, <3>2
      <4>. HIDE DEF Hit
      <4>. QED  BY <4>1
    <3>3. CASE i # 0
      <4>1. i \in 1..n /\ i - 1 \in 0..n
        BY <3>3
      <4>2. t[i - 1] \in BOOLEAN
        BY <2>2, <4>1 DEF AllIn
      <4>3. step[<<i, t[i - 1]>>] = (Hit(i) /\ ~ t[i - 1])
        BY <4>1, <4>2
      <4>. QED  BY <3>1, <3>3, <4>3
    <3>. QED  BY <3>2, <3>3
  <2>4. t = [i \in 0..n |-> t[i]]
    BY <2>2 DEF Runs
  <2>5. t = [i \in 0..n |-> Hit(i) /\ ~ t[i - 1]]
    BY <2>3, <2>4
  <2>. QED  BY <2>5
<1> DEFINE t == CHOOSE t : t = [i \in 0..n |-> Hit(i) /\ ~ t[i - 1]]
<1>2. t = [i \in 0..n |-> Hit(i) /\ ~ t[i - 1]]
  BY <1>1
<1>3. V1!Taken(w, p) = {i \in 1..n : t[i]}
  BY DEF V1!Taken
<1>. HIDE DEF t
<1>4. ASSUME NEW i \in 0..n PROVE t[i] = (Hit(i) /\ ~ t[i - 1])
  BY <1>2, <1>4
<1>5. ~ t[0]
  <2>1. t[0] = (Hit(0) /\ ~ t[0 - 1])
    BY <1>4
  <2>2. Hit(0) = FALSE
    OBVIOUS
  <2>. HIDE DEF Hit
  <2>. QED  BY <2>1, <2>2
<1>6. ASSUME NEW i \in 1..n PROVE i \in V1!Taken(w, p) <=> JoinsAt(V1!Taken(w, p), w, p, i)
  <2>1. i - 1 \in V1!Taken(w, p) <=> t[i - 1]
    BY <1>3, <1>5
  <2>2. t[i] = (Hit(i) /\ ~ t[i - 1])
    BY <1>4
  <2>3. Hit(i) <=> (i < Len(w) /\ <<w[i], w[i + 1]>> = p)
    OBVIOUS
  <2>4. i \in V1!Taken(w, p) <=> t[i]
    BY <1>3
  <2>. HIDE DEF Hit
  <2>. QED  BY <2>1, <2>2, <2>3, <2>4 DEF JoinsAt
<1>. QED  BY <1>3, <1>6 DEF IsTaken
-----------------------------------------------------------------------------
(* What joining a pair makes of a word.                                    *)

\* The first k of s are the first k - 1 and the k-th.
LEMMA PrefixGrows ==
  ASSUME NEW S, NEW s, s \in Seq(S), NEW k, k \in 1..Len(s)
  PROVE  /\ SubSeq(s, 1, k) = Append(SubSeq(s, 1, k - 1), s[k])
         /\ SubSeq(s, 1, k - 1) \in Seq(S) /\ s[k] \in S
<1>1. k \in Nat /\ k - 1 \in 0..Len(s) /\ k \in 0..Len(s) /\ Len(s) \in Nat
  OBVIOUS
<1>2. SubSeq(s, 1, k - 1) \in Seq(S) /\ Len(SubSeq(s, 1, k - 1)) = k - 1 /\ \A j \in 1..(k - 1) : SubSeq(s, 1, k - 1)[j] = s[j]
  BY <1>1, PrefixIs
<1>3. SubSeq(s, 1, k) \in Seq(S) /\ Len(SubSeq(s, 1, k)) = k /\ \A j \in 1..k : SubSeq(s, 1, k)[j] = s[j]
  BY <1>1, PrefixIs
<1>4. s[k] \in S
  OBVIOUS
<1> DEFINE a == SubSeq(s, 1, k - 1)
           b == SubSeq(s, 1, k)
<1>. HIDE DEF a, b
<1>5. a \in Seq(S) /\ Len(a) = k - 1 /\ \A j \in 1..(k - 1) : a[j] = s[j]
  BY <1>2 DEF a
<1>6. b \in Seq(S) /\ Len(b) = k /\ \A j \in 1..k : b[j] = s[j]
  BY <1>3 DEF b
<1>7. b = Append(a, s[k])
  <2>1. Append(a, s[k]) \in Seq(S) /\ Len(Append(a, s[k])) = k
    BY <1>1, <1>4, <1>5
  <2>2. ASSUME NEW j \in 1..k PROVE b[j] = Append(a, s[k])[j]
    BY <1>1, <1>5, <1>6
  <2>. QED  BY <1>6, <2>1, <2>2
<1>. QED  BY <1>4, <1>5, <1>7 DEF a, b

\* Flattening the first k.
Fore(ss, k) == FlattenSeq(SubSeq(ss, 1, k))

\* One sequence more.
LEMMA ForeGrows ==
  ASSUME NEW S, NEW ss, ss \in Seq(Seq(S)), NEW k, k \in 1..Len(ss)
  PROVE  Fore(ss, k) = Fore(ss, k - 1) \o ss[k] /\ Fore(ss, k - 1) \in Seq(S) /\ ss[k] \in Seq(S)
<1> DEFINE T == Seq(S)
           a == SubSeq(ss, 1, k - 1)
           s == ss[k]
<1>1. SubSeq(ss, 1, k) = Append(a, s) /\ a \in Seq(T) /\ s \in T
  <2>1. ss \in Seq(T)
    OBVIOUS
  <2>. HIDE DEF T
  <2>. QED  BY <2>1, PrefixGrows
<1>2. FlattenSeq(Append(a, s)) = FlattenSeq(a) \o s
  <2>. HIDE DEF a, s
  <2>. QED  BY <1>1, FlattenAppend
<1>3. FlattenSeq(a) \in Seq(S)
  <2>. HIDE DEF a
  <2>. QED  BY <1>1, FlattenConcat
<1>. QED  BY <1>1, <1>2, <1>3 DEF Fore

\* The ends of Fore.
LEMMA ForeEnds ==
  ASSUME NEW S, NEW ss, ss \in Seq(Seq(S))
  PROVE  Fore(ss, 0) = <<>> /\ Fore(ss, Len(ss)) = FlattenSeq(ss) /\ \A k \in 0..Len(ss) : Fore(ss, k) \in Seq(S)
<1>1. SubSeq(ss, 1, 0) = <<>> /\ SubSeq(ss, 1, Len(ss)) = ss /\ Len(ss) \in Nat
  OBVIOUS
<1>2. Fore(ss, 0) = <<>> /\ Fore(ss, Len(ss)) = FlattenSeq(ss)
  BY <1>1, FlattenNone DEF Fore
<1>3. ASSUME NEW k \in 0..Len(ss) PROVE Fore(ss, k) \in Seq(S)
  <2>1. SubSeq(ss, 1, k) \in Seq(Seq(S))
    <3> DEFINE T == Seq(S)
    <3>1. ss \in Seq(T)
      OBVIOUS
    <3>2. SubSeq(ss, 1, k) \in Seq(T)
      <4>. HIDE DEF T
      <4>. QED  BY <3>1, PrefixIs
    <3>. QED  BY <3>2
  <2> DEFINE a == SubSeq(ss, 1, k)
  <2>. HIDE DEF a
  <2>2. a \in Seq(Seq(S))
    BY <2>1 DEF a
  <2>3. FlattenSeq(a) \in Seq(S)
    BY <2>2, FlattenConcat
  <2>. QED  BY <2>3 DEF Fore, a
<1>. QED  BY <1>2, <1>3
-----------------------------------------------------------------------------
Token1 == Seq(Byte) \ {<<>>}

\* What each place of a word becomes.
Blocks(T, w, p) ==
  [i \in 1..Len(w) |-> IF i \in T THEN <<V1!Joined(p)>> ELSE IF i - 1 \in T THEN <<>> ELSE <<w[i]>>]

\* A pair of tokens joined is a token.
LEMMA JoinedIs ==
  ASSUME NEW p, p \in Token1 \X Token1
  PROVE  V1!Joined(p) \in Token1 /\ V1!Joined(p) = p[1] \o p[2]
BY DEF V1!Joined, Token1

\* Merged flattens them.
LEMMA MergedFlattens ==
  ASSUME NEW w, Len(w) \in Nat, DOMAIN w = 1..Len(w), NEW p
  PROVE  V1!Merged(w, p) = FlattenSeq(Blocks(V1!Taken(w, p), w, p))
<1> DEFINE T == V1!Taken(w, p)
<1>1. V1!Merged(w, p) = V1!FlattenSeq(Blocks(T, w, p))
  BY DEF V1!Merged, Blocks
<1>. QED  BY <1>1, V1Library

\* They are sequences of the tokens of the word and the joined one.
LEMMA BlocksAre ==
  ASSUME NEW X, NEW w, w \in Seq(X), NEW p, NEW T, NEW Y, Y = X \cup {V1!Joined(p)}
  PROVE  Blocks(T, w, p) \in Seq(Seq(Y)) /\ Len(Blocks(T, w, p)) = Len(w)
<1> DEFINE S == Seq(Y)
           b == Blocks(T, w, p)
<1>1. Len(w) \in Nat /\ \A i \in 1..Len(w) : w[i] \in Y
  OBVIOUS
<1>2. V1!Joined(p) \in Y
  OBVIOUS
<1>3. <<>> \in S /\ \A y \in Y : <<y>> \in S
  OBVIOUS
<1>4. b \in [1..Len(w) -> S]
  <2>. HIDE DEF S
  <2>. QED  BY <1>1, <1>2, <1>3 DEF Blocks
<1>5. b \in Seq(S) /\ Len(b) = Len(w)
  <2>. HIDE DEF S, b
  <2>. QED  BY <1>1, <1>4, FunIsSeq
<1>. QED  BY <1>5

\* How far the bytes of the first k blocks go.
Reach(T, k) == IF k \in T THEN k + 1 ELSE k

\* The first k blocks spell a front of the word.
SpellFore(T, w, p, k) == FlattenSeq(Fore(Blocks(T, w, p), k)) = Fore(w, Reach(T, k))

\* One block more.
LEMMA SpellForeOn ==
  ASSUME NEW w, w \in Seq(Token1), NEW p, p \in Token1 \X Token1, NEW T, IsTaken(T, w, p),
         NEW k, k \in 1..Len(w), SpellFore(T, w, p, k - 1)
  PROVE  SpellFore(T, w, p, k)
<1> DEFINE b == Blocks(T, w, p)
           J == V1!Joined(p)
           F(i) == FlattenSeq(Fore(b, i))
           G(i) == Fore(w, i)
<1>1. b \in Seq(Seq(Token1)) /\ Len(b) = Len(w) /\ Len(w) \in Nat /\ k \in Nat
  <2>1. Token1 = Token1 \cup {V1!Joined(p)}
    BY JoinedIs
  <2>2. Blocks(T, w, p) \in Seq(Seq(Token1)) /\ Len(Blocks(T, w, p)) = Len(w)
    BY ONLY <2>1, BlocksAre, w \in Seq(Token1)
  <2>. QED  BY <2>2
<1>2. F(k) = F(k - 1) \o FlattenSeq(b[k])
  <2>1. Fore(b, k) = Fore(b, k - 1) \o b[k] /\ Fore(b, k - 1) \in Seq(Token1) /\ b[k] \in Seq(Token1)
    <3>. HIDE DEF b
    <3>. QED  BY <1>1, ForeGrows
  <2> DEFINE x == Fore(b, k - 1)
             y == b[k]
  <2>2. x \in Seq(Seq(Byte)) /\ y \in Seq(Seq(Byte))
    BY <2>1 DEF Token1
  <2>3. FlattenSeq(x \o y) = FlattenSeq(x) \o FlattenSeq(y)
    <3>. HIDE DEF x, y
    <3>. QED  BY <2>2, FlattenConcat
  <2>. QED  BY <2>1, <2>3
<1>3. w \in Seq(Seq(Byte)) /\ w[k] \in Seq(Byte)
  BY DEF Token1
<1>4. ASSUME NEW i, i \in 1..Len(w) PROVE G(i) = G(i - 1) \o w[i] /\ G(i - 1) \in Seq(Byte) /\ w[i] \in Seq(Byte)
  BY ONLY <1>3, <1>4, ForeGrows
<1>5. b[k] = IF k \in T THEN <<J>> ELSE IF k - 1 \in T THEN <<>> ELSE <<w[k]>>
  BY DEF Blocks
<1>6. F(k - 1) = G(Reach(T, k - 1))
  BY DEF SpellFore
<1>7. k \in T <=> k < Len(w) /\ <<w[k], w[k + 1]>> = p /\ k - 1 \notin T
  BY DEF IsTaken, JoinsAt
<1>8. G(k - 1) \in Seq(Byte) /\ G(k) = G(k - 1) \o w[k]
  BY <1>4
<1>9. CASE k \in T
  <2>1. k < Len(w) /\ <<w[k], w[k + 1]>> = p /\ Reach(T, k - 1) = k - 1 /\ Reach(T, k) = k + 1
    BY <1>7, <1>9 DEF Reach
  <2>2. FlattenSeq(b[k]) = J
    BY <1>5, <1>9, FlattenOne
  <2>3. J = w[k] \o w[k + 1]
    <3>1. p[1] = w[k] /\ p[2] = w[k + 1]
      BY <2>1
    <3>. QED  BY <3>1, JoinedIs
  <2>4. k + 1 \in 1..Len(w) /\ (k + 1) - 1 = k
    BY <1>1, <2>1
  <2>5. G(k + 1) = G(k) \o w[k + 1] /\ w[k + 1] \in Seq(Byte)
    BY <1>4, <2>4
  <2>6. F(k) = G(k - 1) \o (w[k] \o w[k + 1])
    BY <1>2, <1>6, <2>1, <2>2, <2>3
  <2>7. (G(k - 1) \o w[k]) \o w[k + 1] = G(k - 1) \o (w[k] \o w[k + 1])
    <3> DEFINE g == G(k - 1)
               a == w[k]
               c == w[k + 1]
    <3>1. g \in Seq(Byte) /\ a \in Seq(Byte) /\ c \in Seq(Byte)
      BY <1>3, <1>8, <2>5
    <3>2. (g \o a) \o c = g \o (a \o c)
      <4>. HIDE DEF g, a, c
      <4>. QED  BY ONLY <3>1, Associates
    <3>. QED  BY <3>2
  <2>8. F(k) = G(k + 1)
    BY <1>8, <2>5, <2>6, <2>7
  <2>. QED  BY <2>1, <2>8 DEF SpellFore
<1>10. CASE k \notin T /\ k - 1 \in T
  <2>1. Reach(T, k - 1) = k /\ Reach(T, k) = k
    BY <1>1, <1>10 DEF Reach
  <2>2. FlattenSeq(b[k]) = <<>>
    BY <1>5, <1>10, FlattenNone
  <2>3. G(k) \in Seq(Byte)
    <3>. HIDE DEF G
    <3>. QED  BY <1>3, <1>8
  <2>4. F(k) = G(k) \o <<>>
    BY <1>2, <1>6, <2>1, <2>2
  <2>5. F(k) = G(k)
    <3>. HIDE DEF F, G
    <3>. QED  BY <2>3, <2>4
  <2>. QED  BY <2>1, <2>5 DEF SpellFore
<1>11. CASE k \notin T /\ k - 1 \notin T
  <2>1. Reach(T, k - 1) = k - 1 /\ Reach(T, k) = k
    BY <1>11 DEF Reach
  <2>2. FlattenSeq(b[k]) = w[k]
    BY <1>5, <1>11, FlattenOne
  <2>3. F(k) = G(k)
    BY <1>2, <1>6, <1>8, <2>1, <2>2
  <2>. QED  BY <2>1, <2>3 DEF SpellFore
<1>. QED  BY <1>9, <1>10, <1>11

\* Joining a pair changes the tokens of a word, not its bytes.
LEMMA JoiningIs ==
  ASSUME NEW X, X \subseteq Token1, NEW w, w \in Seq(X), NEW p, p \in Token1 \X Token1
  PROVE  V1!Merged(w, p) \in Seq(X \cup {V1!Joined(p)}) /\ FlattenSeq(V1!Merged(w, p)) = FlattenSeq(w)
<1> DEFINE T == V1!Taken(w, p)
           b == Blocks(T, w, p)
           Y == X \cup {V1!Joined(p)}
<1>1. Len(w) \in Nat /\ DOMAIN w = 1..Len(w) /\ w \in Seq(Token1)
  <2>1. w \in Seq(Token1)
    BY SeqMono
  <2>. QED  BY <2>1
<1>2. IsTaken(T, w, p) /\ V1!Merged(w, p) = FlattenSeq(b)
  BY <1>1, TakenIs, MergedFlattens
<1>3. b \in Seq(Seq(Y)) /\ Len(b) = Len(w)
  <2>. HIDE DEF T
  <2>. QED  BY BlocksAre
<1>4. FlattenSeq(b) \in Seq(Y)
  <2>. HIDE DEF b, Y
  <2>. QED  BY <1>3, FlattenConcat
<1>5. b \in Seq(Seq(Token1))
  <2>1. Token1 = Token1 \cup {V1!Joined(p)}
    BY JoinedIs
  <2>2. Blocks(T, w, p) \in Seq(Seq(Token1))
    BY ONLY <1>1, <2>1, BlocksAre
  <2>. QED  BY <2>2
<1>6. w \in Seq(Seq(Byte))
  BY <1>1 DEF Token1
<1>7. Fore(w, 0) = <<>> /\ Fore(w, Len(w)) = FlattenSeq(w)
  BY <1>6, ForeEnds
<1>8. Fore(b, 0) = <<>> /\ Fore(b, Len(b)) = FlattenSeq(b)
  <2>. HIDE DEF b
  <2>. QED  BY <1>5, ForeEnds
<1>9. Reach(T, 0) = 0 /\ Reach(T, Len(w)) = Len(w)
  <2>1. 0 \notin T
    BY <1>2 DEF IsTaken
  <2>2. Len(w) \notin T
    <3>1. Len(w) \in T => Len(w) \in 1..Len(w)
      BY <1>2 DEF IsTaken
    <3>2. Len(w) \in T => JoinsAt(T, w, p, Len(w))
      BY <1>2, <3>1 DEF IsTaken
    <3>3. ~ JoinsAt(T, w, p, Len(w))
      BY <1>1 DEF JoinsAt
    <3>. QED  BY <3>2, <3>3
  <2>. HIDE DEF T
  <2>. QED  BY <2>1, <2>2 DEF Reach
<1>10. SpellFore(T, w, p, 0)
  <2>1. FlattenSeq(Fore(b, 0)) = Fore(w, Reach(T, 0))
    <3>. HIDE DEF T, b
    <3>. QED  BY <1>7, <1>8, <1>9, FlattenNone
  <2>. QED  BY <2>1 DEF SpellFore
<1>11. SpellFore(T, w, p, Len(w))
  <2> DEFINE K == {k \in 0..Len(w) : SpellFore(T, w, p, k)}
  <2>1. 0 \in K
    BY <1>1, <1>10
  <2>2. ASSUME NEW k \in 1..Len(w), k - 1 \in K PROVE k \in K
    <3>1. SpellFore(T, w, p, k)
      <4>. HIDE DEF T
      <4>. QED  BY <1>1, <1>2, <2>2, SpellForeOn
    <3>. QED  BY <3>1
  <2>3. \A k \in 0..Len(w) : k \in K
    <3>. HIDE DEF K
    <3>. QED  BY <1>1, <2>1, <2>2, UpTo
  <2>. QED  BY <1>1, <2>3
<1>12. FlattenSeq(FlattenSeq(b)) = FlattenSeq(w)
  <2>1. FlattenSeq(Fore(b, Len(w))) = Fore(w, Reach(T, Len(w)))
    BY <1>11 DEF SpellFore
  <2>. HIDE DEF b, T
  <2>. QED  BY <1>3, <1>7, <1>8, <1>9, <2>1
<1>13. FlattenSeq(b) \in Seq(X \cup {V1!Joined(p)})
  BY <1>4
<1>. QED
  <2>. HIDE DEF b, T, Y
  <2>. QED  BY <1>2, <1>12, <1>13
-----------------------------------------------------------------------------
(* Applying merges to a word.                                              *)

\* Mapped to themselves alone, letters spell their word.
LEMMA HomIsSame ==
  ASSUME NEW C, NEW f, \A c \in C : f[c] = <<c>>, NEW x, x \in Seq(C)
  PROVE  Hom(f, x) = x
<1> DEFINE Same(z) == Hom(f, z) = z
           K == {k \in Nat : \A z : z \in Seq(C) /\ Len(z) = k => Same(z)}
<1>0. Gives(f, C, C)
  <2>1. ASSUME NEW c \in C PROVE f[c] \in Seq(C)
    <3>1. <<c>> \in Seq(C)
      OBVIOUS
    <3>. QED  BY <3>1
  <2>. QED  BY <2>1 DEF Gives
<1>1. 0 \in K
  <2> SUFFICES ASSUME NEW z, z \in Seq(C), Len(z) = 0 PROVE Same(z)
    OBVIOUS
  <2>1. z = <<>>
    BY EmptySeq
  <2>. QED  BY <2>1, HomSmall
<1>2. ASSUME NEW k \in Nat, k \in K PROVE k + 1 \in K
  <2> SUFFICES ASSUME NEW z, z \in Seq(C), Len(z) = k + 1 PROVE Same(z)
    OBVIOUS
  <2>1. z # <<>>
    BY EmptySeq
  <2>2. PICK w \in Seq(C), c \in C : z = Append(w, c)
    BY <2>1, SequenceEmptyOrAppend
  <2>3. Len(w) = k
    <3>1. Len(w) + 1 = k + 1 /\ Len(w) \in Nat
      BY <2>2, AppendProperties, LenProperties
    <3>. QED  BY <3>1
  <2>4. Same(w)
    BY <1>2, <2>3
  <2>5. Hom(f, Append(w, c)) = Hom(f, w) \o f[c]
    BY <1>0, HomAppend
  <2>6. Append(w, c) = w \o <<c>>
    BY AppendIsConcat
  <2>. QED  BY <2>2, <2>4, <2>5, <2>6
<1>3. Nat \subseteq K
  <2> HIDE DEF K
  <2>. QED  BY <1>1, <1>2, Induction
<1>4. Len(x) \in Nat
  BY LenProperties
<1>. QED  BY <1>3, <1>4

\* The letters of C alone as tokens, and what merges join.
Ones(C) == {<<c>> : c \in C}
Known1(C, ms) == Ones(C) \cup {V1!Joined(ms[k]) : k \in 1..Len(ms)}

\* They are tokens.
LEMMA KnownAre ==
  ASSUME NEW C, C \subseteq Byte, NEW ms, ms \in Seq(Token1 \X Token1)
  PROVE  Known1(C, ms) \subseteq Token1
<1>1. ASSUME NEW c \in C PROVE <<c>> \in Token1
  BY DEF Token1
<1>2. ASSUME NEW k \in 1..Len(ms) PROVE V1!Joined(ms[k]) \in Token1
  <2>1. ms[k] \in Token1 \X Token1
    OBVIOUS
  <2>. QED  BY <2>1, JoinedIs
<1>. QED  BY <1>1, <1>2 DEF Known1, Ones

\* What spells w in tokens of X.
Made(X, w) == {s \in Seq(X) : FlattenSeq(s) = w}

\* The letters of w do.
LEMMA SinglesSpell ==
  ASSUME NEW C, NEW w, w \in Seq(C), NEW X, Ones(C) \subseteq X
  PROVE  V1!Singles(w) \in Made(X, w)
<1> DEFINE f == [c \in C |-> <<c>>]
           n == Len(w)
<1>1. n \in Nat /\ DOMAIN w = 1..n /\ \A k \in 1..n : w[k] \in C
  OBVIOUS
<1>2. V1!Singles(w) = [k \in 1..n |-> <<w[k]>>]
  BY <1>1 DEF V1!Singles
<1>3. ASSUME NEW k \in 1..n PROVE <<w[k]>> \in X /\ f[w[k]] = <<w[k]>>
  BY <1>1 DEF Ones
<1>4. V1!Singles(w) \in [1..n -> X]
  BY <1>2, <1>3
<1>5. V1!Singles(w) \in Seq(X)
  <2>. HIDE DEF n
  <2>. QED  BY <1>1, <1>4, FunIsSeq
<1>6. V1!Singles(w) = Mapped(f, w)
  BY <1>1, <1>2, <1>3 DEF Mapped
<1>7. FlattenSeq(V1!Singles(w)) = w
  <2>1. \A c \in C : f[c] = <<c>>
    OBVIOUS
  <2>2. Hom(f, w) = w
    <3>. HIDE DEF f
    <3>. QED  BY <2>1, HomIsSame
  <2>. QED  BY <1>6, <2>2 DEF Hom
<1>. QED  BY <1>5, <1>7 DEF Made

\* So do they with a pair joined.
LEMMA MergedMade ==
  ASSUME NEW X, X \subseteq Token1, NEW w, NEW s, s \in Made(X, w), NEW p, p \in Token1 \X Token1, V1!Joined(p) \in X
  PROVE  V1!Merged(s, p) \in Made(X, w)
<1>1. s \in Seq(X) /\ FlattenSeq(s) = w
  BY DEF Made
<1>2. V1!Merged(s, p) \in Seq(X \cup {V1!Joined(p)}) /\ FlattenSeq(V1!Merged(s, p)) = FlattenSeq(s)
  BY <1>1, JoiningIs
<1>3. X \cup {V1!Joined(p)} = X
  OBVIOUS
<1>. QED  BY <1>1, <1>2, <1>3 DEF Made

\* f holds what becomes of the word with the first k merges.
IsApplied(f, ms, w) ==
  f = [k \in 0..Len(ms) |-> IF k = 0 THEN V1!Singles(w) ELSE V1!Merged(f[k - 1], ms[k])]

\* There is such an f.
LEMMA AppliesExist ==
  ASSUME NEW C, C \subseteq Byte, NEW ms, ms \in Seq(Token1 \X Token1), NEW w, w \in Seq(C)
  PROVE  \E f : IsApplied(f, ms, w)
<1> DEFINE X == Known1(C, ms)
           M == Made(X, w)
           n == Len(ms)
           step == [r \in (1..n) \X M |-> V1!Merged(r[2], ms[r[1]])]
           x == V1!Singles(w)
<1>1. X \subseteq Token1 /\ Ones(C) \subseteq X /\ n \in Nat
  <2>1. Ones(C) \subseteq X
    BY DEF Known1
  <2>. QED  BY <2>1, KnownAre
<1>2. x \in M
  <2>. HIDE DEF X
  <2>. QED  BY <1>1, SinglesSpell
<1>3. ASSUME NEW k \in 1..n, NEW s \in M PROVE step[<<k, s>>] = V1!Merged(s, ms[k]) /\ step[<<k, s>>] \in M
  <2>1. step[<<k, s>>] = V1!Merged(s, ms[k])
    <3>. HIDE DEF M
    <3>. QED  OBVIOUS
  <2>2. V1!Joined(ms[k]) \in X /\ ms[k] \in Token1 \X Token1
    BY DEF Known1
  <2>3. V1!Merged(s, ms[k]) \in M
    <3>. HIDE DEF X
    <3>. QED  BY <1>1, <2>2, MergedMade
  <2>. QED  BY <2>1, <2>3
<1>. HIDE DEF X, M, n, step, x
<1>4. Within1(step, n, M)
  BY <1>3 DEF Within1
<1>5. PICK f : Runs(f, step, n, x) /\ AllIn(f, n, M)
  BY <1>1, <1>2, <1>4, RunsExist
<1>6. ASSUME NEW k \in 0..n PROVE f[k] = IF k = 0 THEN x ELSE V1!Merged(f[k - 1], ms[k])
  <2>1. f[k] = IF k = 0 THEN x ELSE step[<<k, f[k - 1]>>]
    BY <1>5 DEF Runs
  <2>2. CASE k # 0
    <3>1. k \in 1..n /\ k - 1 \in 0..n
      BY <1>1, <2>2
    <3>2. f[k - 1] \in M
      BY <1>5, <3>1 DEF AllIn
    <3>3. step[<<k, f[k - 1]>>] = V1!Merged(f[k - 1], ms[k])
      BY <1>3, <3>1, <3>2
    <3>. QED  BY <2>1, <2>2, <3>3
  <2>. QED  BY <2>1, <2>2
<1>7. f = [k \in 0..n |-> f[k]]
  BY <1>5 DEF Runs
<1>8. f = [k \in 0..n |-> IF k = 0 THEN x ELSE V1!Merged(f[k - 1], ms[k])]
  BY <1>6, <1>7
<1>. QED  BY <1>8 DEF IsApplied, n, x

\* Apply is where it ends.
LEMMA ApplyIs ==
  ASSUME NEW C, C \subseteq Byte, NEW ms, ms \in Seq(Token1 \X Token1), NEW w, w \in Seq(C)
  PROVE  \E f : IsApplied(f, ms, w) /\ V1!Apply(ms, w) = f[Len(ms)]
<1> DEFINE f == CHOOSE f : f = [k \in 0..Len(ms) |-> IF k = 0 THEN V1!Singles(w) ELSE V1!Merged(f[k - 1], ms[k])]
<1>1. \E g : g = [k \in 0..Len(ms) |-> IF k = 0 THEN V1!Singles(w) ELSE V1!Merged(g[k - 1], ms[k])]
  <2>1. PICK g : IsApplied(g, ms, w)
    BY AppliesExist
  <2>. QED  BY <2>1 DEF IsApplied
<1>2. f = [k \in 0..Len(ms) |-> IF k = 0 THEN V1!Singles(w) ELSE V1!Merged(f[k - 1], ms[k])]
  BY <1>1
<1>3. V1!Apply(ms, w) = f[Len(ms)]
  BY DEF V1!Apply
<1>. HIDE DEF f
<1>4. IsApplied(f, ms, w)
  BY <1>2 DEF IsApplied
<1>. QED  BY <1>3, <1>4

\* One of its values.
LEMMA AppliedAt ==
  ASSUME NEW f, NEW ms, NEW w, IsApplied(f, ms, w), NEW k, k \in 0..Len(ms)
  PROVE  f[k] = IF k = 0 THEN V1!Singles(w) ELSE V1!Merged(f[k - 1], ms[k])
BY DEF IsApplied

\* Applying merges to a word spells it in tokens known.
LEMMA ApplyMade ==
  ASSUME NEW C, C \subseteq Byte, NEW ms, ms \in Seq(Token1 \X Token1), NEW w, w \in Seq(C)
  PROVE  V1!Apply(ms, w) \in Made(Known1(C, ms), w)
<1> DEFINE X == Known1(C, ms)
           M == Made(X, w)
           n == Len(ms)
<1>1. X \subseteq Token1 /\ Ones(C) \subseteq X /\ n \in Nat
  <2>1. Ones(C) \subseteq X
    BY DEF Known1
  <2>. QED  BY <2>1, KnownAre
<1>2. PICK f : IsApplied(f, ms, w) /\ V1!Apply(ms, w) = f[n]
  BY ApplyIs
<1> DEFINE K == {k \in 0..n : f[k] \in M}
<1>3. 0 \in K
  <2>1. f[0] = V1!Singles(w)
    BY <1>1, <1>2, AppliedAt
  <2>2. V1!Singles(w) \in M
    <3>. HIDE DEF X
    <3>. QED  BY <1>1, SinglesSpell
  <2>. QED  BY <1>1, <2>1, <2>2
<1>4. ASSUME NEW k \in 1..n, k - 1 \in K PROVE k \in K
  <2>1. k \in 0..n /\ k # 0
    BY <1>1
  <2>2. f[k] = V1!Merged(f[k - 1], ms[k])
    BY <1>2, <2>1, AppliedAt
  <2>3. V1!Joined(ms[k]) \in X /\ ms[k] \in Token1 \X Token1
    BY DEF Known1
  <2>4. V1!Merged(f[k - 1], ms[k]) \in M
    <3>1. f[k - 1] \in M
      BY <1>4
    <3>. HIDE DEF X
    <3>. QED  BY <1>1, <2>3, <3>1, MergedMade
  <2>. QED  BY <2>1, <2>2, <2>4
<1>5. \A k \in 0..n : k \in K
  <2>. HIDE DEF K
  <2>. QED  BY <1>1, <1>3, <1>4, UpTo
<1>. QED  BY <1>1, <1>2, <1>5

\* No merge leaves the letters.
LEMMA ApplyNone ==
  ASSUME NEW C, C \subseteq Byte, NEW w, w \in Seq(C)
  PROVE  V1!Apply(<<>>, w) = V1!Singles(w)
<1> DEFINE ms == <<>>
<1>1. ms \in Seq(Token1 \X Token1) /\ Len(ms) = 0
  OBVIOUS
<1>. HIDE DEF ms
<1>2. PICK f : IsApplied(f, ms, w) /\ V1!Apply(ms, w) = f[Len(ms)]
  BY <1>1, ApplyIs
<1>3. 0 \in 0..Len(ms)
  BY <1>1
<1>4. f[0] = V1!Singles(w)
  BY <1>2, <1>3, AppliedAt
<1>. QED  BY <1>1, <1>2, <1>4 DEF ms

\* One merge more joins its pair.
LEMMA ApplyMore ==
  ASSUME NEW C, C \subseteq Byte, NEW ms, ms \in Seq(Token1 \X Token1), NEW w, w \in Seq(C), NEW p, p \in Token1 \X Token1
  PROVE  V1!Apply(Append(ms, p), w) = V1!Merged(V1!Apply(ms, w), p)
<1> DEFINE n == Len(ms)
           us == Append(ms, p)
<1>1. us \in Seq(Token1 \X Token1) /\ Len(us) = n + 1 /\ us[n + 1] = p /\ n \in Nat /\ \A k \in 1..n : us[k] = ms[k]
  OBVIOUS
<1>. HIDE DEF n, us
<1>2. PICK f : IsApplied(f, ms, w) /\ V1!Apply(ms, w) = f[Len(ms)]
  BY ApplyIs
<1>3. PICK g : IsApplied(g, us, w) /\ V1!Apply(us, w) = g[Len(us)]
  <2>1. us \in Seq(Token1 \X Token1)
    BY <1>1
  <2>. QED  BY ONLY <2>1, ApplyIs, C \subseteq Byte, w \in Seq(C)
<1> DEFINE K == {k \in 0..n : f[k] = g[k]}
<1>4. 0 \in K
  <2>1. 0 \in 0..Len(ms) /\ 0 \in 0..Len(us) /\ 0 \in 0..n
    BY <1>1 DEF n
  <2>2. f[0] = V1!Singles(w)
    BY <1>2, <2>1, AppliedAt
  <2>3. g[0] = V1!Singles(w)
    BY <1>3, <2>1, AppliedAt
  <2>. QED  BY <2>1, <2>2, <2>3
<1>5. ASSUME NEW k \in 1..n, k - 1 \in K PROVE k \in K
  <2>1. k \in 0..Len(ms) /\ k \in 0..Len(us) /\ k \in 0..n /\ k # 0
    BY <1>1 DEF n
  <2>2. f[k] = V1!Merged(f[k - 1], ms[k])
    BY <1>2, <2>1, AppliedAt
  <2>3. g[k] = V1!Merged(g[k - 1], us[k])
    BY <1>3, <2>1, AppliedAt
  <2>4. f[k - 1] = g[k - 1] /\ us[k] = ms[k]
    BY <1>1, <1>5
  <2>. QED  BY <2>1, <2>2, <2>3, <2>4
<1>6. \A k \in 0..n : k \in K
  <2>. HIDE DEF K
  <2>. QED  BY <1>1, <1>4, <1>5, UpTo
<1>7. f[n] = g[n]
  BY <1>1, <1>6
<1>8. g[n + 1] = V1!Merged(g[n], us[n + 1])
  <2> DEFINE k == n + 1
  <2>1. k \in 0..Len(us) /\ k # 0 /\ k - 1 = n
    BY <1>1
  <2>. HIDE DEF k
  <2>2. g[k] = V1!Merged(g[k - 1], us[k])
    BY <1>3, <2>1, AppliedAt
  <2>. QED  BY <2>1, <2>2 DEF k
<1>. QED  BY <1>1, <1>2, <1>3, <1>7, <1>8 DEF n, us
-----------------------------------------------------------------------------
(* Counting again after a merge.                                           *)

\* Counting less keeps the pairs, counting more adds one.
LEMMA CountsMove ==
  ASSUME NEW f, NEW x, NEW n
  PROVE  DOMAIN V1!Less(f, x, n) \subseteq DOMAIN f /\ DOMAIN V1!More(f, x, n) = {x} \cup DOMAIN f
<1>1. DOMAIN V1!Less(f, x, n) \subseteq DOMAIN f
  <2>1. CASE V1!CountOf(f, x) <= n
    BY <2>1 DEF V1!Less
  <2>2. CASE ~ (V1!CountOf(f, x) <= n)
    BY <2>2 DEF V1!Less
  <2>. QED  BY <2>1, <2>2
<1>2. DOMAIN V1!More(f, x, n) = {x} \cup DOMAIN f
  BY DEF V1!More, V1!Put
<1>. QED  BY <1>1, <1>2

\* What one join does to the counts, place by place.
LEMMA RecountIs ==
  ASSUME NEW w, w \in Seq(Token1), NEW i, i \in 1..Len(w), i < Len(w), NEW p, p \in Token1 \X Token1, NEW c, NEW freq,
         DOMAIN c \subseteq Token1 \X Token1
  PROVE  DOMAIN V1!Recount(w, freq, p, i, c) \subseteq Token1 \X Token1
<1> DEFINE J == V1!Joined(p)
           P == Token1 \X Token1
           c1 == IF i > 1 THEN V1!Less(c, <<w[i - 1], w[i]>>, freq) ELSE c
           c2 == IF i + 2 <= Len(w) THEN V1!Less(c1, <<w[i + 1], w[i + 2]>>, freq) ELSE c1
           c3 == IF i > 1 THEN V1!More(c2, <<w[i - 1], J>>, freq) ELSE c2
           c4 == IF i + 2 <= Len(w) THEN V1!More(c3, <<J, w[i + 2]>>, freq) ELSE c3
<1>1. V1!Recount(w, freq, p, i, c) = c4
  BY DEF V1!Recount
<1>2. J \in Token1
  BY JoinedIs
<1>3. i > 1 => <<w[i - 1], J>> \in P
  <2>1. i > 1 => w[i - 1] \in Token1
    OBVIOUS
  <2>. HIDE DEF J
  <2>. QED  BY <1>2, <2>1
<1>4. i + 2 <= Len(w) => <<J, w[i + 2]>> \in P
  <2>1. i + 2 <= Len(w) => w[i + 2] \in Token1
    OBVIOUS
  <2>. HIDE DEF J
  <2>. QED  BY <1>2, <2>1
<1>. HIDE DEF J
<1>5. DOMAIN c1 \subseteq P
  BY CountsMove
<1>6. DOMAIN c2 \subseteq P
  <2>. HIDE DEF c1
  <2>. QED  BY <1>5, CountsMove
<1>7. DOMAIN c3 \subseteq P
  <2>. HIDE DEF c2
  <2>1. CASE i > 1
    <3> DEFINE x == <<w[i - 1], J>>
    <3>1. x \in P
      BY <1>3, <2>1
    <3>2. c3 = V1!More(c2, x, freq)
      BY <2>1
    <3>3. DOMAIN V1!More(c2, x, freq) = {x} \cup DOMAIN c2
      BY ONLY CountsMove
    <3>4. DOMAIN c3 = {x} \cup DOMAIN c2
      BY ONLY <3>2, <3>3
    <3>. HIDE DEF x, P, c3
    <3>. QED  BY <1>6, <3>1, <3>4
  <2>2. CASE ~ (i > 1)
    BY <1>6, <2>2
  <2>. QED  BY <2>1, <2>2
<1>8. DOMAIN c4 \subseteq P
  <2>. HIDE DEF c3
  <2>1. CASE i + 2 <= Len(w)
    <3> DEFINE x == <<J, w[i + 2]>>
    <3>1. x \in P
      BY <1>4, <2>1
    <3>2. c4 = V1!More(c3, x, freq)
      BY <2>1
    <3>3. DOMAIN V1!More(c3, x, freq) = {x} \cup DOMAIN c3
      BY ONLY CountsMove
    <3>4. DOMAIN c4 = {x} \cup DOMAIN c3
      BY ONLY <3>2, <3>3
    <3>. HIDE DEF x, P, c4
    <3>. QED  BY <1>7, <3>1, <3>4
  <2>2. CASE ~ (i + 2 <= Len(w))
    BY <1>7, <2>2
  <2>. QED  BY <2>1, <2>2
<1>. QED  BY <1>1, <1>8

\* The symbols of every word are tokens.
Symbols1 == \A w \in DOMAIN words : words[w].symbols \in Seq(Token1)

\* Where a pair is joined: a word and a place in it.
JoinPlaces(p) == {q \in (DOMAIN words) \X Nat : q[2] \in V1!Taken(words[q[1]].symbols, p)}

\* The joins of a merge are such places.
LEMMA JoinsAre ==
  ASSUME Symbols1, NEW order, order \in Seq(DOMAIN words), NEW p
  PROVE  V1!Joins(order, p) \in Seq(JoinPlaces(p))
<1> DEFINE Q == JoinPlaces(p)
           at(n) == V1!InOrder(V1!Taken(words[order[n]].symbols, p))
           b == [n \in 1..Len(order) |-> [k \in DOMAIN at(n) |-> <<order[n], at(n)[k]>>]]
           S == Seq(Q)
<1>1. Len(order) \in Nat /\ DOMAIN order = 1..Len(order) /\ \A n \in 1..Len(order) : order[n] \in DOMAIN words
  OBVIOUS
<1>2. V1!Joins(order, p) = FlattenSeq(b)
  <2>1. V1!Joins(order, p) = V1!FlattenSeq(b)
    BY <1>1 DEF V1!Joins
  <2>. QED  BY <2>1, V1Library
<1>3. ASSUME NEW n \in 1..Len(order) PROVE [k \in DOMAIN at(n) |-> <<order[n], at(n)[k]>>] \in S
  <2> DEFINE w == order[n]
             T == V1!Taken(words[w].symbols, p)
             a == V1!InOrder(T)
             m == Len(a)
  <2>1. w \in DOMAIN words /\ words[w].symbols \in Seq(Token1)
    BY <1>1 DEF Symbols1
  <2>2. Len(words[w].symbols) \in Nat
    BY <2>1
  <2>3. IsTaken(T, words[w].symbols, p)
    <3>. HIDE DEF w
    <3>. QED  BY <2>2, TakenIs
  <2>4. T \subseteq 1..Len(words[w].symbols) /\ T \subseteq Int /\ T \subseteq Nat
    <3>. HIDE DEF T, w
    <3>. QED  BY <2>2, <2>3 DEF IsTaken
  <2>5. IsFiniteSet(T)
    <3> DEFINE l == Len(words[w].symbols)
    <3>0. l \in Nat /\ 1 \in Int /\ l \in Int
      BY <2>2
    <3>1. IsFiniteSet(1..l)
      <4>. HIDE DEF l
      <4>. QED  BY <3>0, FS_Interval
    <3>. HIDE DEF T, w
    <3>. QED  BY <2>4, <3>1, FS_Subset
  <2>6. ListsAll(a, T)
    <3>. HIDE DEF T
    <3>. QED  BY <2>4, <2>5, InOrderLists
  <2>7. a \in Seq(T) /\ m \in Nat /\ DOMAIN a = 1..m
    <3>. HIDE DEF a, T
    <3>. QED  BY <2>6 DEF ListsAll
  <2>8. ASSUME NEW k \in 1..m PROVE <<w, a[k]>> \in Q
    <3>0. k \in DOMAIN a
      BY <2>7
    <3>1. a[k] \in T /\ a[k] \in Nat
      <4>1. \A z : z \in Seq(T) => \A j \in DOMAIN z : z[j] \in T
        BY ElementOfSeq
      <4>. HIDE DEF a, T, m
      <4>. QED  BY <2>4, <2>7, <3>0, <4>1
    <3>2. <<w, a[k]>> \in (DOMAIN words) \X Nat
      <4>. HIDE DEF a, w
      <4>. QED  BY <2>1, <3>1
    <3>3. <<w, a[k]>>[1] = w /\ <<w, a[k]>>[2] = a[k]
      OBVIOUS
    <3> DEFINE q == <<w, a[k]>>
    <3>4. q \in (DOMAIN words) \X Nat /\ q[2] \in V1!Taken(words[q[1]].symbols, p)
      BY <3>1, <3>2, <3>3
    <3>. HIDE DEF q
    <3>5. q \in Q
      BY <3>4 DEF JoinPlaces
    <3>. QED  BY <3>5 DEF q
  <2>9. [k \in 1..m |-> <<w, a[k]>>] \in [1..m -> Q]
    <3>. HIDE DEF Q, a, w, m
    <3>. QED  BY <2>8
  <2>10. [k \in 1..m |-> <<w, a[k]>>] \in Seq(Q)
    <3> DEFINE f == [k \in 1..m |-> <<w, a[k]>>]
    <3>1. f \in [1..m -> Q] /\ m \in Nat
      BY <2>7, <2>9
    <3>. HIDE DEF Q, m, f
    <3>2. f \in Seq(Q)
      BY <3>1, FunIsSeq
    <3>. QED  BY <3>2 DEF f
  <2>11. DOMAIN at(n) = 1..m /\ at(n) = a
    BY <2>7
  <2>. QED  BY <2>10, <2>11
<1>4. b \in [1..Len(order) -> S]
  <2>. HIDE DEF S, at
  <2>. QED  BY <1>3
<1>5. b \in Seq(S)
  <2>. HIDE DEF S, b
  <2>. QED  BY <1>1, <1>4, FunIsSeq
<1>6. b \in Seq(Seq(Q))
  BY <1>5
<1>7. FlattenSeq(b) \in Seq(Q)
  <2>. HIDE DEF b, Q
  <2>. QED  BY <1>6, FlattenConcat
<1>. QED  BY <1>2, <1>7

\* The counts after the join at place q, and those before the first.
CountedAt(p, q, c) == V1!Recount(words[q[1]].symbols, words[q[1]].freq, p, q[2], c)
Uncounted(p) == [q \in DOMAIN pairs \ {p} |-> pairs[q]]

\* f holds the counts after the first n of the joins.
IsCounted(f, joins, p, n) == f = [k \in 0..n |-> IF k = 0 THEN Uncounted(p) ELSE CountedAt(p, joins[k], f[k - 1])]

\* There is such an f.
LEMMA CountsExist ==
  ASSUME NEW joins, NEW p, NEW m, m \in Nat
  PROVE  \E f : IsCounted(f, joins, p, m)
<1> DEFINE K == {n \in Nat : \E f : IsCounted(f, joins, p, n)}
<1>1. 0 \in K
  <2> DEFINE f == [k \in 0..0 |-> Uncounted(p)]
  <2>1. f[0] = Uncounted(p)
    OBVIOUS
  <2>2. f = [k \in 0..0 |-> IF k = 0 THEN Uncounted(p) ELSE CountedAt(p, joins[k], f[k - 1])]
    <3>1. \A k \in 0..0 : k = 0
      OBVIOUS
    <3>. QED  BY <3>1
  <2>3. IsCounted(f, joins, p, 0)
    BY <2>2 DEF IsCounted
  <2>. QED  BY <2>3
<1>2. ASSUME NEW n \in Nat, n \in K PROVE n + 1 \in K
  <2>1. PICK f : IsCounted(f, joins, p, n)
    BY <1>2
  <2> DEFINE g == [k \in 0..(n + 1) |-> IF k = n + 1 THEN CountedAt(p, joins[n + 1], f[n]) ELSE f[k]]
  <2>2. n + 1 # 0 /\ n \in 0..n /\ n \in 0..(n + 1) /\ n # n + 1 /\ n + 1 \in 0..(n + 1) /\ (n + 1) - 1 = n
    OBVIOUS
  <2>3. ASSUME NEW k \in 0..(n + 1) PROVE g[k] = IF k = 0 THEN Uncounted(p) ELSE CountedAt(p, joins[k], g[k - 1])
    <3>1. CASE k = n + 1
      <4>1. g[k] = CountedAt(p, joins[n + 1], f[n])
        BY <2>2, <3>1
      <4>2. g[k - 1] = f[n] /\ k # 0
        BY <2>2, <3>1
      <4>. QED  BY <3>1, <4>1, <4>2
    <3>2. CASE k # n + 1
      <4>1. k \in 0..n /\ g[k] = f[k]
        BY <3>2
      <4>2. f[k] = IF k = 0 THEN Uncounted(p) ELSE CountedAt(p, joins[k], f[k - 1])
        BY <2>1, <4>1 DEF IsCounted
      <4>3. k # 0 => k - 1 \in 0..(n + 1) /\ k - 1 # n + 1
        BY <4>1
      <4>4. k # 0 => g[k - 1] = f[k - 1]
        BY <4>3
      <4>. QED  BY <4>1, <4>2, <4>4
    <3>. QED  BY <3>1, <3>2
  <2>4. g = [k \in 0..(n + 1) |-> g[k]]
    OBVIOUS
  <2>5. IsCounted(g, joins, p, n + 1)
    <3>. HIDE DEF g
    <3>. QED  BY <2>3, <2>4 DEF IsCounted
  <2>. QED  BY <2>5
<1>3. Nat \subseteq K
  <2>. HIDE DEF K
  <2>. QED  BY <1>1, <1>2, Induction
<1>. QED  BY <1>3

\* Counting again knows pairs of tokens only.
LEMMA RecountedIs ==
  ASSUME Symbols1, NEW order, order \in Seq(DOMAIN words), NEW p, p \in Token1 \X Token1,
         DOMAIN pairs \subseteq Token1 \X Token1
  PROVE  DOMAIN V1!Recounted(order, p) \subseteq Token1 \X Token1
<1> DEFINE joins == V1!Joins(order, p)
           n == Len(joins)
           P == Token1 \X Token1
           f == CHOOSE f : f = [k \in 0..n |-> IF k = 0 THEN [q \in DOMAIN pairs \ {p} |-> pairs[q]]
                  ELSE V1!Recount(words[joins[k][1]].symbols, words[joins[k][1]].freq, p, joins[k][2], f[k - 1])]
<1>1. joins \in Seq(JoinPlaces(p)) /\ n \in Nat
  BY JoinsAre
<1>2. \E g : g = [k \in 0..n |-> IF k = 0 THEN [q \in DOMAIN pairs \ {p} |-> pairs[q]]
               ELSE V1!Recount(words[joins[k][1]].symbols, words[joins[k][1]].freq, p, joins[k][2], g[k - 1])]
  <2>1. \E g : IsCounted(g, joins, p, n)
    <3>. HIDE DEF joins, n
    <3>. QED  BY <1>1, CountsExist
  <2>. QED  BY <2>1 DEF IsCounted, CountedAt, Uncounted
<1>3. V1!Recounted(order, p) = f[n]
  BY DEF V1!Recounted
<1>4. IsCounted(f, joins, p, n)
  <2>1. f = [k \in 0..n |-> IF k = 0 THEN [q \in DOMAIN pairs \ {p} |-> pairs[q]]
               ELSE V1!Recount(words[joins[k][1]].symbols, words[joins[k][1]].freq, p, joins[k][2], f[k - 1])]
    BY <1>2
  <2>. HIDE DEF f
  <2>. QED  BY <2>1 DEF IsCounted, CountedAt, Uncounted
<1>. HIDE DEF f, joins, n
<1> DEFINE K == {k \in 0..n : DOMAIN f[k] \subseteq P}
<1>5. 0 \in K
  <2>1. f[0] = Uncounted(p)
    BY <1>1, <1>4 DEF IsCounted
  <2>. QED  BY <1>1, <2>1 DEF Uncounted
<1>6. ASSUME NEW k \in 1..n, k - 1 \in K PROVE k \in K
  <2>1. k \in 0..n /\ k # 0 /\ DOMAIN f[k - 1] \subseteq P
    BY <1>1, <1>6
  <2>2. f[k] = CountedAt(p, joins[k], f[k - 1])
    BY <1>4, <2>1 DEF IsCounted
  <2> DEFINE q == joins[k]
             w == words[q[1]].symbols
             i == q[2]
             c == f[k - 1]
  <2>3. q \in JoinPlaces(p)
    BY <1>1 DEF n
  <2>4. w \in Seq(Token1) /\ i \in V1!Taken(w, p) /\ Len(w) \in Nat
    <3>. HIDE DEF q
    <3>. QED  BY <2>3 DEF JoinPlaces, Symbols1
  <2>. HIDE DEF w, i, c
  <2>5. IsTaken(V1!Taken(w, p), w, p)
    BY <2>4, TakenIs
  <2>6. i \in 1..Len(w) /\ i < Len(w)
    <3>1. i \in 1..Len(w)
      BY <2>4, <2>5 DEF IsTaken
    <3>2. JoinsAt(V1!Taken(w, p), w, p, i)
      BY <2>4, <2>5, <3>1 DEF IsTaken
    <3>. QED  BY <3>1, <3>2 DEF JoinsAt
  <2>7. DOMAIN c \subseteq Token1 \X Token1
    BY <2>1 DEF c
  <2>8. \A freq : DOMAIN V1!Recount(w, freq, p, i, c) \subseteq Token1 \X Token1
    BY <2>4, <2>6, <2>7, RecountIs
  <2>. QED  BY <2>1, <2>2, <2>8 DEF CountedAt, w, i, c
<1>7. \A k \in 0..n : k \in K
  <2>. HIDE DEF K
  <2>. QED  BY <1>1, <1>5, <1>6, UpTo
<1>. QED  BY <1>1, <1>3, <1>7
-----------------------------------------------------------------------------
(* Training keeps the tables one.                                          *)

\* The letters of the training text.
Letters2 == Letters1(job.text)

\* Words hold what the merges make of them.
Words1(ws, ms) ==
  /\ IsFiniteSet(DOMAIN ws)
  /\ \A w \in DOMAIN ws : w \in Seq(Letters2) /\ DOMAIN ws[w] = {"symbols", "freq"} /\ ws[w].symbols = V1!Apply(ms, w)

\* v numbers tokens, sp spells the numbers, from 0 on.
Tables1(v, sp) ==
  /\ IsFiniteSet(DOMAIN v) /\ v = [t \in DOMAIN v |-> v[t]]
  /\ \A t \in DOMAIN v : v[t] \in DOMAIN sp /\ sp[v[t]] = t
  /\ \E n \in Nat : DOMAIN sp = 0..(n - 1)

\* Below b the table spells single symbols, each once, unk by 2; from b on, what the merges
\* made. The vocabulary has them all.
Rows1(v, sp, ms, b) ==
  /\ b \in Nat /\ b > 2 /\ Len(ms) \in Nat /\ sp = [i \in 0..(b + Len(ms) - 1) |-> sp[i]] /\ sp[2] = V1!Unk
  /\ \A i \in 0..(b - 1) : Len(sp[i]) = 1
  /\ \A i, j \in 0..(b - 1) : sp[i] = sp[j] => i = j
  /\ \A k \in 1..Len(ms) : sp[b + k - 1] = V1!Joined(ms[k])
  /\ \A i \in DOMAIN sp : sp[i] \in DOMAIN v
HasRows1(v, sp, ms) == \E b : Rows1(v, sp, ms, b)

\* The inductive invariant of the first tokenizer.
V1Inv ==
  /\ job \in Jobs /\ pc \in {"train", "trained"}
  /\ merges \in Seq(Token1 \X Token1) /\ DOMAIN pairs \subseteq Token1 \X Token1
  /\ Words1(words, merges) /\ Tables1(vocab, spelling) /\ HasRows1(vocab, spelling, merges)
  /\ Known1(Letters2, merges) \subseteq DOMAIN vocab
  /\ pc = "trained" => out = V1!EncodeV1(vocab, merges, job.prompt)

\* The letters are bytes.
LEMMA LettersAre == ASSUME job \in Jobs PROVE Letters2 \subseteq Byte /\ job.text \in Seq(Byte) /\ job.prompt \in Seq(Byte)
<1>1. job.text \in Seq(Byte) /\ job.prompt \in Seq(Byte)
  BY ByteBpeAssumption
<1>2. Letters1(job.text) \subseteq Byte
  BY <1>1, WordsAre
<1>. QED  BY <1>1, <1>2 DEF Letters2

\* sp spells n numbers with the tokens S, and v finds them.
Fills(v, sp, n, S) ==
  /\ n \in Nat /\ DOMAIN sp = 0..(n - 1) /\ S = {sp[i] : i \in 0..(n - 1)}
  /\ v = [t \in S |-> CHOOSE i \in DOMAIN sp : sp[i] = t]

\* What fills the tables at first.
LEMMA TablesFill ==
  ASSUME NEW v, NEW sp, NEW n, NEW S, Fills(v, sp, n, S)
  PROVE  Tables1(v, sp) /\ DOMAIN v = S
<1>0. /\ n \in Nat /\ DOMAIN sp = 0..(n - 1) /\ S = {sp[i] : i \in 0..(n - 1)}
      /\ v = [t \in S |-> CHOOSE i \in DOMAIN sp : sp[i] = t]
  BY DEF Fills
<1>1. DOMAIN v = S
  BY <1>0
<1>2. IsFiniteSet(S)
  <2> DEFINE D == 0..(n - 1)
  <2>1. IsFiniteSet(D)
    <3>1. 0 \in Int /\ n - 1 \in Int
      BY <1>0
    <3>. QED  BY <3>1, FS_Interval
  <2>2. S = {sp[i] : i \in D}
    BY <1>0
  <2> DEFINE g == [i \in D |-> sp[i]]
  <2>3. g \in Surjection(D, S)
    <3>. HIDE DEF D
    <3>1. g \in [D -> S]
      BY <2>2
    <3>2. \A s \in S : \E i \in D : g[i] = s
      BY <2>2
    <3>. HIDE DEF g
    <3>. QED  BY <3>1, <3>2 DEF Surjection
  <2>. HIDE DEF D, g
  <2>. QED  BY <2>1, <2>3, FS_Surjection
<1>3. ASSUME NEW t \in S PROVE v[t] \in DOMAIN sp /\ sp[v[t]] = t
  <2>1. \E i \in DOMAIN sp : sp[i] = t
    BY <1>0
  <2>2. v[t] = CHOOSE i \in DOMAIN sp : sp[i] = t
    BY <1>0
  <2>. QED  BY <2>1, <2>2
<1>4. v = [t \in DOMAIN v |-> v[t]]
  BY <1>0
<1>. QED  BY <1>0, <1>1, <1>2, <1>3, <1>4 DEF Tables1

\* The tables before any merge.
FirstFill(v, sp, t) ==
  /\ sp = [id \in 0..(2 + Len(V1!Characters(t))) |->
            CASE id = 0 -> V1!Pad [] id = 1 -> V1!Eos [] id = 2 -> V1!Unk [] OTHER -> <<V1!Characters(t)[id - 2]>>]
  /\ v = [x \in V1!Range(sp) |-> CHOOSE id \in DOMAIN sp : sp[id] = x]

\* They hold the letters.
LEMMA FirstTables ==
  ASSUME NEW t, t \in Seq(Byte), NEW v, NEW sp, FirstFill(v, sp, t)
  PROVE  Tables1(v, sp) /\ Ones(Letters1(t)) \subseteq DOMAIN v /\ HasRows1(v, sp, <<>>)
<1> DEFINE C == {V1!Underscore} \cup (ToSet(t) \ {32})
           chars == V1!Characters(t)
           n == Len(chars) + 3
           S == {sp[i] : i \in 0..(n - 1)}
<1>1. C \subseteq Int /\ IsFiniteSet(C)
  <2>1. ToSet(t) = {t[i] : i \in 1..Len(t)} /\ Len(t) \in Nat
    BY DEF ToSet
  <2>2. IsFiniteSet(ToSet(t)) /\ ToSet(t) \subseteq Int
    <3>1. ToSet(t) \subseteq Int
      <4>1. \A i \in 1..Len(t) : t[i] \in Byte
        OBVIOUS
      <4>2. Byte \subseteq Int
        BY DEF Byte
      <4>. QED  BY <2>1, <4>1, <4>2
    <3> DEFINE l == Len(t)
    <3>2. IsFiniteSet(1..l)
      <4>1. l \in Int /\ 1 \in Int
        BY <2>1
      <4>. HIDE DEF l
      <4>. QED  BY <4>1, FS_Interval
    <3> DEFINE g == [i \in 1..Len(t) |-> t[i]]
    <3>3. g \in Surjection(1..Len(t), ToSet(t))
      <4>1. g \in [1..Len(t) -> ToSet(t)]
        BY <2>1
      <4>2. \A s \in ToSet(t) : \E i \in 1..Len(t) : g[i] = s
        BY <2>1
      <4>. HIDE DEF g
      <4>. QED  BY <4>1, <4>2 DEF Surjection
    <3>. HIDE DEF g
    <3>4. IsFiniteSet(ToSet(t))
      BY <3>2, <3>3, FS_Surjection
    <3>. QED  BY <3>1, <3>4
  <2>3. V1!Underscore \in Int
    BY DEF V1!Underscore
  <2>4. C \subseteq ToSet(t) \cup {V1!Underscore}
    OBVIOUS
  <2>5. IsFiniteSet(ToSet(t) \cup {V1!Underscore})
    BY <2>2, FS_AddElement
  <2>6. IsFiniteSet(C)
    BY <2>4, <2>5, FS_Subset
  <2>. QED  BY <2>2, <2>3, <2>6
<1>2. ListsAll(chars, C)
  <2>1. chars = V1!InOrder(C)
    <3>1. V1!ToSet(t) = ToSet(t)
      BY V1Library
    <3>. QED  BY <3>1 DEF V1!Characters
  <2>. HIDE DEF C, chars
  <2>. QED  BY <1>1, <2>1, InOrderLists
<1>3. Len(chars) \in Nat /\ n \in Nat /\ n - 1 = 2 + Len(chars) /\ \A x \in C : \E k \in 1..Len(chars) : chars[k] = x
  <2>1. Len(chars) \in Nat /\ \A x \in C : \E k \in 1..Len(chars) : chars[k] = x
    BY <1>2 DEF ListsAll
  <2>. QED  BY <2>1
<1>0. \A x \in C : x \in Int /\ x >= 0
  <2>1. \A i \in 1..Len(t) : t[i] \in Byte
    OBVIOUS
  <2>2. \A x \in ToSet(t) : x \in Byte
    BY <2>1 DEF ToSet
  <2>3. V1!Underscore \in Byte /\ \A x \in Byte : x \in Int /\ x >= 0
    BY DEF Byte, V1!Underscore
  <2>4. \A x \in C : x \in Byte
    BY <2>2, <2>3
  <2>. QED  BY <2>3, <2>4
<1>4. sp = [id \in 0..(2 + Len(chars)) |->
              CASE id = 0 -> V1!Pad [] id = 1 -> V1!Eos [] id = 2 -> V1!Unk [] OTHER -> <<chars[id - 2]>>]
  BY Zenon DEF FirstFill
<1>. HIDE DEF chars, C
<1>5. DOMAIN sp = 0..(n - 1) /\ sp = [i \in 0..(n - 1) |-> sp[i]]
  BY <1>3, <1>4
<1>6. V1!Range(sp) = S
  <2>1. V1!Range(sp) = Range(sp)
    BY V1Library
  <2>. QED  BY <1>5, <2>1 DEF Range
<1>7. Tables1(v, sp) /\ DOMAIN v = S
  <2>1. v = [x \in S |-> CHOOSE id \in DOMAIN sp : sp[id] = x] /\ n \in Nat
    BY <1>3, <1>6 DEF FirstFill
  <2>2. Fills(v, sp, n, S)
    BY <1>3, <1>5, <2>1 DEF Fills
  <2>. HIDE DEF n, S
  <2>. QED  BY <2>2, TablesFill
<1>8. ASSUME NEW c \in Letters1(t) PROVE <<c>> \in S
  <2>1. c \in C
    BY DEF Letters1, C, V1!Blank
  <2>2. PICK k \in 1..Len(chars) : chars[k] = c
    BY <1>3, <2>1
  <2> DEFINE i == k + 2
  <2>3. i \in 0..(2 + Len(chars)) /\ i # 0 /\ i # 1 /\ i # 2 /\ i - 2 = k /\ i \in 0..(n - 1)
    BY <1>3, <2>2
  <2>. HIDE DEF i
  <2>4. sp[i] = <<chars[i - 2]>>
    BY <1>4, <2>3
  <2>5. sp[i] = <<c>>
    BY <2>2, <2>3, <2>4
  <2>. QED  BY <2>3, <2>5
<1>9. /\ sp[0] = <<0 - 1>> /\ sp[1] = <<0 - 2>> /\ sp[2] = <<0 - 3>>
      /\ \A i \in 3..(n - 1) : sp[i] = <<chars[i - 2]>>
  <2>1. 0 \in 0..(2 + Len(chars)) /\ 1 \in 0..(2 + Len(chars)) /\ 2 \in 0..(2 + Len(chars))
    BY <1>3
  <2>2. ASSUME NEW i \in 3..(n - 1) PROVE i \in 0..(2 + Len(chars)) /\ i # 0 /\ i # 1 /\ i # 2
    BY <1>3
  <2>3. \A i \in 3..(n - 1) : sp[i] = <<chars[i - 2]>>
    BY <1>4, <2>2
  <2>4. sp[0] = V1!Pad /\ sp[1] = V1!Eos /\ sp[2] = V1!Unk
    BY <1>4, <2>1
  <2>. QED  BY <2>3, <2>4 DEF V1!Pad, V1!Eos, V1!Unk
<1> DEFINE x(i) == IF i > 2 THEN chars[i - 2] ELSE (0 - 1) - i
<1>10. \A i \in 0..(n - 1) : sp[i] = <<x(i)>>
  BY <1>3, <1>9
<1>11. \A k \in 1..Len(chars) : chars[k] \in Int /\ chars[k] >= 0
  <2>1. chars \in Seq(C)
    BY <1>2 DEF ListsAll
  <2>2. \A k \in 1..Len(chars) : chars[k] \in C
    BY <2>1
  <2>. QED  BY <1>0, <2>2
<1>12. ASSUME NEW i \in 0..(n - 1), NEW j \in 0..(n - 1), x(i) = x(j) PROVE i = j
  <2>1. \A k \in 0..(n - 1) : k > 2 => k - 2 \in 1..Len(chars)
    BY <1>3
  <2>2. CASE i > 2 /\ j > 2
    <3>1. chars[i - 2] = chars[j - 2] /\ i - 2 \in 1..Len(chars) /\ j - 2 \in 1..Len(chars)
      BY <1>12, <2>1, <2>2
    <3>2. i - 2 = j - 2
      BY <1>2, <3>1 DEF ListsAll
    <3>. QED  BY <1>3, <3>2
  <2>3. CASE i > 2 /\ ~ (j > 2)
    <3>1. chars[i - 2] = (0 - 1) - j /\ chars[i - 2] >= 0 /\ chars[i - 2] \in Int
      BY <1>11, <1>12, <2>1, <2>3
    <3>. QED  BY <1>3, <3>1
  <2>4. CASE ~ (i > 2) /\ j > 2
    <3>1. chars[j - 2] = (0 - 1) - i /\ chars[j - 2] >= 0 /\ chars[j - 2] \in Int
      BY <1>11, <1>12, <2>1, <2>4
    <3>. QED  BY <1>3, <3>1
  <2>5. CASE ~ (i > 2) /\ ~ (j > 2)
    BY <1>3, <1>12, <2>5
  <2>. QED  BY <2>2, <2>3, <2>4, <2>5
<1>. HIDE DEF x
<1>13. (\A i \in 0..(n - 1) : Len(sp[i]) = 1) /\ \A i, j \in 0..(n - 1) : sp[i] = sp[j] => i = j
  <2>1. ASSUME NEW i \in 0..(n - 1) PROVE Len(sp[i]) = 1
    <3> DEFINE y == x(i)
    <3>1. sp[i] = <<y>>
      BY <1>10
    <3>. HIDE DEF y
    <3>2. Len(<<y>>) = 1
      OBVIOUS
    <3>. QED  BY <3>1, <3>2
  <2>2. ASSUME NEW i \in 0..(n - 1), NEW j \in 0..(n - 1), sp[i] = sp[j] PROVE i = j
    <3>1. <<x(i)>> = <<x(j)>>
      BY <1>10, <2>2
    <3>2. x(i) = x(j)
      BY <3>1
    <3>. QED  BY <1>12, <3>2
  <2>. QED  BY <2>1, <2>2
<1>14. \A i \in DOMAIN sp : sp[i] \in DOMAIN v
  BY <1>5, <1>7
<1>15. Rows1(v, sp, <<>>, n)
  <2>1. n > 2 /\ Len(<<>>) = 0 /\ n + 0 - 1 = n - 1 /\ 1..0 = {}
    BY <1>3
  <2>2. sp[2] = V1!Unk
    BY <1>9 DEF V1!Unk
  <2>. HIDE DEF n
  <2>. QED  BY <1>3, <1>5, <1>13, <1>14, <2>1, <2>2 DEF Rows1
<1>. QED  BY <1>7, <1>8, <1>15 DEF Ones, HasRows1
-----------------------------------------------------------------------------

\* Adjacent tokens of a sequence are pairs of tokens.
LEMMA PairsAre1 == ASSUME NEW s, s \in Seq(Token1) PROVE V1!Pairs(s) \subseteq Token1 \X Token1
<1>1. Len(s) \in Nat /\ \A i \in 1..Len(s) : s[i] \in Token1
  OBVIOUS
<1>2. ASSUME NEW i \in 1..(Len(s) - 1) PROVE <<s[i], s[i + 1]>> \in Token1 \X Token1
  <2>1. i \in 1..Len(s) /\ i + 1 \in 1..Len(s)
    BY <1>1
  <2>2. s[i] \in Token1 /\ s[i + 1] \in Token1
    BY <1>1, <2>1
  <2>. QED  BY <2>2
<1>. QED  BY <1>2 DEF V1!Pairs

\* The tables, words and counts of a training text.
LEMMA V1Starts == ASSUME job \in Jobs, V1!V1Init PROVE V1Inv
<1> DEFINE split == V1!SplitWords(job.text)
           chars == V1!Characters(job.text)
<1>0. Letters2 \subseteq Byte /\ job.text \in Seq(Byte)
  BY LettersAre
<1>1. pc = "train" /\ merges = <<>> /\ merges \in Seq(Token1 \X Token1)
  <2>1. pc = "train" /\ merges = <<>>
    BY DEF V1!V1Init
  <2>. QED  BY <2>1
<1>2. words = [w \in V1!ToSet(split) |->
                 [symbols |-> V1!Singles(w), freq |-> V1!Cardinality({n \in DOMAIN split : split[n] = w})]]
  BY DEF V1!V1Init
<1>3. DOMAIN pairs = UNION {V1!Pairs(words[w].symbols) : w \in DOMAIN words}
  BY DEF V1!V1Init
<1>4. /\ spelling = [id \in 0..(2 + Len(chars)) |->
           CASE id = 0 -> V1!Pad [] id = 1 -> V1!Eos [] id = 2 -> V1!Unk [] OTHER -> <<chars[id - 2]>>]
      /\ vocab = [t \in V1!Range(spelling) |-> CHOOSE id \in DOMAIN spelling : spelling[id] = t]
  BY DEF V1!V1Init
<1>5. split \in Seq(Seq(Letters2))
  BY <1>0, WordsAre DEF Letters2
<1>6. V1!ToSet(split) = ToSet(split) /\ IsFiniteSet(ToSet(split)) /\ ToSet(split) \subseteq Seq(Letters2)
  <2> DEFINE S == Seq(Letters2)
             l == Len(split)
  <2>1. split \in Seq(S)
    BY <1>5
  <2>. HIDE DEF S, split
  <2>2. l \in Int /\ 1 \in Int /\ DOMAIN split = 1..l /\ \A i \in 1..l : split[i] \in S
    BY <2>1
  <2>3. ToSet(split) = {split[i] : i \in 1..l}
    BY <2>2 DEF ToSet
  <2>. HIDE DEF l
  <2>4. IsFiniteSet(1..l)
    BY <2>2, FS_Interval
  <2> DEFINE g == [i \in 1..l |-> split[i]]
  <2>5. g \in Surjection(1..l, ToSet(split))
    <3>1. g \in [1..l -> ToSet(split)]
      BY <2>3
    <3>2. \A s \in ToSet(split) : \E i \in 1..l : g[i] = s
      BY <2>3
    <3>. HIDE DEF g
    <3>. QED  BY <3>1, <3>2 DEF Surjection
  <2>6. IsFiniteSet(ToSet(split))
    <3>. HIDE DEF g
    <3>. QED  BY <2>4, <2>5, FS_Surjection
  <2>7. ToSet(split) \subseteq S
    BY <2>2, <2>3
  <2>8. V1!ToSet(split) = ToSet(split)
    BY V1Library
  <2>. QED  BY <2>6, <2>7, <2>8 DEF S
<1>7. ASSUME NEW w \in DOMAIN words
      PROVE  /\ w \in Seq(Letters2) /\ DOMAIN words[w] = {"symbols", "freq"}
             /\ words[w].symbols = V1!Singles(w) /\ words[w].symbols = V1!Apply(merges, w)
  <2>1. w \in V1!ToSet(split) /\ w \in Seq(Letters2)
    BY <1>2, <1>6
  <2>2. words[w] = [symbols |-> V1!Singles(w), freq |-> V1!Cardinality({n \in DOMAIN split : split[n] = w})]
    BY <1>2, <2>1
  <2>3. V1!Apply(<<>>, w) = V1!Singles(w)
    BY <1>0, <2>1, ApplyNone
  <2>. QED  BY <1>1, <2>1, <2>2, <2>3
<1>8. Words1(words, merges)
  <2>1. DOMAIN words = ToSet(split)
    BY <1>2, <1>6
  <2>. QED  BY <1>6, <1>7, <2>1 DEF Words1
<1>9. ASSUME NEW w \in DOMAIN words PROVE V1!Pairs(words[w].symbols) \subseteq Token1 \X Token1
  <2> DEFINE X == Ones(Letters2)
  <2>1. V1!Singles(w) \in Made(X, w)
    <3>1. w \in Seq(Letters2)
      BY <1>7
    <3>. QED  BY <3>1, SinglesSpell
  <2>2. X \subseteq Token1
    <3>1. ASSUME NEW c \in Letters2 PROVE <<c>> \in Token1
      <4>1. c \in Byte
        BY <1>0
      <4>. QED  BY <4>1 DEF Token1
    <3>. QED  BY <3>1 DEF Ones
  <2>3. V1!Singles(w) \in Seq(X)
    BY <2>1 DEF Made
  <2>4. V1!Singles(w) \in Seq(Token1)
    BY <2>2, <2>3, SeqMono
  <2>. QED  BY <1>7, <2>4, PairsAre1
<1>10. DOMAIN pairs \subseteq Token1 \X Token1
  BY <1>3, <1>9
<1>11. Tables1(vocab, spelling) /\ Ones(Letters2) \subseteq DOMAIN vocab /\ HasRows1(vocab, spelling, merges)
  <2>1. FirstFill(vocab, spelling, job.text)
    BY <1>4, Zenon DEF FirstFill
  <2>. QED  BY <1>0, <1>1, <2>1, FirstTables DEF Letters2
<1>12. Known1(Letters2, merges) = Ones(Letters2)
  <2>1. Len(merges) = 0 /\ 1..0 = {}
    BY <1>1
  <2>. QED  BY <2>1 DEF Known1
<1>. QED  BY <1>1, <1>8, <1>10, <1>11, <1>12 DEF V1Inv

\* One token more in the tables.
LEMMA TablesMore ==
  ASSUME NEW v, NEW sp, Tables1(v, sp), NEW t, NEW id, id = Cardinality(DOMAIN sp)
  PROVE  Tables1(V1!Put(v, t, id), V1!Put(sp, id, t)) /\ DOMAIN V1!Put(v, t, id) = {t} \cup DOMAIN v
<1>1. PICK n \in Nat : DOMAIN sp = 0..(n - 1)
  BY DEF Tables1
<1>2. id = n
  <2> DEFINE m == n - 1
  <2>1. 0 \in Int /\ m \in Int
    OBVIOUS
  <2>2. Cardinality(0..m) = IF 0 > m THEN 0 ELSE m - 0 + 1
    <3>. HIDE DEF m
    <3>. QED  BY <2>1, FS_Interval
  <2>. QED  BY <1>1, <2>2
<1> DEFINE u == V1!Put(v, t, id)
           up == V1!Put(sp, id, t)
<1>3. u = [y \in {t} \cup DOMAIN v |-> IF y = t THEN id ELSE v[y]] /\ up = [y \in {id} \cup DOMAIN sp |-> IF y = id THEN t ELSE sp[y]]
  BY DEF V1!Put
<1>4. DOMAIN u = {t} \cup DOMAIN v /\ DOMAIN up = {n} \cup DOMAIN sp
  BY <1>2, <1>3
<1>5. DOMAIN up = 0..((n + 1) - 1) /\ n + 1 \in Nat
  <2>1. {n} \cup (0..(n - 1)) = 0..((n + 1) - 1)
    OBVIOUS
  <2>2. n + 1 \in Nat
    OBVIOUS
  <2>. HIDE DEF u, up
  <2>3. DOMAIN up = {n} \cup (0..(n - 1))
    BY <1>1, <1>4
  <2>. QED  BY <2>1, <2>2, <2>3
<1>6. IsFiniteSet(DOMAIN u)
  <2>1. IsFiniteSet(DOMAIN v)
    BY DEF Tables1
  <2>2. IsFiniteSet((DOMAIN v) \cup {t})
    BY <2>1, FS_AddElement
  <2>3. (DOMAIN v) \cup {t} = DOMAIN u
    BY <1>4
  <2>. QED  BY <2>2, <2>3
<1>7. ASSUME NEW x \in DOMAIN u PROVE u[x] \in DOMAIN up /\ up[u[x]] = x
  <2>1. CASE x = t
    <3>1. u[x] = id /\ up[id] = t
      BY <1>3, <2>1
    <3>. QED  BY <1>2, <1>4, <2>1, <3>1
  <2>2. CASE x # t
    <3>1. x \in DOMAIN v /\ u[x] = v[x]
      BY <1>3, <1>4, <2>2
    <3>2. v[x] \in DOMAIN sp /\ sp[v[x]] = x
      BY <3>1 DEF Tables1
    <3>3. v[x] # id
      BY <1>1, <1>2, <3>2
    <3>4. up[v[x]] = sp[v[x]]
      BY <1>3, <3>2, <3>3
    <3>. QED  BY <1>4, <3>1, <3>2, <3>4
  <2>. QED  BY <2>1, <2>2
<1>8. u = [x \in DOMAIN u |-> u[x]]
  <2>1. DOMAIN u = {t} \cup DOMAIN v
    BY <1>4
  <2>. QED  BY <1>3, <2>1
<1>. HIDE DEF u, up
<1>9. Tables1(u, up)
  <2>1. \E m \in Nat : DOMAIN up = 0..(m - 1)
    BY <1>5
  <2>. QED  BY <1>6, <1>7, <1>8, <2>1 DEF Tables1
<1>. QED  BY <1>4, <1>9 DEF u, up

\* A row more, of what one merge more made.
LEMMA RowsMore ==
  ASSUME NEW v, NEW sp, NEW ms, ms \in Seq(Token1 \X Token1), NEW p, p \in Token1 \X Token1,
         HasRows1(v, sp, ms), NEW id, id = Cardinality(DOMAIN sp)
  PROVE  HasRows1(V1!Put(v, V1!Joined(p), id), V1!Put(sp, id, V1!Joined(p)), Append(ms, p))
<1>1. PICK b : Rows1(v, sp, ms, b)
  BY DEF HasRows1
<1> DEFINE l == Len(ms)
           t == V1!Joined(p)
           u == V1!Put(v, t, id)
           up == V1!Put(sp, id, t)
           ns == Append(ms, p)
           m == b + l - 1
<1>2. /\ b \in Nat /\ b > 2 /\ l \in Nat /\ DOMAIN sp = 0..m /\ sp[2] = V1!Unk
      /\ \A i \in 0..(b - 1) : Len(sp[i]) = 1
      /\ \A i, j \in 0..(b - 1) : sp[i] = sp[j] => i = j
      /\ \A k \in 1..l : sp[b + k - 1] = V1!Joined(ms[k])
      /\ \A i \in DOMAIN sp : sp[i] \in DOMAIN v
  BY <1>1 DEF Rows1
<1>3. id = b + l
  <2>1. 0 \in Int /\ m \in Int /\ ~ (0 > m) /\ m - 0 + 1 = b + l
    BY <1>2
  <2>2. Cardinality(0..m) = IF 0 > m THEN 0 ELSE m - 0 + 1
    <3>. HIDE DEF m
    <3>. QED  BY <2>1, FS_Interval
  <2>. QED  BY <1>2, <2>1, <2>2
<1>4. u = [y \in {t} \cup DOMAIN v |-> IF y = t THEN id ELSE v[y]] /\ up = [y \in {id} \cup DOMAIN sp |-> IF y = id THEN t ELSE sp[y]]
  BY DEF V1!Put
<1>5. DOMAIN u = {t} \cup DOMAIN v /\ DOMAIN up = {id} \cup DOMAIN sp /\ up[id] = t /\ \A i \in DOMAIN sp : i # id => up[i] = sp[i]
  BY <1>4
<1>6. Len(ns) = l + 1 /\ ns[l + 1] = p /\ \A k \in 1..l : ns[k] = ms[k]
  <2> DEFINE P == Token1 \X Token1
  <2>1. ms \in Seq(P) /\ p \in P
    OBVIOUS
  <2>. HIDE DEF P
  <2>. QED  BY <2>1
<1>. HIDE DEF t, u, up, ns, l
<1>7. \A i \in 0..(b + l - 1) : i \in DOMAIN sp /\ up[i] = sp[i]
  <2>1. b \in Nat /\ l \in Nat /\ DOMAIN sp = 0..(b + l - 1) /\ id = b + l
    BY <1>2, <1>3
  <2>2. \A i \in 0..(b + l - 1) : i \in DOMAIN sp /\ i # id
    BY ONLY <2>1
  <2>. QED  BY <1>5, <2>2
<1>8. DOMAIN up = 0..(b + (l + 1) - 1) /\ up = [i \in DOMAIN up |-> up[i]]
  <2>1. {b + l} \cup (0..(b + l - 1)) = 0..(b + (l + 1) - 1)
    <3>1. b \in Nat /\ l \in Nat
      BY <1>2
    <3>. QED  BY ONLY <3>1
  <2>2. DOMAIN up = {b + l} \cup (0..(b + l - 1))
    BY <1>2, <1>3, <1>5 DEF m
  <2>3. up = [i \in DOMAIN up |-> up[i]]
    BY <1>4, <1>5
  <2>. QED  BY <2>1, <2>2, <2>3
<1>9. \A i \in 0..(b - 1) : up[i] = sp[i]
  BY <1>2, <1>7
<1>10. up[2] = V1!Unk
  BY <1>2, <1>9
<1>11. ASSUME NEW k \in 1..(l + 1) PROVE up[b + k - 1] = V1!Joined(ns[k])
  <2>1. CASE k = l + 1
    <3>1. b + k - 1 = id
      <4>1. b \in Nat /\ l \in Nat
        BY <1>2
      <4>. QED  BY ONLY <1>3, <2>1, <4>1
    <3>. QED  BY <1>5, <1>6, <2>1, <3>1 DEF t
  <2>2. CASE k # l + 1
    <3>1. k \in 1..l /\ b + k - 1 \in 0..(b + l - 1)
      BY <1>2, <2>2
    <3>2. up[b + k - 1] = sp[b + k - 1]
      BY <1>7, <3>1
    <3>. QED  BY <1>2, <1>6, <3>1, <3>2
  <2>. QED  BY <2>1, <2>2
<1>12. \A i \in DOMAIN up : up[i] \in DOMAIN u
  BY <1>2, <1>5
<1>13. (\A i \in 0..(b - 1) : Len(up[i]) = 1) /\ \A i, j \in 0..(b - 1) : up[i] = up[j] => i = j
  BY <1>2, <1>9
<1>14. Rows1(u, up, ns, b)
  <2>1. l + 1 \in Nat
    BY <1>2
  <2>. HIDE DEF l
  <2>. QED  BY <1>2, <1>6, <1>8, <1>10, <1>11, <1>12, <1>13, <2>1 DEF Rows1
<1>. QED  BY <1>14 DEF HasRows1, u, up, ns, t

\* One merge more in the words.
LEMMA WordsMore ==
  ASSUME Letters2 \subseteq Byte, NEW ws, NEW ms, ms \in Seq(Token1 \X Token1), Words1(ws, ms), NEW p, p \in Token1 \X Token1,
         NEW us, us = [w \in DOMAIN ws |-> [ws[w] EXCEPT !.symbols = V1!Merged(@, p)]]
  PROVE  Words1(us, Append(ms, p))
<1>1. DOMAIN us = DOMAIN ws /\ IsFiniteSet(DOMAIN ws)
  BY DEF Words1
<1>2. ASSUME NEW w \in DOMAIN us
      PROVE  w \in Seq(Letters2) /\ DOMAIN us[w] = {"symbols", "freq"} /\ us[w].symbols = V1!Apply(Append(ms, p), w)
  <2>1. w \in Seq(Letters2) /\ DOMAIN ws[w] = {"symbols", "freq"} /\ ws[w].symbols = V1!Apply(ms, w)
    BY <1>1 DEF Words1
  <2>2. us[w] = [ws[w] EXCEPT !.symbols = V1!Merged(ws[w].symbols, p)]
    BY <1>1
  <2>3. DOMAIN us[w] = {"symbols", "freq"} /\ us[w].symbols = V1!Merged(ws[w].symbols, p)
    BY <2>1, <2>2
  <2>4. V1!Apply(Append(ms, p), w) = V1!Merged(V1!Apply(ms, w), p)
    <3>1. w \in Seq(Letters2)
      BY <2>1
    <3>. QED  BY ONLY <3>1, ApplyMore, Letters2 \subseteq Byte, ms \in Seq(Token1 \X Token1), p \in Token1 \X Token1
  <2>. QED  BY <2>1, <2>3, <2>4
<1>. QED  BY <1>1, <1>2 DEF Words1

\* The words' symbols are tokens.
LEMMA SymbolsAre1 == ASSUME V1Inv PROVE Symbols1
<1>1. ASSUME NEW w \in DOMAIN words PROVE words[w].symbols \in Seq(Token1)
  <2>1. Letters2 \subseteq Byte /\ merges \in Seq(Token1 \X Token1) /\ w \in Seq(Letters2) /\ words[w].symbols = V1!Apply(merges, w)
    BY LettersAre DEF V1Inv, Words1
  <2> DEFINE X == Known1(Letters2, merges)
  <2>2. V1!Apply(merges, w) \in Made(X, w)
    BY <2>1, ApplyMade
  <2>3. V1!Apply(merges, w) \in Seq(X)
    BY <2>2 DEF Made
  <2>4. X \subseteq Token1
    BY <2>1, KnownAre
  <2>5. V1!Apply(merges, w) \in Seq(Token1)
    <3>. HIDE DEF X
    <3>. QED  BY <2>3, <2>4, SeqMono
  <2>. QED  BY <2>1, <2>5
<1>. QED  BY <1>1 DEF Symbols1

\* A turn of the training loop.
LEMMA V1Merges == ASSUME V1Inv, V1!V1Merge PROVE V1Inv'
<1>1. PICK pair \in DOMAIN pairs, order \in V1!SetToSeqs(DOMAIN words) :
        /\ merges' = Append(merges, pair)
        /\ words' = [w \in DOMAIN words |-> [words[w] EXCEPT !.symbols = V1!Merged(@, pair)]]
        /\ pairs' = V1!Recounted(order, pair)
        /\ vocab' = V1!Put(vocab, V1!Joined(pair), V1!Cardinality(DOMAIN spelling))
        /\ spelling' = V1!Put(spelling, V1!Cardinality(DOMAIN spelling), V1!Joined(pair))
  BY Zenon DEF V1!V1Merge
<1>2. pc = "train" /\ job' = job /\ pc' = pc /\ out' = out
  BY DEF V1!V1Merge
<1>3. job \in Jobs /\ merges \in Seq(Token1 \X Token1) /\ DOMAIN pairs \subseteq Token1 \X Token1 /\ Letters2 \subseteq Byte /\ Symbols1
      /\ Words1(words, merges) /\ Tables1(vocab, spelling) /\ Known1(Letters2, merges) \subseteq DOMAIN vocab
      /\ HasRows1(vocab, spelling, merges)
  BY LettersAre, SymbolsAre1 DEF V1Inv
<1>4. pair \in Token1 \X Token1
  BY <1>3
<1>5. merges' \in Seq(Token1 \X Token1)
  <2> DEFINE P == Token1 \X Token1
  <2>1. merges \in Seq(P) /\ pair \in P
    BY <1>3, <1>4
  <2>. HIDE DEF P
  <2>2. Append(merges, pair) \in Seq(P)
    BY <2>1
  <2>. QED  BY <1>1, <2>2 DEF P
<1>6. order \in Seq(DOMAIN words)
  <2> DEFINE W == DOMAIN words
             n == Cardinality(W)
  <2>1. n \in Nat
    BY <1>3, FS_CardinalityType DEF Words1
  <2>2. V1!SetToSeqs(W) = SetToSeqs(W)
    BY V1Library
  <2>3. order \in [1..n -> W]
    BY <2>2 DEF SetToSeqs
  <2>. HIDE DEF W, n
  <2>4. order \in Seq(W)
    BY <2>1, <2>3, FunIsSeq
  <2>. QED  BY <2>4 DEF W
<1>7. DOMAIN pairs' \subseteq Token1 \X Token1
  <2>1. DOMAIN V1!Recounted(order, pair) \subseteq Token1 \X Token1
    BY <1>3, <1>4, <1>6, RecountedIs
  <2>. QED  BY <1>1, <2>1
<1>8. Letters2' = Letters2
  BY <1>2 DEF Letters2
<1>9. Words1(words', merges')
  BY <1>1, <1>3, <1>4, WordsMore
<1>10. Tables1(vocab', spelling') /\ DOMAIN vocab' = {V1!Joined(pair)} \cup DOMAIN vocab
  <2>1. V1!Cardinality(DOMAIN spelling) = Cardinality(DOMAIN spelling)
    BY V1Library
  <2>. QED  BY <1>1, <1>3, <2>1, TablesMore
<1>11. Known1(Letters2, merges') \subseteq DOMAIN vocab'
  <2>1. ASSUME NEW k \in 1..Len(merges') PROVE V1!Joined(merges'[k]) \in DOMAIN vocab'
    <3>1. Len(merges') = Len(merges) + 1 /\ Len(merges) \in Nat /\ merges'[Len(merges) + 1] = pair
          /\ \A i \in 1..Len(merges) : merges'[i] = merges[i]
      BY <1>1, <1>3
    <3>2. CASE k = Len(merges) + 1
      BY <1>10, <3>1, <3>2
    <3>3. CASE k # Len(merges) + 1
      <4>1. k \in 1..Len(merges) /\ merges'[k] = merges[k]
        BY <3>1, <3>3
      <4>2. V1!Joined(merges[k]) \in DOMAIN vocab
        BY <1>3, <4>1 DEF Known1
      <4>. QED  BY <1>10, <4>1, <4>2
    <3>. QED  BY <3>2, <3>3
  <2>2. Ones(Letters2) \subseteq DOMAIN vocab'
    BY <1>3, <1>10 DEF Known1
  <2>. QED  BY <2>1, <2>2 DEF Known1
<1>12. Words1(words, merges)' /\ Known1(Letters2, merges)' \subseteq DOMAIN vocab'
  BY <1>8, <1>9, <1>11 DEF Words1, Known1, Ones
<1>13. Tables1(vocab, spelling)'
  BY <1>10 DEF Tables1
<1>14. HasRows1(vocab', spelling', merges')
  <2>1. V1!Cardinality(DOMAIN spelling) = Cardinality(DOMAIN spelling)
    BY V1Library
  <2>. QED  BY <1>1, <1>3, <1>4, <2>1, RowsMore
<1>15. HasRows1(vocab, spelling, merges)'
  BY <1>14 DEF HasRows1, Rows1
<1>. QED  BY <1>2, <1>3, <1>5, <1>7, <1>12, <1>13, <1>15 DEF V1Inv

\* The prompt is encoded.
LEMMA V1Encodes == ASSUME V1Inv, V1!V1Encode PROVE V1Inv'
<1>1. /\ pc' = "trained" /\ out' = V1!EncodeV1(vocab, merges, job.prompt)
      /\ UNCHANGED <<job, words, pairs, merges, vocab, spelling>>
  BY DEF V1!V1Encode
<1>2. out' = V1!EncodeV1(vocab, merges, job.prompt)'
  BY <1>1
<1>3. HasRows1(vocab, spelling, merges)
  BY DEF V1Inv
<1>4. HasRows1(vocab, spelling, merges)'
  BY <1>1, <1>3 DEF HasRows1, Rows1
<1>. QED  BY <1>1, <1>2, <1>4 DEF V1Inv, Words1, Tables1, Known1, Ones, Letters2
-----------------------------------------------------------------------------
(* Decoding gives the words back.                                          *)

\* Tokens by their numbers, through the table or as unknown.
Number1(v, X) == [t \in X |-> V1!Lookup(v, t)]
Numbers1(v, X) == {v[t] : t \in X}

\* A word's numbers.
Numbered(v, ms, X, C) == [w \in Seq(C) |-> Mapped(Number1(v, X), V1!Apply(ms, w))]

\* Tokens the table has are spelled back from their numbers.
LEMMA NumbersSpell ==
  ASSUME NEW v, NEW sp, Tables1(v, sp), NEW X, X \subseteq DOMAIN v, NEW s, s \in Seq(X)
  PROVE  Mapped(Number1(v, X), s) \in Seq(Numbers1(v, X)) /\ Hom(sp, Mapped(Number1(v, X), s)) = FlattenSeq(s)
<1> DEFINE f == Number1(v, X)
           N == Numbers1(v, X)
           m == Mapped(f, s)
<1>1. ASSUME NEW t \in X PROVE f[t] = v[t] /\ f[t] \in N /\ sp[f[t]] = t
  <2>1. f[t] = V1!Lookup(v, t) /\ t \in DOMAIN v
    BY DEF Number1
  <2>2. f[t] = v[t]
    BY <2>1 DEF V1!Lookup
  <2>. QED  BY <2>1, <2>2 DEF Tables1, Numbers1
<1>2. Into(f, X, N)
  BY <1>1 DEF Into
<1>. HIDE DEF f, N
<1>3. m \in Seq(N)
  BY <1>2, MappedConcat
<1>4. DOMAIN s = 1..Len(s) /\ Len(s) \in Nat /\ \A k \in 1..Len(s) : s[k] \in X
  OBVIOUS
<1>5. m = [k \in 1..Len(s) |-> f[s[k]]]
  BY <1>4 DEF Mapped
<1>6. ASSUME NEW k \in 1..Len(s) PROVE sp[m[k]] = s[k]
  BY <1>1, <1>4, <1>5
<1>7. DOMAIN m = 1..Len(s) /\ s = [k \in 1..Len(s) |-> s[k]]
  BY <1>4, <1>5
<1>8. Mapped(sp, m) = s
  <2>1. Mapped(sp, m) = [k \in 1..Len(s) |-> sp[m[k]]]
    BY <1>7 DEF Mapped
  <2>2. Mapped(sp, m) = [k \in 1..Len(s) |-> s[k]]
    BY <1>6, <2>1
  <2>. QED  BY <1>7, <2>2
<1>9. Hom(sp, m) = FlattenSeq(s)
  BY <1>8 DEF Hom
<1>. QED  BY <1>3, <1>9 DEF f, N

\* The tables know what the words of t, over the letters C, are encoded to.
Ready1(C, ms, v, sp, t) ==
  /\ C \subseteq Byte /\ ms \in Seq(Token1 \X Token1) /\ Tables1(v, sp)
  /\ Known1(C, ms) \subseteq DOMAIN v /\ V1!SplitWords(t) \in Seq(Seq(C))

\* Then it decodes to its words.
LEMMA WordsDecode ==
  ASSUME NEW C, NEW ms, NEW v, NEW sp, NEW t, Ready1(C, ms, v, sp, t)
  PROVE  /\ V1!EncodeV1(v, ms, t) \in Seq(Numbers1(v, Known1(C, ms)))
         /\ Hom(sp, V1!EncodeV1(v, ms, t)) = FlattenSeq(V1!SplitWords(t))
<1>0. /\ C \subseteq Byte /\ ms \in Seq(Token1 \X Token1) /\ Tables1(v, sp)
      /\ Known1(C, ms) \subseteq DOMAIN v /\ V1!SplitWords(t) \in Seq(Seq(C))
  BY DEF Ready1
<1> DEFINE X == Known1(C, ms)
           N == Numbers1(v, X)
           f == Numbered(v, ms, X, C)
           S == Seq(C)
           h == [w \in S |-> w]
           split == V1!SplitWords(t)
<1>1. ASSUME NEW w, w \in S
      PROVE  /\ f[w] = Mapped(Number1(v, X), V1!Apply(ms, w))
             /\ f[w] \in Seq(N) /\ Hom(sp, f[w]) = w
             /\ f[w] = [k \in DOMAIN V1!Apply(ms, w) |-> V1!Lookup(v, V1!Apply(ms, w)[k])]
  <2>1. f[w] = Mapped(Number1(v, X), V1!Apply(ms, w))
    <3>. HIDE DEF X
    <3>. QED  BY <1>1 DEF Numbered
  <2>2. V1!Apply(ms, w) \in Made(X, w)
    BY ONLY <1>0, <1>1, ApplyMade
  <2> DEFINE a == V1!Apply(ms, w)
  <2>3. a \in Seq(X) /\ FlattenSeq(a) = w
    BY <2>2 DEF Made
  <2>. HIDE DEF a, X
  <2>4. Mapped(Number1(v, X), a) \in Seq(Numbers1(v, X)) /\ Hom(sp, Mapped(Number1(v, X), a)) = FlattenSeq(a)
    <3>1. X \subseteq DOMAIN v
      BY <1>0 DEF X
    <3>. QED  BY <1>0, <2>3, <3>1, NumbersSpell
  <2>5. DOMAIN a = 1..Len(a) /\ \A k \in 1..Len(a) : a[k] \in X
    BY <2>3
  <2>6. Mapped(Number1(v, X), a) = [k \in DOMAIN a |-> V1!Lookup(v, a[k])]
    BY <2>5 DEF Mapped, Number1
  <2>. QED  BY <2>1, <2>3, <2>4, <2>6 DEF a
<1>. HIDE DEF f, N, X
<1>2. Gives(f, S, N)
  BY <1>1 DEF Gives
<1>3. Gives(h, S, Byte)
  <2>1. ASSUME NEW w \in S PROVE h[w] \in Seq(Byte)
    <3>1. h[w] = w /\ w \in Seq(C)
      OBVIOUS
    <3>2. w \in Seq(Byte)
      BY ONLY <1>0, <3>1, SeqMono
    <3>. QED  BY <3>1, <3>2
  <2>. HIDE DEF h, S
  <2>. QED  BY <2>1 DEF Gives
<1>4. Gives(sp, N, Byte)
  <2>1. ASSUME NEW i \in N PROVE sp[i] \in Seq(Byte)
    <3>1. PICK x \in X : i = v[x]
      BY DEF N, Numbers1
    <3>2. X \subseteq Token1 /\ X \subseteq DOMAIN v
      BY <1>0, KnownAre DEF X
    <3>3. sp[v[x]] = x
      BY <1>0, <3>2 DEF Tables1
    <3>. QED  BY <3>1, <3>2, <3>3 DEF Token1
  <2>. QED  BY <2>1 DEF Gives
<1>5. split \in Seq(S)
  BY <1>0
<1>6. \A w \in S : Hom(sp, f[w]) = h[w]
  BY <1>1
<1>7. V1!EncodeV1(v, ms, t) = Hom(f, split)
  <2> DEFINE b == [n \in DOMAIN split |->
                     LET w == V1!Apply(ms, split[n]) IN [k \in DOMAIN w |-> V1!Lookup(v, w[k])]]
  <2>1. V1!EncodeV1(v, ms, t) = V1!FlattenSeq(b)
    BY DEF V1!EncodeV1
  <2>2. DOMAIN split = 1..Len(split) /\ \A n \in 1..Len(split) : split[n] \in S
    <3>. HIDE DEF S, split
    <3>. QED  BY <1>5
  <2>3. ASSUME NEW n \in DOMAIN split
        PROVE  f[split[n]] = LET w == V1!Apply(ms, split[n]) IN [k \in DOMAIN w |-> V1!Lookup(v, w[k])]
    <3>1. split[n] \in S
      BY <2>2
    <3>. HIDE DEF S, split
    <3>. QED  BY <1>1, <3>1
  <2>4. b = Mapped(f, split)
    <3>. HIDE DEF split
    <3>. QED  BY <2>3 DEF Mapped
  <2>5. V1!FlattenSeq(b) = FlattenSeq(b)
    BY V1Library
  <2>. QED  BY <2>1, <2>4, <2>5 DEF Hom
<1>8. Hom(h, split) = FlattenSeq(split)
  <2>1. DOMAIN split = 1..Len(split) /\ (\A n \in 1..Len(split) : split[n] \in S) /\ split = [n \in 1..Len(split) |-> split[n]]
    <3>. HIDE DEF S, split
    <3>. QED  BY <1>5
  <2>2. Mapped(h, split) = [n \in 1..Len(split) |-> split[n]]
    <3>. HIDE DEF split
    <3>. QED  BY <2>1 DEF Mapped
  <2>. QED  BY <2>1, <2>2 DEF Hom
<1>9. Hom(f, split) \in Seq(N)
  <2>. HIDE DEF S, split
  <2>. QED  BY <1>2, <1>5, HomConcat
<1>10. Hom(sp, Hom(f, split)) = Hom(h, split)
  <2>. HIDE DEF S, split, h
  <2>. QED  BY <1>2, <1>3, <1>4, <1>5, <1>6, HomOfHom
<1>. QED  BY <1>7, <1>8, <1>9, <1>10 DEF N, X

\* A prompt of known characters decodes to its words.
LEMMA WordsComeBack == ASSUME V1Inv PROVE V1!WordsSurvive
<1> DEFINE split == V1!SplitWords(job.prompt)
           known == \A i \in DOMAIN job.prompt : job.prompt[i] \in V1!Blank \cup V1!ToSet(job.text)
           plain == V1!FlattenSeq(split)
<1> SUFFICES ASSUME pc = "trained", known
             PROVE  V1!DecodeV1(spelling, out) = [i \in DOMAIN plain |-> IF plain[i] = V1!Underscore THEN 32 ELSE plain[i]]
  BY DEF V1!WordsSurvive
<1>1. /\ merges \in Seq(Token1 \X Token1) /\ Tables1(vocab, spelling) /\ Known1(Letters2, merges) \subseteq DOMAIN vocab
      /\ out = V1!EncodeV1(vocab, merges, job.prompt) /\ job \in Jobs
  BY DEF V1Inv
<1>2. Letters2 \subseteq Byte /\ job.prompt \in Seq(Byte)
  BY <1>1, LettersAre
<1>3. split \in Seq(Seq(Letters2))
  <2>1. split \in Seq(Seq(Letters1(job.prompt)))
    BY <1>2, WordsAre
  <2>2. Letters1(job.prompt) \subseteq Letters2
    <3>1. V1!ToSet(job.text) = ToSet(job.text)
      BY V1Library
    <3>. QED  BY <3>1 DEF Letters1, Letters2, ToSet
  <2> DEFINE A == Seq(Letters1(job.prompt))
             B == Seq(Letters2)
  <2>3. ASSUME NEW w, w \in A PROVE w \in B
    <3>1. w \in Seq(Letters1(job.prompt))
      BY <2>3
    <3>2. w \in Seq(Letters2)
      BY ONLY <2>2, <3>1, SeqMono
    <3>. QED  BY <3>2
  <2>4. split \in Seq(A)
    BY <2>1
  <2>. HIDE DEF A, B, split
  <2>5. A \subseteq B
    BY <2>3
  <2>6. split \in Seq(B)
    BY ONLY <2>4, <2>5, SeqMono
  <2>. QED  BY <2>6 DEF B
<1>4. Hom(spelling, out) = FlattenSeq(split)
  <2>1. Ready1(Letters2, merges, vocab, spelling, job.prompt)
    BY <1>1, <1>2, <1>3 DEF Ready1
  <2>2. Hom(spelling, V1!EncodeV1(vocab, merges, job.prompt)) = FlattenSeq(V1!SplitWords(job.prompt))
    BY ONLY <2>1, WordsDecode
  <2>. QED  BY <1>1, <2>2
<1>5. V1!FlattenSeq([k \in DOMAIN out |-> spelling[out[k]]]) = plain
  <2>1. V1!FlattenSeq([k \in DOMAIN out |-> spelling[out[k]]]) = FlattenSeq([k \in DOMAIN out |-> spelling[out[k]]])
    BY V1Library
  <2>2. plain = FlattenSeq(split)
    BY V1Library
  <2>. QED  BY <1>4, <2>1, <2>2 DEF Hom, Mapped
<1>. QED  BY <1>5, Zenon DEF V1!DecodeV1

\* Encoding agrees with training.
LEMMA WordsAgreeIs == ASSUME V1Inv PROVE V1!WordsAgree
BY DEF V1Inv, Words1, V1!WordsAgree
-----------------------------------------------------------------------------
(* The cache file.                                                         *)

\* s lists the elements of S, each once.
ListsOnce(s, S) ==
  /\ s \in Seq(S) /\ \A x \in S : \E k \in 1..Len(s) : s[k] = x
  /\ \A j, k \in 1..Len(s) : s[j] = s[k] => j = k

\* The tokens in the order they are saved in.
SavedOrder(v) ==
  [k \in DOMAIN V1!InOrder(V1!Range(v)) |-> CHOOSE t \in DOMAIN v : v[t] = V1!InOrder(V1!Range(v))[k]]

\* It lists the vocabulary.
LEMMA OrderLists == ASSUME NEW v, NEW sp, Tables1(v, sp) PROVE ListsOnce(SavedOrder(v), DOMAIN v)
<1> DEFINE R == V1!Range(v)
           ids == V1!InOrder(R)
           D == DOMAIN v
           order == SavedOrder(v)
<1>1. R = {v[t] : t \in D}
  <2>1. V1!Range(v) = Range(v)
    BY V1Library
  <2>. QED  BY <2>1 DEF Range
<1>2. R \subseteq Int
  <2>1. PICK n \in Nat : DOMAIN sp = 0..(n - 1)
    BY DEF Tables1
  <2>2. \A t \in D : v[t] \in DOMAIN sp
    BY DEF Tables1
  <2>. QED  BY <1>1, <2>1, <2>2
<1>3. IsFiniteSet(R)
  <2> DEFINE g == [t \in D |-> v[t]]
  <2>1. IsFiniteSet(D)
    BY DEF Tables1
  <2>2. g \in Surjection(D, R)
    <3>. HIDE DEF D, R
    <3>1. g \in [D -> R]
      BY <1>1
    <3>2. \A s \in R : \E i \in D : g[i] = s
      BY <1>1
    <3>. HIDE DEF g
    <3>. QED  BY <3>1, <3>2 DEF Surjection
  <2>. HIDE DEF D, R, g
  <2>. QED  BY <2>1, <2>2, FS_Surjection
<1>4. ListsAll(ids, R)
  <2>. HIDE DEF R
  <2>. QED  BY <1>2, <1>3, InOrderLists
<1>5. order = [k \in DOMAIN ids |-> CHOOSE t \in D : v[t] = ids[k]]
  BY DEF SavedOrder
<1> DEFINE n == Len(ids)
<1>. HIDE DEF R, ids
<1>6. /\ n \in Nat /\ DOMAIN ids = 1..n /\ (\A k \in 1..n : ids[k] \in R)
      /\ (\A x \in R : \E k \in 1..n : ids[k] = x) /\ \A j, k \in 1..n : ids[j] = ids[k] => j = k
  BY <1>4 DEF ListsAll
<1>7. ASSUME NEW k \in 1..n PROVE order[k] \in D /\ v[order[k]] = ids[k]
  <2>1. \E t \in D : v[t] = ids[k]
    BY <1>1, <1>6
  <2>. HIDE DEF D
  <2>. QED  BY <1>5, <1>6, <2>1
<1>8. \A t, u \in D : v[t] = v[u] => t = u
  <2>1. \A t \in D : sp[v[t]] = t
    BY DEF Tables1
  <2>. HIDE DEF D
  <2>. QED  BY <2>1
<1>. HIDE DEF order, D
<1>9. order \in [1..n -> D]
  BY <1>5, <1>6, <1>7
<1>10. order \in Seq(D) /\ Len(order) = n
  <2>. HIDE DEF n
  <2>. QED  BY <1>6, <1>9, FunIsSeq
<1>11. ASSUME NEW t \in D PROVE \E k \in 1..n : order[k] = t
  <2>1. v[t] \in R
    BY <1>1
  <2>2. PICK k \in 1..n : ids[k] = v[t]
    BY <1>6, <2>1
  <2>3. order[k] = t
    BY <1>7, <1>8, <2>2
  <2>. QED  BY <2>3
<1>12. ASSUME NEW j \in 1..n, NEW k \in 1..n, order[j] = order[k] PROVE j = k
  <2>1. ids[j] = ids[k]
    BY <1>7, <1>12
  <2>. QED  BY <1>6, <2>1
<1>. QED  BY <1>10, <1>11, <1>12 DEF ListsOnce, order, D

\* f has the fields of vocabulary v, saved in the given order, and of merges ms.
Saved1(f, order, v, ms) ==
  /\ Len(order) \in Nat /\ Len(ms) \in Nat
  /\ Len(f) = 2 * Len(order) + 2 + 2 * Len(ms)
  /\ f[1] = Len(order) /\ f[2 * Len(order) + 2] = Len(ms)
  /\ \A k \in 1..Len(order) : f[2 * k] = order[k] /\ f[2 * k + 1] = v[order[k]]
  /\ \A k \in 1..Len(ms) : f[2 * Len(order) + 2 * k + 1] = ms[k][1] /\ f[2 * Len(order) + 2 * k + 2] = ms[k][2]

\* f is a, then the n fields of x, then b, then the m fields of y, all of S.
FourIn(f, S, a, x, b, y, n, m) ==
  /\ a \in S /\ b \in S /\ x \in Seq(S) /\ y \in Seq(S)
  /\ f = ((<<a>> \o x) \o <<b>>) \o y /\ n = Len(x) /\ m = Len(y)

\* And where each of them stands.
FourAt(f, S, a, x, b, y, n, m) ==
  /\ f \in Seq(S) /\ n \in Nat /\ m \in Nat /\ Len(f) = n + m + 2 /\ f[1] = a /\ f[n + 2] = b
  /\ \A i \in 1..n : f[1 + i] = x[i]
  /\ \A i \in 1..m : f[n + 2 + i] = y[i]

\* Four sequences in a row, the first and third of one field.
LEMMA FourInRow ==
  ASSUME NEW S, NEW a, NEW x, NEW b, NEW y, NEW f, NEW n, NEW m, FourIn(f, S, a, x, b, y, n, m)
  PROVE  FourAt(f, S, a, x, b, y, n, m)
<1>. USE DEF FourIn
<1> DEFINE o == <<a>>
           l == <<b>>
           u == o \o x
           w == u \o l
<1>1. o \in Seq(S) /\ Len(o) = 1 /\ o[1] = a /\ l \in Seq(S) /\ Len(l) = 1 /\ l[1] = b /\ n \in Nat /\ m \in Nat
  OBVIOUS
<1>2. f = w \o y
  OBVIOUS
<1>. HIDE DEF o, l
<1>3. InRow(S, o, x)
  BY <1>1, Behind
<1>4. u \in Seq(S) /\ Len(u) = 1 + n /\ u[1] = a /\ \A i \in 1..n : u[1 + i] = x[i]
  <2>1. 1 \in 1..Len(o)
    BY <1>1
  <2>. QED  BY <1>1, <1>3, <2>1 DEF InRow
<1>. HIDE DEF u
<1>5. InRow(S, u, l)
  BY <1>1, <1>4, Behind
<1>6. w \in Seq(S) /\ Len(w) = n + 2 /\ w[n + 2] = b /\ \A i \in 1..(n + 1) : w[i] = u[i]
  <2>1. 1 \in 1..Len(l)
    BY <1>1
  <2>2. w[Len(u) + 1] = l[1] /\ Len(w) = Len(u) + Len(l) /\ w \in Seq(S) /\ \A i \in 1..Len(u) : w[i] = u[i]
    BY <1>5, <2>1 DEF InRow
  <2>3. Len(u) = n + 1 /\ Len(u) + 1 = n + 2 /\ Len(u) + Len(l) = n + 2
    BY <1>1, <1>4
  <2>. QED  BY <1>1, <2>2, <2>3
<1>. HIDE DEF w
<1>7. InRow(S, w, y)
  BY <1>6, Behind
<1>8. f \in Seq(S) /\ Len(f) = n + m + 2 /\ (\A i \in 1..(n + 2) : f[i] = w[i]) /\ \A i \in 1..m : f[n + 2 + i] = y[i]
  BY <1>1, <1>2, <1>6, <1>7 DEF InRow
<1>9. f[1] = a
  <2>1. 1 \in 1..(n + 1) /\ 1 \in 1..(n + 2)
    BY <1>1
  <2>. QED  BY <1>4, <1>6, <1>8, <2>1
<1>10. f[n + 2] = b
  <2>1. n + 2 \in 1..(n + 2)
    BY <1>1
  <2>. QED  BY <1>6, <1>8, <2>1
<1>11. ASSUME NEW i \in 1..n PROVE f[1 + i] = x[i]
  <2> DEFINE j == 1 + i
  <2>1. j \in 1..(n + 1) /\ j \in 1..(n + 2)
    BY <1>1
  <2>2. u[j] = x[i]
    BY <1>4
  <2>. HIDE DEF j
  <2>3. f[j] = x[i]
    BY <1>6, <1>8, <2>1, <2>2
  <2>. QED  BY <2>3 DEF j
<1>. QED  BY <1>1, <1>8, <1>9, <1>10, <1>11 DEF FourAt

\* Pairs of tokens as sequences.
LEMMA PairsAreSeqs1 ==
  ASSUME NEW ms, ms \in Seq(Token1 \X Token1), NEW S, Token1 \subseteq S
  PROVE  ms \in Seq(Seq(S)) /\ EachLong(ms, 2) /\ \A r \in 1..Len(ms) : ms[r] = <<ms[r][1], ms[r][2]>>
<1> DEFINE P == Token1 \X Token1
           Q == Seq(S)
<1>1. ASSUME NEW p \in P PROVE p \in Q /\ Len(p) = 2 /\ p = <<p[1], p[2]>>
  <2>1. PICK a \in Token1, b \in Token1 : p = <<a, b>>
    OBVIOUS
  <2>2. a \in S /\ b \in S
    OBVIOUS
  <2>3. <<a, b>> \in Seq(S) /\ Len(<<a, b>>) = 2 /\ <<a, b>>[1] = a /\ <<a, b>>[2] = b
    BY <2>2
  <2>. QED  BY <2>1, <2>3
<1>2. ms \in Seq(P)
  OBVIOUS
<1> HIDE DEF P, Q
<1>3. P \subseteq Q
  BY <1>1
<1>4. ms \in Seq(Q)
  BY <1>2, <1>3, SeqMono
<1>5. \A r \in 1..Len(ms) : ms[r] \in P
  BY <1>2, ElementOfSeq
<1>. QED  BY <1>1, <1>4, <1>5 DEF Q, EachLong

\* What save() writes for vocabulary v, in the given order, and merges ms.
Written1(f, order, v, ms) ==
  f = ((<<Len(order)>> \o FlattenSeq([k \in DOMAIN order |-> <<order[k], v[order[k]]>>])) \o <<Len(ms)>>) \o FlattenSeq(ms)

\* A file has a number of fields.
IsFile1(f) == \E T : f \in Seq(T)

\* save() leaves every field in its place.
LEMMA FileHas1 ==
  ASSUME NEW v, NEW order, ListsOnce(order, DOMAIN v), NEW ms, ms \in Seq(Token1 \X Token1),
         NEW f, Written1(f, order, v, ms)
  PROVE  Saved1(f, order, v, ms) /\ IsFile1(f)
<1> DEFINE n == Len(order)
           m == Len(ms)
           z == [k \in DOMAIN order |-> <<order[k], v[order[k]]>>]
           D == DOMAIN v
           S == Nat \cup D \cup Token1 \cup {v[t] : t \in D}
           x == FlattenSeq(z)
           y == FlattenSeq(ms)
<1>1. n \in Nat /\ m \in Nat /\ DOMAIN order = 1..n /\ \A k \in 1..n : order[k] \in D
  BY DEF ListsOnce
<1>2. n \in S /\ m \in S /\ Token1 \subseteq S /\ \A k \in 1..n : order[k] \in S /\ v[order[k]] \in S
  BY <1>1
<1>. HIDE DEF S, D
<1>3. ASSUME NEW k \in 1..n
      PROVE  z[k] \in Seq(S) /\ Len(z[k]) = 2 /\ z[k][1] = order[k] /\ z[k][2] = v[order[k]]
  <2> DEFINE a == order[k]
             b == v[order[k]]
  <2>1. z[k] = <<a, b>> /\ a \in S /\ b \in S
    BY <1>1, <1>2
  <2>. HIDE DEF a, b
  <2>2. <<a, b>> \in Seq(S) /\ Len(<<a, b>>) = 2 /\ <<a, b>>[1] = a /\ <<a, b>>[2] = b
    BY <2>1
  <2>. QED  BY <2>1, <2>2 DEF a, b
<1>4. DOMAIN z = 1..n /\ z = [k \in 1..n |-> z[k]]
  BY <1>1
<1>. HIDE DEF z
<1>5. z \in Seq(Seq(S)) /\ Len(z) = n
  <2> DEFINE Q == Seq(S)
  <2>1. \A k \in 1..n : z[k] \in Q
    BY <1>3
  <2>. HIDE DEF Q, n
  <2>2. z \in [1..n -> Q]
    BY <1>4, <2>1
  <2>3. z \in Seq(Q) /\ Len(z) = n
    BY <1>1, <2>2, FunIsSeq
  <2>. QED  BY <2>3 DEF Q
<1>6. EachLong(z, 2)
  BY <1>3, <1>5 DEF EachLong
<1>7. x \in Seq(S) /\ Len(x) = 2 * n /\ \A k \in 1..n : x[2 * k - 1] = order[k] /\ x[2 * k] = v[order[k]]
  <2>1. FlattenTwosAt(S, z)
    BY <1>5, <1>6, FlattenTwos
  <2>. QED  BY <1>3, <1>5, <2>1 DEF FlattenTwosAt
<1>8. y \in Seq(S) /\ Len(y) = 2 * m /\ \A k \in 1..m : y[2 * k - 1] = ms[k][1] /\ y[2 * k] = ms[k][2]
  <2>1. ms \in Seq(Seq(S)) /\ EachLong(ms, 2)
    BY <1>2, PairsAreSeqs1
  <2>2. FlattenTwosAt(S, ms)
    BY <2>1, FlattenTwos
  <2>. QED  BY <2>2 DEF FlattenTwosAt
<1>9. f = ((<<n>> \o x) \o <<m>>) \o y
  BY DEF z, Written1
<1>. HIDE DEF x, y, n, m
<1> DEFINE a == 2 * n
           b == 2 * m
<1>10. a = Len(x) /\ b = Len(y) /\ a \in Nat /\ b \in Nat
  BY <1>1, <1>7, <1>8
<1>. HIDE DEF a, b
<1>11. /\ f \in Seq(S) /\ Len(f) = a + b + 2 /\ f[1] = n /\ f[a + 2] = m
       /\ \A i \in 1..a : f[1 + i] = x[i]
       /\ \A i \in 1..b : f[a + 2 + i] = y[i]
  <2>1. FourIn(f, S, n, x, m, y, a, b)
    BY <1>2, <1>7, <1>8, <1>9, <1>10 DEF FourIn
  <2>2. FourAt(f, S, n, x, m, y, a, b)
    BY ONLY <2>1, FourInRow
  <2>. QED  BY <2>2 DEF FourAt
<1>12. ASSUME NEW k \in 1..n PROVE f[2 * k] = order[k] /\ f[2 * k + 1] = v[order[k]]
  <2>1. 2 * k - 1 \in 1..a /\ 2 * k \in 1..a /\ 1 + (2 * k - 1) = 2 * k /\ 1 + 2 * k = 2 * k + 1
    BY <1>1 DEF a
  <2>2. f[1 + (2 * k - 1)] = x[2 * k - 1] /\ f[1 + 2 * k] = x[2 * k]
    BY <1>11, <2>1
  <2>. QED  BY <1>7, <2>1, <2>2
<1>13. ASSUME NEW k \in 1..m PROVE f[a + 2 * k + 1] = ms[k][1] /\ f[a + 2 * k + 2] = ms[k][2]
  <2>1. 2 * k - 1 \in 1..b /\ 2 * k \in 1..b /\ a + 2 + (2 * k - 1) = a + 2 * k + 1 /\ a + 2 + 2 * k = a + 2 * k + 2
    BY <1>1, <1>10 DEF b
  <2>2. f[a + 2 + (2 * k - 1)] = y[2 * k - 1] /\ f[a + 2 + 2 * k] = y[2 * k]
    BY <1>11, <2>1
  <2>. QED  BY <1>8, <2>1, <2>2
<1>14. Len(f) = 2 * n + 2 + 2 * m
  BY <1>1, <1>11 DEF a, b
<1>. QED  BY <1>1, <1>11, <1>12, <1>13, <1>14 DEF Saved1, IsFile1, n, m, a

\* The table that load() makes anew.
LoadedTable(v, sp) == [id \in {v[t] : t \in DOMAIN v} |-> sp[id]]

\* A whole file is read back.
LEMMA ReadsBack ==
  ASSUME NEW v, v = [t \in DOMAIN v |-> v[t]], NEW order, ListsOnce(order, DOMAIN v),
         NEW ms, ms \in Seq(Token1 \X Token1), NEW f, Saved1(f, order, v, ms),
         NEW sp, \A t \in DOMAIN v : sp[v[t]] = t
  PROVE  V1!LoadV1(f) = [vocab |-> v, spelling |-> LoadedTable(v, sp), merges |-> ms]
<1> DEFINE n == f[1]
           m == f[2 * n + 2]
           vs == [t \in {f[2 * k] : k \in 1..n} |-> f[2 * (CHOOSE k \in 1..n : f[2 * k] = t) + 1]]
           ts == [id \in {f[2 * k + 1] : k \in 1..n} |-> f[2 * (CHOOSE k \in 1..n : f[2 * k + 1] = id)]]
           us == [k \in 1..m |-> <<f[2 * n + 2 * k + 1], f[2 * n + 2 * k + 2]>>]
<1>1. /\ n = Len(order) /\ n \in Nat /\ m = Len(ms) /\ m \in Nat /\ Len(f) = 2 * n + 2 + 2 * m
      /\ \A k \in 1..n : f[2 * k] = order[k] /\ f[2 * k + 1] = v[order[k]]
      /\ \A k \in 1..m : f[2 * n + 2 * k + 1] = ms[k][1] /\ f[2 * n + 2 * k + 2] = ms[k][2]
  BY DEF Saved1
<1>2. V1!LoadV1(f) = IF Len(f) >= 1 /\ Len(f) >= 2 * n + 2 /\ Len(f) >= 2 * n + 2 + 2 * m
                     THEN [vocab |-> vs, spelling |-> ts, merges |-> us] ELSE "refused"
  BY DEF V1!LoadV1
<1>3. Len(f) >= 1 /\ Len(f) >= 2 * n + 2 /\ Len(f) >= 2 * n + 2 + 2 * m
  BY <1>1
<1>. HIDE DEF n, m
<1>4. vs = v
  <2>0. (\A k \in 1..n : order[k] \in DOMAIN v) /\ \A t \in DOMAIN v : \E k \in 1..n : order[k] = t
    BY <1>1 DEF ListsOnce
  <2>1. {f[2 * k] : k \in 1..n} = DOMAIN v
    <3>1. \A k \in 1..n : f[2 * k] \in DOMAIN v
      BY <1>1, <2>0
    <3>2. ASSUME NEW t \in DOMAIN v PROVE t \in {f[2 * k] : k \in 1..n}
      <4>1. PICK k \in 1..n : order[k] = t
        BY <2>0
      <4>2. f[2 * k] = t
        BY <1>1, <4>1
      <4>. QED  BY <4>2
    <3>. QED  BY <3>1, <3>2
  <2>2. ASSUME NEW t \in DOMAIN v PROVE f[2 * (CHOOSE k \in 1..n : f[2 * k] = t) + 1] = v[t]
    <3>1. \E k \in 1..n : f[2 * k] = t
      BY <1>1 DEF ListsOnce
    <3> DEFINE c == CHOOSE k \in 1..n : f[2 * k] = t
    <3>2. c \in 1..n /\ f[2 * c] = t
      BY <3>1
    <3>. HIDE DEF c
    <3>3. f[2 * c + 1] = v[t]
      BY <1>1, <3>2
    <3>. QED  BY <3>3 DEF c
  <2>3. vs = [t \in DOMAIN v |-> v[t]]
    BY <2>1, <2>2
  <2>. QED  BY <2>3
<1>5. us = ms
  <2>1. \A r \in 1..Len(ms) : ms[r] = <<ms[r][1], ms[r][2]>>
    BY PairsAreSeqs1
  <2>2. us = [k \in 1..m |-> ms[k]]
    BY <1>1, <2>1
  <2>3. ms = [k \in 1..m |-> ms[k]]
    BY <1>1
  <2>. QED  BY <2>2, <2>3
<1>6. ts = LoadedTable(v, sp)
  <2> DEFINE R == {v[t] : t \in DOMAIN v}
  <2>0. (\A k \in 1..n : order[k] \in DOMAIN v) /\ \A t \in DOMAIN v : \E k \in 1..n : order[k] = t
    BY <1>1 DEF ListsOnce
  <2>1. {f[2 * k + 1] : k \in 1..n} = R
    <3>1. \A k \in 1..n : f[2 * k + 1] \in R
      BY <1>1, <2>0
    <3>2. ASSUME NEW t \in DOMAIN v PROVE v[t] \in {f[2 * k + 1] : k \in 1..n}
      <4>1. PICK k \in 1..n : order[k] = t
        BY <2>0
      <4>2. f[2 * k + 1] = v[t]
        BY <1>1, <4>1
      <4>. QED  BY <4>2
    <3>. QED  BY <3>1, <3>2
  <2>2. ASSUME NEW id \in R PROVE f[2 * (CHOOSE k \in 1..n : f[2 * k + 1] = id)] = sp[id]
    <3>1. \E k \in 1..n : f[2 * k + 1] = id
      BY <2>1
    <3> DEFINE c == CHOOSE k \in 1..n : f[2 * k + 1] = id
    <3>2. c \in 1..n /\ f[2 * c + 1] = id
      BY <3>1
    <3>. HIDE DEF c
    <3>3. f[2 * c] = order[c] /\ v[order[c]] = id /\ order[c] \in DOMAIN v
      BY <1>1, <2>0, <3>2
    <3>4. sp[id] = order[c]
      BY <3>3
    <3>. QED  BY <3>3, <3>4 DEF c
  <2>3. ts = [id \in R |-> sp[id]]
    BY <2>1, <2>2
  <2>. QED  BY <2>3 DEF LoadedTable
<1>. HIDE DEF vs, ts, us
<1>. QED  BY <1>2, <1>3, <1>4, <1>5, <1>6

\* A file cut short is refused.
LEMMA CutRefused1 ==
  ASSUME NEW v, NEW order, NEW ms, NEW f, Saved1(f, order, v, ms), NEW S, f \in Seq(S),
         NEW i, i \in 0..(Len(f) - 1)
  PROVE  V1!LoadV1(SubSeq(f, 1, i)) = "refused"
<1> DEFINE g == SubSeq(f, 1, i)
           n == Len(order)
           m == Len(ms)
<1>1. Len(f) \in Nat /\ i \in 0..Len(f) /\ i < Len(f) /\ i \in Nat
  OBVIOUS
<1>2. Len(g) = i /\ \A j \in 1..i : g[j] = f[j]
  BY <1>1, PrefixIs
<1>3. n \in Nat /\ m \in Nat /\ Len(f) = 2 * n + 2 + 2 * m /\ f[1] = n /\ f[2 * n + 2] = m
  BY DEF Saved1
<1>. HIDE DEF g, n, m
<1>4. ~ (Len(g) >= 1 /\ Len(g) >= 2 * g[1] + 2 /\ Len(g) >= 2 * g[1] + 2 + 2 * g[2 * g[1] + 2])
  <2> SUFFICES ASSUME Len(g) >= 1, Len(g) >= 2 * g[1] + 2, Len(g) >= 2 * g[1] + 2 + 2 * g[2 * g[1] + 2] PROVE FALSE
    OBVIOUS
  <2>1. g[1] = n
    BY <1>1, <1>2, <1>3
  <2>2. 2 * n + 2 \in 1..i
    BY <1>1, <1>2, <1>3, <2>1
  <2>3. g[2 * n + 2] = m
    BY <1>2, <1>3, <2>2
  <2>4. i >= 2 * n + 2 + 2 * m
    BY <1>2, <2>1, <2>3
  <2>. QED  BY <1>1, <1>3, <2>4
<1>5. V1!LoadV1(g) = "refused"
  BY <1>4 DEF V1!LoadV1
<1>. QED  BY <1>5 DEF g

\* The first one's ids are unk's or are in the vocabulary, whatever the words.
LEMMA NumbersWithin ==
  ASSUME NEW ms, ms \in Seq(Token1 \X Token1), NEW v, NEW t, t \in Seq(Byte),
         NEW N, 2 \in N, \A x \in DOMAIN v : v[x] \in N
  PROVE  V1!EncodeV1(v, ms, t) \in Seq(N)
<1> DEFINE C == Letters1(t)
           X == Known1(C, ms)
           f == Numbered(v, ms, X, C)
           S == Seq(C)
           split == V1!SplitWords(t)
<1>1. split \in Seq(S) /\ C \subseteq Byte
  BY WordsAre
<1>2. ASSUME NEW x PROVE V1!Lookup(v, x) \in N
  BY DEF V1!Lookup
<1>3. ASSUME NEW w, w \in S
      PROVE  f[w] \in Seq(N) /\ f[w] = [k \in DOMAIN V1!Apply(ms, w) |-> V1!Lookup(v, V1!Apply(ms, w)[k])]
  <2>1. f[w] = Mapped(Number1(v, X), V1!Apply(ms, w))
    <3>. HIDE DEF X
    <3>. QED  BY <1>3 DEF Numbered
  <2>2. V1!Apply(ms, w) \in Made(X, w)
    <3>1. w \in Seq(C)
      BY <1>3
    <3>. HIDE DEF C
    <3>2. V1!Apply(ms, w) \in Made(Known1(C, ms), w)
      BY <1>1, <3>1, ApplyMade
    <3>. QED  BY <3>2
  <2> DEFINE a == V1!Apply(ms, w)
  <2>3. a \in Seq(X)
    BY <2>2 DEF Made
  <2>. HIDE DEF a, X
  <2>4. DOMAIN a = 1..Len(a) /\ Len(a) \in Nat /\ \A k \in 1..Len(a) : a[k] \in X
    BY <2>3
  <2>5. Mapped(Number1(v, X), a) = [k \in DOMAIN a |-> V1!Lookup(v, a[k])]
    BY <2>4 DEF Mapped, Number1
  <2>6. Mapped(Number1(v, X), a) \in [1..Len(a) -> N]
    BY <1>2, <2>4, <2>5
  <2> DEFINE m == Mapped(Number1(v, X), a)
             l == Len(a)
  <2>7. m \in [1..l -> N] /\ l \in Nat
    BY <2>4, <2>6
  <2>. HIDE DEF m, l
  <2>8. m \in Seq(N)
    BY <2>7, FunIsSeq
  <2>. QED  BY <2>1, <2>5, <2>8 DEF a, m
<1>. HIDE DEF f, X, C
<1>4. Gives(f, S, N)
  BY <1>3 DEF Gives
<1>5. V1!EncodeV1(v, ms, t) = Hom(f, split)
  <2> DEFINE b == [n \in DOMAIN split |->
                     LET w == V1!Apply(ms, split[n]) IN [k \in DOMAIN w |-> V1!Lookup(v, w[k])]]
  <2>1. V1!EncodeV1(v, ms, t) = V1!FlattenSeq(b)
    BY DEF V1!EncodeV1
  <2>2. DOMAIN split = 1..Len(split) /\ \A n \in 1..Len(split) : split[n] \in S
    <3>. HIDE DEF S, split
    <3>. QED  BY <1>1
  <2>3. ASSUME NEW n \in DOMAIN split
        PROVE  f[split[n]] = LET w == V1!Apply(ms, split[n]) IN [k \in DOMAIN w |-> V1!Lookup(v, w[k])]
    <3>1. split[n] \in S
      BY <2>2
    <3>. HIDE DEF S, split
    <3>. QED  BY <1>3, <3>1
  <2>4. b = Mapped(f, split)
    <3>. HIDE DEF split
    <3>. QED  BY <2>3 DEF Mapped
  <2>5. V1!FlattenSeq(b) = FlattenSeq(b)
    BY V1Library
  <2>. QED  BY <2>1, <2>4, <2>5 DEF Hom
<1>6. Hom(f, split) \in Seq(N)
  <2>. HIDE DEF S, split
  <2>. QED  BY <1>1, <1>4, HomConcat
<1>. QED  BY <1>5, <1>6

\* They are numbers.
LEMMA NumbersAre ==
  ASSUME NEW ms, ms \in Seq(Token1 \X Token1), NEW v, NEW sp, Tables1(v, sp), NEW t, t \in Seq(Byte)
  PROVE  V1!EncodeV1(v, ms, t) \in Seq(Nat)
<1>1. PICK n \in Nat : DOMAIN sp = 0..(n - 1)
  BY DEF Tables1
<1>2. \A x \in DOMAIN v : v[x] \in Nat
  BY <1>1 DEF Tables1
<1>3. 2 \in Nat
  OBVIOUS
<1>. QED  BY ONLY <1>2, <1>3, NumbersWithin, ms \in Seq(Token1 \X Token1), t \in Seq(Byte)

\* Two merges make the same token.
Twice1(ms) == \E j, k \in 1..Len(ms) : j # k /\ V1!Joined(ms[j]) = V1!Joined(ms[k])

\* No two numbers are spelled alike, unless a token was merged twice.
LEMMA RowsDiffer ==
  ASSUME NEW v, NEW sp, NEW ms, ms \in Seq(Token1 \X Token1), NEW b, Rows1(v, sp, ms, b), ~Twice1(ms)
  PROVE  \A i, j \in DOMAIN sp : sp[i] = sp[j] => i = j
<1> DEFINE l == Len(ms)
<1>1. /\ b \in Nat /\ l \in Nat /\ DOMAIN sp = 0..(b + l - 1)
      /\ \A i \in 0..(b - 1) : Len(sp[i]) = 1
      /\ \A i, j \in 0..(b - 1) : sp[i] = sp[j] => i = j
      /\ \A k \in 1..l : sp[b + k - 1] = V1!Joined(ms[k])
  BY DEF Rows1
<1>2. ASSUME NEW k \in 1..l PROVE Len(V1!Joined(ms[k])) # 1
  <2>1. ms[k] \in Token1 \X Token1
    OBVIOUS
  <2>2. PICK x \in Token1, y \in Token1 : ms[k] = <<x, y>>
    BY <2>1
  <2>3. V1!Joined(ms[k]) = x \o y
    BY <2>2 DEF V1!Joined
  <2>4. x \in Seq(Byte) /\ y \in Seq(Byte) /\ Len(x) > 0 /\ Len(y) > 0
    BY DEF Token1
  <2>. QED  BY <2>3, <2>4
<1>3. \A j, k \in 1..l : V1!Joined(ms[j]) = V1!Joined(ms[k]) => j = k
  BY DEF Twice1
<1>. HIDE DEF l
<1>4. ASSUME NEW i \in DOMAIN sp
      PROVE  i \in 0..(b - 1) \/ \E k \in 1..l : i = b + k - 1
  <2>1. b \in Nat /\ l \in Nat /\ i \in 0..(b + l - 1)
    BY <1>1
  <2>2. CASE i < b
    BY ONLY <2>1, <2>2
  <2>3. CASE ~ (i < b)
    <3>1. i - b + 1 \in 1..l /\ i = b + (i - b + 1) - 1
      BY ONLY <2>1, <2>3
    <3>. QED  BY <3>1
  <2>. QED  BY <2>2, <2>3
<1>5. ASSUME NEW i \in DOMAIN sp, NEW j \in DOMAIN sp, sp[i] = sp[j] PROVE i = j
  <2>1. CASE i \in 0..(b - 1) /\ j \in 0..(b - 1)
    BY <1>1, <1>5, <2>1
  <2>2. CASE \E k \in 1..l : i = b + k - 1
    <3>1. PICK k \in 1..l : i = b + k - 1
      BY <2>2
    <3>2. sp[i] = V1!Joined(ms[k]) /\ Len(sp[i]) # 1
      BY <1>1, <1>2, <3>1
    <3>3. j \notin 0..(b - 1)
      BY <1>1, <1>5, <3>2
    <3>4. PICK m \in 1..l : j = b + m - 1
      BY <1>4, <3>3
    <3>5. sp[j] = V1!Joined(ms[m])
      BY <1>1, <3>4
    <3>6. k = m
      BY <1>3, <1>5, <3>2, <3>5
    <3>. QED  BY <3>1, <3>4, <3>6
  <2>3. CASE \E k \in 1..l : j = b + k - 1
    <3>1. PICK k \in 1..l : j = b + k - 1
      BY <2>3
    <3>2. sp[j] = V1!Joined(ms[k]) /\ Len(sp[j]) # 1
      BY <1>1, <1>2, <3>1
    <3>3. i \notin 0..(b - 1)
      BY <1>1, <1>5, <3>2
    <3>4. PICK m \in 1..l : i = b + m - 1
      BY <1>4, <3>3
    <3>5. sp[i] = V1!Joined(ms[m])
      BY <1>1, <3>4
    <3>6. k = m
      BY <1>3, <1>5, <3>2, <3>5
    <3>. QED  BY <3>1, <3>4, <3>6
  <2>. QED  BY <1>4, <2>1, <2>2, <2>3
<1>. QED  BY <1>5

\* The table made anew is the one there was exactly when no token was merged twice.
LEMMA TableIsKept ==
  ASSUME NEW v, NEW sp, Tables1(v, sp), NEW ms, ms \in Seq(Token1 \X Token1), HasRows1(v, sp, ms), sp = [i \in DOMAIN sp |-> sp[i]]
  PROVE  LoadedTable(v, sp) = sp <=> ~Twice1(ms)
<1> DEFINE R == {v[t] : t \in DOMAIN v}
<1>1. PICK b : Rows1(v, sp, ms, b)
  BY DEF HasRows1
<1>2. /\ b \in Nat /\ Len(ms) \in Nat /\ DOMAIN sp = 0..(b + Len(ms) - 1)
      /\ \A k \in 1..Len(ms) : sp[b + k - 1] = V1!Joined(ms[k])
      /\ \A i \in DOMAIN sp : sp[i] \in DOMAIN v
  BY <1>1 DEF Rows1
<1>3. \A t \in DOMAIN v : v[t] \in DOMAIN sp /\ sp[v[t]] = t
  BY DEF Tables1
<1>4. DOMAIN LoadedTable(v, sp) = R /\ LoadedTable(v, sp) = [i \in R |-> sp[i]]
  BY DEF LoadedTable
<1>5. ASSUME ~Twice1(ms) PROVE LoadedTable(v, sp) = sp
  <2>1. \A i, j \in DOMAIN sp : sp[i] = sp[j] => i = j
    BY <1>1, <1>5, RowsDiffer
  <2>2. R \subseteq DOMAIN sp
    BY <1>3
  <2>3. ASSUME NEW i \in DOMAIN sp PROVE i \in R
    <3>1. sp[i] \in DOMAIN v
      BY <1>2
    <3>2. v[sp[i]] \in DOMAIN sp /\ sp[v[sp[i]]] = sp[i]
      BY <1>3, <3>1
    <3>3. v[sp[i]] = i
      BY <2>1, <3>2
    <3>. QED  BY <3>1, <3>3
  <2>4. R = DOMAIN sp
    BY <2>2, <2>3
  <2>. QED  BY <1>4, <2>4
<1>6. ASSUME Twice1(ms), LoadedTable(v, sp) = sp PROVE FALSE
  <2>1. PICK j \in 1..Len(ms), k \in 1..Len(ms) : j # k /\ V1!Joined(ms[j]) = V1!Joined(ms[k])
    BY <1>6 DEF Twice1
  <2> DEFINE x == b + j - 1
             y == b + k - 1
  <2>2. x \in DOMAIN sp /\ y \in DOMAIN sp /\ x # y
    <3>1. x \in 0..(b + Len(ms) - 1) /\ y \in 0..(b + Len(ms) - 1) /\ x # y
      <4>1. b \in Nat /\ Len(ms) \in Nat
        BY <1>2
      <4>. QED  BY ONLY <2>1, <4>1
    <3>. QED  BY <1>2, <3>1
  <2>3. sp[x] = sp[y]
    BY <1>2, <2>1
  <2>. HIDE DEF x, y
  <2>4. x \in R /\ y \in R
    BY <1>4, <1>6, <2>2
  <2>5. PICK t \in DOMAIN v, u \in DOMAIN v : x = v[t] /\ y = v[u]
    BY <2>4
  <2>6. t = u
    BY <1>3, <2>3, <2>5
  <2>. QED  BY <2>2, <2>5, <2>6
<1>. QED  BY <1>5, <1>6

\* What was encoded is decoded alike by the table made anew.
LEMMA DecodesAlike ==
  ASSUME NEW v, NEW sp, Tables1(v, sp), NEW ms, ms \in Seq(Token1 \X Token1), HasRows1(v, sp, ms), NEW t, t \in Seq(Byte)
  PROVE  V1!DecodeV1(LoadedTable(v, sp), V1!EncodeV1(v, ms, t)) = V1!DecodeV1(sp, V1!EncodeV1(v, ms, t))
<1> DEFINE R == {v[x] : x \in DOMAIN v}
           ids == V1!EncodeV1(v, ms, t)
           new == LoadedTable(v, sp)
<1>1. PICK b : Rows1(v, sp, ms, b)
  BY DEF HasRows1
<1>2. /\ b \in Nat /\ b > 2 /\ Len(ms) \in Nat /\ DOMAIN sp = 0..(b + Len(ms) - 1) /\ sp[2] = V1!Unk
      /\ \A i \in 0..(b - 1) : Len(sp[i]) = 1
      /\ \A i, j \in 0..(b - 1) : sp[i] = sp[j] => i = j
      /\ \A k \in 1..Len(ms) : sp[b + k - 1] = V1!Joined(ms[k])
      /\ \A i \in DOMAIN sp : sp[i] \in DOMAIN v
  BY <1>1 DEF Rows1
<1>3. 2 \in R
  <2>1. 2 \in DOMAIN sp /\ 2 \in 0..(b - 1)
    BY <1>2
  <2>2. V1!Unk \in DOMAIN v /\ Len(V1!Unk) = 1
    BY <1>2, <2>1
  <2> DEFINE i == v[V1!Unk]
  <2>3. i \in DOMAIN sp /\ sp[i] = V1!Unk
    BY <2>2 DEF Tables1
  <2>4. V1!Unk[1] \notin Byte
    BY DEF V1!Unk, Byte
  <2>. HIDE DEF i
  <2>5. i \in 0..(b - 1)
    <3>1. SUFFICES ASSUME i \notin 0..(b - 1) PROVE FALSE
      OBVIOUS
    <3> DEFINE k == i - b + 1
    <3>2. k \in 1..Len(ms) /\ i = b + k - 1
      <4>1. b \in Nat /\ Len(ms) \in Nat /\ i \in 0..(b + Len(ms) - 1)
        BY <1>2, <2>3
      <4>. QED  BY ONLY <3>1, <4>1
    <3>. HIDE DEF k
    <3>3. V1!Unk = V1!Joined(ms[k])
      BY <1>2, <2>3, <3>2
    <3>4. V1!Joined(ms[k]) \in Token1
      <4>1. ms[k] \in Token1 \X Token1
        BY <3>2
      <4>. QED  BY <4>1, JoinedIs
    <3>5. V1!Unk[1] \in Byte
      <4>1. V1!Unk \in Seq(Byte) /\ 1 \in 1..Len(V1!Unk)
        BY <2>2, <3>3, <3>4 DEF Token1
      <4>. QED  BY <4>1
    <3>. QED  BY <2>4, <3>5
  <2>6. i = 2
    BY <1>2, <2>1, <2>3, <2>5
  <2>. QED  BY <2>2, <2>6 DEF i
<1>4. ids \in Seq(R)
  <2>1. \A x \in DOMAIN v : v[x] \in R
    OBVIOUS
  <2>. HIDE DEF R
  <2>. QED  BY ONLY <1>3, <2>1, NumbersWithin, ms \in Seq(Token1 \X Token1), t \in Seq(Byte)
<1>. HIDE DEF ids
<1>5. DOMAIN ids = 1..Len(ids) /\ \A k \in 1..Len(ids) : ids[k] \in R
  <2>. HIDE DEF R
  <2>. QED  BY <1>4
<1>6. \A i \in R : new[i] = sp[i]
  BY DEF LoadedTable
<1>. HIDE DEF new, R
<1>7. [k \in DOMAIN ids |-> new[ids[k]]] = [k \in DOMAIN ids |-> sp[ids[k]]]
  BY <1>5, <1>6
<1>. QED  BY <1>7 DEF V1!DecodeV1, ids, new

\* The first tokenizer's cache loads as it was saved, but for the ids left without a token.
LEMMA ReloadsIs == ASSUME V1Inv PROVE V1!ReloadsV1
<1> DEFINE order == SavedOrder(vocab)
           file == V1!SaveV1(vocab, merges)
<1>1. /\ merges \in Seq(Token1 \X Token1) /\ Tables1(vocab, spelling) /\ HasRows1(vocab, spelling, merges)
      /\ vocab = [t \in DOMAIN vocab |-> vocab[t]] /\ spelling = [i \in DOMAIN spelling |-> spelling[i]]
  <2>1. PICK b : Rows1(vocab, spelling, merges, b)
    BY DEF V1Inv, HasRows1
  <2>2. spelling = [i \in DOMAIN spelling |-> spelling[i]]
    BY <2>1 DEF Rows1
  <2>. QED  BY <2>2 DEF V1Inv, Tables1
<1>2. ListsOnce(order, DOMAIN vocab)
  BY <1>1, OrderLists
<1>3. Written1(file, order, vocab, merges)
  <2>1. file = ((<<Len(order)>> \o V1!FlattenSeq([k \in DOMAIN order |-> <<order[k], vocab[order[k]]>>])) \o <<Len(merges)>>)
               \o V1!FlattenSeq(merges)
    BY DEF V1!SaveV1, SavedOrder
  <2>2. V1!FlattenSeq([k \in DOMAIN order |-> <<order[k], vocab[order[k]]>>])
          = FlattenSeq([k \in DOMAIN order |-> <<order[k], vocab[order[k]]>>])
    BY V1Library
  <2>3. V1!FlattenSeq(merges) = FlattenSeq(merges)
    BY V1Library
  <2>. HIDE DEF order, file
  <2>. QED  BY <2>1, <2>2, <2>3 DEF Written1
<1>. HIDE DEF order, file
<1>4. Saved1(file, order, vocab, merges) /\ IsFile1(file)
  BY ONLY <1>1, <1>2, <1>3, FileHas1
<1> DEFINE table == LoadedTable(vocab, spelling)
<1>5. V1!LoadV1(file) = [vocab |-> vocab, spelling |-> table, merges |-> merges]
  <2>1. \A t \in DOMAIN vocab : spelling[vocab[t]] = t
    BY <1>1 DEF Tables1
  <2>. QED  BY ONLY <1>1, <1>2, <1>4, <2>1, ReadsBack
<1>6. ASSUME NEW i, i \in 0..(Len(file) - 1) PROVE V1!LoadV1(SubSeq(file, 1, i)) = "refused"
  <2>1. PICK T : file \in Seq(T)
    BY <1>4 DEF IsFile1
  <2>. QED  BY ONLY <1>4, <1>6, <2>1, CutRefused1
<1>7. table = spelling <=> ~Twice1(merges)
  BY <1>1, TableIsKept
<1>8. V1!Fingerprint1(table, merges) = V1!Fingerprint1(spelling, merges) <=> ~V1!MergedTwice
  <2>1. DOMAIN merges = 1..Len(merges)
    BY <1>1
  <2>2. V1!MergedTwice <=> Twice1(merges)
    BY <2>1 DEF V1!MergedTwice, Twice1
  <2>. HIDE DEF table
  <2>3. V1!Fingerprint1(table, merges) = V1!Fingerprint1(spelling, merges) <=> table = spelling
    BY DEF V1!Fingerprint1
  <2>. QED  BY <1>7, <2>2, <2>3
<1>9. ASSUME pc = "trained" PROVE V1!DecodeV1(table, out) = V1!DecodeV1(spelling, out)
  <2>1. out = V1!EncodeV1(vocab, merges, job.prompt) /\ job.prompt \in Seq(Byte)
    BY <1>9, LettersAre DEF V1Inv
  <2>. QED  BY <1>1, <2>1, DecodesAlike
<1>. HIDE DEF table
<1> DEFINE loaded == V1!LoadV1(file)
<1>10. loaded.vocab = vocab /\ loaded.merges = merges /\ loaded.spelling = table
  BY <1>5
<1>11. \A i \in 0..(Len(file) - 1) : V1!LoadV1(SubSeq(file, 1, i)) = "refused"
  BY <1>6
<1>12. V1!ReloadsV1 <=> (pc = "trained" =>
         /\ loaded.vocab = vocab /\ loaded.merges = merges
         /\ V1!DecodeV1(loaded.spelling, out) = V1!DecodeV1(spelling, out)
         /\ V1!Fingerprint1(loaded.spelling, loaded.merges) = V1!Fingerprint1(spelling, merges) <=> ~V1!MergedTwice
         /\ \A n \in 0..(Len(file) - 1) : V1!LoadV1(SubSeq(file, 1, n)) = "refused")
  BY DEF V1!ReloadsV1, file
<1>. HIDE DEF loaded
<1>. QED  BY <1>8, <1>9, <1>10, <1>11, <1>12
-----------------------------------------------------------------------------
(* Either tokenizer is trained, and its ids are continued.                 *)

\* While the byte-level tokenizer is trained, and while the first one is.
IsSecond == job.kind = "v2" /\ pc \in {"learn", "encode", "done"}
IsFirst ==
  /\ job.kind = "v1" /\ V1Inv
  /\ where = <<>> /\ heap = {} /\ rest = <<>> /\ cache = [index |-> <<>>, ids |-> <<>>]

\* It is the one or the other at first.
LEMMA EitherStarts == TextInit => (Init /\ IsSecond) \/ IsFirst
<1>1. ASSUME Init, job.kind = "v2" PROVE IsSecond
  BY <1>1 DEF Init, IsSecond
<1>2. ASSUME job \in Jobs, V1!V1Init PROVE V1Inv
  BY <1>2, V1Starts
<1>. QED  BY <1>1, <1>2 DEF TextInit, IsFirst

\* A step of the byte-level tokenizer's is one of its specification.
LEMMA SecondStays == IsSecond /\ [TextNext]_textVars => IsSecond' /\ [Next]_vars
<1> SUFFICES ASSUME IsSecond, [TextNext]_textVars PROVE IsSecond' /\ [Next]_vars
  OBVIOUS
<1>1. CASE Next
  <2>1. pc' \in {pc, "encode", "done"} /\ job' = job
    BY <1>1 DEF Next, PopStale, PopLive, Learned, EncodeSpecial, EncodeByte, EncodeHit, EncodeMiss, Encoded
  <2>. QED  BY <1>1, <2>1 DEF IsSecond
<1>2. CASE UNCHANGED vars
  BY <1>2 DEF IsSecond, vars
<1>3. ~ (V1!V1Merge \/ V1!V1Encode)
  BY DEF IsSecond, V1!V1Merge, V1!V1Encode
<1>4. Next \/ UNCHANGED vars
  BY <1>3 DEF TextNext, textVars, Continue, Generate
<1>. QED  BY <1>1, <1>2, <1>4

\* A step of the first one's keeps its invariant.
LEMMA FirstStays == IsFirst /\ [TextNext]_textVars => IsFirst'
<1> SUFFICES ASSUME IsFirst, [TextNext]_textVars PROVE IsFirst'
  OBVIOUS
<1>1. V1Inv /\ pc \in {"train", "trained"}
  BY DEF IsFirst, V1Inv
<1>2. CASE (V1!V1Merge \/ V1!V1Encode) /\ UNCHANGED <<where, heap, rest, cache, gen>>
  <2>1. V1Inv'
    BY <1>1, <1>2, V1Merges, V1Encodes
  <2>2. job' = job
    BY <1>2 DEF V1!V1Merge, V1!V1Encode
  <2>. QED  BY <1>2, <2>1, <2>2 DEF IsFirst
<1>3. CASE UNCHANGED <<vars, vocab, spelling>>
  <2>1. UNCHANGED <<job, pc, words, pairs, where, heap, merges, rest, out, cache, vocab, spelling>>
    BY <1>3 DEF vars
  <2>2. (pc = "trained" => out = V1!EncodeV1(vocab, merges, job.prompt))'
    BY <1>1, <2>1 DEF V1Inv
  <2>3. V1Inv'
    <3>1. HasRows1(vocab, spelling, merges)
      BY <1>1 DEF V1Inv
    <3>2. HasRows1(vocab, spelling, merges)'
      BY <2>1, <3>1 DEF HasRows1, Rows1
    <3>. QED  BY <1>1, <2>1, <2>2, <3>2 DEF V1Inv, Words1, Tables1, Known1, Ones, Letters2
  <2>. QED  BY <2>1, <2>3 DEF IsFirst
<1>4. ~ Next
  BY <1>1 DEF Next, PopStale, PopLive, Learning, Learned, EncodeSpecial, EncodeByte, EncodeHit, EncodeMiss, Encoded
<1>. QED  BY <1>2, <1>3, <1>4 DEF TextNext, textVars, Continue, Generate

\* A behaviour trains one of the two from its first state on: the byte-level one as its
\* specification says, or the first one (tokenizer_factory: one of the two is made).
THEOREM OneOfTwo == TextSpec => (Spec /\ []IsSecond) \/ []IsFirst
BY EitherStarts, SecondStays, FirstStays, PTL DEF TextSpec, Spec

\* Neither tokenizer encodes a word of its corpus to other tokens than training left it
\* with: not the first (learn_vocab, encode), whose pair counts may be off, and not the
\* byte-level one by its scan or by its heap (learn_merges, encode_piece).
THEOREM EncodingIsAsTrained == TextSpec => []EncodingFollowsTraining
<1>1. IsFirst => EncodingFollowsTraining
  <2>1. IsFirst => V1!WordsAgree
    BY WordsAgreeIs DEF IsFirst
  <2>2. IsFirst => EncodersAgree
    BY DEF IsFirst, V1Inv, EncodersAgree
  <2>. QED  BY <2>1, <2>2 DEF EncodingFollowsTraining
<1>2. IsSecond /\ EncodersAgree => EncodingFollowsTraining
  BY DEF IsSecond, V1!WordsAgree, EncodingFollowsTraining
<1>3. Spec => []EncodersAgree
  BY EncodingIsTraining
<1>. QED  BY <1>1, <1>2, <1>3, OneOfTwo, PTL

\* Decoding what either tokenizer encoded gives the prompt back, of the first one its
\* words (decode), whatever the cache of the other held.
THEOREM TextComesBack == TextSpec => []RoundTrips
<1>1. IsFirst => RoundTrips
  <2>1. IsFirst => V1!WordsSurvive
    BY WordsComeBack DEF IsFirst
  <2>2. ASSUME IsFirst PROVE CacheIsTrue
    <3>1. pc # "done" /\ cache = [index |-> <<>>, ids |-> <<>>]
      BY <2>2 DEF IsFirst, V1Inv
    <3>2. CacheSound(cache, merges)
      BY <3>1, EmptyCache
    <3>. QED  BY <3>1, <3>2 DEF CacheIsTrue, CacheSound, Held
  <2>. QED  BY <2>1, <2>2 DEF RoundTrips
<1>2. IsSecond /\ CacheIsTrue => RoundTrips
  BY DEF IsSecond, V1!WordsSurvive, RoundTrips
<1>3. Spec => []CacheIsTrue
  BY CacheChangesNothing
<1>. QED  BY <1>1, <1>2, <1>3, OneOfTwo, PTL

\* What a tokenizer file gives back. A byte-level one loads as it was saved, or is refused
\* when it is cut short or a field of it is changed. A first one (save, load) gives the
\* vocabulary and the merges and decodes what was encoded; its fingerprint is the saved one
\* exactly if no token was merged twice; cut short, it is refused.
THEOREM EitherFileLoads == TextSpec => []FilesReload
<1>1. IsFirst => FilesReload
  <2>1. IsFirst => V1!ReloadsV1
    BY ReloadsIs DEF IsFirst
  <2>2. IsFirst => FileIsExact
    BY DEF IsFirst, V1Inv, FileIsExact
  <2>. QED  BY <2>1, <2>2 DEF FilesReload
<1>2. IsSecond /\ FileIsExact => FilesReload
  BY DEF IsSecond, V1!ReloadsV1, FilesReload
<1>3. Spec => []FileIsExact
  BY FilesLoadAsSaved
<1>. QED  BY <1>1, <1>2, <1>3, OneOfTwo, PTL

\* What was proved of the byte-level tokenizer alone holds beside the first one too.
THEOREM BesideTheFirst == TextSpec => []ChunksAgree /\ []MatchesPattern /\ GreedyChoice
<1>1. IsFirst => ChunksAgree /\ MatchesPattern
  BY DEF IsFirst, V1Inv, ChunksAgree, MatchesPattern
<1>2. Spec => []ChunksAgree
  BY ChunksChangeNothing
<1>3. Spec => []MatchesPattern
  BY MatcherIsPattern
<1>4. Spec => GreedyChoice
  BY LearningIsGreedy
<1> DEFINE Greedy == /\ pc = "learn" /\ merges' # merges => TakesTheBest
                     /\ pc = "learn" /\ pc' = "encode" => (Len(merges) = job.merges \/ AllPairs(words) = {})
<1>5. IsFirst => Greedy
  BY DEF IsFirst, V1Inv
<1>. QED  BY <1>1, <1>2, <1>3, <1>4, <1>5, OneOfTwo, PTL DEF GreedyChoice
-----------------------------------------------------------------------------
(* What either tokenizer encodes can be continued.                         *)

\* What is continued: ids, of a vocabulary of some size.
LEMMA CanContinue ==
  (LearnInv /\ EncodeInv /\ IsSecond) \/ IsFirst => (pc \in {"done", "trained"} => out \in Seq(Nat) /\ VocabSize \in Nat)
<1>0. ASSUME NEW k, k \in Nat, NEW n, n \in Nat PROVE 256 + k + n \in Nat
  BY <1>0
<1>1. ASSUME NEW S, IsFiniteSet(S) PROVE Cardinality(S) \in Nat
  BY <1>1, FS_CardinalityType
<1>3. V1!Cardinality(DOMAIN vocab) = Cardinality(DOMAIN vocab)
  BY V1Library
<1>4. ASSUME LearnInv, EncodeInv, pc = "done" PROVE out \in Seq(Nat) /\ 256 + Len(merges) + Len(Specials) \in Nat
  <2>1. Len(merges) \in Nat /\ Len(Specials) \in Nat
    BY <1>4, ByteBpeAssumption DEF LearnInv, IsMerges
  <2>2. out \in Seq(Ids(merges))
    BY <1>4 DEF EncodeInv, StillTo
  <2>3. Ids(merges) \subseteq Nat
    BY <2>1 DEF Ids
  <2>. HIDE DEF Ids
  <2>4. out \in Seq(Nat)
    BY <2>2, <2>3, SeqMono
  <2>. QED  BY <1>0, <2>1, <2>4
<1>5. ASSUME IsFirst, pc = "trained" PROVE out \in Seq(Nat) /\ Cardinality(DOMAIN vocab) \in Nat
  <2>1. /\ merges \in Seq(Token1 \X Token1) /\ Tables1(vocab, spelling) /\ job.prompt \in Seq(Byte)
        /\ out = V1!EncodeV1(vocab, merges, job.prompt)
    BY <1>5, LettersAre DEF IsFirst, V1Inv
  <2>2. IsFiniteSet(DOMAIN vocab)
    BY <2>1 DEF Tables1
  <2>. QED  BY <1>1, <2>1, <2>2, NumbersAre
<1>6. IsSecond => VocabSize = 256 + Len(merges) + Len(Specials) /\ pc # "trained"
  BY DEF IsSecond, VocabSize
<1>7. IsFirst => VocabSize = Cardinality(DOMAIN vocab) /\ pc # "done"
  BY <1>3 DEF IsFirst, V1Inv, VocabSize
<1>. QED  BY <1>4, <1>5, <1>6, <1>7

\* Whatever is trained and encoded, a reply is a call of TextGen as Generation has it:
\* its prompt is a sequence of ids (run_chat, run_generate).
THEOREM RepliesAreCalls == TextSpec => GenSpec
<1> DEFINE Inv == (LearnInv /\ EncodeInv /\ IsSecond) \/ IsFirst
<1>1. TextInit => gen = Idle
  BY DEF TextInit
<1>2. Inv /\ [TextNext]_textVars => [GenNext]_gen
  <2> SUFFICES ASSUME Inv, [TextNext]_textVars PROVE GenNext \/ UNCHANGED gen
    OBVIOUS
  <2>1. CASE Continue
    <3>1. PICK mode \in Modes : Start(out, VocabSize, mode)
      BY <2>1 DEF Continue
    <3>2. out \in Seq(Nat) /\ VocabSize \in Nat
      BY <2>1, CanContinue DEF Continue
    <3>. QED  BY <3>1, <3>2 DEF GenNext
  <2>2. CASE Generate
    BY <2>2 DEF Generate, GenNext
  <2>. QED  BY <2>1, <2>2 DEF TextNext, textVars
<1>3. Spec => []LearnInv /\ []EncodeInv
  BY LearningIsTrue, EncodingIsTrue, PTL
<1>. QED  BY <1>1, <1>2, <1>3, OneOfTwo, PTL DEF TextSpec, GenSpec

\* So a reply stops when it should, and what it samples survived the filters.
THEOREM RepliesEnd == TextSpec => []FillsOrStops /\ []SamplesKept
BY RepliesAreCalls, StopsInTime, FiltersHold, PTL
=============================================================================
