------------------------------ MODULE Tensors ------------------------------
(***************************************************************************)
(* The arithmetic under the graph: tensors (src/transformer/tensor.cpp),   *)
(* the BLAS seam (blas_wrapper.h) and the Metal kernels that match it.     *)
(*                                                                         *)
(* A float is a dual number over the field of Prime elements: a value and  *)
(* its derivative along one fixed direction of the parameters. Running the *)
(* forward code on duals gives every tensor its true derivative, exactly,  *)
(* to hold the hand-written backward code against. exp, tanh, 1/sqrt and   *)
(* the log-sum-exp of a row are arbitrary functions that differentiate by  *)
(* their own rules, so nothing true of the reals only by size or rounding  *)
(* is used. The order of float additions is therefore not modelled.        *)
(***************************************************************************)
EXTENDS Integers, Sequences

CONSTANT Prime   \* the field

ASSUME FieldAssumption == Prime \in Nat /\ Prime > 16
-----------------------------------------------------------------------------
(* Floats.                                                                 *)

Const(k)    == <<k % Prime, 0>>
Zero        == Const(0)
One         == Const(1)
Junk        == <<Prime - 5, 7>>      \* what uninitialized storage holds
Plus(x, y)  == <<(x[1] + y[1]) % Prime, (x[2] + y[2]) % Prime>>
Minus(x, y) == <<(x[1] - y[1]) % Prime, (x[2] - y[2]) % Prime>>
Times(x, y) == <<(x[1] * y[1]) % Prime, (x[1] * y[2] + x[2] * y[1]) % Prime>>

Reciprocal == [k \in 1..(Prime - 1) |-> CHOOSE i \in 1..(Prime - 1) : (i * k) % Prime = 1]

\* 1 / x for a value, and for a count.
OneOver(x) == LET r == Reciprocal[x[1]]
              IN <<r, (-(((r * r) % Prime) * x[2])) % Prime>>
Share(k)   == OneOver(Const(k))
Half       == Share(2)

\* An arbitrary function of a value, different for each k.
Scatter(v, k) == (((v * v) % Prime) * v + k * v + k + 3) % Prime

\* f(x) with derivative f'(x), both given as values.
Through(f, slope, x) == <<f, (slope * x[2]) % Prime>>

Exp(x)   == LET e == 1 + (Scatter(x[1], 7) % (Prime - 2)) IN Through(e, e, x)
Tanh(x)  == LET t == Scatter(x[1], 11) IN Through(t, 1 - t * t, x)
RSqrt(x) == LET r == 1 + (Scatter(x[1], 5) % (Prime - 1))
            IN Through(r, (-((((r * r) % Prime) * r) % Prime)) * Half[1], x)

\* n floats, the one at offset i being At(i); and the sum of n of them.
Floats(n, At(_)) == [i \in 1..n |-> At(i - 1)] \o <<>>
Total(n, At(_))  == LET s[k \in 0..n] == IF k = 0 THEN Zero ELSE Plus(s[k - 1], At(k - 1))
                    IN s[n]
Filled(n, x)     == Floats(n, LAMBDA i : x)

\* log(sum(exp(x))) over count floats of x from offset at.
LogSumExp(x, at, count) ==
  LET l == Total(count, LAMBDA j : Const(Scatter(x[at + j + 1][1], 2)))
      slope == Total(count, LAMBDA j : <<0, (Exp(Minus(x[at + j + 1], l))[1] * x[at + j + 1][2]) % Prime>>)
  IN <<l[1], slope[2]>>
-----------------------------------------------------------------------------
(* Tensors: a shape, innermost dimension last, over row-major floats.      *)

Tensor(shape, data) == [shape |-> shape, data |-> data]

\* Tensor(): no shape, no storage.
Empty == [numel |-> 0]

Numel(shape) == LET p[k \in 0..Len(shape)] == IF k = 0 THEN 1 ELSE p[k - 1] * shape[k]
                IN p[Len(shape)]
Is3D(t)      == Len(t.shape) = 3
Cols(t)      == t.shape[Len(t.shape)]
Rows(t)      == t.shape[Len(t.shape) - 1]
Batch(t)     == IF Is3D(t) THEN t.shape[1] ELSE 1
FlatRows(t)  == Len(t.data) \div Cols(t)

WithLastDim(shape, n) == [shape EXCEPT ![Len(shape)] = n]
Transposed(shape)     == LET n == Len(shape)
                         IN [shape EXCEPT ![n - 1] = shape[n], ![n] = shape[n - 1]]

ZerosLike(t)   == Tensor(t.shape, Filled(Len(t.data), Zero))
Detached(t)    == Tensor(t.shape, Floats(Len(t.data), LAMBDA i : <<t.data[i + 1][1], 0>>))
Each(t, F(_))   == Tensor(t.shape, Floats(Len(t.data), LAMBDA i : F(t.data[i + 1])))
Pairwise(t, u, F(_, _)) == Tensor(t.shape, Floats(Len(t.data), LAMBDA i : F(t.data[i + 1], u.data[i + 1])))

AddInplace(t, u)  == Pairwise(t, u, Plus)
Elementwise(t, u) == Pairwise(t, u, Times)
Scale(t, s)       == Each(t, LAMBDA x : Times(x, s))

Transpose(t) ==
  LET R == Rows(t)  C == Cols(t)
  IN Tensor(Transposed(t.shape), Floats(Len(t.data), LAMBDA e :
       t.data[(e \div (R * C)) * R * C + (e % R) * C + (e % (R * C)) \div R + 1]))

\* Rows [0, rows) of a 2D tensor.
Slice(t, rows) == Tensor(<<rows, Cols(t)>>, SubSeq(t.data, 1, rows * Cols(t)))

\* The k-th row of x takes part in the softmax up to spans[k]; the rest weighs nothing.
SoftmaxRows(x, cols, spans) ==
  LET lse == Floats(Len(x) \div cols, LAMBDA r : LogSumExp(x, r * cols, spans[r + 1]))
  IN Floats(Len(x), LAMBDA e : IF e % cols < spans[(e \div cols) + 1]
                                 THEN Exp(Minus(x[e + 1], lse[(e \div cols) + 1])) ELSE Zero)
LogSoftmaxRows(x, cols) ==
  LET lse == Floats(Len(x) \div cols, LAMBDA r : LogSumExp(x, r * cols, cols))
  IN Floats(Len(x), LAMBDA e : Minus(x[e + 1], lse[(e \div cols) + 1]))
-----------------------------------------------------------------------------
(* Broadcasting.                                                           *)

BroadcastShape(t, u) ==
  LET larger(x, y) == IF x > y THEN x ELSE y
  IN IF Is3D(t) THEN t.shape ELSE IF Is3D(u) THEN u.shape
     ELSE <<larger(Rows(t), Rows(u)), larger(Cols(t), Cols(u))>>

\* add's check of one operand against the shape of the result.
Fits(t, shape) ==
  \/ t.shape = shape
  \/ /\ ~Is3D(t)
     /\ Rows(t) \in {1, shape[Len(shape) - 1]} /\ Cols(t) \in {1, shape[Len(shape)]}
Broadcasts(t, u) == Fits(t, BroadcastShape(t, u)) /\ Fits(u, BroadcastShape(t, u))

\* The operand's float under (batch n, row i, column j): stride 0 along every
\* dimension it is broadcast over.
Under(t, rows, cols, n, i, j) ==
  t.data[(IF Is3D(t) THEN n * Rows(t) * Cols(t) ELSE 0)
         + (IF Rows(t) = rows THEN i * Cols(t) ELSE 0)
         + (IF Cols(t) = cols THEN j ELSE 0) + 1]

Add(t, u) ==
  LET shape == BroadcastShape(t, u)
      R == shape[Len(shape) - 1]  C == shape[Len(shape)]
      at(x, e) == Under(x, R, C, e \div (R * C), (e \div C) % R, e % C)
  IN Tensor(shape, Floats(Numel(shape), LAMBDA e : Plus(at(t, e), at(u, e))))

\* The kernel add_rows: row r of x plus row r % period of rows.
AddRows(x, rows, cols, period) ==
  Floats(Len(x), LAMBDA e : Plus(x[e + 1], rows[((e \div cols) % period) * cols + (e % cols) + 1]))

\* Per column, the sum over the rows.
ColumnSums(x, cols) ==
  Floats(cols, LAMBDA j : Total(Len(x) \div cols, LAMBDA r : x[r * cols + j + 1]))

\* g summed down to R x C: over the batch, over rows if br, over columns if bc.
Reduce(g, R, C, br, bc) ==
  LET onto(e, o) == /\ br \/ (e \div Cols(g)) % Rows(g) = o \div C
                    /\ bc \/ e % Cols(g) = o % C
  IN Floats(R * C, LAMBDA o : Total(Len(g.data), LAMBDA e :
       IF onto(e, o) THEN g.data[e + 1] ELSE Zero))
-----------------------------------------------------------------------------
(* Matrix products.                                                        *)

\* A row-major matrix inside a buffer: from offset at, rows ld apart, read
\* transposed if t.
View(of, at, ld, t) == [of |-> of, at |-> at, ld |-> ld, t |-> t]
Cell(v, i, j) == v.of[v.at + (IF v.t THEN j * v.ld + i ELSE i * v.ld + j) + 1]

\* C = A B: M x N floats of the buffer C, from offset at, rows ld apart.
Gemm(A, B, M, N, K, C, at, ld) ==
  Floats(Len(C), LAMBDA e :
    LET i == (e - at) \div ld  j == (e - at) % ld
    IN IF e >= at /\ i < M /\ j < N
         THEN Total(K, LAMBDA k : Times(Cell(A, i, k), Cell(B, k, j))) ELSE C[e + 1])

\* blas_sgemm_ex and ops::gemm on whole matrices.
Sgemm(a, tA, b, tB, M, N, K) ==
  Gemm(View(a, 0, IF tA THEN M ELSE K, tA), View(b, 0, IF tB THEN K ELSE N, tB),
       M, N, K, Filled(M * N, Junk), 0, N)

\* batch products, operand X's z-th matrix at (z \div inner) outer + (z % inner) inner
\* of its operand record [of, ld, t, outer, inner].
BatchedGemm(A, B, C, M, N, K, batch, inner) ==
  LET at(X, z) == (z \div inner) * X.outer + (z % inner) * X.inner
      view(X, z) == View(X.of, at(X, z), X.ld, X.t)
      c[z \in 0..batch] == IF z = 0 THEN C.of
        ELSE Gemm(view(A, z - 1), view(B, z - 1), M, N, K, c[z - 1], at(C, z - 1), C.ld)
  IN c[batch]

Operand(of, ld, t, outer, inner) == [of |-> of, ld |-> ld, t |-> t, outer |-> outer, inner |-> inner]

\* What matmul accepts: a 2D rhs is shared by every matrix of the lhs.
Compatible(t, u) == Cols(t) = Rows(u) /\ (Is3D(u) => Is3D(t) /\ t.shape[1] = u.shape[1])

\* Tensor::matmul: one sgemm per matrix.
Matmul(t, u) ==
  LET M == Rows(t)  K == Cols(t)  N == Cols(u)
  IN Tensor(WithLastDim(t.shape, N),
       BatchedGemm(Operand(t.data, K, FALSE, M * K, 0),
                   Operand(u.data, N, FALSE, IF Is3D(u) THEN K * N ELSE 0, 0),
                   Operand(Filled(Batch(t) * M * N, Junk), N, FALSE, M * N, 0),
                   M, N, K, Batch(t), 1))
=============================================================================
