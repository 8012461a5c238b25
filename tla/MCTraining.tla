----------------------------- MODULE MCTraining -----------------------------
(***************************************************************************)
(* The programs TLC trains: both architectures, with and without dropout,  *)
(* in the layouts the code accepts, with frozen parameters, and small      *)
(* programs for longer runs and for the broadcasts and products no model   *)
(* issues.                                                                 *)
(***************************************************************************)
EXTENDS Training

\* A model's job; one that does not train generates text.
GPT(modern, drop, rows, frozen, layout, steps, micros) ==
  LET p == GPTForward(Config(modern, drop, rows))
      arch == IF steps > 0 THEN "none" ELSE IF modern THEN "modern" ELSE "gpt2"
  IN Job(arch, ParamShapes(modern), frozen, layout, Loss(p, "cpu", Targets(modern)).code,
         Loss(p, "metal", Targets(modern)).code, TRUE, steps, micros)

\* Every kind of add, and the ops the models do not use.
Broadcasting ==
  LET x == Call(Start, "add", <<-1, -2>>)
      y == Call(x, "add", <<-2, x.at>>)
      z == Call(y, "add", <<-3, -2>>)
      w == Call(z, "add", <<z.at, -4>>)
      v == Call(w, "add", <<y.at, w.at>>)
      u == Call(v, "add", <<v.at, -3>>)
      s == Emit(u, [op |-> "scale", by |-> Const(2)], <<u.at>>)
      t == Call(s, "softmax", <<s.at>>)
      p == Call(t, "mul", <<t.at, t.at>>)
  IN Job("none", <<<<2, 2, 3>>, <<1, 3>>, <<2, 1>>, <<1, 1>>>>, {}, "batch",
         Loss(p, "cpu", 6).code, Loss(p, "metal", 6).code, FALSE, 1, 1)

\* A product of batches.
Batched ==
  LET p == Call(Start, "matmul", <<-1, -2>>)
      q == Call(p, "matmul", <<p.at, -3>>)
  IN Job("none", <<<<2, 2, 3>>, <<2, 3, 2>>, <<2, 3>>>>, {}, "batch",
         Loss(q, "cpu", 5).code, Loss(q, "metal", 5).code, FALSE, 1, 1)

\* A model of no blocks, the same on both devices but for its loss.
Shallow ==
  LET p == Call(Start, "embedding", <<-1, -4>>)
      q == Norm1(p, p.at, -2, FALSE)
      r == Call(q, "logits", <<q.at, -1>>)
  IN Job("none", <<<<Vocab, Width>>, <<1, Width>>, <<1, Width>>>>, {}, "batch",
         Loss(r, "cpu", 5).code, Loss(r, "metal", 5).code, TRUE, 3, 2)

MCPrograms ==
  { GPT(FALSE, FALSE, 0, {}, "batch", 0, 1),
    GPT(TRUE, FALSE, 0, {}, "batch", 0, 1),
    GPT(FALSE, FALSE, 0, {}, "batch", 1, 2),
    GPT(TRUE, FALSE, 0, {}, "rows", 2, 2),
    GPT(FALSE, TRUE, 0, {}, "batch", 1, 1),
    GPT(TRUE, TRUE, 0, {}, "batch", 1, 1),
    GPT(FALSE, FALSE, 4, {1, 2, 3, 4, 5, 7, 8, 9}, "sequence", 1, 1),
    GPT(FALSE, FALSE, 0, {1, 3, 8, 15, 16, 20}, "batch", 1, 1),
    Shallow, Broadcasting, Batched, Explore }
=============================================================================
