------------------------------ MODULE Optimizer -----------------------------
(***************************************************************************)
(* AdamW: src/transformer/optimizer.cpp. The optimizer's state is its step *)
(* count, the rate of the last step, and the moments of the parameters     *)
(* that have had a gradient, in the order of getAllParameters. Parameters  *)
(* are nodes of the graph (see Autograd).                                  *)
(***************************************************************************)
EXTENDS Tensors

CONSTANTS WarmupSteps, TotalSteps   \* set_schedule

ASSUME ScheduleAssumption == WarmupSteps \in Nat /\ TotalSteps \in Nat

BaseLr == Const(9)
MinLr  == Const(2)
Beta1  == Const(2)
Beta2  == Const(3)
Decay  == Const(4)

Fresh(params) == [step_count |-> 0, lr |-> BaseLr,
                  m |-> [k \in DOMAIN params |-> Empty], v |-> [k \in DOMAIN params |-> Empty]]

\* Linear warmup, cosine decay (an arbitrary curve), then the floor.
ScheduledLr(count) ==
  CASE WarmupSteps > 0 /\ count <= WarmupSteps -> Times(BaseLr, Times(Const(count), Share(WarmupSteps)))
    [] count > WarmupSteps /\ TotalSteps > WarmupSteps /\ count < TotalSteps ->
         Plus(MinLr, Times(Minus(BaseLr, MinLr), Const(Scatter(count - WarmupSteps, 23))))
    [] OTHER -> IF TotalSteps > 0 THEN MinLr ELSE BaseLr

Power(x, k) == LET p[i \in 0..k] == IF i = 0 THEN One ELSE Times(p[i - 1], x) IN p[k]

\* Parameters the optimizer touches.
Active(param) == param.requires_grad /\ param.grad # Empty

ScaleGrads(params, s) ==
  [k \in DOMAIN params |-> IF Active(params[k]) THEN [params[k] EXCEPT !.grad = Scale(@, s)]
                                                ELSE params[k]]

\* The squared norm over all gradients decides, and scales, the clip: both by
\* arbitrary functions of it.
SumSquares(params) ==
  LET square(g) == Total(Len(g.data), LAMBDA i : Times(g.data[i + 1], g.data[i + 1]))
      sum[k \in 0..Len(params)] == IF k = 0 THEN Zero
        ELSE Plus(sum[k - 1], IF Active(params[k]) THEN square(params[k].grad) ELSE Zero)
  IN sum[Len(params)][1]
ClipCoefficient(norm) == IF norm % 2 = 0 THEN One ELSE Const(Scatter(norm, 19))
ClipGradNorm(params)  == ScaleGrads(params, ClipCoefficient(SumSquares(params)))

\* step() on one parameter: decay spares the (1, n) tensors.
Moment(old, grad, beta, F(_)) ==
  Tensor(grad.shape, Floats(Len(grad.data), LAMBDA i :
    Plus(Times(beta, old.data[i + 1]), Times(Minus(One, beta), F(grad.data[i + 1])))))

Updated(param, m, v, lr, count) ==
  LET correct(x, beta) == Times(x, OneOver(Minus(One, Power(beta, count))))
      decay == IF Rows(param.data) > 1 THEN Decay ELSE Zero
      new(i) == LET w == Const(param.data.data[i][1])
                    m_hat == correct(m.data[i], Beta1)
                    v_hat == correct(v.data[i], Beta2)
                IN Minus(w, Times(lr, Plus(Times(m_hat, RSqrt(v_hat)), Times(decay, w))))
      old == param.data.data
  IN Tensor(param.data.shape, Floats(Len(old), LAMBDA i : <<new(i + 1)[1], old[i + 1][2]>>))

\* step(): the new state, and the parameters it leaves.
StepState(opt, params) ==
  LET count == opt.step_count + 1
      zeros(k, t) == IF t = Empty THEN ZerosLike(params[k].grad) ELSE t
      grad(k) == Detached(params[k].grad)
      square(g) == Times(g, g)
      same(g) == g
  IN [step_count |-> count, lr |-> ScheduledLr(count),
      m |-> [k \in DOMAIN params |-> IF ~Active(params[k]) THEN opt.m[k]
               ELSE Moment(zeros(k, opt.m[k]), grad(k), Beta1, same)],
      v |-> [k \in DOMAIN params |-> IF ~Active(params[k]) THEN opt.v[k]
               ELSE Moment(zeros(k, opt.v[k]), grad(k), Beta2, square)]]

StepParams(opt, params) ==
  LET after == StepState(opt, params)
  IN [k \in DOMAIN params |->
       IF ~Active(params[k]) THEN params[k]
       ELSE [params[k] EXCEPT !.data = Updated(params[k], after.m[k], after.v[k], after.lr, after.step_count)]]

\* save_state: moments not there yet are written as zeros.
SaveState(opt, params) ==
  LET written(t, k) == IF t = Empty THEN Filled(Len(params[k].data.data), Zero) ELSE t.data
  IN [step_count |-> opt.step_count,
      moments |-> [k \in DOMAIN params |->
                     [numel |-> Len(params[k].data.data), m |-> written(opt.m[k], k), v |-> written(opt.v[k], k)]]]

Loads(file, params) == /\ Len(file.moments) = Len(params)
                       /\ \A k \in DOMAIN params : file.moments[k].numel = Len(params[k].data.data)

\* Slip: the step count starts over, and with it the schedule and the bias correction.
LoadStateFromZero(file, params) ==
  [step_count |-> 0, lr |-> ScheduledLr(0),
   m |-> [k \in DOMAIN params |-> Tensor(params[k].data.shape, file.moments[k].m)],
   v |-> [k \in DOMAIN params |-> Tensor(params[k].data.shape, file.moments[k].v)]]

LoadState(file, params) ==
  [step_count |-> file.step_count, lr |-> ScheduledLr(file.step_count),
   m |-> [k \in DOMAIN params |-> Tensor(params[k].data.shape, file.moments[k].m)],
   v |-> [k \in DOMAIN params |-> Tensor(params[k].data.shape, file.moments[k].v)]]
=============================================================================
