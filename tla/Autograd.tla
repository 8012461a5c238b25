------------------------------ MODULE Autograd ------------------------------
(***************************************************************************)
(* The autograd graph of src/transformer/variable.cpp: an op records a     *)
(* node, its operands and a closure; backward() runs the closures in       *)
(* reverse topological order and retires each node as the wave passes;     *)
(* parameter gradients add up over the micro-batches of a training step.   *)
(*                                                                         *)
(* Every tensor carries its derivative along a fixed direction of the      *)
(* parameters (see Tensors). A correct wave keeps one number: the sum of   *)
(* the products of gradient and derivative over the nodes it has still to  *)
(* pass and the parameters is the derivative of the losses so far.         *)
(***************************************************************************)
EXTENDS Layers, SequencesExt

CONSTANTS
  MaxNodes,    \* bound: variables alive at once, when ops are chosen freely
  MaxOps,      \* bound: freely chosen ops in all
  MaxGuards    \* bound: nesting of NoGradGuard

ASSUME GraphAssumption == MaxNodes \in Nat /\ MaxOps \in Nat /\ MaxGuards \in Nat

VARIABLES
  dev,                   \* where the ops run
  graph, leaves,         \* the variables alive; the first leaves of them outlive the graph
  enabled, guards,       \* GradMode, and what each guard restores
  streams,               \* dropout streams reserved
  pc, root, sorted,      \* the backward() in progress
  expected,              \* derivative of the losses since zero_grad
  ops                    \* counter

mode      == <<enabled, guards>>
walk      == <<pc, root, sorted>>
graphVars == <<dev, graph, leaves, mode, streams, walk, expected, ops>>

Leaf == [op |-> "leaf"]
Node(o, kids, data, grad, needs, fn, saved) ==
  [o |-> o, children |-> kids, data |-> data, grad |-> grad, requires_grad |-> needs,
   backward_fn |-> fn, saved |-> saved]
LeafNode(data, needs) == Node(Leaf, <<>>, data, Empty, needs, FALSE, <<>>)

GraphInit(device, nodes) ==
  /\ dev = device /\ graph = nodes /\ leaves = Len(nodes)
  /\ enabled = TRUE /\ guards = <<>> /\ streams = 0
  /\ pc = "forward" /\ root = 0 /\ sorted = <<>> /\ expected = 0 /\ ops = 0

Data(kids) == [i \in DOMAIN kids |-> graph[kids[i]].data]
-----------------------------------------------------------------------------
(* The forward pass.                                                       *)

\* compute_requires_grad.
RequiresGrad(kids) == enabled /\ \E i \in DOMAIN kids : graph[kids[i]].requires_grad

\* The node an op appends. Without grad mode the result does not count as depending
\* on the parameters.
Recorded(o, kids, in, saved) ==
  LET kept(out)   == IF enabled THEN out ELSE Detached(out)
      node(needs) == Node(o, IF needs THEN Listed(o, kids) ELSE <<>>, kept(Output(dev, o, in, saved)),
                          Empty, needs, needs, IF needs THEN saved ELSE <<>>)
  IN node(RequiresGrad(kids))

Forward(o, kids) ==
  /\ pc = "forward" /\ Accepts(o, Data(kids))
  /\ graph' = Append(graph, Recorded(o, kids, Data(kids), Saved(dev, o, Data(kids), streams)))
  /\ streams' = streams + Streams(o, Data(kids))
  /\ UNCHANGED <<dev, leaves, mode, walk, expected>>

EnterNoGrad ==
  /\ pc = "forward" /\ Len(guards) < MaxGuards
  /\ guards' = Append(guards, enabled) /\ enabled' = FALSE
  /\ UNCHANGED <<dev, graph, leaves, streams, walk, expected, ops>>

ExitNoGrad ==
  /\ guards # <<>>
  /\ enabled' = Last(guards) /\ guards' = Front(guards)
  /\ UNCHANGED <<dev, graph, leaves, streams, walk, expected, ops>>
-----------------------------------------------------------------------------
(* backward().                                                             *)

\* The visits f one after the other, each going on from what the last one found.
InTurn(f, found) ==
  LET after[i \in 0..Len(f)] == IF i = 0 THEN found ELSE f[i][after[i - 1]]
  IN after[Len(f)]

\* A visit: the operands a node depends on, then the node, unless it was found before.
Visits ==
  LET visit[n \in DOMAIN graph] ==
        [found \in Seq(DOMAIN graph) |->
           IF Contains(found, n) THEN found
           ELSE Append(InTurn([i \in DOMAIN graph[n].children |-> visit[graph[n].children[i]]], found), n)]
  IN visit
TopologicalSort(r) == Visits[r][<<>>]

\* The root is a scalar; without a gradient to pass on backward() throws.
StartBackward(r) ==
  /\ pc = "forward" /\ r \in (leaves + 1)..Len(graph)
  /\ graph[r].requires_grad /\ Len(graph[r].data.data) = 1
  /\ graph' = [graph EXCEPT ![r].grad = Tensor(graph[r].data.shape, <<One>>)]
  /\ pc' = "backward" /\ root' = r /\ sorted' = TopologicalSort(r)
  /\ expected' = (expected + graph[r].data.data[1][2]) % Prime
  /\ UNCHANGED <<dev, leaves, mode, streams, ops>>

\* Slip: a second contribution replaces the first.
AccumulateLast(g, d) == d

\* ensureGrad, then +=.
Accumulate(g, d) == IF g = Empty THEN d ELSE AddInplace(g, d)

Contributes(device, n, i) ==
  LET v == graph[n]  x == graph[v.children[i]].data
  IN Tensor(x.shape, Contribution(device, v.o, Data(v.children), v.saved, v.data, v.grad, i))

\* The gradient of m once the closure of n has added to it, operand by operand, for the
\* operands at the positions at.
Gathered(n, m, at) ==
  LET order == SelectSeq([i \in DOMAIN graph[n].children |-> i], LAMBDA i : i \in at)
  IN FoldLeft(LAMBDA g, i : Accumulate(g, Contributes(dev, n, i)), graph[m].grad, order)

\* What the closure of n does to the gradients of its operands.
RunClosure(n) ==
  LET kids  == graph[n].children
      wants == [i \in DOMAIN kids |-> graph[kids[i]].requires_grad]
      at(m) == {i \in Written(graph[n].o, wants) : kids[i] = m}
  IN [m \in DOMAIN graph |-> IF at(m) = {} THEN graph[m]
                             ELSE [graph[m] EXCEPT !.grad = Gathered(n, m, at(m))]]

\* Slip: the operands' data is freed with the node.
RetireWithOperands(n) == {n} \union {m \in (leaves + 1)..Len(graph) : Contains(graph[n].children, m)}

\* Slip: nothing is freed before the graph is released.
RetireNothing(n) == {}

Retire(n) == {n}

\* The graph once the wave is past n.
Passed(g, n, freed) ==
  LET cleared(m) == [g[m] EXCEPT !.data = IF m \in freed THEN Empty ELSE @,
                                 !.grad = IF m \in freed THEN Empty ELSE @,
                                 !.children = IF m = n THEN <<>> ELSE @,
                                 !.backward_fn = IF m = n THEN FALSE ELSE @,
                                 !.saved = IF m = n THEN <<>> ELSE @]
  IN [m \in DOMAIN g |-> cleared(m)]

\* One node of the reverse walk: leaves are passed over, others run and retire.
BackwardStep ==
  /\ pc = "backward"
  /\ LET n == Last(sorted)
     IN graph' = IF ~graph[n].backward_fn THEN graph
                 ELSE Passed(IF graph[n].grad = Empty THEN graph ELSE RunClosure(n), n,
                             IF n = root THEN {} ELSE Retire(n))
  /\ sorted' = Front(sorted) /\ pc' = IF Len(sorted) = 1 THEN "done" ELSE "backward"
  /\ UNCHANGED <<dev, leaves, mode, streams, root, expected, ops>>
-----------------------------------------------------------------------------
(* The step around it: Trainer::training_step.                             *)

\* release_graph, and the variables of the micro-batch (or of an evaluation) die.
Release ==
  /\ pc = "done" \/ (pc = "forward" /\ Len(graph) > leaves)
  /\ pc' = "forward" /\ root' = 0 /\ sorted' = <<>>
  /\ graph' = SubSeq(graph, 1, leaves)
  /\ UNCHANGED <<dev, leaves, mode, streams, expected, ops>>

\* zero_grad at the start of a step: gradients that exist are cleared, not freed.
ZeroGrad ==
  /\ pc = "forward" /\ Len(graph) = leaves
  /\ graph' = [n \in DOMAIN graph |->
       [graph[n] EXCEPT !.grad = IF @ = Empty THEN Empty ELSE ZerosLike(@)]]
  /\ expected' = 0
  /\ UNCHANGED <<dev, leaves, mode, streams, walk, ops>>

\* Any ops over the variables alive, for graphs no model builds.
FreeOps == {[op |-> "add"], [op |-> "mul"], [op |-> "gelu"]}
Arity(o) == IF o.op \in {"add", "mul"} THEN 2 ELSE 1

FreeForward ==
  /\ Len(graph) < MaxNodes /\ ops < MaxOps /\ ops' = ops + 1
  /\ \E o \in FreeOps : \E kids \in [1..Arity(o) -> DOMAIN graph] : Forward(o, kids)
-----------------------------------------------------------------------------
(* Properties.                                                             *)

Product(g, x) == IF g = Empty THEN 0
                 ELSE Total(Len(g.data), LAMBDA i : Const((g.data[i + 1][1] * x.data[i + 1][2]) % Prime))[1]

\* Nodes whose gradient the wave has still to pass on, and the parameters.
Pending == {n \in DOMAIN graph : \/ n <= leaves
                                 \/ pc = "backward" /\ Contains(sorted, n) /\ graph[n].backward_fn}

\* At every step of every backward pass, the gradients gathered so far account for the
\* whole derivative of the losses since zero_grad: each closure passes on exactly the
\* derivative of its op, along every path, and between micro-batches the parameters'
\* gradients are those of the sum.
WavePreserves ==
  LET sum[m \in 0..Len(graph)] == IF m = 0 THEN 0
        ELSE sum[m - 1] + IF m \in Pending THEN Product(graph[m].grad, graph[m].data) ELSE 0
  IN sum[Len(graph)] % Prime = expected

ReadsLiveData ==
  pc = "backward" => \A n \in DOMAIN graph : Contains(sorted, n) /\ graph[n].backward_fn =>
    /\ graph[n].data # Empty
    /\ \A i \in DOMAIN graph[n].children : graph[graph[n].children[i]].data # Empty

OnlyLossRemains ==
  pc = "done" => /\ graph[root].data # Empty
                 /\ \A n \in (leaves + 1)..Len(graph) :
                      n # root /\ graph[n].requires_grad /\ ~graph[n].backward_fn
                        => graph[n].data = Empty /\ graph[n].grad = Empty

\* A node is retired neither too early nor too late: no closure still to run reads a
\* tensor already freed, and after backward() the graph holds nothing but the loss the
\* caller reads, the leaves, and variables that the loss does not depend on.
RetiredOnTime == ReadsLiveData /\ OnlyLossRemains

\* A variable that requires no gradient never gets one, whatever op it is an operand of:
\* the closures write through pointers, and a frozen tensor has no storage behind them.
FrozenHasNoGrad == \A n \in DOMAIN graph : ~graph[n].requires_grad => graph[n].grad = Empty
=============================================================================
