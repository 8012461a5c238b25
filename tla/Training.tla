------------------------------ MODULE Training ------------------------------
(***************************************************************************)
(* A training step, composed: Trainer::training_step takes micro-batches   *)
(* from the loader (data/dataloader.cpp), runs the model's program (Model) *)
(* over each through the graph (Autograd), then scales, clips and applies  *)
(* the gradients (Optimizer). A checkpoint keeps the weights and the       *)
(* optimizer's state, and a later process goes on from it. A trained model *)
(* generates text (train.cpp, generate_samples) in a session (Inference).  *)
(* Besides the models, graphs of freely chosen ops are explored.           *)
(***************************************************************************)
EXTENDS Autograd, Inference, Optimizer

CONSTANTS
  Programs,    \* what is trained: see Job
  Windows,     \* windows of the dataset
  MaxCrashes   \* bound: processes that die

ASSUME TrainingAssumption == Windows \in Nat \ {0} /\ MaxCrashes \in Nat

\* A program: the architecture it generates text with, or "none"; the shapes of its
\* parameters, the ones that are frozen, the layout of the ids, its code on each device,
\* whether positions may not look ahead, and how long it trains.
Job(arch, shapes, frozen, layout, cpu, metal, causal, steps, micros) ==
  [arch |-> arch, shapes |-> shapes, frozen |-> frozen, layout |-> layout, cpu |-> cpu,
   metal |-> metal, causal |-> causal, steps |-> steps, micros |-> micros]

\* One parameter and one input, and any ops.
Explore == Job("none", <<<<1, 1>>>>, {}, "none", <<>>, <<>>, FALSE, 0, 0)

\* A code is issued in order: every operand is a leaf or an earlier result.
InOrder(code, leaf) ==
  /\ Len(code) \in Nat
  /\ \A i \in 1..Len(code) : /\ code[i].o.op \in OpNames
                             /\ code[i].kids # <<>> /\ code[i].kids \in Seq((-leaf)..(-1) \union 1..(i - 1))

ASSUME ProgramsAssumption ==
  \A p \in Programs : /\ p.steps \in Nat /\ p.micros \in Nat /\ p.shapes \in Seq(Seq(Nat))
                      /\ InOrder(p.cpu, Len(p.shapes) + 2) /\ InOrder(p.metal, Len(p.shapes) + 2)

VARIABLES
  program,     \* what this process runs
  issued,      \* ops of the micro-batch issued; -1: no batch taken yet
  micro,       \* micro-batches done in this step; -1: between steps
  position,    \* the loader's current_index_
  step,        \* steps applied
  opt,         \* the optimizer
  file,        \* the checkpoint last saved
  crashes,
  session,     \* the InferenceSession over the trained model
  firstRun     \* weights after each step, the first time it was applied

progress == <<issued, micro, position>>
runVars  == <<program, progress, step, opt, file, crashes, session, firstRun>>
vars     == <<graphVars, runVars>>

Code   == IF dev = "cpu" THEN program.cpu ELSE program.metal
Params == Len(program.shapes)

\* The ids of a batch: three layouts.
IdsShape(layout, batch) == CASE layout = "batch"    -> <<batch, SeqLen, 1>>
                             [] layout = "rows"     -> <<batch, SeqLen>>
                             [] layout = "sequence" -> <<batch * SeqLen, 1>>

Initial(p, k) == LET n == Numel(p.shapes[k])
                 IN Tensor(p.shapes[k], Floats(n, LAMBDA i :
                      <<Scatter(17 * k + i, 2), IF k \in p.frozen THEN 0 ELSE Scatter(31 * k + i, 3)>>))
InputLeaf == LeafNode(Tensor(<<1, 1>>, <<Const(3)>>), FALSE)

\* The free ops are the same on both devices.
Init ==
  \E device \in Devices, p \in Programs :
    LET leaf == [k \in DOMAIN p.shapes |-> LeafNode(Initial(p, k), k \notin p.frozen)]
        inputs == IF p = Explore THEN <<InputLeaf>> ELSE <<InputLeaf, InputLeaf>>
    IN /\ p = Explore => device = "cpu"
       /\ GraphInit(device, leaf \o inputs)
       /\ program = p /\ issued = -1 /\ micro = -1 /\ position = 0 /\ step = 0
       /\ opt = Fresh(leaf) /\ file = Empty /\ crashes = 0 /\ firstRun = <<>>
       /\ session = NewSession
-----------------------------------------------------------------------------
(* Trainer::training_step.                                                 *)

StartStep ==
  /\ micro = -1 /\ step < program.steps
  /\ ZeroGrad
  /\ micro' = 0 /\ issued' = -1
  /\ UNCHANGED <<program, position, step, opt, file, crashes, session, firstRun>>

\* get_item: a window of tokens, and the same window one token later. Which windows a
\* batch draws is a function of its place in the run.
Token(window, s) == (step + 2 * window + s * s) % Vocab
Window(b)        == (step + micro + b) % Windows

\* next_batch: the last batch of an epoch is short; then reset.
NextBatch ==
  /\ micro \in 0..(program.micros - 1) /\ issued = -1 /\ pc = "forward"
  /\ LET from  == IF position < Windows THEN position ELSE 0
         size  == IF Windows - from < BatchSize THEN Windows - from ELSE BatchSize
         at(e, shift) == Const(Token(Window(e \div SeqLen), (e % SeqLen) + shift))
         ids   == Tensor(IdsShape(program.layout, size), Floats(size * SeqLen, LAMBDA e : at(e, 0)))
         targets == Tensor(<<size * SeqLen, 1>>, Floats(size * SeqLen, LAMBDA e : at(e, 1)))
     IN /\ graph' = [graph EXCEPT ![Params + 1].data = ids, ![Params + 2].data = targets]
        /\ position' = from + size
  /\ issued' = 0
  /\ UNCHANGED <<dev, leaves, mode, streams, walk, expected, ops, program, micro, step, opt,
                 file, crashes, session, firstRun>>

\* An operand of the program: a leaf, or the result of an op.
Variable(k) == IF k < 0 THEN -k ELSE leaves + k
Operands(call) == [i \in DOMAIN call.kids |-> Variable(call.kids[i])]

Issue ==
  /\ issued \in 0..(Len(Code) - 1)
  /\ LET call == Code[issued + 1] IN Forward(call.o, Operands(call))
  /\ issued' = issued + 1
  /\ UNCHANGED <<ops, program, micro, position, step, opt, file, crashes, session, firstRun>>

Backward ==
  /\ program # Explore /\ issued = Len(Code)
  /\ StartBackward(Len(graph))
  /\ UNCHANGED runVars

Wave == BackwardStep /\ UNCHANGED runVars

EndMicro ==
  /\ program # Explore /\ pc = "done"
  /\ Release
  /\ micro' = micro + 1 /\ issued' = -1
  /\ UNCHANGED <<program, position, step, opt, file, crashes, session, firstRun>>

Weights == [k \in 1..Params |-> graph[k].data]

\* scale_grads, clip_grad_norm, step.
UpdateParams ==
  /\ micro = program.micros /\ program # Explore
  /\ LET params  == SubSeq(graph, 1, Params)
         factor  == IF program.micros > 1 THEN Share(program.micros) ELSE One
         scaled  == ScaleGrads(params, factor)
         clip    == ClipCoefficient(SumSquares(scaled))
         clipped == ClipGradNorm(scaled)
         after   == StepParams(opt, clipped)
     IN /\ graph' = after \o SubSeq(graph, Params + 1, leaves)
        /\ opt' = StepState(opt, clipped)
        /\ expected' = Times(Const(expected), Times(factor, clip))[1]
        /\ firstRun' = IF step = Len(firstRun)
                         THEN Append(firstRun, [k \in 1..Params |-> after[k].data]) ELSE firstRun
  /\ step' = step + 1 /\ micro' = -1
  /\ UNCHANGED <<dev, leaves, mode, streams, walk, ops, program, issued, position, file, crashes, session>>
-----------------------------------------------------------------------------
(* Checkpoints.                                                            *)

Save ==
  /\ program # Explore /\ micro = -1 /\ step > 0
  /\ file' = [weights |-> Weights, opt |-> SaveState(opt, SubSeq(graph, 1, Params)), step |-> step]
  /\ UNCHANGED <<graphVars, program, progress, step, opt, crashes, session, firstRun>>

\* A later process loads the weights and the optimizer; its gradients, its graph, its
\* loader and its dropout streams are new.
Resume ==
  /\ file # Empty /\ crashes < MaxCrashes /\ crashes' = crashes + 1
  /\ LET params == [k \in 1..Params |-> [graph[k] EXCEPT !.data = file.weights[k], !.grad = Empty]]
     IN /\ Loads(file.opt, params)
        /\ graph' = params \o <<InputLeaf, InputLeaf>>
        /\ opt' = LoadState(file.opt, params)
  /\ step' = file.step /\ issued' = -1 /\ micro' = -1 /\ position' = 0
  /\ streams' = 0 /\ pc' = "forward" /\ root' = 0 /\ sorted' = <<>> /\ expected' = 0
  /\ session' = NewSession
  /\ UNCHANGED <<dev, leaves, mode, ops, program, file, firstRun>>
-----------------------------------------------------------------------------
(* Generation, once training is over.                                      *)

Modern == program.arch = "modern"

Generate ==
  /\ program.arch # "none" /\ micro = -1 /\ step = program.steps
  /\ Len(session.tokens) < MaxLength
  /\ \E token \in 0..(Vocab - 1) : session' = SessionStep(session, Weights, token, Modern)
  /\ UNCHANGED <<graphVars, program, progress, step, opt, file, crashes, firstRun>>
-----------------------------------------------------------------------------
(* Free exploration of the graph.                                          *)

Exploring(Action) == program = Explore /\ Action /\ UNCHANGED runVars

ExploreForward  == Exploring(FreeForward)
ExploreEnter    == Exploring(EnterNoGrad)
ExploreExit     == Exploring(ExitNoGrad)
ExploreBackward == Exploring(\E r \in DOMAIN graph : StartBackward(r))
ExploreRelease  == Exploring(Release)
ExploreZeroGrad == Exploring(ZeroGrad)

Next == \/ StartStep \/ NextBatch \/ Issue \/ Backward \/ Wave \/ EndMicro \/ UpdateParams
        \/ Save \/ Resume \/ Generate
        \/ ExploreForward \/ ExploreEnter \/ ExploreExit \/ ExploreBackward
        \/ ExploreRelease \/ ExploreZeroGrad

Spec == Init /\ [][Next]_vars
-----------------------------------------------------------------------------
(* Properties.                                                             *)

\* The op just issued.
Issued  == program # Explore /\ pc = "forward" /\ issued > 0
LastOp  == Code[issued].o
LastIn  == Data(Operands(Code[issued])) \o <<>>
LastOut == graph[Len(graph)].data

\* Row (b, i) of what a forward op computes depends on its activations at the positions
\* up to i of sequence b alone: blanking the others changes nothing. Batches do not mix
\* and nothing looks ahead, dropout included, in the batched layout as in the 2D one.
NoPeeking ==
  Issued /\ program.causal /\ Len(LastOut.data) > 1 =>
    LET call == Code[issued]
        rows == Len(graph[Params + 1].data.data)
        S == IF program.layout = "sequence" THEN rows ELSE SeqLen
        seen(e, width, r) == LET q == e \div width IN q \div S = r \div S /\ q <= r
        blanked(t, r) == Tensor(t.shape, Floats(Len(t.data), LAMBDA e :
                           IF seen(e, Len(t.data) \div rows, r) THEN t.data[e + 1] ELSE Zero))
        activation(k) == k > 0 \/ -k = Params + 1
        in(r) == [j \in DOMAIN call.kids |->
                    IF activation(call.kids[j]) THEN blanked(LastIn[j], r) ELSE LastIn[j]] \o <<>>
        stream == streams - Streams(LastOp, LastIn)
        width  == Len(LastOut.data) \div rows
        row(t, r) == SubSeq(t.data, r * width + 1, (r + 1) * width)
    IN \A r \in 0..(rows - 1) : row(Forwarded(dev, LastOp, in(r), stream), r) = row(LastOut, r)

\* What each operand of the op just issued would be given by the code of a device.
Gradients(d, stream) ==
  LET saved == Saved(d, LastOp, LastIn, stream)
      wants == [j \in DOMAIN Listed(LastOp, LastIn) |-> TRUE]
  IN [j \in Written(LastOp, wants) |-> Contribution(d, LastOp, LastIn, saved, LastOut, LastOut, j)]

Same(of) == of["cpu"] = of["metal"]

\* The Metal code of an op computes what its CPU code computes, and gives every operand
\* the same gradient.
DevicesAgree ==
  Issued /\ LastOp.op # "attention" =>
    LET x == LastIn[1]
        stream == streams - Streams(LastOp, LastIn)
    IN /\ Same([d \in Devices |-> <<Forwarded(d, LastOp, LastIn, stream), Gradients(d, stream)>>])
       /\ LastOp.op = "cross_entropy" =>
            LastOut.data[1] = NllLoss(Tensor(x.shape, LogSoftmaxRows(x.data, Cols(x))), LastIn[2])

\* A run that dies and goes on from its checkpoint makes, on the same batches, the very
\* updates it would have made: the checkpoint keeps all that an update depends on.
ResumeIsExact == micro = -1 /\ step \in DOMAIN firstRun => Weights = firstRun[step]

\* The variables of the code issued on leaves, without a graph: what a forward pass
\* computes.
Results(code, inputs) ==
  LET at(r, k) == r[IF k < 0 THEN -k ELSE Len(inputs) + k]
      apply(r, call) == LET in == [j \in DOMAIN call.kids |-> at(r, call.kids[j])] \o <<>>
                        IN Append(r, Forwarded("cpu", call.o, in, 0))
  IN FoldLeft(apply, inputs, code)

Tokens(s) == Tensor(<<1, Len(s), 1>>, Floats(Len(s), LAMBDA i : Const(s[i + 1])))
LastRow(t) == SubSeq(t.data, Len(t.data) - Cols(t) + 1, Len(t.data))

\* Token by token, over its caches, a session computes the logits that the forward pass
\* used in training computes for the last position of the tokens so far.
DecodesAsTrained ==
  session.tokens # <<>> =>
    session.logits = LastRow(Last(Results(GPTForward(Config(Modern, FALSE, 0)).code,
                                          Append(Weights, Tokens(session.tokens)))))
=============================================================================
