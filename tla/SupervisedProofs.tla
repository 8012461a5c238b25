-------------------------- MODULE SupervisedProofs --------------------------
(***************************************************************************)
(* Proofs about TrainerRun and about a run under the supervisor script,    *)
(* for every number of steps, interval and fault budget: as long as no run *)
(* starts from scratch over an old resume pair, the pair never skips a     *)
(* step, the final checkpoint is complete and a visible file is never torn *)
(* (the inductive invariant is IInv); two files renamed one after the      *)
(* other implement one atomic save, a paused run has saved the step it     *)
(* stopped after, and the bar best_val_loss is always backed by a file.    *)
(* Then the same with the script's restarts and with reboots of the        *)
(* machine, and what the script adds.                                      *)
(***************************************************************************)
EXTENDS Supervised, TLAPS

-----------------------------------------------------------------------------
(* The inductive invariant of a run, one lemma per action.                 *)

\* One training step adds exactly the step it ran.
LEMMA ContainsNext ==
  ASSUME NEW w \in Weights, NEW s \in Steps, NEW l \in 0..MaxLoss, Contains(w, s)
  PROVE  LET v == [w EXCEPT !.applied = @ \union {s}, !.loss = l]
         IN  v \in Weights /\ v.run = w.run /\ Contains(v, s + 1)
<1> DEFINE v == [w EXCEPT !.applied = @ \union {s}, !.loss = l]
<1>1. v \in Weights /\ v.run = w.run /\ v.applied = w.applied \union {s}
  BY DEF Weights
<1>2. 0..((s + 1) - 1) \subseteq v.applied
  BY <1>1, RunAssumption DEF Contains, Steps
<1>. QED  BY <1>1, <1>2 DEF Contains

LEMMA Initially == Init => IInv
<1> SUFFICES ASSUME Init PROVE IInv
  OBVIOUS
<1>1. TypeOK
  BY RunAssumption DEF Init, TypeOK, ControlOK, DiskOK, CountersOK, PCs, Ctxs, Exits, Signals, Files, Inf
<1>2. disk["state"] = NoFile /\ disk["final"] = NoFile
  BY DEF Init, Files
<1>3. PhaseInv /\ RunInv /\ TmpInv
  BY <1>2 DEF Init, PhaseInv, RunInv, TmpInv, Checkpointing, SavingResume
<1>4. NoStepSkipped /\ PairReplays /\ FinalIsComplete
  BY <1>2 DEF Init, NoStepSkipped, PairReplays, FinalIsComplete
<1>. QED  BY <1>1, <1>3, <1>4 DEF IInv

LEMMA SaveTyped == IInv /\ pc \in SavingResume => StateToSave \in ResumeState
BY RunAssumption DEF IInv, TypeOK, ControlOK, CountersOK, PhaseInv, RunInv, SavingResume, Checkpointing,
   StateToSave, NextStep, Weights, ResumeState

LEMMA ExitTypes == ASSUME NEW how \in Exits, Exit(how) PROVE ControlOK'
BY RunAssumption DEF Exit, ControlOK, PCs, Ctxs, Inf

LEMMA GotoTypes ==
  ASSUME ControlOK, NEW p \in PCs, NEW c \in Ctxs, Goto(p, c), Stay
  PROVE  ControlOK'
BY DEF Goto, Stay, ControlOK

LEMMA AfterEvalTypes == ControlOK /\ AfterEval /\ Stay => ControlOK'
BY GotoTypes DEF AfterEval, PCs, Ctxs

LEMMA ResumeReturnsTypes ==
  ASSUME IInv, pc \in SavingResume, NEW ok \in BOOLEAN, ResumeReturns(ok)
  PROVE  ControlOK'
<1>1. ControlOK /\ ctx \in {"eval", "stop", "final"}
  BY DEF IInv, TypeOK, PhaseInv
<1>2. CASE ctx = "eval"
  BY <1>1, <1>2, AfterEvalTypes DEF ResumeReturns
<1>3. CASE ctx = "stop"
  <2>1. \E how \in Exits : Exit(how)
    BY <1>3 DEF ResumeReturns, Exits
  <2>. QED  BY <2>1, ExitTypes
<1>4. CASE ctx = "final"
  BY <1>4, ExitTypes DEF ResumeReturns, Exits
<1>. QED  BY <1>1, <1>2, <1>3, <1>4

LEMMA CheckpointReturnsTypes ==
  ASSUME IInv, pc \in Checkpointing, NEW ok \in BOOLEAN, CheckpointReturns(ok)
  PROVE  ControlOK'
<1>1. ControlOK /\ ctx \in {"best", "step", "final"} /\ weights \in Weights /\ weights.loss \in 0..MaxLoss
  BY DEF IInv, TypeOK, PhaseInv, RunInv, Checkpointing, Weights
<1>2. CASE ctx = "best"
  <2>1. Goto("modelWrite", "eval") /\ best' = (IF ok THEN weights.loss ELSE best)
        /\ UNCHANGED <<step, weights, opt, stop, armed>>
    BY <1>2 DEF CheckpointReturns
  <2>2. best' \in 0..Inf
    BY <1>1, <2>1, RunAssumption DEF ControlOK, Inf
  <2>. QED  BY <1>1, <2>1, <2>2 DEF Goto, ControlOK, PCs, Ctxs
<1>3. CASE ctx = "step"
  BY <1>1, <1>3, GotoTypes DEF CheckpointReturns, PCs, Ctxs
<1>4. CASE ctx = "final"
  BY <1>1, <1>4, GotoTypes, ExitTypes DEF CheckpointReturns, PCs, Ctxs, Exits
<1>. QED  BY <1>1, <1>2, <1>3, <1>4

LEMMA SaveTypes == ASSUME IInv, NEW ok \in BOOLEAN, Save(ok) PROVE TypeOK'
<1>1. CASE WriteCheckpoint(ok)
  <2>1. ControlOK /\ pc \in Checkpointing
    BY <1>1 DEF IInv, TypeOK, WriteCheckpoint, Checkpointing
  <2>2. ControlOK'
    <3>1. CASE ok
      BY <1>1, <2>1, <3>1, CheckpointReturnsTypes, GotoTypes DEF IInv, PhaseInv, WriteCheckpoint, PCs, Ctxs, Checkpointing
    <3>2. CASE ~ok
      BY <1>1, <2>1, <3>2, CheckpointReturnsTypes DEF WriteCheckpoint
    <3>. QED  BY <3>1, <3>2
  <2>3. DiskOK'
    <3>1. CASE ok
      BY <1>1, <2>1, <3>1, SaveTyped DEF IInv, TypeOK, DiskOK, PhaseInv, RunInv, TmpInv, WriteCheckpoint, Files, Checkpointing, SavingResume
    <3>2. CASE ~ok
      BY <1>1, <2>1, <3>2 DEF IInv, TypeOK, DiskOK, PhaseInv, WriteCheckpoint, Files, Checkpointing
    <3>. QED  BY <3>1, <3>2
  <2>4. CountersOK'
    BY <1>1 DEF IInv, TypeOK, CountersOK, Outcome, WriteCheckpoint
  <2>. QED  BY <2>2, <2>3, <2>4 DEF TypeOK
<1>2. CASE RenameCheckpoint(ok)
  <2>1. ControlOK /\ pc \in Checkpointing
    BY <1>2 DEF IInv, TypeOK, RenameCheckpoint, Checkpointing
  <2>2. ControlOK'
    <3>1. CASE ok
      BY <1>2, <2>1, <3>1, CheckpointReturnsTypes, GotoTypes DEF IInv, PhaseInv, RenameCheckpoint, PCs, Ctxs, Checkpointing
    <3>2. CASE ~ok
      BY <1>2, <2>1, <3>2, CheckpointReturnsTypes DEF RenameCheckpoint
    <3>. QED  BY <3>1, <3>2
  <2>3. DiskOK'
    <3>1. CASE ok
      BY <1>2, <2>1, <3>1, SaveTyped DEF IInv, TypeOK, DiskOK, PhaseInv, RunInv, TmpInv, RenameCheckpoint, Files, Checkpointing, SavingResume
    <3>2. CASE ~ok
      BY <1>2, <2>1, <3>2 DEF IInv, TypeOK, DiskOK, PhaseInv, RenameCheckpoint, Files, Checkpointing
    <3>. QED  BY <3>1, <3>2
  <2>4. CountersOK'
    BY <1>2 DEF IInv, TypeOK, CountersOK, Outcome, RenameCheckpoint
  <2>. QED  BY <2>2, <2>3, <2>4 DEF TypeOK
<1>3. CASE WriteModel(ok)
  <2>1. ControlOK /\ pc \in SavingResume
    BY <1>3 DEF IInv, TypeOK, WriteModel, SavingResume
  <2>2. ControlOK'
    <3>1. CASE ok
      BY <1>3, <2>1, <3>1, ResumeReturnsTypes, GotoTypes DEF IInv, PhaseInv, WriteModel, PCs, Ctxs, Checkpointing
    <3>2. CASE ~ok
      BY <1>3, <2>1, <3>2, ResumeReturnsTypes DEF WriteModel
    <3>. QED  BY <3>1, <3>2
  <2>3. DiskOK'
    <3>1. CASE ok
      BY <1>3, <2>1, <3>1, SaveTyped DEF IInv, TypeOK, DiskOK, PhaseInv, RunInv, TmpInv, WriteModel, Files, Checkpointing, SavingResume
    <3>2. CASE ~ok
      BY <1>3, <2>1, <3>2 DEF IInv, TypeOK, DiskOK, PhaseInv, WriteModel, Files, Checkpointing
    <3>. QED  BY <3>1, <3>2
  <2>4. CountersOK'
    BY <1>3 DEF IInv, TypeOK, CountersOK, Outcome, WriteModel
  <2>. QED  BY <2>2, <2>3, <2>4 DEF TypeOK
<1>4. CASE WriteState(ok)
  <2>1. ControlOK /\ pc \in SavingResume
    BY <1>4 DEF IInv, TypeOK, WriteState, SavingResume
  <2>2. ControlOK'
    <3>1. CASE ok
      BY <1>4, <2>1, <3>1, ResumeReturnsTypes, GotoTypes DEF IInv, PhaseInv, WriteState, PCs, Ctxs, Checkpointing
    <3>2. CASE ~ok
      BY <1>4, <2>1, <3>2, ResumeReturnsTypes DEF WriteState
    <3>. QED  BY <3>1, <3>2
  <2>3. DiskOK'
    <3>1. CASE ok
      BY <1>4, <2>1, <3>1, SaveTyped DEF IInv, TypeOK, DiskOK, PhaseInv, RunInv, TmpInv, WriteState, Files, Checkpointing, SavingResume
    <3>2. CASE ~ok
      BY <1>4, <2>1, <3>2 DEF IInv, TypeOK, DiskOK, PhaseInv, WriteState, Files, Checkpointing
    <3>. QED  BY <3>1, <3>2
  <2>4. CountersOK'
    BY <1>4 DEF IInv, TypeOK, CountersOK, Outcome, WriteState
  <2>. QED  BY <2>2, <2>3, <2>4 DEF TypeOK
<1>5. CASE RenameModel(ok)
  <2>1. ControlOK /\ pc \in SavingResume
    BY <1>5 DEF IInv, TypeOK, RenameModel, SavingResume
  <2>2. ControlOK'
    <3>1. CASE ok
      BY <1>5, <2>1, <3>1, ResumeReturnsTypes, GotoTypes DEF IInv, PhaseInv, RenameModel, PCs, Ctxs, Checkpointing
    <3>2. CASE ~ok
      BY <1>5, <2>1, <3>2, ResumeReturnsTypes DEF RenameModel
    <3>. QED  BY <3>1, <3>2
  <2>3. DiskOK'
    <3>1. CASE ok
      BY <1>5, <2>1, <3>1, SaveTyped DEF IInv, TypeOK, DiskOK, PhaseInv, RunInv, TmpInv, RenameModel, Files, Checkpointing, SavingResume
    <3>2. CASE ~ok
      BY <1>5, <2>1, <3>2 DEF IInv, TypeOK, DiskOK, PhaseInv, RenameModel, Files, Checkpointing
    <3>. QED  BY <3>1, <3>2
  <2>4. CountersOK'
    BY <1>5 DEF IInv, TypeOK, CountersOK, Outcome, RenameModel
  <2>. QED  BY <2>2, <2>3, <2>4 DEF TypeOK
<1>6. CASE RenameState(ok)
  <2>1. ControlOK /\ pc \in SavingResume
    BY <1>6 DEF IInv, TypeOK, RenameState, SavingResume
  <2>2. ControlOK'
    <3>1. CASE ok
      BY <1>6, <2>1, <3>1, ResumeReturnsTypes, GotoTypes DEF IInv, PhaseInv, RenameState, PCs, Ctxs, Checkpointing
    <3>2. CASE ~ok
      BY <1>6, <2>1, <3>2, ResumeReturnsTypes DEF RenameState
    <3>. QED  BY <3>1, <3>2
  <2>3. DiskOK'
    <3>1. CASE ok
      BY <1>6, <2>1, <3>1, SaveTyped DEF IInv, TypeOK, DiskOK, PhaseInv, RunInv, TmpInv, RenameState, Files, Checkpointing, SavingResume
    <3>2. CASE ~ok
      BY <1>6, <2>1, <3>2 DEF IInv, TypeOK, DiskOK, PhaseInv, RenameState, Files, Checkpointing
    <3>. QED  BY <3>1, <3>2
  <2>4. CountersOK'
    BY <1>6 DEF IInv, TypeOK, CountersOK, Outcome, RenameState
  <2>. QED  BY <2>2, <2>3, <2>4 DEF TypeOK
<1>. QED  BY <1>1, <1>2, <1>3, <1>4, <1>5, <1>6 DEF Save

LEMMA WriteCheckpointPreserves ==
  ASSUME IInv, NEW ok \in BOOLEAN, WriteCheckpoint(ok) PROVE IInv'
<1>. USE RunAssumption DEF IInv, TypeOK, ControlOK, DiskOK, Files, PhaseInv, Checkpointing,
         SavingResume, WriteCheckpoint, CheckpointReturns, Exit, Goto, Stay
<1>1. TypeOK'
  BY SaveTypes DEF Save
<1>2. PhaseInv'
  BY DEF TmpInv, RunInv
<1>3. RunInv'
  BY DEF RunInv, Done, TmpInv, PairReplays, CountersOK, ResumeState, Weights
<1>4. TmpInv'
  BY DEF TmpInv, RunInv
<1>5. NoStepSkipped'
  BY DEF NoStepSkipped, Done, Contains, RunInv
<1>6. PairReplays'
  BY DEF PairReplays, TmpInv, RunInv, NoStepSkipped, Done, Contains, ResumeState, Weights
<1>7. FinalIsComplete'
  BY DEF FinalIsComplete, TmpInv, NoStepSkipped, Done, Contains
<1>. QED  BY <1>1, <1>2, <1>3, <1>4, <1>5, <1>6, <1>7 DEF IInv

LEMMA RenameCheckpointPreserves ==
  ASSUME IInv, NEW ok \in BOOLEAN, RenameCheckpoint(ok) PROVE IInv'
<1>. USE RunAssumption DEF IInv, TypeOK, ControlOK, DiskOK, Files, PhaseInv, Checkpointing,
         SavingResume, RenameCheckpoint, CheckpointReturns, Exit, Goto, Stay
<1>1. TypeOK'
  BY SaveTypes DEF Save
<1>2. PhaseInv'
  BY DEF TmpInv, RunInv
<1>3. RunInv'
  BY DEF RunInv, Done, TmpInv, PairReplays, CountersOK, ResumeState, Weights
<1>4. TmpInv'
  BY DEF TmpInv, RunInv
<1>5. NoStepSkipped'
  BY DEF NoStepSkipped, Done, Contains, RunInv
<1>6. PairReplays'
  BY DEF PairReplays, TmpInv, RunInv, NoStepSkipped, Done, Contains, ResumeState, Weights
<1>7. FinalIsComplete'
  BY DEF FinalIsComplete, TmpInv, NoStepSkipped, Done, Contains
<1>. QED  BY <1>1, <1>2, <1>3, <1>4, <1>5, <1>6, <1>7 DEF IInv

LEMMA WriteModelPreserves ==
  ASSUME IInv, NEW ok \in BOOLEAN, WriteModel(ok) PROVE IInv'
<1>. USE RunAssumption DEF IInv, TypeOK, ControlOK, DiskOK, Files, PhaseInv, Checkpointing,
         SavingResume, WriteModel, ResumeReturns, AfterEval, Exit, Goto, Stay
<1>1. TypeOK'
  BY SaveTypes DEF Save
<1>2. PhaseInv'
  BY DEF TmpInv, RunInv
<1>3. RunInv'
  BY DEF RunInv, Done, TmpInv, PairReplays, CountersOK, ResumeState, Weights
<1>4. TmpInv'
  BY DEF TmpInv, RunInv
<1>5. NoStepSkipped'
  BY DEF NoStepSkipped, Done, Contains, RunInv
<1>6. PairReplays'
  BY DEF PairReplays, TmpInv, RunInv, NoStepSkipped, Done, Contains, ResumeState, Weights
<1>7. FinalIsComplete'
  BY DEF FinalIsComplete, TmpInv, NoStepSkipped, Done, Contains
<1>. QED  BY <1>1, <1>2, <1>3, <1>4, <1>5, <1>6, <1>7 DEF IInv

LEMMA WriteStatePreserves ==
  ASSUME IInv, NEW ok \in BOOLEAN, WriteState(ok) PROVE IInv'
<1>. USE RunAssumption DEF IInv, TypeOK, ControlOK, DiskOK, Files, PhaseInv, Checkpointing,
         SavingResume, WriteState, StateToSave, NextStep, ResumeReturns, AfterEval, Exit, Goto, Stay
<1>1. TypeOK'
  BY SaveTypes DEF Save
<1>2. PhaseInv'
  BY DEF TmpInv, RunInv
<1>3. RunInv'
  BY DEF RunInv, Done, TmpInv, PairReplays, CountersOK, ResumeState, Weights
<1>4. TmpInv'
  BY DEF TmpInv, RunInv
<1>5. NoStepSkipped'
  BY DEF NoStepSkipped, Done, Contains, RunInv
<1>6. PairReplays'
  BY DEF PairReplays, TmpInv, RunInv, NoStepSkipped, Done, Contains, ResumeState, Weights
<1>7. FinalIsComplete'
  BY DEF FinalIsComplete, TmpInv, NoStepSkipped, Done, Contains
<1>. QED  BY <1>1, <1>2, <1>3, <1>4, <1>5, <1>6, <1>7 DEF IInv

LEMMA RenameModelPreserves ==
  ASSUME IInv, NEW ok \in BOOLEAN, RenameModel(ok) PROVE IInv'
<1>. USE RunAssumption DEF IInv, TypeOK, ControlOK, DiskOK, Files, PhaseInv, Checkpointing,
         SavingResume, RenameModel, StateToSave, NextStep, ResumeReturns, AfterEval, Exit, Goto, Stay
<1>1. TypeOK'
  BY SaveTypes DEF Save
<1>2. PhaseInv'
  BY DEF TmpInv, RunInv
<1>3. RunInv'
  BY DEF RunInv, Done, TmpInv, PairReplays, CountersOK, ResumeState, Weights
<1>4. TmpInv'
  BY DEF TmpInv, RunInv
<1>5. NoStepSkipped'
  BY DEF NoStepSkipped, Done, Contains, RunInv
<1>6. PairReplays'
  <2>1. CASE ok
    <3>1. disk'["model"] = weights /\ disk'["state"] = disk["state"]
      BY <2>1 DEF TmpInv
    <3>2. disk["state"] # NoFile =>
            disk["state"] \in ResumeState /\ disk["state"].next <= step + 1
            /\ (ctx = "final" => disk["state"].next <= step)
      BY DEF PairReplays, RunInv, Done, ResumeState
    <3>. QED  BY <3>1, <3>2 DEF PairReplays, RunInv, NoStepSkipped, Done, Contains, ResumeState
  <2>2. CASE ~ok
    BY <2>2 DEF PairReplays
  <2>. QED  BY <2>1, <2>2
<1>7. FinalIsComplete'
  BY DEF FinalIsComplete, TmpInv, NoStepSkipped, Done, Contains
<1>. QED  BY <1>1, <1>2, <1>3, <1>4, <1>5, <1>6, <1>7 DEF IInv

LEMMA RenameStatePreserves ==
  ASSUME IInv, NEW ok \in BOOLEAN, RenameState(ok) PROVE IInv'
<1>. USE RunAssumption DEF IInv, TypeOK, ControlOK, DiskOK, Files, PhaseInv, Checkpointing,
         SavingResume, RenameState, StateToSave, NextStep, ResumeReturns, AfterEval, Exit, Goto, Stay
<1>1. TypeOK'
  BY SaveTypes DEF Save
<1>2. PhaseInv'
  BY DEF TmpInv, RunInv
<1>3. RunInv'
  <2>1. CASE ok
    <3>1. disk'["state"] = StateToSave
      BY <2>1 DEF TmpInv
    <3>2. disk'["state"].run = runs /\ disk'["state"].next = (IF ctx = "final" THEN NumSteps ELSE step + 1)
      BY <3>1 DEF RunInv
    <3>3. runs' = runs
      OBVIOUS
    <3>4. CASE ctx = "eval"
      <4>1. weights' = weights /\ step' = step /\ pc' \in {"ckptWrite", "boundary"} /\ ctx' # "final"
        BY <3>4
      <4>. QED  BY <3>2, <3>3, <3>4, <4>1 DEF RunInv, Done
    <3>5. CASE ctx # "eval"
      <4>1. pc' = "down"
        BY <3>5
      <4>. QED  BY <3>2, <3>3, <4>1 DEF RunInv
    <3>. QED  BY <3>4, <3>5
  <2>2. CASE ~ok
    BY <2>2 DEF RunInv, Done, PairReplays
  <2>. QED  BY <2>1, <2>2
<1>4. TmpInv'
  BY DEF TmpInv, RunInv
<1>5. NoStepSkipped'
  BY DEF NoStepSkipped, Done, Contains, RunInv
<1>6. PairReplays'
  BY DEF PairReplays, TmpInv, RunInv, NoStepSkipped, Done, Contains, ResumeState, Weights
<1>7. FinalIsComplete'
  BY DEF FinalIsComplete, TmpInv, NoStepSkipped, Done, Contains
<1>. QED  BY <1>1, <1>2, <1>3, <1>4, <1>5, <1>6, <1>7 DEF IInv

LEMMA StartFreshPreserves == ASSUME IInv, ~FreshOverOld, StartFresh PROVE IInv'
<1>. USE RunAssumption DEF IInv, TypeOK, ControlOK, DiskOK, Files, PhaseInv, Checkpointing,
         SavingResume, StartFresh, Begin
<1>1. TypeOK'
  BY DEF CountersOK, DiskOK, PCs, Ctxs, Exits, Signals, Inf, ResumeState, Weights
<1>2. PhaseInv'
  BY DEF TmpInv
<1>3. RunInv'
  BY DEF RunInv, Done, CountersOK, ResumeState, PairReplays, Weights
<1>4. TmpInv'
  BY DEF TmpInv
<1>5. NoStepSkipped'
  <2>1. weights' = [run |-> runs + 1, applied |-> {}, loss |-> 0] /\ opt' = 0 /\ Done' = 0
    BY DEF Done
  <2>2. weights' \in Weights
    BY <2>1 DEF Weights, CountersOK
  <2>3. 0..(0 - 1) = {}
    OBVIOUS
  <2>. QED  BY <2>1, <2>2, <2>3 DEF NoStepSkipped, Contains
<1>6. PairReplays'
  BY DEF PairReplays
<1>7. FinalIsComplete'
  BY DEF FinalIsComplete
<1>. QED  BY <1>1, <1>2, <1>3, <1>4, <1>5, <1>6, <1>7 DEF IInv

LEMMA ResumeCompletedPreserves == ASSUME IInv, ResumeCompleted PROVE IInv'
<1>. USE RunAssumption DEF IInv, TypeOK, ControlOK, DiskOK, Files, PhaseInv, Checkpointing,
         SavingResume, ResumeCompleted, memory, Counters
<1>1. TypeOK'
  BY DEF CountersOK, DiskOK, PCs, Ctxs, Exits, Signals, Inf, ResumeState, Weights
<1>2. PhaseInv'
  BY DEF TmpInv
<1>3. RunInv'
  BY DEF RunInv, Done, CountersOK, ResumeState, PairReplays, Weights
<1>4. TmpInv'
  BY DEF TmpInv
<1>5. NoStepSkipped'
  BY DEF NoStepSkipped, Done, Contains, RunInv, PairReplays, ResumeState, Weights
<1>6. PairReplays'
  BY DEF PairReplays
<1>7. FinalIsComplete'
  BY DEF FinalIsComplete
<1>. QED  BY <1>1, <1>2, <1>3, <1>4, <1>5, <1>6, <1>7 DEF IInv

LEMMA StartResumePreserves == ASSUME IInv, StartResume PROVE IInv'
<1>. USE RunAssumption DEF IInv, TypeOK, ControlOK, DiskOK, Files, PhaseInv, Checkpointing,
         SavingResume, StartResume, Resumable, Begin, Counters
<1>1. TypeOK'
  BY DEF CountersOK, DiskOK, PCs, Ctxs, Exits, Signals, Inf, ResumeState, Weights
<1>2. PhaseInv'
  BY DEF TmpInv
<1>3. RunInv'
  BY DEF RunInv, Done, CountersOK, ResumeState, PairReplays, Weights
<1>4. TmpInv'
  BY DEF TmpInv
<1>5. NoStepSkipped'
  BY DEF NoStepSkipped, Done, Contains, RunInv, PairReplays, ResumeState, Weights
<1>6. PairReplays'
  BY DEF PairReplays
<1>7. FinalIsComplete'
  BY DEF FinalIsComplete
<1>. QED  BY <1>1, <1>2, <1>3, <1>4, <1>5, <1>6, <1>7 DEF IInv

LEMMA EvaluatePreserves == ASSUME IInv, Evaluate PROVE IInv'
<1>. USE RunAssumption DEF IInv, TypeOK, ControlOK, DiskOK, Files, PhaseInv, Checkpointing,
         SavingResume, Evaluate, Goto, Stay, Counters
<1>1. TypeOK'
  BY DEF CountersOK, DiskOK, PCs, Ctxs, Exits, Signals, Inf, ResumeState, Weights
<1>2. PhaseInv'
  BY DEF TmpInv
<1>3. RunInv'
  BY DEF RunInv, Done, CountersOK, ResumeState, PairReplays, Weights
<1>4. TmpInv'
  BY DEF TmpInv
<1>5. NoStepSkipped'
  BY DEF NoStepSkipped, Done, Contains, RunInv, PairReplays, ResumeState, Weights
<1>6. PairReplays'
  BY DEF PairReplays
<1>7. FinalIsComplete'
  BY DEF FinalIsComplete
<1>. QED  BY <1>1, <1>2, <1>3, <1>4, <1>5, <1>6, <1>7 DEF IInv

LEMMA BoundaryPreserves == ASSUME IInv, Boundary PROVE IInv'
<1>. USE RunAssumption DEF IInv, TypeOK, ControlOK, DiskOK, Files, PhaseInv, Checkpointing,
         SavingResume, Boundary, Goto, Counters
<1>1. TypeOK'
  BY DEF CountersOK, DiskOK, PCs, Ctxs, Exits, Signals, Inf, ResumeState, Weights
<1>2. PhaseInv'
  BY DEF TmpInv
<1>3. RunInv'
  BY DEF RunInv, Done, CountersOK, ResumeState, PairReplays, Weights
<1>4. TmpInv'
  BY DEF TmpInv
<1>5. NoStepSkipped'
  BY DEF NoStepSkipped, Done, Contains, RunInv, PairReplays, ResumeState, Weights
<1>6. PairReplays'
  BY DEF PairReplays
<1>7. FinalIsComplete'
  BY DEF FinalIsComplete
<1>. QED  BY <1>1, <1>2, <1>3, <1>4, <1>5, <1>6, <1>7 DEF IInv

LEMMA FinishLoopPreserves == ASSUME IInv, FinishLoop PROVE IInv'
<1>. USE RunAssumption DEF IInv, TypeOK, ControlOK, DiskOK, Files, PhaseInv, Checkpointing,
         SavingResume, FinishLoop, Goto, Counters
<1>1. TypeOK'
  BY DEF CountersOK, DiskOK, PCs, Ctxs, Exits, Signals, Inf, ResumeState, Weights
<1>2. PhaseInv'
  BY DEF TmpInv
<1>3. RunInv'
  BY DEF RunInv, Done, CountersOK, ResumeState, PairReplays, Weights
<1>4. TmpInv'
  BY DEF TmpInv
<1>5. NoStepSkipped'
  BY DEF NoStepSkipped, Done, Contains, RunInv, PairReplays, ResumeState, Weights
<1>6. PairReplays'
  BY DEF PairReplays
<1>7. FinalIsComplete'
  BY DEF FinalIsComplete
<1>. QED  BY <1>1, <1>2, <1>3, <1>4, <1>5, <1>6, <1>7 DEF IInv

LEMMA TrainStepPreserves == ASSUME IInv, TrainStep PROVE IInv'
<1>. USE RunAssumption DEF IInv, TypeOK, ControlOK, DiskOK, CountersOK, Files, PhaseInv,
         Checkpointing, SavingResume, TrainStep, AfterEval, Goto, Counters
<1>1. PICK l \in Losses : weights' = [weights EXCEPT !.applied = @ \union {step}, !.loss = l]
  OBVIOUS
<1>2. step \in Steps /\ weights \in Weights /\ Contains(weights, step) /\ l \in 0..MaxLoss
  BY <1>1 DEF Steps, Losses, RunInv, NoStepSkipped, Done
<1>3. weights' \in Weights /\ weights'.run = weights.run /\ Contains(weights', step + 1)
  BY <1>1, <1>2, ContainsNext
<1>4. pc' \in {"eval", "ckptWrite", "boundary"} /\ ctx' \in {"none", "step"} /\ (ctx' = "step" <=> pc' = "ckptWrite")
  OBVIOUS
<1>5. UNCHANGED <<rc, step, best, stop, armed, disk, tmp, runs, faults, signals>> /\ opt' = opt + 1
  OBVIOUS
<1>. HIDE DEF AfterEval, TrainStep, Goto
<1>6. TypeOK'
  <2>1. ControlOK'
    BY <1>3, <1>4, <1>5 DEF PCs, Ctxs
  <2>2. DiskOK' /\ CountersOK'
    BY <1>5
  <2>. QED  BY <2>1, <2>2
<1>7. PhaseInv'
  BY <1>2, <1>4, <1>5 DEF Steps
<1>8. RunInv'
  BY <1>2, <1>3, <1>4, <1>5 DEF RunInv, Done, PairReplays, ResumeState, Steps, TrainStep
<1>9. TmpInv'
  BY <1>4 DEF TmpInv
<1>10. PairReplays' /\ FinalIsComplete'
  BY <1>5 DEF PairReplays, FinalIsComplete, Contains
<1>11. NoStepSkipped'
  BY <1>2, <1>3, <1>4, <1>5 DEF NoStepSkipped, Done, TrainStep
<1>. QED  BY <1>6, <1>7, <1>8, <1>9, <1>10, <1>11 DEF IInv

\* A death changes nothing a later process relies on.
LEMMA DiePreserves ==
  ASSUME IInv, NEW how \in {"killed", "sigint"}, Die(how), faults' \in Nat, signals' \in Nat
  PROVE  IInv'
<1>. USE DEF IInv, TypeOK, Die
<1>1. ControlOK'
  BY ExitTypes DEF Exits
<1>2. DiskOK' /\ CountersOK'
  BY DEF DiskOK, CountersOK, BeingWritten
<1>3. pc' = "down" /\ ctx' = "none" /\ rc' # "finished" /\ UNCHANGED <<disk, runs>>
  BY DEF Exit
<1>4. PhaseInv' /\ RunInv' /\ TmpInv'
  BY <1>3 DEF PhaseInv, RunInv, TmpInv, Checkpointing, SavingResume
<1>5. NoStepSkipped' /\ PairReplays' /\ FinalIsComplete'
  BY <1>3 DEF NoStepSkipped, PairReplays, FinalIsComplete
<1>. QED  BY <1>1, <1>2, <1>4, <1>5 DEF IInv

LEMMA OutsidePreserves == ASSUME IInv, Outside PROVE IInv'
<1>. USE DEF IInv, TypeOK, CountersOK
<1>1. CASE Crash
  BY <1>1, DiePreserves DEF Crash
<1>2. ASSUME NEW kind \in Signals, Signal(kind) PROVE IInv'
  <2>1. faults' \in Nat /\ signals' \in Nat
    BY <1>2 DEF Signal
  <2>2. CASE kind \in armed
    <3>1. /\ stop' = 1 /\ armed' = armed \ {kind}
          /\ UNCHANGED <<pc, ctx, step, weights, opt, best, disk, tmp, rc, runs>>
      BY <1>2, <2>2 DEF Signal
    <3>2. TypeOK'
      BY <2>1, <3>1 DEF ControlOK, DiskOK
    <3>3. PhaseInv' /\ RunInv' /\ TmpInv'
      BY <3>1 DEF PhaseInv, RunInv, TmpInv, Done, StateToSave, NextStep
    <3>4. NoStepSkipped' /\ PairReplays' /\ FinalIsComplete'
      BY <3>1 DEF NoStepSkipped, PairReplays, FinalIsComplete, Done
    <3>. QED  BY <3>2, <3>3, <3>4 DEF IInv
  <2>3. CASE kind \notin armed
    BY <1>2, <2>1, <2>3, DiePreserves DEF Signal
  <2>. QED  BY <2>2, <2>3
<1>. QED  BY <1>1, <1>2 DEF Outside

LEMMA StepPreserves == ~FreshOverOld /\ IInv /\ [Next]_vars => IInv'
<1>. SUFFICES ASSUME ~FreshOverOld, IInv, [Next]_vars PROVE IInv'
  OBVIOUS
<1>1. CASE Start
  BY <1>1, StartFreshPreserves, ResumeCompletedPreserves, StartResumePreserves DEF Start
<1>2. CASE Loop
  BY <1>2, TrainStepPreserves, EvaluatePreserves, BoundaryPreserves, FinishLoopPreserves DEF Loop
<1>3. ASSUME NEW ok \in BOOLEAN, Save(ok) PROVE IInv'
  BY <1>3, WriteCheckpointPreserves, RenameCheckpointPreserves, WriteModelPreserves,
     WriteStatePreserves, RenameModelPreserves, RenameStatePreserves DEF Save
<1>4. CASE Outside
  BY <1>4, OutsidePreserves
<1>5. CASE UNCHANGED vars
  BY <1>5 DEF vars, memory, IInv, TypeOK, ControlOK, DiskOK, CountersOK, PhaseInv, RunInv, TmpInv,
     NoStepSkipped, PairReplays, FinalIsComplete, Done, StateToSave, NextStep
<1>. QED  BY <1>1, <1>2, <1>3, <1>4, <1>5 DEF Next, Trainer

\* The strengthening holds throughout every supervised history of starts and crashes.
THEOREM Invariance == ~FreshOverOld => (Spec => []IInv)
<1>. SUFFICES ASSUME ~FreshOverOld PROVE Spec => []IInv
  OBVIOUS
<1>1. IInv /\ [Next]_vars => IInv'
  BY StepPreserves
<1>. QED  BY Initially, <1>1, PTL DEF Spec

\* Every value stays in its range, and no reader ever sees a file cut off mid-write.
THEOREM TypeCorrect == ~FreshOverOld => (Spec => []TypeOK)
<1>. SUFFICES ASSUME ~FreshOverOld PROVE Spec => []TypeOK
  OBVIOUS
<1>1. IInv => TypeOK
  BY DEF IInv
<1>. QED  BY Invariance, <1>1, PTL

\* save_resume_state keeps its promise: the pair on disk replays steps, never skips one.
THEOREM PairSafe == ~FreshOverOld => (Spec => []PairReplays)
<1>. SUFFICES ASSUME ~FreshOverOld PROVE Spec => []PairReplays
  OBVIOUS
<1>1. IInv => PairReplays
  BY DEF IInv
<1>. QED  BY Invariance, <1>1, PTL

\* Whatever sequence of crashes, failed saves and resumes led here, the running process
\* trains weights that went through every earlier step, with the optimizer at that step.
THEOREM NothingSkipped == ~FreshOverOld => (Spec => []NoStepSkipped)
<1>. SUFFICES ASSUME ~FreshOverOld PROVE Spec => []NoStepSkipped
  OBVIOUS
<1>1. IInv => NoStepSkipped
  BY DEF IInv
<1>. QED  BY Invariance, <1>1, PTL

\* The final checkpoint is the weights of a whole run.
THEOREM FinalComplete == ~FreshOverOld => (Spec => []FinalIsComplete)
<1>. SUFFICES ASSUME ~FreshOverOld PROVE Spec => []FinalIsComplete
  OBVIOUS
<1>1. IInv => FinalIsComplete
  BY DEF IInv
<1>. QED  BY Invariance, <1>1, PTL
-----------------------------------------------------------------------------
(* The refinement of AtomicProgress, one lemma per way a step can map.     *)

\* The abstract position and saved position, as TrainerRun has them.
At    == IF pc = "down" THEN -1 ELSE Done
Saved == IF disk["state"] = NoFile THEN 0 ELSE disk["state"].next

\* What the abstract steps say of At and Saved.
Abstract ==
  \/ /\ At = -1 /\ At' = Saved /\ UNCHANGED <<Saved, disk["final"] # NoFile>>
  \/ /\ At \in 0..(NumSteps - 1) /\ At' = At + 1 /\ UNCHANGED <<Saved, disk["final"] # NoFile>>
  \/ /\ At >= Saved /\ Saved' = At /\ At' \in {At, -1} /\ UNCHANGED (disk["final"] # NoFile)
  \/ /\ At = NumSteps /\ (disk["final"] # NoFile)' = TRUE /\ UNCHANGED <<At, Saved>>
  \/ /\ At # -1 /\ At' = -1 /\ UNCHANGED <<Saved, disk["final"] # NoFile>>
  \/ /\ UNCHANGED <<At, Saved, disk["final"] # NoFile>>

\* Abstract is the next-state relation of AtomicProgress under the mapping.
LEMMA AbstractIsProgress == Abstract => [RunProgress!Next]_(RunProgress!vars)
BY DEF Abstract, At, Saved, RunProgress!Next, RunProgress!vars, RunProgress!Begin, RunProgress!Advance,
   RunProgress!Save, RunProgress!Deliver, RunProgress!End

\* A position in memory is a number of steps, and the saved one is not ahead of it.
LEMMA Positions ==
  ASSUME IInv
  PROVE  /\ pc # "down" => Done \in Nat /\ At = Done
         /\ Saved \in Nat
         /\ pc # "down" => Saved <= Done
BY RunAssumption DEF IInv, TypeOK, ControlOK, Done, At, Saved, RunInv, PairReplays, ResumeState

\* An exit that leaves the visible files alone loses what was not saved.
LEMMA ExitEnds ==
  ASSUME IInv, pc # "down", pc' = "down", UNCHANGED disk
  PROVE  Abstract
BY Positions DEF Abstract, At, Saved

\* A step inside the process that keeps position and files is a stutter.
LEMMA KeepsPlace ==
  ASSUME pc # "down", pc' # "down", Done' = Done, UNCHANGED disk
  PROVE  Abstract
BY DEF Abstract, At, Saved

\* A start continues from the saved position, or, from scratch, from none.
LEMMA StartRefines == ASSUME IInv, ~FreshOverOld, Start PROVE Abstract
<1>1. CASE StartFresh
  BY <1>1 DEF StartFresh, Begin, Abstract, At, Saved, Done
<1>2. CASE ResumeCompleted
  BY <1>2 DEF ResumeCompleted, memory, Abstract, At, Saved, Done
<1>3. CASE StartResume
  <2>1. disk["state"] # NoFile /\ pc = "down"
    BY <1>3, RunAssumption DEF StartResume, Resumable
  <2>. QED  BY <1>3, <2>1 DEF StartResume, Begin, Abstract, At, Saved, Done
<1>. QED  BY <1>1, <1>2, <1>3 DEF Start

\* Inside the loop only a training step moves the position.
LEMMA LoopRefines == ASSUME IInv, Loop PROVE Abstract
<1>1. CASE TrainStep
  <2>1. /\ pc = "train" /\ step \in 0..(NumSteps - 1) /\ step' = step /\ UNCHANGED disk
        /\ pc' \in {"eval", "ckptWrite", "boundary"} /\ ctx' \in {"none", "step"}
    BY <1>1, RunAssumption DEF IInv, TypeOK, ControlOK, TrainStep, AfterEval, Goto
  <2>2. At = step /\ At' = step + 1
    BY <2>1 DEF At, Done
  <2>. QED  BY <2>1, <2>2 DEF Abstract, Saved
<1>2. CASE Evaluate
  <2>1. pc = "eval" /\ ctx = "none" /\ pc' \in {"ckptWrite", "modelWrite"} /\ ctx' \in {"best", "eval"}
        /\ step' = step /\ UNCHANGED disk
    BY <1>2 DEF IInv, PhaseInv, Checkpointing, SavingResume, Evaluate, Goto, Stay
  <2>. QED  BY <2>1, KeepsPlace DEF Done
<1>3. CASE Boundary
  <2>1. pc = "boundary" /\ ctx = "none" /\ UNCHANGED disk
        /\ \/ pc' = "modelWrite" /\ ctx' = "stop" /\ step' = step
           \/ pc' = "train" /\ ctx' = "none" /\ step' = step + 1
    BY <1>3 DEF IInv, PhaseInv, Checkpointing, SavingResume, Boundary, Goto
  <2>. QED  BY <2>1, KeepsPlace DEF Done
<1>4. CASE FinishLoop
  <2>1. pc = "train" /\ pc' = "ckptWrite" /\ ctx' = "final" /\ step' = step /\ UNCHANGED disk
    BY <1>4 DEF FinishLoop, Goto
  <2>. QED  BY <2>1, KeepsPlace DEF Done
<1>. QED  BY <1>1, <1>2, <1>3, <1>4 DEF Loop

\* What a returning save_checkpoint leaves of the position.
LEMMA CheckpointReturnsKeepPlace ==
  ASSUME IInv, pc \in Checkpointing, NEW ok \in BOOLEAN, CheckpointReturns(ok)
  PROVE  /\ pc' = "down" => ctx = "final" /\ ~ok
         /\ pc' # "down" => Done' = Done
<1>1. ctx \in {"best", "step", "final"} /\ pc \in {"ckptWrite", "ckptRename"}
  BY DEF IInv, PhaseInv, Checkpointing
<1>2. CASE ctx = "best"
  BY <1>1, <1>2 DEF CheckpointReturns, Goto, Done
<1>3. CASE ctx = "step"
  BY <1>1, <1>3 DEF CheckpointReturns, Goto, Stay, Done
<1>4. CASE ctx = "final"
  BY <1>1, <1>4 DEF CheckpointReturns, Goto, Stay, Exit, Done
<1>. QED  BY <1>1, <1>2, <1>3, <1>4

\* What a returning save_resume_state leaves of the position.
LEMMA ResumeReturnsKeepPlace ==
  ASSUME IInv, pc \in SavingResume, NEW ok \in BOOLEAN, ResumeReturns(ok)
  PROVE  pc' # "down" => Done' = Done
<1>1. ctx \in {"eval", "stop", "final"} /\ pc \notin {"train", "down"}
  BY DEF IInv, PhaseInv, SavingResume
<1>2. CASE ctx = "eval"
  <2>1. pc' \in {"ckptWrite", "boundary"} /\ ctx' \in {"step", "none"} /\ step' = step
    BY <1>2 DEF ResumeReturns, AfterEval, Goto, Stay
  <2>. QED  BY <1>1, <1>2, <2>1 DEF Done
<1>3. CASE ctx # "eval"
  BY <1>1, <1>3 DEF ResumeReturns, Exit
<1>. QED  BY <1>2, <1>3

\* Of the steps of a save only the second rename of the pair moves the saved position,
\* and only the rename of the final checkpoint delivers.
LEMMA SaveRefines == ASSUME IInv, NEW ok \in BOOLEAN, Save(ok) PROVE Abstract
<1>1. CASE WriteCheckpoint(ok)
  <2>1. pc \in Checkpointing /\ pc # "down" /\ pc # "train" /\ UNCHANGED disk
    BY <1>1 DEF WriteCheckpoint, Checkpointing
  <2>2. CASE ok
    <3>1. pc' = "ckptRename" /\ ctx' = ctx /\ step' = step
      BY <1>1, <2>2 DEF WriteCheckpoint, Goto, Stay
    <3>. QED  BY <2>1, <3>1, KeepsPlace DEF Done
  <2>3. CASE ~ok
    <3>1. CheckpointReturns(FALSE)
      BY <1>1, <2>3 DEF WriteCheckpoint
    <3>. QED  BY <2>1, <3>1, CheckpointReturnsKeepPlace, KeepsPlace, ExitEnds
  <2>. QED  BY <2>2, <2>3
<1>2. CASE RenameCheckpoint(ok)
  <2>1. pc \in Checkpointing /\ pc # "down" /\ CheckpointReturns(ok)
    BY <1>2 DEF RenameCheckpoint, Checkpointing
  <2>2. (pc' = "down" => ~ok) /\ (pc' # "down" => Done' = Done)
    BY <2>1, CheckpointReturnsKeepPlace
  <2>3. CASE ~ok
    <3>1. UNCHANGED disk
      BY <1>2, <2>3 DEF RenameCheckpoint
    <3>. QED  BY <2>1, <2>2, <3>1, KeepsPlace, ExitEnds
  <2>4. CASE ok
    <3>1. /\ disk \in [Files -> Weights \union ResumeState \union {NoFile}]
          /\ tmp[ctx] = weights /\ weights # NoFile /\ ctx \in {"best", "step", "final"}
      BY <1>2, RunAssumption DEF IInv, TypeOK, DiskOK, TmpInv, RunInv, PhaseInv, Checkpointing, RenameCheckpoint
    <3>2. disk' = [disk EXCEPT ![ctx] = weights] /\ pc' # "down" /\ Done' = Done
      BY <1>2, <2>2, <2>4, <3>1 DEF RenameCheckpoint
    <3>3. disk'["state"] = disk["state"] /\ At' = At /\ Saved' = Saved
      BY <2>1, <3>1, <3>2 DEF At, Saved, Files
    <3>4. CASE ctx = "final"
      <4>1. At = NumSteps
        BY <2>1, <3>4 DEF IInv, PhaseInv, At, Done
      <4>. QED  BY <3>1, <3>2, <3>3, <3>4, <4>1 DEF Abstract, Files
    <3>5. CASE ctx # "final"
      BY <3>1, <3>2, <3>3, <3>5 DEF Abstract, Files
    <3>. QED  BY <3>4, <3>5
  <2>. QED  BY <2>3, <2>4
<1>3. CASE WriteModel(ok) \/ WriteState(ok)
  <2>1. pc \in SavingResume /\ pc # "down" /\ pc # "train" /\ UNCHANGED disk
    BY <1>3 DEF WriteModel, WriteState, SavingResume
  <2>2. CASE ok
    <3>1. pc' \in {"stateWrite", "modelRename"} /\ ctx' = ctx /\ step' = step
      BY <1>3, <2>2 DEF WriteModel, WriteState, Goto, Stay
    <3>. QED  BY <2>1, <3>1, KeepsPlace DEF Done
  <2>3. CASE ~ok
    <3>1. ResumeReturns(FALSE)
      BY <1>3, <2>3 DEF WriteModel, WriteState
    <3>. QED  BY <2>1, <3>1, ResumeReturnsKeepPlace, KeepsPlace, ExitEnds
  <2>. QED  BY <2>2, <2>3
<1>4. CASE RenameModel(ok)
  <2>1. pc \in SavingResume /\ pc = "modelRename"
    BY <1>4 DEF RenameModel, SavingResume
  <2>2. CASE ok
    <3>1. /\ pc' = "stateRename" /\ ctx' = ctx /\ step' = step
          /\ disk' = [disk EXCEPT !["model"] = tmp["model"]]
      BY <1>4, <2>2 DEF RenameModel, Goto, Stay
    <3>2. disk'["state"] = disk["state"] /\ disk'["final"] = disk["final"]
      BY <3>1 DEF IInv, TypeOK, DiskOK, Files
    <3>. QED  BY <2>1, <3>1, <3>2 DEF Abstract, At, Saved, Done
  <2>3. CASE ~ok
    <3>1. ResumeReturns(FALSE) /\ UNCHANGED disk
      BY <1>4, <2>3 DEF RenameModel
    <3>. QED  BY <2>1, <3>1, ResumeReturnsKeepPlace, KeepsPlace, ExitEnds
  <2>. QED  BY <2>2, <2>3
<1>5. CASE RenameState(ok)
  <2>1. pc \in SavingResume /\ pc = "stateRename" /\ ResumeReturns(ok)
    BY <1>5 DEF RenameState, SavingResume
  <2>2. pc' # "down" => Done' = Done
    BY <2>1, ResumeReturnsKeepPlace
  <2>3. CASE ok
    <3>1. /\ disk \in [Files -> Weights \union ResumeState \union {NoFile}]
          /\ tmp["state"] = StateToSave /\ StateToSave \in ResumeState
      BY <2>1, SaveTyped DEF IInv, TypeOK, DiskOK, TmpInv
    <3>2. disk' = [disk EXCEPT !["state"] = StateToSave]
      BY <1>5, <2>3, <3>1 DEF RenameState
    <3>3. disk'["state"] = StateToSave /\ disk'["final"] = disk["final"] /\ StateToSave # NoFile
      BY <3>1, <3>2, RunAssumption DEF Files
    <3>4. Saved' = Done
      <4>1. Saved' = NextStep
        BY <3>3 DEF Saved, StateToSave
      <4>2. NextStep = Done
        BY <2>1 DEF IInv, PhaseInv, NextStep, Done
      <4>. QED  BY <4>1, <4>2
    <3>5. At = Done /\ At >= Saved
      BY <2>1, Positions
    <3>6. At' \in {At, -1}
      BY <2>1, <2>2 DEF At
    <3>. QED  BY <3>3, <3>4, <3>5, <3>6 DEF Abstract
  <2>4. CASE ~ok
    <3>1. UNCHANGED disk
      BY <1>5, <2>4 DEF RenameState
    <3>. QED  BY <2>1, <2>2, <3>1, KeepsPlace, ExitEnds
  <2>. QED  BY <2>3, <2>4
<1>. QED  BY <1>1, <1>2, <1>3, <1>4, <1>5 DEF Save

\* A crash or a signal ends the process or changes nothing abstract.
LEMMA OutsideRefines == ASSUME IInv, Outside PROVE Abstract
<1>1. CASE Crash
  BY <1>1, ExitEnds DEF Crash, Die, Exit
<1>2. ASSUME NEW kind \in Signals, Signal(kind) PROVE Abstract
  <2>1. CASE kind \in armed
    BY <1>2, <2>1, KeepsPlace DEF Signal, Done
  <2>2. CASE kind \notin armed
    BY <1>2, <2>2, ExitEnds DEF Signal, Die, Exit
  <2>. QED  BY <2>1, <2>2
<1>. QED  BY <1>1, <1>2 DEF Outside

\* Every step is an abstract step or a stutter.
LEMMA StepRefines == ASSUME IInv, ~FreshOverOld, [Next]_vars PROVE [RunProgress!Next]_(RunProgress!vars)
<1>1. CASE Start
  BY <1>1, StartRefines, AbstractIsProgress
<1>2. CASE Loop
  BY <1>2, LoopRefines, AbstractIsProgress
<1>3. ASSUME NEW ok \in BOOLEAN, Save(ok) PROVE Abstract
  BY <1>3, SaveRefines
<1>4. CASE Outside
  BY <1>4, OutsideRefines, AbstractIsProgress
<1>5. CASE UNCHANGED vars
  BY <1>5, AbstractIsProgress DEF vars, memory, Abstract, At, Saved, Done
<1>. QED  BY <1>1, <1>2, <1>3, <1>4, <1>5, AbstractIsProgress DEF Next, Trainer

\* A save of two files, each written beside the old one and renamed, is one atomic save
\* of the position: wherever a crash falls, a start continues from the old or the new.
THEOREM SavesAreAtomic == ~FreshOverOld => (Spec => ImplementsAtomicProgress)
<1>. SUFFICES ASSUME ~FreshOverOld PROVE Spec => ImplementsAtomicProgress
  OBVIOUS
<1>1. Init => RunProgress!Init
  BY DEF Init, RunProgress!Init, Files
<1>2. IInv /\ [Next]_vars => [RunProgress!Next]_(RunProgress!vars)
  BY StepRefines
<1>. QED  BY Invariance, <1>1, <1>2, PTL DEF Spec, ImplementsAtomicProgress, RunProgress!Spec

-----------------------------------------------------------------------------
(* What a paused run has saved.                                            *)

\* An exit as "paused" is the return of a save_resume_state that renamed both files.
LEMMA PauseStep ==
  ASSUME IInv, [Next]_vars, rc' = "paused", pc # "down", pc' = "down"
  PROVE  disk'["model"] = weights /\ disk'["state"].next = step + 1
<1>1. CASE Start
  BY <1>1 DEF Start, StartFresh, ResumeCompleted, StartResume, Resumable
<1>2. CASE Loop
  BY <1>2 DEF Loop, TrainStep, Evaluate, Boundary, FinishLoop, AfterEval, Goto
<1>3. CASE Outside
  BY <1>3 DEF Outside, Crash, Signal, Die, Exit, Signals
<1>4. CASE UNCHANGED vars
  BY <1>4 DEF vars
<1>5. ASSUME NEW ok \in BOOLEAN, WriteCheckpoint(ok) \/ RenameCheckpoint(ok) PROVE FALSE
  <2>1. ctx \in {"best", "step", "final"}
    BY <1>5 DEF IInv, PhaseInv, Checkpointing, WriteCheckpoint, RenameCheckpoint
  <2>2. \/ pc' = "ckptRename"
        \/ CheckpointReturns(ok)
    BY <1>5 DEF WriteCheckpoint, RenameCheckpoint, Goto
  <2>. QED  BY <2>1, <2>2 DEF CheckpointReturns, Goto, Exit
<1>6. ASSUME NEW ok \in BOOLEAN, WriteModel(ok) \/ WriteState(ok) \/ RenameModel(ok) PROVE FALSE
  <2>1. ctx \in {"eval", "stop", "final"}
    BY <1>6 DEF IInv, PhaseInv, SavingResume, WriteModel, WriteState, RenameModel
  <2>2. pc' \in {"stateWrite", "modelRename", "stateRename"} \/ ResumeReturns(FALSE)
    BY <1>6 DEF WriteModel, WriteState, RenameModel, Goto
  <2>. QED  BY <2>1, <2>2 DEF ResumeReturns, AfterEval, Goto, Exit
<1>7. ASSUME NEW ok \in BOOLEAN, RenameState(ok)
      PROVE  disk'["model"] = weights /\ disk'["state"].next = step + 1
  <2>1. pc = "stateRename" /\ ResumeReturns(ok) /\ ctx \in {"eval", "stop", "final"}
    BY <1>7 DEF IInv, PhaseInv, SavingResume, RenameState
  <2>2. ctx = "stop" /\ ok
    BY <2>1 DEF ResumeReturns, AfterEval, Goto, Exit
  <2>3. disk["model"] = weights /\ tmp["state"] = StateToSave
    BY <2>1 DEF IInv, TmpInv
  <2>4. disk' = [disk EXCEPT !["state"] = StateToSave]
    BY <1>7, <2>2, <2>3 DEF RenameState
  <2>5. disk'["model"] = weights /\ disk'["state"] = StateToSave
    BY <2>3, <2>4 DEF IInv, TypeOK, DiskOK, Files
  <2>. QED  BY <2>2, <2>5 DEF StateToSave, NextStep
<1>. QED  BY <1>1, <1>2, <1>3, <1>4, <1>5, <1>6, <1>7 DEF Next, Trainer, Save

\* A run that reports itself interrupted left the pair of exactly the step it stopped
\* after, whatever was saved, failed or crashed before.
THEOREM PauseSaves == ~FreshOverOld => (Spec => PausedIsSaved)
<1>. SUFFICES ASSUME ~FreshOverOld PROVE Spec => PausedIsSaved
  OBVIOUS
<1>1. IInv /\ [Next]_vars =>
        [rc' = "paused" /\ pc # "down" /\ pc' = "down" =>
           disk'["model"] = weights /\ disk'["state"].next = step + 1]_vars
  BY PauseStep
<1>. QED  BY Invariance, <1>1, PTL DEF Spec, PausedIsSaved

-----------------------------------------------------------------------------
(* The bar best_val_loss and the file behind it.                           *)

\* What BestBarBacked and BarInv say, in the terms the steps change.
LEMMA BarFacts ==
  ASSUME IInv, BestBarBacked, BarInv
  PROVE  /\ best \in 0..Inf /\ Inf = MaxLoss + 1 /\ MaxLoss \in Nat
         /\ disk["state"] # NoFile => disk["state"] \in ResumeState /\ disk["state"].run = runs
                                     /\ Delivers(disk["state"].best, runs)
         /\ pc # "down" => weights \in Weights /\ weights.run = runs /\ Delivers(best, runs)
BY RunAssumption DEF IInv, TypeOK, ControlOK, PairReplays, RunInv, BestBarBacked, Inf

\* Nothing about the bar changes while files, weights and bar stay.
LEMMA BarKept ==
  ASSUME IInv, IInv', BestBarBacked, BarInv, UNCHANGED disk,
         pc' # "down" => /\ pc # "down" /\ best' = best /\ weights'.run = weights.run
                         /\ ~(pc' \in Checkpointing /\ ctx' = "best")
                            \/ (pc \in Checkpointing /\ ctx = "best" /\ weights' = weights)
  PROVE  BestBarBacked' /\ BarInv'
BY DEF BestBarBacked, BarInv, Delivers, Checkpointing

\* A start takes the bar of the state it resumes from, or has none.
LEMMA BarStart ==
  ASSUME IInv, IInv', BestBarBacked, BarInv, ~FreshOverOld, Start PROVE BestBarBacked' /\ BarInv'
<1>1. CASE StartFresh
  BY <1>1, RunAssumption DEF StartFresh, Begin, BestBarBacked, BarInv, Delivers, Checkpointing, Inf
<1>2. CASE ResumeCompleted
  BY <1>2, BarKept DEF ResumeCompleted, memory, IInv, PhaseInv, Checkpointing
<1>3. CASE StartResume
  <2>1. /\ disk["state"] \in ResumeState /\ disk["state"].best \in 0..Inf /\ disk["model"].run = disk["state"].run
        /\ UNCHANGED disk /\ pc' = "train" /\ best' = disk["state"].best /\ weights' = disk["model"]
    BY <1>3, RunAssumption DEF StartResume, Resumable, Begin, IInv, PairReplays, ResumeState
  <2>2. best' <= disk["state"].best
    BY <2>1, RunAssumption DEF Inf
  <2>. QED  BY <2>1, <2>2 DEF BestBarBacked, BarInv, Delivers, Checkpointing
<1>. QED  BY <1>1, <1>2, <1>3 DEF Start

\* Only Evaluate sends a model to _best.bin, and only a better one.
LEMMA BarLoop ==
  ASSUME IInv, IInv', BestBarBacked, BarInv, Loop PROVE BestBarBacked' /\ BarInv'
<1>1. CASE TrainStep
  <2>1. pc = "train" /\ UNCHANGED <<best, disk>> /\ ctx' \in {"none", "step"}
    BY <1>1 DEF TrainStep, AfterEval, Goto
  <2>2. weights'.run = weights.run
    BY <1>1 DEF TrainStep, IInv, RunInv, Weights
  <2>. QED  BY <2>1, <2>2, BarKept
<1>2. CASE Evaluate
  <2>1. pc = "eval" /\ UNCHANGED <<weights, best, disk>>
    BY <1>2 DEF Evaluate, Stay
  <2>2. pc' \in Checkpointing /\ ctx' = "best" => weights.loss < best
    BY <1>2 DEF Evaluate, Goto, Checkpointing
  <2>. QED  BY <2>1, <2>2 DEF BestBarBacked, BarInv, Delivers
<1>3. CASE Boundary
  BY <1>3, BarKept DEF Boundary, Goto
<1>4. CASE FinishLoop
  BY <1>4, BarKept DEF FinishLoop, Goto
<1>. QED  BY <1>1, <1>2, <1>3, <1>4 DEF Loop

\* The bar moves when _best.bin has been renamed, and is saved after.
LEMMA BarSave ==
  ASSUME IInv, IInv', BestBarBacked, BarInv, NEW ok \in BOOLEAN, Save(ok) PROVE BestBarBacked' /\ BarInv'
<1>0. ctx \in {"best", "step", "final", "eval", "stop"} /\ pc # "down"
  BY DEF Save, WriteCheckpoint, RenameCheckpoint, WriteModel, WriteState, RenameModel, RenameState,
     IInv, PhaseInv, Checkpointing, SavingResume
<1>1. CASE WriteCheckpoint(ok)
  <2>1. pc \in Checkpointing /\ UNCHANGED disk /\ ctx \in {"best", "step", "final"}
    BY <1>1 DEF WriteCheckpoint, Checkpointing, IInv, PhaseInv
  <2>2. CASE ok
    BY <1>1, <2>1, <2>2, <1>0, BarKept DEF WriteCheckpoint, Goto, Stay
  <2>3. CASE ~ok
    BY <1>1, <2>1, <2>3, <1>0, BarKept DEF WriteCheckpoint, CheckpointReturns, Goto, Stay, Exit
  <2>. QED  BY <2>2, <2>3
<1>2. CASE RenameCheckpoint(ok)
  <2>1. pc \in Checkpointing /\ ctx \in {"best", "step", "final"} /\ CheckpointReturns(ok) /\ tmp[ctx] = weights
    BY <1>2 DEF RenameCheckpoint, Checkpointing, IInv, PhaseInv, TmpInv
  <2>2. CASE ~ok
    <3>1. UNCHANGED disk
      BY <1>2, <2>2 DEF RenameCheckpoint
    <3>. QED  BY <2>1, <2>2, <3>1, <1>0, BarKept DEF CheckpointReturns, Goto, Stay, Exit
  <2>3. CASE ok /\ ctx = "best"
    <3>1. /\ pc' = "modelWrite" /\ best' = weights.loss /\ weights' = weights
          /\ disk' = [disk EXCEPT !["best"] = weights] /\ runs' = runs
      BY <1>2, <2>1, <2>3 DEF RenameCheckpoint, CheckpointReturns, Goto
    <3>2. disk'["best"] = weights /\ disk'["state"] = disk["state"]
      BY <3>1 DEF IInv, TypeOK, DiskOK, Files
    <3>3. /\ weights \in Weights /\ weights.loss \in 0..MaxLoss /\ weights.run = runs
          /\ weights.loss < best /\ best \in 0..Inf
      BY <2>1, <2>3, <1>0, BarFacts DEF BarInv, Weights
    <3>4. disk["state"] # NoFile => /\ disk["state"].run = runs /\ disk["state"].best \in 0..Inf
                                    /\ best <= disk["state"].best
      BY <1>0, BarFacts DEF BarInv, ResumeState
    <3>5. disk["state"] \in ResumeState => disk["state"] # NoFile
      BY RunAssumption
    <3>. QED  BY <3>1, <3>2, <3>3, <3>4, <3>5, RunAssumption DEF BestBarBacked, BarInv, Delivers, Inf, Checkpointing
  <2>4. CASE ok /\ ctx # "best"
    <3>1. /\ pc' # "down" /\ pc' \notin Checkpointing /\ UNCHANGED <<weights, best>>
          /\ disk' = [disk EXCEPT ![ctx] = weights]
      BY <1>2, <2>1, <2>4 DEF RenameCheckpoint, CheckpointReturns, Goto, Stay, Checkpointing
    <3>2. disk'["best"] = disk["best"] /\ disk'["state"] = disk["state"]
      BY <2>1, <2>4, <3>1 DEF IInv, TypeOK, DiskOK, Files
    <3>. QED  BY <1>0, <3>1, <3>2 DEF BestBarBacked, BarInv, Delivers
  <2>. QED  BY <2>2, <2>3, <2>4
<1>3. CASE WriteModel(ok) \/ WriteState(ok)
  <2>1. ctx \in {"eval", "stop", "final"} /\ UNCHANGED disk
    BY <1>3 DEF WriteModel, WriteState, SavingResume, IInv, PhaseInv
  <2>2. CASE ok
    BY <1>3, <2>1, <2>2, <1>0, BarKept DEF WriteModel, WriteState, Goto, Stay
  <2>3. CASE ~ok
    BY <1>3, <2>1, <2>3, <1>0, BarKept DEF WriteModel, WriteState, ResumeReturns, AfterEval, Goto, Stay, Exit
  <2>. QED  BY <2>2, <2>3
<1>4. CASE RenameModel(ok)
  <2>1. ctx \in {"eval", "stop", "final"}
    BY <1>4 DEF RenameModel, SavingResume, IInv, PhaseInv
  <2>2. CASE ok
    <3>1. /\ pc' = "stateRename" /\ UNCHANGED <<weights, best>>
          /\ disk'["best"] = disk["best"] /\ disk'["state"] = disk["state"]
      BY <1>4, <2>2 DEF RenameModel, Goto, Stay, IInv, TypeOK, DiskOK, Files
    <3>. QED  BY <1>0, <3>1 DEF BestBarBacked, BarInv, Delivers, Checkpointing
  <2>3. CASE ~ok
    BY <1>4, <2>1, <2>3, <1>0, BarKept DEF RenameModel, ResumeReturns, AfterEval, Goto, Stay, Exit
  <2>. QED  BY <2>2, <2>3
<1>5. CASE RenameState(ok)
  <2>1. pc = "stateRename" /\ ctx \in {"eval", "stop", "final"} /\ ResumeReturns(ok) /\ tmp["state"] = StateToSave
    BY <1>5 DEF RenameState, SavingResume, IInv, PhaseInv, TmpInv
  <2>2. CASE ok
    <3>1. disk'["best"] = disk["best"] /\ disk'["state"] = StateToSave
      BY <1>5, <2>1, <2>2 DEF RenameState, IInv, TypeOK, DiskOK, Files
    <3>2. Delivers(best, weights.run)' \/ pc' = "down"
      BY <1>0, <2>1, <3>1 DEF ResumeReturns, AfterEval, Goto, Stay, Exit, BestBarBacked, Delivers
    <3>3. /\ StateToSave.run = weights.run /\ StateToSave.best = best
          /\ best \in 0..Inf
      BY BarFacts DEF StateToSave
    <3>4. (pc' # "down" => best' = best /\ ctx' # "best") /\ (pc' = "down" => pc' \notin Checkpointing)
      BY <2>1 DEF ResumeReturns, AfterEval, Goto, Stay, Exit, Checkpointing
    <3>5. Delivers(best, weights.run)
      BY <1>0 DEF BestBarBacked
    <3>6. best <= best
      BY <3>3, RunAssumption DEF Inf
    <3>. QED  BY <3>1, <3>2, <3>3, <3>4, <3>5, <3>6, RunAssumption DEF BestBarBacked, BarInv, Delivers
  <2>3. CASE ~ok
    <3>1. UNCHANGED disk
      BY <1>5, <2>3 DEF RenameState
    <3>. QED  BY <2>1, <2>3, <3>1, <1>0, BarKept DEF ResumeReturns, AfterEval, Goto, Stay, Exit
  <2>. QED  BY <2>2, <2>3
<1>. QED  BY <1>1, <1>2, <1>3, <1>4, <1>5 DEF Save

\* A death leaves the files and with them what the next process takes up.
LEMMA BarOutside ==
  ASSUME IInv, IInv', BestBarBacked, BarInv, Outside PROVE BestBarBacked' /\ BarInv'
<1>1. CASE Crash
  BY <1>1, BarKept DEF Crash, Die, Exit
<1>2. ASSUME NEW kind \in Signals, Signal(kind) PROVE BestBarBacked' /\ BarInv'
  <2>1. pc # "down" /\ UNCHANGED disk
    BY <1>2 DEF Signal, Die
  <2>2. CASE kind \in armed
    BY <1>2, <2>1, <2>2, BarKept DEF Signal
  <2>3. CASE kind \notin armed
    BY <1>2, <2>1, <2>3, BarKept DEF Signal, Die, Exit
  <2>. QED  BY <2>2, <2>3
<1>. QED  BY <1>1, <1>2 DEF Outside

\* The first state has no checkpoint whose bar could lie.
LEMMA BarInitially == Init => BestBarBacked /\ BarInv
BY RunAssumption DEF Init, BestBarBacked, BarInv, Files, Checkpointing

\* Every step of a run keeps the bar backed.
LEMMA BarStep ==
  ASSUME ~FreshOverOld, IInv, BestBarBacked, BarInv, [Next]_vars PROVE BestBarBacked' /\ BarInv'
<1>1. IInv'
  BY StepPreserves
<1>2. CASE UNCHANGED vars
  BY <1>2 DEF vars, memory, BestBarBacked, BarInv, Delivers
<1>. QED  BY <1>1, <1>2, BarStart, BarLoop, BarSave, BarOutside DEF Next, Trainer

\* The bar only ever moves together with a file that meets it, in whatever order the best
\* checkpoint, the resume pair and crashes come.
THEOREM BarBacked == ~FreshOverOld => (Spec => []BestBarBacked)
<1>. SUFFICES ASSUME ~FreshOverOld PROVE Spec => []BestBarBacked
  OBVIOUS
<1>1. IInv /\ BestBarBacked /\ BarInv /\ [Next]_vars => (BestBarBacked /\ BarInv)'
  BY BarStep
<1>. QED  BY Invariance, BarInitially, <1>1, PTL DEF Spec

-----------------------------------------------------------------------------
(* The supervised run. The script starts from scratch only without a       *)
(* resume state, so FreshOverOld is no hypothesis here.                    *)

\* A step of the script is a step of the trainer, none, or a reboot: a death that may
\* also find no process to end.
LEMMA SupStep ==
  [SupNext]_allVars => [Next]_vars \/ (Die("killed") /\ faults' = faults + 1 /\ UNCHANGED signals)
BY DEF SupNext, Launch, StartChild, Reap, Reboot, Child, Next, allVars

\* A reboot keeps the invariants of a run and is an end, or no step, of the abstract one.
LEMMA RebootKeeps ==
  ASSUME IInv, Die("killed"), faults' = faults + 1, UNCHANGED signals
  PROVE  /\ IInv'
         /\ [RunProgress!Next]_(RunProgress!vars)
         /\ BestBarBacked /\ BarInv => BestBarBacked' /\ BarInv'
<1>1. IInv'
  BY DiePreserves DEF IInv, TypeOK, CountersOK
<1>2. pc' = "down" /\ UNCHANGED disk
  BY DEF Die, Exit
<1>3. pc # "down" => Abstract
  BY <1>2, ExitEnds
<1>4. pc = "down" => Abstract
  BY <1>2 DEF Abstract, At, Saved
<1>. QED  BY <1>1, <1>2, <1>3, <1>4, AbstractIsProgress, BarKept

\* The invariants of a run hold under the script, reboots of the machine included.
THEOREM SupervisedInvariance == SupSpec => [](IInv /\ BestBarBacked /\ BarInv)
<1>1. SupInit => IInv /\ BestBarBacked /\ BarInv
  BY Initially, BarInitially DEF SupInit
<1>2. IInv /\ BestBarBacked /\ BarInv /\ [SupNext]_allVars => (IInv /\ BestBarBacked /\ BarInv)'
  BY SupStep, StepPreserves, BarStep, RebootKeeps, SupervisedAssumption
<1>. QED  BY <1>1, <1>2, PTL DEF SupSpec

\* Under the script no step is skipped, the pair on disk replays, the final checkpoint is
\* complete and the bar is backed, whatever it restarts and whatever it is killed with.
THEOREM SupervisedSafety == SupSpec => [](NoStepSkipped /\ PairReplays /\ FinalIsComplete /\ BestBarBacked)
<1>1. IInv /\ BestBarBacked /\ BarInv => NoStepSkipped /\ PairReplays /\ FinalIsComplete /\ BestBarBacked
  BY DEF IInv
<1>. QED  BY SupervisedInvariance, <1>1, PTL

\* Restarts and reboots do not break the atomicity of the two-file save.
THEOREM SupervisedSavesAreAtomic == SupSpec => ImplementsAtomicProgress
<1>1. SupInit => RunProgress!Init
  BY DEF SupInit, Init, RunProgress!Init, Files
<1>2. IInv /\ [SupNext]_allVars => [RunProgress!Next]_(RunProgress!vars)
  BY SupStep, StepRefines, RebootKeeps, SupervisedAssumption
<1>. QED  BY SupervisedInvariance, <1>1, <1>2, PTL DEF SupSpec, ImplementsAtomicProgress, RunProgress!Spec

\* Under the script, too, a pause is the save of the step just taken.
THEOREM SupervisedPauseSaves == SupSpec => PausedIsSaved
<1>1. IInv /\ [SupNext]_allVars =>
        [rc' = "paused" /\ pc # "down" /\ pc' = "down" =>
           disk'["model"] = weights /\ disk'["state"].next = step + 1]_vars
  BY SupStep, PauseStep DEF Die, Exit
<1>. QED  BY SupervisedInvariance, <1>1, PTL DEF SupSpec, PausedIsSaved

-----------------------------------------------------------------------------
(* Restarts are paid for by failures.                                      *)

\* A trainer that ends for no reason to stop was hit by a fault or a signal just now.
LEMMA FailedExit ==
  ASSUME IInv, Trainer \/ Outside
  PROVE  /\ pc # "down"
         /\ faults' \in Nat /\ signals' \in Nat /\ faults' >= faults /\ signals' >= signals
         /\ pc' = "down" /\ rc' \notin {"finished", "paused", "completed", "sigint"}
              => faults' + signals' >= faults + signals + 1
<1>. USE DEF IInv, TypeOK, CountersOK
<1>0. faults \in Nat /\ signals \in Nat
  OBVIOUS
<1>1. CASE Loop
  <2>1. pc # "down" /\ pc' # "down"
    BY <1>1 DEF Loop, TrainStep, Evaluate, Boundary, FinishLoop, AfterEval, Goto
  <2>2. UNCHANGED <<faults, signals>>
    BY <1>1 DEF Loop, TrainStep, Evaluate, Boundary, FinishLoop, Counters
  <2>. QED  BY <1>0, <2>1, <2>2
<1>2. CASE Outside
  BY <1>0, <1>2 DEF Outside, Crash, Signal, Die, Exit
<1>3. ASSUME NEW ok \in BOOLEAN, Save(ok)
      PROVE  /\ pc # "down" /\ UNCHANGED signals /\ Outcome(ok)
             /\ pc' = "down" /\ rc' \notin {"finished", "paused"} => ~ok
  <2>1. CASE WriteCheckpoint(ok) \/ RenameCheckpoint(ok)
    <3>1. /\ pc \in Checkpointing /\ pc # "down" /\ UNCHANGED signals /\ Outcome(ok)
          /\ pc' = "ckptRename" \/ CheckpointReturns(ok)
      BY <2>1 DEF WriteCheckpoint, RenameCheckpoint, Checkpointing, Goto
    <3>2. ctx \in {"best", "step", "final"}
      BY <3>1 DEF PhaseInv
    <3>. QED  BY <3>1, <3>2 DEF CheckpointReturns, Goto, Exit
  <2>2. CASE WriteModel(ok) \/ WriteState(ok) \/ RenameModel(ok) \/ RenameState(ok)
    <3>1. /\ pc \in SavingResume /\ pc # "down" /\ UNCHANGED signals /\ Outcome(ok)
          /\ pc' \in {"stateWrite", "modelRename", "stateRename"} \/ ResumeReturns(ok)
      BY <2>2 DEF WriteModel, WriteState, RenameModel, RenameState, SavingResume, Goto
    <3>2. ctx \in {"eval", "stop", "final"}
      BY <3>1 DEF PhaseInv
    <3>. QED  BY <3>1, <3>2 DEF ResumeReturns, AfterEval, Goto, Exit
  <2>. QED  BY <1>3, <2>1, <2>2 DEF Save
<1>. QED  BY <1>0, <1>1, <1>2, <1>3 DEF Trainer, Outcome

\* One step of the script, the trainer or the machine.
LEMMA AttemptStep ==
  ASSUME IInv, AttemptInv, AttemptsEarned, [SupNext]_allVars
  PROVE  AttemptInv' /\ AttemptsEarned'
<1>. USE DEF AttemptInv, AttemptsEarned
<1>0. faults \in Nat /\ signals \in Nat /\ MaxRestarts \in Nat
  BY SupervisedAssumption DEF IInv, TypeOK, CountersOK
<1>1. CASE Launch
  BY <1>0, <1>1 DEF Launch, vars
<1>2. CASE StartChild
  BY <1>0, <1>2 DEF StartChild, Start, StartFresh, ResumeCompleted, StartResume, Begin, memory, Counters
<1>3. CASE Reap
  <2>1. sup = "wait" /\ pc = "down" /\ UNCHANGED <<faults, signals>>
    BY <1>3 DEF Reap, vars
  <2>2. (\E v \in {"finished", "paused", "interrupted"} : StopWith(v))
        \/ (rc \notin {"finished", "paused", "completed", "sigint"} /\ Retry)
    BY <1>3 DEF Reap
  <2>. QED  BY <1>0, <2>1, <2>2 DEF StopWith, Retry
<1>4. CASE Reboot
  BY <1>0, <1>4 DEF Reboot
<1>5. CASE Child
  BY <1>0, <1>5, FailedExit DEF Child, supVars
<1>6. CASE UNCHANGED allVars
  BY <1>6 DEF allVars, vars, supVars
<1>. QED  BY <1>1, <1>2, <1>3, <1>4, <1>5, <1>6 DEF SupNext

\* The script never restarts after a pause, a finished run or a Ctrl-C: every attempt
\* beyond the first answers a fault or a signal of its own.
THEOREM RestartsAreEarned == SupSpec => []AttemptsEarned
<1>1. SupInit => AttemptInv /\ AttemptsEarned
  BY DEF SupInit, Init, AttemptInv, AttemptsEarned
<1>2. IInv /\ AttemptInv /\ AttemptsEarned /\ [SupNext]_allVars => (AttemptInv /\ AttemptsEarned)'
  BY AttemptStep
<1>. QED  BY SupervisedInvariance, <1>1, <1>2, PTL DEF SupSpec

-----------------------------------------------------------------------------
(* Delivered is stable: the safety half of EventuallyDelivered.            *)

\* What a save of a delivered run writes is the delivered position again.
LEMMA SaveKeepsDelivered == ASSUME IInv, Delivered, NEW ok \in BOOLEAN, Save(ok) PROVE Delivered'
<1>. USE RunAssumption DEF IInv, TypeOK, ControlOK, DiskOK, Files, Delivered
<1>0. pc # "down" /\ Contains(weights, Done) /\ Done \in Nat /\ disk["state"].next <= Done
  BY DEF Save, WriteCheckpoint, RenameCheckpoint, WriteModel, WriteState, RenameModel, RenameState,
     NoStepSkipped, RunInv, Done
<1>1. Done >= NumSteps /\ Contains(weights, NumSteps)
  BY <1>0 DEF Contains
<1>2. CASE disk' = disk
  BY <1>2 DEF Contains
<1>3. CASE RenameCheckpoint(ok) /\ disk' # disk
  <2>1. disk' = [disk EXCEPT ![ctx] = weights] /\ ctx \in {"best", "step", "final"}
    BY <1>3 DEF RenameCheckpoint, TmpInv, PhaseInv, Checkpointing
  <2>. QED  BY <2>1, <1>1 DEF Contains
<1>4. CASE RenameModel(ok) /\ disk' # disk
  BY <1>4 DEF RenameModel, Contains
<1>5. CASE RenameState(ok) /\ disk' # disk
  <2>1. disk' = [disk EXCEPT !["state"] = StateToSave] /\ pc \in SavingResume
    BY <1>5 DEF RenameState, TmpInv, SavingResume
  <2>2. StateToSave.next = NumSteps /\ StateToSave # NoFile
    <3>1. StateToSave \in ResumeState
      BY <2>1, SaveTyped
    <3>2. StateToSave.next = Done
      BY <2>1 DEF StateToSave, NextStep, Done, PhaseInv, SavingResume
    <3>. QED  BY <3>1, <3>2, <1>0, <1>1 DEF ResumeState
  <2>. QED  BY <2>1, <2>2 DEF Contains
<1>. QED  BY <1>2, <1>3, <1>4, <1>5 DEF Save, WriteCheckpoint, WriteModel, WriteState

\* The final checkpoint and the end of the run it records survive whatever follows: later
\* starts, saves still under way, crashes and reboots.
THEOREM DeliveredForGood == SupSpec => StaysDelivered
<1>1. ASSUME IInv, [SupNext]_allVars, Delivered PROVE Delivered'
  <2>1. disk' = disk => Delivered'
    BY <1>1 DEF Delivered, Contains
  <2>2. CASE disk' # disk
    <3>1. \E ok \in BOOLEAN : Save(ok)
      BY <1>1, <2>2, SupStep DEF Next, Start, StartFresh, ResumeCompleted, StartResume, Trainer, Loop,
         TrainStep, Evaluate, Boundary, FinishLoop, Outside, Crash, Signal, Die, vars
    <3>. QED  BY <1>1, <3>1, SaveKeepsDelivered
  <2>. QED  BY <2>1, <2>2
<1>2. IInv /\ [SupNext]_allVars => [Delivered => Delivered']_allVars
  BY <1>1
<1>. QED  BY SupervisedInvariance, <1>2, PTL DEF SupSpec, StaysDelivered
=============================================================================
