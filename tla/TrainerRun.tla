----------------------------- MODULE TrainerRun -----------------------------
(***************************************************************************)
(* One training run of grad.cpp as a process that may die at any point:    *)
(* the loop of Trainer::train, the files it writes (the resume pair, the   *)
(* best, step and final checkpoints, each through a .tmp sibling and a     *)
(* rename), the SIGINT/SIGTERM guard, and the starts of src/cli/train.cpp  *)
(* (from scratch, or `resume`).                                            *)
(*                                                                         *)
(* Weights are a record of which run produced them, which optimizer steps  *)
(* went into them, and the validation loss evaluate() would measure on     *)
(* them; nothing else about a tensor matters here.                         *)
(***************************************************************************)
EXTENDS Integers

CONSTANTS
  NumSteps,            \* config.num_steps
  EvalInterval,        \* config.eval_interval, 0 = never
  CheckpointInterval,  \* config.checkpoint_interval
  MaxLoss,             \* validation losses are 1..MaxLoss
  FreshOverOld,        \* whether a user starts from scratch over an old resume pair
  MaxRuns,             \* bound: starts from scratch
  MaxFaults,           \* bound: crashes and failed writes or renames
  MaxSignals,          \* bound: SIGINT/SIGTERM deliveries
  NoFile, Torn         \* a file that does not exist; a file cut off mid-write

Steps  == 0..(NumSteps - 1)
Losses == 1..MaxLoss
Inf    == MaxLoss + 1  \* std::numeric_limits<float>::max()

Weights     == [run : Nat, applied : SUBSET Steps, loss : 0..MaxLoss]
ResumeState == [run : Nat, next : 0..NumSteps, opt : Nat, best : 0..Inf]

ASSUME RunAssumption ==
  /\ NumSteps \in Nat \ {0} /\ MaxLoss \in Nat \ {0}
  /\ EvalInterval \in Nat /\ CheckpointInterval \in Nat \ {0}
  /\ FreshOverOld \in BOOLEAN
  /\ MaxRuns \in Nat /\ MaxFaults \in Nat /\ MaxSignals \in Nat
  /\ NoFile # Torn
  /\ NoFile \notin Weights \union ResumeState
  /\ Torn \notin Weights \union ResumeState

VARIABLES
  pc,       \* where train() is, "down" when no trainer process exists
  ctx,      \* which call of save_checkpoint / save_resume_state is running
  step, weights, opt, best,   \* the loop variable, model_, step_count, best_val_loss
  stop, armed,                \* g_stop_requested; signals StopSignalGuard still handles
  disk, tmp,                  \* the files and their .tmp siblings
  rc,                         \* how the last process ended
  runs, faults, signals       \* counters (runs also names the newest run)

memory == <<ctx, step, weights, opt, best, stop, armed>>
vars   == <<pc, memory, disk, tmp, rc, runs, faults, signals>>

Files   == {"model", "state", "best", "step", "final"}
Signals == {"INT", "TERM"}
PCs     == {"down", "train", "eval", "ckptWrite", "ckptRename", "modelWrite",
            "stateWrite", "modelRename", "stateRename", "boundary"}
Ctxs    == {"none", "best", "step", "final", "eval", "stop"}
Exits   == {"none", "paused", "finished", "completed", "error", "killed", "sigint"}

Init ==
  /\ pc = "down" /\ rc = "none"
  /\ ctx = "none" /\ step = 0 /\ weights = NoFile /\ opt = 0 /\ best = Inf
  /\ stop = 0 /\ armed = {}
  /\ disk = [f \in Files |-> NoFile] /\ tmp = [f \in Files |-> NoFile]
  /\ runs = 0 /\ faults = 0 /\ signals = 0

Counters == <<runs, faults, signals>>

\* The process ends; its memory goes with it.
Exit(how) ==
  /\ pc' = "down" /\ rc' = how
  /\ ctx' = "none" /\ step' = 0 /\ weights' = NoFile /\ opt' = 0 /\ best' = Inf
  /\ stop' = 0 /\ armed' = {}

\* Continue inside the process at p, in call c.
Goto(p, c) == pc' = p /\ ctx' = c /\ UNCHANGED rc

\* What code outside training_step and the loop head leaves alone.
Stay == UNCHANGED <<step, weights, opt, best, stop, armed>>

\* A write or rename may fail; failures are a bounded resource of the model.
Outcome(ok) == IF ok THEN UNCHANGED faults ELSE faults < MaxFaults /\ faults' = faults + 1
-----------------------------------------------------------------------------
(* Starting a process: grad train <corpus> <preset> [resume].              *)

\* A process comes up with these weights, this position and this optimizer state.
Begin(w, s, o, b) ==
  /\ pc' = "train" /\ ctx' = "none" /\ rc' = "none"
  /\ weights' = w /\ step' = s /\ opt' = o /\ best' = b
  /\ stop' = 0 /\ armed' = Signals

StartFresh ==
  /\ pc = "down" /\ runs < MaxRuns
  /\ disk["state"] = NoFile \/ FreshOverOld
  /\ Begin([run |-> runs + 1, applied |-> {}, loss |-> 0], 0, 0, Inf)
  /\ runs' = runs + 1
  /\ UNCHANGED <<disk, tmp, faults, signals>>

\* Slip: a run saved before its last step counts as complete.
ResumeCompletedEarly ==
  /\ pc = "down" /\ disk["state"] \in ResumeState
  /\ disk["state"].next >= NumSteps - 1
  /\ rc' = "completed"
  /\ UNCHANGED <<pc, memory, disk, tmp, Counters>>

\* peek_resume_step already says the run is over: exit 0 without touching a file.
ResumeCompleted ==
  /\ pc = "down" /\ disk["state"] \in ResumeState
  /\ disk["state"].next >= NumSteps
  /\ rc' = "completed"
  /\ UNCHANGED <<pc, memory, disk, tmp, Counters>>

\* A pair to continue from, and the state and weights it holds.
Resumable == /\ pc = "down" /\ disk["state"] \in ResumeState /\ disk["model"] \in Weights
             /\ disk["state"].next < NumSteps

\* Slip: the moments and step count are not restored.
StartResumeColdOptimizer ==
  /\ Resumable
  /\ Begin(disk["model"], disk["state"].next, 0, disk["state"].best)
  /\ UNCHANGED <<disk, tmp, Counters>>

StartResume ==
  /\ Resumable
  /\ Begin(disk["model"], disk["state"].next, disk["state"].opt, disk["state"].best)
  /\ UNCHANGED <<disk, tmp, Counters>>
-----------------------------------------------------------------------------
(* The loop of Trainer::train.                                             *)

EvalDue(s)       == EvalInterval > 0 /\ s > 0 /\ s % EvalInterval = 0
CheckpointDue(s) == s > 0 /\ s % CheckpointInterval = 0

\* What follows the evaluation block of step `step`.
AfterEval == IF CheckpointDue(step) THEN Goto("ckptWrite", "step") ELSE Goto("boundary", "none")

\* training_step: one optimizer step; what the weights will score is open.
TrainStep ==
  /\ pc = "train" /\ step < NumSteps
  /\ \E l \in Losses :
       weights' = [weights EXCEPT !.applied = @ \union {step}, !.loss = l]
  /\ opt' = opt + 1
  /\ IF EvalDue(step) THEN Goto("eval", "none") ELSE AfterEval
  /\ UNCHANGED <<step, best, stop, armed, disk, tmp, Counters>>

Evaluate ==
  /\ pc = "eval"
  /\ IF weights.loss < best THEN Goto("ckptWrite", "best") ELSE Goto("modelWrite", "eval")
  /\ Stay /\ UNCHANGED <<disk, tmp, Counters>>

\* The step boundary: honour a stop request, else go round the loop.
Boundary ==
  /\ pc = "boundary"
  /\ IF stop = 1 THEN Goto("modelWrite", "stop") /\ UNCHANGED step
             ELSE Goto("train", "none") /\ step' = step + 1
  /\ UNCHANGED <<weights, opt, best, stop, armed, disk, tmp, Counters>>

\* Slip: the loop bound is one short.
FinishLoopEarly ==
  /\ pc = "train" /\ step = NumSteps - 1
  /\ Goto("ckptWrite", "final")
  /\ armed' = {}
  /\ UNCHANGED <<step, weights, opt, best, stop, disk, tmp, Counters>>

\* The loop is over: the guard is released and the final checkpoint is due.
FinishLoop ==
  /\ pc = "train" /\ step = NumSteps
  /\ Goto("ckptWrite", "final")
  /\ armed' = {}
  /\ UNCHANGED <<step, weights, opt, best, stop, disk, tmp, Counters>>
-----------------------------------------------------------------------------
(* save_checkpoint(<best | step | final>): write the .tmp, then rename.    *)

\* Slip: the bar moves although the write failed.
CheckpointReturnsBlindly(ok) ==
  CASE ctx = "best"  -> /\ Goto("modelWrite", "eval")
                        /\ best' = weights.loss
                        /\ UNCHANGED <<step, weights, opt, stop, armed>>
    [] ctx = "step"  -> Goto("boundary", "none") /\ Stay
    [] ctx = "final" -> IF ok THEN Goto("modelWrite", "final") /\ Stay ELSE Exit("error")

CheckpointReturns(ok) ==
  CASE ctx = "best"  -> /\ Goto("modelWrite", "eval")
                        /\ best' = IF ok THEN weights.loss ELSE best
                        /\ UNCHANGED <<step, weights, opt, stop, armed>>
    [] ctx = "step"  -> Goto("boundary", "none") /\ Stay
    [] ctx = "final" -> IF ok THEN Goto("modelWrite", "final") /\ Stay ELSE Exit("error")

WriteCheckpoint(ok) ==
  /\ pc = "ckptWrite" /\ Outcome(ok)
  /\ tmp' = [tmp EXCEPT ![ctx] = IF ok THEN weights ELSE NoFile]
  /\ IF ok THEN Goto("ckptRename", ctx) /\ Stay
           ELSE CheckpointReturns(FALSE)
  /\ UNCHANGED <<disk, runs, signals>>

RenameCheckpoint(ok) ==
  /\ pc = "ckptRename" /\ Outcome(ok)
  /\ tmp' = [tmp EXCEPT ![ctx] = NoFile]
  /\ disk' = IF ok THEN [disk EXCEPT ![ctx] = tmp[ctx]] ELSE disk
  /\ CheckpointReturns(ok)
  /\ UNCHANGED <<runs, signals>>
-----------------------------------------------------------------------------
(* save_resume_state: both .tmp files, then the model, then the state.     *)

\* Slip: the position saved is the step just taken.
NextStepUnadvanced == IF ctx = "final" THEN NumSteps ELSE step

NextStep   == IF ctx = "final" THEN NumSteps ELSE step + 1
StateToSave == [run |-> weights.run, next |-> NextStep, opt |-> opt, best |-> best]

\* Slip: an interrupted run ignores that its save failed.
ResumeReturnsBlindly(ok) ==
  CASE ctx = "eval"  -> AfterEval /\ Stay
    [] ctx = "stop"  -> Exit("paused")
    [] ctx = "final" -> Exit("finished")

ResumeReturns(ok) ==
  CASE ctx = "eval"  -> AfterEval /\ Stay
    [] ctx = "stop"  -> Exit(IF ok THEN "paused" ELSE "error")
    [] ctx = "final" -> Exit("finished")

WriteModel(ok) ==
  /\ pc = "modelWrite" /\ Outcome(ok)
  /\ tmp' = [tmp EXCEPT !["model"] = IF ok THEN weights ELSE NoFile]
  /\ IF ok THEN Goto("stateWrite", ctx) /\ Stay ELSE ResumeReturns(FALSE)
  /\ UNCHANGED <<disk, runs, signals>>

\* Slip: the state file is written in place.
WriteStateInPlace(ok) ==
  /\ pc = "stateWrite" /\ Outcome(ok)
  /\ tmp' = [tmp EXCEPT !["state"] = StateToSave]
  /\ disk' = IF ok THEN [disk EXCEPT !["state"] = StateToSave] ELSE disk
  /\ IF ok THEN Goto("modelRename", ctx) /\ Stay ELSE ResumeReturns(FALSE)
  /\ UNCHANGED <<runs, signals>>

WriteState(ok) ==
  /\ pc = "stateWrite" /\ Outcome(ok)
  /\ tmp' = IF ok THEN [tmp EXCEPT !["state"] = StateToSave]
                  ELSE [tmp EXCEPT !["state"] = NoFile, !["model"] = NoFile]
  /\ IF ok THEN Goto("modelRename", ctx) /\ Stay ELSE ResumeReturns(FALSE)
  /\ UNCHANGED <<disk, runs, signals>>

RenameModel(ok) ==
  /\ pc = "modelRename" /\ Outcome(ok)
  /\ IF ok THEN /\ disk' = [disk EXCEPT !["model"] = tmp["model"]]
                /\ tmp' = [tmp EXCEPT !["model"] = NoFile]
                /\ Goto("stateRename", ctx) /\ Stay
           ELSE /\ tmp' = [tmp EXCEPT !["model"] = NoFile, !["state"] = NoFile]
                /\ ResumeReturns(FALSE) /\ UNCHANGED disk
  /\ UNCHANGED <<runs, signals>>

RenameState(ok) ==
  /\ pc = "stateRename" /\ Outcome(ok)
  /\ tmp' = [tmp EXCEPT !["state"] = NoFile]
  /\ disk' = IF ok THEN [disk EXCEPT !["state"] = tmp["state"]] ELSE disk
  /\ ResumeReturns(ok)
  /\ UNCHANGED <<runs, signals>>
-----------------------------------------------------------------------------
(* The outside world.                                                      *)

\* The .tmp a write in progress has open, which a crash may leave cut off.
BeingWritten == CASE pc = "ckptWrite"  -> {ctx}
                  [] pc = "modelWrite" -> {"model"}
                  [] pc = "stateWrite" -> {"state"}
                  [] OTHER -> {}

\* The process disappears: OOM kill, power, an uncaught exception. Renamed files stay whole.
Die(how) ==
  /\ Exit(how)
  /\ \E cut \in SUBSET BeingWritten :
       tmp' = [f \in Files |-> IF f \in cut THEN Torn ELSE tmp[f]]
  /\ UNCHANGED <<disk, runs>>

Crash ==
  /\ pc # "down" /\ faults < MaxFaults
  /\ Die("killed")
  /\ faults' = faults + 1 /\ UNCHANGED signals

\* Handled once per kind (SA_RESETHAND); after that, and outside the loop, it kills.
Signal(kind) ==
  /\ pc # "down" /\ signals < MaxSignals /\ signals' = signals + 1
  /\ UNCHANGED faults
  /\ IF kind \in armed
       THEN /\ stop' = 1 /\ armed' = armed \ {kind}
            /\ UNCHANGED <<pc, ctx, step, weights, opt, best, disk, tmp, rc, runs>>
       ELSE Die(IF kind = "INT" THEN "sigint" ELSE "killed")

Start == StartFresh \/ ResumeCompleted \/ StartResume

Loop == TrainStep \/ Evaluate \/ Boundary \/ FinishLoop

Save(ok) ==
  \/ WriteCheckpoint(ok) \/ RenameCheckpoint(ok)
  \/ WriteModel(ok) \/ WriteState(ok) \/ RenameModel(ok) \/ RenameState(ok)

Trainer == Loop \/ \E ok \in BOOLEAN : Save(ok)
Outside == Crash \/ \E kind \in Signals : Signal(kind)

Next == Start \/ Trainer \/ Outside

Spec == Init /\ [][Next]_vars
-----------------------------------------------------------------------------
(* Properties.                                                             *)

\* Every variable stays in its range; a visible file is absent or complete.
ControlOK ==
  /\ pc \in PCs /\ ctx \in Ctxs /\ rc \in Exits
  /\ step \in 0..NumSteps /\ opt \in Nat /\ best \in 0..Inf
  /\ weights \in Weights \union {NoFile}
  /\ stop \in {0, 1} /\ armed \in SUBSET Signals
DiskOK ==
  /\ disk \in [Files -> Weights \union ResumeState \union {NoFile}]
  /\ tmp \in [Files -> Weights \union ResumeState \union {NoFile, Torn}]
CountersOK == runs \in Nat /\ faults \in Nat /\ signals \in Nat
TypeOK == ControlOK /\ DiskOK /\ CountersOK

\* Optimizer steps whose effect the running process holds.
Done == IF pc = "train" \/ ctx = "final" THEN step ELSE step + 1

Contains(w, n) == w \in Weights /\ 0..(n - 1) \subseteq w.applied

\* However often the process died and resumed, training at step s works on weights
\* that went through every step before s, and Adam's step count (which places the
\* learning rate on its schedule) is s: Trainer::load_resume_state and the pair it loads.
NoStepSkipped == pc # "down" => Contains(weights, Done) /\ opt = Done

\* The resume pair on disk never skips: the model beside a state file that says
\* "continue at n" comes from the same run and contains steps 0..n-1, whatever
\* crash or failed rename separated the two (save_resume_state renames the state last).
PairReplays ==
  disk["state"] # NoFile =>
    /\ disk["state"] \in ResumeState /\ Contains(disk["model"], disk["state"].next)
    /\ disk["model"].run = disk["state"].run /\ disk["state"].opt = disk["state"].next

\* _final.bin, the run's deliverable, is only ever the weights of all NumSteps
\* steps, and a process that reports a finished run has left one.
FinalIsComplete ==
  /\ disk["final"] # NoFile => Contains(disk["final"], NumSteps)
  /\ rc = "finished" => disk["final"] # NoFile

\* The bar best_val_loss, in memory and in the state file, never promises more than
\* _best.bin delivers: some complete checkpoint of this run scores at least as well.
Delivers(bar, run) ==
  bar < Inf => disk["best"] \in Weights /\ disk["best"].run = run /\ disk["best"].loss <= bar
BestBarBacked ==
  /\ pc # "down" => Delivers(best, weights.run)
  /\ disk["state"] \in ResumeState => Delivers(disk["state"].best, disk["state"].run)

\* A run that reports itself interrupted has saved exactly the step it stopped after:
\* the pair on disk is the weights it held, to be continued at the next step.
PausedIsSaved ==
  [][rc' = "paused" /\ pc # "down" /\ pc' = "down" =>
       disk'["model"] = weights /\ disk'["state"].next = step + 1]_vars

\* Within a run a worse model never replaces a better _best.bin: "best_val_loss
\* tracks what _best.bin holds" (trainer.cpp:257).
BestNeverRegresses ==
  [][disk["best"] \in Weights /\ disk'["best"] # disk["best"] /\ disk'["best"].run = disk["best"].run
       => disk'["best"].loss <= disk["best"].loss]_vars

(***************************************************************************)
(* The inductive invariant behind NoStepSkipped, PairReplays and           *)
(* FinalIsComplete, when no run starts over an old resume pair: which      *)
(* files and which memory a process at each point can rely on.             *)
(***************************************************************************)
Checkpointing == {"ckptWrite", "ckptRename"}
SavingResume  == {"modelWrite", "stateWrite", "modelRename", "stateRename"}

\* A call in progress knows its caller, and the caller its position in the loop.
PhaseInv ==
  /\ pc \in Checkpointing => ctx \in {"best", "step", "final"}
  /\ pc \in SavingResume  => ctx \in {"eval", "stop", "final"}
  /\ pc \notin Checkpointing \union SavingResume => ctx = "none"
  /\ ctx = "final" => step = NumSteps
  /\ pc \notin {"train", "down"} /\ ctx # "final" => step < NumSteps
  /\ ctx = "final" /\ pc \in SavingResume => disk["final"] # NoFile

\* The resume state on disk belongs to the newest run and is behind the process.
RunInv ==
  /\ pc # "down" => weights \in Weights /\ weights.run = runs
  /\ disk["state"] # NoFile => disk["state"].run = runs
  /\ pc # "down" /\ disk["state"] # NoFile => disk["state"].next <= Done

\* What is about to be renamed is what the process wrote.
TmpInv ==
  /\ pc = "ckptRename" => tmp[ctx] = weights
  /\ pc \in {"stateWrite", "modelRename"} => tmp["model"] = weights
  /\ pc \in {"modelRename", "stateRename"} => tmp["state"] = StateToSave
  /\ pc = "stateRename" => disk["model"] = weights

IInv == /\ TypeOK /\ PhaseInv /\ RunInv /\ TmpInv
        /\ NoStepSkipped /\ PairReplays /\ FinalIsComplete

\* The bar only falls below what is saved, and only a better model is on its way to
\* _best.bin: behind BestBarBacked.
BarInv ==
  /\ pc # "down" /\ disk["state"] # NoFile => best <= disk["state"].best
  /\ pc \in Checkpointing /\ ctx = "best" => weights.loss < best

\* The abstract run: a position that a restart returns to the saved one.
RunProgress == INSTANCE AtomicProgress WITH
  at        <- IF pc = "down" THEN -1 ELSE Done,
  saved     <- IF disk["state"] = NoFile THEN 0 ELSE disk["state"].next,
  delivered <- disk["final"] # NoFile

\* Two files renamed one after the other implement one atomic save.
ImplementsAtomicProgress == RunProgress!Spec
=============================================================================
