----------------------------- MODULE Supervised -----------------------------
(***************************************************************************)
(* train_supervised.sh around the trainer: one supervisor (SupervisorLock  *)
(* is about there being only one) starts `grad train ... [resume]`, waits  *)
(* for it, and restarts it until it exits 0, is interrupted, or the        *)
(* restart budget is used up. The script itself is started again by its    *)
(* user or by @reboot cron. The trainer and its files are TrainerRun's,    *)
(* with FreshOverOld = FALSE: the script starts from scratch only without  *)
(* a resume state.                                                         *)
(***************************************************************************)
EXTENDS TrainerRun

CONSTANT MaxRestarts   \* the script's max_restarts

ASSUME SupervisedAssumption == MaxRestarts \in Nat \ {0} /\ ~FreshOverOld

VARIABLES
  sup,       \* "off", "check" (top of the attempt loop), "wait" (child started)
  attempt,   \* the loop counter
  verdict    \* what the script last logged when it ended

supVars == <<sup, attempt, verdict>>
allVars == <<vars, supVars>>

SupInit == Init /\ sup = "off" /\ attempt = 0 /\ verdict = "none"

Launch ==
  /\ sup = "off" /\ pc = "down"
  /\ sup' = "check" /\ attempt' = 1
  /\ UNCHANGED <<vars, verdict>>

StartChild ==
  /\ sup = "check" /\ sup' = "wait"
  /\ Start
  /\ UNCHANGED <<attempt, verdict>>

StopWith(v) == sup' = "off" /\ verdict' = v /\ UNCHANGED attempt

Retry == IF attempt < MaxRestarts
           THEN sup' = "check" /\ attempt' = attempt + 1 /\ UNCHANGED verdict
           ELSE StopWith("gaveUp")

\* Slip: only the final checkpoint, not the exit status, ends the loop.
ReapByArtifact ==
  /\ sup = "wait" /\ pc = "down" /\ UNCHANGED vars
  /\ CASE rc = "sigint" -> StopWith("interrupted")
       [] OTHER -> Retry

\* The child ended: its status and the files decide.
Reap ==
  /\ sup = "wait" /\ pc = "down" /\ UNCHANGED vars
  /\ CASE rc \in {"finished", "paused", "completed"} ->
              StopWith(IF disk["final"] # NoFile THEN "finished" ELSE "paused")
       [] rc = "sigint" -> StopWith("interrupted")
       [] OTHER -> Retry

\* The machine goes down with everything on it.
Reboot ==
  /\ sup # "off" /\ faults < MaxFaults /\ faults' = faults + 1
  /\ sup' = "off" /\ verdict' = "none" /\ attempt' = attempt
  /\ UNCHANGED signals
  /\ Die("killed")

Child == (Trainer \/ Outside) /\ UNCHANGED supVars

SupNext == Launch \/ StartChild \/ Reap \/ Reboot \/ Child

\* The script, its user and the trainer keep going; nothing obliges a fault or a
\* signal to happen, and MaxFaults makes failures finite.
SupFairness ==
  /\ WF_allVars(Launch) /\ WF_allVars(StartChild) /\ WF_allVars(Reap)
  /\ WF_allVars(Trainer /\ UNCHANGED supVars)

SupSpec == SupInit /\ [][SupNext]_allVars /\ SupFairness
-----------------------------------------------------------------------------
\* "paused by SIGINT; resume state saved. Re-run this script to continue"
\* (train_supervised.sh:101): what the re-run finds is a run that can go on.
PausedCanContinue ==
  verdict = "paused" => disk["state"] \in ResumeState /\ disk["state"].next < NumSteps

\* A restart is spent only on an attempt that failed: never on a pause, a
\* completed run or a Ctrl-C.
AttemptsEarned == attempt <= faults + signals + 1

\* The run is delivered and every later start agrees that it is over.
Delivered == Contains(disk["final"], NumSteps) /\ disk["state"] # NoFile
             /\ disk["state"].next = NumSteps

\* With finitely many crashes, reboots, failed writes and signals, re-running the
\* script ends with the final checkpoint in place, unless a pause cannot continue.
EventuallyDelivered == []PausedCanContinue => <>[]Delivered

\* Delivered once is delivered for good: no later start, save or crash undoes it.
StaysDelivered == [][Delivered => Delivered']_allVars

\* Behind AttemptsEarned: an attempt that ended without a reason to stop was ended by a
\* fault or a signal, which has not been paid for with a restart yet.
AttemptInv ==
  /\ sup \in {"off", "check", "wait"} /\ attempt \in Nat
  /\ sup = "wait" /\ pc = "down" /\ rc \notin {"finished", "paused", "completed", "sigint"}
       => attempt <= faults + signals
=============================================================================
