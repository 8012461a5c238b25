--------------------------- MODULE SupervisorLock ---------------------------
(***************************************************************************)
(* The single-instance lock of train_supervised.sh (lines 62-75): a        *)
(* directory made with mkdir, holding a pid file; a lock whose pid is not  *)
(* alive is cleared. One action per command; `rm -rf` is the two system    *)
(* calls it makes. Pids are not reused, so a pid is the supervisor and the *)
(* number of its start.                                                    *)
(***************************************************************************)
EXTENDS Integers

CONSTANTS
  Supervisors,
  Overlap,      \* whether starts and stops may overlap another one's start
  NoDir, NoPid,
  MaxStarts,    \* bound: starts of each supervisor
  MaxKills      \* bound: hard kills

ASSUME LockAssumption ==
  /\ NoDir # NoPid /\ {NoDir, NoPid} \intersect (Supervisors \X Nat) = {}
  /\ Overlap \in BOOLEAN /\ MaxStarts \in Nat /\ MaxKills \in Nat

VARIABLES
  lock,    \* NoDir, or the content of the pid file (NoPid when there is none)
  pc,      \* the command each supervisor is about to run
  starts, kills

vars == <<lock, pc, starts, kills>>

Me(p)     == <<p, starts[p]>>
Gone      == {"out", "refused", "killed"}
Settled   == Gone \union {"run"}
Alive(id) == starts[id[1]] = id[2] /\ pc[id[1]] \notin Gone

Init ==
  /\ lock = NoDir
  /\ pc = [p \in Supervisors |-> "out"]
  /\ starts = [p \in Supervisors |-> 0] /\ kills = 0

Go(p, at) == pc' = [pc EXCEPT ![p] = at]

\* Nobody else is in the middle of taking or giving up the lock.
Undisturbed(p) == Overlap \/ \A q \in Supervisors \ {p} : pc[q] \in Settled

Start(p) ==
  /\ pc[p] \in Gone /\ starts[p] < MaxStarts /\ Undisturbed(p)
  /\ starts' = [starts EXCEPT ![p] = @ + 1] /\ Go(p, "mkdir")
  /\ UNCHANGED <<lock, kills>>

Mkdir(p) ==
  /\ pc[p] = "mkdir"
  /\ IF lock = NoDir THEN lock' = NoPid /\ Go(p, "writePid")
                     ELSE Go(p, "inspect") /\ UNCHANGED lock
  /\ UNCHANGED <<starts, kills>>

\* Slip: a lock with a pid file is always respected.
InspectTrustsFile(p) ==
  /\ pc[p] = "inspect"
  /\ Go(p, IF lock \in {NoDir, NoPid} THEN "rmPid" ELSE "refused")
  /\ UNCHANGED <<lock, starts, kills>>

\* [ -f pid ] && kill -0 `cat pid`.
Inspect(p) ==
  /\ pc[p] = "inspect"
  /\ Go(p, IF lock \in {NoDir, NoPid} \/ ~Alive(lock) THEN "rmPid" ELSE "refused")
  /\ UNCHANGED <<lock, starts, kills>>

\* rm -rf "$LOCKDIR", to clear a stale lock or in the EXIT trap.
RmPid(p) ==
  /\ pc[p] \in {"rmPid", "trapPid"}
  /\ lock' = IF lock = NoDir THEN NoDir ELSE NoPid
  /\ Go(p, IF pc[p] = "rmPid" THEN "rmDir" ELSE "trapDir")
  /\ UNCHANGED <<starts, kills>>

RmDir(p) ==
  /\ pc[p] \in {"rmDir", "trapDir"}
  /\ lock' = IF lock = NoPid THEN NoDir ELSE lock
  /\ Go(p, IF pc[p] = "rmDir" THEN "mkdirAgain" ELSE "out")
  /\ UNCHANGED <<starts, kills>>

MkdirAgain(p) ==
  /\ pc[p] = "mkdirAgain"
  /\ IF lock = NoDir THEN lock' = NoPid /\ Go(p, "writePid")
                     ELSE Go(p, "refused") /\ UNCHANGED lock
  /\ UNCHANGED <<starts, kills>>

\* Slip: the pid is never recorded.
WritePidForgotten(p) ==
  /\ pc[p] = "writePid" /\ Go(p, "run")
  /\ UNCHANGED <<lock, starts, kills>>

\* echo $$ > pid; when the directory is gone it fails and the script goes on.
WritePid(p) ==
  /\ pc[p] = "writePid"
  /\ lock' = IF lock = NoDir THEN NoDir ELSE Me(p)
  /\ Go(p, "run")
  /\ UNCHANGED <<starts, kills>>

\* The attempt loop is over: the EXIT trap runs.
Stop(p) ==
  /\ pc[p] = "run" /\ Undisturbed(p) /\ Go(p, "trapPid")
  /\ UNCHANGED <<lock, starts, kills>>

Kill(p) ==
  /\ pc[p] \notin Gone /\ kills < MaxKills
  /\ kills' = kills + 1 /\ Go(p, "killed")
  /\ UNCHANGED <<lock, starts>>

Script(p) ==
  \/ Mkdir(p) \/ Inspect(p) \/ RmPid(p) \/ RmDir(p) \/ MkdirAgain(p) \/ WritePid(p)

Next == \E p \in Supervisors : Start(p) \/ Script(p) \/ Stop(p) \/ Kill(p)

\* A started script keeps executing; nothing forces a start, a stop or a kill.
Spec == Init /\ [][Next]_vars /\ \A p \in Supervisors : WF_vars(Script(p))
-----------------------------------------------------------------------------
\* "Single instance. Two supervisors racing on one checkpoint pair corrupts it."
\* (train_supervised.sh:62): at most one runs the attempt loop.
SingleInstance ==
  \A p, q \in Supervisors : pc[p] = "run" /\ pc[q] = "run" => p = q

\* "Stale lock from a hard kill is cleared by PID check" (train_supervised.sh:64):
\* wherever a kill struck, a supervisor that finds itself alone gets to run.
OthersGone(p) == \A q \in Supervisors \ {p} : pc[q] \in Gone
StaleLockIsCleared ==
  \A p \in Supervisors :
    pc[p] = "mkdir" /\ OthersGone(p) ~> pc[p] \in {"run", "killed"} \/ ~OthersGone(p)
-----------------------------------------------------------------------------
(* Why one at a time suffices (see SupervisorLockProofs).                  *)

TypeOK ==
  /\ lock \in {NoDir, NoPid} \union (Supervisors \X Nat)
  /\ pc \in [Supervisors -> Settled \union {"mkdir", "inspect", "rmPid", "rmDir", "mkdirAgain",
                                          "writePid", "trapPid", "trapDir"}]
  /\ starts \in [Supervisors -> Nat] /\ kills \in Nat

\* One supervisor at a time takes or gives up the lock, and while it removes a lock, or
\* has it without its pid in it, no other one runs; one that runs has its pid in the lock.
OneInside == \A p, q \in Supervisors : pc[p] \notin Settled /\ pc[q] \notin Settled => p = q
ClearsAlone ==
  \A p, q \in Supervisors :
    pc[p] \in {"rmPid", "rmDir", "mkdirAgain", "writePid", "trapPid", "trapDir"} => pc[q] # "run"
RunnerHolds ==
  \A p \in Supervisors :
    /\ pc[p] = "run" => lock = Me(p)
    /\ pc[p] = "writePid" => lock = NoPid

IInv == TypeOK /\ OneInside /\ ClearsAlone /\ RunnerHolds /\ SingleInstance
=============================================================================
