------------------------ MODULE SupervisorLockProofs ------------------------
(***************************************************************************)
(* Proofs about SupervisorLock: with starts and stops one at a time, at    *)
(* most one supervisor runs, for any number of supervisors, starts and     *)
(* hard kills. One lemma per command shows that it keeps IInv: whoever     *)
(* runs has its pid in the lock, and a lock with a live pid is not         *)
(* cleared. supervisor_race shows that the hypothesis is needed.           *)
(***************************************************************************)
EXTENDS SupervisorLock, TLAPS

\* A start while nobody else takes or gives up the lock.
LEMMA StartKeeps == ASSUME ~Overlap, IInv, NEW p \in Supervisors, Start(p) PROVE IInv'
<1>. USE LockAssumption DEF IInv, Settled, Gone, Undisturbed, Go, Me
<1>1. TypeOK'
  BY DEF TypeOK, Start
<1>2. OneInside'
  BY DEF TypeOK, OneInside, Start
<1>3. ClearsAlone'
  BY DEF TypeOK, OneInside, ClearsAlone, RunnerHolds, SingleInstance, Start
<1>4. RunnerHolds'
  BY DEF TypeOK, OneInside, ClearsAlone, RunnerHolds, Start
<1>5. SingleInstance'
  BY DEF TypeOK, ClearsAlone, SingleInstance, Start
<1>. QED  BY <1>1, <1>2, <1>3, <1>4, <1>5

\* mkdir succeeds only when there is no lock, so nobody runs.
LEMMA MkdirKeeps == ASSUME IInv, NEW p \in Supervisors, Mkdir(p) PROVE IInv'
<1>. USE LockAssumption DEF IInv, Settled, Gone, Go, Me
<1>1. TypeOK'
  BY DEF TypeOK, Mkdir
<1>2. OneInside'
  BY DEF TypeOK, OneInside, Mkdir
<1>3. ClearsAlone'
  BY DEF TypeOK, OneInside, ClearsAlone, RunnerHolds, SingleInstance, Mkdir
<1>4. RunnerHolds'
  BY DEF TypeOK, OneInside, ClearsAlone, RunnerHolds, Mkdir
<1>5. SingleInstance'
  BY DEF TypeOK, ClearsAlone, SingleInstance, Mkdir
<1>. QED  BY <1>1, <1>2, <1>3, <1>4, <1>5

\* The pid in the lock is alive when a supervisor runs: it is never cleared under one.
LEMMA InspectKeeps == ASSUME IInv, NEW p \in Supervisors, Inspect(p) PROVE IInv'
<1>. USE LockAssumption DEF IInv, Settled, Gone, Go, Me
<1>1. TypeOK'
  BY DEF TypeOK, Inspect
<1>2. OneInside'
  BY DEF TypeOK, OneInside, Inspect
<1>3. ClearsAlone'
  BY DEF TypeOK, OneInside, ClearsAlone, RunnerHolds, SingleInstance, Inspect, Alive
<1>4. RunnerHolds'
  BY DEF TypeOK, OneInside, ClearsAlone, RunnerHolds, Inspect
<1>5. SingleInstance'
  BY DEF TypeOK, ClearsAlone, SingleInstance, Inspect
<1>. QED  BY <1>1, <1>2, <1>3, <1>4, <1>5

\* rm -rf removes the pid file: nobody else runs.
LEMMA RmPidKeeps == ASSUME IInv, NEW p \in Supervisors, RmPid(p) PROVE IInv'
<1>. USE LockAssumption DEF IInv, Settled, Gone, Go, Me
<1>1. TypeOK'
  BY DEF TypeOK, RmPid
<1>2. OneInside'
  BY DEF TypeOK, OneInside, RmPid
<1>3. ClearsAlone'
  BY DEF TypeOK, OneInside, ClearsAlone, RunnerHolds, SingleInstance, RmPid
<1>4. RunnerHolds'
  BY DEF TypeOK, OneInside, ClearsAlone, RunnerHolds, RmPid
<1>5. SingleInstance'
  BY DEF TypeOK, ClearsAlone, SingleInstance, RmPid
<1>. QED  BY <1>1, <1>2, <1>3, <1>4, <1>5

\* rm -rf removes the directory: nobody else runs.
LEMMA RmDirKeeps == ASSUME IInv, NEW p \in Supervisors, RmDir(p) PROVE IInv'
<1>. USE LockAssumption DEF IInv, Settled, Gone, Go, Me
<1>1. TypeOK'
  BY DEF TypeOK, RmDir
<1>2. OneInside'
  BY DEF TypeOK, OneInside, RmDir
<1>3. ClearsAlone'
  BY DEF TypeOK, OneInside, ClearsAlone, RunnerHolds, SingleInstance, RmDir
<1>4. RunnerHolds'
  BY DEF TypeOK, OneInside, ClearsAlone, RunnerHolds, RmDir
<1>5. SingleInstance'
  BY DEF TypeOK, ClearsAlone, SingleInstance, RmDir
<1>. QED  BY <1>1, <1>2, <1>3, <1>4, <1>5

\* The second mkdir, after a stale lock was cleared.
LEMMA MkdirAgainKeeps == ASSUME IInv, NEW p \in Supervisors, MkdirAgain(p) PROVE IInv'
<1>. USE LockAssumption DEF IInv, Settled, Gone, Go, Me
<1>1. TypeOK'
  BY DEF TypeOK, MkdirAgain
<1>2. OneInside'
  BY DEF TypeOK, OneInside, MkdirAgain
<1>3. ClearsAlone'
  BY DEF TypeOK, OneInside, ClearsAlone, RunnerHolds, SingleInstance, MkdirAgain
<1>4. RunnerHolds'
  BY DEF TypeOK, OneInside, ClearsAlone, RunnerHolds, MkdirAgain
<1>5. SingleInstance'
  BY DEF TypeOK, ClearsAlone, SingleInstance, MkdirAgain
<1>. QED  BY <1>1, <1>2, <1>3, <1>4, <1>5

\* The pid goes into the lock just made, and the supervisor runs.
LEMMA WritePidKeeps == ASSUME IInv, NEW p \in Supervisors, WritePid(p) PROVE IInv'
<1>. USE LockAssumption DEF IInv, Settled, Gone, Go, Me
<1>1. TypeOK'
  BY DEF TypeOK, WritePid
<1>2. OneInside'
  BY DEF TypeOK, OneInside, WritePid
<1>3. ClearsAlone'
  BY DEF TypeOK, OneInside, ClearsAlone, RunnerHolds, SingleInstance, WritePid
<1>4. RunnerHolds'
  BY DEF TypeOK, OneInside, ClearsAlone, RunnerHolds, WritePid
<1>5. SingleInstance'
  BY DEF TypeOK, ClearsAlone, SingleInstance, WritePid
<1>. QED  BY <1>1, <1>2, <1>3, <1>4, <1>5

\* The EXIT trap of the one that runs.
LEMMA StopKeeps == ASSUME ~Overlap, IInv, NEW p \in Supervisors, Stop(p) PROVE IInv'
<1>. USE LockAssumption DEF IInv, Settled, Gone, Undisturbed, Go, Me
<1>1. TypeOK'
  BY DEF TypeOK, Stop
<1>2. OneInside'
  BY DEF TypeOK, OneInside, Stop
<1>3. ClearsAlone'
  BY DEF TypeOK, OneInside, ClearsAlone, RunnerHolds, SingleInstance, Stop
<1>4. RunnerHolds'
  BY DEF TypeOK, OneInside, ClearsAlone, RunnerHolds, Stop
<1>5. SingleInstance'
  BY DEF TypeOK, ClearsAlone, SingleInstance, Stop
<1>. QED  BY <1>1, <1>2, <1>3, <1>4, <1>5

\* A hard kill leaves the lock as it is.
LEMMA KillKeeps == ASSUME IInv, NEW p \in Supervisors, Kill(p) PROVE IInv'
<1>. USE LockAssumption DEF IInv, Settled, Gone, Go, Me
<1>1. TypeOK'
  BY DEF TypeOK, Kill
<1>2. OneInside'
  BY DEF TypeOK, OneInside, Kill
<1>3. ClearsAlone'
  BY DEF TypeOK, OneInside, ClearsAlone, RunnerHolds, SingleInstance, Kill
<1>4. RunnerHolds'
  BY DEF TypeOK, OneInside, ClearsAlone, RunnerHolds, Kill
<1>5. SingleInstance'
  BY DEF TypeOK, ClearsAlone, SingleInstance, Kill
<1>. QED  BY <1>1, <1>2, <1>3, <1>4, <1>5

\* Before the first start nobody runs.
LEMMA Initially == Init => IInv
BY LockAssumption
   DEF Init, IInv, TypeOK, OneInside, ClearsAlone, RunnerHolds, SingleInstance, Settled, Gone

\* Every command keeps IInv.
LEMMA StepKeeps == ~Overlap /\ IInv /\ [Next]_vars => IInv'
<1> SUFFICES ASSUME ~Overlap, IInv, [Next]_vars PROVE IInv'
  OBVIOUS
<1>1. CASE Next
  BY <1>1, StartKeeps, MkdirKeeps, InspectKeeps, RmPidKeeps, RmDirKeeps, MkdirAgainKeeps,
     WritePidKeeps, StopKeeps, KillKeeps DEF Next, Script
<1>2. CASE UNCHANGED vars
  BY <1>2 DEF vars, IInv, TypeOK, OneInside, ClearsAlone, RunnerHolds, SingleInstance, Me
<1>. QED  BY <1>1, <1>2

\* At most one supervisor runs the attempt loop, wherever hard kills struck, as long as
\* no start or stop overlaps another one's.
THEOREM OneRuns == ASSUME ~Overlap PROVE Spec => []SingleInstance
<1>1. Init => IInv
  BY Initially
<1>2. IInv /\ [Next]_vars => IInv'
  BY StepKeeps
<1>3. IInv => SingleInstance
  BY DEF IInv
<1>. QED  BY <1>1, <1>2, <1>3, PTL DEF Spec
=============================================================================
