-------------------------- MODULE ThreadPoolProofs --------------------------
(***************************************************************************)
(* Proofs about ThreadPool, for any number of callers, workers, sizes,     *)
(* grains, calls and throws. First: a worker inside work() works for the   *)
(* call that is open, and what it reads without a lock does not change.    *)
(* IInv is inductive: workers_done_ counts the workers that are through    *)
(* with the posted job, so a call that returns leaves none behind. Then:   *)
(* the pool implements ParallelLoop, every index runs once, none after the *)
(* return, and the call throws exactly when a body threw. LoopInv, on top  *)
(* of IInv, follows the claimed chunks. One lemma per action shows that it *)
(* is kept, and one per kind of step that the loop's next-state relation   *)
(* or a stutter covers it.                                                 *)
(***************************************************************************)
EXTENDS ThreadPool, FiniteSetTheorems, TLAPS

\* Some caller's job is posted and not finished.
Posted == \E c \in Callers : pc[c] \in Active

\* CountInv survives a step that leaves the count and the workers' part alone.
LEMMA CountStays ==
  ASSUME CountInv, Through' = Through, workersDone' = workersDone, Posted' <=> Posted
  PROVE  CountInv'
BY DEF CountInv, Posted

\* parallel_for takes job_mutex_ only when it is free, and posts nothing yet.
LEMMA CallKeeps ==
  ASSUME IInv, NEW c \in Callers, NEW n \in Sizes, NEW g \in Grains, Call(c, n, g)
  PROVE  IInv'
<1>. USE PoolAssumption
       DEF IInv, TypeOK, Threads, Held, Active, Working, Go, job, shared, call, counts
<1>1. TypeOK'
  BY DEF Call
<1>2. MutexInv'
  BY DEF MutexInv, Call
<1>3. Through' = Through
  BY DEF Through, Call
<1>4. workersDone' = workersDone /\ (Posted' <=> Posted)
  BY DEF MutexInv, Posted, Call
<1>. QED  BY <1>1, <1>2, <1>3, <1>4, CountStays

\* The inline path leaves the pool alone.
LEMMA InlineKeeps ==
  ASSUME IInv, NEW c \in Callers, NEW ok \in BOOLEAN, Inline(c, ok)
  PROVE  IInv'
<1>. USE PoolAssumption
       DEF IInv, TypeOK, Threads, Held, Active, Working, Go, job, shared, call, counts
<1>1. TypeOK'
  BY DEF Inline
<1>2. MutexInv'
  BY DEF MutexInv, Inline
<1>3. Through' = Through
  BY DEF Through, Inline
<1>4. workersDone' = workersDone /\ (Posted' <=> Posted)
  BY DEF MutexInv, Posted, Inline
<1>. QED  BY <1>1, <1>2, <1>3, <1>4, CountStays

\* The inline path returns without having held job_mutex_.
LEMMA InlineReturnKeeps == ASSUME IInv, NEW c \in Callers, InlineReturn(c) PROVE IInv'
<1>. USE PoolAssumption
       DEF IInv, TypeOK, Threads, Held, Active, Working, Go, job, shared, call, counts
<1>1. TypeOK'
  BY DEF InlineReturn
<1>2. MutexInv'
  BY DEF MutexInv, InlineReturn
<1>3. Through' = Through
  BY DEF Through, InlineReturn
<1>4. workersDone' = workersDone /\ (Posted' <=> Posted)
  BY DEF MutexInv, Posted, InlineReturn
<1>. QED  BY <1>1, <1>2, <1>3, <1>4, CountStays

\* The job is written by the holder of job_mutex_.
LEMMA SetupKeeps == ASSUME IInv, NEW c \in Callers, Setup(c) PROVE IInv'
<1>. USE PoolAssumption
       DEF IInv, TypeOK, Threads, Held, Active, Working, Go, job, shared, call, counts
<1>1. TypeOK'
  BY DEF Setup
<1>2. MutexInv'
  BY DEF MutexInv, Setup
<1>3. Through' = Through
  BY DEF Through, Setup
<1>4. workersDone' = workersDone /\ (Posted' <=> Posted)
  BY DEF MutexInv, Posted, Setup
<1>. QED  BY <1>1, <1>2, <1>3, <1>4, CountStays

\* wake_cv_.notify_all() sends sleepers to look again.
LEMMA NotifyWorkersKeeps == ASSUME IInv, NEW c \in Callers, NotifyWorkers(c) PROVE IInv'
<1>. USE PoolAssumption
       DEF IInv, TypeOK, Threads, Held, Active, Working, Go, job, shared, call, counts
<1>1. TypeOK'
  BY DEF NotifyWorkers, WakeWorkers
<1>2. MutexInv'
  BY DEF MutexInv, NotifyWorkers, WakeWorkers
<1>3. Through' = Through
  BY DEF Through, NotifyWorkers, WakeWorkers
<1>4. workersDone' = workersDone /\ (Posted' <=> Posted)
  BY DEF MutexInv, Posted, NotifyWorkers, WakeWorkers
<1>. QED  BY <1>1, <1>2, <1>3, <1>4, CountStays

\* The call gives job_mutex_ back.
LEMMA UnlockKeeps == ASSUME IInv, NEW c \in Callers, Unlock(c) PROVE IInv'
<1>. USE PoolAssumption
       DEF IInv, TypeOK, Threads, Held, Active, Working, Go, job, shared, call, counts
<1>1. TypeOK'
  BY DEF Unlock
<1>2. MutexInv'
  BY DEF MutexInv, Unlock
<1>3. Through' = Through
  BY DEF Through, Unlock
<1>4. workersDone' = workersDone /\ (Posted' <=> Posted)
  BY DEF MutexInv, Posted, Unlock
<1>. QED  BY <1>1, <1>2, <1>3, <1>4, CountStays

\* A claim keeps a thread inside work().
LEMMA ClaimKeeps == ASSUME IInv, NEW t \in Threads, Claim(t) PROVE IInv'
<1>. USE PoolAssumption
       DEF IInv, TypeOK, Threads, Held, Active, Working, Go, job, shared, call, counts
<1>1. TypeOK'
  BY DEF Claim
<1>2. MutexInv'
  BY DEF MutexInv, Claim
<1>3. Through' = Through
  BY DEF Through, Claim
<1>4. workersDone' = workersDone /\ (Posted' <=> Posted)
  BY DEF MutexInv, Posted, Claim
<1>. QED  BY <1>1, <1>2, <1>3, <1>4, CountStays

\* A worker that leaves work() is not counted yet; the caller goes on to wait.
LEMMA ExecuteKeeps ==
  ASSUME IInv, NEW t \in Threads, NEW ok \in BOOLEAN, Execute(t, ok)
  PROVE  IInv'
<1>. USE PoolAssumption
       DEF IInv, TypeOK, Threads, Held, Active, Working, Go, job, shared, call, counts
<1>1. TypeOK'
  BY DEF Execute
<1>2. MutexInv'
  BY DEF MutexInv, Execute
<1>3. Through' = Through
  BY DEF Through, Execute
<1>4. workersDone' = workersDone /\ (Posted' <=> Posted)
  BY DEF MutexInv, Posted, Execute
<1>. QED  BY <1>1, <1>2, <1>3, <1>4, CountStays

\* A throw drains the counter; the thread stays inside work().
LEMMA CatchKeeps == ASSUME IInv, NEW t \in Threads, Catch(t) PROVE IInv'
<1>. USE PoolAssumption
       DEF IInv, TypeOK, Threads, Held, Active, Working, Go, job, shared, call, counts
<1>1. TypeOK'
  BY DEF Catch
<1>2. MutexInv'
  BY DEF MutexInv, Catch
<1>3. Through' = Through
  BY DEF Through, Catch
<1>4. workersDone' = workersDone /\ (Posted' <=> Posted)
  BY DEF MutexInv, Posted, Catch
<1>. QED  BY <1>1, <1>2, <1>3, <1>4, CountStays

\* done_cv_.notify_one() sends the caller to count again.
LEMMA NotifyCallerKeeps == ASSUME IInv, NEW w \in Workers, NotifyCaller(w) PROVE IInv'
<1>. USE PoolAssumption
       DEF IInv, TypeOK, Threads, Held, Active, Working, Go, job, shared, call, counts
<1>1. TypeOK'
  BY DEF NotifyCaller, WakeCaller
<1>2. MutexInv'
  BY DEF MutexInv, NotifyCaller, WakeCaller
<1>3. Through' = Through
  BY DEF Through, NotifyCaller, WakeCaller
<1>4. workersDone' = workersDone /\ (Posted' <=> Posted)
  BY DEF MutexInv, Posted, NotifyCaller, WakeCaller
<1>. QED  BY <1>1, <1>2, <1>3, <1>4, CountStays

\* A spurious wake-up only sends its sleeper to look again.
LEMMA SpuriousWakeKeeps == ASSUME IInv, NEW t \in Threads, SpuriousWake(t) PROVE IInv'
<1>. USE PoolAssumption
       DEF IInv, TypeOK, Threads, Held, Active, Working, Go, job, shared, call, counts
<1>1. TypeOK'
  BY DEF SpuriousWake
<1>2. MutexInv'
  BY DEF MutexInv, SpuriousWake
<1>3. Through' = Through
  BY DEF Through, SpuriousWake
<1>4. workersDone' = workersDone /\ (Posted' <=> Posted)
  BY DEF MutexInv, Posted, SpuriousWake
<1>. QED  BY <1>1, <1>2, <1>3, <1>4, CountStays

\* The destructor runs when no call is open.
LEMMA ShutdownKeeps == ASSUME IInv, Shutdown PROVE IInv'
<1>. USE PoolAssumption
       DEF IInv, TypeOK, Threads, Held, Active, Working, Go, job, shared, call, counts
<1>1. TypeOK'
  BY DEF Shutdown
<1>2. MutexInv'
  BY DEF MutexInv, Shutdown
<1>3. Through' = Through
  BY DEF Through, Shutdown
<1>4. workersDone' = workersDone /\ (Posted' <=> Posted)
  BY DEF MutexInv, Posted, Shutdown
<1>. QED  BY <1>1, <1>2, <1>3, <1>4, CountStays

\* The destructor wakes the sleeping workers.
LEMMA NotifyShutdownKeeps == ASSUME IInv, NotifyShutdown PROVE IInv'
<1>. USE PoolAssumption
       DEF IInv, TypeOK, Threads, Held, Active, Working, Go, job, shared, call, counts
<1>1. TypeOK'
  BY DEF NotifyShutdown, WakeWorkers
<1>2. MutexInv'
  BY DEF MutexInv, NotifyShutdown, WakeWorkers
<1>3. Through' = Through
  BY DEF Through, NotifyShutdown, WakeWorkers
<1>4. workersDone' = workersDone /\ (Posted' <=> Posted)
  BY DEF MutexInv, Posted, NotifyShutdown, WakeWorkers
<1>. QED  BY <1>1, <1>2, <1>3, <1>4, CountStays

\* Joining changes nothing the pool works with.
LEMMA JoinKeeps == ASSUME IInv, Join PROVE IInv'
<1>. USE PoolAssumption
       DEF IInv, TypeOK, Threads, Held, Active, Working, Go, job, shared, call, counts
<1>1. TypeOK'
  BY DEF Join
<1>2. MutexInv'
  BY DEF MutexInv, Join
<1>3. Through' = Through
  BY DEF Through, Join
<1>4. workersDone' = workersDone /\ (Posted' <=> Posted)
  BY DEF MutexInv, Posted, Join
<1>. QED  BY <1>1, <1>2, <1>3, <1>4, CountStays

\* A new job: none of the workers, which were all through with the last, has taken it.
LEMMA PostKeeps == ASSUME IInv, NEW c \in Callers, Post(c) PROVE IInv'
<1>. USE PoolAssumption
       DEF IInv, TypeOK, Threads, Held, Active, Working, Go, job, shared, call, counts
<1>1. TypeOK'
  BY DEF Post
<1>2. Through = Workers
  BY DEF CountInv, MutexInv, Post
<1>3. MutexInv'
  BY <1>2 DEF MutexInv, Through, Post
<1>4. Through' = {}
  BY <1>2 DEF Through, Post
<1>5. CountInv'
  BY <1>4, FS_EmptySet DEF CountInv, Post
<1>. QED  BY <1>1, <1>3, <1>5

\* Everybody is counted: all workers are through with the job, which ends.
LEMMA AwaitEnds == ASSUME IInv, NEW c \in Callers, Await(c), AllDone PROVE Through = Workers
<1>. USE PoolAssumption
       DEF IInv, TypeOK, Threads, Held, Active, Working, Go, job, shared, call, counts
<1>1. workersDone = Cardinality(Through)
  BY DEF CountInv, Await
<1>2. Through \subseteq Workers
  BY DEF Through
<1>. QED  BY <1>1, <1>2, FS_Subset DEF AllDone

\* The caller looks at workers_done_, and returns or sleeps.
LEMMA AwaitKeeps == ASSUME IInv, NEW c \in Callers, Await(c) PROVE IInv'
<1>. USE PoolAssumption
       DEF IInv, TypeOK, Threads, Held, Active, Working, Go, job, shared, call, counts
<1>1. TypeOK'
  BY DEF Await
<1>2. MutexInv'
  BY DEF MutexInv, Await
<1>3. Through' = Through
  BY DEF Through, Await
<1>4. CASE AllDone
  <2>1. Through = Workers
    BY <1>4, AwaitEnds
  <2>2. ~Posted'
    BY <1>4 DEF MutexInv, Posted, Await
  <2>. QED  BY <1>1, <1>2, <1>3, <2>1, <2>2 DEF CountInv, Posted
<1>5. CASE ~AllDone
  <2>1. workersDone' = workersDone /\ (Posted' <=> Posted)
    BY <1>5 DEF Posted, Await
  <2>. QED  BY <1>1, <1>2, <1>3, <2>1, CountStays
<1>. QED  BY <1>4, <1>5

\* A worker takes the posted job, which it is not through with, or sleeps, or exits.
LEMMA CheckKeeps == ASSUME IInv, NEW w \in Workers, Check(w) PROVE IInv'
<1>. USE PoolAssumption
       DEF IInv, TypeOK, Threads, Held, Active, Working, Go, job, shared, call, counts
<1>1. TypeOK'
  BY DEF Check
<1>2. MutexInv'
  BY DEF MutexInv, Check
<1>3. Through' = Through
  BY DEF Through, Check
<1>4. workersDone' = workersDone /\ (Posted' <=> Posted)
  BY DEF Posted, Check
<1>. QED  BY <1>1, <1>2, <1>3, <1>4, CountStays

\* A worker counts itself: it was not through, and is now.
LEMMA DoneKeeps == ASSUME IInv, NEW w \in Workers, Done(w) PROVE IInv'
<1>. USE PoolAssumption
       DEF IInv, TypeOK, Threads, Held, Active, Working, Go, job, shared, call, counts
<1>1. TypeOK'
  BY DEF Done
<1>2. MutexInv'
  BY DEF MutexInv, Done
<1>3. w \notin Through
  BY DEF Through, Done
<1>4. Posted /\ Posted' /\ workersDone = Cardinality(Through)
  BY <1>3 DEF CountInv, Posted, Done
<1>5. Through' = Through \union {w}
  BY DEF MutexInv, Through, Done
<1>6. IsFiniteSet(Through)
  BY FS_Subset DEF Through
<1>7. workersDone' = Cardinality(Through')
  BY <1>3, <1>4, <1>5, <1>6, FS_AddElement DEF Done
<1>. QED  BY <1>1, <1>2, <1>4, <1>7 DEF CountInv, Posted

\* No call, no job; all workers through.
LEMMA Initially == Init => IInv
<1> SUFFICES ASSUME Init PROVE IInv
  OBVIOUS
<1>. USE PoolAssumption
       DEF IInv, TypeOK, Threads, Held, Active, Working, Go, job, shared, call, counts
<1>1. TypeOK
  BY DEF Init
<1>2. MutexInv
  BY DEF Init, MutexInv
<1>3. Through = Workers
  BY DEF Init, Through
<1>4. CountInv
  BY <1>3 DEF Init, CountInv
<1>. QED  BY <1>1, <1>2, <1>4

\* Every step of a caller, a worker or the destructor keeps IInv.
LEMMA StepKeeps == IInv /\ [Next]_vars => IInv'
<1> SUFFICES ASSUME IInv, [Next]_vars PROVE IInv'
  OBVIOUS
<1>1. ASSUME NEW c \in Callers, CallerStep(c) PROVE IInv'
  BY <1>1, InlineKeeps, ExecuteKeeps, InlineReturnKeeps, SetupKeeps, PostKeeps,
     NotifyWorkersKeeps, ClaimKeeps, CatchKeeps, AwaitKeeps, UnlockKeeps
     DEF CallerStep, Threads
<1>2. ASSUME NEW w \in Workers, WorkerStep(w) PROVE IInv'
  BY <1>2, ExecuteKeeps, CheckKeeps, ClaimKeeps, CatchKeeps, DoneKeeps, NotifyCallerKeeps
     DEF WorkerStep, Threads
<1>3. CASE UNCHANGED vars
  BY <1>3 DEF vars, job, shared, call, counts, IInv, TypeOK, MutexInv, CountInv, Through
<1>. QED  BY <1>1, <1>2, <1>3, CallKeeps, SpuriousWakeKeeps, ShutdownKeeps, NotifyShutdownKeeps,
             JoinKeeps DEF Next

\* While a worker is inside work(), it works on the posted job of the call that is open.
LEMMA WorkingIsPosted ==
  ASSUME IInv, NEW w \in Workers, pc[w] \in Working
  PROVE  \E c \in Callers : jobMutex = c /\ body = c /\ pc[c] \in Active /\ seen[w] = jobId
<1>1. w \notin Through
  BY DEF Through
<1>2. PICK c \in Callers : pc[c] \in Active
  BY <1>1 DEF IInv, CountInv
<1>. QED  BY <1>2 DEF IInv, MutexInv, Held

\* IInv holds in every state of every behaviour, whatever the constants.
THEOREM Invariance == Spec => []IInv
BY Initially, StepKeeps, PTL DEF Spec

\* A worker inside work() works for the call that is open, on the job it waits for.
THEOREM BodyIsLive == Spec => []NoStaleBody
<1>1. IInv => NoStaleBody
  <2> SUFFICES ASSUME IInv, NEW w \in Workers, pc[w] \in Working
               PROVE  /\ body # None /\ body = jobMutex /\ seen[w] = jobId
                      /\ pc[body] \in Active
    BY DEF NoStaleBody, Active
  <2>. QED  BY WorkingIsPosted, PoolAssumption
<1>. QED  BY <1>1, Invariance, PTL

\* The job is only written while no other thread is inside work().
LEMMA JobStep ==
  ASSUME IInv, [Next]_vars, job' # job
  PROVE  \A t \in Threads \ {jobMutex} : pc[t] \notin Working
<1>. USE DEF IInv, TypeOK, Held, Active, Working
<1>1. PICK c \in Callers : Setup(c) \/ (Await(c) /\ AllDone)
  BY
     DEF Next, CallerStep, WorkerStep, vars, job, shared, call, counts, Call, Inline,
         InlineReturn,
         Post, NotifyWorkers, Await, Unlock, Claim, Execute, Catch, Check, Done, NotifyCaller,
         SpuriousWake, Shutdown, NotifyShutdown, Join
<1>2. Through = Workers
  <2>1. CASE Setup(c)
    BY <2>1 DEF CountInv, MutexInv, Setup
  <2>2. CASE Await(c) /\ AllDone
    BY <2>2, AwaitEnds
  <2>. QED  BY <1>1, <2>1, <2>2
<1>3. \A d \in Callers \ {jobMutex} : pc[d] \notin Working
  BY DEF MutexInv
<1>. QED  BY <1>2, <1>3 DEF Through, Threads

\* What work() reads without a lock does not change while another thread is in there.
THEOREM JobHolds == Spec => JobIsStable
<1>1. IInv /\ [Next]_vars =>
        [job' # job => \A t \in Threads \ {jobMutex} : pc[t] \notin Working]_vars
  BY JobStep
<1>. QED  BY <1>1, Invariance, PTL DEF Spec, JobIsStable

-----------------------------------------------------------------------------
(* The pool is a plain loop.                                               *)

\* No call is empty.
LEMMA SizesPositive == \A n \in Sizes : n \in Nat /\ n > 0
BY PoolAssumption

\* Indices reach past every call.
LEMMA SizesFit == \A n \in Sizes : 0..(n - 1) \subseteq Indices
<1> DEFINE M == CHOOSE m \in Sizes : \A n \in Sizes : n <= m
<1>1. M \in Sizes /\ \A n \in Sizes : n <= M
  BY PoolAssumption
<1>2. Indices = 0..M
  BY DEF Indices, Loops!Indices
<1>. HIDE DEF M
<1>. QED  BY <1>1, <1>2, PoolAssumption

\* With no worker behind, no thread is inside work() but the caller.
LEMMA NoneInside ==
  ASSUME IInv, Through = Workers
  PROVE  \A t \in Threads : pc[t] \in Working => t = jobMutex
BY DEF IInv, TypeOK, MutexInv, Through, Threads, Held, Active, Working

\* No caller joins the posted job, posts or waits, and its call stays as it is.
CallersStay ==
  \A c \in Callers :
    /\ pc'[c] \in Active =>
         pc[c] \in Active /\ ran'[c] = ran[c] /\ (failed'[c] <=> failed[c])
    /\ pc'[c] = "post" => pc[c] = "post"
    /\ pc'[c] \in {"await", "sleepDone"} => pc[c] \in {"await", "sleepDone"}

\* RanInv survives a step that leaves posted jobs, claims and records alone.
LEMMA RanStays ==
  ASSUME RanInv, Flying' = Flying, UNCHANGED <<chunkSize, total, next, firstError>>,
         \A t \in Flying : begin'[t] = begin[t],
         (\E t \in Threads : pc'[t] = "catch") <=> (\E t \in Threads : pc[t] = "catch"),
         CallersStay
  PROVE  RanInv'
<1> SUFFICES ASSUME NEW c \in Callers, pc'[c] \in Active
    PROVE OnlyClaimed(c)' /\ NotYetRun(c)' /\ NoneMissed(c)' /\ ErrorKept(c)'
  BY DEF RanInv, CallersStay
<1>1. OnlyClaimed(c) /\ NotYetRun(c) /\ NoneMissed(c) /\ ErrorKept(c)
  BY DEF RanInv, CallersStay
<1>. QED  BY <1>1 DEF CallersStay, OnlyClaimed, NotYetRun, NoneMissed, ErrorKept, Chunk

\* A thread inside work() works on the job of the only caller that holds job_mutex_.
LEMMA InsideIsPosted ==
  ASSUME IInv, NEW t \in Threads, pc[t] \in Working
  PROVE  \E c \in Callers : /\ jobMutex = c /\ body = c /\ pc[c] \in Active
                           /\ \A d \in Callers \ {c} : pc[d] \notin Held
<1>1. CASE t \in Workers
  BY <1>1, WorkingIsPosted DEF IInv, MutexInv
<1>2. CASE t \in Callers
  BY <1>2 DEF IInv, TypeOK, MutexInv, Working, Active, Held
<1>. QED  BY <1>1, <1>2 DEF Threads

\* The posted job is the call that is open, and its indices are indices.
LEMMA PostedFits ==
  ASSUME LoopInv, NEW c \in Callers, pc[c] \in Active
  PROVE  total = size[c] /\ size[c] \in Sizes /\ 0..(total - 1) \subseteq Indices
BY SizesFit DEF LoopInv, LoopTypeOK, CallInv, ChunkInv, Active

\* The body of c has run on S, whose indices had not run, as in the loop's Run.
RanOn(c, S, ok) ==
  /\ ran' = [ran EXCEPT ![c] = [i \in Indices |-> IF i \in S THEN 1 ELSE ran[c][i]]]
  /\ ran' \in [Callers -> [Indices -> {0, 1}]] /\ failed' \in [Callers -> BOOLEAN]
  /\ failed'[c] <=> failed[c] \/ ~ok
  /\ \A d \in Callers \ {c} : ran'[d] = ran[d] /\ (failed'[d] <=> failed[d])
  /\ size' = size

\* RunBody on indices that have not run.
LEMMA RunBodyFacts ==
  ASSUME LoopTypeOK, NEW c \in Callers, NEW S \in SUBSET Indices, NEW ok \in BOOLEAN,
         \A i \in S : ran[c][i] = 0, RunBody(c, S, ok)
  PROVE  RanOn(c, S, ok)
<1> DEFINE R == [i \in Indices |-> IF i \in S THEN 1 ELSE ran[c][i]]
<1>1. [i \in Indices |-> IF i \in S THEN ran[c][i] + 1 ELSE ran[c][i]] = R
  BY DEF LoopTypeOK
<1>2. ran' = [ran EXCEPT ![c] = R]
  BY <1>1 DEF RunBody
<1>3. R \in [Indices -> {0, 1}]
  BY DEF LoopTypeOK
<1>4. failed' = [failed EXCEPT ![c] = failed[c] \/ ~ok] /\ size' = size
  BY DEF RunBody
<1>5. failed' \in [Callers -> BOOLEAN] /\ (failed'[c] <=> failed[c] \/ ~ok)
      /\ \A d \in Callers \ {c} : failed'[d] <=> failed[d]
  BY Zenon, <1>4 DEF LoopTypeOK
<1>. QED  BY <1>2, <1>3, <1>4, <1>5 DEF LoopTypeOK, RanOn

\* A new call has a size, and nothing of it has run.
LEMMA CallKeepsLoop ==
  ASSUME IInv, LoopInv, NEW c \in Callers, NEW n \in Sizes, NEW g \in Grains, Call(c, n, g)
  PROVE  LoopInv'
<1>. USE PoolAssumption
       DEF IInv, TypeOK, MutexInv, LoopInv, Threads, Held, Active, Working, Go,
           job, shared, call, counts
<1>1. LoopTypeOK'
  BY DEF LoopTypeOK, Call
<1>2. CallInv'
  BY DEF LoopTypeOK, CallInv, Call
<1>3. ChunkInv'
  BY DEF LoopTypeOK, CallInv, ChunkInv, Flying, Chunk, Call
<1>4. RanInv'
  BY
     DEF LoopTypeOK, CallInv, ChunkInv, RanInv, OnlyClaimed, NotYetRun, NoneMissed, ErrorKept,
         Flying, Chunk, Call
<1>. QED  BY <1>1, <1>2, <1>3, <1>4

\* The inline body runs every index, or throws.
LEMMA InlineKeepsLoop ==
  ASSUME IInv, LoopInv, NEW c \in Callers, NEW ok \in BOOLEAN, Inline(c, ok)
  PROVE  LoopInv'
<1>. USE PoolAssumption
       DEF IInv, TypeOK, MutexInv, LoopInv, Threads, Held, Active, Working, Go,
           job, shared, call, counts
<1>0. /\ ran' \in [Callers -> [Indices -> {0, 1}]] /\ failed' \in [Callers -> BOOLEAN]
      /\ failed'[c] <=> failed[c] \/ ~ok
      /\ ok => \A i \in 0..(size[c] - 1) : ran'[c][i] = 1
      /\ \A d \in Callers \ {c} : ran'[d] = ran[d] /\ (failed'[d] <=> failed[d])
      /\ size' = size
  <2> DEFINE S == IF ok THEN 0..(size[c] - 1) ELSE {}
  <2>0. size[c] \in Sizes
    BY DEF LoopTypeOK, CallInv, Inline
  <2>1. 0..(size[c] - 1) \subseteq Indices /\ \A i \in Indices : ran[c][i] = 0
    BY <2>0, SizesFit DEF CallInv, Inline
  <2>2. S \in SUBSET Indices /\ (\A i \in S : ran[c][i] = 0) /\ RunBody(c, S, ok) /\ LoopTypeOK
        /\ (ok => S = 0..(size[c] - 1))
    BY <2>1 DEF Inline
  <2>. HIDE DEF S
  <2>3. RanOn(c, S, ok)
    BY <2>2, RunBodyFacts
  <2>. QED  BY <2>1, <2>2, <2>3 DEF LoopTypeOK, RanOn
<1>1. LoopTypeOK'
  BY <1>0 DEF LoopTypeOK, Inline
<1>2. CallInv'
  BY <1>0 DEF LoopTypeOK, CallInv, Inline
<1>3. ChunkInv'
  BY DEF LoopTypeOK, CallInv, ChunkInv, Flying, Chunk, Inline, RunBody
<1>4. RanInv'
  <2>1. Flying' = Flying /\ \A s \in Flying : begin'[s] = begin[s]
    BY DEF Flying, Inline, RunBody
  <2>2. (\E s \in Threads : pc'[s] = "catch") <=> (\E s \in Threads : pc[s] = "catch")
    BY DEF Inline, RunBody
  <2>3. CallersStay
    BY <1>0 DEF CallersStay, LoopTypeOK, Inline
  <2>4. UNCHANGED <<chunkSize, total, next, firstError>>
    BY DEF Inline, RunBody
  <2>. QED  BY <2>1, <2>2, <2>3, <2>4, RanStays
<1>. QED  BY <1>1, <1>2, <1>3, <1>4

\* The inline call is forgotten.
LEMMA InlineReturnKeepsLoop ==
  ASSUME IInv, LoopInv, NEW c \in Callers, InlineReturn(c)
  PROVE  LoopInv'
<1>. USE PoolAssumption
       DEF IInv, TypeOK, MutexInv, LoopInv, Threads, Held, Active, Working, Go,
           job, shared, call, counts
<1>1. LoopTypeOK'
  BY DEF LoopTypeOK, InlineReturn, Close
<1>2. CallInv'
  BY DEF LoopTypeOK, CallInv, InlineReturn, Close
<1>3. ChunkInv'
  BY DEF LoopTypeOK, CallInv, ChunkInv, Flying, Chunk, InlineReturn, Close
<1>4. RanInv'
  <2>1. Flying' = Flying /\ \A s \in Flying : begin'[s] = begin[s]
    BY DEF Flying, InlineReturn, Close
  <2>2. (\E s \in Threads : pc'[s] = "catch") <=> (\E s \in Threads : pc[s] = "catch")
    BY DEF InlineReturn, Close
  <2>3. CallersStay
    BY DEF CallersStay, LoopTypeOK, InlineReturn, Close
  <2>4. UNCHANGED <<chunkSize, total, next, firstError>>
    BY DEF InlineReturn, Close
  <2>. QED  BY <2>1, <2>2, <2>3, <2>4, RanStays
<1>. QED  BY <1>1, <1>2, <1>3, <1>4

\* The job written is the call's, and nobody is inside work() to see it change.
LEMMA SetupKeepsLoop == ASSUME IInv, LoopInv, NEW c \in Callers, Setup(c) PROVE LoopInv'
<1>. USE PoolAssumption
       DEF IInv, TypeOK, MutexInv, LoopInv, Threads, Held, Active, Working, Go,
           job, shared, call, counts
<1>0. \A t \in Threads : pc[t] \notin Working
  <2>1. Through = Workers
    BY DEF CountInv, Setup
  <2>. QED  BY <2>1, NoneInside DEF Setup
<1>1. LoopTypeOK'
  BY <1>0 DEF LoopTypeOK, CallInv, Setup
<1>2. CallInv'
  BY DEF LoopTypeOK, CallInv, Setup
<1>3. ChunkInv'
  <2>1. Flying' = {}
    BY <1>0 DEF Flying, Setup
  <2>. QED  BY <2>1 DEF LoopTypeOK, ChunkInv, Setup
<1>4. RanInv'
  BY
     DEF LoopTypeOK, CallInv, ChunkInv, RanInv, OnlyClaimed, NotYetRun, NoneMissed, ErrorKept,
         Flying, Chunk, Setup
<1>. QED  BY <1>1, <1>2, <1>3, <1>4

\* The job posted has run nothing and claimed nothing.
LEMMA PostKeepsLoop == ASSUME IInv, LoopInv, NEW c \in Callers, Post(c) PROVE LoopInv'
<1>. USE PoolAssumption
       DEF IInv, TypeOK, MutexInv, LoopInv, Threads, Held, Active, Working, Go,
           job, shared, call, counts
<1>0. \A t \in Threads : pc[t] \notin Working
  <2>1. Through = Workers
    BY DEF CountInv, Post
  <2>. QED  BY <2>1, NoneInside DEF Post
<1>1. LoopTypeOK'
  BY DEF LoopTypeOK, Post
<1>2. CallInv'
  BY DEF LoopTypeOK, CallInv, Post
<1>3. ChunkInv'
  BY DEF LoopTypeOK, CallInv, ChunkInv, Flying, Chunk, Post
<1>4. RanInv'
  <2>1. Flying' = {} /\ ~(\E t \in Threads : pc'[t] = "catch") /\ firstError' = FALSE
    BY <1>0 DEF Flying, Post
  <2>2. ~failed'[c] /\ \A i \in Indices : ran'[c][i] = 0
    BY DEF CallInv, Post
  <2>3. next' = 0
    BY DEF RanInv, Post
  <2>4. \A d \in Callers \ {c} : pc'[d] \notin Active \union {"post"}
    BY DEF Post
  <2>5. pc'[c] = "notify"
    BY DEF Post
  <2>. QED  BY <2>1, <2>2, <2>3, <2>4, <2>5
          DEF RanInv, OnlyClaimed, NotYetRun, NoneMissed, ErrorKept
<1>. QED  BY <1>1, <1>2, <1>3, <1>4

\* Waking workers claims and runs nothing.
LEMMA NotifyWorkersKeepsLoop ==
  ASSUME IInv, LoopInv, NEW c \in Callers, NotifyWorkers(c)
  PROVE  LoopInv'
<1>. USE PoolAssumption
       DEF IInv, TypeOK, MutexInv, LoopInv, Threads, Held, Active, Working, Go,
           job, shared, call, counts
<1>1. LoopTypeOK'
  BY DEF LoopTypeOK, NotifyWorkers, WakeWorkers
<1>2. CallInv'
  BY DEF LoopTypeOK, CallInv, NotifyWorkers, WakeWorkers
<1>3. ChunkInv'
  BY DEF LoopTypeOK, CallInv, ChunkInv, Flying, Chunk, NotifyWorkers, WakeWorkers
<1>4. RanInv'
  <2>1. Flying' = Flying /\ \A s \in Flying : begin'[s] = begin[s]
    BY DEF Flying, NotifyWorkers, WakeWorkers
  <2>2. (\E s \in Threads : pc'[s] = "catch") <=> (\E s \in Threads : pc[s] = "catch")
    BY DEF NotifyWorkers, WakeWorkers
  <2>3. CallersStay
    BY DEF CallersStay, LoopTypeOK, NotifyWorkers, WakeWorkers
  <2>4. UNCHANGED <<chunkSize, total, next, firstError>>
    BY DEF NotifyWorkers, WakeWorkers
  <2>. QED  BY <2>1, <2>2, <2>3, <2>4, RanStays
<1>. QED  BY <1>1, <1>2, <1>3, <1>4

\* The call had ended before its caller gave job_mutex_ back.
LEMMA UnlockKeepsLoop == ASSUME IInv, LoopInv, NEW c \in Callers, Unlock(c) PROVE LoopInv'
<1>. USE PoolAssumption
       DEF IInv, TypeOK, MutexInv, LoopInv, Threads, Held, Active, Working, Go,
           job, shared, call, counts
<1>1. LoopTypeOK'
  BY DEF LoopTypeOK, Unlock
<1>2. CallInv'
  BY DEF LoopTypeOK, CallInv, Unlock
<1>3. ChunkInv'
  BY DEF LoopTypeOK, CallInv, ChunkInv, Flying, Chunk, Unlock
<1>4. RanInv'
  BY
     DEF LoopTypeOK, CallInv, ChunkInv, RanInv, OnlyClaimed, NotYetRun, NoneMissed, ErrorKept,
         Flying, Chunk, Unlock
<1>. QED  BY <1>1, <1>2, <1>3, <1>4

\* The call ends, or goes to sleep.
LEMMA AwaitKeepsLoop == ASSUME IInv, LoopInv, NEW c \in Callers, Await(c) PROVE LoopInv'
<1>. USE PoolAssumption
       DEF IInv, TypeOK, MutexInv, LoopInv, Threads, Held, Active, Working, Go,
           job, shared, call, counts
<1>0. /\ ran' \in [Callers -> [Indices -> {0, 1}]] /\ failed' \in [Callers -> BOOLEAN]
      /\ size' \in [Callers -> Sizes \union {0}] /\ firstError' \in BOOLEAN
  <2>1. CASE AllDone
    <3>1. failed' = [failed EXCEPT ![c] = FALSE] /\ firstError' = FALSE
      BY <2>1 DEF Await, Close
    <3>2. failed' \in [Callers -> BOOLEAN] /\ firstError' \in BOOLEAN
      BY Zenon, <3>1 DEF LoopTypeOK
    <3>3. ran' = [ran EXCEPT ![c] = [i \in Indices |-> 0]] /\ size' = [size EXCEPT ![c] = 0]
      BY <2>1 DEF Await, Close
    <3>4. [i \in Indices |-> 0] \in [Indices -> {0, 1}]
      OBVIOUS
    <3>5. ran' \in [Callers -> [Indices -> {0, 1}]] /\ size' \in [Callers -> Sizes \union {0}]
      BY <3>3, <3>4 DEF LoopTypeOK
    <3>. QED  BY <3>2, <3>5
  <2>2. CASE ~AllDone
    BY <2>2 DEF LoopTypeOK, Await
  <2>. QED  BY <2>1, <2>2
<1>1. LoopTypeOK'
  BY <1>0 DEF LoopTypeOK, Await
<1>2. CallInv'
  BY DEF LoopTypeOK, CallInv, Await, Close
<1>3. ChunkInv'
  BY DEF LoopTypeOK, CallInv, ChunkInv, Flying, Chunk, Await, Close
<1>4. RanInv'
  BY
     DEF LoopTypeOK, CallInv, ChunkInv, RanInv, OnlyClaimed, NotYetRun, NoneMissed, ErrorKept,
         Flying, Chunk, Await, Close
<1>. QED  BY <1>1, <1>2, <1>3, <1>4

\* The chunk claimed starts at the counter, so it has not run and meets no other.
LEMMA ClaimKeepsLoop == ASSUME IInv, LoopInv, NEW t \in Threads, Claim(t) PROVE LoopInv'
<1>. USE PoolAssumption
       DEF IInv, TypeOK, MutexInv, LoopInv, Threads, Held, Active, Working, Go,
           job, shared, call, counts
<1>1. LoopTypeOK'
  BY DEF LoopTypeOK, Claim
<1>2. CallInv'
  BY DEF LoopTypeOK, CallInv, Claim
<1>3. ChunkInv'
  BY DEF LoopTypeOK, CallInv, ChunkInv, Flying, Chunk, Claim
<1>4. RanInv'
  <2>1. Flying' = Flying \union {t} /\ t \notin Flying
    BY DEF Flying, Claim
  <2>2. /\ UNCHANGED <<chunkSize, total, ran, failed, firstError>> /\ next' = next + chunkSize
        /\ begin'[t] = next /\ \A s \in Flying : begin'[s] = begin[s]
    BY <2>1 DEF LoopTypeOK, Flying, Claim
  <2>3. (\E s \in Threads : pc'[s] = "catch") <=> (\E s \in Threads : pc[s] = "catch")
    BY DEF Claim
  <2>4. \A d \in Callers : /\ pc'[d] \in Active => pc[d] \in Active
                           /\ pc'[d] \in {"post", "await", "sleepDone"} => pc'[d] = pc[d]
    BY DEF Claim
  <2>5. ASSUME NEW d \in Callers, pc'[d] \in Active
        PROVE  OnlyClaimed(d)' /\ NotYetRun(d)' /\ NoneMissed(d)' /\ ErrorKept(d)'
    <3>1. OnlyClaimed(d) /\ NotYetRun(d) /\ NoneMissed(d) /\ ErrorKept(d)
      BY <2>4, <2>5 DEF RanInv
    <3>2. OnlyClaimed(d)' /\ ErrorKept(d)'
      BY <3>1, <2>2, <2>3 DEF LoopTypeOK, OnlyClaimed, ErrorKept, Indices, Loops!Indices
    <3>0. \A s \in Flying : Chunk(begin[s])' = Chunk(begin[s])
      BY <2>2 DEF Chunk
    <3>3. NotYetRun(d)'
      <4>2. 0..(total - 1) \subseteq Indices
        BY <2>4, <2>5, PostedFits
      <4>3. \A i \in Chunk(begin[t])' : i \in 0..(total - 1) /\ ~(i < next)
        BY <2>2 DEF LoopTypeOK, Chunk
      <4>4. \A i \in Chunk(begin[t])' : ran[d][i] = 0
        BY <3>1, <4>2, <4>3 DEF OnlyClaimed, LoopTypeOK
      <4>. QED  BY <3>0, <3>1, <2>1, <2>2, <4>4 DEF NotYetRun
    <3>4. NoneMissed(d)'
      <4>1. \A i \in 0..(total - 1) : i < next' => i < next \/ i \in Chunk(begin[t])'
        BY <2>2 DEF LoopTypeOK, Chunk
      <4>. QED  BY <3>0, <3>1, <2>1, <2>2, <4>1 DEF NoneMissed
    <3>. QED  BY <3>2, <3>3, <3>4
  <2>. QED  BY <2>2, <2>4, <2>5, InsideIsPosted DEF LoopTypeOK, RanInv, Claim
<1>. QED  BY <1>1, <1>2, <1>3, <1>4

\* The claimed chunk runs, or its body throws, or it lies past the range.
LEMMA ExecuteKeepsLoop ==
  ASSUME IInv, LoopInv, NEW t \in Threads, NEW ok \in BOOLEAN, Execute(t, ok)
  PROVE  LoopInv'
<1>. USE PoolAssumption
       DEF IInv, TypeOK, MutexInv, LoopInv, Threads, Held, Active, Working, Go,
           job, shared, call, counts
<1>0. PICK c \in Callers : /\ jobMutex = c /\ body = c /\ pc[c] \in Active
                          /\ \A d \in Callers \ {c} : pc[d] \notin Held
  BY InsideIsPosted DEF Execute
<1>a. /\ total = size[c] /\ size[c] \in Sizes /\ 0..(total - 1) \subseteq Indices
      /\ OnlyClaimed(c) /\ NotYetRun(c) /\ NoneMissed(c) /\ ErrorKept(c)
  BY <1>0, PostedFits DEF RanInv
<1>b. t \in Flying /\ t \notin Flying' /\ Flying' = Flying \ {t} /\ begin[t] \in Nat
      /\ \A s \in Flying' : begin'[s] = begin[s]
  BY DEF LoopTypeOK, Flying, Execute
<1>c. CASE begin[t] >= total
  <2>1. /\ UNCHANGED <<chunkSize, total, next, firstError, ran, failed, size>>
        /\ pc'[t] \in {"done", "await"}
        /\ \A s \in (Threads \union {Main}) \ {t} : pc'[s] = pc[s]
        /\ begin' \in [Threads -> Nat] /\ total <= next
    BY <1>b, <1>c DEF LoopTypeOK, ChunkInv, Execute
  <2>2. LoopTypeOK'
    BY <2>1 DEF LoopTypeOK
  <2>3. CallInv'
    BY <2>1 DEF LoopTypeOK, CallInv, Execute
  <2>4. ChunkInv'
    BY <1>b, <2>1 DEF LoopTypeOK, ChunkInv, Chunk, Execute
  <2>5. OnlyClaimed(c)' /\ NotYetRun(c)' /\ NoneMissed(c)' /\ ErrorKept(c)'
    <3>1. \A i \in 0..(total - 1) : i \notin Chunk(begin[t])
      BY <1>b, <1>c DEF LoopTypeOK, Chunk
    <3>2. (\E s \in Threads : pc'[s] = "catch") <=> (\E s \in Threads : pc[s] = "catch")
      BY <2>1 DEF Execute
    <3>. QED  BY <1>a, <1>b, <2>1, <3>1, <3>2
       DEF OnlyClaimed, NotYetRun, NoneMissed, ErrorKept, Chunk
  <2>6. RanInv'
    BY <1>0, <2>1, <2>5 DEF RanInv, Execute
  <2>. QED  BY <2>2, <2>3, <2>4, <2>6
<1>d. CASE ~(begin[t] >= total)
  <2> DEFINE S == IF ok THEN Chunk(begin[t]) ELSE {}
  <2>1. /\ ok => S = Chunk(begin[t])
        /\ ~ok => S = {}
        /\ Chunk(begin[t]) \subseteq 0..(total - 1)
    BY <1>b DEF LoopTypeOK, Chunk
  <2>2. /\ UNCHANGED <<chunkSize, total, next, firstError>>
        /\ pc'[t] = IF ok THEN "claim" ELSE "catch"
        /\ \A s \in (Threads \union {Main}) \ {t} : pc'[s] = pc[s]
        /\ begin' \in [Threads -> Nat] /\ RunBody(c, S, ok)
    BY <1>0, <1>b, <1>d DEF LoopTypeOK, Execute
  <2>3. S \in SUBSET Indices /\ \A i \in S : ran[c][i] = 0
    BY <1>a, <1>b, <2>1 DEF NotYetRun
  <2>. HIDE DEF S
  <2>4. RanOn(c, S, ok)
    BY <2>2, <2>3, RunBodyFacts
  <2>5. LoopTypeOK'
    BY <2>2, <2>4 DEF LoopTypeOK, RanOn
  <2>6. CallInv'
    BY <1>0, <2>2, <2>4 DEF LoopTypeOK, CallInv, RanOn, Execute
  <2>7. ChunkInv'
    BY <1>b, <2>2, <2>4 DEF LoopTypeOK, ChunkInv, Chunk, RanOn, Execute
  <2>8. OnlyClaimed(c)'
    BY <1>a, <1>b, <2>1, <2>2, <2>4 DEF LoopTypeOK, ChunkInv, OnlyClaimed, RanOn
  <2>R. /\ \A i \in Indices : ran'[c][i] = IF i \in S THEN 1 ELSE ran[c][i]
        /\ \A s \in Flying' : /\ Chunk(begin[s])' = Chunk(begin[s])
                             /\ Chunk(begin[s]) \subseteq Indices
    <3>1. \A i \in Indices : ran'[c][i] = IF i \in S THEN 1 ELSE ran[c][i]
      BY <2>4 DEF LoopTypeOK, RanOn
    <3>2. \A s \in Flying' : Chunk(begin[s])' = Chunk(begin[s])
      BY <1>b, <2>2 DEF Chunk
    <3>3. \A s \in Flying : Chunk(begin[s]) \subseteq 0..(total - 1)
      BY DEF LoopTypeOK, Flying, Chunk
    <3>. QED  BY <1>a, <1>b, <3>1, <3>2, <3>3
  <2>9. NotYetRun(c)'
    BY <1>a, <1>b, <2>1, <2>R DEF ChunkInv, NotYetRun
  <2>10. NoneMissed(c)'
    <3>1. CASE ok
      BY <1>a, <1>b, <2>1, <2>2, <2>4, <2>R, <3>1 DEF NoneMissed, RanOn
    <3>2. CASE ~ok
      BY <2>4, <3>2 DEF NoneMissed, RanOn
    <3>. QED  BY <3>1, <3>2
  <2>11. ErrorKept(c)'
    <3>1. CASE ok
      <4>1. (\E s \in Threads : pc'[s] = "catch") <=> (\E s \in Threads : pc[s] = "catch")
        BY <1>b, <2>2, <3>1 DEF Flying
      <4>. QED  BY <1>a, <2>2, <2>4, <3>1, <4>1 DEF ErrorKept, RanOn
    <3>2. CASE ~ok
      BY <2>2, <2>4, <3>2 DEF ErrorKept, RanOn
    <3>. QED  BY <3>1, <3>2
  <2>12. RanInv'
    <3>1. \A d \in Callers \ {c} : pc'[d] \notin Held
      BY <1>0, <1>b, <2>2 DEF Flying
    <3>2. pc'[c] # "post" /\ (pc'[c] \in {"await", "sleepDone"} => pc'[c] = pc[c])
      BY <1>0, <2>2
    <3>. QED  BY <2>2, <2>8, <2>9, <2>10, <2>11, <3>1, <3>2 DEF RanInv
  <2>. QED  BY <2>5, <2>6, <2>7, <2>12
<1>. QED  BY <1>c, <1>d

\* The drain sets the counter to total, above all that was claimed; the error is recorded.
LEMMA CatchKeepsLoop == ASSUME IInv, LoopInv, NEW t \in Threads, Catch(t) PROVE LoopInv'
<1>. USE PoolAssumption
       DEF IInv, TypeOK, MutexInv, LoopInv, Threads, Held, Active, Working, Go,
           job, shared, call, counts
<1>1. LoopTypeOK'
  BY DEF LoopTypeOK, Catch
<1>2. CallInv'
  BY DEF LoopTypeOK, CallInv, Catch
<1>3. ChunkInv'
  BY DEF LoopTypeOK, CallInv, ChunkInv, Flying, Chunk, Catch
<1>4. RanInv'
  <2>1. PICK c \in Callers : pc[c] \in Active /\ \A d \in Callers \ {c} : pc[d] \notin Held
    BY InsideIsPosted DEF Catch
  <2>2. OnlyClaimed(c) /\ NotYetRun(c) /\ ErrorKept(c)
    BY <2>1 DEF RanInv
  <2>3. /\ UNCHANGED <<chunkSize, total, ran, failed, begin>>
        /\ next' = total /\ firstError' = TRUE
        /\ pc[t] = "catch" /\ Flying' = Flying
    BY DEF Flying, Catch
  <2>4. failed[c]
    BY <2>2, <2>3 DEF ErrorKept
  <2>5. OnlyClaimed(c)' /\ NotYetRun(c)' /\ NoneMissed(c)' /\ ErrorKept(c)'
    BY <2>2, <2>3, <2>4 DEF LoopTypeOK, OnlyClaimed, NotYetRun, NoneMissed, ErrorKept, Chunk
  <2>6. \A d \in Callers \ {c} : pc'[d] \notin Held
    BY <2>1 DEF Catch
  <2>7. pc'[c] \in Active /\ (pc'[c] = "post" => FALSE)
    BY <2>1 DEF Catch
  <2>. QED  BY <2>3, <2>5, <2>6, <2>7 DEF LoopTypeOK, RanInv
<1>. QED  BY <1>1, <1>2, <1>3, <1>4

\* A worker that takes the job has claimed nothing yet.
LEMMA CheckKeepsLoop == ASSUME IInv, LoopInv, NEW w \in Workers, Check(w) PROVE LoopInv'
<1>. USE PoolAssumption
       DEF IInv, TypeOK, MutexInv, LoopInv, Threads, Held, Active, Working, Go,
           job, shared, call, counts
<1>1. LoopTypeOK'
  BY DEF LoopTypeOK, Check
<1>2. CallInv'
  BY DEF LoopTypeOK, CallInv, Check
<1>3. ChunkInv'
  BY DEF LoopTypeOK, CallInv, ChunkInv, Flying, Chunk, Check
<1>4. RanInv'
  <2>1. Flying' = Flying /\ \A s \in Flying : begin'[s] = begin[s]
    BY DEF Flying, Check
  <2>2. (\E s \in Threads : pc'[s] = "catch") <=> (\E s \in Threads : pc[s] = "catch")
    BY DEF Check
  <2>3. CallersStay
    BY DEF CallersStay, LoopTypeOK, Check
  <2>4. UNCHANGED <<chunkSize, total, next, firstError>>
    BY DEF Check
  <2>. QED  BY <2>1, <2>2, <2>3, <2>4, RanStays
<1>. QED  BY <1>1, <1>2, <1>3, <1>4

\* Counting a worker claims and runs nothing.
LEMMA DoneKeepsLoop == ASSUME IInv, LoopInv, NEW w \in Workers, Done(w) PROVE LoopInv'
<1>. USE PoolAssumption
       DEF IInv, TypeOK, MutexInv, LoopInv, Threads, Held, Active, Working, Go,
           job, shared, call, counts
<1>1. LoopTypeOK'
  BY DEF LoopTypeOK, Done
<1>2. CallInv'
  BY DEF LoopTypeOK, CallInv, Done
<1>3. ChunkInv'
  BY DEF LoopTypeOK, CallInv, ChunkInv, Flying, Chunk, Done
<1>4. RanInv'
  BY
     DEF LoopTypeOK, CallInv, ChunkInv, RanInv, OnlyClaimed, NotYetRun, NoneMissed, ErrorKept,
         Flying, Chunk, Done
<1>. QED  BY <1>1, <1>2, <1>3, <1>4

\* Waking the caller claims and runs nothing.
LEMMA NotifyCallerKeepsLoop ==
  ASSUME IInv, LoopInv, NEW w \in Workers, NotifyCaller(w)
  PROVE  LoopInv'
<1>. USE PoolAssumption
       DEF IInv, TypeOK, MutexInv, LoopInv, Threads, Held, Active, Working, Go,
           job, shared, call, counts
<1>1. LoopTypeOK'
  BY DEF LoopTypeOK, NotifyCaller, WakeCaller
<1>2. CallInv'
  BY DEF LoopTypeOK, CallInv, NotifyCaller, WakeCaller
<1>3. ChunkInv'
  BY DEF LoopTypeOK, CallInv, ChunkInv, Flying, Chunk, NotifyCaller, WakeCaller
<1>4. RanInv'
  <2>1. Flying' = Flying /\ \A s \in Flying : begin'[s] = begin[s]
    BY DEF Flying, NotifyCaller, WakeCaller
  <2>2. (\E s \in Threads : pc'[s] = "catch") <=> (\E s \in Threads : pc[s] = "catch")
    BY DEF NotifyCaller, WakeCaller
  <2>3. CallersStay
    BY DEF CallersStay, LoopTypeOK, NotifyCaller, WakeCaller
  <2>4. UNCHANGED <<chunkSize, total, next, firstError>>
    BY DEF NotifyCaller, WakeCaller
  <2>. QED  BY <2>1, <2>2, <2>3, <2>4, RanStays
<1>. QED  BY <1>1, <1>2, <1>3, <1>4

\* A spurious wake-up claims and runs nothing.
LEMMA SpuriousWakeKeepsLoop ==
  ASSUME IInv, LoopInv, NEW t \in Threads, SpuriousWake(t)
  PROVE  LoopInv'
<1>. USE PoolAssumption
       DEF IInv, TypeOK, MutexInv, LoopInv, Threads, Held, Active, Working, Go,
           job, shared, call, counts
<1>1. LoopTypeOK'
  BY DEF LoopTypeOK, SpuriousWake
<1>2. CallInv'
  BY DEF LoopTypeOK, CallInv, SpuriousWake
<1>3. ChunkInv'
  BY DEF LoopTypeOK, CallInv, ChunkInv, Flying, Chunk, SpuriousWake
<1>4. RanInv'
  BY
     DEF LoopTypeOK, CallInv, ChunkInv, RanInv, OnlyClaimed, NotYetRun, NoneMissed, ErrorKept,
         Flying, Chunk, SpuriousWake
<1>. QED  BY <1>1, <1>2, <1>3, <1>4

\* The destructor claims and runs nothing.
LEMMA ShutdownKeepsLoop == ASSUME IInv, LoopInv, Shutdown PROVE LoopInv'
<1>. USE PoolAssumption
       DEF IInv, TypeOK, MutexInv, LoopInv, Threads, Held, Active, Working, Go,
           job, shared, call, counts
<1>1. LoopTypeOK'
  BY DEF LoopTypeOK, Shutdown
<1>2. CallInv'
  BY DEF LoopTypeOK, CallInv, Shutdown
<1>3. ChunkInv'
  BY DEF LoopTypeOK, CallInv, ChunkInv, Flying, Chunk, Shutdown
<1>4. RanInv'
  BY
     DEF LoopTypeOK, CallInv, ChunkInv, RanInv, OnlyClaimed, NotYetRun, NoneMissed, ErrorKept,
         Flying, Chunk, Shutdown
<1>. QED  BY <1>1, <1>2, <1>3, <1>4

\* Waking workers to exit claims and runs nothing.
LEMMA NotifyShutdownKeepsLoop == ASSUME IInv, LoopInv, NotifyShutdown PROVE LoopInv'
<1>. USE PoolAssumption
       DEF IInv, TypeOK, MutexInv, LoopInv, Threads, Held, Active, Working, Go,
           job, shared, call, counts
<1>1. LoopTypeOK'
  BY DEF LoopTypeOK, NotifyShutdown, WakeWorkers
<1>2. CallInv'
  BY DEF LoopTypeOK, CallInv, NotifyShutdown, WakeWorkers
<1>3. ChunkInv'
  BY DEF LoopTypeOK, CallInv, ChunkInv, Flying, Chunk, NotifyShutdown, WakeWorkers
<1>4. RanInv'
  <2>1. Flying' = Flying /\ \A s \in Flying : begin'[s] = begin[s]
    BY DEF Flying, NotifyShutdown, WakeWorkers
  <2>2. (\E s \in Threads : pc'[s] = "catch") <=> (\E s \in Threads : pc[s] = "catch")
    BY DEF NotifyShutdown, WakeWorkers
  <2>3. CallersStay
    BY DEF CallersStay, LoopTypeOK, NotifyShutdown, WakeWorkers
  <2>4. UNCHANGED <<chunkSize, total, next, firstError>>
    BY DEF NotifyShutdown, WakeWorkers
  <2>. QED  BY <2>1, <2>2, <2>3, <2>4, RanStays
<1>. QED  BY <1>1, <1>2, <1>3, <1>4

\* Joining claims and runs nothing.
LEMMA JoinKeepsLoop == ASSUME IInv, LoopInv, Join PROVE LoopInv'
<1>. USE PoolAssumption
       DEF IInv, TypeOK, MutexInv, LoopInv, Threads, Held, Active, Working, Go,
           job, shared, call, counts
<1>1. LoopTypeOK'
  BY DEF LoopTypeOK, Join
<1>2. CallInv'
  BY DEF LoopTypeOK, CallInv, Join
<1>3. ChunkInv'
  BY DEF LoopTypeOK, CallInv, ChunkInv, Flying, Chunk, Join
<1>4. RanInv'
  BY
     DEF LoopTypeOK, CallInv, ChunkInv, RanInv, OnlyClaimed, NotYetRun, NoneMissed, ErrorKept,
         Flying, Chunk, Join
<1>. QED  BY <1>1, <1>2, <1>3, <1>4

\* Nothing has been called.
LEMMA InitiallyLoop == Init => LoopInv
<1> SUFFICES ASSUME Init PROVE LoopInv
  OBVIOUS
<1>. USE PoolAssumption DEF LoopInv, Threads, Init, Loops!Init, Indices, Active
<1>1. LoopTypeOK
  <2>1. /\ failed \in [Callers -> BOOLEAN] /\ firstError \in BOOLEAN
        /\ \A c \in Callers : ~failed[c]
    BY Zenon
  <2>. QED  BY <2>1 DEF LoopTypeOK
<1>2. \A t \in Threads : pc[t] \in {"out", "check"}
  OBVIOUS
<1>3. \A c \in Callers : pc[c] = "out"
  OBVIOUS
<1>4. CallInv
  <2>1. \A c \in Callers : ~failed[c] /\ size[c] = 0
    OBVIOUS
  <2>. QED  BY <1>3, <2>1 DEF CallInv
<1>5. ChunkInv
  BY <1>2, <1>3 DEF ChunkInv, Flying
<1>6. RanInv
  BY <1>3 DEF RanInv
<1>. QED  BY <1>1, <1>4, <1>5, <1>6

\* Every step keeps LoopInv.
LEMMA StepKeepsLoop == IInv /\ LoopInv /\ [Next]_vars => LoopInv'
<1> SUFFICES ASSUME IInv, LoopInv, [Next]_vars PROVE LoopInv'
  OBVIOUS
<1>1. ASSUME NEW c \in Callers, CallerStep(c) PROVE LoopInv'
  BY <1>1, InlineKeepsLoop, ExecuteKeepsLoop, InlineReturnKeepsLoop, SetupKeepsLoop,
     PostKeepsLoop, NotifyWorkersKeepsLoop, ClaimKeepsLoop, CatchKeepsLoop,
     AwaitKeepsLoop, UnlockKeepsLoop
     DEF CallerStep, Threads
<1>2. ASSUME NEW w \in Workers, WorkerStep(w) PROVE LoopInv'
  BY <1>2, ExecuteKeepsLoop, CheckKeepsLoop, ClaimKeepsLoop, CatchKeepsLoop, DoneKeepsLoop,
     NotifyCallerKeepsLoop DEF WorkerStep, Threads
<1>3. CASE UNCHANGED vars
  BY <1>3 DEF vars, job, shared, call, counts, LoopInv, LoopTypeOK, CallInv, ChunkInv, RanInv,
              OnlyClaimed, NotYetRun, NoneMissed, ErrorKept, Flying, Chunk
<1>. QED  BY <1>1, <1>2, <1>3, CallKeepsLoop, SpuriousWakeKeepsLoop, ShutdownKeepsLoop,
             NotifyShutdownKeepsLoop, JoinKeepsLoop DEF Next

\* A body of c that runs on indices of the call that have not run is the loop's Run.
LEMMA RunStep ==
  ASSUME NEW c \in Callers, NEW S \in SUBSET Indices, NEW ok \in BOOLEAN,
         \A i \in S : i < size[c] /\ ran[c][i] = 0, RunBody(c, S, ok), LoopTypeOK
  PROVE  Loops!Next
<1>1. [i \in Indices |-> IF i \in S THEN ran[c][i] + 1 ELSE ran[c][i]]
        = [i \in Indices |-> IF i \in S THEN 1 ELSE ran[c][i]]
  BY DEF LoopTypeOK
<1>2. Loops!Run(c, S, ok)
  BY <1>1 DEF RunBody, Loops!Run, Indices
<1>. QED  BY <1>2 DEF Loops!Next, Indices

\* parallel_for begins a call.
LEMMA CallStep ==
  ASSUME LoopInv, NEW c \in Callers, NEW n \in Sizes, NEW g \in Grains, Call(c, n, g)
  PROVE  Loops!Next
<1>1. size[c] = 0
  BY DEF LoopInv, CallInv, Call
<1>. QED  BY <1>1 DEF Call, Loops!Next, Loops!Begin

\* The inline body runs on the whole range, or throws.
LEMMA InlineStep ==
  ASSUME LoopInv, NEW c \in Callers, NEW ok \in BOOLEAN, Inline(c, ok)
  PROVE  Loops!Next
<1> DEFINE S == IF ok THEN 0..(size[c] - 1) ELSE {}
<1>1. size[c] \in Sizes
  BY DEF LoopInv, LoopTypeOK, CallInv, Inline
<1>2. 0..(size[c] - 1) \subseteq Indices /\ \A i \in Indices : ran[c][i] = 0
  BY <1>1, SizesFit DEF LoopInv, CallInv, Inline
<1>3. S \subseteq 0..(size[c] - 1) /\ RunBody(c, S, ok)
  BY DEF Inline
<1>. HIDE DEF S
<1>4. \A i \in S : i < size[c] /\ ran[c][i] = 0
  BY <1>1, <1>2, <1>3, SizesPositive
<1>. QED  BY <1>2, <1>3, <1>4, RunStep DEF LoopInv

\* The inline call returns when its body returned or threw.
LEMMA InlineReturnStep ==
  ASSUME LoopInv, NEW c \in Callers, InlineReturn(c)
  PROVE  Loops!Next
<1>1. size[c] \in Sizes /\ (failed[c] \/ \A i \in 0..(size[c] - 1) : ran[c][i] = 1)
  BY DEF LoopInv, LoopTypeOK, CallInv, InlineReturn
<1>2. size[c] > 0 /\ size' = [size EXCEPT ![c] = 0]
  BY <1>1, SizesPositive DEF InlineReturn, Close
<1>3. /\ result' = [result EXCEPT ![c] = IF failed[c] THEN "threw" ELSE "ok"]
      /\ ran' = [ran EXCEPT ![c] = [i \in Indices |-> 0]]
      /\ failed' = [failed EXCEPT ![c] = FALSE]
  BY DEF InlineReturn, Close
<1>4. Loops!Return(c)
  BY <1>1, <1>2, <1>3, Zenon DEF Loops!Return, Indices
<1>. QED  BY <1>4 DEF Loops!Next

\* A claimed chunk runs on indices of the call that have not run; past the range nothing does.
LEMMA ExecuteStep ==
  ASSUME IInv, LoopInv, NEW t \in Threads, NEW ok \in BOOLEAN, Execute(t, ok)
  PROVE  [Loops!Next]_(Loops!vars)
<1>1. CASE begin[t] >= total
  BY <1>1 DEF Execute, call, Loops!vars
<1>2. CASE ~(begin[t] >= total)
  <2> DEFINE S == IF ok THEN Chunk(begin[t]) ELSE {}
  <2>1. PICK c \in Callers : body = c /\ pc[c] \in Active
    BY InsideIsPosted DEF Execute, Working
  <2>2. total = size[c] /\ 0..(total - 1) \subseteq Indices /\ NotYetRun(c)
    BY <2>1, PostedFits DEF LoopInv, RanInv
  <2>3. t \in Flying /\ Chunk(begin[t]) \subseteq 0..(total - 1)
    BY DEF LoopInv, LoopTypeOK, Flying, Chunk, Execute
  <2>4. S \subseteq Indices /\ (\A i \in S : i < size[c] /\ ran[c][i] = 0) /\ RunBody(c, S, ok)
    BY <1>2, <2>1, <2>2, <2>3 DEF NotYetRun, Execute, LoopInv, LoopTypeOK
  <2>. HIDE DEF S
  <2>. QED  BY <2>1, <2>4, RunStep DEF LoopInv
<1>. QED  BY <1>1, <1>2

\* When every worker is counted, every index ran or a body's exception is in firstError:
\* the call returns as the loop does.
LEMMA AwaitStep ==
  ASSUME IInv, LoopInv, NEW c \in Callers, Await(c)
  PROVE  [Loops!Next]_(Loops!vars)
<1>1. CASE AllDone
  <2>1. \A t \in Threads : pc[t] \notin Working
    BY <1>1, AwaitEnds, NoneInside DEF IInv, TypeOK, MutexInv, Held, Active, Working, Await
  <2>2. /\ total = size[c] /\ size[c] \in Sizes /\ total <= next
        /\ NoneMissed(c) /\ ErrorKept(c)
    BY PostedFits DEF LoopInv, RanInv, Await, Active
  <2>3. Flying = {} /\ ~\E t \in Threads : pc[t] = "catch"
    BY <2>1 DEF Flying, Working
  <2>4. failed[c] <=> firstError
    BY <2>2, <2>3 DEF ErrorKept
  <2>5. failed[c] \/ \A i \in 0..(size[c] - 1) : ran[c][i] = 1
    BY <2>2, <2>3, PoolAssumption DEF NoneMissed, LoopInv, LoopTypeOK
  <2>6. size[c] > 0 /\ size' = [size EXCEPT ![c] = 0]
    BY <1>1, <2>2, SizesPositive DEF Await, Close
  <2>7. /\ result' = [result EXCEPT ![c] = IF failed[c] THEN "threw" ELSE "ok"]
        /\ ran' = [ran EXCEPT ![c] = [i \in Indices |-> 0]]
        /\ failed' = [failed EXCEPT ![c] = FALSE]
    BY <1>1, <2>4 DEF Await, Close
  <2>8. Loops!Return(c)
    BY <2>5, <2>6, <2>7, Zenon DEF Loops!Return, Indices
  <2>. QED  BY <2>8 DEF Loops!Next
<1>2. CASE ~AllDone
  BY <1>2 DEF Await, call, Loops!vars
<1>. QED  BY <1>1, <1>2

\* Every step of the pool is a step of the loop, or leaves what its callers see alone.
LEMMA StepImplements == IInv /\ LoopInv /\ [Next]_vars => [Loops!Next]_(Loops!vars)
<1> SUFFICES ASSUME IInv, LoopInv, [Next]_vars PROVE [Loops!Next]_(Loops!vars)
  OBVIOUS
<1>1. ASSUME NEW c \in Callers, CallerStep(c) PROVE [Loops!Next]_(Loops!vars)
  <2>1. CASE Setup(c) \/ Post(c) \/ NotifyWorkers(c) \/ Claim(c) \/ Catch(c) \/ Unlock(c)
    BY <2>1 DEF Setup, Post, NotifyWorkers, Claim, Catch, Unlock, call, Loops!vars
  <2>. QED  BY <1>1, <2>1, InlineStep, ExecuteStep, InlineReturnStep, AwaitStep
     DEF CallerStep, Threads
<1>2. ASSUME NEW w \in Workers, WorkerStep(w) PROVE [Loops!Next]_(Loops!vars)
  <2>1. CASE Check(w) \/ Claim(w) \/ Catch(w) \/ Done(w) \/ NotifyCaller(w)
    BY <2>1 DEF Check, Claim, Catch, Done, NotifyCaller, call, Loops!vars
  <2>. QED  BY <1>2, <2>1, ExecuteStep DEF WorkerStep, Threads
<1>3. CASE (\E t \in Threads : SpuriousWake(t)) \/ Shutdown \/ NotifyShutdown \/ Join
  BY <1>3 DEF SpuriousWake, Shutdown, NotifyShutdown, Join, call, Loops!vars
<1>4. CASE UNCHANGED vars
  BY <1>4 DEF vars, call, Loops!vars
<1>. QED  BY <1>1, <1>2, <1>3, <1>4, CallStep DEF Next

\* LoopInv holds in every state of every behaviour, whatever the constants.
THEOREM LoopInvariance == Spec => []LoopInv
BY Initially, StepKeeps, InitiallyLoop, StepKeepsLoop, PTL DEF Spec

\* parallel_for behaves as a plain loop: every index exactly once before it returns, none
\* after, and it throws exactly when a body threw.
THEOREM PoolImplementsLoop == Spec => ImplementsLoop
<1>1. Init => Loops!Init
  BY DEF Init
<1>. QED  BY <1>1, Invariance, LoopInvariance, StepImplements, PTL
   DEF Spec, ImplementsLoop, Loops!Spec
=============================================================================
