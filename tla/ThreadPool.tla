----------------------------- MODULE ThreadPool -----------------------------
(***************************************************************************)
(* grad::ThreadPool (include/grad/transformer/parallel.h): a persistent    *)
(* pool whose workers, with the calling thread, claim chunks of one job    *)
(* from an atomic counter. One action per critical section, atomic         *)
(* operation or run of the body; condition variables keep their sleepers,  *)
(* so a notification nobody sleeps for is lost, and may wake for nothing.  *)
(*                                                                         *)
(* A nested call runs inline on the thread that issues it (it finds        *)
(* in_parallel_region() set), so it is part of the body here.              *)
(***************************************************************************)
EXTENDS Integers, FiniteSets

CONSTANTS
  Callers, Workers,    \* threads outside and inside the pool
  Sizes, Grains,       \* the n and grain of parallel_for calls
  Main,                \* the thread that runs ~ThreadPool at exit
  None,
  MaxCalls,            \* bound: calls made in all
  MaxThrows            \* bound: bodies that throw

ASSUME PoolAssumption ==
  /\ IsFiniteSet(Callers) /\ IsFiniteSet(Workers)
  /\ Callers \intersect Workers = {} /\ {None, Main} \intersect (Callers \union Workers) = {}
  /\ Sizes \subseteq Nat \ {0} /\ \E m \in Sizes : \A n \in Sizes : n <= m
  /\ Grains \subseteq Nat
  /\ MaxCalls \in Nat /\ MaxThrows \in Nat

VARIABLES
  jobMutex,                        \* its owner
  chunkSize, total, next, body,    \* the job; body is the caller whose function runs
  jobId, workersDone, firstError, shutdown,   \* guarded by wake_mutex_
  pc, seen, begin,                 \* per thread: position, seen_job, claimed chunk
  size, ran, failed, result,       \* per caller: its call (see ParallelLoop)
  calls, throws                    \* counters

job    == <<chunkSize, total, body>>
shared == <<jobId, workersDone, firstError, shutdown>>
call   == <<size, ran, failed, result>>
counts == <<calls, throws>>
vars   == <<jobMutex, job, next, shared, pc, seen, begin, call, counts>>

Threads == Callers \union Workers
Loops   == INSTANCE ParallelLoop
Indices == Loops!Indices

\* Inside work(), between reading body_ and leaving the claim loop.
Working == {"claim", "exec", "catch"}

Init ==
  /\ jobMutex = None /\ chunkSize = 1 /\ total = 0 /\ next = 0 /\ body = None
  /\ jobId = 0 /\ workersDone = 0 /\ firstError = FALSE /\ shutdown = FALSE
  /\ pc = [t \in Threads \union {Main} |-> IF t \in Workers THEN "check" ELSE "out"]
  /\ seen = [w \in Workers |-> 0] /\ begin = [t \in Threads |-> 0]
  /\ Loops!Init
  /\ calls = 0 /\ throws = 0

Go(t, p) == pc' = [pc EXCEPT ![t] = p]

\* notify_all on wake_cv_; notify_one on done_cv_, where only the job's caller sleeps.
WakeWorkers == [t \in DOMAIN pc |-> IF pc[t] = "sleep" THEN "check" ELSE pc[t]]
WakeCaller  == [t \in DOMAIN pc |-> IF pc[t] = "sleepDone" THEN "await" ELSE pc[t]]

\* The function of caller c ran on the indices in S; it threw unless ok.
RunBody(c, S, ok) ==
  /\ ok \/ throws < MaxThrows
  /\ throws' = IF ok THEN throws ELSE throws + 1
  /\ ran' = [ran EXCEPT ![c] = [i \in Indices |-> IF i \in S THEN @[i] + 1 ELSE @[i]]]
  /\ failed' = [failed EXCEPT ![c] = @ \/ ~ok]
  /\ UNCHANGED <<size, result>>

\* The call of c ends, with an exception or without.
Close(c, threw) ==
  /\ result' = [result EXCEPT ![c] = IF threw THEN "threw" ELSE "ok"]
  /\ size' = [size EXCEPT ![c] = 0]
  /\ ran' = [ran EXCEPT ![c] = [i \in Indices |-> 0]]
  /\ failed' = [failed EXCEPT ![c] = FALSE]
-----------------------------------------------------------------------------
(* The calling thread: parallel_for.                                       *)

Call(c, n, grain) ==
  /\ pc[c] = "out" /\ ~shutdown /\ calls < MaxCalls
  /\ calls' = calls + 1
  /\ size' = [size EXCEPT ![c] = n] /\ result' = [result EXCEPT ![c] = "none"]
  /\ LET g == IF grain = 0 THEN 1 ELSE grain
     IN IF Workers = {} \/ n <= g \/ jobMutex # None
          THEN Go(c, "inline") /\ UNCHANGED <<jobMutex, begin>>
          ELSE Go(c, "setup") /\ jobMutex' = c
               /\ begin' = [begin EXCEPT ![c] = g]  \* the grain, until work() reuses it
  /\ UNCHANGED <<ran, failed, job, next, shared, seen, throws>>

\* fn(0, n) on the calling thread.
Inline(c, ok) ==
  /\ pc[c] = "inline" /\ RunBody(c, IF ok THEN 0..(size[c] - 1) ELSE {}, ok)
  /\ Go(c, "leave")
  /\ UNCHANGED <<jobMutex, job, next, shared, seen, begin, calls>>

\* An exception of an inline body simply propagates.
InlineReturn(c) ==
  /\ pc[c] = "leave" /\ Close(c, failed[c]) /\ Go(c, "out")
  /\ UNCHANGED <<jobMutex, job, next, shared, seen, begin, counts>>

Setup(c) ==
  /\ pc[c] = "setup"
  /\ chunkSize' = begin[c] /\ total' = size[c] /\ next' = 0 /\ body' = c
  /\ begin' = [begin EXCEPT ![c] = 0]
  /\ Go(c, "post")
  /\ UNCHANGED <<jobMutex, shared, seen, call, counts>>

Post(c) ==
  /\ pc[c] = "post"
  /\ jobId' = jobId + 1 /\ workersDone' = 0 /\ firstError' = FALSE
  /\ Go(c, "notify")
  /\ UNCHANGED <<jobMutex, job, next, shutdown, seen, begin, call, counts>>

\* wake_cv_.notify_all(); the caller goes on to work().
NotifyWorkers(c) ==
  /\ pc[c] = "notify"
  /\ pc' = [WakeWorkers EXCEPT ![c] = "claim"]
  /\ UNCHANGED <<jobMutex, job, next, shared, seen, begin, call, counts>>

\* Slip: one worker may still be busy.
AllDoneButOne == workersDone >= Cardinality(Workers) - 1

AllDone == workersDone = Cardinality(Workers)

\* done_cv_.wait: sleep until every worker is done, then return or rethrow.
Await(c) ==
  /\ pc[c] = "await"
  /\ IF AllDone THEN /\ Go(c, "unlock") /\ body' = None
                     /\ Close(c, firstError) /\ firstError' = FALSE
                ELSE Go(c, "sleepDone") /\ UNCHANGED <<body, firstError, call>>
  /\ UNCHANGED <<jobMutex, chunkSize, total, next, jobId, workersDone, shutdown, seen, begin, counts>>

Unlock(c) ==
  /\ pc[c] = "unlock" /\ jobMutex' = None /\ Go(c, "out")
  /\ UNCHANGED <<job, next, shared, seen, begin, call, counts>>
-----------------------------------------------------------------------------
(* work(), on the caller and on every worker.                              *)

Claim(t) ==
  /\ pc[t] = "claim"
  /\ begin' = [begin EXCEPT ![t] = next] /\ next' = next + chunkSize
  /\ Go(t, "exec")
  /\ UNCHANGED <<jobMutex, job, shared, seen, call, counts>>

Chunk(b) == b..((IF b + chunkSize > total THEN total ELSE b + chunkSize) - 1)

\* Run the claimed chunk, or leave work() when it lies past the range.
Execute(t, ok) ==
  /\ pc[t] = "exec"
  /\ IF begin[t] >= total
       THEN ok /\ Go(t, IF t \in Workers THEN "done" ELSE "await") /\ UNCHANGED <<call, throws>>
       ELSE /\ RunBody(body, IF ok THEN Chunk(begin[t]) ELSE {}, ok)
            /\ Go(t, IF ok THEN "claim" ELSE "catch")
  /\ begin' = [begin EXCEPT ![t] = 0]  \* out of scope
  /\ UNCHANGED <<jobMutex, job, next, shared, seen, calls>>

\* Slip: the error is recorded outside the drain.
CatchForgets(t) ==
  /\ pc[t] = "catch" /\ next' = total
  /\ Go(t, "claim")
  /\ UNCHANGED <<jobMutex, job, shared, seen, begin, call, counts>>

Catch(t) ==
  /\ pc[t] = "catch" /\ firstError' = TRUE /\ next' = total
  /\ Go(t, "claim")
  /\ UNCHANGED <<jobMutex, job, jobId, workersDone, shutdown, seen, begin, call, counts>>
-----------------------------------------------------------------------------
(* worker_loop.                                                            *)

Check(w) ==
  /\ pc[w] = "check"
  /\ CASE shutdown -> Go(w, "exited") /\ UNCHANGED seen
       [] ~shutdown /\ jobId # seen[w] ->
            Go(w, "claim") /\ seen' = [seen EXCEPT ![w] = jobId]
       [] OTHER -> Go(w, "sleep") /\ UNCHANGED seen
  /\ UNCHANGED <<jobMutex, job, next, shared, begin, call, counts>>

Done(w) ==
  /\ pc[w] = "done" /\ workersDone' = workersDone + 1
  /\ Go(w, "notifyDone")
  /\ UNCHANGED <<jobMutex, job, next, jobId, firstError, shutdown, seen, begin, call, counts>>

\* Slip: the caller is not notified.
NotifyNobody(w) ==
  /\ pc[w] = "notifyDone"
  /\ Go(w, "check")
  /\ UNCHANGED <<jobMutex, job, next, shared, seen, begin, call, counts>>

NotifyCaller(w) ==
  /\ pc[w] = "notifyDone"
  /\ pc' = [WakeCaller EXCEPT ![w] = "check"]
  /\ UNCHANGED <<jobMutex, job, next, shared, seen, begin, call, counts>>

\* A condition variable may wake its sleeper for nothing.
SpuriousWake(t) ==
  /\ pc[t] \in {"sleep", "sleepDone"}
  /\ Go(t, IF pc[t] = "sleep" THEN "check" ELSE "await")
  /\ UNCHANGED <<jobMutex, job, next, shared, seen, begin, call, counts>>
-----------------------------------------------------------------------------
(* ~ThreadPool, at exit, when no call is open.                             *)

Shutdown ==
  /\ pc[Main] = "out" /\ \A c \in Callers : pc[c] = "out"
  /\ shutdown' = TRUE /\ Go(Main, "notify")
  /\ UNCHANGED <<jobMutex, job, next, jobId, workersDone, firstError, seen, begin, call, counts>>

\* Slip: sleeping workers are not told.
NotifyShutdownNobody ==
  /\ pc[Main] = "notify"
  /\ Go(Main, "join")
  /\ UNCHANGED <<jobMutex, job, next, shared, seen, begin, call, counts>>

NotifyShutdown ==
  /\ pc[Main] = "notify"
  /\ pc' = [WakeWorkers EXCEPT ![Main] = "join"]
  /\ UNCHANGED <<jobMutex, job, next, shared, seen, begin, call, counts>>

Join ==
  /\ pc[Main] = "join" /\ \A w \in Workers : pc[w] = "exited"
  /\ Go(Main, "joined")
  /\ UNCHANGED <<jobMutex, job, next, shared, seen, begin, call, counts>>

CallerStep(c) ==
  \/ \E ok \in BOOLEAN : Inline(c, ok) \/ Execute(c, ok)
  \/ InlineReturn(c) \/ Setup(c) \/ Post(c) \/ NotifyWorkers(c)
  \/ Claim(c) \/ Catch(c) \/ Await(c) \/ Unlock(c)

WorkerStep(w) ==
  \/ \E ok \in BOOLEAN : Execute(w, ok)
  \/ Check(w) \/ Claim(w) \/ Catch(w) \/ Done(w) \/ NotifyCaller(w)

Next ==
  \/ \E c \in Callers : CallerStep(c) \/ \E n \in Sizes, g \in Grains : Call(c, n, g)
  \/ \E w \in Workers : WorkerStep(w)
  \/ \E t \in Threads : SpuriousWake(t)
  \/ Shutdown \/ NotifyShutdown \/ Join

\* The operating system runs every thread that can run; nothing forces a call, a
\* throw, a spurious wake or the exit.
Fairness ==
  /\ \A c \in Callers : WF_vars(CallerStep(c))
  /\ \A w \in Workers : WF_vars(WorkerStep(w))
  /\ WF_vars(NotifyShutdown) /\ WF_vars(Join)

Spec == Init /\ [][Next]_vars /\ Fairness
-----------------------------------------------------------------------------
(* Properties.                                                             *)

\* A worker inside work() works for the call that is open now: body_ points into a
\* stack frame that is still there, and its job is the one being waited for.
NoStaleBody ==
  \A w \in Workers : pc[w] \in Working =>
    /\ body # None /\ body = jobMutex /\ seen[w] = jobId
    /\ pc[body] \in {"notify", "claim", "exec", "catch", "await", "sleepDone"}

\* chunk_size_, total_ and body_ are read in work() without a lock: nobody writes
\* them while another thread is in there.
JobIsStable ==
  [][job' # job => \A t \in Threads \ {jobMutex} : pc[t] \notin Working]_vars

\* The pool implements the loop: every index once, none after the return, and the
\* call throws exactly when a body threw.
ImplementsLoop == Loops!Spec

\* No call waits forever: no lost wake-up between Done/NotifyCaller and Await, or
\* between Post/NotifyWorkers and a worker on its way to sleep.
EveryCallReturns == \A c \in Callers : size[c] > 0 ~> size[c] = 0

\* The destructor's joins all return.
ExitTerminates == shutdown ~> pc[Main] = "joined"
-----------------------------------------------------------------------------
(* Why the workers never see a stale job (see ThreadPoolProofs).           *)

\* From posting a job to its end; and all the time the caller has job_mutex_.
Active == {"notify", "claim", "exec", "catch", "await", "sleepDone"}
Held   == Active \union {"setup", "post", "unlock"}

TypeOK ==
  /\ jobMutex \in Callers \union {None} /\ body \in Callers \union {None}
  /\ jobId \in Nat /\ workersDone \in Nat /\ shutdown \in BOOLEAN
  /\ seen \in [Workers -> Nat]
  /\ DOMAIN pc = Threads \union {Main}
  /\ \A c \in Callers : pc[c] \in Held \union {"out", "inline", "leave"}
  /\ \A w \in Workers : pc[w] \in Working \union {"check", "sleep", "done", "notifyDone", "exited"}

\* Workers that have taken the posted job and are through with it.
Through == {w \in Workers : seen[w] = jobId /\ pc[w] \notin Working \union {"done"}}

\* The caller inside holds job_mutex_, and from Post to Await its function is body_; a
\* worker inside has taken that job.
\* workers_done_ counts the workers through with its job; before and after, all are.
MutexInv ==
  /\ \A c \in Callers : pc[c] \in Held <=> jobMutex = c
  /\ \A c \in Callers : pc[c] \in Active \union {"post"} => body = c
  /\ \A w \in Workers : pc[w] \in Working \union {"done"} => seen[w] = jobId
  /\ shutdown => \A c \in Callers : pc[c] = "out"
CountInv ==
  IF \E c \in Callers : pc[c] \in Active THEN workersDone = Cardinality(Through)
                                        ELSE Through = Workers

IInv == TypeOK /\ MutexInv /\ CountInv
-----------------------------------------------------------------------------
(* Why the pool implements the loop (see ThreadPoolProofs).                *)

LoopTypeOK ==
  /\ size \in [Callers -> Sizes \union {0}] /\ ran \in [Callers -> [Indices -> {0, 1}]]
  /\ failed \in [Callers -> BOOLEAN] /\ firstError \in BOOLEAN
  /\ begin \in [Threads -> Nat] /\ chunkSize \in Nat \ {0} /\ total \in Nat /\ next \in Nat

\* What each caller's call has done before its job is posted, and inline.
CallInv ==
  \A c \in Callers :
    /\ size[c] = 0 <=> pc[c] \in {"out", "unlock"}
    /\ pc[c] \in {"out", "unlock", "inline", "setup", "post"} =>
         ~failed[c] /\ \A i \in Indices : ran[c][i] = 0
    /\ pc[c] = "leave" => failed[c] \/ \A i \in 0..(size[c] - 1) : ran[c][i] = 1
    /\ pc[c] = "setup" => begin[c] > 0

\* Claimed chunks lie below the counter and apart from each other.
Flying   == {t \in Threads : pc[t] = "exec"}
ChunkInv ==
  /\ \A c \in Callers : pc[c] \in Active \union {"post"} => total = size[c]
  /\ \A t \in Flying :
       /\ begin[t] < next \/ total <= next
       /\ \A i \in Chunk(begin[t]) : i < next /\ \A s \in Flying \ {t} : i \notin Chunk(begin[s])

\* For the posted job of c: what ran was claimed, a claimed chunk has not run, every
\* claimed index ran or is about to unless a body threw, which is or will be recorded.
OnlyClaimed(c) == \A i \in Indices : ran[c][i] = 1 => i < next /\ i < total
NotYetRun(c)   == \A t \in Flying : \A i \in Chunk(begin[t]) : ran[c][i] = 0
NoneMissed(c)  ==
  failed[c] \/ \A i \in 0..(total - 1) :
    i < next => ran[c][i] = 1 \/ \E t \in Flying : i \in Chunk(begin[t])
ErrorKept(c)   == failed[c] <=> firstError \/ \E t \in Threads : pc[t] = "catch"

RanInv ==
  \A c \in Callers :
    /\ pc[c] \in Active => OnlyClaimed(c) /\ NotYetRun(c) /\ NoneMissed(c) /\ ErrorKept(c)
    /\ pc[c] = "post" => next = 0
    /\ pc[c] \in {"await", "sleepDone"} => total <= next

LoopInv == LoopTypeOK /\ CallInv /\ ChunkInv /\ RanInv
=============================================================================
