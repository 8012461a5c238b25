---------------------------- MODULE MetalStream ----------------------------
(***************************************************************************)
(* The resident Metal backend's command stream and block pool              *)
(* (src/transformer/metal_backend.mm, metal_internal.h). One thread        *)
(* encodes dispatches into an open command buffer, releases and reuses     *)
(* blocks, and synchronizes; the GPU runs committed buffers in order, and  *)
(* their completion handlers run late, on threads of their own, in any     *)
(* order.                                                                  *)
(*                                                                         *)
(* Command buffers are their sequence numbers; what a dispatch computes is *)
(* left out, the blocks it touches are kept.                               *)
(***************************************************************************)
EXTENDS Integers, FiniteSets

CONSTANTS
  Blocks,         \* blocks of one size
  CommitEvery,    \* commit_every_
  MaxInFlight,    \* max_in_flight_
  NoBlock,
  MaxSeq,         \* bound: command buffers opened
  MaxFaults       \* bound: buffers that cannot be opened or fail on the GPU

ASSUME StreamAssumption ==
  /\ NoBlock \notin Blocks
  /\ CommitEvery \in Nat \ {0} /\ MaxInFlight \in Nat \ {0}
  /\ MaxSeq \in Nat \ {0} /\ MaxFaults \in Nat

VARIABLES
  openSeq, openDispatches, hasOpenWork,   \* the open command buffer
  refs, status, handler,  \* per command buffer: blocks it will touch, GPU state, handler
  front,                  \* in_flight_ is front..(openSeq - 1)
  completedSeq, pending, error,
  place, tag,             \* per block: live, free or deferred, and its release tag
  visible,                \* blocks whose tensor has device_visible_ set
  pc, after,              \* the encoding thread, and what follows a sync
  relBlock, relIdle, relTag,  \* locals of Pool::release
  lost,                   \* whether a failure is still to be thrown
  faults

open    == <<openSeq, openDispatches, hasOpenWork>>
gpu     == <<refs, status, handler>>
release == <<relBlock, relIdle, relTag>>
pool    == <<place, tag, visible>>
vars    == <<open, gpu, front, completedSeq, pending, error, pool, pc, after, release,
             lost, faults>>

Seqs     == 1..MaxSeq
Finished == {"done", "failed"}

Init ==
  /\ openSeq = 1 /\ openDispatches = 0 /\ hasOpenWork = FALSE
  /\ refs = [s \in Seqs |-> {}] /\ status = [s \in Seqs |-> "none"]
  /\ handler = [s \in Seqs |-> "none"]
  /\ front = 1 /\ completedSeq = 0 /\ pending = FALSE /\ error = FALSE
  /\ place = [b \in Blocks |-> "none"] /\ tag = [b \in Blocks |-> 0]
  /\ visible = {}
  /\ pc = "ready" /\ after = "return"
  /\ relBlock = NoBlock /\ relIdle = FALSE /\ relTag = 0
  /\ lost = FALSE /\ faults = 0
-----------------------------------------------------------------------------
(* Pool: allocate, release, reclaim.                                       *)

\* A cached block, or a new one from the device, for a new tensor.
Allocate(b) ==
  /\ pc = "ready" /\ place[b] \in {"free", "none"}
  /\ place' = [place EXCEPT ![b] = "live"] /\ visible' = visible \ {b}
  /\ UNCHANGED <<open, gpu, front, completedSeq, pending, error, tag, pc, after, release,
                 lost, faults>>

\* Slip: the open command buffer is taken for the last committed one.
CurrentSeqCommitted == openSeq - 1

Idle       == ~hasOpenWork /\ completedSeq + 1 >= openSeq
CurrentSeq == IF hasOpenWork THEN openSeq ELSE openSeq - 1

\* Pool::release reads the stream without its lock: first idle(), ...
Release(b) ==
  /\ pc = "ready" /\ place[b] = "live"
  /\ pc' = "relTag" /\ relBlock' = b /\ relIdle' = Idle
  /\ UNCHANGED <<open, gpu, front, completedSeq, pending, error, pool, after, relTag,
                 lost, faults>>

\* ... then current_seq(), ...
ReleaseTag ==
  /\ pc = "relTag" /\ pc' = "relPool" /\ relTag' = CurrentSeq
  /\ UNCHANGED <<open, gpu, front, completedSeq, pending, error, pool, after, relBlock, relIdle,
                 lost, faults>>

\* ... and then takes the pool's.
ReleaseBlock ==
  /\ pc = "relPool" /\ pc' = "ready"
  /\ place' = [place EXCEPT ![relBlock] = IF relIdle THEN "free" ELSE "deferred"]
  /\ tag' = [tag EXCEPT ![relBlock] = IF relIdle THEN 0 ELSE relTag]
  /\ relBlock' = NoBlock /\ relIdle' = FALSE /\ relTag' = 0
  /\ UNCHANGED <<open, gpu, front, completedSeq, pending, error, visible, after, lost, faults>>

\* Deferred blocks in S become reusable.
Free(S) ==
  /\ place' = [b \in Blocks |-> IF b \in S THEN "free" ELSE place[b]]
  /\ tag' = [b \in Blocks |-> IF b \in S THEN 0 ELSE tag[b]]

Deferred == {b \in Blocks : place[b] = "deferred"}
-----------------------------------------------------------------------------
(* Stream: encode, commit, synchronize.                                    *)

\* commit_locked up to throttle_locked; nothing to do without dispatches.
Commit(dispatches) ==
  IF dispatches = 0
    THEN UNCHANGED <<open, status, handler>>
    ELSE /\ status' = [status EXCEPT ![openSeq] = "queued"]
         /\ handler' = [handler EXCEPT ![openSeq] = "due"]
         /\ openSeq' = openSeq + 1 /\ openDispatches' = 0 /\ hasOpenWork' = FALSE

CommitDue(n) == n >= CommitEvery

\* compute() or command(): a dispatch that touches the blocks in S, which it got from
\* Tensor::device_data().
Encode(S) ==
  /\ pc = "ready" /\ openSeq < MaxSeq
  /\ S # {} /\ \A b \in S : place[b] = "live"
  /\ refs' = [refs EXCEPT ![openSeq] = @ \union S]
  /\ visible' = visible \union S
  /\ pending' = TRUE
  /\ IF CommitDue(openDispatches + 1)
       THEN Commit(openDispatches + 1) /\ pc' = "throttle"
       ELSE /\ openDispatches' = openDispatches + 1 /\ hasOpenWork' = TRUE
            /\ UNCHANGED <<openSeq, status, handler, pc>>
  /\ after' = "return"
  /\ UNCHANGED <<front, completedSeq, error, place, tag, release, lost, faults>>

\* No command buffer or encoder: the dispatch is dropped, the error kept.
FailOpen ==
  /\ pc = "ready" /\ openSeq < MaxSeq /\ faults < MaxFaults /\ faults' = faults + 1
  /\ error' = TRUE /\ lost' = TRUE /\ pending' = TRUE
  /\ UNCHANGED <<open, gpu, front, completedSeq, pool, pc, after, release>>

Flush ==
  /\ pc = "ready" /\ openDispatches > 0
  /\ Commit(openDispatches) /\ pc' = "throttle" /\ after' = "return"
  /\ UNCHANGED <<refs, front, completedSeq, pending, error, pool, release, lost, faults>>

\* In-flight buffers whose status says they are over, up to the first that is not.
Drained == {s \in front..(openSeq - 1) : \A r \in front..s : status[r] \in Finished}
Failure(S) == \E s \in S : status[s] = "failed"

FewInFlight == openSeq - front - Cardinality(Drained) <= MaxInFlight

\* Slip: a failure among the buffers dropped is forgotten.
ThrottleForgets ==
  /\ pc = "throttle" /\ FewInFlight
  /\ front' = front + Cardinality(Drained)
  /\ pc' = IF after = "return" THEN "ready" ELSE "sync"
  /\ UNCHANGED <<open, gpu, completedSeq, pending, error, pool, after, release, lost, faults>>

\* throttle_locked: wait until few enough are in flight, dropping completed ones.
Throttle ==
  /\ pc = "throttle" /\ FewInFlight
  /\ front' = front + Cardinality(Drained)
  /\ error' = (error \/ Failure(Drained))
  /\ pc' = IF after = "return" THEN "ready" ELSE "sync"
  /\ UNCHANGED <<open, gpu, completedSeq, pending, pool, after, release, lost, faults>>

\* synchronize(), by itself or for empty_cache; fence() calls it while work is pending.
Synchronize(then) ==
  /\ pc = "ready" /\ after' = then
  /\ Commit(openDispatches)
  /\ pc' = IF openDispatches = 0 THEN "sync" ELSE "throttle"
  /\ UNCHANGED <<refs, front, completedSeq, pending, error, pool, release, lost, faults>>

Fence == pending /\ Synchronize("sync")

\* Slip: the sync waits for the oldest buffer in flight, not for the last.
LastCompletedOldest == front < openSeq => status[front] \in Finished

\* Slip: the sync waits for the open buffer, which nobody committed.
LastCompletedOpen == status[openSeq] \in Finished

LastCompleted == front < openSeq => status[openSeq - 1] \in Finished

\* Once the last buffer completed: everything deferred is free, failures are thrown.
SyncReturn ==
  /\ pc = "sync" /\ LastCompleted
  /\ completedSeq' = openSeq - 1 /\ Free(Deferred)
  /\ front' = openSeq /\ error' = FALSE /\ pending' = FALSE
  /\ LET threw == error \/ Failure(front..(openSeq - 1))
     IN /\ lost' = (lost /\ ~threw)
        /\ pc' = IF after = "empty" /\ ~threw THEN "empty" ELSE "ready"
  /\ after' = "return"
  /\ UNCHANGED <<open, gpu, visible, release, faults>>

\* Pool::empty_cache gives the cached blocks back to the device.
EmptyCache ==
  /\ pc = "empty" /\ pc' = "ready"
  /\ place' = [b \in Blocks |-> IF place[b] = "free" THEN "none" ELSE place[b]]
  /\ UNCHANGED <<open, gpu, front, completedSeq, visible, pending, error, tag, after, release,
                 lost, faults>>
-----------------------------------------------------------------------------
(* The GPU, and the completion handlers.                                   *)

Complete(s, ok) ==
  /\ status[s] = "queued" /\ \A r \in 1..(s - 1) : status[r] # "queued"
  /\ ok \/ faults < MaxFaults
  /\ faults' = IF ok THEN faults ELSE faults + 1
  /\ lost' = (lost \/ ~ok)
  /\ status' = [status EXCEPT ![s] = IF ok THEN "done" ELSE "failed"]
  /\ refs' = [refs EXCEPT ![s] = {}]
  /\ UNCHANGED <<open, handler, front, completedSeq, pending, error, pool, pc, after,
                 release>>

\* The handler's compare-and-swap loop: completed_seq_ never moves back.
HandlerStore(s) ==
  /\ handler[s] = "due" /\ status[s] \in Finished
  /\ handler' = [handler EXCEPT ![s] = "stored"]
  /\ completedSeq' = IF completedSeq < s THEN s ELSE completedSeq
  /\ UNCHANGED <<open, refs, status, front, pending, error, pool, pc, after, release,
                 lost, faults>>

HandlerReclaim(s) ==
  /\ handler[s] = "stored"
  /\ handler' = [handler EXCEPT ![s] = "ran"]
  /\ Free({b \in Deferred : tag[b] <= s})
  /\ UNCHANGED <<open, refs, status, front, completedSeq, visible, pending, error, pc, after, release,
                 lost, faults>>

Continue == ReleaseTag \/ ReleaseBlock \/ Throttle \/ SyncReturn \/ EmptyCache

Program ==
  \/ \E b \in Blocks : Allocate(b) \/ Release(b)
  \/ \E S \in SUBSET Blocks : Encode(S)
  \/ FailOpen \/ Flush \/ Fence
  \/ \E then \in {"sync", "empty"} : Synchronize(then)

Device ==
  \/ \E s \in Seqs, ok \in BOOLEAN : Complete(s, ok)
  \/ \E s \in Seqs : HandlerStore(s) \/ HandlerReclaim(s)

Next == Program \/ Continue \/ Device

\* A call in progress proceeds and the GPU finishes what was committed (Metal times
\* out a buffer that hangs); nothing forces a call to be made.
Spec == Init /\ [][Next]_vars /\ WF_vars(Continue) /\ WF_vars(Device)
-----------------------------------------------------------------------------
(* Properties.                                                             *)

\* A block that may be handed out again is touched by no dispatch still to run,
\* however late the handlers ran and wherever they cut into Pool::release.
FreeIsSettled ==
  \A b \in Blocks : place[b] \in {"free", "none"} =>
    \A s \in Seqs : b \notin refs[s]

\* A host access that is let through without a sync meets no queued dispatch: nothing is
\* queued when the stream's fence() returns at once, and nothing that touches the tensor
\* when Tensor::fence(), or its copy, goes by device_visible_, on a reused block too.
FenceCovers ==
  /\ ~pending => \A s \in Seqs : refs[s] = {}
  /\ \A b \in Blocks \ visible : place[b] = "live" => \A s \in Seqs : b \notin refs[s]

\* No failure is swallowed: while a dispatch was dropped or a buffer failed and no
\* sync has thrown it, a fence does sync; a sync that returns normally leaves none.
NoFailureLost == lost => pending /\ pc # "empty"

\* A sync (or a throttled encode) never waits for good.
CallsReturn == pc # "ready" ~> pc = "ready"
-----------------------------------------------------------------------------
(* Why they hold (see MetalStreamProofs).                                  *)

CountersOK ==
  /\ openSeq \in Seqs /\ openDispatches \in Nat
  /\ hasOpenWork \in BOOLEAN /\ (hasOpenWork <=> openDispatches > 0)
  /\ front \in 1..openSeq /\ completedSeq \in 0..(openSeq - 1)
BuffersOK ==
  /\ refs \in [Seqs -> SUBSET Blocks]
  /\ status \in [Seqs -> {"none", "queued"} \union Finished]
  /\ handler \in [Seqs -> {"none", "due", "stored", "ran"}]
BlocksOK ==
  /\ place \in [Blocks -> {"none", "free", "live", "deferred"}] /\ tag \in [Blocks -> Nat]
  /\ visible \subseteq Blocks
ThreadOK ==
  /\ pending \in BOOLEAN /\ error \in BOOLEAN /\ lost \in BOOLEAN /\ faults \in Nat
  /\ pc \in {"ready", "relTag", "relPool", "throttle", "sync", "empty"}
  /\ after \in {"return", "sync", "empty"}
  /\ relBlock \in Blocks \union {NoBlock} /\ relIdle \in BOOLEAN /\ relTag \in Nat
TypeOK == CountersOK /\ BuffersOK /\ BlocksOK /\ ThreadOK

\* Buffers below openSeq are committed and finish in order; only dispatches committed
\* and not finished, or in the open buffer, still touch blocks; what the stream has
\* dropped from in_flight_, or counted in completed_seq_, has finished.
StreamInv ==
  /\ \A s \in Seqs : status[s] = "none" <=> s >= openSeq
  /\ \A s \in Seqs : refs[s] # {} => status[s] \notin Finished /\ (s < openSeq \/ (s = openSeq /\ hasOpenWork))
  /\ \A r, s \in Seqs : r < s /\ status[s] \in Finished => status[r] \in Finished
  /\ \A s \in Seqs : s <= completedSeq \/ s < front => status[s] \in Finished
  /\ \A s \in Seqs : handler[s] = "stored" => status[s] \in Finished
  /\ hasOpenWork => openSeq < MaxSeq

\* Where the encoding thread is: nothing is encoded while it synchronizes, and the
\* locals of Pool::release still bound the dispatches that touch the block.
ThreadInv ==
  /\ pc \in {"sync", "empty"} \/ (pc = "throttle" /\ after # "return") => ~hasOpenWork
  /\ pc = "empty" => front = openSeq
  /\ pc \in {"relTag", "relPool"} => relBlock \in Blocks /\ place[relBlock] = "live"
  /\ pc \in {"relTag", "relPool"} /\ relIdle => \A s \in Seqs : refs[s] = {}
  /\ pc = "relPool" => \A s \in Seqs : relBlock \in refs[s] => s <= relTag

\* A deferred block's tag covers its dispatches; a failure not thrown yet is in error_
\* or still in flight.
PoolInv ==
  /\ \A b \in Blocks : place[b] = "deferred" => \A s \in Seqs : b \in refs[s] => s <= tag[b]
  /\ ~pending => ~hasOpenWork /\ front = openSeq
  /\ lost => error \/ \E s \in Seqs : s >= front /\ status[s] = "failed"

IInv == TypeOK /\ StreamInv /\ ThreadInv /\ PoolInv /\ FreeIsSettled /\ FenceCovers /\ NoFailureLost
=============================================================================
