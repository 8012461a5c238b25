------------------------- MODULE MetalStreamProofs -------------------------
(***************************************************************************)
(* Proofs about MetalStream, for every number of blocks, commit interval,  *)
(* in-flight limit and number of command buffers and faults: what may be   *)
(* handed out again, what the host may read without a sync, and that no    *)
(* failure is swallowed. IInv is inductive: StreamInv orders the command   *)
(* buffers, ThreadInv bounds what Pool::release read before it took the    *)
(* pool's lock, PoolInv says what a deferred block's tag covers. One lemma *)
(* per action shows that it keeps IInv.                                    *)
(***************************************************************************)
EXTENDS MetalStream, FiniteSetTheorems, TLAPS

\* A block handed out was free, so no dispatch still to run touches it.
LEMMA AllocateKeeps == ASSUME IInv, NEW b \in Blocks, Allocate(b) PROVE IInv'
<1>. USE StreamAssumption
       DEF IInv, TypeOK, CountersOK, BuffersOK, BlocksOK, ThreadOK, Seqs, Finished,
           open, gpu, pool, release
<1>1. TypeOK'
  BY DEF Allocate
<1>2. StreamInv'
  BY <1>1 DEF StreamInv, Allocate
<1>3. ThreadInv'
  BY <1>1, <1>2 DEF StreamInv, ThreadInv, FreeIsSettled, Allocate
<1>4. PoolInv'
  BY <1>1, <1>2 DEF StreamInv, ThreadInv, PoolInv, Allocate
<1>5. FreeIsSettled'
  BY <1>1, <1>2 DEF StreamInv, ThreadInv, PoolInv, FreeIsSettled, Allocate
<1>6. FenceCovers' /\ NoFailureLost'
  BY <1>1, <1>2, <1>4
     DEF StreamInv, ThreadInv, PoolInv, FreeIsSettled, FenceCovers, NoFailureLost, Allocate
<1>. QED  BY <1>1, <1>2, <1>3, <1>4, <1>5, <1>6

\* Pool::release reads idle(): true only when every dispatch has finished.
LEMMA ReleaseKeeps == ASSUME IInv, NEW b \in Blocks, Release(b) PROVE IInv'
<1>. USE StreamAssumption
       DEF IInv, TypeOK, CountersOK, BuffersOK, BlocksOK, ThreadOK, Seqs, Finished,
           open, gpu, pool, release
<1>1. TypeOK'
  BY DEF Release, Idle
<1>2. StreamInv'
  BY <1>1 DEF StreamInv, Release, Idle
<1>3. ThreadInv'
  <2>1. relIdle' => \A s \in Seqs : refs[s] = {}
    <3> SUFFICES ASSUME Idle, NEW s \in Seqs PROVE refs[s] = {}
      BY DEF Release
    <3>1. s < openSeq => s <= completedSeq
      BY DEF Idle
    <3>. QED  BY <3>1 DEF StreamInv, Idle
  <2>. QED  BY <1>1, <2>1 DEF StreamInv, ThreadInv, FreeIsSettled, Release
<1>4. PoolInv'
  BY <1>1, <1>2 DEF StreamInv, ThreadInv, PoolInv, Release, Idle
<1>5. FreeIsSettled'
  BY <1>1, <1>2 DEF StreamInv, ThreadInv, PoolInv, FreeIsSettled, Release, Idle
<1>6. FenceCovers' /\ NoFailureLost'
  BY <1>1, <1>2, <1>4
     DEF StreamInv, ThreadInv, PoolInv, FreeIsSettled, FenceCovers, NoFailureLost, Release, Idle
<1>. QED  BY <1>1, <1>2, <1>3, <1>4, <1>5, <1>6

\* Pool::release reads current_seq(): no later buffer touches a block being released.
LEMMA ReleaseTagKeeps == ASSUME IInv, ReleaseTag PROVE IInv'
<1>. USE StreamAssumption
       DEF IInv, TypeOK, CountersOK, BuffersOK, BlocksOK, ThreadOK, Seqs, Finished,
           open, gpu, pool, release
<1>1. TypeOK'
  BY DEF ReleaseTag, CurrentSeq
<1>2. StreamInv'
  BY <1>1 DEF StreamInv, ReleaseTag, CurrentSeq
<1>3. ThreadInv'
  BY <1>1, <1>2 DEF StreamInv, ThreadInv, FreeIsSettled, ReleaseTag, CurrentSeq
<1>4. PoolInv'
  BY <1>1, <1>2 DEF StreamInv, ThreadInv, PoolInv, ReleaseTag, CurrentSeq
<1>5. FreeIsSettled'
  BY <1>1, <1>2 DEF StreamInv, ThreadInv, PoolInv, FreeIsSettled, ReleaseTag, CurrentSeq
<1>6. FenceCovers' /\ NoFailureLost'
  BY <1>1, <1>2, <1>4
     DEF StreamInv, ThreadInv, PoolInv, FreeIsSettled, FenceCovers, NoFailureLost,
         ReleaseTag, CurrentSeq
<1>. QED  BY <1>1, <1>2, <1>3, <1>4, <1>5, <1>6

\* Pool::release files the block: free if the stream was idle, else under a tag that
\* covers its dispatches.
LEMMA ReleaseBlockKeeps == ASSUME IInv, ReleaseBlock PROVE IInv'
<1>. USE StreamAssumption
       DEF IInv, TypeOK, CountersOK, BuffersOK, BlocksOK, ThreadOK, Seqs, Finished,
           open, gpu, pool, release
<1>1. TypeOK'
  BY DEF ReleaseBlock
<1>2. StreamInv'
  BY <1>1 DEF StreamInv, ReleaseBlock
<1>3. ThreadInv'
  BY <1>1, <1>2 DEF StreamInv, ThreadInv, FreeIsSettled, ReleaseBlock
<1>4. PoolInv'
  BY <1>1, <1>2 DEF StreamInv, ThreadInv, PoolInv, ReleaseBlock
<1>5. FreeIsSettled'
  BY <1>1, <1>2 DEF StreamInv, ThreadInv, PoolInv, FreeIsSettled, ReleaseBlock
<1>6. FenceCovers' /\ NoFailureLost'
  BY <1>1, <1>2, <1>4
     DEF StreamInv, ThreadInv, PoolInv, FreeIsSettled, FenceCovers, NoFailureLost, ReleaseBlock
<1>. QED  BY <1>1, <1>2, <1>3, <1>4, <1>5, <1>6

\* A dispatch that could not be encoded leaves its error, and work pending.
LEMMA FailOpenKeeps == ASSUME IInv, FailOpen PROVE IInv'
<1>. USE StreamAssumption
       DEF IInv, TypeOK, CountersOK, BuffersOK, BlocksOK, ThreadOK, Seqs, Finished,
           open, gpu, pool, release
<1>1. TypeOK'
  BY DEF FailOpen
<1>2. StreamInv'
  BY <1>1 DEF StreamInv, FailOpen
<1>3. ThreadInv'
  BY <1>1, <1>2 DEF StreamInv, ThreadInv, FreeIsSettled, FailOpen
<1>4. PoolInv'
  BY <1>1, <1>2 DEF StreamInv, ThreadInv, PoolInv, FailOpen
<1>5. FreeIsSettled'
  BY <1>1, <1>2 DEF StreamInv, ThreadInv, PoolInv, FreeIsSettled, FailOpen
<1>6. FenceCovers' /\ NoFailureLost'
  BY <1>1, <1>2, <1>4
     DEF StreamInv, ThreadInv, PoolInv, FreeIsSettled, FenceCovers, NoFailureLost, FailOpen
<1>. QED  BY <1>1, <1>2, <1>3, <1>4, <1>5, <1>6

\* Pool::empty_cache gives back only free blocks.
LEMMA EmptyCacheKeeps == ASSUME IInv, EmptyCache PROVE IInv'
<1>. USE StreamAssumption
       DEF IInv, TypeOK, CountersOK, BuffersOK, BlocksOK, ThreadOK, Seqs, Finished,
           open, gpu, pool, release
<1>1. TypeOK'
  BY DEF EmptyCache
<1>2. StreamInv'
  BY <1>1 DEF StreamInv, EmptyCache
<1>3. ThreadInv'
  BY <1>1, <1>2 DEF StreamInv, ThreadInv, FreeIsSettled, EmptyCache
<1>4. PoolInv'
  BY <1>1, <1>2 DEF StreamInv, ThreadInv, PoolInv, EmptyCache
<1>5. FreeIsSettled'
  BY <1>1, <1>2 DEF StreamInv, ThreadInv, PoolInv, FreeIsSettled, EmptyCache
<1>6. FenceCovers' /\ NoFailureLost'
  BY <1>1, <1>2, <1>4
     DEF StreamInv, ThreadInv, PoolInv, FreeIsSettled, FenceCovers, NoFailureLost, EmptyCache
<1>. QED  BY <1>1, <1>2, <1>3, <1>4, <1>5, <1>6

\* The GPU finishes the oldest queued buffer: finished buffers stay a prefix.
LEMMA CompleteKeeps == ASSUME IInv, NEW s \in Seqs, NEW ok \in BOOLEAN, Complete(s, ok) PROVE IInv'
<1>. USE StreamAssumption
       DEF IInv, TypeOK, CountersOK, BuffersOK, BlocksOK, ThreadOK, Seqs, Finished,
           open, gpu, pool, release
<1>1. TypeOK'
  BY DEF Complete
<1>2. StreamInv'
  BY <1>1 DEF StreamInv, Complete
<1>3. ThreadInv'
  BY <1>1, <1>2 DEF StreamInv, ThreadInv, FreeIsSettled, Complete
<1>4. PoolInv'
  BY <1>1, <1>2 DEF StreamInv, ThreadInv, PoolInv, Complete
<1>5. FreeIsSettled'
  BY <1>1, <1>2 DEF StreamInv, ThreadInv, PoolInv, FreeIsSettled, Complete
<1>6. FenceCovers' /\ NoFailureLost'
  BY <1>1, <1>2, <1>4
     DEF StreamInv, ThreadInv, PoolInv, FreeIsSettled, FenceCovers, NoFailureLost, Complete
<1>. QED  BY <1>1, <1>2, <1>3, <1>4, <1>5, <1>6

\* The handler raises completed_seq_ to a finished buffer, behind which all have finished.
LEMMA HandlerStoreKeeps == ASSUME IInv, NEW s \in Seqs, HandlerStore(s) PROVE IInv'
<1>. USE StreamAssumption
       DEF IInv, TypeOK, CountersOK, BuffersOK, BlocksOK, ThreadOK, Seqs, Finished,
           open, gpu, pool, release
<1>1. TypeOK'
  BY DEF StreamInv, HandlerStore
<1>2. StreamInv'
  <2>1. \A r \in Seqs : r <= s => status[r] \in Finished
    BY DEF StreamInv, HandlerStore
  <2>. QED  BY <1>1, <2>1 DEF StreamInv, HandlerStore
<1>3. ThreadInv'
  BY <1>1, <1>2 DEF StreamInv, ThreadInv, FreeIsSettled, HandlerStore
<1>4. PoolInv'
  BY <1>1, <1>2 DEF StreamInv, ThreadInv, PoolInv, HandlerStore
<1>5. FreeIsSettled'
  BY <1>1, <1>2 DEF StreamInv, ThreadInv, PoolInv, FreeIsSettled, HandlerStore
<1>6. FenceCovers' /\ NoFailureLost'
  BY <1>1, <1>2, <1>4
     DEF StreamInv, ThreadInv, PoolInv, FreeIsSettled, FenceCovers, NoFailureLost, HandlerStore
<1>. QED  BY <1>1, <1>2, <1>3, <1>4, <1>5, <1>6

\* The handler frees only blocks whose tag a finished buffer has reached.
LEMMA HandlerReclaimKeeps == ASSUME IInv, NEW s \in Seqs, HandlerReclaim(s) PROVE IInv'
<1>. USE StreamAssumption
       DEF IInv, TypeOK, CountersOK, BuffersOK, BlocksOK, ThreadOK, Seqs, Finished,
           open, gpu, pool, release
<1>1. TypeOK'
  BY DEF HandlerReclaim, Free, Deferred
<1>2. StreamInv'
  BY <1>1 DEF StreamInv, HandlerReclaim, Free, Deferred
<1>3. ThreadInv'
  BY <1>1, <1>2 DEF StreamInv, ThreadInv, FreeIsSettled, HandlerReclaim, Free, Deferred
<1>4. PoolInv'
  BY <1>1, <1>2 DEF StreamInv, ThreadInv, PoolInv, HandlerReclaim, Free, Deferred
<1>5. FreeIsSettled'
  BY <1>1, <1>2 DEF StreamInv, ThreadInv, PoolInv, FreeIsSettled, HandlerReclaim, Free, Deferred
<1>6. FenceCovers' /\ NoFailureLost'
  BY <1>1, <1>2, <1>4
     DEF StreamInv, ThreadInv, PoolInv, FreeIsSettled, FenceCovers, NoFailureLost,
         HandlerReclaim, Free, Deferred
<1>. QED  BY <1>1, <1>2, <1>3, <1>4, <1>5, <1>6

\* commit_locked with dispatches: the open buffer goes to the GPU, and the next one opens.
LEMMA CommitFacts ==
  ASSUME TypeOK, NEW n \in Nat \ {0}, Commit(n)
  PROVE  /\ openSeq' = openSeq + 1 /\ openDispatches' = 0
         /\ hasOpenWork' \in BOOLEAN /\ ~hasOpenWork'
         /\ status' = [status EXCEPT ![openSeq] = "queued"]
         /\ handler' = [handler EXCEPT ![openSeq] = "due"]
BY Zenon DEF Commit

\* compute() and command(): the dispatch joins the open buffer, which may be committed.
LEMMA EncodeKeeps == ASSUME IInv, NEW S \in SUBSET Blocks, Encode(S) PROVE IInv'
<1>. USE StreamAssumption
       DEF IInv, TypeOK, CountersOK, BuffersOK, BlocksOK, ThreadOK, Seqs, Finished,
           open, gpu, pool, release
<1>1. CASE CommitDue(openDispatches + 1)
  <2>0. /\ openSeq < MaxSeq /\ openSeq' = openSeq + 1 /\ openDispatches' = 0
        /\ hasOpenWork' \in BOOLEAN /\ ~hasOpenWork'
        /\ status' = [status EXCEPT ![openSeq] = "queued"]
        /\ handler' = [handler EXCEPT ![openSeq] = "due"]
        /\ pc' = "throttle"
    <3>1. /\ openDispatches + 1 \in Nat \ {0} /\ openSeq < MaxSeq /\ Commit(openDispatches + 1)
          /\ pc' = "throttle"
      BY <1>1 DEF StreamInv, Encode
    <3>. QED  BY <3>1, CommitFacts
  <2>1. front' = front /\ completedSeq' = completedSeq
    BY DEF Encode
  <2>2. TypeOK'
    <3>1. CountersOK'
      BY <2>0, <2>1
    <3>2. BuffersOK' /\ BlocksOK' /\ ThreadOK'
      BY <1>1, <2>0 DEF Encode
    <3>. QED  BY <3>1, <3>2
  <2>3. StreamInv'
    BY <1>1, <2>0, <2>2 DEF StreamInv, Encode
  <2>4. ThreadInv'
    BY <1>1, <2>0, <2>2 DEF StreamInv, ThreadInv, Encode
  <2>5. PoolInv'
    BY <1>1, <2>0, <2>2 DEF StreamInv, PoolInv, Encode
  <2>6. FreeIsSettled' /\ FenceCovers' /\ NoFailureLost'
    BY <1>1, <2>0, <2>2
       DEF StreamInv, ThreadInv, PoolInv, FreeIsSettled, FenceCovers, NoFailureLost, Encode
  <2>. QED  BY <2>2, <2>3, <2>4, <2>5, <2>6
<1>2. CASE ~CommitDue(openDispatches + 1)
  <2>0. /\ openSeq < MaxSeq /\ openSeq' = openSeq /\ openDispatches' = openDispatches + 1
        /\ hasOpenWork' = TRUE
        /\ status' = status /\ handler' = handler /\ pc' = pc
    BY <1>2 DEF Encode
  <2>1. front' = front /\ completedSeq' = completedSeq
    BY DEF Encode
  <2>2. TypeOK'
    <3>1. CountersOK'
      BY <2>0, <2>1
    <3>2. BuffersOK' /\ BlocksOK' /\ ThreadOK'
      BY <1>2, <2>0 DEF Encode
    <3>. QED  BY <3>1, <3>2
  <2>3. StreamInv'
    BY <1>2, <2>0, <2>2 DEF StreamInv, Encode
  <2>4. ThreadInv'
    BY <1>2, <2>0, <2>2 DEF StreamInv, ThreadInv, Encode
  <2>5. PoolInv'
    BY <1>2, <2>0, <2>2 DEF StreamInv, PoolInv, Encode
  <2>6. FreeIsSettled' /\ FenceCovers' /\ NoFailureLost'
    BY <1>2, <2>0, <2>2
       DEF StreamInv, ThreadInv, PoolInv, FreeIsSettled, FenceCovers, NoFailureLost, Encode
  <2>. QED  BY <2>2, <2>3, <2>4, <2>5, <2>6
<1>. QED  BY <1>1, <1>2

\* flush() commits the open buffer.
LEMMA FlushKeeps == ASSUME IInv, Flush PROVE IInv'
<1>. USE StreamAssumption
       DEF IInv, TypeOK, CountersOK, BuffersOK, BlocksOK, ThreadOK, Seqs, Finished,
           open, gpu, pool, release
<1>1. CASE openDispatches > 0
  <2>0. /\ openSeq < MaxSeq /\ openSeq' = openSeq + 1 /\ openDispatches' = 0
        /\ hasOpenWork' \in BOOLEAN /\ ~hasOpenWork'
        /\ status' = [status EXCEPT ![openSeq] = "queued"]
        /\ handler' = [handler EXCEPT ![openSeq] = "due"]
        /\ pc' = "throttle"
    <3>1. /\ openDispatches \in Nat \ {0} /\ openSeq < MaxSeq /\ Commit(openDispatches)
          /\ pc' = "throttle"
      BY <1>1 DEF StreamInv, Flush
    <3>. QED  BY <3>1, CommitFacts
  <2>1. front' = front /\ completedSeq' = completedSeq
    BY DEF Flush
  <2>2. TypeOK'
    <3>1. CountersOK'
      BY <2>0, <2>1
    <3>2. BuffersOK' /\ BlocksOK' /\ ThreadOK'
      BY <1>1, <2>0 DEF Flush
    <3>. QED  BY <3>1, <3>2
  <2>3. StreamInv'
    BY <1>1, <2>0, <2>2 DEF StreamInv, Flush
  <2>4. ThreadInv'
    BY <1>1, <2>0, <2>2 DEF StreamInv, ThreadInv, Flush
  <2>5. PoolInv'
    BY <1>1, <2>0, <2>2 DEF StreamInv, PoolInv, Flush
  <2>6. FreeIsSettled' /\ FenceCovers' /\ NoFailureLost'
    BY <1>1, <2>0, <2>2
       DEF StreamInv, ThreadInv, PoolInv, FreeIsSettled, FenceCovers, NoFailureLost, Flush
  <2>. QED  BY <2>2, <2>3, <2>4, <2>5, <2>6
<1>. QED  BY <1>1 DEF Flush

\* synchronize() commits the open buffer, if it has work, before it waits.
LEMMA SynchronizeKeeps == ASSUME IInv, NEW then \in {"sync", "empty"}, Synchronize(then) PROVE IInv'
<1>. USE StreamAssumption
       DEF IInv, TypeOK, CountersOK, BuffersOK, BlocksOK, ThreadOK, Seqs, Finished,
           open, gpu, pool, release
<1>1. CASE openDispatches # 0
  <2>0. /\ openSeq < MaxSeq /\ openSeq' = openSeq + 1 /\ openDispatches' = 0
        /\ hasOpenWork' \in BOOLEAN /\ ~hasOpenWork'
        /\ status' = [status EXCEPT ![openSeq] = "queued"]
        /\ handler' = [handler EXCEPT ![openSeq] = "due"]
        /\ pc' = "throttle"
    <3>1. /\ openDispatches \in Nat \ {0} /\ openSeq < MaxSeq /\ Commit(openDispatches)
          /\ pc' = "throttle"
      BY <1>1 DEF StreamInv, Synchronize
    <3>. QED  BY <3>1, CommitFacts
  <2>1. front' = front /\ completedSeq' = completedSeq
    BY DEF Synchronize
  <2>2. TypeOK'
    <3>1. CountersOK'
      BY <2>0, <2>1
    <3>2. BuffersOK' /\ BlocksOK' /\ ThreadOK'
      BY <1>1, <2>0 DEF Synchronize
    <3>. QED  BY <3>1, <3>2
  <2>3. StreamInv'
    BY <1>1, <2>0, <2>2 DEF StreamInv, Synchronize
  <2>4. ThreadInv'
    BY <1>1, <2>0, <2>2 DEF StreamInv, ThreadInv, Synchronize
  <2>5. PoolInv'
    BY <1>1, <2>0, <2>2 DEF StreamInv, PoolInv, Synchronize
  <2>6. FreeIsSettled' /\ FenceCovers' /\ NoFailureLost'
    BY <1>1, <2>0, <2>2
       DEF StreamInv, ThreadInv, PoolInv, FreeIsSettled, FenceCovers, NoFailureLost, Synchronize
  <2>. QED  BY <2>2, <2>3, <2>4, <2>5, <2>6
<1>2. CASE openDispatches = 0
  <2>0. /\ openSeq' = openSeq /\ openDispatches' = openDispatches /\ hasOpenWork' = hasOpenWork
        /\ status' = status /\ handler' = handler /\ pc' = "sync"
    BY <1>2 DEF Synchronize, Commit
  <2>1. front' = front /\ completedSeq' = completedSeq
    BY DEF Synchronize
  <2>2. TypeOK'
    <3>1. CountersOK'
      BY <2>0, <2>1
    <3>2. BuffersOK' /\ BlocksOK' /\ ThreadOK'
      BY <1>2, <2>0 DEF Synchronize
    <3>. QED  BY <3>1, <3>2
  <2>3. StreamInv'
    BY <1>2, <2>0, <2>2 DEF StreamInv, Synchronize
  <2>4. ThreadInv'
    BY <1>2, <2>0, <2>2 DEF StreamInv, ThreadInv, Synchronize
  <2>5. PoolInv'
    BY <1>2, <2>0, <2>2 DEF StreamInv, PoolInv, Synchronize
  <2>6. FreeIsSettled' /\ FenceCovers' /\ NoFailureLost'
    BY <1>2, <2>0, <2>2
       DEF StreamInv, ThreadInv, PoolInv, FreeIsSettled, FenceCovers, NoFailureLost, Synchronize
  <2>. QED  BY <2>2, <2>3, <2>4, <2>5, <2>6
<1>. QED  BY <1>1, <1>2

\* The buffers throttle_locked drops are the first ones in flight: the loop pops that
\* many from the front of in_flight_.
LEMMA DrainedIsPrefix ==
  ASSUME TypeOK, StreamInv
  PROVE  /\ Cardinality(Drained) \in Nat /\ front + Cardinality(Drained) <= openSeq
         /\ \A s \in front..(front + Cardinality(Drained) - 1) : s \in Drained
<1> DEFINE D == Drained  c == Cardinality(D)
<1>. USE StreamAssumption
<1>0. front \in Nat /\ openSeq \in Nat /\ 1 <= front /\ front <= openSeq /\ openSeq <= MaxSeq
  BY DEF TypeOK, CountersOK, BuffersOK, BlocksOK, ThreadOK, Seqs
<1>1. ASSUME NEW e \in front..openSeq, D \subseteq front..(e - 1)
      PROVE  c \in Nat /\ c <= e - front
  <2>1. IsFiniteSet(front..(e - 1)) /\ Cardinality(front..(e - 1)) = e - front
    BY <1>0, FS_Interval
  <2>2. IsFiniteSet(D) /\ c \in Nat /\ c <= Cardinality(front..(e - 1))
    BY <1>1, <2>1, FS_Subset, FS_CardinalityType
  <2>. QED  BY <2>1, <2>2
<1>2. D \subseteq front..(openSeq - 1)
  BY DEF Drained
<1>3. c \in Nat /\ front + c <= openSeq
  BY <1>0, <1>1, <1>2
<1>4. ASSUME NEW s \in front..(front + c - 1), s \notin D PROVE FALSE
  <2>1. s \in front..(openSeq - 1)
    BY <1>0, <1>3
  <2>2. D \subseteq front..(s - 1)
    BY <1>0, <1>4, <2>1 DEF Drained
  <2>3. c <= s - front
    BY <1>0, <1>1, <2>1, <2>2
  <2>. QED  BY <1>0, <1>3, <1>4, <2>3
<1>. QED  BY <1>3, <1>4

\* throttle_locked drops finished buffers and keeps the failure of any it drops.
LEMMA ThrottleKeeps == ASSUME IInv, Throttle PROVE IInv'
<1>. USE StreamAssumption
       DEF IInv, TypeOK, CountersOK, BuffersOK, BlocksOK, ThreadOK, Seqs, Finished,
           open, gpu, pool, release
<1>0. /\ Cardinality(Drained) \in Nat /\ front' = front + Cardinality(Drained) /\ front' <= openSeq
      /\ \A s \in front..(front' - 1) : s \in Drained /\ status[s] \in Finished
  <2>1. /\ Cardinality(Drained) \in Nat /\ front + Cardinality(Drained) <= openSeq
        /\ \A s \in front..(front + Cardinality(Drained) - 1) : s \in Drained
    BY DrainedIsPrefix
  <2>2. front \in Nat
    OBVIOUS
  <2>3. \A s \in Drained : status[s] \in Finished
    BY <2>2 DEF Drained
  <2>4. front' = front + Cardinality(Drained)
    BY DEF Throttle
  <2>5. front' <= openSeq /\ \A s \in front..(front' - 1) : s \in Drained
    BY <2>1, <2>4
  <2>. QED  BY <2>1, <2>3, <2>4, <2>5
<1>1. TypeOK'
  BY <1>0 DEF Throttle
<1>2. StreamInv'
  BY <1>0, <1>1 DEF StreamInv, Throttle
<1>3. ThreadInv'
  BY <1>0, <1>1 DEF StreamInv, ThreadInv, Throttle
<1>4. PoolInv'
  <2>1. lost => error' \/ \E s \in Seqs : s >= front' /\ status[s] = "failed"
    <3> SUFFICES ASSUME lost, ~error, NEW s \in Seqs, s >= front, status[s] = "failed", s < front'
                 PROVE  error'
      BY <1>0, <1>1 DEF PoolInv, Throttle
    <3>1. s \in Drained
      BY <1>0
    <3>. QED  BY <3>1 DEF Throttle, Failure
  <2>. QED  BY <1>0, <1>1, <2>1 DEF StreamInv, PoolInv, Throttle
<1>5. FreeIsSettled' /\ FenceCovers' /\ NoFailureLost'
  BY <1>1 DEF ThreadInv, FreeIsSettled, FenceCovers, NoFailureLost, Throttle
<1>. QED  BY <1>1, <1>2, <1>3, <1>4, <1>5

\* synchronize() returns when the last buffer has finished: nothing is in flight, and
\* every failure has been seen.
LEMMA SyncReturnKeeps == ASSUME IInv, SyncReturn PROVE IInv'
<1>. USE StreamAssumption
       DEF IInv, TypeOK, CountersOK, BuffersOK, BlocksOK, ThreadOK, Seqs, Finished,
           open, gpu, pool, release
<1>0. \A s \in Seqs : /\ s < openSeq => status[s] \in Finished
                      /\ refs[s] = {}
  BY DEF StreamInv, ThreadInv, SyncReturn, LastCompleted
<1>1. TypeOK'
  <2>1. /\ front' = openSeq /\ completedSeq' = openSeq - 1 /\ pending' = FALSE /\ error' = FALSE
        /\ pc' \in {"ready", "empty"} /\ after' = "return" /\ lost' \in BOOLEAN
    BY DEF SyncReturn
  <2>2. /\ place' \in [Blocks -> {"none", "free", "live", "deferred"}] /\ tag' \in [Blocks -> Nat]
    BY DEF SyncReturn, Free, Deferred
  <2>3. CountersOK'
    BY <2>1 DEF SyncReturn
  <2>4. BuffersOK'
    BY DEF SyncReturn
  <2>5. BlocksOK'
    BY <2>2 DEF SyncReturn
  <2>6. ThreadOK'
    BY <2>1 DEF SyncReturn
  <2>. QED  BY <2>3, <2>4, <2>5, <2>6
<1>2. StreamInv'
  BY <1>0, <1>1 DEF StreamInv, SyncReturn
<1>3. ThreadInv'
  BY <1>0, <1>1 DEF StreamInv, ThreadInv, SyncReturn
<1>4. lost' = FALSE
  <2>1. lost => error \/ Failure(front..(openSeq - 1))
    BY DEF StreamInv, PoolInv, Failure
  <2>. QED  BY <2>1 DEF SyncReturn
<1>5. PoolInv'
  BY <1>0, <1>1, <1>4 DEF StreamInv, ThreadInv, PoolInv, SyncReturn
<1>6. FreeIsSettled' /\ FenceCovers' /\ NoFailureLost'
  BY <1>0, <1>1, <1>4 DEF FreeIsSettled, FenceCovers, NoFailureLost, SyncReturn
<1>. QED  BY <1>1, <1>2, <1>3, <1>5, <1>6

\* The stream starts empty, every block with the device.
LEMMA Initially == Init => IInv
<1> SUFFICES ASSUME Init PROVE IInv
  OBVIOUS
<1>. USE StreamAssumption
<1>1. TypeOK
  <2>1. hasOpenWork \in BOOLEAN /\ ~hasOpenWork
    BY Zenon DEF Init
  <2>2. CountersOK
    BY <2>1 DEF Init, CountersOK, Seqs
  <2>3. BuffersOK /\ BlocksOK
    BY DEF Init, BuffersOK, BlocksOK, Finished
  <2>4. ThreadOK
    BY DEF Init, ThreadOK
  <2>. QED  BY <2>2, <2>3, <2>4 DEF TypeOK
<1>2. StreamInv
  BY DEF Init, StreamInv, Seqs, Finished
<1>3. ThreadInv /\ PoolInv /\ FreeIsSettled /\ FenceCovers /\ NoFailureLost
  BY DEF Init, ThreadInv, PoolInv, FreeIsSettled, FenceCovers, NoFailureLost
<1>. QED  BY <1>1, <1>2, <1>3 DEF IInv

\* Every step of the thread, the GPU and the handlers keeps IInv.
LEMMA StepKeeps == IInv /\ [Next]_vars => IInv'
<1> SUFFICES ASSUME IInv, [Next]_vars PROVE IInv'
  OBVIOUS
<1>1. CASE Program
  BY <1>1, AllocateKeeps, ReleaseKeeps, EncodeKeeps, FailOpenKeeps, FlushKeeps, SynchronizeKeeps
     DEF Program, Fence
<1>2. CASE Continue
  BY <1>2, ReleaseTagKeeps, ReleaseBlockKeeps, ThrottleKeeps, SyncReturnKeeps, EmptyCacheKeeps
     DEF Continue
<1>3. CASE Device
  BY <1>3, CompleteKeeps, HandlerStoreKeeps, HandlerReclaimKeeps DEF Device
<1>4. CASE UNCHANGED vars
  BY <1>4
     DEF vars, IInv, TypeOK, CountersOK, BuffersOK, BlocksOK, ThreadOK, StreamInv, ThreadInv,
         PoolInv, FreeIsSettled, FenceCovers, NoFailureLost, Finished, open, gpu, pool, release
<1>. QED  BY <1>1, <1>2, <1>3, <1>4 DEF Next

\* IInv holds in every state of every behaviour, whatever the constants.
THEOREM Invariance == Spec => []IInv
BY Initially, StepKeeps, PTL DEF Spec

\* A block that Pool may hand out again is touched by no dispatch still to run.
THEOREM ReuseIsSafe == Spec => []FreeIsSettled
BY Invariance, PTL DEF IInv

\* A host access let through without a sync, by fence() or by device_visible_, meets no
\* dispatch still to run.
THEOREM FencesCover == Spec => []FenceCovers
BY Invariance, PTL DEF IInv

\* A failure is thrown by a sync before anything can go by without one.
THEOREM FailuresSurface == Spec => []NoFailureLost
BY Invariance, PTL DEF IInv
=============================================================================
