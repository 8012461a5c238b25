# Verification of grad.cpp

TLA+ models of grad.cpp, the TLC runs that check them on small instances, and
theorems about them checked by TLAPS. Paths are those of the repository
(`src/training/trainer.cpp`, ...); PROJECT.json maps every definition to the lines
it stands for.

## 1. The system

grad.cpp trains GPT models from a C++ command line, on the CPU or on Apple GPUs.

| Part | State | Operations | Interacts with |
|---|---|---|---|
| Trainer (`training/trainer.cpp`, `cli/train.cpp`) | step, weights, optimizer, best loss; resume pair, `_best`, `_step_N`, `_final` files | train loop, evaluate, save_checkpoint, save_resume_state, resume | model, optimizer, loaders; signals; the file system |
| Supervisor (`train_supervised.sh`) | attempt counter, lock directory | take the lock, start the trainer, restart or stop | the trainer by exit status and files |
| Thread pool (`parallel.h`) | one job, a chunk counter, two condition variables | parallel_for, worker_loop, exit | every CPU kernel, the tokenizers |
| Metal stream and pool (`metal_backend.mm`, `metal_internal.h`) | open command buffer, buffers in flight, blocks and their tags | encode, commit, throttle, synchronize, allocate, release | the GPU and its completion handlers; tensors |
| Autograd (`variable.cpp`) | graph nodes, gradients, grad mode | ops, backward, release_graph, zeroGrad | trainer, layers, optimizer |
| Metal ops, kernels, graph | none of their own | GPU work and its encoding | stream |
| Tensor, BLAS | storage, shape, device_visible_ | arithmetic, host access behind a fence | pool, stream |
| Model and layers | parameters | forward | autograd |
| Checkpoint format (`gpt_model.cpp`) | file header, tensors, tokenizer trailer | save, load | trainer, CLI |
| Optimizer | moments, step count, schedule | step, clip, save_state, load_state | trainer |
| Data (`data/`) | token file, windows, epoch position | get_item, next_batch, reset | prepare, trainer |
| Tokenizers | merges, specials, ranks | train, encode, decode, save, load | prepare, CLI |
| Inference, text generation | KV cache, position | step, sample | CLI |
| CLI | none that lasts, but files | prepare, train, eval, generate, chat, bench, watch, presets | everything |
| Metrics, dashboard | append-only CSV | log, display | trainer, `grad watch` |
| Device, op_check | process-wide switches | set | tensors, autograd |

What makes them correct, and what is hard about it:

* **Trainer and supervisor.** A run may take days and die anywhere. The files must
  stay complete, a resume must never skip a step, and restarting must end with the
  final checkpoint. Hard: two files stand for one position, four file kinds, signals
  that are flags inside the loop and kills outside of it, failures of each write.
* **Thread pool.** A call must behave like a loop: each index once, everything done
  at the return, an exception passed on. Hard: fields of the job are read without a
  lock, workers may be late, wake-ups may be lost.
* **Metal stream.** A released block must not be handed out while queued work reads
  it, a host read must see the GPU's result, a failed buffer must be reported. Hard:
  completion handlers run late on their own threads between reads of unlocked state.
* **Autograd, layers, optimizer.** Gradients must be those of the loss although nodes
  are freed while the wave is passing, on both devices, and a resumed run must update as
  an uninterrupted one would. Hard: shared operands, diamonds, accumulation over batches,
  fused closures written by hand, every op twice, state that lives outside the weights.
* **Inference.** A session must compute what the trained model computes, and stop at its
  capacity. Hard: the model is written a second time, over cached, already turned keys.
* **Tokenizers.** Fast encoders must equal the merge order of training, chunks must give
  the ids of the whole. Hard: heaps with out-of-date entries, counts kept incrementally.
* **Data and command line.** Token ids must belong to the checkpoint that reads them and
  windows to the file. Hard: tokenizers, token files and checkpoints are files of their
  own, replaced one at a time, by commands in any order.

The hazards behind these, each at its line, are listed in PROJECT.json.

## 2. Modules

The files of a run (checked with TLC and, in part, proved):

* `AtomicProgress` - what checkpointing promises: one saved position, replaced
  atomically; a start continues from it; a deliverable only at the last step.
* `TrainerRun` - the training process and its files; implements `AtomicProgress`.
  `disk` holds the visible files, `tmp` the `.tmp` siblings. Weights are a record
  (run, set of optimizer steps that went into them, validation loss). `pc` says where
  `train()` is; a call of `save_checkpoint` (`ckptWrite`, `ckptRename`) or of
  `save_resume_state` (`modelWrite`, `stateWrite`, `modelRename`, `stateRename`) keeps
  its caller in `ctx`. Each write and rename is one action that may fail; `Crash` and
  `Signal` may strike between any two, or during a write, and leave a cut-off `.tmp`.
  Everything in memory is lost at the end of the process. A file that was renamed stays
  whole, which a power failure does not grant (nothing is flushed); checkpoints torn that
  way are in `Lineage` only. The samples `train` prints after the last write are left out.
* `Supervised` - extends `TrainerRun` with the attempt loop of the script, which sees
  the trainer's exit (`rc`) and files only. The user or cron starts it again.
  `SupervisedProofs` - theorems about it, the refinement of `AtomicProgress` included.
* `SupervisorLock` - the lock section of the script, one action per command, for
  several supervisors; `rm -rf` is an unlink and an rmdir. Pids are not reused.
  `SupervisorLockProofs` - theorems about it.
* `CheckpointFile` - `GPTModel::save` and `load` of format versions 1 and 2. A file is the
  sequence of its items; tensors have no names in it, so their order is all that tells
  one from another of the same shape.
* `TokenFile` - the split of a corpus, token files and their windows, `SpreadSubset`,
  the loader's batches of an epoch.
* `Lineage` - what the commands leave for each other on disk: the corpus, tokenizer
  files, token files and checkpoints of both tokenizer kinds. A tokenizer is what it was
  trained on (kind, text, part of the text, vocab), a token file says which tokenizer
  wrote it, and a checkpoint carries, beside what its file records, the set of
  tokenizers whose ids its weights have seen. `cmd` is the running command with what
  it has loaded; its `pc` says which of the steps of `train`, `prepare`, `eval` or
  `generate` is next. Users edit the corpus and delete tokenizer files at any time.
  A tokenizer loaded from its file is taken to be the one that was saved, which for the
  first kind is so unless a token was merged twice (section 3, `FilesReload`).
  `LineageProofs` - theorems about it, `CheckpointFile` and `TokenFile`.

The machine:

* `ParallelLoop` - what parallel_for promises, per caller: begin, run some indices
  that have not run yet, return (or throw) when all have.
* `ThreadPool` - callers, workers and the destructor, one action per critical section,
  atomic operation or run of a body; implements `ParallelLoop`. A sleeper on a
  condition variable is a thread at `sleep` or `sleepDone`; a notification moves those
  there are and is lost otherwise. `ThreadPoolProofs` - theorems about
  it, the refinement included.
* `MetalStream` - one encoding thread, blocks of one size, command buffers by their
  sequence number, a GPU that completes them in order, and one completion handler per
  buffer in two steps (store, reclaim) that may come at any later time. `Pool::release`
  is three steps, since it reads the stream's atomics without its lock. `visible` is
  `device_visible_` of the tensors in the blocks. `refs[s]` are the blocks dispatches of
  buffer `s` will still touch, `lost` whether a failure has still to be thrown; both
  exist for the properties. `MetalStreamProofs` - theorems about it.

Training (each extends the one before, `Training` composes them):

* `Tensors` - shapes, broadcasting, products as views over flat buffers, softmax.
* `Layers` - every differentiable op: what it computes (`Output`), what its closure
  keeps (`Saved`), what the closure adds to each operand's gradient (`Contribution`),
  and which operands it writes (`Written`). `dev` picks the Metal version where it
  differs: fused cross entropy, products over flattened rows, positions, embeddings.
* `Model` - the program of ops a forward pass issues, for both architectures, and the
  list of parameters.
* `Autograd` - the graph: recording, the topological walk, the wave that runs closures
  and frees nodes, accumulation, release, `NoGradGuard`.
* `Optimizer` - AdamW with its state; `Inference` - `InferenceSession`, the model
  written a second time for one row at a time.
* `Training` - `training_step` over micro-batches, checkpoint, resume in a later
  process, then generation; and, apart from models, graphs of freely chosen ops.
  `AutogradProofs` - theorems about `Training` that rest on its graph.

Text:

* `Pretokenize` - the hand-written scanner over UTF-8; `PatternEnd` is the GPT-2 pattern
  it stands for, written down as the pattern is read.
* `ByteBpe` - learning merges with a lazily cleaned heap, both encoders of a piece, the
  bounded cache, chunked encoding, the tokenizer file and its fingerprint.
  `ByteBpeProofs` - theorems about it and `Pretokenize`.
* `BpeV1` - the first tokenizer, with its pair counts kept as the code keeps them: the
  joins of a merge in the order of the scans (`Joins`), each moving four counts (`Recount`).
* `Generation` - `TextGen` on a session: penalty, greedy choice, top-k, top-p, the draw.
  `GenSpec` is one call with any prompt; `TextPath` starts it with the ids it encoded.
* `TextPath` - composes them: train a tokenizer of either kind, encode, generate.
  `TextPathProofs` - theorems about it and its parts.

`MCTraining`, `MCLineage` and `MCTextPath` give the constants values that a .cfg cannot.

Definitions commented "Slip" are variants of the definition after them, each with one
plausible bug; no specification uses them. They document which mistake each property
is able to catch.

**Numbers.** A float in `Tensors` is a pair over the field of 251 elements: a value and
its derivative along one fixed direction of the parameters. The forward code run on
pairs gives exact derivatives, against which the hand-written backward code is held.
exp, tanh, 1/sqrt and log-sum-exp are arbitrary functions with their true rule of
differentiation, so a formula that holds here holds for structural reasons and not by
numerical luck; conversely a wrong formula that agrees on all of the many values of a
run is very unlikely. The order of float additions, rounding, NaN, overflow, epsilons
and the kernels' own reduction order are not modelled.

## 3. Runs

| Run | Instance | What it shows |
|---|---|---|
| `supervised` | 6 steps, eval every 2, checkpoint every 3, 2 losses, 4 runs, 3 restarts, 2 faults, 1 signal | no step skipped, files complete, `_best` backs the bar, a pause is saved, the two-file save is atomic; restarts are earned; delivery under fairness unless a pause falls in the last step |
| `thread_pool` | 2 callers, 2 workers, ranges of 3, grain 0 and 2, 2 calls, 1 throw | refinement of the loop, no stale job, calls and the exit terminate |
| `supervisor_lock` | 3 supervisors, 2 starts each, 2 kills, no overlapping starts | one at a time; stale locks are taken over |
| `metal_stream` | 2 blocks, 2 dispatches per buffer, 2 in flight, 4 buffers, 1 fault | reuse is safe, fences cover (reused tensors too), failures surface, calls return |
| `training` | 2 blocks, width 4, 2 heads, vocab 3, 2 windows of 2 in a batch, 1 crash; the programs of `MCTraining` on both devices | backward is the derivative, memory, frozen parameters, no peeking, CPU = Metal, exact resume, session = forward pass |
| `text_path` | all texts up to 6 bytes over small alphabets, rows of up to 12 equal bytes; context 3, 2 new tokens | merges, encoders, chunks, pattern, tokenizer files saved and loaded, both tokenizers' round trips, ends and samples of a generation |
| `lineage` | 2 texts, 2 kinds, 2 vocab sizes, 3 commands, 1 edit, 1 removal, 1 crash or power failure | ids always belong to the checkpoint's tokenizer, held-out text stays out, damaged files are refused |

Notes on single properties:

* `WavePreserves` (`training`) is the invariant behind backpropagation: at every step of
  every wave, the gradients gathered so far account for the whole derivative of the
  losses since zero_grad. It is a state invariant, so a closure that is run too early,
  a contribution that is lost and a wrong formula are all seen at the step they occur.
* `NoPeeking` recomputes each op with everything a position may not see blanked, and
  compares its row. `DevicesAgree` compares both devices op by op, attention apart, whose
  Metal path is the same products over batched operands; both devices run whole models
  under `WavePreserves`.
* `ResumeIsExact`: a loader starts a new epoch in a new process, on purpose. The model
  makes the windows drawn a function of the place in the run, so that what remains to
  differ is what the checkpoint keeps. Programs with dropout do not resume: a new
  process draws its masks from other streams.
* `SpeaksOneTokenizer` and `FedItsOwnTokens` have two exceptions, found by TLC and
  accepted by the code: a checkpoint that records no tokenizer is used with a warning
  (`sure`), and token files that outlive the tokenizer file beside them are believed to
  be its successor's (`orphaned`).
* `HeldOut` after a crash between the two token files compares windows of two texts.
* `FilesReload`: what a byte-level tokenizer file loads as is what was saved, identity
  included. The first tokenizer's gives its vocabulary and merges back, and its ids mean
  what they meant, but its identity may change: `train()` keeps both ids of a token
  that was merged twice (`bpe_tokenizer.cpp:97-98`), the file lists the later one only,
  `load()` makes the table of ids anew from the file (`:398`), and the fingerprint is one
  of that table (`tokenizer.cpp:39-52`). The property says that this happens exactly when
  a token was merged twice; "aaaa" with four merges is such a case of the run. In effect a
  `train` that also trained its tokenizer records an identity the file will not show
  again (`cli/common.cpp:210-216` saves and does not reload; `cli/train.cpp:304`), so
  later commands refuse its checkpoints (`cli/common.cpp:263`). From the first load on
  the identity stays.

Five runs are expected to fail; each contradicts a sentence in the repository.

* `best_regresses`: a crash between the rename of `_best.bin` and the save of the
  resume state restores an older bar, and a worse model then replaces the better one.
* `fresh_over_old`: a run from scratch keeps the previous run's resume state until its
  own first save; a crash between the two renames of that save pairs new weights with
  the old run's step, and a resume skips steps. `supervised` and the theorems therefore
  assume `FreshOverOld = FALSE`; the supervisor script itself satisfies that.
* `paused_last_step`: an interrupt during the last step saves "all steps done" without
  writing `_final.bin`; later starts say there is nothing to resume.
* `supervisor_race`: a supervisor clears a lock whose owner has not written its pid yet.
* `ids_in_vocab`: the v1 tokenizer trained on a word like `aaaa` keeps counts of pairs
  that no word holds, merges two pairs into the same token and then emits an id that is
  not below `vocab_size()`, which `tokenizer.h:29` promises.

**Bounds.** Six steps hold three saves of the resume pair (evaluations at 2 and 4, and
the end), one step with a checkpoint and no evaluation and one without either; with two
faults a save can fail or crash, be retried after a resume, and fail again. Two losses
are enough to improve or not. Three items over two workers and a caller make more
threads than chunks at grain 2 (and the second call of the bound meets workers that are
late from the first); at grain 0 each index is a chunk. Four command buffers are more
than are ever in flight, so throttling happens with handlers of old buffers still due.
In `training`, two blocks make residual streams with several consumers, three windows in
batches of two make a short batch and a second epoch, three steps of two micro-batches
on the small model put a crash before, between and after two updates with momentum; the
free graphs of three ops include the diamond, an operand used twice, a dead branch and
nested guards. In `text_path`, six bytes over three symbols (and twelve of one) hold
overlapping repeats and ties; pieces longer than three bytes take the heap; the cache
holds two pieces, so it is emptied within a prompt. In `lineage`, three commands are
prepare, train and a use, a resume or a warm start; a cut falls before the last tensors
or exactly before the trailer.

**Fairness.** `supervised`: the script, its user and the trainer keep going; faults and
signals are never forced. `thread_pool`: the operating system runs each thread that can
run; calls, throws, spurious wakes and the exit are not forced. `supervisor_lock`: a
started script continues. `metal_stream`: a call in progress continues and the GPU and
its handlers make progress (Metal times out a hung buffer). The other runs state safety
only.

**Deadlock** is checked in `supervised` and `metal_stream`. In the others the bounded
system really stops: all starts, calls, kills, ops, tokens or commands used up.

## 4. Proofs

The theorems hold for every value of the constants that meets the assumptions in the
modules, which TLC evaluates in each run: `RunAssumption`, `StreamAssumption`,
`LockAssumption`, `PoolAssumption`, `LineageAssumption`, `GenerationAssumption`,
`ByteBpeAssumption` (specials are distinct and not empty, texts are bytes),
`ProgramsAssumption` (an op of a program reads leaves and earlier results only), and
`NullAssumption` (null values are no records). Each invariant is a part of an inductive
one (`IInv`, `GenInv`, `LearnInv`, `EncodeInv`), which TLC confirmed before it was
proved; there is one lemma per action.

**`SupervisedProofs`**, first about the trainer alone, for every number of steps, interval,
number of losses, runs, faults and signals, under the one hypothesis `~FreshOverOld`, of
which `fresh_over_old` is the counterexample. `TypeCorrect` (`TypeOK`), `NothingSkipped` (`NoStepSkipped`),
`PairSafe` (`PairReplays`), `FinalComplete` (`FinalIsComplete`). None of these is
inductive alone: that a rename installs the right weights depends on what an earlier
action of the same call left in `tmp`, and that the pair is consistent after only one
of two renames depends on the process being at or past the position on disk. `IInv`
adds `PhaseInv` (which call is running for whom, where in the loop), `RunInv` (the
state on disk belongs to the newest run and is behind the process) and `TmpInv` (what
is about to be renamed is what the process wrote). On these rest, and then hold of the
trainer under the script too:

* `SavesAreAtomic` (`ImplementsAtomicProgress`): only the second rename of a save moves
  the abstract saved position, every other step stutters or is a step, a start or an end
  of the abstract run. `RunInv` is what makes the save a move forward.
* `PauseSaves` (`PausedIsSaved`): between the interrupt seen after a step and the exit,
  the process changes neither weights nor step.
* `BarBacked` (`BestBarBacked`): `BarInv` says that the bar in memory is never above the
  one saved, and that a model on its way to `_best.bin` is better than the bar.
* `SupervisedSafety`, `SupervisedSavesAreAtomic`, `SupervisedPauseSaves`: the same of
  `SupSpec`, without the hypothesis: the script resumes whenever there is a state.
* `RestartsAreEarned` (`AttemptsEarned`), by `AttemptInv`: an attempt that ended without
  a reason to stop was ended by a fault or a signal that no restart has answered yet.
* `DeliveredForGood`: once `_final.bin` of the last step is there it stays, whatever
  restarts; the safety half of `EventuallyDelivered`.

**`MetalStreamProofs`**, for any number of blocks, buffers and dispatches: `ReuseIsSafe`
(`FreeIsSettled`), `FencesCover` (`FenceCovers`), `FailuresSurface` (`NoFailureLost`).
`StreamInv` says which buffers can still touch blocks and that what the stream has
dropped or counted has finished; `ThreadInv` that the unlocked reads of `Pool::release`
remain bounds until they are used; `PoolInv` that a deferred block's tag covers its
dispatches. Finishing is stable, so a handler that comes late does no harm.

**`SupervisorLockProofs`**: `OneRuns` (`SingleInstance`), for any number of supervisors,
starts and kills, if no two take the lock at the same time (`~Overlap`; `supervisor_race`
is the counterexample). `RunnerHolds` says that the pid in the lock is that of the one
that runs, `ClearsAlone` that nobody runs while another
removes the lock or has not written its pid.

**`ThreadPoolProofs`**, for any number of workers, callers, calls and chunks: `BodyIsLive`
(`NoStaleBody`) and `JobHolds` (`JobIsStable`). `CountInv` says that `workers_done_`
counts the workers through with the posted job, whence a call that returns has left no
worker behind. `PoolImplementsLoop` (`ImplementsLoop`): chunks claimed lie below the
counter and apart (`ChunkInv`), each runs once, and none is missed unless a body threw,
which is recorded (`RanInv`).

**`LineageProofs`**. First the files, for every architecture and number of layers:

* `RoundTrip`, `RoundTripV1`: `load()` of what `save()` wrote is the model saved, in
  version 2 of the format, with a tokenizer recorded or none, and in version 1.
  `CutIsSafe`, `CutV1IsSafe`: of a file cut short anywhere it is nothing, or, cut exactly
  before the trailer, the model without its tokenizer.
* `SpreadInRange`, `SpreadIsInOrder`: the windows `SpreadSubset` picks are windows,
  distinct and in order; `WindowsAreInside`: every window of an opened file lies inside
  it; `SplitIsInside`: the split leaves tokens on the held-out side. The prover knows
  little of division, so quotient and remainder are taken from one lemma, `Division`.

Then the commands, for any texts, vocab sizes, windows and number of commands, edits
and crashes:

* `OneTokenizer` (`SpeaksOneTokenizer`) and `HeldOutStays` (`HeldOut`). `FilesInv` says
  that token files hold the parts of their text and belong to the tokenizer beside them,
  `PairInv` that both are of one text but inside a prepare or after a crash, `CmdInv` and
  `DataInv` that what a command has loaded is still what is on disk. The exceptions are
  those of section 3: a checkpoint that records no tokenizer or has such an ancestor
  (`sure`), token files that outlived their tokenizer (`orphaned`), windows of two texts
  after a crash.
* `FedRight` (`FedItsOwnTokens`), with the same two about tokenizers: besides, a checkpoint that loads has the vocab it was
  saved with, by the theorems about files.
* `LoadsWholeOrNot` (`LoadedWhole`), `ReadsOnlyTokens` (`ReadsInside`),
  `EvaluationSpreads` (`EvalSpreads`): the arithmetic above, of the files the commands
  find, torn ones included. A checkpoint cut exactly before its trailer does load, whole
  but without a tokenizer recorded.

**`AutogradProofs`**, for every program, number of ops and order of free ones:

* `SearchFinds`: the depth-first search of `backward` lists the root and every node it
  reaches, each once, a node after its operands. The search is a recursion over the
  operands of a node and over its place in the graph; so is the proof.
* `NoFrozenGrad` (`FrozenHasNoGrad`): nothing without `requires_grad` ever gets a
  gradient, over any sequence of forward passes, guards, backward passes, releases,
  updates, saves and resumes.
* `RetiresOnTime` (`RetiredOnTime`): no closure still to run reads a tensor already freed,
  and a finished wave leaves tensors only in the loss, the leaves and what the loss does
  not depend on. `GraphInv` says that operands precede their results and that what is
  left to visit comes in the order of the search.

**`ByteBpeProofs`**, for every text, list of specials, number of merges, size of a short
piece, limit of the cache, and any sets of letters and numbers:

* `LearningIsTrue`: `LearnInv` says that the pair counts are those of the corpus
  (`PairsCounted`), that each pair has an entry with its present count in the heap
  (`HeapComplete`), that a pair's list misses none of its words (`WhereComplete`), and
  that a word is what the scan makes of its bytes with the merges so far (`IsCorpus`).
  `LearningIsGreedy` (`GreedyChoice`) follows: `HeapLower` is a strict total order, so
  the first entry that is not out of date is the most frequent pair. The last part is
  inductive by `MergeInIs`: one pass over a word is the scan with one merge more.
  `ScanAgrees` states it of the words.
* `EncodingIsTraining` (`EncodersAgree`): the encoder with the heap does what the scan
  does. Its loop keeps that the linked list threads the symbols that are left, and that
  each pair a merge applies to has a candidate in the heap that is not stale, so the
  first such candidate is the scan's choice (`HeapInv`). Candidates plus twice the
  symbols drop with every turn, whence the heap is empty in the end.
* `MatcherIsPattern` (`MatchesPattern`): at each place of a text the scanner ends the
  piece where the pattern does.
* `CacheChangesNothing` (`CacheIsTrue`), by `EncodingIsTrue`: the ids put out, and those
  of what is left, are the ids of the text without a cache (`EncodeInv`). Pieces and
  specials spell the text, and merges keep what symbols spell, so ids decode to the text.
* `FilesLoadAsSaved` (`FileIsExact`): each field of a file is where `load` looks for it, and
  each is checked against another one or covered by the fingerprint.

**`TextPathProofs`** goes on from there, for either tokenizer and every size of a chunk, and
for every prompt, context, number of tokens, penalty window and filter of a reply:

* `ChunksChangeNothing` (`ChunksAgree`). A window on a text is decoded as the text is, but
  for a code point it cuts off; a cut stands after a newline that follows no space, and
  before no space, so no run, contraction or code point goes on over it, a piece that
  begins before it ends there at the latest, and no special lies across.
* `StopsInTime` (`FillsOrStops`): a call ends after `max_tokens` or one token past the
  context, whichever comes first, and fails on its prompt only. That needs every token
  picked to be an id (`GoodPick`), down to argmax and the draw, since the session refuses
  anything else, and `TokensInv`: the tokens are the prompt and what was shown, and those
  fed fit the context.
* `FiltersHold` (`SamplesKept`): what is sampled was kept by top-k and top-p, and is the
  best if k is 1 or the choice greedy, but for a draw of exactly 0, which gives id 0, and
  one past the rounded sum. Every rank is taken by one id (`EveryRankIsTaken`, by the
  pigeonhole principle), so both filters keep some id; the first cumulative sum that
  reaches a draw is that of an id kept.
* `OneOfTwo`: a behaviour of `TextSpec` is one of the byte-level tokenizer (`Spec`) or one
  of the first, which keeps `V1Inv`: each word of the corpus holds what the merges make of
  it (`Words1`), the id of a token is spelled as the token, with ids from 0 on without a gap
  (`Tables1`), and the vocabulary has every letter and every merged token (`Known1`). That
  says nothing about the pair counts, which may be off. A merge keeps it since a word still
  spells its bytes (`MergedMade`) and the next id is not taken yet; that the new token may
  be an old one under a new id, as `ids_in_vocab` shows, does no harm.
* `EncodingIsAsTrained` (`EncodingFollowsTraining`) and `TextComesBack` (`RoundTrips`)
  follow for both tokenizers. `BesideTheFirst` carries the theorems of `Spec` over.
* `EitherFileLoads` (`FilesReload`). `save` of the first tokenizer lists the vocabulary in
  some order, here that of ids (`OrderLists`), and `load` finds each field at an even or odd
  place of its section (`Saved1`). The table `load` makes anew (`LoadedTable`) spells every
  id that encoding can give as before (`DecodesAlike`), and is the old one exactly if no
  token was merged twice (`TableIsKept`). For that `V1Inv` holds `Rows1` too: the first
  part of the table has single symbols, each once, then comes one id for each merge.
* `RepliesAreCalls`: `TextSpec` implements `GenSpec`. What either tokenizer encodes, a prompt
  with letters it does not know included, is a sequence of ids, so `RepliesEnd`
  (`FillsOrStops`, `SamplesKept`) holds of every reply.

The library's induction theorems take an operator, which the prover cannot instantiate.
Where an induction over data is needed (`Flattens` for the layout of a checkpoint,
`InTurn` and the search for the graph, `AddsUp` and `Penalizes` for scores, `Gathers` for
loops over a text), the modules use a lemma about sets, `Induction`, from the fact that <
on the naturals is well-founded; a recursive function is first shown to exist.

Model-checked only:

* all liveness (`EventuallyDelivered`, `EveryCallReturns`, `ExitTerminates`,
  `CallsReturn`, `StaleLockIsCleared`), outside what the prover can do;
* the numbers of `Training` (`WavePreserves`, `NoPeeking`, `DevicesAgree`,
  `DecodesAsTrained`): identities of sums of products over buffers of arbitrary shapes,
  one for each op, which the provers do not find; TLC evaluates them on random values;
* `ResumeIsExact`, which besides needs that a step begins an epoch: the loader starts a
  new one in a new process.

## 5. What is not modelled

* Floating point as such (see Numbers), kernel launches, thread-group reductions, device
  setup, the synchronous sgemm offload below a size, allocation and size limits.
* Random initial weights, the windows and seeds drawn, the shape of the cosine schedule:
  arbitrary.
* Argument parsing, formatting, presets as numbers, `bench`, `watch`, the metrics log and
  the dashboard; `op_check`, off by default.
* Tokenizers: the generated Unicode tables (two constants), the limit on what a cache
  entry may hold, special tokens added after training, texts above the sizes of a run.
* Two commands on one corpus at once, and a token file overwritten while another process
  has it mapped; trainers that outlive a killed supervisor; reuse of pids; a second
  thread releasing Metal blocks (the code has one).

## 6. Plan

The components of the inventory are modelled as far as section 5 says. What is left:

1. `WavePreserves` from one hypothesis on each op (its closure is the transpose of its
   derivative), which TLC checks: the bookkeeping of the wave is then what is proved.
2. Two trainers on one pair of files, as a composition of `SupervisorLock` and
   `TrainerRun`.
3. The theorems about `TrainerRun` when a run from scratch starts over an older run's
   files: which of them hold again from its first completed save on.
