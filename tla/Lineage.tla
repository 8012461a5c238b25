------------------------------ MODULE Lineage ------------------------------
(***************************************************************************)
(* What the commands of grad leave for each other on disk: tokenizer files *)
(* (named by kind and requested vocab), token files (train and val),       *)
(* checkpoints (one resume and one final per tokenizer kind) of one corpus *)
(* and preset. prepare, train, generate, chat and eval run one at a time;  *)
(* between and during them the corpus is edited, a tokenizer file is       *)
(* deleted, a command dies in the middle of a file, the power fails.       *)
(***************************************************************************)
EXTENDS CheckpointFile, TokenFile

CONSTANTS
  Texts,          \* contents the corpus file may have
  Large,          \* those above kTokenizerSampleBytes
  Tokens,         \* [Texts -> Nat], tokens in a text
  Learnable,      \* [Texts -> Nat], the largest vocab its merges reach
  Vocabs,         \* vocab sizes asked for
  Cuts,           \* items of a checkpoint file a power failure may leave
  Preset,         \* the preset's vocab_size
  SeqLen,         \* training window
  PromptLen,      \* window of a held-out prompt
  MaxCommands, MaxEdits, MaxRemovals, MaxCrashes,
  None, Torn

Kinds == {"v1", "v2"}
ASSUME LineageAssumption ==
  /\ Large \subseteq Texts /\ Preset \in Vocabs /\ Vocabs \subseteq Nat \ {0}
  /\ SeqLen \in Nat \ {0} /\ PromptLen \in Nat \ {0} /\ Cuts \subseteq Nat
  /\ \A t \in Texts : Tokens[t] \in Nat /\ Learnable[t] \in Vocabs
  /\ \E t \in Texts : t \notin Large
  /\ None # Torn

VARIABLES
  corpus,     \* the text in the corpus file
  tok,        \* [Kinds -> [Vocabs -> None, Torn or a tokenizer]]
  bin,        \* [Kinds -> [Vocabs -> ["train", "val" -> None or a token file]]]
  ckpt,       \* [Kinds -> ["resume", "final" -> None or a checkpoint]]
  cmd,        \* the command that is running
  commands, edits, removals, crashes,
  orphaned    \* a tokenizer file was lost while token files written with it stayed

counts == <<commands, edits, removals, crashes, orphaned>>
vars == <<corpus, tok, bin, ckpt, cmd, counts>>

\* A tokenizer is what it was trained on; identity() tells two of them apart.
Tokenizer(kind, text, part, vocab) ==
  [kind |-> kind, text |-> text, part |-> IF text \in Large THEN part ELSE "all",
   vocab |-> IF vocab < Learnable[text] THEN vocab ELSE Learnable[text]]

\* A checkpoint: what its file was written from (fp: the tokenizer recorded), how
\* much of the file is left, and what no file says: the tokenizers its weights were
\* trained with (speaks), whether every ancestor recorded one (sure), and whether
\* its run is over.
Items == 31        \* what save() writes for one layer with a fingerprint
Saved(id, speaks, sure, done) ==
  [version |-> 2, vocab |-> id.vocab, fp |-> id, cut |-> Items, torn |-> FALSE,
   speaks |-> speaks, sure |-> sure, done |-> done]

\* The model a file of this version is written from, each parameter holding itself.
Model(version, vocab) ==
  LET m == [arch |-> "gpt2", dims |-> [vocab |-> vocab, d_model |-> 4, layers |-> 1,
                                       heads |-> 2, max_len |-> 8]]
  IN  [arch |-> m.arch, dims |-> m.dims, fp |-> IF version = 1 THEN NoFingerprint ELSE [its |-> "own"],
       data |-> [p \in ToSet(Params(m)) |-> p]]

\* What GPTModel::load makes of each file a save and a power failure may leave.
LoadTable ==
  [version \in {1, 2} |-> [vocab \in Vocabs |-> [cut \in Cuts \cup {Items} |-> [torn \in BOOLEAN |->
     LET m == Model(version, vocab)
     IN  Load(Cut(IF version = 1 THEN SaveV1(m) ELSE Save(m), cut, torn))]]]]

\* The checkpoint c as a command reads it: None when load() throws.
Read(c) ==
  LET m == LoadTable[c.version][c.vocab][c.cut][c.torn]
  IN  IF m = Refused THEN None
      ELSE [vocab |-> m.dims.vocab, fp |-> IF m.fp = NoFingerprint THEN m.fp ELSE c.fp,
            speaks |-> c.speaks, sure |-> c.sure /\ m.fp # NoFingerprint]

Idle == [op |-> "none", pc |-> "none", kind |-> None, vocab |-> 0, text |-> None, tok |-> None,
         start |-> None, tr |-> None, va |-> None]

\* A checkpoint from before tokenizer v2: format 1, no fingerprint.
First == CHOOSE t \in Texts : t \notin Large
Old == LET id == Tokenizer("v1", First, "all", Preset)
       IN  [version |-> 1, vocab |-> id.vocab, fp |-> NoFingerprint, cut |-> Items,
            torn |-> FALSE, speaks |-> {id}, sure |-> FALSE, done |-> TRUE]

Init ==
  /\ corpus = First
  /\ tok = [k \in Kinds |-> [v \in Vocabs |-> None]]
  /\ bin = [k \in Kinds |-> [v \in Vocabs |-> [s \in {"train", "val"} |-> None]]]
  /\ \E f \in {None, Old} :
       ckpt = [k \in Kinds |-> [resume |-> None, final |-> IF k = "v1" THEN f ELSE None]]
  /\ cmd = Idle /\ commands = 0 /\ edits = 0 /\ removals = 0 /\ crashes = 0
  /\ orphaned = FALSE
-----------------------------------------------------------------------------
Prepared(k, v) == \A s \in {"train", "val"} : bin[k][v][s] # None
HasArtifacts(k, v) == tok[k][v] # None \/ Prepared(k, v)

\* choose_tokenizer: what the checkpoint m records (None: no checkpoint), else the
\* flag, else v1 for a checkpoint that records nothing, else what is on disk. The
\* empty set is an error.
Choose(v, flag, m) ==
  IF m # None /\ m.fp # NoFingerprint
  THEN IF flag \in {None, m.fp.kind} THEN {m.fp.kind} ELSE {}
  ELSE IF flag # None THEN {flag}
  ELSE IF m # None THEN {"v1"}
  ELSE IF \A k \in Kinds : HasArtifacts(k, v) THEN {}
  ELSE IF HasArtifacts("v1", v) THEN {"v1"} ELSE {"v2"}

\* resumable_kind: the lineage that left resume state, if there is exactly one.
Resumable == {k \in Kinds : ckpt[k].resume # None /\ \A j \in Kinds \ {k} : ckpt[j].resume = None}

Begin(op, k, v, start) ==
  /\ cmd = Idle /\ commands < MaxCommands /\ commands' = commands + 1
  /\ cmd' = [Idle EXCEPT !.op = op, !.pc = "tok", !.kind = k, !.vocab = v,
                         !.text = corpus, !.start = start]
  /\ UNCHANGED <<corpus, tok, bin, ckpt, edits, removals, crashes, orphaned>>

Slots == {s \in Kinds \X {"resume", "final"} : ckpt[s[1]][s[2]] # None}

Prepare == \E k \in Kinds, v \in Vocabs : Begin("prepare", k, v, None)

TrainFresh ==
  \E flag \in Kinds \cup {None} : \E k \in Choose(Preset, flag, None) : Begin("train", k, Preset, None)

\* `train ... resume`: the lineage, its checkpoint, and then the tokenizer. A run
\* that is over has nothing to resume.
TrainResume ==
  \E flag \in Kinds \cup {None} : \E k \in (IF flag = None THEN Resumable ELSE {flag}) :
    LET c == ckpt[k].resume IN
      /\ c # None /\ ~c.done /\ Read(c) # None
      /\ Choose(Preset, k, Read(c)) # {}
      /\ Begin("train", k, Preset, Read(c))

\* `train ... <checkpoint>`: a warm start, in the lineage the checkpoint records.
TrainWarm ==
  \E s \in Slots, flag \in Kinds \cup {None} :
    LET m == Read(ckpt[s[1]][s[2]]) IN
      /\ m # None
      /\ \E k \in Choose(Preset, flag, m) : Begin("train", k, Preset, m)

\* generate and chat, and eval, which needs token files: the vocab is the checkpoint's.
Infer ==
  \E s \in Slots, flag \in Kinds \cup {None}, op \in {"generate", "eval"} :
    LET m == Read(ckpt[s[1]][s[2]]) IN
      /\ m # None
      /\ \E k \in Choose(m.vocab, flag, m) : /\ op = "eval" => Prepared(k, m.vocab)
                                             /\ Begin(op, k, m.vocab, m)
-----------------------------------------------------------------------------
Ends == cmd' = Idle
Files == <<corpus, ckpt>>

\* Slip: any tokenizer of the right size will do.
MatchesBySize(start, t) == start = None \/ start.vocab = t.vocab

\* check_tokenizer_matches: a checkpoint that records no tokenizer only warns.
Matches(start, t) == start = None \/ start.fp \in {NoFingerprint, t}
SameVocab(start, t) == start = None \/ start.vocab = t.vocab

\* What generate, chat and eval ask of the tokenizer they found; train asks later.
Accepts(t) == \/ cmd.op \in {"prepare", "train"}
              \/ Matches(cmd.start, t) /\ (cmd.op = "eval" \/ SameVocab(cmd.start, t))

\* Where the text a tokenizer learns from ends: v1 samples only in prepare.
Part(op, k) == IF k = "v1" /\ op # "prepare" THEN "all" ELSE IF k = "v1" THEN "v1sample" ELSE "v2sample"

\* load_or_train_tokenizer, load_existing_tokenizer, load_tokenizer_for_inference:
\* a file there is loaded or refused; without one a tokenizer is trained, except
\* beside token files, for an eval, or for a large corpus at inference.
FindTokenizer ==
  /\ cmd.pc = "tok"
  /\ LET file == tok[cmd.kind][cmd.vocab] IN
       \/ /\ file \notin {None, Torn}
          /\ IF Accepts(file) THEN cmd' = [cmd EXCEPT !.tok = file, !.pc = "data"] ELSE Ends
          /\ UNCHANGED tok
       \/ file = Torn /\ Ends /\ UNCHANGED tok
       \/ /\ file = None /\ cmd.op = "eval"
          /\ cmd' = [cmd EXCEPT !.pc = "data"] /\ UNCHANGED tok
       \/ /\ file = None /\ cmd.op # "eval"
          /\ IF \/ cmd.op = "train" /\ Prepared(cmd.kind, cmd.vocab)
                \/ cmd.op = "generate" /\ cmd.text \in Large
             THEN Ends /\ UNCHANGED tok
             ELSE /\ tok' = [tok EXCEPT ![cmd.kind][cmd.vocab] = Torn]
                  /\ cmd' = [cmd EXCEPT !.pc = "saveTok"]
  /\ UNCHANGED <<Files, bin, counts>>

\* The rest of the tokenizer file, written in place.
SaveTokenizer ==
  /\ cmd.pc = "saveTok"
  /\ LET t == Tokenizer(cmd.kind, cmd.text, Part(cmd.op, cmd.kind), cmd.vocab) IN
       /\ tok' = [tok EXCEPT ![cmd.kind][cmd.vocab] = t]
       /\ IF Accepts(t) THEN cmd' = [cmd EXCEPT !.tok = t, !.pc = "data"] ELSE Ends
  /\ UNCHANGED <<Files, bin, counts>>

\* Slip: the training part takes the first held-out token too.
OverlappingPart(t) ==
  Written(cmd.tok.vocab, [text |-> t, tok |-> cmd.tok], 0, SplitAt(Tokens[t]) + 1)

\* The two parts of the tokens of text t.
TrainPart(t) == Written(cmd.tok.vocab, [text |-> t, tok |-> cmd.tok], 0, SplitAt(Tokens[t]))
ValPart(t) == Written(cmd.tok.vocab, [text |-> t, tok |-> cmd.tok], SplitAt(Tokens[t]),
                      Tokens[t] - SplitAt(Tokens[t]))

\* prepare's two token files, each truncated and rewritten in place. What is on
\* disk until the file is closed: nothing, or the header and some of the tokens.
Truncate(s, part) ==
  \E held \in {-1, part.count \div 2} :
    bin' = [bin EXCEPT ![cmd.kind][cmd.vocab][s] = [part EXCEPT !.held = held]]
Complete(s, part) == bin' = [bin EXCEPT ![cmd.kind][cmd.vocab][s] = part]

PrepareWrites ==
  /\ cmd.op = "prepare"
  /\ \/ cmd.pc = "data" /\ Truncate("train", TrainPart(cmd.text)) /\ cmd' = [cmd EXCEPT !.pc = "train"]
     \/ cmd.pc = "train" /\ Complete("train", TrainPart(cmd.text)) /\ cmd' = [cmd EXCEPT !.pc = "split"]
     \/ cmd.pc = "split" /\ Truncate("val", ValPart(cmd.text)) /\ cmd' = [cmd EXCEPT !.pc = "val"]
     \/ cmd.pc = "val" /\ Complete("val", ValPart(cmd.text)) /\ Ends
  /\ UNCHANGED <<Files, tok, counts>>

\* map_prepared or encode_in_memory, then the checks of train().
TrainData ==
  /\ cmd.op = "train" /\ cmd.pc = "data"
  /\ LET b  == bin[cmd.kind][cmd.vocab]
         on == Prepared(cmd.kind, cmd.vocab)
         tr == IF on THEN b["train"] ELSE TrainPart(cmd.text)
         va == IF on THEN b["val"] ELSE ValPart(cmd.text)
     IN  IF Opens(tr, SeqLen) /\ Opens(va, SeqLen) /\ tr.vocab = cmd.tok.vocab
            /\ Matches(cmd.start, cmd.tok) /\ SameVocab(cmd.start, cmd.tok)
         THEN cmd' = [cmd EXCEPT !.pc = "run", !.tr = tr, !.va = va] ELSE Ends
  /\ UNCHANGED <<Files, tok, bin, counts>>

Weigh(done) ==
  LET s == cmd.start IN
  Saved(cmd.tok, {cmd.tr.of.tok} \cup (IF s = None THEN {} ELSE s.speaks), s = None \/ s.sure, done)

\* The resume pair (trainer.cpp writes it under a name of its own and renames it).
SaveResume ==
  /\ cmd.op = "train" /\ cmd.pc = "run"
  /\ ckpt' = [ckpt EXCEPT ![cmd.kind].resume = Weigh(FALSE)]
  /\ \E stop \in BOOLEAN : cmd' = IF stop THEN Idle ELSE cmd
  /\ UNCHANGED <<corpus, tok, bin, counts>>

\* The last step: the run is over; its samples are prompted from the val windows.
FinishRun ==
  /\ cmd.op = "train" /\ cmd.pc = "run"
  /\ ckpt' = [ckpt EXCEPT ![cmd.kind] = [resume |-> Weigh(TRUE), final |-> Weigh(TRUE)]]
  /\ Ends /\ UNCHANGED <<corpus, tok, bin, counts>>

\* held_out_prompts (chat has none: its user types).
GenerateData ==
  /\ cmd.op = "generate" /\ cmd.pc = "data"
  /\ LET file == bin[cmd.kind][cmd.vocab]["val"]
         va == IF file # None THEN file ELSE ValPart(corpus)
     IN  \/ IF Opens(va, PromptLen) THEN cmd' = [cmd EXCEPT !.pc = "use", !.va = va] ELSE Ends
         \/ cmd' = [cmd EXCEPT !.pc = "use"]
  /\ UNCHANGED <<Files, tok, bin, counts>>

\* evaluate(): both splits mapped; a missing tokenizer file was only a warning.
EvalData ==
  /\ cmd.op = "eval" /\ cmd.pc = "data"
  /\ LET b == bin[cmd.kind][cmd.vocab] IN
       IF Prepared(cmd.kind, cmd.vocab) /\ Opens(b["val"], SeqLen) /\ Opens(b["train"], SeqLen)
          /\ b["val"].vocab = cmd.start.vocab
       THEN cmd' = [cmd EXCEPT !.pc = "use", !.tr = b["train"], !.va = b["val"]] ELSE Ends
  /\ UNCHANGED <<Files, tok, bin, counts>>

Leave == cmd.pc = "use" /\ Ends /\ UNCHANGED <<Files, tok, bin, counts>>
-----------------------------------------------------------------------------
\* The user and the machine.
EditCorpus ==
  /\ cmd = Idle /\ edits < MaxEdits /\ edits' = edits + 1 /\ corpus' \in Texts \ {corpus}
  /\ UNCHANGED <<tok, bin, ckpt, cmd, commands, removals, crashes, orphaned>>

\* The tokenizer file of (k, v) becomes f; its token files stay where they are.
Lose(k, v, f) ==
  /\ tok' = [tok EXCEPT ![k][v] = f]
  /\ orphaned' = (orphaned \/ \E s \in {"train", "val"} : bin[k][v][s] # None)

\* An unreadable tokenizer file, or one the user no longer wants, is deleted.
RemoveTokenizer ==
  /\ cmd = Idle /\ removals < MaxRemovals /\ removals' = removals + 1
  /\ \E k \in Kinds, v \in Vocabs : tok[k][v] # None /\ Lose(k, v, None)
  /\ UNCHANGED <<Files, bin, cmd, commands, edits, crashes>>

\* The command dies, or a write of it fails: files keep what they hold.
Crash ==
  /\ cmd # Idle /\ crashes < MaxCrashes /\ crashes' = crashes + 1 /\ Ends
  /\ UNCHANGED <<Files, tok, bin, commands, edits, removals, orphaned>>

\* A power failure: a checkpoint renamed before it was flushed, or a token or
\* tokenizer file closed before, keeps only its beginning.
PowerFailure ==
  /\ cmd = Idle /\ crashes < MaxCrashes /\ crashes' = crashes + 1 /\ UNCHANGED cmd
  /\ \/ \E s \in Slots, at \in Cuts, torn \in BOOLEAN :
          /\ ckpt' = [ckpt EXCEPT ![s[1]][s[2]].cut = at, ![s[1]][s[2]].torn = torn]
          /\ UNCHANGED <<bin, tok, orphaned>>
     \/ \E k \in Kinds, v \in Vocabs, s \in {"train", "val"} :
          /\ bin[k][v][s] # None
          /\ bin' = [bin EXCEPT ![k][v][s].held = bin[k][v][s].count - 1]
          /\ UNCHANGED <<ckpt, tok, orphaned>>
     \/ /\ \E k \in Kinds, v \in Vocabs : tok[k][v] # None /\ Lose(k, v, Torn)
        /\ UNCHANGED <<ckpt, bin>>
  /\ UNCHANGED <<corpus, commands, edits, removals>>

Command == \/ Prepare \/ TrainFresh \/ TrainResume \/ TrainWarm \/ Infer
           \/ FindTokenizer \/ SaveTokenizer \/ PrepareWrites \/ TrainData \/ SaveResume
           \/ FinishRun \/ GenerateData \/ EvalData \/ Leave
Next == Command \/ EditCorpus \/ RemoveTokenizer \/ Crash \/ PowerFailure
Spec == Init /\ [][Next]_vars
-----------------------------------------------------------------------------
\* A checkpoint that records a tokenizer was trained on that tokenizer's ids and on
\* no other's, through every resume and warm start, corpus edit and crash; unless
\* token files outlived the tokenizer that wrote them, or an ancestor recorded none.
SpeaksOneTokenizer ==
  \A s \in Slots : LET c == ckpt[s[1]][s[2]] IN c.sure /\ ~orphaned => c.speaks = {c.fp}

\* The token ids a command feeds a model come from the tokenizer the model was
\* trained with and, where there is one, from the tokenizer the command decodes
\* with ("The token files were written by the tokenizer beside them", eval.cpp:62).
FedItsOwnTokens ==
  cmd.pc \in {"run", "use"} /\ ~orphaned =>
    \A d \in {cmd.tr, cmd.va} \ {None} :
      /\ cmd.tok # None => d.of.tok = cmd.tok
      /\ cmd.start # None /\ cmd.start.sure => cmd.start.speaks = {d.of.tok}

\* "no training window ever overlaps validation text" (train.cpp:127): the two
\* parts of a run are disjoint parts of one text, or of two texts when a prepare
\* was interrupted between its two files.
HeldOut ==
  cmd.pc = "run" =>
    /\ cmd.tr.of = cmd.va.of => cmd.tr.first + cmd.tr.count <= cmd.va.first
    /\ crashes = 0 => cmd.tr.of = cmd.va.of

\* No window of an opened token file reaches past the tokens that are in it, nor
\* does a held-out prompt, whatever an interrupted prepare left.
ReadsInside ==
  \A d \in {cmd.tr, cmd.va} \ {None} :
    LET seq == IF cmd.op = "generate" THEN PromptLen ELSE SeqLen
        stride == IF cmd.op = "train" /\ d = cmd.tr THEN 1 ELSE seq
        n == Windows(d.count, seq, stride)
    IN  /\ n >= 1 /\ \A i \in 0..(n - 1) : Window(i, seq, stride) \subseteq 0..(d.held - 1)
        /\ \A count \in 1..3 : \A k \in 0..(count - 1) : PromptWindow(k, n, count) < n

\* The evaluation windows, however few are asked for, are distinct windows of the
\* val part, and without a limit they are all of it, read once each.
EvalSpreads ==
  cmd.pc = "run" =>
    LET n == Windows(cmd.va.count, SeqLen, SeqLen) IN
    /\ \A count \in 1..n : /\ \A i \in 0..(count - 1) : Spread(i, n, count) < n
                           /\ \A i, j \in 0..(count - 1) : i < j => Spread(i, n, count) < Spread(j, n, count)
    /\ \A size \in 1..(n + 1) :
         UNION {Batch(b * size, n, size) : b \in 0..((n - 1) \div size)} = 0..(n - 1)

\* A checkpoint cut short by a power failure is refused or loads with every
\* parameter in its own place; only a cut exactly before the trailer costs the
\* fingerprint.
LoadedWhole ==
  cmd = Idle => \A s \in Slots :
    LET c == ckpt[s[1]][s[2]]
        m == LoadTable[c.version][c.vocab][c.cut][c.torn]
        whole == Model(c.version, c.vocab)
    IN  m # Refused =>
          /\ m.dims = whole.dims /\ m.data = whole.data
          /\ m.fp = whole.fp \/ (m.fp = NoFingerprint /\ c.cut = Items - 2 /\ ~c.torn)

(***************************************************************************)
(* The inductive invariant behind SpeaksOneTokenizer, HeldOut and          *)
(* FedItsOwnTokens. A command's vocab comes from the checkpoint it loaded, *)
(* which for generate and eval may be any number load() accepts.           *)
(***************************************************************************)
Identities  == [kind : Kinds, text : Texts, part : {"all", "v1sample", "v2sample"}, vocab : Vocabs]
TokenFiles  == [vocab : Vocabs, count : Int, held : Int, first : Int,
                of : [text : Texts, tok : Identities]]
Checkpoints == [version : {1, 2}, vocab : Vocabs, fp : Identities \cup {NoFingerprint},
                cut : Cuts \cup {Items}, torn : BOOLEAN, speaks : SUBSET Identities,
                sure : BOOLEAN, done : BOOLEAN]
ASSUME NullAssumption == {None, Torn, NoFingerprint} \cap Identities = {} /\ None \notin TokenFiles

\* A file of the name s holds that part of one text.
IsPart(s, f) ==
  /\ f \in TokenFiles
  /\ s = "train" => f.first = 0 /\ f.count = SplitAt(Tokens[f.of.text])
  /\ s = "val" => f.first = SplitAt(Tokens[f.of.text])

Parts == {"train", "val"}
LineageTypeOK ==
  /\ corpus \in Texts /\ crashes \in Nat /\ orphaned \in BOOLEAN
  /\ tok \in [Kinds -> [Vocabs -> Identities \cup {None, Torn}]]
  /\ bin \in [Kinds -> [Vocabs -> [Parts -> TokenFiles \cup {None}]]]
  /\ ckpt \in [Kinds -> [resume : Checkpoints \cup {None}, final : Checkpoints \cup {None}]]

\* Token files hold the parts of their text, and unless a tokenizer file was lost
\* beside them, they were written by the tokenizer beside them.
FilesInv ==
  \A k \in Kinds, v \in Vocabs, s \in Parts : bin[k][v][s] # None =>
    /\ IsPart(s, bin[k][v][s])
    /\ ~orphaned => tok[k][v] = bin[k][v][s].of.tok

\* What a checkpoint, or what a command read of it, says of the tokenizers behind it.
Speaks(c) == c.sure /\ ~orphaned => c.fp # NoFingerprint /\ c.speaks = {c.fp}
CkptInv == \A k \in Kinds, n \in {"resume", "final"} : ckpt[k][n] # None => Speaks(ckpt[k][n])

\* The two token files of a lineage are parts of one text, but while a prepare is
\* between them and after one was cut off there.
Rewriting(k, v) == /\ cmd.op = "prepare" /\ cmd.pc \in {"train", "split", "val"}
                   /\ cmd.kind = k /\ cmd.vocab = v
PairInv ==
  crashes = 0 => \A k \in Kinds, v \in Vocabs :
    Prepared(k, v) /\ ~Rewriting(k, v) => bin[k][v]["train"].of = bin[k][v]["val"].of

\* What the running command has loaded, and that it is still what is on disk.
StartOK(m) ==
  m # None => /\ m.fp \in Identities \cup {NoFingerprint} /\ m.speaks \in SUBSET Identities
              /\ m.sure \in BOOLEAN /\ Speaks(m)
Loaded == cmd.pc \in {"data", "train", "split", "val", "run", "use"}
CmdInv ==
  /\ cmd = [op |-> cmd.op, pc |-> cmd.pc, kind |-> cmd.kind, vocab |-> cmd.vocab, text |-> cmd.text,
            tok |-> cmd.tok, start |-> cmd.start, tr |-> cmd.tr, va |-> cmd.va]
  /\ cmd.op \in {"none", "prepare", "train", "generate", "eval"}
  /\ cmd.pc \in {"none", "tok", "saveTok"} \/ Loaded
  /\ cmd.pc # "none" => cmd.op # "none" /\ cmd.kind \in Kinds /\ cmd.text \in Texts
  /\ cmd.op \in {"prepare", "train"} => cmd.vocab \in Vocabs
  /\ StartOK(cmd.start)
  /\ cmd.pc \in {"none", "tok", "saveTok", "data"} => cmd.tr = None /\ cmd.va = None
  /\ cmd.pc \in {"tok", "saveTok"} => cmd.tok = None
  /\ cmd.pc = "saveTok" /\ cmd.vocab \in Vocabs => tok[cmd.kind][cmd.vocab] = Torn
  /\ Loaded /\ cmd.vocab \in Vocabs =>
       /\ cmd.tok = tok[cmd.kind][cmd.vocab]
       /\ cmd.op # "eval" => cmd.tok \in Identities
  /\ Loaded /\ cmd.op \in {"generate", "eval"} /\ cmd.tok # None => Matches(cmd.start, cmd.tok)

\* Between prepare's writes, and while a train or a reader holds its token files.
DataInv ==
  /\ cmd.pc \in {"train", "split", "val"} => cmd.op = "prepare"
  /\ cmd.op = "prepare" /\ cmd.pc \in {"train", "split", "val"} =>
       \A s \in Parts : s = "train" \/ cmd.pc = "val" =>
         bin[cmd.kind][cmd.vocab][s].of = [text |-> cmd.text, tok |-> cmd.tok]
  /\ cmd.pc = "run" => /\ cmd.op = "train" /\ Matches(cmd.start, cmd.tok)
                       /\ IsPart("train", cmd.tr) /\ IsPart("val", cmd.va)
                       /\ crashes = 0 => cmd.tr.of = cmd.va.of
  /\ cmd.pc = "use" => cmd.op \in {"generate", "eval"}
  /\ cmd.pc \in {"run", "use"} /\ cmd.vocab \in Vocabs /\ ~orphaned =>
       \A d \in {cmd.tr, cmd.va} \ {None} : d.of.tok = tok[cmd.kind][cmd.vocab] /\ d.of.tok \in Identities

IInv == LineageTypeOK /\ FilesInv /\ CkptInv /\ PairInv /\ CmdInv /\ DataInv
=============================================================================
