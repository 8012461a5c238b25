------------------------------ MODULE TextPath ------------------------------
(***************************************************************************)
(* Text to ids and back (tokenizer.h, chat.cpp, generate.cpp): either      *)
(* tokenizer is trained, encodes a prompt, and the ids are continued by    *)
(* the model.                                                              *)
(***************************************************************************)
EXTENDS ByteBpe, Generation

VARIABLES vocab, spelling    \* of the v1 tokenizer

V1 == INSTANCE BpeV1

textVars == <<vars, vocab, spelling, gen>>

TextInit ==
  /\ gen = Idle
  /\ \/ Init /\ job.kind = "v2" /\ vocab = <<>> /\ spelling = <<>>
     \/ /\ job \in Jobs /\ job.kind = "v1" /\ V1!V1Init
        /\ where = <<>> /\ heap = {} /\ rest = <<>> /\ cache = [index |-> <<>>, ids |-> <<>>]

\* vocab_size()
VocabSize ==
  IF job.kind = "v2" THEN 256 + Len(merges) + Len(Specials) ELSE Cardinality(DOMAIN vocab)

\* run_chat, run_generate: the encoded prompt goes to TextGen.
Continue ==
  /\ pc \in {"done", "trained"} /\ job.reply
  /\ \E mode \in Modes : Start(out, VocabSize, mode)
  /\ UNCHANGED <<vars, vocab, spelling>>

Generate ==
  /\ gen # Idle
  /\ Continuing
  /\ UNCHANGED <<vars, vocab, spelling>>

TextNext ==
  \/ Next /\ UNCHANGED <<vocab, spelling, gen>>
  \/ (V1!V1Merge \/ V1!V1Encode) /\ UNCHANGED <<where, heap, rest, cache, gen>>
  \/ Continue \/ Generate

TextSpec == TextInit /\ [][TextNext]_textVars
-----------------------------------------------------------------------------
(* Properties *)

\* Both tokenizers encode a word of their corpus to the tokens training left it
\* with, although v1 may count pairs wrongly and v2 encodes in two other ways.
EncodingFollowsTraining == EncodersAgree /\ V1!WordsAgree

\* Decoding an encoded prompt gives the prompt, or for v1 its words.
RoundTrips == CacheIsTrue /\ V1!WordsSurvive

\* A byte-level tokenizer's file loads as what was saved or not at all; the first
\* one's loads with another fingerprint if a token was merged twice.
FilesReload == FileIsExact /\ V1!ReloadsV1

\* tokenizer.h of any tokenizer: "every id encode returns is below it".
IdsInVocab == V1!IdsInVocab
=============================================================================
