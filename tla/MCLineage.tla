----------------------------- MODULE MCLineage -----------------------------
(***************************************************************************)
(* Lineage with two texts: a small one whose merges reach only vocab 3,    *)
(* and the text it grows into, above the tokenizer's sample size.          *)
(***************************************************************************)
EXTENDS Lineage

MCTokens == <<61, 100>>      \* splits of 57 + 4 and 95 + 5
MCLearnable == <<3, 5>>
=============================================================================
