----------------------------- MODULE MCTextPath -----------------------------
(* Bytes for TLC: a b < 10 32 ' s, the two bytes of U+00E0 and of U+0085.  *)
EXTENDS TextPath

MCSpecials == <<<<60, 10, 97>>, <<60>>>>
SmallTexts(bytes, n) == UNION {[1..k -> bytes] : k \in 1..n}

Job(kind, text, n, prompt, reply) ==
  [kind |-> kind, text |-> text, merges |-> n, prompt |-> prompt, reply |-> reply]

MCJobs ==
  {Job("v2", t, 4, t, FALSE) : t \in SmallTexts({97, 98, 32}, 6)}
  \cup {Job("v2", t, 3, t, FALSE) : t \in SmallTexts({97}, 12)}
  \cup {Job("v2", t, 0, t, FALSE) : t \in SmallTexts({10, 97, 32, 60}, 5)}
  \cup {Job("v2", t, 1, t, FALSE) : t \in SmallTexts({10, 97, 194, 133}, 5)}
  \cup {Job("v1", t, 4, t, FALSE) : t \in SmallTexts({97, 98, 32, 95}, 5)}
  \cup {Job(k, <<97, 97, 32, 98>>, 1, p, TRUE) : k \in {"v1", "v2"}, p \in {<<32>>, <<97>>, <<60, 97>>, <<97, 98, 97>>, <<97, 10, 97, 98>>}}
MCModes == {[greedy |-> TRUE, k |-> 0, p |-> 10]} \cup [greedy : {FALSE}, k : 0..2, p : {6, 10}]

\* The text of the ids that are past the vocabulary: a row of one character.
MCRow == {Job("v1", <<97, 97, 97, 97, 97>>, 5, <<97, 97, 97>>, FALSE), Job("v1", <<97, 97, 97, 97>>, 4, <<97, 97, 97>>, FALSE)}
=============================================================================
