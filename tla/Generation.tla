----------------------------- MODULE Generation -----------------------------
(***************************************************************************)
(* Continuing a prompt: TextGen (text_gen.cpp) over an InferenceSession    *)
(* (inference.cpp), which takes one token at a time up to its capacity.    *)
(* Only the prompt's last token, the first and the last id ever score      *)
(* above nothing; a score is a small integer and the probability a         *)
(* monotone function of it. The draw may be exactly 0, and, by rounding,   *)
(* past the sum of the probabilities.                                      *)
(***************************************************************************)
EXTENDS Integers, SequencesExt, FiniteSetsExt

CONSTANTS
  MaxLen,      \* max_len: the context
  MaxTokens,   \* max_tokens: how many to generate
  Window,      \* the last tokens a repetition penalty looks at (50)
  Levels,      \* scores of a contender
  Modes        \* sampling: records [greedy, k, p], p in tenths

ASSUME GenerationAssumption ==
  /\ MaxLen \in Nat \ {0} /\ MaxTokens \in Nat /\ Window \in Nat /\ Levels \subseteq -8..8
  /\ Modes \subseteq [greedy : BOOLEAN, k : Nat, p : 1..10]

VARIABLE gen    \* one call

Idle == [phase |-> "idle"]
NoPick == [draw |-> "none", id |-> 0, kept |-> {}, best |-> {}]

\* Slip: a full context is noticed one token late.
FullLate(g) == g.position > MaxLen

\* session.position() >= session.capacity()
Full(g) == g.position >= MaxLen

\* InferenceSession::step: the token's keys and values join the cache.
StepWith(g, token) ==
  LET position == g.position + 1
  IN  IF g.position >= MaxLen \/ token \notin 0..(g.vocab - 1)
      THEN [g EXCEPT !.phase = "refused"]
      ELSE [g EXCEPT !.position = position,
                     !.phase = IF position = Len(g.tokens) THEN "pick" ELSE "feed"]

Start(ids, size, mode) ==
  /\ gen = Idle
  /\ gen' = [phase |-> IF ids = <<>> THEN "done" ELSE "feed", vocab |-> size, mode |-> mode,
             prompt |-> ids, tokens |-> ids, position |-> 0, shown |-> <<>>,
             last |-> NoPick]

\* The prompt, then each token picked, goes through the session.
Feed == gen.phase = "feed" /\ gen' = StepWith([gen EXCEPT !.last = NoPick], gen.tokens[gen.position + 1])
-----------------------------------------------------------------------------
(* Scores *)

Contenders == {0, gen.prompt[Len(gen.prompt)], gen.vocab - 1}

\* A repetition penalty of 2.
PenalizedScore(x) == IF x > 0 THEN x \div 2 ELSE x * 2
PenalizedTimes(x, n) == LET p[m \in 0..n] == IF m = 0 THEN x ELSE PenalizedScore(p[m - 1]) IN p[n]

\* logits_with_penalty: once for every occurrence in the window.
Penalized(scores, tokens) ==
  LET window == IF Len(tokens) < Window THEN tokens ELSE SubSeq(tokens, Len(tokens) - Window + 1, Len(tokens))
      times(i) == Cardinality({k \in DOMAIN window : window[k] = i})
  IN  [i \in DOMAIN scores |-> PenalizedTimes(scores[i], times(i))]

Best(scores) == {i \in DOMAIN scores : \A j \in DOMAIN scores : scores[j] <= scores[i]}
Argmax(scores) == CHOOSE i \in Best(scores) : \A j \in Best(scores) : i <= j

\* Ids from the highest value down; the order of equals does not matter.
Sorted(f) ==
  LET place(i) == Cardinality({j \in DOMAIN f : f[j] > f[i] \/ (f[j] = f[i] /\ j <= i)})
  IN  [n \in 1..Cardinality(DOMAIN f) |-> CHOOSE i \in DOMAIN f : place(i) = n]

\* top_k: what scores below the k-th best goes; ties stay.
TopK(scores, k) ==
  IF k = 0 \/ k > Cardinality(DOMAIN scores) THEN DOMAIN scores
  ELSE {i \in DOMAIN scores : scores[i] >= scores[Sorted(scores)[k]]}

\* The exponential of a score far below the best is 0.
Weight(x) == IF x > -41 THEN x + 41 ELSE 0
SumOf(w, S) == MapThenSumSet(LAMBDA i : w[i], S)

\* top_p: what is less likely than the token at which the sorted sum reaches p.
TopP(w, p) ==
  LET order == Sorted(w)
      reached == {n \in DOMAIN order : 10 * SumOf(w, {order[k] : k \in 1..n}) >= p * SumOf(w, DOMAIN w)}
      cutoff == IF reached = {} THEN 1 ELSE CHOOSE n \in reached : \A o \in reached : n <= o
  IN  {i \in DOMAIN w : w[i] >= w[order[cutoff]]}

Kept(scores, mode) ==
  LET w == [i \in TopK(scores, mode.k) |-> Weight(scores[i])]
  IN  IF mode.p = 10 THEN DOMAIN w ELSE TopP(w, mode.p)

\* Slip: top_p does not scale what it keeps back to 1.
TotalUnscaled(scores, kept) == SumOf([i \in DOMAIN scores |-> Weight(scores[i])], DOMAIN scores)

\* The sum the draw is scaled to.
Total(scores, kept) == SumOf([i \in kept |-> Weight(scores[i])], kept)

\* sample_from_logits: the first id whose cumulative probability reaches the draw.
Drawn(scores, kept, r) ==
  LET cum(i) == SumOf([j \in kept |-> Weight(scores[j])], {j \in kept : j <= i})
      hits == {i \in DOMAIN scores : cum(i) >= r}
  IN  IF hits = {} THEN gen.vocab - 1 ELSE CHOOSE i \in hits : \A j \in hits : i <= j

Pick(id, last) ==
  LET tokens == Append(gen.tokens, id)
  IN  gen' = [gen EXCEPT !.tokens = tokens, !.shown = Append(@, id), !.last = last,
                         !.phase = IF Full(gen) THEN "done" ELSE "feed"]

Wanted == gen.phase = "pick" /\ Len(gen.tokens) - Len(gen.prompt) < MaxTokens

\* generate_greedy.
PickGreedy ==
  /\ Wanted /\ gen.mode.greedy
  /\ \E raw \in [Contenders -> Levels] :
       LET s == Penalized(raw, gen.tokens)
       IN  Pick(Argmax(s), [draw |-> "inside", id |-> Argmax(s), kept |-> Best(s), best |-> Best(s)])

\* generate_sample, generate_stream; chat asks for greedy as k = 1.
PickSample ==
  /\ Wanted /\ ~gen.mode.greedy
  /\ \E raw \in [Contenders -> Levels] :
       LET s == Penalized(raw, gen.tokens)
           kept == Kept(s, gen.mode)
           total == Total(s, kept)
           cums == {Total(s, {j \in kept : j <= i}) : i \in kept}
       IN  \E r \in {0, total, total + 1} \cup cums :
             LET id == IF r > total THEN gen.vocab - 1 ELSE Drawn(s, kept, r)
             IN  Pick(id, [draw |-> CASE r = 0 -> "zero" [] r > total -> "beyond" [] OTHER -> "inside",
                           id |-> id, kept |-> kept, best |-> Best(s)])

\* max_tokens are there.
Finish ==
  /\ gen.phase = "pick" /\ Len(gen.tokens) - Len(gen.prompt) >= MaxTokens
  /\ gen' = [gen EXCEPT !.phase = "done", !.last = NoPick]
-----------------------------------------------------------------------------
(* The specification of one call, whatever the prompt *)

Continuing == Feed \/ PickGreedy \/ PickSample \/ Finish

GenNext ==
  \/ \E ids \in Seq(Nat), size \in Nat, mode \in Modes : Start(ids, size, mode)
  \/ Continuing

GenSpec == gen = Idle /\ [][GenNext]_gen
-----------------------------------------------------------------------------
(* Properties *)

\* A call stops at max_tokens or with the context full, one token past it, and
\* fails only on a prompt the model cannot take.
FillsOrStops ==
  gen # Idle =>
    /\ gen.phase = "done" /\ gen.prompt # <<>> =>
         LET room == MaxLen - Len(gen.prompt) + 1
         IN  Len(gen.shown) = IF MaxTokens < room THEN MaxTokens ELSE room
    /\ gen.phase = "refused" =>
         Len(gen.prompt) > MaxLen \/ \E k \in DOMAIN gen.prompt : gen.prompt[k] >= gen.vocab

\* What is sampled survived both filters, and is the best with k = 1, except that
\* a draw of exactly 0 gives id 0 and one past the sum the last id.
SamplesKept ==
  gen # Idle =>
    CASE gen.last.draw = "inside" ->
           gen.last.id \in gen.last.kept /\ (gen.mode.k = 1 \/ gen.mode.greedy => gen.last.id \in gen.last.best)
      [] gen.last.draw = "zero" -> gen.last.id = 0
      [] gen.last.draw = "beyond" -> gen.last.id = gen.vocab - 1
      [] OTHER -> TRUE
=============================================================================
