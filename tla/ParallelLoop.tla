---------------------------- MODULE ParallelLoop ----------------------------
(***************************************************************************)
(* What parallel_for promises its caller: the call behaves like a plain    *)
(* loop. Before it returns normally every index of [0, n) has run exactly  *)
(* once and is no longer running; if a body threw, the call throws.        *)
(***************************************************************************)
EXTENDS Integers

CONSTANTS Callers, Sizes

\* The indices of the longest loop, and the one past its end.
Indices == 0..(CHOOSE m \in Sizes : \A n \in Sizes : n <= m)

VARIABLES
  size,    \* of the caller's open call; 0 when it has none
  ran,     \* how often each index has run
  failed,  \* whether a body of the open call threw
  result   \* of the caller's last call

vars == <<size, ran, failed, result>>

Init ==
  /\ size = [c \in Callers |-> 0]
  /\ ran = [c \in Callers |-> [i \in Indices |-> 0]]
  /\ failed = [c \in Callers |-> FALSE]
  /\ result = [c \in Callers |-> "none"]

Begin(c, n) ==
  /\ size[c] = 0
  /\ size' = [size EXCEPT ![c] = n]
  /\ result' = [result EXCEPT ![c] = "none"]
  /\ UNCHANGED <<ran, failed>>

\* Some indices run that have not run yet; a body that throws stops part way.
Run(c, S, ok) ==
  /\ \A i \in S : i < size[c] /\ ran[c][i] = 0
  /\ ran' = [ran EXCEPT ![c] = [i \in Indices |-> IF i \in S THEN 1 ELSE @[i]]]
  /\ failed' = [failed EXCEPT ![c] = @ \/ ~ok]
  /\ UNCHANGED <<size, result>>

Return(c) ==
  /\ size[c] > 0
  /\ failed[c] \/ \A i \in 0..(size[c] - 1) : ran[c][i] = 1
  /\ result' = [result EXCEPT ![c] = IF failed[c] THEN "threw" ELSE "ok"]
  /\ size' = [size EXCEPT ![c] = 0]
  /\ ran' = [ran EXCEPT ![c] = [i \in Indices |-> 0]]
  /\ failed' = [failed EXCEPT ![c] = FALSE]

Next == \E c \in Callers :
  \/ \E n \in Sizes : Begin(c, n)
  \/ \E S \in SUBSET Indices, ok \in BOOLEAN : Run(c, S, ok)
  \/ Return(c)

Spec == Init /\ [][Next]_vars
=============================================================================
