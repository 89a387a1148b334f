---------------------------- MODULE MCFetchQueue ----------------------------
(* Instances of FetchQueue for TLC: a retry budget and worker symmetry. *)
EXTENDS FetchQueue, TLC

OneRetry == [m \in Msg |-> 1]

Symmetry == Permutations(Worker)
=============================================================================
