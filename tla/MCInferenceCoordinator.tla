---------------------- MODULE MCInferenceCoordinator ----------------------
(* Instances of InferenceCoordinator for TLC.                               *)
EXTENDS InferenceCoordinator, TLC

CONSTANTS c1, c2, c3, o1, o2

Tasks == Permutations({c1, c2, c3}) \cup Permutations({o1, o2})
=============================================================================
