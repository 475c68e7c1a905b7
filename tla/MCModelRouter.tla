---------------------------- MODULE MCModelRouter ----------------------------
(* ModelRouter beside a request, when a Stop may cancel any operation.         *)
EXTENDS ModelRouter, TLC

CONSTANTS w1, w2, p1, p2, o1, o2, cl1

StopsTurn == {"swap", "recover", "external"}
Pids == Permutations({p1, p2})
=============================================================================
