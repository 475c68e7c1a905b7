---------------------------- MODULE MCModelRouters ----------------------------
(* Instances of ModelRouter for TLC, checked together: operations whose tasks may *)
(* be cancelled where the code shields them, beside a request; and one operation  *)
(* at a time whose task may be cancelled anywhere.                                *)
EXTENDS ModelRouter, TLC

CONSTANTS w1, w2, p1, p2, o1, o2, cl1

NoSwap    == {"recover", "external", "shutdown"}
Shielded  == {"external"}
StopsTurn == {"swap", "recover", "external"}

VARIABLE scenario

Anywhere == INSTANCE ModelRouter WITH Kinds <- StopsTurn,
          Cancellable <- StopsTurn, Client <- {}

MCInit == \/ scenario = "shielded" /\ Init
          \/ scenario = "any" /\ Anywhere!Init

MCNext == /\ UNCHANGED scenario
          /\ \/ scenario = "shielded" /\ Next
             \/ scenario = "any" /\ Anywhere!Next /\ pc'[o2] = "idle"

MCSpec ==
    /\ MCInit /\ [][MCNext]_<<scenario, vars>>
    /\ \A o \in Op :
          WF_<<scenario, vars>>(scenario = "shielded" /\ Run(o) /\ UNCHANGED scenario)

(* ModelRouter!Tenancy, LeaseProtects, StartsOnFreeGpu, LeaseReturns, of the
   operations that cannot be cancelled while a thread of theirs works
   (router.py:244-280, 381-573, 711-784). *)
TenancyHolds == scenario = "shielded" => Tenancy
LeaseProtected == scenario = "shielded" => LeaseProtects
FreeGpu ==
    [][scenario = "shielded" =>
        \A p \in Pid : ~Alive(p) /\ proc'[p] # None => proc'[p].kind = Foreign \/ GpuFree]_<<scenario, vars>>
LeaseComesBack == scenario = "shielded" => LeaseReturns
=============================================================================
