----------------------------- MODULE ExactlyOnce -----------------------------
(***************************************************************************)
(* What the approval gateway promises about each protected action, seen    *)
(* from outside: it is asked for, at most one decision claims it, its      *)
(* handler is entered at most once and only after a claim, and it ends in  *)
(* success only from inside the handler. There is no way back.             *)
(*                                                                         *)
(* Actions move independently and several may move in one step: one expiry *)
(* sweep or one recovery closes many approvals in a transaction.           *)
(***************************************************************************)
CONSTANT Action

VARIABLE phase

Phase == {"unasked", "asked", "claimed", "entered", "succeeded", "closed"}

TypeOK == phase \in [Action -> Phase]

Edges ==
    { <<"unasked", "asked">>,
      <<"asked", "claimed">>,   <<"asked", "closed">>,
      <<"claimed", "entered">>, <<"claimed", "closed">>,
      <<"entered", "succeeded">>, <<"entered", "closed">> }

Init == phase = [a \in Action |-> "unasked"]

Move ==
    /\ phase' \in [Action -> Phase]
    /\ \A a \in Action :
         phase'[a] = phase[a] \/ <<phase[a], phase'[a]>> \in Edges

Spec == Init /\ [][Move]_phase
=============================================================================
