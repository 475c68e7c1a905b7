----------------------------- MODULE ModelLease -----------------------------
(***************************************************************************)
(* What _InferenceCoordinator and the lock in front of it promise: requests *)
(* share the worker, a lifecycle operation has it alone, operations are     *)
(* served in the order they came, and once the first of them has asked, no  *)
(* further request is let in before it was served or gave up.               *)
(***************************************************************************)
CONSTANTS Client, Op, None

VARIABLES
    readers,  \* requests inside inference_session
    writer,   \* the operation inside _lifecycle_session, or None
    came,     \* the operations that came and did not end
    before,   \* which of them came before which
    asked     \* the first of them, if it waits for readers to leave, or None

lease == <<readers, writer, came, before, asked>>

Init == readers = {} /\ writer = None /\ came = {} /\ before = {} /\ asked = None

Enter(c) ==
    /\ c \notin readers /\ writer = None /\ asked = None
    /\ readers' = readers \cup {c}
    /\ UNCHANGED <<writer, came, before, asked>>

Leave(c) ==
    /\ c \in readers
    /\ readers' = readers \ {c}
    /\ UNCHANGED <<writer, came, before, asked>>

Join(o) ==
    /\ o \notin came
    /\ came' = came \cup {o}
    /\ before' = before \cup (came \X {o})
    /\ UNCHANGED <<readers, writer, asked>>

First(o) == o \in came /\ writer = None /\ \A p \in came : <<p, o>> \notin before

Ask(o) ==
    /\ First(o) /\ asked = None /\ readers # {}
    /\ asked' = o
    /\ UNCHANGED <<readers, writer, came, before>>

Grant(o) ==
    /\ First(o) /\ readers = {}
    /\ writer' = o /\ asked' = None
    /\ UNCHANGED <<readers, came, before>>

\* The operation ended, or it was cancelled while it waited.
End(o) ==
    /\ o \in came
    /\ came' = came \ {o}
    /\ before' = before \cap (came' \X came')
    /\ writer' = IF writer = o THEN None ELSE writer
    /\ asked' = IF asked = o THEN None ELSE asked
    /\ UNCHANGED readers

Next ==
    \/ \E c \in Client : Enter(c) \/ Leave(c)
    \/ \E o \in Op : Join(o) \/ Ask(o) \/ Grant(o) \/ End(o)

Spec == Init /\ [][Next]_lease
=============================================================================
