------------------------ MODULE InferenceCoordinator ------------------------
(***************************************************************************)
(* Who waits for whom at the model worker: _InferenceCoordinator, built on  *)
(* one asyncio.Condition, behind the asyncio.Lock of _lifecycle_session.    *)
(*                                                                          *)
(* Code: core/models/router.py. Tasks run on one event loop: a step is a    *)
(* task running from one suspension to the next, and `ready` is the loop's  *)
(* FIFO of tasks to run. No task is ever suspended while it holds the       *)
(* Condition's own lock (the code between `async with self._condition` and  *)
(* its end only suspends in wait_for, which gives the lock up), so that     *)
(* lock is never waited for and does not appear here.                       *)
(***************************************************************************)
EXTENDS Integers, FiniteSets, SequencesExt

CONSTANTS
    Client,   \* tasks that enter inference_session
    Op,       \* tasks that enter _lifecycle_session
    Rounds,   \* bound: how often each operation comes
    PassesOn, \* asyncio of Python 3.13 or later (see Rewoken)
    None

Task == Client \cup Op

ASSUME CoordinatorAssumption ==
    /\ Client \cap Op = {} /\ None \notin Task
    /\ IsFiniteSet(Client)
    /\ Rounds \in Nat /\ PassesOn \in BOOLEAN

VARIABLES
    ready,              \* tasks the loop will run, in order
    at,                 \* where each task is
    cancelled,          \* tasks that get CancelledError when they run
    sleepers,           \* Condition._waiters, in order
    owner,              \* the task that holds the asyncio.Lock, or None
    queue,              \* Lock._waiters, in order
    active_inferences,
    lifecycle_waiters,
    lifecycle_active,
    left                \* rounds each operation has left

coordinator == <<active_inferences, lifecycle_waiters, lifecycle_active>>
outer == <<owner, queue>>
vars == <<ready, at, cancelled, sleepers, outer, coordinator, left>>

\* enter: about to run; asleep, woken: in Condition.wait; queued, called,
\* dropped: in Lock.acquire with a pending, finished or cancelled future.
Point == {"idle", "enter", "asleep", "woken", "inside", "leave",
          "queued", "called", "dropped"}
Runnable == {"enter", "woken", "leave", "called", "dropped"}

TypeOK ==
    /\ ready \in Seq(Task) /\ IsInjective(ready)
    /\ at \in [Task -> Point]
    /\ \A t \in Task : (at[t] \in Runnable) = (t \in ToSet(ready))
    /\ cancelled \subseteq ToSet(ready)
    /\ sleepers \in Seq(Task) /\ IsInjective(sleepers)
    /\ ToSet(sleepers) = {t \in Task : at[t] = "asleep"}
    /\ owner \in Op \cup {None}
    /\ queue \in Seq(Op) /\ IsInjective(queue)
    /\ active_inferences \in 0..Cardinality(Client)
    /\ lifecycle_waiters \in 0..1
    /\ lifecycle_active \in BOOLEAN
    /\ left \in [Op -> 0..Rounds]

Init ==
    /\ ready = <<>> /\ sleepers = <<>> /\ queue = <<>> /\ owner = None
    /\ at = [t \in Task |-> "idle"]
    /\ cancelled = {}
    /\ active_inferences = 0 /\ lifecycle_waiters = 0 /\ lifecycle_active = FALSE
    /\ left = [o \in Op |-> Rounds]

-----------------------------------------------------------------------------
(* asyncio.                                                                *)

Runs(t) == ready # <<>> /\ Head(ready) = t

\* The running task goes to point p; `woken` and `next` join the loop's queue.
Go(t, p, woken, next) ==
    /\ at' = [u \in Task |-> IF u = t THEN p
                             ELSE IF u \in ToSet(woken) THEN "woken"
                             ELSE IF u \in ToSet(next) THEN "called" ELSE at[u]]
    /\ ready' = Tail(ready) \o woken \o next
    /\ cancelled' = cancelled \ {t}

\* Lock.release and Lock._wake_up_first: the first waiter, if it still waits.
FirstOf(q) == IF q # <<>> /\ at[Head(q)] = "queued" THEN <<Head(q)>> ELSE <<>>

\* Condition.wait after an error: since Python 3.13 it passes one notification on.
Rewoken == IF PassesOn /\ sleepers # <<>> THEN <<Head(sleepers)>> ELSE <<>>
PassNotificationOn == sleepers' = IF Rewoken # <<>> THEN Tail(sleepers) ELSE sleepers

\* A list of waiting tasks without t, which is in it once at most.
Without(s, t) ==
    IF t \in ToSet(s) THEN RemoveAt(s, CHOOSE i \in DOMAIN s : s[i] = t) ELSE s

-----------------------------------------------------------------------------
(* A request: _InferenceCoordinator.inference.                             *)

CanRead  == ~lifecycle_active /\ lifecycle_waiters = 0
CanWrite == ~lifecycle_active /\ active_inferences = 0

\* Mutant: a request looks for a running operation only.
AdmitPastWaiter(c) ==
    /\ Runs(c) /\ at[c] \in {"enter", "woken"} /\ c \notin cancelled
    /\ ~lifecycle_active
    /\ active_inferences' = active_inferences + 1
    /\ Go(c, "inside", <<>>, <<>>)
    /\ UNCHANGED <<sleepers, outer, lifecycle_waiters, lifecycle_active, left>>

Admit(c) ==
    /\ Runs(c) /\ at[c] \in {"enter", "woken"} /\ c \notin cancelled
    /\ CanRead
    /\ active_inferences' = active_inferences + 1
    /\ Go(c, "inside", <<>>, <<>>)
    /\ UNCHANGED <<sleepers, outer, lifecycle_waiters, lifecycle_active, left>>

Sleep(c) ==
    /\ Runs(c) /\ at[c] \in {"enter", "woken"} /\ c \notin cancelled
    /\ ~CanRead
    /\ sleepers' = Append(sleepers, c)
    /\ Go(c, "asleep", <<>>, <<>>)
    /\ UNCHANGED <<outer, coordinator, left>>

\* Mutant: the last notify_all of a request is forgotten.
LeaveInferenceQuietly(c) ==
    /\ Runs(c) /\ at[c] = "leave"
    /\ active_inferences' = active_inferences - 1
    /\ Go(c, "idle", <<>>, <<>>)
    /\ UNCHANGED <<sleepers, outer, lifecycle_waiters, lifecycle_active, left>>

LeaveInference(c) ==
    /\ Runs(c) /\ at[c] = "leave"
    /\ active_inferences' = active_inferences - 1
    /\ sleepers' = <<>>
    /\ Go(c, "idle", sleepers, <<>>)
    /\ UNCHANGED <<outer, lifecycle_waiters, lifecycle_active, left>>

\* CancelledError before it got in.
AbandonInference(c) ==
    /\ Runs(c) /\ at[c] \in {"enter", "woken"} /\ c \in cancelled
    /\ \/ at[c] = "woken" /\ PassNotificationOn /\ Go(c, "idle", Rewoken, <<>>)
       \/ at[c] = "enter" /\ UNCHANGED sleepers /\ Go(c, "idle", <<>>, <<>>)
    /\ UNCHANGED <<outer, coordinator, left>>

-----------------------------------------------------------------------------
(* An operation: _lifecycle_session, _InferenceCoordinator.lifecycle.      *)

\* Lock.acquire does not wait if the lock is free and nobody waits.
LockFree == owner = None /\ \A i \in DOMAIN queue : at[queue[i]] = "dropped"

QueueUp(o) ==
    /\ Runs(o) /\ at[o] = "enter" /\ o \notin cancelled
    /\ ~LockFree
    /\ queue' = Append(queue, o)
    /\ Go(o, "queued", <<>>, <<>>)
    /\ UNCHANGED <<sleepers, owner, coordinator, left>>

\* The task gets the lock now, or has it already.
Locks(o) ==
    /\ Runs(o) /\ o \notin cancelled
    /\ \/ at[o] = "enter" /\ LockFree
       \/ at[o] = "called"
    /\ owner' = o
    /\ queue' = Without(queue, o)

Begin(o) ==
    /\ Locks(o) /\ CanWrite
    /\ lifecycle_active' = TRUE
    /\ Go(o, "inside", <<>>, <<>>)
    /\ UNCHANGED <<sleepers, active_inferences, lifecycle_waiters, left>>

Announce(o) ==
    /\ Locks(o) /\ ~CanWrite
    /\ lifecycle_waiters' = lifecycle_waiters + 1
    /\ sleepers' = Append(sleepers, o)
    /\ Go(o, "asleep", <<>>, <<>>)
    /\ UNCHANGED <<active_inferences, lifecycle_active, left>>

Retry(o) ==
    /\ Runs(o) /\ at[o] = "woken" /\ o \notin cancelled
    /\ IF CanWrite
       THEN /\ lifecycle_active' = TRUE
            /\ lifecycle_waiters' = lifecycle_waiters - 1
            /\ Go(o, "inside", <<>>, <<>>)
            /\ UNCHANGED sleepers
       ELSE /\ sleepers' = Append(sleepers, o)
            /\ Go(o, "asleep", <<>>, <<>>)
            /\ UNCHANGED <<lifecycle_active, lifecycle_waiters>>
    /\ UNCHANGED <<outer, active_inferences, left>>

\* Mutant: an operation ends without notify_all.
LeaveLifecycleQuietly(o) ==
    /\ Runs(o) /\ at[o] = "leave"
    /\ lifecycle_active' = FALSE
    /\ owner' = None
    /\ Go(o, "idle", <<>>, FirstOf(queue))
    /\ UNCHANGED <<sleepers, queue, active_inferences, lifecycle_waiters, left>>

LeaveLifecycle(o) ==
    /\ Runs(o) /\ at[o] = "leave"
    /\ lifecycle_active' = FALSE
    /\ owner' = None
    /\ sleepers' = <<>>
    /\ Go(o, "idle", sleepers, FirstOf(queue))
    /\ UNCHANGED <<queue, active_inferences, lifecycle_waiters, left>>

\* Mutant: the count is taken back only when the lease was granted.
GiveUpCounted(o) ==
    /\ Runs(o) /\ at[o] = "woken" /\ o \in cancelled
    /\ owner' = None
    /\ PassNotificationOn
    /\ Go(o, "idle", Rewoken, FirstOf(queue))
    /\ UNCHANGED <<queue, coordinator, left>>

\* CancelledError in Condition.wait: the count is taken back, the lock released.
GiveUp(o) ==
    /\ Runs(o) /\ at[o] = "woken" /\ o \in cancelled
    /\ lifecycle_waiters' = lifecycle_waiters - 1
    /\ owner' = None
    /\ PassNotificationOn
    /\ Go(o, "idle", Rewoken, FirstOf(queue))
    /\ UNCHANGED <<queue, active_inferences, lifecycle_active, left>>

\* CancelledError in Lock.acquire, or before it.
Dequeue(o) ==
    /\ Runs(o) /\ o \in cancelled
    /\ at[o] \in {"enter", "called", "dropped"}
    /\ queue' = Without(queue, o)
    /\ Go(o, "idle", <<>>,
          IF owner = None /\ at[o] # "enter" THEN FirstOf(Without(queue, o)) ELSE <<>>)
    /\ UNCHANGED <<sleepers, owner, coordinator, left>>

-----------------------------------------------------------------------------
(* What happens outside the loop.                                          *)

Wakes(t, p) ==
    /\ at' = [at EXCEPT ![t] = p]
    /\ ready' = Append(ready, t)

Arrive(t) ==
    /\ at[t] = "idle"
    /\ t \in Op => left[t] > 0
    /\ left' = [o \in Op |-> IF o = t THEN left[o] - 1 ELSE left[o]]
    /\ Wakes(t, "enter")
    /\ UNCHANGED <<cancelled, sleepers, outer, coordinator>>

\* The body ended: an answer, an error, a timeout or a cancellation.
Finish(t) ==
    /\ at[t] = "inside"
    /\ Wakes(t, "leave")
    /\ UNCHANGED <<cancelled, sleepers, outer, coordinator, left>>

\* Task.cancel, on a suspended task or on one the loop will run.
Cancel(t) ==
    /\ t \notin cancelled
    /\ cancelled' = cancelled \cup {t}
    /\ \/ /\ at[t] = "asleep"
          /\ sleepers' = Without(sleepers, t)
          /\ Wakes(t, "woken")
       \/ at[t] = "queued" /\ Wakes(t, "dropped") /\ UNCHANGED sleepers
       \/ at[t] \in {"enter", "woken", "called"} /\ UNCHANGED <<at, ready, sleepers>>
    /\ UNCHANGED <<outer, coordinator, left>>

-----------------------------------------------------------------------------

Step ==
    \/ \E c \in Client : Admit(c) \/ Sleep(c) \/ LeaveInference(c) \/ AbandonInference(c)
    \/ \E o \in Op : QueueUp(o) \/ Begin(o) \/ Announce(o) \/ Retry(o)
                     \/ LeaveLifecycle(o) \/ GiveUp(o) \/ Dequeue(o)

Next == Step \/ \E t \in Task : Arrive(t) \/ Finish(t) \/ Cancel(t)

Spec == Init /\ [][Next]_vars

\* The event loop runs what is ready; a request ends by its read timeout and an
\* operation by LeaseReturns of ModelRouter.
FairSpec == Spec /\ WF_vars(Step) /\ \A t \in Task : WF_vars(Finish(t))

-----------------------------------------------------------------------------
(* Properties.                                                             *)

\* Who is in the session, and the operation that waits inside it.
Readers == {c \in Client : at[c] \in {"inside", "leave"}}
Writers == {o \in Op : at[o] \in {"inside", "leave"}}
Asked == {o \in Op : at[o] \in {"asleep", "woken"}}
TheOne(S) == IF S = {} THEN None ELSE CHOOSE o \in S : TRUE

\* The order of operations: the one that has the lock, those that wait for it, those
\* that are about to run.
Came == {o \in Op : at[o] \notin {"idle", "dropped"}}
Ahead(s, p, q) == \E i, j \in DOMAIN s : i < j /\ s[i] = p /\ s[j] = q
Before(p, q) ==
    \/ p = owner /\ q # owner
    \/ Ahead(queue, p, q)
    \/ at[p] \in {"queued", "called"} /\ at[q] = "enter"
    \/ at[p] = "enter" /\ at[q] = "enter" /\ Ahead(ready, p, q)
Order == {b \in Came \X Came : Before(b[1], b[2])}

Lease == INSTANCE ModelLease WITH
    readers <- Readers, writer <- TheOne(Writers), came <- Came, before <- Order,
    asked <- TheOne(Asked)

\* The condition variable and the lock implement the lease: sharing, exclusion,
\* order of arrival, and no request admitted past an operation that has asked.
ImplementsLease == Lease!Spec

\* No lost wakeup.  With the Condition of every Python an operation sleeps only beside a
\* request whose end notifies it; with that of 3.13 or later nobody sleeps, once the
\* loop has nothing to run, unless somebody is inside whose end notifies (router.py
\* 250-280).
SomeoneWillWake ==
    /\ (\E o \in Op : at[o] = "asleep") => active_inferences > 0
    /\ PassesOn /\ ready = <<>> /\ sleepers # <<>>
         => lifecycle_active \/ active_inferences > 0

\* A requested operation is not starved by requests ("so a requested model swap
\* cannot starve indefinitely"), nor by cancelled operations before it.
OperationServed ==
    \A o \in Op : at[o] \notin {"idle", "inside"} ~> at[o] \in {"idle", "inside"}

\* A request that waits is let in once finitely many operations are over.
RequestServed ==
    \A c \in Client : at[c] \in {"asleep", "woken"} ~> at[c] \in {"idle", "inside"}

\* Whoever asks is served: operations and requests (router.py:250-280).
Served == OperationServed /\ RequestServed
=============================================================================
