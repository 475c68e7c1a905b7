------------------------------ MODULE Approvals ------------------------------
(***************************************************************************)
(* The approval gateway of X Omni: how a protected tool call becomes one   *)
(* durable approval, how concurrent decisions race for it, how it is run   *)
(* once, and which receipt survives.                                       *)
(*                                                                         *)
(* Code: core/state/db.py (one SQLite transaction per Store method),       *)
(* core/tools/registry.py (Registry.resolve_approval), and its callers in  *)
(* core/api/chat.py (WebSocket) and core/api/routes.py (REST).             *)
(*                                                                         *)
(* Atomicity: a Store method holds the store lock around one transaction,  *)
(* so it is one step. resolve_approval is cut at every commit and at every *)
(* await, the places where another decision, a cancellation or a crash of  *)
(* the process can come in between.                                        *)
(***************************************************************************)
EXTENDS Integers, FiniteSets

CONSTANTS
    Approval,        \* approval row ids
    Action,          \* exact bound identities (what action_digest hashes)
    Context,         \* (conversation, session, user) triples of a decider
    ContextOf,       \* the triple each action was bound to when it was asked
    Task,            \* decisions being handled
    Socket,          \* those from the WebSocket: they can be stopped, they
                     \* announce "executing" and continue the conversation
    SelfReporting,   \* calibration_iq_* actions: the result says if it ran
    MaxCrashes,      \* bound: crashes explored
    NoAction, NoReceipt

ASSUME ApprovalsAssumption ==
    /\ NoAction \notin Action
    /\ ContextOf \in [Action -> Context]
    /\ Socket \subseteq Task
    /\ SelfReporting \subseteq Action
    /\ MaxCrashes \in Nat
    /\ NoReceipt \notin [status: {"succeeded", "failed", "denied", "expired"},
                          executed: BOOLEAN, success: BOOLEAN, may: BOOLEAN]

VARIABLES
    subject,     \* approvals.idempotency_key: the action of a row
    status,      \* approvals.status ("none": no such row)
    call,        \* tool_calls.status of the row created with it
    receipt,     \* the execution_receipts row
    old,         \* rows requested longer than APPROVAL_TTL ago
    up,          \* the service runs
    executable,  \* actions whose tool is confirm_required with a handler
    pc, sel,     \* what each task does, and the approval it claimed
    runs,        \* observed: times the handler of an action was entered (2: more)
    turns,       \* observed: continuation turns started for a row (2: more)
    crashes

db   == <<subject, status, call, receipt>>
vars == <<db, old, up, executable, pc, sel, runs, turns, crashes>>

Terminal == {"succeeded", "failed", "denied", "expired"}
Status   == {"none", "pending", "executing"} \cup Terminal
Working  == {"claimed", "announcing", "running"}

Receipt(s, executed, success, may) ==
    [status |-> s, executed |-> executed, success |-> success, may |-> may]

Receipts ==
    [status: Terminal, executed: BOOLEAN, success: BOOLEAN, may: BOOLEAN]

TypeOK ==
    /\ subject \in [Approval -> Action \cup {NoAction}]
    /\ status \in [Approval -> Status]
    /\ call \in [Approval -> Status]
    /\ receipt \in [Approval -> Receipts \cup {NoReceipt}]
    /\ old \subseteq Approval
    /\ up \in BOOLEAN
    /\ executable \subseteq Action
    /\ pc \in [Task -> {"idle", "settled"} \cup Working]
    /\ sel \in [Task -> Approval]
    /\ runs \in [Action -> 0..2]
    /\ turns \in [Approval -> 0..2]
    /\ crashes \in 0..MaxCrashes

Init ==
    /\ subject = [i \in Approval |-> NoAction]
    /\ status = [i \in Approval |-> "none"]
    /\ call = [i \in Approval |-> "none"]
    /\ receipt = [i \in Approval |-> NoReceipt]
    /\ old = {}
    /\ up = TRUE
    /\ executable \in SUBSET Action
    /\ pc = [t \in Task |-> "idle"]
    /\ sel \in [Task -> Approval]
    /\ runs = [a \in Action |-> 0]
    /\ turns = [i \in Approval |-> 0]
    /\ crashes = 0

-----------------------------------------------------------------------------
(* Transactions of the store.                                              *)

\* Column f with the rows of S set to v.
Mark(f, S, v) == [i \in Approval |-> IF i \in S THEN v ELSE f[i]]

\* _insert_receipt_locked: a receipt that exists is kept.
Filed(S, r) ==
    [i \in Approval |-> IF i \in S /\ receipt[i] = NoReceipt THEN r ELSE receipt[i]]

\* Mutant: the tool call keeps its old status.
CloseKeepsCall(S, r) ==
    /\ status' = Mark(status, S, r.status)
    /\ receipt' = Filed(S, r)
    /\ UNCHANGED <<subject, call>>

\* One transaction ends the rows of S: approval, receipt and tool call.
Close(S, r) ==
    /\ status' = Mark(status, S, r.status)
    /\ call' = Mark(call, S, r.status)
    /\ receipt' = Filed(S, r)
    /\ UNCHANGED subject

\* Mutants: the status of the payload is filed; an interrupted run is denied.
RawRecoveredReceipt  == Receipt("indeterminate", FALSE, FALSE, TRUE)
RecoveredAsNeverRun  == Receipt("failed", FALSE, FALSE, FALSE)

ExpiredReceipt   == Receipt("expired", FALSE, FALSE, FALSE)
DeniedReceipt    == Receipt("denied", FALSE, FALSE, FALSE)
RecoveredReceipt == Receipt("failed", FALSE, FALSE, TRUE)

\* Mutants: the sweep also takes running rows; it takes every decided row.
StaleOrRunning == {i \in old : status[i] \in {"pending", "executing"}}
StaleOrDecided == {i \in old : status[i] \in {"pending", "denied", "failed"}}

\* The rows expire_stale_approvals closes, whoever's request runs it.
Stale == {i \in old : status[i] = "pending"}

Expire == Close(Stale, ExpiredReceipt)

Bound(i, c) == status[i] # "none" /\ c = ContextOf[subject[i]]

\* complete_approval: only an executing row is closed, anything else replays.
Complete(t, r) ==
    Close({i \in {sel[t]} : status[i] = "executing"}, r)

-----------------------------------------------------------------------------
(* The turn loop and the clock.                                            *)

\* Mutant: the identity is not looked up first.
RequestAlways(a) ==
    /\ up
    /\ a \in executable
    /\ \E i \in Approval :
         /\ status[i] = "none"
         /\ subject' = [subject EXCEPT ![i] = a]
         /\ status' = [Mark(status, Stale, "expired") EXCEPT ![i] = "pending"]
         /\ call' = [Mark(call, Stale, "expired") EXCEPT ![i] = "pending"]
         /\ receipt' = Filed(Stale, ExpiredReceipt)
    /\ UNCHANGED <<old, up, executable, pc, sel, runs, turns, crashes>>

\* invoke raises NeedsApproval, the turn calls create_approval for an action
\* that has no row, then get_approval. A call with the same identity finds the
\* row and changes nothing (see Consult).
Request(a) ==
    /\ up
    /\ a \in executable
    /\ \A i \in Approval : subject[i] # a
    /\ \E i \in Approval :
         /\ status[i] = "none"
         /\ subject' = [subject EXCEPT ![i] = a]
         /\ status' = [Mark(status, Stale, "expired") EXCEPT ![i] = "pending"]
         /\ call' = [Mark(call, Stale, "expired") EXCEPT ![i] = "pending"]
         /\ receipt' = Filed(Stale, ExpiredReceipt)
    /\ UNCHANGED <<old, up, executable, pc, sel, runs, turns, crashes>>

\* APPROVAL_TTL passes for a row.
Age(i) ==
    /\ status[i] # "none" /\ i \notin old
    /\ old' = old \cup {i}
    /\ UNCHANGED <<db, up, executable, pc, sel, runs, turns, crashes>>

\* Everything that only reads through get_approval: a snapshot, a refused
\* binding, a decision on a row that is no longer pending (a replay).
Consult ==
    /\ up
    /\ Expire
    /\ UNCHANGED <<old, up, executable, pc, sel, runs, turns, crashes>>

-----------------------------------------------------------------------------
(* Decisions.                                                              *)

\* approved = False: deny_approval.
Deny(i, c) ==
    /\ up
    /\ Bound(i, c)
    /\ status[i] = "pending" /\ i \notin Stale
    /\ status' = [Mark(status, Stale, "expired") EXCEPT ![i] = "denied"]
    /\ call' = [Mark(call, Stale, "expired") EXCEPT ![i] = "denied"]
    /\ receipt' = [Filed(Stale, ExpiredReceipt) EXCEPT
                     ![i] = IF receipt[i] = NoReceipt THEN DeniedReceipt ELSE receipt[i]]
    /\ UNCHANGED <<subject, old, up, executable, pc, sel, runs, turns, crashes>>

\* Mutant: the compare-and-set does not look at the status it replaces.
ClaimUnchecked(t, i, c) ==
    /\ up
    /\ pc[t] = "idle"
    /\ Bound(i, c)
    /\ status[i] \in {"pending", "executing"}
    /\ status' = [status EXCEPT ![i] = "executing"]
    /\ call' = [call EXCEPT ![i] = "executing"]
    /\ pc' = [pc EXCEPT ![t] = "claimed"]
    /\ sel' = [sel EXCEPT ![t] = i]
    /\ UNCHANGED <<subject, receipt, old, up, executable, runs, turns, crashes>>

\* approved = True: claim_approval's compare-and-set pending -> executing.
Claim(t, i, c) ==
    /\ up
    /\ pc[t] = "idle"
    /\ Bound(i, c)
    /\ status[i] = "pending" /\ i \notin Stale
    /\ status' = [Mark(status, Stale, "expired") EXCEPT ![i] = "executing"]
    /\ call' = [Mark(call, Stale, "expired") EXCEPT
                  ![i] = IF call[i] = "pending" THEN "executing" ELSE call[i]]
    /\ receipt' = Filed(Stale, ExpiredReceipt)
    /\ pc' = [pc EXCEPT ![t] = "claimed"]
    /\ sel' = [sel EXCEPT ![t] = i]
    /\ UNCHANGED <<subject, old, up, executable, runs, turns, crashes>>

\* Where a task goes when its row was closed and control returns to the caller:
\* the WebSocket still has the receipt to deliver and a turn to continue.
Return(t) == pc' = [pc EXCEPT ![t] = IF t \in Socket THEN "settled" ELSE "idle"]

\* The role was withdrawn, or the exact-read proof of a destructive
\* Calibration IQ action no longer validates.
Block(t) ==
    /\ pc[t] = "claimed"
    /\ Complete(t, Receipt("failed", FALSE, FALSE, FALSE))
    /\ Return(t)
    /\ UNCHANGED <<old, up, executable, sel, runs, turns, crashes>>

Proceed(t) ==
    /\ pc[t] = "claimed"
    /\ pc' = [pc EXCEPT ![t] = "announcing"]
    /\ UNCHANGED <<db, old, up, executable, sel, runs, turns, crashes>>

\* Stopped while "executing" is being delivered: closed, never run.
CancelBeforeStart(t) ==
    /\ t \in Socket
    /\ pc[t] = "announcing"
    /\ Complete(t, Receipt("failed", FALSE, FALSE, FALSE))
    /\ pc' = [pc EXCEPT ![t] = "idle"]
    /\ UNCHANGED <<old, up, executable, sel, runs, turns, crashes>>

\* Mutant: the refusal is returned, not raised, and taken for a result.
NotExecutableReturned(t) ==
    /\ pc[t] = "announcing"
    /\ subject[sel[t]] \notin executable
    /\ Complete(t, Receipt("succeeded", TRUE, TRUE, FALSE))
    /\ Return(t)
    /\ UNCHANGED <<old, up, executable, sel, runs, turns, crashes>>

\* ToolBlocked, raised inside the try that guards the handler: its receipt
\* takes complete_approval's default executed=True.
NotExecutable(t) ==
    /\ pc[t] = "announcing"
    /\ subject[sel[t]] \notin executable
    /\ Complete(t, Receipt("failed", TRUE, FALSE, FALSE))
    /\ Return(t)
    /\ UNCHANGED <<old, up, executable, sel, runs, turns, crashes>>

Bump(n) == IF n < 2 THEN n + 1 ELSE 2

Enter(t) ==
    /\ pc[t] = "announcing"
    /\ subject[sel[t]] \in executable
    /\ pc' = [pc EXCEPT ![t] = "running"]
    /\ runs' = [runs EXCEPT ![subject[sel[t]]] = Bump(@)]
    /\ UNCHANGED <<db, old, up, executable, sel, turns, crashes>>

\* The handler returned; _approved_result_error classified its result.
HandlerReturns(t) ==
    /\ pc[t] = "running"
    /\ \E verified, executed, may \in BOOLEAN :
         /\ subject[sel[t]] \in SelfReporting \/ executed
         /\ verified => executed /\ ~may
         /\ Complete(t, Receipt(IF verified THEN "succeeded" ELSE "failed",
                                executed, verified, may))
    /\ Return(t)
    /\ UNCHANGED <<old, up, executable, sel, runs, turns, crashes>>

HandlerRaises(t) ==
    /\ pc[t] = "running"
    /\ Complete(t, Receipt("failed", TRUE, FALSE, FALSE))
    /\ Return(t)
    /\ UNCHANGED <<old, up, executable, sel, runs, turns, crashes>>

\* Mutant: CancelledError escapes without closing the claim.
CancelRunningStrands(t) ==
    /\ pc[t] = "running"
    /\ pc' = [pc EXCEPT ![t] = "idle"]
    /\ UNCHANGED <<db, old, up, executable, sel, runs, turns, crashes>>

\* Stop, disconnect or shutdown while the handler runs.
CancelRunning(t) ==
    /\ pc[t] = "running"
    /\ Complete(t, Receipt("failed", TRUE, FALSE, TRUE))
    /\ pc' = [pc EXCEPT ![t] = "idle"]
    /\ UNCHANGED <<old, up, executable, sel, runs, turns, crashes>>

\* Mutant: a continuation can be started again from the same receipt.
ContinueAgain(t) ==
    /\ pc[t] = "settled"
    /\ turns' = [turns EXCEPT ![sel[t]] = Bump(@)]
    /\ UNCHANGED <<db, old, up, executable, pc, sel, runs, crashes>>

\* The CAS winner synthesizes one continuation of the conversation...
Continue(t) ==
    /\ pc[t] = "settled"
    /\ pc' = [pc EXCEPT ![t] = "idle"]
    /\ turns' = [turns EXCEPT ![sel[t]] = Bump(@)]
    /\ UNCHANGED <<db, old, up, executable, sel, runs, crashes>>

\* ... unless it is stopped while it delivers the receipt.
CancelSettled(t) ==
    /\ pc[t] = "settled"
    /\ pc' = [pc EXCEPT ![t] = "idle"]
    /\ UNCHANGED <<db, old, up, executable, sel, runs, turns, crashes>>

-----------------------------------------------------------------------------
(* The process.                                                            *)

\* The service stops, by a crash or to be restarted.
Crash ==
    /\ up
    /\ crashes < MaxCrashes
    /\ up' = FALSE
    /\ pc' = [t \in Task |-> "idle"]
    /\ crashes' = crashes + 1
    /\ UNCHANGED <<db, old, executable, sel, runs, turns>>

\* Mutants: interrupted rows are offered again; they are left as they are.
RestartReopens ==
    /\ ~up
    /\ up' = TRUE
    /\ status' = [i \in Approval |->
                    IF status[i] = "executing" THEN "pending" ELSE status[i]]
    /\ call' = status'
    /\ executable' \in SUBSET Action
    /\ UNCHANGED <<subject, receipt, old, pc, sel, runs, turns, crashes>>

RestartForgets ==
    /\ ~up
    /\ up' = TRUE
    /\ executable' \in SUBSET Action
    /\ UNCHANGED <<db, old, pc, sel, runs, turns, crashes>>

\* Store.__init__ runs recover_interrupted_approvals; tools.yaml and the
\* registered handlers may differ from the ones the request was made under.
Restart ==
    /\ ~up
    /\ up' = TRUE
    /\ Close({i \in Approval : status[i] = "executing"}, RecoveredReceipt)
    /\ executable' \in SUBSET Action
    /\ UNCHANGED <<old, pc, sel, runs, turns, crashes>>

\* What a task that holds a claim does next.
Step(t) ==
    \/ Block(t) \/ Proceed(t)
    \/ NotExecutable(t) \/ Enter(t)
    \/ HandlerReturns(t) \/ HandlerRaises(t)
    \/ Continue(t)

Cancel(t) == CancelBeforeStart(t) \/ CancelRunning(t) \/ CancelSettled(t)

Next ==
    \/ \E a \in Action : Request(a)
    \/ \E i \in Approval : Age(i)
    \/ Consult
    \/ \E i \in Approval, c \in Context : Deny(i, c)
    \/ \E t \in Task, i \in Approval, c \in Context : Claim(t, i, c)
    \/ \E t \in Task : Step(t) \/ Cancel(t)
    \/ Crash
    \/ Restart

\* The event loop resumes every runnable task, a handler ends (its own timeouts
\* see to it), and a service that stopped is started again.
Fairness ==
    /\ \A t \in Task : WF_vars(Step(t))
    /\ WF_vars(Restart)

Spec     == Init /\ [][Next]_vars
FairSpec == Spec /\ Fairness

-----------------------------------------------------------------------------
(* Safety.                                                                 *)

\* The approvals row, the tool_calls row and the receipt of a decision always
\* tell one story: a receipt exists exactly for a terminal row, with its status,
\* and only a succeeded one reports success. Five methods write all three.
LedgerAgrees ==
    \A i \in Approval :
        /\ call[i] = status[i]
        /\ (receipt[i] # NoReceipt) <=> (status[i] \in Terminal)
        /\ receipt[i] # NoReceipt =>
             /\ receipt[i].status = status[i]
             /\ receipt[i].success <=> (status[i] = "succeeded")

\* create_approval reuses the row of an identity: an action never has two.
OneApprovalPerAction ==
    \A i, j \in Approval : subject[i] = subject[j] /\ subject[i] # NoAction => i = j

\* Whatever decisions race, replay or survive a crash, the handler of a
\* protected action is entered at most once.
AtMostOnce == \A a \in Action : runs[a] <= 1

\* A row still waiting, denied or expired proves its handler was never entered.
UndecidedNeverRan ==
    \A i \in Approval :
        status[i] \in {"pending", "denied", "expired"} => runs[subject[i]] = 0

\* No receipt hides an execution: one that says neither "executed" nor "may
\* have executed" belongs to a handler that was never entered (calibration_iq_*
\* results speak for themselves and are exempt).
NoHiddenExecution ==
    \A i \in Approval :
        receipt[i] # NoReceipt /\ subject[i] \notin SelfReporting =>
            (runs[subject[i]] > 0 => receipt[i].executed \/ receipt[i].may)

\* Success is never claimed for a handler that was not entered.
SuccessIsReal ==
    \A i \in Approval :
        status[i] = "succeeded" => runs[subject[i]] = 1 /\ receipt[i].executed

\* While the service runs, an executing row is owned by exactly one live task:
\* none is stranded by a stop, a refusal or an error, and none is shared.
ClaimOwned ==
    /\ up => \A i \in Approval :
               status[i] = "executing" <=> \E t \in Task : pc[t] \in Working /\ sel[t] = i
    /\ \A t, u \in Task :
         pc[t] \in Working /\ pc[u] \in Working /\ sel[t] = sel[u] => t = u

\* Only the CAS winner continues the conversation, once, and only after a
\* receipt of an executed-or-blocked action exists.
OneContinuation ==
    \A i \in Approval :
        /\ turns[i] <= 1
        /\ turns[i] > 0 => status[i] \in {"succeeded", "failed"}

\* A receipt, once written, is never rewritten, not by a late completion, an
\* expiry sweep or the recovery of a restart; nor is the row reopened.
ReceiptsFinal ==
    [][\A i \in Approval : receipt[i] # NoReceipt =>
          receipt'[i] = receipt[i] /\ status'[i] = status[i]]_vars

\* What the runs check of the tables, of the executions and of the claims.
LedgerTruth == LedgerAgrees /\ OneApprovalPerAction
ExecutionTruth == AtMostOnce /\ UndecidedNeverRan /\ NoHiddenExecution /\ SuccessIsReal
ClaimTruth == ClaimOwned /\ OneContinuation

-----------------------------------------------------------------------------
(* Liveness.                                                               *)

\* A claimed approval reaches a terminal receipt: by its task, or by the
\* recovery after the crash that killed the task.
ClaimSettles ==
    \A i \in Approval : (status[i] = "executing") ~> (status[i] \in Terminal)

-----------------------------------------------------------------------------
(* What the gateway promises, per action: ExactlyOnce.                     *)

Is(a, S) == \E i \in Approval : subject[i] = a /\ status[i] \in S

phaseOf == [a \in Action |->
    CASE Is(a, {"succeeded"}) -> "succeeded"
      [] Is(a, {"failed", "denied", "expired"}) -> "closed"
      [] Is(a, {"executing"}) -> IF runs[a] = 0 THEN "claimed" ELSE "entered"
      [] Is(a, {"pending"}) -> "asked"
      [] OTHER -> "unasked"]

Promise == INSTANCE ExactlyOnce WITH phase <- phaseOf

\* Every step of the gateway is a step, or a stutter, of ExactlyOnce.
ImplementsExactlyOnce == Promise!Spec
=============================================================================
