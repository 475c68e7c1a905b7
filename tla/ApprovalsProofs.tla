--------------------------- MODULE ApprovalsProofs ---------------------------
(***************************************************************************)
(* Theorems about the approval gateway, for every number of approvals,     *)
(* actions, tasks and crashes: the invariants MCApprovals checks, that     *)
(* receipts are final, and that Approvals implements ExactlyOnce.          *)
(***************************************************************************)
EXTENDS Approvals, TLAPS

\* A row exists exactly when it is the row of an action.
RowsBound == \A i \in Approval : (subject[i] = NoAction) <=> (status[i] = "none")

\* A stopped service handles no decision.
NoTaskWhenDown == ~up => \A t \in Task : pc[t] = "idle"

\* Tasks that hold a row, running it or about to continue its conversation.
Holding == Working \cup {"settled"}

\* A row is held by one task at a time, from the claim to the continuation.
OneHolder ==
    \A t, u \in Task :
        pc[t] \in Holding /\ pc[u] \in Holding /\ sel[t] = sel[u] => t = u

\* How often a handler was entered, told from the state of its row and task.
RunsMatch ==
    /\ \A a \in Action : runs[a] > 0 => \E i \in Approval : subject[i] = a
    /\ \A t \in Task : pc[t] \in {"claimed", "announcing"} => runs[subject[sel[t]]] = 0
    /\ \A t \in Task : pc[t] = "running" => runs[subject[sel[t]]] = 1

\* A row is continued only by the task that settled it, which then lets go.
TurnsMatch ==
    /\ \A t \in Task : pc[t] = "settled" =>
         status[sel[t]] \in {"succeeded", "failed"} /\ turns[sel[t]] = 0
    /\ \A i \in Approval : status[i] \in {"none", "pending", "executing"} => turns[i] = 0

IInv ==
    /\ TypeOK /\ RowsBound /\ NoTaskWhenDown /\ OneHolder
    /\ LedgerAgrees /\ OneApprovalPerAction /\ ClaimOwned
    /\ RunsMatch /\ AtMostOnce /\ UndecidedNeverRan /\ NoHiddenExecution
    /\ SuccessIsReal
    /\ TurnsMatch /\ OneContinuation

-----------------------------------------------------------------------------
(* What one transaction does to the ledger.                                *)

\* Rows one transaction may end, and the receipts it may end them with.
Open == {i \in Approval : status[i] \in {"pending", "executing"}}
Truthful(r) == r \in Receipts /\ (r.success <=> r.status = "succeeded")

\* Closing open rows with a truthful receipt keeps the three tables in
\* agreement; no other row is touched.
LEMMA CloseLedger ==
    ASSUME TypeOK, RowsBound, LedgerAgrees,
           NEW S \in SUBSET Open, NEW r, Truthful(r), Close(S, r)
    PROVE  /\ status' \in [Approval -> Status] /\ call' \in [Approval -> Status]
           /\ receipt' \in [Approval -> Receipts \cup {NoReceipt}]
           /\ RowsBound' /\ LedgerAgrees'
           /\ \A i \in Approval : i \in S =>
                status'[i] = r.status /\ receipt'[i] = r
           /\ \A i \in Approval : i \notin S =>
                status'[i] = status[i] /\ receipt'[i] = receipt[i]
<1>1. /\ status' \in [Approval -> Status] /\ call' \in [Approval -> Status]
      /\ receipt' \in [Approval -> Receipts \cup {NoReceipt}]
  BY DEF Close, Mark, Filed, TypeOK, Truthful, Receipts, Status, Terminal
<1>2. \A i \in Approval : i \in S =>
        status'[i] = r.status /\ call'[i] = r.status /\ receipt'[i] = r
  BY DEF Close, Mark, Filed, TypeOK, LedgerAgrees, Open, Terminal
<1>3. \A i \in Approval : i \notin S =>
        status'[i] = status[i] /\ call'[i] = call[i] /\ receipt'[i] = receipt[i]
  BY DEF Close, Mark, Filed, TypeOK
<1>4. RowsBound'
  BY <1>2, <1>3 DEF RowsBound, Close, Open, Truthful, Receipts, Terminal
<1>5. LedgerAgrees'
  <2> SUFFICES ASSUME NEW i \in Approval
               PROVE  /\ call'[i] = status'[i]
                      /\ (receipt'[i] # NoReceipt) <=> (status'[i] \in Terminal)
                      /\ receipt'[i] # NoReceipt =>
                           /\ receipt'[i].status = status'[i]
                           /\ receipt'[i].success <=> (status'[i] = "succeeded")
    BY DEF LedgerAgrees
  <2>1. CASE i \in S
    BY <2>1, <1>2, ApprovalsAssumption DEF Truthful, Receipts, Terminal
  <2>2. CASE i \notin S
    BY <2>2, <1>3 DEF LedgerAgrees
  <2>3. QED BY <2>1, <2>2
<1>6. QED BY <1>1, <1>2, <1>3, <1>4, <1>5

\* The receipts the code files are truthful in that sense.
LEMMA TruthfulReceipts ==
    /\ Truthful(ExpiredReceipt) /\ Truthful(DeniedReceipt) /\ Truthful(RecoveredReceipt)
    /\ \A e, m \in BOOLEAN : Truthful(Receipt("failed", e, FALSE, m))
    /\ \A e, m \in BOOLEAN : Truthful(Receipt("succeeded", e, TRUE, m))
BY DEF Truthful, ExpiredReceipt, DeniedReceipt, RecoveredReceipt, Receipt, Receipts,
       Terminal

\* A row that holds a receipt is told from one that holds none.
LEMMA RealReceipts == \A r : Truthful(r) => r # NoReceipt
BY ApprovalsAssumption DEF ApprovalsAssumption, Truthful, Receipts, Terminal

\* Expiry and denial close rows with receipts of their own status, not successes.
LEMMA ClosingReceipts ==
    /\ ExpiredReceipt # NoReceipt /\ DeniedReceipt # NoReceipt
    /\ ExpiredReceipt.status = "expired" /\ ~ExpiredReceipt.success
    /\ DeniedReceipt.status = "denied" /\ ~DeniedReceipt.success
<1>1. ExpiredReceipt # NoReceipt /\ DeniedReceipt # NoReceipt
  BY TruthfulReceipts, RealReceipts
<1>2. QED BY <1>1 DEF ExpiredReceipt, DeniedReceipt, Receipt

\* complete_approval, called by the task that runs a row, ends that row and
\* touches no other.
LEMMA CompleteOne ==
    ASSUME IInv, NEW t \in Task, pc[t] \in Working,
           NEW r, Truthful(r), Complete(t, r)
    PROVE  /\ sel[t] \in Approval /\ status[sel[t]] = "executing"
           /\ status' \in [Approval -> Status] /\ call' \in [Approval -> Status]
           /\ receipt' \in [Approval -> Receipts \cup {NoReceipt}]
           /\ subject' = subject /\ RowsBound' /\ LedgerAgrees'
           /\ status'[sel[t]] = r.status /\ receipt'[sel[t]] = r
           /\ \A i \in Approval : i # sel[t] =>
                status'[i] = status[i] /\ receipt'[i] = receipt[i]
<1>1. sel[t] \in Approval /\ status[sel[t]] = "executing"
  BY DEF IInv, TypeOK, ClaimOwned, NoTaskWhenDown, Working
<1>2. {i \in {sel[t]} : status[i] = "executing"} = {sel[t]}
  BY <1>1
<1>3. Close({sel[t]}, r) /\ {sel[t]} \in SUBSET Open
  BY <1>1, <1>2 DEF Complete, Open
<1>4. TypeOK /\ RowsBound /\ LedgerAgrees
  BY DEF IInv
<1>5. /\ status' \in [Approval -> Status] /\ call' \in [Approval -> Status]
      /\ receipt' \in [Approval -> Receipts \cup {NoReceipt}]
      /\ RowsBound' /\ LedgerAgrees'
      /\ \A i \in Approval : i \in {sel[t]} =>
           status'[i] = r.status /\ receipt'[i] = r
      /\ \A i \in Approval : i \notin {sel[t]} =>
           status'[i] = status[i] /\ receipt'[i] = receipt[i]
  BY <1>3, <1>4, CloseLedger
<1>6. subject' = subject
  BY <1>3 DEF Close
<1>7. QED BY <1>1, <1>5, <1>6

-----------------------------------------------------------------------------
(* The inductive step, one lemma per action.                               *)

\* create_approval: a new row is bound to an action that had none.
LEMMA RequestStep ==
    ASSUME IInv, NEW a \in Action, Request(a)
    PROVE  IInv'
<1>0. PICK k \in Approval :
        /\ status[k] = "none"
        /\ subject' = [subject EXCEPT ![k] = a]
        /\ status' = [Mark(status, Stale, "expired") EXCEPT ![k] = "pending"]
        /\ call' = [Mark(call, Stale, "expired") EXCEPT ![k] = "pending"]
        /\ receipt' = Filed(Stale, ExpiredReceipt)
  BY DEF Request
<1>1. TypeOK'
  BY <1>0, ApprovalsAssumption DEF IInv, Request, Stale, Mark, Filed, Status, Terminal, ExpiredReceipt, Receipt, Receipts, TypeOK, Working, db, ApprovalsAssumption
<1>2. RowsBound'
  BY <1>0, ApprovalsAssumption DEF IInv, Request, Stale, Mark, Filed, Status, Terminal, ExpiredReceipt, Receipt, Receipts, TypeOK, RowsBound, ApprovalsAssumption
<1>3. NoTaskWhenDown'
  BY <1>0 DEF IInv, Request, Stale, Mark, Filed, Status, Terminal, ExpiredReceipt, Receipt, Receipts, TypeOK, NoTaskWhenDown
<1>4. OneHolder'
  BY <1>0 DEF IInv, Request, Stale, Mark, Filed, Status, Terminal, ExpiredReceipt, Receipt, Receipts, TypeOK, OneHolder, Holding, Working, ClaimOwned, TurnsMatch
<1>5. LedgerAgrees'
  <2> SUFFICES ASSUME NEW j \in Approval
               PROVE  /\ call'[j] = status'[j]
                      /\ (receipt'[j] # NoReceipt) <=> (status'[j] \in Terminal)
                      /\ receipt'[j] # NoReceipt =>
                           /\ receipt'[j].status = status'[j]
                           /\ receipt'[j].success <=> (status'[j] = "succeeded")
    BY DEF LedgerAgrees
  <2>1. CASE j = k
    BY <2>1, <1>0, ApprovalsAssumption DEF IInv, Request, Stale, Mark, Filed, Status, Terminal, ExpiredReceipt, Receipt, Receipts, TypeOK, LedgerAgrees, ApprovalsAssumption
  <2>2. CASE j # k /\ j \in Stale
    <3>1. receipt[j] = NoReceipt /\ call[j] = "pending"
      BY <2>2 DEF IInv, Stale, LedgerAgrees, Terminal
    <3>2. status'[j] = "expired" /\ call'[j] = "expired" /\ receipt'[j] = ExpiredReceipt
      BY <2>2, <3>1, <1>0 DEF Request, Mark, Filed, IInv, TypeOK
    <3>3. QED BY <3>2, ClosingReceipts DEF Terminal
  <2>3. CASE j # k /\ j \notin Stale
    <3>1. status'[j] = status[j] /\ call'[j] = call[j] /\ receipt'[j] = receipt[j]
      BY <2>3, <1>0 DEF Request, Mark, Filed, IInv, TypeOK
    <3>2. QED BY <3>1 DEF IInv, LedgerAgrees
  <2>4. QED BY <2>1, <2>2, <2>3
<1>6. OneApprovalPerAction'
  BY <1>0 DEF IInv, Request, Stale, Mark, Filed, Status, Terminal, ExpiredReceipt, Receipt, Receipts, TypeOK, OneApprovalPerAction
<1>7. ClaimOwned'
  BY <1>0 DEF IInv, Request, Stale, Mark, Filed, Status, Terminal, ExpiredReceipt, Receipt, Receipts, TypeOK, ClaimOwned, Working, OneHolder, Holding, NoTaskWhenDown, TurnsMatch
<1>8. RunsMatch'
  <2>1. \A b \in Action : runs'[b] > 0 => \E j \in Approval : subject'[j] = b
    <3> SUFFICES ASSUME NEW b \in Action, runs[b] > 0
                 PROVE  \E j \in Approval : subject'[j] = b
      BY DEF Request
    <3>1. PICK j \in Approval : subject[j] = b
      BY DEF IInv, RunsMatch
    <3>2. j # k
      BY <3>1, <1>0, ApprovalsAssumption DEF IInv, RowsBound, ApprovalsAssumption
    <3>3. QED BY <3>1, <3>2, <1>0 DEF IInv, TypeOK
  <2>2. \A t \in Task : pc[t] \in Working => sel[t] # k
    BY <1>0 DEF IInv, ClaimOwned, NoTaskWhenDown, TypeOK, Working
  <2>3. \A t \in Task : pc[t] \in Working =>
          subject'[sel[t]] = subject[sel[t]]
    BY <2>2, <1>0 DEF IInv, TypeOK
  <2>4. QED BY <2>1, <2>3 DEF IInv, Request, RunsMatch, Working
<1>9. AtMostOnce'
  BY <1>0 DEF IInv, Request, Stale, Mark, Filed, Status, Terminal, ExpiredReceipt, Receipt, Receipts, TypeOK, AtMostOnce, RunsMatch
<1>10. UndecidedNeverRan'
  BY <1>0 DEF IInv, Request, Stale, Mark, Filed, Status, Terminal, ExpiredReceipt, Receipt, Receipts, TypeOK, UndecidedNeverRan, RunsMatch, ClaimOwned, Working, OneApprovalPerAction, RowsBound
<1>11. NoHiddenExecution'
  BY <1>0, ApprovalsAssumption DEF IInv, Request, Stale, Mark, Filed, Status, Terminal, ExpiredReceipt, Receipt, Receipts, TypeOK, NoHiddenExecution, RunsMatch, OneApprovalPerAction, RowsBound, LedgerAgrees, ClaimOwned, Working, UndecidedNeverRan, ApprovalsAssumption
<1>12. SuccessIsReal'
  BY <1>0 DEF IInv, Request, Stale, Mark, Filed, Status, Terminal, ExpiredReceipt, Receipt, Receipts, TypeOK, SuccessIsReal, RunsMatch, OneApprovalPerAction, RowsBound, LedgerAgrees, ClaimOwned, Working
<1>13. TurnsMatch'
  BY <1>0 DEF IInv, Request, Stale, Mark, Filed, Status, Terminal, ExpiredReceipt, Receipt, Receipts, TypeOK, TurnsMatch, ClaimOwned, Working, OneHolder, Holding, NoTaskWhenDown
<1>14. OneContinuation'
  BY <1>0 DEF IInv, Request, Stale, Mark, Filed, Status, Terminal, ExpiredReceipt, Receipt, Receipts, TypeOK, OneContinuation, TurnsMatch
<1>15. QED BY <1>1, <1>2, <1>3, <1>4, <1>5, <1>6, <1>7, <1>8, <1>9, <1>10, <1>11, <1>12, <1>13, <1>14 DEF IInv

\* Passing time only makes pending rows stale.
LEMMA AgeStep ==
    ASSUME IInv, NEW i \in Approval, Age(i)
    PROVE  IInv'
<1>1. /\ RowsBound'
      /\ NoTaskWhenDown'
      /\ OneHolder'
      /\ LedgerAgrees'
      /\ OneApprovalPerAction'
      /\ ClaimOwned'
      /\ RunsMatch'
      /\ AtMostOnce'
      /\ UndecidedNeverRan'
      /\ NoHiddenExecution'
      /\ SuccessIsReal'
      /\ TurnsMatch'
      /\ OneContinuation'
  BY DEF IInv, Age, AtMostOnce, ClaimOwned, Holding, LedgerAgrees, NoHiddenExecution, NoTaskWhenDown, OneApprovalPerAction, OneContinuation, OneHolder, RowsBound, RunsMatch, SuccessIsReal, TurnsMatch, TypeOK, UndecidedNeverRan, Working, db
<1>2. TypeOK'
  BY ApprovalsAssumption DEF IInv, Age, TypeOK, Working, db, ApprovalsAssumption
<1>3. QED BY <1>1, <1>2 DEF IInv

\* get_approval sweeps stale rows; only pending ones expire.
LEMMA ConsultStep ==
    ASSUME IInv, Consult
    PROVE  IInv'
<1> DEFINE S == Stale
<1>1. Close(S, ExpiredReceipt)
  BY DEF Consult, Expire
<1>2. Truthful(ExpiredReceipt) /\ S \in SUBSET Open
  BY TruthfulReceipts DEF IInv, TypeOK, Open, Stale
<1>3. TypeOK /\ RowsBound /\ LedgerAgrees
  BY DEF IInv
<1>4. /\ status' \in [Approval -> Status] /\ call' \in [Approval -> Status]
      /\ receipt' \in [Approval -> Receipts \cup {NoReceipt}]
      /\ RowsBound' /\ LedgerAgrees'
      /\ \A i \in Approval : i \in S =>
           status'[i] = ExpiredReceipt.status /\ receipt'[i] = ExpiredReceipt
      /\ \A i \in Approval : i \notin S =>
           status'[i] = status[i] /\ receipt'[i] = receipt[i]
  BY <1>1, <1>2, <1>3, CloseLedger
<1>5. subject' = subject
  BY <1>1 DEF Close
<1>6. TypeOK'
  BY <1>4, <1>5, ApprovalsAssumption DEF IInv, Consult, TypeOK, Working, db, Receipt, ExpiredReceipt, Stale, Open, ApprovalsAssumption
<1>7. NoTaskWhenDown'
  BY <1>4, <1>5 DEF IInv, Consult, TypeOK, NoTaskWhenDown, Receipt, ExpiredReceipt, Stale, Open
<1>8. OneHolder'
  BY <1>4, <1>5 DEF IInv, Consult, TypeOK, OneHolder, Holding, Working, ClaimOwned, TurnsMatch, Receipt, ExpiredReceipt, Stale, Open
<1>9. OneApprovalPerAction'
  BY <1>4, <1>5 DEF IInv, Consult, TypeOK, OneApprovalPerAction, Receipt, ExpiredReceipt, Stale, Open
<1>10. ClaimOwned'
  BY <1>4, <1>5 DEF IInv, Consult, TypeOK, ClaimOwned, Working, OneHolder, Holding, NoTaskWhenDown, TurnsMatch, Receipt, ExpiredReceipt, Stale, Open
<1>11. RunsMatch'
  BY <1>4, <1>5 DEF IInv, Consult, TypeOK, RunsMatch, OneHolder, Holding, ClaimOwned, Working, RowsBound, OneApprovalPerAction, UndecidedNeverRan, NoTaskWhenDown, Receipt, ExpiredReceipt, Stale, Open
<1>12. AtMostOnce'
  BY <1>4, <1>5 DEF IInv, Consult, TypeOK, AtMostOnce, RunsMatch, Receipt, ExpiredReceipt, Stale, Open
<1>13. UndecidedNeverRan'
  BY <1>4, <1>5 DEF IInv, Consult, TypeOK, UndecidedNeverRan, RunsMatch, ClaimOwned, Working, OneApprovalPerAction, RowsBound, Receipt, ExpiredReceipt, Stale, Open
<1>14. NoHiddenExecution'
  BY <1>4, <1>5, ApprovalsAssumption DEF IInv, Consult, TypeOK, NoHiddenExecution, RunsMatch, OneApprovalPerAction, RowsBound, LedgerAgrees, ClaimOwned, Working, Terminal, UndecidedNeverRan, Receipt, ExpiredReceipt, Stale, Open, ApprovalsAssumption
<1>15. SuccessIsReal'
  BY <1>4, <1>5 DEF IInv, Consult, TypeOK, SuccessIsReal, RunsMatch, OneApprovalPerAction, RowsBound, LedgerAgrees, ClaimOwned, Working, Terminal, Receipt, ExpiredReceipt, Stale, Open
<1>16. TurnsMatch'
  BY <1>4, <1>5 DEF IInv, Consult, TypeOK, TurnsMatch, ClaimOwned, Working, OneHolder, Holding, NoTaskWhenDown, Receipt, ExpiredReceipt, Stale, Open
<1>17. OneContinuation'
  BY <1>4, <1>5 DEF IInv, Consult, TypeOK, OneContinuation, TurnsMatch, Receipt, ExpiredReceipt, Stale, Open
<1>18. QED BY <1>4, <1>6, <1>7, <1>8, <1>9, <1>10, <1>11, <1>12, <1>13, <1>14, <1>15, <1>16, <1>17 DEF IInv

\* deny_approval ends a pending row that was never run, or returns what is there.
LEMMA DenyStep ==
    ASSUME IInv, NEW i \in Approval, NEW c \in Context, Deny(i, c)
    PROVE  IInv'
<1>1. TypeOK'
  BY ApprovalsAssumption DEF IInv, Deny, Stale, Mark, Filed, Status, Terminal, ExpiredReceipt, Receipt, Receipts, DeniedReceipt, Bound, TypeOK, Working, db, ApprovalsAssumption
<1>2. RowsBound'
  BY ApprovalsAssumption DEF IInv, Deny, Stale, Mark, Filed, Status, Terminal, ExpiredReceipt, Receipt, Receipts, DeniedReceipt, Bound, TypeOK, RowsBound, ApprovalsAssumption
<1>3. NoTaskWhenDown'
  BY DEF IInv, Deny, Stale, Mark, Filed, Status, Terminal, ExpiredReceipt, Receipt, Receipts, DeniedReceipt, Bound, TypeOK, NoTaskWhenDown
<1>4. OneHolder'
  BY DEF IInv, Deny, Stale, Mark, Filed, Status, Terminal, ExpiredReceipt, Receipt, Receipts, DeniedReceipt, Bound, TypeOK, OneHolder, Holding, Working, ClaimOwned, TurnsMatch
<1>5. LedgerAgrees'
  <2> SUFFICES ASSUME NEW j \in Approval
               PROVE  /\ call'[j] = status'[j]
                      /\ (receipt'[j] # NoReceipt) <=> (status'[j] \in Terminal)
                      /\ receipt'[j] # NoReceipt =>
                           /\ receipt'[j].status = status'[j]
                           /\ receipt'[j].success <=> (status'[j] = "succeeded")
    BY DEF LedgerAgrees
  <2>0. status'[i] = "denied" /\ call'[i] = "denied" /\ receipt'[i] = DeniedReceipt
    <3>1. receipt[i] = NoReceipt
      BY DEF Deny, IInv, LedgerAgrees, Terminal
    <3>2. QED BY <3>1 DEF Deny, IInv, TypeOK, Mark, Filed
  <2>1. CASE j = i
    BY <2>1, <2>0, ClosingReceipts DEF Terminal
  <2>2. CASE j # i /\ j \in Stale
    <3>1. receipt[j] = NoReceipt /\ call[j] = "pending"
      BY <2>2 DEF IInv, Stale, LedgerAgrees, Terminal
    <3>2. status'[j] = "expired" /\ call'[j] = "expired" /\ receipt'[j] = ExpiredReceipt
      BY <2>2, <3>1 DEF Deny, Mark, Filed, IInv, TypeOK
    <3>3. QED BY <3>2, ClosingReceipts DEF Terminal
  <2>3. CASE j # i /\ j \notin Stale
    <3>1. status'[j] = status[j] /\ call'[j] = call[j] /\ receipt'[j] = receipt[j]
      BY <2>3 DEF Deny, Mark, Filed, IInv, TypeOK
    <3>2. QED BY <3>1 DEF IInv, LedgerAgrees
  <2>4. QED BY <2>1, <2>2, <2>3
<1>6. OneApprovalPerAction'
  BY DEF IInv, Deny, Stale, Mark, Filed, Status, Terminal, ExpiredReceipt, Receipt, Receipts, DeniedReceipt, Bound, TypeOK, OneApprovalPerAction
<1>7. ClaimOwned'
  BY DEF IInv, Deny, Stale, Mark, Filed, Status, Terminal, ExpiredReceipt, Receipt, Receipts, DeniedReceipt, Bound, TypeOK, ClaimOwned, Working, OneHolder, Holding, NoTaskWhenDown, TurnsMatch
<1>8. RunsMatch'
  BY DEF IInv, Deny, Stale, Mark, Filed, Status, Terminal, ExpiredReceipt, Receipt, Receipts, DeniedReceipt, Bound, TypeOK, RunsMatch, OneHolder, Holding, ClaimOwned, Working, RowsBound, OneApprovalPerAction, UndecidedNeverRan, NoTaskWhenDown
<1>9. AtMostOnce'
  BY DEF IInv, Deny, Stale, Mark, Filed, Status, Terminal, ExpiredReceipt, Receipt, Receipts, DeniedReceipt, Bound, TypeOK, AtMostOnce, RunsMatch
<1>10. UndecidedNeverRan'
  BY DEF IInv, Deny, Stale, Mark, Filed, Status, Terminal, ExpiredReceipt, Receipt, Receipts, DeniedReceipt, Bound, TypeOK, UndecidedNeverRan, RunsMatch, ClaimOwned, Working, OneApprovalPerAction, RowsBound
<1>11. NoHiddenExecution'
  BY ApprovalsAssumption DEF IInv, Deny, Stale, Mark, Filed, Status, Terminal, ExpiredReceipt, Receipt, Receipts, DeniedReceipt, Bound, TypeOK, NoHiddenExecution, RunsMatch, OneApprovalPerAction, RowsBound, LedgerAgrees, ClaimOwned, Working, UndecidedNeverRan, ApprovalsAssumption
<1>12. SuccessIsReal'
  BY DEF IInv, Deny, Stale, Mark, Filed, Status, Terminal, ExpiredReceipt, Receipt, Receipts, DeniedReceipt, Bound, TypeOK, SuccessIsReal, RunsMatch, OneApprovalPerAction, RowsBound, LedgerAgrees, ClaimOwned, Working
<1>13. TurnsMatch'
  BY DEF IInv, Deny, Stale, Mark, Filed, Status, Terminal, ExpiredReceipt, Receipt, Receipts, DeniedReceipt, Bound, TypeOK, TurnsMatch, ClaimOwned, Working, OneHolder, Holding, NoTaskWhenDown
<1>14. OneContinuation'
  BY DEF IInv, Deny, Stale, Mark, Filed, Status, Terminal, ExpiredReceipt, Receipt, Receipts, DeniedReceipt, Bound, TypeOK, OneContinuation, TurnsMatch
<1>15. QED BY <1>1, <1>2, <1>3, <1>4, <1>5, <1>6, <1>7, <1>8, <1>9, <1>10, <1>11, <1>12, <1>13, <1>14 DEF IInv

\* claim_approval gives a pending row to one task, or returns what is there.
LEMMA ClaimStep ==
    ASSUME IInv, NEW t \in Task, NEW i \in Approval, NEW c \in Context, Claim(t, i, c)
    PROVE  IInv'
<1>1. TypeOK'
  BY ApprovalsAssumption DEF IInv, Claim, Stale, Mark, Filed, Status, Terminal, ExpiredReceipt, Receipt, Receipts, Bound, TypeOK, Working, db, ApprovalsAssumption
<1>2. RowsBound'
  BY ApprovalsAssumption DEF IInv, Claim, Stale, Mark, Filed, Status, Terminal, ExpiredReceipt, Receipt, Receipts, Bound, TypeOK, RowsBound, ApprovalsAssumption
<1>3. NoTaskWhenDown'
  BY DEF IInv, Claim, Stale, Mark, Filed, Status, Terminal, ExpiredReceipt, Receipt, Receipts, Bound, TypeOK, NoTaskWhenDown
<1>4. OneHolder'
  BY DEF IInv, Claim, Stale, Mark, Filed, Status, Terminal, ExpiredReceipt, Receipt, Receipts, Bound, TypeOK, OneHolder, Holding, Working, ClaimOwned, TurnsMatch
<1>5. LedgerAgrees'
  <2> SUFFICES ASSUME NEW j \in Approval
               PROVE  /\ call'[j] = status'[j]
                      /\ (receipt'[j] # NoReceipt) <=> (status'[j] \in Terminal)
                      /\ receipt'[j] # NoReceipt =>
                           /\ receipt'[j].status = status'[j]
                           /\ receipt'[j].success <=> (status'[j] = "succeeded")
    BY DEF LedgerAgrees
  <2>1. CASE j = i
    BY <2>1, ApprovalsAssumption DEF IInv, Claim, Stale, Mark, Filed, Status, Terminal, ExpiredReceipt, Receipt, Receipts, Bound, TypeOK, LedgerAgrees, ApprovalsAssumption
  <2>2. CASE j # i /\ j \in Stale
    <3>1. receipt[j] = NoReceipt /\ call[j] = "pending"
      BY <2>2 DEF IInv, Stale, LedgerAgrees, Terminal
    <3>2. status'[j] = "expired" /\ call'[j] = "expired" /\ receipt'[j] = ExpiredReceipt
      BY <2>2, <3>1 DEF Claim, Mark, Filed, IInv, TypeOK
    <3>3. QED BY <3>2, ClosingReceipts DEF Terminal
  <2>3. CASE j # i /\ j \notin Stale
    <3>1. status'[j] = status[j] /\ call'[j] = call[j] /\ receipt'[j] = receipt[j]
      BY <2>3 DEF Claim, Mark, Filed, IInv, TypeOK
    <3>2. QED BY <3>1 DEF IInv, LedgerAgrees
  <2>4. QED BY <2>1, <2>2, <2>3
<1>6. OneApprovalPerAction'
  BY DEF IInv, Claim, Stale, Mark, Filed, Status, Terminal, ExpiredReceipt, Receipt, Receipts, Bound, TypeOK, OneApprovalPerAction
<1>7. ClaimOwned'
  BY DEF IInv, Claim, Stale, Mark, Filed, Status, Terminal, ExpiredReceipt, Receipt, Receipts, Bound, TypeOK, ClaimOwned, Working, OneHolder, Holding, NoTaskWhenDown, TurnsMatch
<1>8. RunsMatch'
  BY DEF IInv, Claim, Stale, Mark, Filed, Status, Terminal, ExpiredReceipt, Receipt, Receipts, Bound, TypeOK, RunsMatch, OneHolder, Holding, ClaimOwned, Working, RowsBound, OneApprovalPerAction, UndecidedNeverRan, NoTaskWhenDown
<1>9. AtMostOnce'
  BY DEF IInv, Claim, Stale, Mark, Filed, Status, Terminal, ExpiredReceipt, Receipt, Receipts, Bound, TypeOK, AtMostOnce, RunsMatch
<1>10. UndecidedNeverRan'
  BY DEF IInv, Claim, Stale, Mark, Filed, Status, Terminal, ExpiredReceipt, Receipt, Receipts, Bound, TypeOK, UndecidedNeverRan, RunsMatch, ClaimOwned, Working, OneApprovalPerAction, RowsBound
<1>11. NoHiddenExecution'
  BY ApprovalsAssumption DEF IInv, Claim, Stale, Mark, Filed, Status, Terminal, ExpiredReceipt, Receipt, Receipts, Bound, TypeOK, NoHiddenExecution, RunsMatch, OneApprovalPerAction, RowsBound, LedgerAgrees, ClaimOwned, Working, UndecidedNeverRan, ApprovalsAssumption
<1>12. SuccessIsReal'
  BY DEF IInv, Claim, Stale, Mark, Filed, Status, Terminal, ExpiredReceipt, Receipt, Receipts, Bound, TypeOK, SuccessIsReal, RunsMatch, OneApprovalPerAction, RowsBound, LedgerAgrees, ClaimOwned, Working
<1>13. TurnsMatch'
  BY DEF IInv, Claim, Stale, Mark, Filed, Status, Terminal, ExpiredReceipt, Receipt, Receipts, Bound, TypeOK, TurnsMatch, ClaimOwned, Working, OneHolder, Holding, NoTaskWhenDown
<1>14. OneContinuation'
  BY DEF IInv, Claim, Stale, Mark, Filed, Status, Terminal, ExpiredReceipt, Receipt, Receipts, Bound, TypeOK, OneContinuation, TurnsMatch
<1>15. QED BY <1>1, <1>2, <1>3, <1>4, <1>5, <1>6, <1>7, <1>8, <1>9, <1>10, <1>11, <1>12, <1>13, <1>14 DEF IInv

\* A claimed row whose policy changed is closed before anything ran.
LEMMA BlockStep ==
    ASSUME IInv, NEW t \in Task, Block(t)
    PROVE  IInv'
<1>1. Complete(t, Receipt("failed", FALSE, FALSE, FALSE))
  BY DEF Block
<1> DEFINE r == Receipt("failed", FALSE, FALSE, FALSE)
<1>2. Truthful(r) /\ pc[t] \in Working
  BY TruthfulReceipts DEF Block, Working
<1>3. /\ sel[t] \in Approval /\ status[sel[t]] = "executing"
      /\ status' \in [Approval -> Status] /\ call' \in [Approval -> Status]
      /\ receipt' \in [Approval -> Receipts \cup {NoReceipt}]
      /\ subject' = subject /\ RowsBound' /\ LedgerAgrees'
      /\ status'[sel[t]] = r.status /\ receipt'[sel[t]] = r
      /\ \A i \in Approval : i # sel[t] =>
           status'[i] = status[i] /\ receipt'[i] = receipt[i]
  BY <1>1, <1>2, CompleteOne
<1>4. TypeOK'
  BY <1>3, ApprovalsAssumption DEF IInv, Block, TypeOK, Working, db, Receipt, Return, ApprovalsAssumption
<1>5. NoTaskWhenDown'
  BY <1>3 DEF IInv, Block, TypeOK, NoTaskWhenDown, Receipt, Return
<1>6. OneHolder'
  BY <1>3 DEF IInv, Block, TypeOK, OneHolder, Holding, Working, ClaimOwned, TurnsMatch, Receipt, Return
<1>7. OneApprovalPerAction'
  BY <1>3 DEF IInv, Block, TypeOK, OneApprovalPerAction, Receipt, Return
<1>8. ClaimOwned'
  BY <1>3 DEF IInv, Block, TypeOK, ClaimOwned, Working, OneHolder, Holding, NoTaskWhenDown, TurnsMatch, Receipt, Return
<1>9. RunsMatch'
  BY <1>3 DEF IInv, Block, TypeOK, RunsMatch, OneHolder, Holding, ClaimOwned, Working, RowsBound, OneApprovalPerAction, UndecidedNeverRan, NoTaskWhenDown, Receipt, Return
<1>10. AtMostOnce'
  BY <1>3 DEF IInv, Block, TypeOK, AtMostOnce, RunsMatch, Receipt, Return
<1>11. UndecidedNeverRan'
  BY <1>3 DEF IInv, Block, TypeOK, UndecidedNeverRan, RunsMatch, ClaimOwned, Working, OneApprovalPerAction, RowsBound, Receipt, Return
<1>12. NoHiddenExecution'
  BY <1>3, ApprovalsAssumption DEF IInv, Block, TypeOK, NoHiddenExecution, RunsMatch, OneApprovalPerAction, RowsBound, LedgerAgrees, ClaimOwned, Working, Terminal, UndecidedNeverRan, Receipt, Return, ApprovalsAssumption
<1>13. SuccessIsReal'
  BY <1>3 DEF IInv, Block, TypeOK, SuccessIsReal, RunsMatch, OneApprovalPerAction, RowsBound, LedgerAgrees, ClaimOwned, Working, Terminal, Receipt, Return
<1>14. TurnsMatch'
  BY <1>3 DEF IInv, Block, TypeOK, TurnsMatch, ClaimOwned, Working, OneHolder, Holding, NoTaskWhenDown, Receipt, Return
<1>15. OneContinuation'
  BY <1>3 DEF IInv, Block, TypeOK, OneContinuation, TurnsMatch, Receipt, Return
<1>16. QED BY <1>3, <1>4, <1>5, <1>6, <1>7, <1>8, <1>9, <1>10, <1>11, <1>12, <1>13, <1>14, <1>15 DEF IInv

\* The claim goes on to announce the executing status.
LEMMA ProceedStep ==
    ASSUME IInv, NEW t \in Task, Proceed(t)
    PROVE  IInv'
<1>1. /\ RowsBound'
      /\ LedgerAgrees'
      /\ OneApprovalPerAction'
      /\ AtMostOnce'
      /\ UndecidedNeverRan'
      /\ NoHiddenExecution'
      /\ SuccessIsReal'
      /\ OneContinuation'
  BY DEF IInv, Proceed, AtMostOnce, Holding, LedgerAgrees, NoHiddenExecution, OneApprovalPerAction, OneContinuation, RowsBound, SuccessIsReal, TypeOK, UndecidedNeverRan, Working, db
<1>2. TypeOK'
  BY ApprovalsAssumption DEF IInv, Proceed, TypeOK, Working, db, ApprovalsAssumption
<1>3. NoTaskWhenDown'
  BY DEF IInv, Proceed, TypeOK, NoTaskWhenDown, db
<1>4. OneHolder'
  BY DEF IInv, Proceed, TypeOK, OneHolder, Holding, Working, ClaimOwned, TurnsMatch, db
<1>5. ClaimOwned'
  BY DEF IInv, Proceed, TypeOK, ClaimOwned, Working, OneHolder, Holding, NoTaskWhenDown, TurnsMatch, db
<1>6. RunsMatch'
  BY DEF IInv, Proceed, TypeOK, RunsMatch, OneHolder, Holding, ClaimOwned, Working, RowsBound, OneApprovalPerAction, UndecidedNeverRan, NoTaskWhenDown, db
<1>7. TurnsMatch'
  BY DEF IInv, Proceed, TypeOK, TurnsMatch, ClaimOwned, Working, OneHolder, Holding, NoTaskWhenDown, db
<1>8. QED BY <1>1, <1>2, <1>3, <1>4, <1>5, <1>6, <1>7 DEF IInv

\* A stop before the handler closes the claimed row as never executed.
LEMMA CancelBeforeStartStep ==
    ASSUME IInv, NEW t \in Task, CancelBeforeStart(t)
    PROVE  IInv'
<1>1. Complete(t, Receipt("failed", FALSE, FALSE, FALSE))
  BY DEF CancelBeforeStart
<1> DEFINE r == Receipt("failed", FALSE, FALSE, FALSE)
<1>2. Truthful(r) /\ pc[t] \in Working
  BY TruthfulReceipts DEF CancelBeforeStart, Working
<1>3. /\ sel[t] \in Approval /\ status[sel[t]] = "executing"
      /\ status' \in [Approval -> Status] /\ call' \in [Approval -> Status]
      /\ receipt' \in [Approval -> Receipts \cup {NoReceipt}]
      /\ subject' = subject /\ RowsBound' /\ LedgerAgrees'
      /\ status'[sel[t]] = r.status /\ receipt'[sel[t]] = r
      /\ \A i \in Approval : i # sel[t] =>
           status'[i] = status[i] /\ receipt'[i] = receipt[i]
  BY <1>1, <1>2, CompleteOne
<1>4. TypeOK'
  BY <1>3, ApprovalsAssumption DEF IInv, CancelBeforeStart, TypeOK, Working, db, Receipt, ApprovalsAssumption
<1>5. NoTaskWhenDown'
  BY <1>3 DEF IInv, CancelBeforeStart, TypeOK, NoTaskWhenDown, Receipt
<1>6. OneHolder'
  BY <1>3 DEF IInv, CancelBeforeStart, TypeOK, OneHolder, Holding, Working, ClaimOwned, TurnsMatch, Receipt
<1>7. OneApprovalPerAction'
  BY <1>3 DEF IInv, CancelBeforeStart, TypeOK, OneApprovalPerAction, Receipt
<1>8. ClaimOwned'
  BY <1>3 DEF IInv, CancelBeforeStart, TypeOK, ClaimOwned, Working, OneHolder, Holding, NoTaskWhenDown, TurnsMatch, Receipt
<1>9. RunsMatch'
  BY <1>3 DEF IInv, CancelBeforeStart, TypeOK, RunsMatch, OneHolder, Holding, ClaimOwned, Working, RowsBound, OneApprovalPerAction, UndecidedNeverRan, NoTaskWhenDown, Receipt
<1>10. AtMostOnce'
  BY <1>3 DEF IInv, CancelBeforeStart, TypeOK, AtMostOnce, RunsMatch, Receipt
<1>11. UndecidedNeverRan'
  BY <1>3 DEF IInv, CancelBeforeStart, TypeOK, UndecidedNeverRan, RunsMatch, ClaimOwned, Working, OneApprovalPerAction, RowsBound, Receipt
<1>12. NoHiddenExecution'
  BY <1>3, ApprovalsAssumption DEF IInv, CancelBeforeStart, TypeOK, NoHiddenExecution, RunsMatch, OneApprovalPerAction, RowsBound, LedgerAgrees, ClaimOwned, Working, Terminal, UndecidedNeverRan, Receipt, ApprovalsAssumption
<1>13. SuccessIsReal'
  BY <1>3 DEF IInv, CancelBeforeStart, TypeOK, SuccessIsReal, RunsMatch, OneApprovalPerAction, RowsBound, LedgerAgrees, ClaimOwned, Working, Terminal, Receipt
<1>14. TurnsMatch'
  BY <1>3 DEF IInv, CancelBeforeStart, TypeOK, TurnsMatch, ClaimOwned, Working, OneHolder, Holding, NoTaskWhenDown, Receipt
<1>15. OneContinuation'
  BY <1>3 DEF IInv, CancelBeforeStart, TypeOK, OneContinuation, TurnsMatch, Receipt
<1>16. QED BY <1>3, <1>4, <1>5, <1>6, <1>7, <1>8, <1>9, <1>10, <1>11, <1>12, <1>13, <1>14, <1>15 DEF IInv

\* A tool without a handler closes the row although the receipt says executed.
LEMMA NotExecutableStep ==
    ASSUME IInv, NEW t \in Task, NotExecutable(t)
    PROVE  IInv'
<1>1. Complete(t, Receipt("failed", TRUE, FALSE, FALSE))
  BY DEF NotExecutable
<1> DEFINE r == Receipt("failed", TRUE, FALSE, FALSE)
<1>2. Truthful(r) /\ pc[t] \in Working
  BY TruthfulReceipts DEF NotExecutable, Working
<1>3. /\ sel[t] \in Approval /\ status[sel[t]] = "executing"
      /\ status' \in [Approval -> Status] /\ call' \in [Approval -> Status]
      /\ receipt' \in [Approval -> Receipts \cup {NoReceipt}]
      /\ subject' = subject /\ RowsBound' /\ LedgerAgrees'
      /\ status'[sel[t]] = r.status /\ receipt'[sel[t]] = r
      /\ \A i \in Approval : i # sel[t] =>
           status'[i] = status[i] /\ receipt'[i] = receipt[i]
  BY <1>1, <1>2, CompleteOne
<1>4. TypeOK'
  BY <1>3, ApprovalsAssumption DEF IInv, NotExecutable, TypeOK, Working, db, Receipt, Return, ApprovalsAssumption
<1>5. NoTaskWhenDown'
  BY <1>3 DEF IInv, NotExecutable, TypeOK, NoTaskWhenDown, Receipt, Return
<1>6. OneHolder'
  BY <1>3 DEF IInv, NotExecutable, TypeOK, OneHolder, Holding, Working, ClaimOwned, TurnsMatch, Receipt, Return
<1>7. OneApprovalPerAction'
  BY <1>3 DEF IInv, NotExecutable, TypeOK, OneApprovalPerAction, Receipt, Return
<1>8. ClaimOwned'
  BY <1>3 DEF IInv, NotExecutable, TypeOK, ClaimOwned, Working, OneHolder, Holding, NoTaskWhenDown, TurnsMatch, Receipt, Return
<1>9. RunsMatch'
  BY <1>3 DEF IInv, NotExecutable, TypeOK, RunsMatch, OneHolder, Holding, ClaimOwned, Working, RowsBound, OneApprovalPerAction, UndecidedNeverRan, NoTaskWhenDown, Receipt, Return
<1>10. AtMostOnce'
  BY <1>3 DEF IInv, NotExecutable, TypeOK, AtMostOnce, RunsMatch, Receipt, Return
<1>11. UndecidedNeverRan'
  BY <1>3 DEF IInv, NotExecutable, TypeOK, UndecidedNeverRan, RunsMatch, ClaimOwned, Working, OneApprovalPerAction, RowsBound, Receipt, Return
<1>12. NoHiddenExecution'
  BY <1>3, ApprovalsAssumption DEF IInv, NotExecutable, TypeOK, NoHiddenExecution, RunsMatch, OneApprovalPerAction, RowsBound, LedgerAgrees, ClaimOwned, Working, Terminal, UndecidedNeverRan, Receipt, Return, ApprovalsAssumption
<1>13. SuccessIsReal'
  BY <1>3 DEF IInv, NotExecutable, TypeOK, SuccessIsReal, RunsMatch, OneApprovalPerAction, RowsBound, LedgerAgrees, ClaimOwned, Working, Terminal, Receipt, Return
<1>14. TurnsMatch'
  BY <1>3 DEF IInv, NotExecutable, TypeOK, TurnsMatch, ClaimOwned, Working, OneHolder, Holding, NoTaskWhenDown, Receipt, Return
<1>15. OneContinuation'
  BY <1>3 DEF IInv, NotExecutable, TypeOK, OneContinuation, TurnsMatch, Receipt, Return
<1>16. QED BY <1>3, <1>4, <1>5, <1>6, <1>7, <1>8, <1>9, <1>10, <1>11, <1>12, <1>13, <1>14, <1>15 DEF IInv

\* The handler of a claimed row is entered for the first time.
LEMMA EnterStep ==
    ASSUME IInv, NEW t \in Task, Enter(t)
    PROVE  IInv'
<1>0. /\ sel[t] \in Approval /\ status[sel[t]] = "executing"
      /\ subject[sel[t]] \in Action /\ runs[subject[sel[t]]] = 0
      /\ \A j \in Approval : j # sel[t] => subject[j] # subject[sel[t]]
      /\ runs' = [runs EXCEPT ![subject[sel[t]]] = 1]
  <2>1. sel[t] \in Approval /\ status[sel[t]] = "executing"
    BY DEF IInv, Enter, TypeOK, ClaimOwned, NoTaskWhenDown, Working
  <2>2. subject[sel[t]] \in Action /\ subject[sel[t]] # NoAction
    BY <2>1 DEF IInv, TypeOK, RowsBound
  <2>3. runs[subject[sel[t]]] = 0
    BY DEF IInv, Enter, RunsMatch
  <2>4. \A j \in Approval : j # sel[t] => subject[j] # subject[sel[t]]
    BY <2>1, <2>2 DEF IInv, OneApprovalPerAction
  <2>5. runs' = [runs EXCEPT ![subject[sel[t]]] = 1]
    BY <2>3 DEF Enter, Bump
  <2>6. QED BY <2>1, <2>2, <2>3, <2>4, <2>5
<1>1. /\ RowsBound'
      /\ LedgerAgrees'
      /\ OneApprovalPerAction'
      /\ OneContinuation'
  BY DEF IInv, Enter, Holding, LedgerAgrees, OneApprovalPerAction, OneContinuation, RowsBound, TypeOK, Working, db
<1>2. TypeOK'
  BY <1>0, ApprovalsAssumption DEF IInv, Enter, TypeOK, Working, db, Bump, ApprovalsAssumption
<1>3. NoTaskWhenDown'
  BY <1>0 DEF IInv, Enter, TypeOK, NoTaskWhenDown, Bump, db
<1>4. OneHolder'
  BY <1>0 DEF IInv, Enter, TypeOK, OneHolder, Holding, Working, ClaimOwned, TurnsMatch, Bump, db
<1>5. ClaimOwned'
  BY <1>0 DEF IInv, Enter, TypeOK, ClaimOwned, Working, OneHolder, Holding, NoTaskWhenDown, TurnsMatch, Bump, db
<1>6. RunsMatch'
  BY <1>0 DEF IInv, Enter, TypeOK, RunsMatch, OneHolder, Holding, ClaimOwned, Working, RowsBound, OneApprovalPerAction, UndecidedNeverRan, NoTaskWhenDown, Bump, db
<1>7. AtMostOnce'
  BY <1>0 DEF IInv, Enter, TypeOK, AtMostOnce, RunsMatch, Bump, db
<1>8. UndecidedNeverRan'
  BY <1>0 DEF IInv, Enter, TypeOK, UndecidedNeverRan, RunsMatch, ClaimOwned, Working, OneApprovalPerAction, RowsBound, Bump, db
<1>9. NoHiddenExecution'
  BY <1>0, ApprovalsAssumption DEF IInv, Enter, TypeOK, NoHiddenExecution, RunsMatch, OneApprovalPerAction, RowsBound, LedgerAgrees, ClaimOwned, Working, Terminal, UndecidedNeverRan, Bump, db, ApprovalsAssumption
<1>10. SuccessIsReal'
  BY <1>0 DEF IInv, Enter, TypeOK, SuccessIsReal, RunsMatch, OneApprovalPerAction, RowsBound, LedgerAgrees, ClaimOwned, Working, Terminal, Bump, db
<1>11. TurnsMatch'
  BY <1>0 DEF IInv, Enter, TypeOK, TurnsMatch, ClaimOwned, Working, OneHolder, Holding, NoTaskWhenDown, Bump, db
<1>12. QED BY <1>1, <1>2, <1>3, <1>4, <1>5, <1>6, <1>7, <1>8, <1>9, <1>10, <1>11 DEF IInv

\* A result is classified and closes the row.
LEMMA HandlerReturnsStep ==
    ASSUME IInv, NEW t \in Task, HandlerReturns(t)
    PROVE  IInv'
<1>1. PICK verified, executed, may \in BOOLEAN :
        /\ subject[sel[t]] \in SelfReporting \/ executed
        /\ verified => executed /\ ~may
        /\ Complete(t, Receipt(IF verified THEN "succeeded" ELSE "failed",
                               executed, verified, may))
  BY DEF HandlerReturns
<1> DEFINE r == Receipt(IF verified THEN "succeeded" ELSE "failed", executed, verified, may)
<1>2. Truthful(r) /\ pc[t] \in Working
  BY TruthfulReceipts DEF HandlerReturns, Working
<1>3. /\ sel[t] \in Approval /\ status[sel[t]] = "executing"
      /\ status' \in [Approval -> Status] /\ call' \in [Approval -> Status]
      /\ receipt' \in [Approval -> Receipts \cup {NoReceipt}]
      /\ subject' = subject /\ RowsBound' /\ LedgerAgrees'
      /\ status'[sel[t]] = r.status /\ receipt'[sel[t]] = r
      /\ \A i \in Approval : i # sel[t] =>
           status'[i] = status[i] /\ receipt'[i] = receipt[i]
  BY <1>1, <1>2, CompleteOne
<1>4. TypeOK'
  BY <1>3, <1>1, ApprovalsAssumption DEF IInv, HandlerReturns, TypeOK, Working, db, Receipt, Return, ApprovalsAssumption
<1>5. NoTaskWhenDown'
  BY <1>3, <1>1 DEF IInv, HandlerReturns, TypeOK, NoTaskWhenDown, Receipt, Return
<1>6. OneHolder'
  BY <1>3, <1>1 DEF IInv, HandlerReturns, TypeOK, OneHolder, Holding, Working, ClaimOwned, TurnsMatch, Receipt, Return
<1>7. OneApprovalPerAction'
  BY <1>3, <1>1 DEF IInv, HandlerReturns, TypeOK, OneApprovalPerAction, Receipt, Return
<1>8. ClaimOwned'
  BY <1>3, <1>1 DEF IInv, HandlerReturns, TypeOK, ClaimOwned, Working, OneHolder, Holding, NoTaskWhenDown, TurnsMatch, Receipt, Return
<1>9. RunsMatch'
  BY <1>3, <1>1 DEF IInv, HandlerReturns, TypeOK, RunsMatch, OneHolder, Holding, ClaimOwned, Working, RowsBound, OneApprovalPerAction, UndecidedNeverRan, NoTaskWhenDown, Receipt, Return
<1>10. AtMostOnce'
  BY <1>3, <1>1 DEF IInv, HandlerReturns, TypeOK, AtMostOnce, RunsMatch, Receipt, Return
<1>11. UndecidedNeverRan'
  BY <1>3, <1>1 DEF IInv, HandlerReturns, TypeOK, UndecidedNeverRan, RunsMatch, ClaimOwned, Working, OneApprovalPerAction, RowsBound, Receipt, Return
<1>12. NoHiddenExecution'
  BY <1>3, <1>1, ApprovalsAssumption DEF IInv, HandlerReturns, TypeOK, NoHiddenExecution, RunsMatch, OneApprovalPerAction, RowsBound, LedgerAgrees, ClaimOwned, Working, Terminal, UndecidedNeverRan, Receipt, Return, ApprovalsAssumption
<1>13. SuccessIsReal'
  BY <1>3, <1>1 DEF IInv, HandlerReturns, TypeOK, SuccessIsReal, RunsMatch, OneApprovalPerAction, RowsBound, LedgerAgrees, ClaimOwned, Working, Terminal, Receipt, Return
<1>14. TurnsMatch'
  BY <1>3, <1>1 DEF IInv, HandlerReturns, TypeOK, TurnsMatch, ClaimOwned, Working, OneHolder, Holding, NoTaskWhenDown, Receipt, Return
<1>15. OneContinuation'
  BY <1>3, <1>1 DEF IInv, HandlerReturns, TypeOK, OneContinuation, TurnsMatch, Receipt, Return
<1>16. QED BY <1>3, <1>4, <1>5, <1>6, <1>7, <1>8, <1>9, <1>10, <1>11, <1>12, <1>13, <1>14, <1>15 DEF IInv

\* An exception of the handler closes the row as failed.
LEMMA HandlerRaisesStep ==
    ASSUME IInv, NEW t \in Task, HandlerRaises(t)
    PROVE  IInv'
<1>1. Complete(t, Receipt("failed", TRUE, FALSE, FALSE))
  BY DEF HandlerRaises
<1> DEFINE r == Receipt("failed", TRUE, FALSE, FALSE)
<1>2. Truthful(r) /\ pc[t] \in Working
  BY TruthfulReceipts DEF HandlerRaises, Working
<1>3. /\ sel[t] \in Approval /\ status[sel[t]] = "executing"
      /\ status' \in [Approval -> Status] /\ call' \in [Approval -> Status]
      /\ receipt' \in [Approval -> Receipts \cup {NoReceipt}]
      /\ subject' = subject /\ RowsBound' /\ LedgerAgrees'
      /\ status'[sel[t]] = r.status /\ receipt'[sel[t]] = r
      /\ \A i \in Approval : i # sel[t] =>
           status'[i] = status[i] /\ receipt'[i] = receipt[i]
  BY <1>1, <1>2, CompleteOne
<1>4. TypeOK'
  BY <1>3, ApprovalsAssumption DEF IInv, HandlerRaises, TypeOK, Working, db, Receipt, Return, ApprovalsAssumption
<1>5. NoTaskWhenDown'
  BY <1>3 DEF IInv, HandlerRaises, TypeOK, NoTaskWhenDown, Receipt, Return
<1>6. OneHolder'
  BY <1>3 DEF IInv, HandlerRaises, TypeOK, OneHolder, Holding, Working, ClaimOwned, TurnsMatch, Receipt, Return
<1>7. OneApprovalPerAction'
  BY <1>3 DEF IInv, HandlerRaises, TypeOK, OneApprovalPerAction, Receipt, Return
<1>8. ClaimOwned'
  BY <1>3 DEF IInv, HandlerRaises, TypeOK, ClaimOwned, Working, OneHolder, Holding, NoTaskWhenDown, TurnsMatch, Receipt, Return
<1>9. RunsMatch'
  BY <1>3 DEF IInv, HandlerRaises, TypeOK, RunsMatch, OneHolder, Holding, ClaimOwned, Working, RowsBound, OneApprovalPerAction, UndecidedNeverRan, NoTaskWhenDown, Receipt, Return
<1>10. AtMostOnce'
  BY <1>3 DEF IInv, HandlerRaises, TypeOK, AtMostOnce, RunsMatch, Receipt, Return
<1>11. UndecidedNeverRan'
  BY <1>3 DEF IInv, HandlerRaises, TypeOK, UndecidedNeverRan, RunsMatch, ClaimOwned, Working, OneApprovalPerAction, RowsBound, Receipt, Return
<1>12. NoHiddenExecution'
  BY <1>3, ApprovalsAssumption DEF IInv, HandlerRaises, TypeOK, NoHiddenExecution, RunsMatch, OneApprovalPerAction, RowsBound, LedgerAgrees, ClaimOwned, Working, Terminal, UndecidedNeverRan, Receipt, Return, ApprovalsAssumption
<1>13. SuccessIsReal'
  BY <1>3 DEF IInv, HandlerRaises, TypeOK, SuccessIsReal, RunsMatch, OneApprovalPerAction, RowsBound, LedgerAgrees, ClaimOwned, Working, Terminal, Receipt, Return
<1>14. TurnsMatch'
  BY <1>3 DEF IInv, HandlerRaises, TypeOK, TurnsMatch, ClaimOwned, Working, OneHolder, Holding, NoTaskWhenDown, Receipt, Return
<1>15. OneContinuation'
  BY <1>3 DEF IInv, HandlerRaises, TypeOK, OneContinuation, TurnsMatch, Receipt, Return
<1>16. QED BY <1>3, <1>4, <1>5, <1>6, <1>7, <1>8, <1>9, <1>10, <1>11, <1>12, <1>13, <1>14, <1>15 DEF IInv

\* A stop while the handler runs closes the row as possibly executed.
LEMMA CancelRunningStep ==
    ASSUME IInv, NEW t \in Task, CancelRunning(t)
    PROVE  IInv'
<1>1. Complete(t, Receipt("failed", TRUE, FALSE, TRUE))
  BY DEF CancelRunning
<1> DEFINE r == Receipt("failed", TRUE, FALSE, TRUE)
<1>2. Truthful(r) /\ pc[t] \in Working
  BY TruthfulReceipts DEF CancelRunning, Working
<1>3. /\ sel[t] \in Approval /\ status[sel[t]] = "executing"
      /\ status' \in [Approval -> Status] /\ call' \in [Approval -> Status]
      /\ receipt' \in [Approval -> Receipts \cup {NoReceipt}]
      /\ subject' = subject /\ RowsBound' /\ LedgerAgrees'
      /\ status'[sel[t]] = r.status /\ receipt'[sel[t]] = r
      /\ \A i \in Approval : i # sel[t] =>
           status'[i] = status[i] /\ receipt'[i] = receipt[i]
  BY <1>1, <1>2, CompleteOne
<1>4. TypeOK'
  BY <1>3, ApprovalsAssumption DEF IInv, CancelRunning, TypeOK, Working, db, Receipt, ApprovalsAssumption
<1>5. NoTaskWhenDown'
  BY <1>3 DEF IInv, CancelRunning, TypeOK, NoTaskWhenDown, Receipt
<1>6. OneHolder'
  BY <1>3 DEF IInv, CancelRunning, TypeOK, OneHolder, Holding, Working, ClaimOwned, TurnsMatch, Receipt
<1>7. OneApprovalPerAction'
  BY <1>3 DEF IInv, CancelRunning, TypeOK, OneApprovalPerAction, Receipt
<1>8. ClaimOwned'
  BY <1>3 DEF IInv, CancelRunning, TypeOK, ClaimOwned, Working, OneHolder, Holding, NoTaskWhenDown, TurnsMatch, Receipt
<1>9. RunsMatch'
  BY <1>3 DEF IInv, CancelRunning, TypeOK, RunsMatch, OneHolder, Holding, ClaimOwned, Working, RowsBound, OneApprovalPerAction, UndecidedNeverRan, NoTaskWhenDown, Receipt
<1>10. AtMostOnce'
  BY <1>3 DEF IInv, CancelRunning, TypeOK, AtMostOnce, RunsMatch, Receipt
<1>11. UndecidedNeverRan'
  BY <1>3 DEF IInv, CancelRunning, TypeOK, UndecidedNeverRan, RunsMatch, ClaimOwned, Working, OneApprovalPerAction, RowsBound, Receipt
<1>12. NoHiddenExecution'
  BY <1>3, ApprovalsAssumption DEF IInv, CancelRunning, TypeOK, NoHiddenExecution, RunsMatch, OneApprovalPerAction, RowsBound, LedgerAgrees, ClaimOwned, Working, Terminal, UndecidedNeverRan, Receipt, ApprovalsAssumption
<1>13. SuccessIsReal'
  BY <1>3 DEF IInv, CancelRunning, TypeOK, SuccessIsReal, RunsMatch, OneApprovalPerAction, RowsBound, LedgerAgrees, ClaimOwned, Working, Terminal, Receipt
<1>14. TurnsMatch'
  BY <1>3 DEF IInv, CancelRunning, TypeOK, TurnsMatch, ClaimOwned, Working, OneHolder, Holding, NoTaskWhenDown, Receipt
<1>15. OneContinuation'
  BY <1>3 DEF IInv, CancelRunning, TypeOK, OneContinuation, TurnsMatch, Receipt
<1>16. QED BY <1>3, <1>4, <1>5, <1>6, <1>7, <1>8, <1>9, <1>10, <1>11, <1>12, <1>13, <1>14, <1>15 DEF IInv

\* The socket that settled a row continues its conversation once.
LEMMA ContinueStep ==
    ASSUME IInv, NEW t \in Task, Continue(t)
    PROVE  IInv'
<1>1. /\ RowsBound'
      /\ LedgerAgrees'
      /\ OneApprovalPerAction'
      /\ AtMostOnce'
      /\ UndecidedNeverRan'
      /\ NoHiddenExecution'
      /\ SuccessIsReal'
  BY DEF IInv, Continue, AtMostOnce, Holding, LedgerAgrees, NoHiddenExecution, OneApprovalPerAction, RowsBound, SuccessIsReal, TypeOK, UndecidedNeverRan, Working, db
<1>2. TypeOK'
  BY ApprovalsAssumption DEF IInv, Continue, TypeOK, Working, db, Bump, ApprovalsAssumption
<1>3. NoTaskWhenDown'
  BY DEF IInv, Continue, TypeOK, NoTaskWhenDown, Bump, db
<1>4. OneHolder'
  BY DEF IInv, Continue, TypeOK, OneHolder, Holding, Working, ClaimOwned, TurnsMatch, Bump, db
<1>5. ClaimOwned'
  BY DEF IInv, Continue, TypeOK, ClaimOwned, Working, OneHolder, Holding, NoTaskWhenDown, TurnsMatch, Bump, db
<1>6. RunsMatch'
  BY DEF IInv, Continue, TypeOK, RunsMatch, OneHolder, Holding, ClaimOwned, Working, RowsBound, OneApprovalPerAction, UndecidedNeverRan, NoTaskWhenDown, Bump, db
<1>7. TurnsMatch'
  BY DEF IInv, Continue, TypeOK, TurnsMatch, ClaimOwned, Working, OneHolder, Holding, NoTaskWhenDown, Bump, db
<1>8. OneContinuation'
  BY DEF IInv, Continue, TypeOK, OneContinuation, TurnsMatch, Bump, db
<1>9. QED BY <1>1, <1>2, <1>3, <1>4, <1>5, <1>6, <1>7, <1>8 DEF IInv

\* A stop after the row was settled only drops the continuation.
LEMMA CancelSettledStep ==
    ASSUME IInv, NEW t \in Task, CancelSettled(t)
    PROVE  IInv'
<1>1. /\ RowsBound'
      /\ LedgerAgrees'
      /\ OneApprovalPerAction'
      /\ AtMostOnce'
      /\ UndecidedNeverRan'
      /\ NoHiddenExecution'
      /\ SuccessIsReal'
      /\ OneContinuation'
  BY DEF IInv, CancelSettled, AtMostOnce, Holding, LedgerAgrees, NoHiddenExecution, OneApprovalPerAction, OneContinuation, RowsBound, SuccessIsReal, TypeOK, UndecidedNeverRan, Working, db
<1>2. TypeOK'
  BY ApprovalsAssumption DEF IInv, CancelSettled, TypeOK, Working, db, ApprovalsAssumption
<1>3. NoTaskWhenDown'
  BY DEF IInv, CancelSettled, TypeOK, NoTaskWhenDown, db
<1>4. OneHolder'
  BY DEF IInv, CancelSettled, TypeOK, OneHolder, Holding, Working, ClaimOwned, TurnsMatch, db
<1>5. ClaimOwned'
  BY DEF IInv, CancelSettled, TypeOK, ClaimOwned, Working, OneHolder, Holding, NoTaskWhenDown, TurnsMatch, db
<1>6. RunsMatch'
  BY DEF IInv, CancelSettled, TypeOK, RunsMatch, OneHolder, Holding, ClaimOwned, Working, RowsBound, OneApprovalPerAction, UndecidedNeverRan, NoTaskWhenDown, db
<1>7. TurnsMatch'
  BY DEF IInv, CancelSettled, TypeOK, TurnsMatch, ClaimOwned, Working, OneHolder, Holding, NoTaskWhenDown, db
<1>8. QED BY <1>1, <1>2, <1>3, <1>4, <1>5, <1>6, <1>7 DEF IInv

\* A crash ends every task and leaves the database.
LEMMA CrashStep ==
    ASSUME IInv, Crash
    PROVE  IInv'
<1>1. /\ RowsBound'
      /\ LedgerAgrees'
      /\ OneApprovalPerAction'
      /\ AtMostOnce'
      /\ UndecidedNeverRan'
      /\ NoHiddenExecution'
      /\ SuccessIsReal'
      /\ OneContinuation'
  BY DEF IInv, Crash, AtMostOnce, Holding, LedgerAgrees, NoHiddenExecution, OneApprovalPerAction, OneContinuation, RowsBound, SuccessIsReal, TypeOK, UndecidedNeverRan, Working, db
<1>2. TypeOK'
  <2>1. crashes' \in 0..MaxCrashes
    BY ApprovalsAssumption DEF ApprovalsAssumption, IInv, TypeOK, Crash
  <2>2. pc' \in [Task -> {"idle", "settled"} \cup Working] /\ up' \in BOOLEAN
    BY DEF Crash
  <2>3. QED BY <2>1, <2>2 DEF IInv, TypeOK, Crash, db
<1>3. NoTaskWhenDown'
  BY DEF IInv, Crash, TypeOK, NoTaskWhenDown, db
<1>4. OneHolder'
  BY DEF IInv, Crash, TypeOK, OneHolder, Holding, Working, ClaimOwned, TurnsMatch, db
<1>5. ClaimOwned'
  BY DEF IInv, Crash, TypeOK, ClaimOwned, Working, OneHolder, Holding, NoTaskWhenDown, TurnsMatch, db
<1>6. RunsMatch'
  BY DEF IInv, Crash, TypeOK, RunsMatch, OneHolder, Holding, ClaimOwned, Working, RowsBound, OneApprovalPerAction, UndecidedNeverRan, NoTaskWhenDown, db
<1>7. TurnsMatch'
  BY DEF IInv, Crash, TypeOK, TurnsMatch, ClaimOwned, Working, OneHolder, Holding, NoTaskWhenDown, db
<1>8. QED BY <1>1, <1>2, <1>3, <1>4, <1>5, <1>6, <1>7 DEF IInv

\* recover_interrupted_approvals closes every executing row at start.
LEMMA RestartStep ==
    ASSUME IInv, Restart
    PROVE  IInv'
<1> DEFINE S == {i \in Approval : status[i] = "executing"}
<1>1. Close(S, RecoveredReceipt)
  BY DEF Restart
<1>2. Truthful(RecoveredReceipt) /\ S \in SUBSET Open
  BY TruthfulReceipts DEF IInv, TypeOK, Open, Stale
<1>3. TypeOK /\ RowsBound /\ LedgerAgrees
  BY DEF IInv
<1>4. /\ status' \in [Approval -> Status] /\ call' \in [Approval -> Status]
      /\ receipt' \in [Approval -> Receipts \cup {NoReceipt}]
      /\ RowsBound' /\ LedgerAgrees'
      /\ \A i \in Approval : i \in S =>
           status'[i] = RecoveredReceipt.status /\ receipt'[i] = RecoveredReceipt
      /\ \A i \in Approval : i \notin S =>
           status'[i] = status[i] /\ receipt'[i] = receipt[i]
  BY <1>1, <1>2, <1>3, CloseLedger
<1>5. subject' = subject
  BY <1>1 DEF Close
<1>6. TypeOK'
  BY <1>4, <1>5, ApprovalsAssumption DEF IInv, Restart, TypeOK, Working, db, Receipt, RecoveredReceipt, Stale, Open, ApprovalsAssumption
<1>7. NoTaskWhenDown'
  BY <1>4, <1>5 DEF IInv, Restart, TypeOK, NoTaskWhenDown, Receipt, RecoveredReceipt, Stale, Open
<1>8. OneHolder'
  BY <1>4, <1>5 DEF IInv, Restart, TypeOK, OneHolder, Holding, Working, ClaimOwned, TurnsMatch, Receipt, RecoveredReceipt, Stale, Open
<1>9. OneApprovalPerAction'
  BY <1>4, <1>5 DEF IInv, Restart, TypeOK, OneApprovalPerAction, Receipt, RecoveredReceipt, Stale, Open
<1>10. ClaimOwned'
  BY <1>4, <1>5 DEF IInv, Restart, TypeOK, ClaimOwned, Working, OneHolder, Holding, NoTaskWhenDown, TurnsMatch, Receipt, RecoveredReceipt, Stale, Open
<1>11. RunsMatch'
  BY <1>4, <1>5 DEF IInv, Restart, TypeOK, RunsMatch, OneHolder, Holding, ClaimOwned, Working, RowsBound, OneApprovalPerAction, UndecidedNeverRan, NoTaskWhenDown, Receipt, RecoveredReceipt, Stale, Open
<1>12. AtMostOnce'
  BY <1>4, <1>5 DEF IInv, Restart, TypeOK, AtMostOnce, RunsMatch, Receipt, RecoveredReceipt, Stale, Open
<1>13. UndecidedNeverRan'
  BY <1>4, <1>5 DEF IInv, Restart, TypeOK, UndecidedNeverRan, RunsMatch, ClaimOwned, Working, OneApprovalPerAction, RowsBound, Receipt, RecoveredReceipt, Stale, Open
<1>14. NoHiddenExecution'
  BY <1>4, <1>5, ApprovalsAssumption DEF IInv, Restart, TypeOK, NoHiddenExecution, RunsMatch, OneApprovalPerAction, RowsBound, LedgerAgrees, ClaimOwned, Working, Terminal, UndecidedNeverRan, Receipt, RecoveredReceipt, Stale, Open, ApprovalsAssumption
<1>15. SuccessIsReal'
  BY <1>4, <1>5 DEF IInv, Restart, TypeOK, SuccessIsReal, RunsMatch, OneApprovalPerAction, RowsBound, LedgerAgrees, ClaimOwned, Working, Terminal, Receipt, RecoveredReceipt, Stale, Open
<1>16. TurnsMatch'
  BY <1>4, <1>5 DEF IInv, Restart, TypeOK, TurnsMatch, ClaimOwned, Working, OneHolder, Holding, NoTaskWhenDown, Receipt, RecoveredReceipt, Stale, Open
<1>17. OneContinuation'
  BY <1>4, <1>5 DEF IInv, Restart, TypeOK, OneContinuation, TurnsMatch, Receipt, RecoveredReceipt, Stale, Open
<1>18. QED BY <1>4, <1>6, <1>7, <1>8, <1>9, <1>10, <1>11, <1>12, <1>13, <1>14, <1>15, <1>16, <1>17 DEF IInv

-----------------------------------------------------------------------------
(* The inductive invariant and what follows from it.                       *)

\* A freshly created database satisfies the invariant.
LEMMA InitIInv == Init => IInv
<1> SUFFICES ASSUME Init PROVE IInv
  OBVIOUS
<1>1. TypeOK
  <2>1. crashes \in 0..MaxCrashes
    BY ApprovalsAssumption DEF ApprovalsAssumption, Init
  <2>2. QED BY <2>1 DEF Init, TypeOK, Status
<1>2. RowsBound /\ NoTaskWhenDown /\ OneHolder /\ ClaimOwned
  BY DEF Init, RowsBound, NoTaskWhenDown, OneHolder, Holding, ClaimOwned, Working
<1>3. LedgerAgrees /\ OneApprovalPerAction
  BY DEF Init, LedgerAgrees, OneApprovalPerAction, Terminal
<1>4. RunsMatch /\ AtMostOnce /\ UndecidedNeverRan /\ NoHiddenExecution
  BY DEF Init, RunsMatch, AtMostOnce, UndecidedNeverRan, NoHiddenExecution
<1>5. SuccessIsReal /\ TurnsMatch /\ OneContinuation
  BY DEF Init, SuccessIsReal, TurnsMatch, OneContinuation
<1>6. QED BY <1>1, <1>2, <1>3, <1>4, <1>5 DEF IInv

\* No step of the gateway, a crash included, leaves the invariant.
LEMMA NextIInv == IInv /\ [Next]_vars => IInv'
<1> SUFFICES ASSUME IInv, [Next]_vars PROVE IInv'
  OBVIOUS
<1>1. CASE UNCHANGED vars
  BY <1>1 DEF vars, db, IInv, TypeOK, RowsBound, NoTaskWhenDown, OneHolder,
       LedgerAgrees, OneApprovalPerAction, ClaimOwned, RunsMatch, AtMostOnce,
       UndecidedNeverRan, NoHiddenExecution, SuccessIsReal, TurnsMatch,
       OneContinuation
<1>2. ASSUME NEW a \in Action, Request(a) PROVE IInv'
  BY <1>2, RequestStep
<1>3. ASSUME NEW i \in Approval, Age(i) PROVE IInv'
  BY <1>3, AgeStep
<1>4. ASSUME Consult PROVE IInv'
  BY <1>4, ConsultStep
<1>5. ASSUME NEW i \in Approval, NEW c \in Context, Deny(i, c) PROVE IInv'
  BY <1>5, DenyStep
<1>6. ASSUME NEW t \in Task, NEW i \in Approval, NEW c \in Context, Claim(t, i, c) PROVE IInv'
  BY <1>6, ClaimStep
<1>7. ASSUME NEW t \in Task, Block(t) PROVE IInv'
  BY <1>7, BlockStep
<1>8. ASSUME NEW t \in Task, Proceed(t) PROVE IInv'
  BY <1>8, ProceedStep
<1>9. ASSUME NEW t \in Task, CancelBeforeStart(t) PROVE IInv'
  BY <1>9, CancelBeforeStartStep
<1>10. ASSUME NEW t \in Task, NotExecutable(t) PROVE IInv'
  BY <1>10, NotExecutableStep
<1>11. ASSUME NEW t \in Task, Enter(t) PROVE IInv'
  BY <1>11, EnterStep
<1>12. ASSUME NEW t \in Task, HandlerReturns(t) PROVE IInv'
  BY <1>12, HandlerReturnsStep
<1>13. ASSUME NEW t \in Task, HandlerRaises(t) PROVE IInv'
  BY <1>13, HandlerRaisesStep
<1>14. ASSUME NEW t \in Task, CancelRunning(t) PROVE IInv'
  BY <1>14, CancelRunningStep
<1>15. ASSUME NEW t \in Task, Continue(t) PROVE IInv'
  BY <1>15, ContinueStep
<1>16. ASSUME NEW t \in Task, CancelSettled(t) PROVE IInv'
  BY <1>16, CancelSettledStep
<1>17. ASSUME Crash PROVE IInv'
  BY <1>17, CrashStep
<1>18. ASSUME Restart PROVE IInv'
  BY <1>18, RestartStep
<1>19. QED
  BY <1>1, <1>2, <1>3, <1>4, <1>5, <1>6, <1>7, <1>8, <1>9, <1>10, <1>11, <1>12, <1>13, <1>14, <1>15, <1>16, <1>17, <1>18
     DEF Next, Step, Cancel

\* The inductive invariant holds of every state the gateway reaches.
THEOREM Invariance == Spec => []IInv
<1>1. Init => IInv
  BY InitIInv
<1>2. IInv /\ [Next]_vars => IInv'
  BY NextIInv
<1>3. QED BY <1>1, <1>2, PTL DEF Spec

\* Every variable keeps its type: no status outside the schema's CHECK lists.
THEOREM TypeCorrect == Spec => []TypeOK
<1>1. IInv => TypeOK
  BY DEF IInv
<1>2. QED BY <1>1, Invariance, PTL

\* Whatever decisions race, replay or survive a crash, the handler of a
\* protected action is entered at most once; a row still waiting, denied or
\* expired never ran; a receipt that says neither executed nor may-have-executed
\* belongs to a handler that was never entered; success is never claimed for one
\* that was not.
THEOREM ExecutionsAreTrue == Spec => []ExecutionTruth
<1>1. IInv => ExecutionTruth
  BY DEF IInv, ExecutionTruth
<1>2. QED BY <1>1, Invariance, PTL

\* Approval row, tool call row and receipt of a decision tell one story, and an
\* action never has two rows.
THEOREM LedgerIsTrue == Spec => []LedgerTruth
<1>1. IInv => LedgerTruth
  BY DEF IInv, LedgerTruth
<1>2. QED BY <1>1, Invariance, PTL

\* While the service runs every executing row has exactly one live task, and a
\* decision continues its conversation at most once.
THEOREM ClaimsAreTrue == Spec => []ClaimTruth
<1>1. IInv => ClaimTruth
  BY DEF IInv, ClaimTruth
<1>2. QED BY <1>1, Invariance, PTL

-----------------------------------------------------------------------------
(* What a step may do to one row.                                          *)

\* The only changes of a row: a pending one is claimed or closed, an executing
\* one ends, in success only if its handler was entered. Terminal rows and
\* their receipts stay as they are.
RowMove(i) ==
    /\ subject[i] # NoAction => subject'[i] = subject[i]
    /\ \/ status'[i] = status[i] /\ (receipt[i] # NoReceipt => receipt'[i] = receipt[i])
       \/ status[i] = "none" /\ status'[i] = "pending"
       \/ status[i] = "pending" /\ status'[i] \in {"executing", "denied", "expired"}
       \/ status[i] = "executing" /\ status'[i] = "failed"
       \/ status[i] = "executing" /\ status'[i] = "succeeded" /\ runs[subject[i]] = 1

\* The handler count of an action moves only from 0 to 1, under its claim.
RunMove(a) ==
    \/ runs'[a] = runs[a]
    \/ /\ runs[a] = 0 /\ runs'[a] = 1
       /\ \E i \in Approval : /\ subject[i] = a /\ subject'[i] = a
                              /\ status[i] = "executing" /\ status'[i] = "executing"

\* Every step moves rows and handler counts in those ways only.
LEMMA NextMoves ==
    ASSUME IInv, [Next]_vars
    PROVE  (\A i \in Approval : RowMove(i)) /\ (\A a \in Action : RunMove(a))
<1> DEFINE Moves == (\A i \in Approval : RowMove(i)) /\ (\A a \in Action : RunMove(a))
<1>1. CASE UNCHANGED vars
  BY <1>1 DEF vars, db, RowMove, RunMove
<1>2. ASSUME NEW a \in Action, Request(a) PROVE Moves
  <2>1. PICK k \in Approval :
          /\ status[k] = "none"
          /\ subject' = [subject EXCEPT ![k] = a]
          /\ status' = [Mark(status, Stale, "expired") EXCEPT ![k] = "pending"]
          /\ receipt' = Filed(Stale, ExpiredReceipt)
    BY <1>2 DEF Request
  <2>2. subject[k] = NoAction /\ receipt[k] = NoReceipt /\ k \notin Stale
    BY <2>1 DEF IInv, RowsBound, LedgerAgrees, Terminal, Stale
  <2>3. \A i \in Approval : RowMove(i)
    BY <2>1, <2>2 DEF Request, Mark, Filed, Stale, IInv, TypeOK, LedgerAgrees, Terminal, RowMove
  <2>4. \A b \in Action : RunMove(b)
    BY <1>2 DEF Request, RunMove
  <2>5. QED BY <2>3, <2>4
<1>3. ASSUME NEW i \in Approval, Age(i) PROVE Moves
  BY <1>3 DEF Age, db, RowMove, RunMove
<1>4. ASSUME Consult PROVE Moves
  <2> DEFINE S == Stale
  <2>1. Close(S, ExpiredReceipt)
    BY <1>4 DEF Consult, Expire
  <2>2. Truthful(ExpiredReceipt) /\ S \in SUBSET Open
    BY TruthfulReceipts DEF IInv, TypeOK, Open, Stale
  <2>3. \A i \in Approval : (i \in S => status'[i] = ExpiredReceipt.status)
          /\ (i \notin S => status'[i] = status[i] /\ receipt'[i] = receipt[i])
    BY <2>1, <2>2, CloseLedger DEF IInv
  <2>4. subject' = subject /\ runs' = runs /\ ExpiredReceipt.status = "expired"
    BY <1>4, <2>1 DEF Consult, Close, ExpiredReceipt, Receipt
  <2>5. QED BY <2>3, <2>4 DEF RowMove, RunMove, Stale
<1>5. ASSUME NEW i \in Approval, NEW c \in Context, Deny(i, c) PROVE Moves
  <2>1. \A j \in Approval : RowMove(j)
    BY <1>5 DEF Deny, Mark, Filed, Stale, IInv, TypeOK, LedgerAgrees, Terminal, RowMove
  <2>2. \A b \in Action : RunMove(b)
    BY <1>5 DEF Deny, RunMove
  <2>3. QED BY <2>1, <2>2
<1>6. ASSUME NEW t \in Task, NEW i \in Approval, NEW c \in Context, Claim(t, i, c) PROVE Moves
  <2>1. \A j \in Approval : RowMove(j)
    BY <1>6 DEF Claim, Mark, Filed, Stale, IInv, TypeOK, LedgerAgrees, Terminal, RowMove
  <2>2. \A b \in Action : RunMove(b)
    BY <1>6 DEF Claim, RunMove
  <2>3. QED BY <2>1, <2>2
<1>7. ASSUME NEW t \in Task, Block(t) PROVE Moves
  <2>1. Complete(t, Receipt("failed", FALSE, FALSE, FALSE))
    BY <1>7 DEF Block
  <2> DEFINE r == Receipt("failed", FALSE, FALSE, FALSE)
  <2>2. Truthful(r) /\ pc[t] \in Working
    BY <1>7, <2>1, TruthfulReceipts DEF Block, Working
  <2>3. /\ sel[t] \in Approval /\ status[sel[t]] = "executing" /\ subject' = subject
        /\ status'[sel[t]] = r.status
        /\ \A i \in Approval : i # sel[t] => status'[i] = status[i] /\ receipt'[i] = receipt[i]
    BY <2>1, <2>2, CompleteOne
  <2>4. runs' = runs /\ r.status = "failed"
    BY <1>7 DEF Block, Receipt
  <2>5. QED BY <2>3, <2>4 DEF RowMove, RunMove
<1>8. ASSUME NEW t \in Task, Proceed(t) PROVE Moves
  BY <1>8 DEF Proceed, db, RowMove, RunMove
<1>9. ASSUME NEW t \in Task, CancelBeforeStart(t) PROVE Moves
  <2>1. Complete(t, Receipt("failed", FALSE, FALSE, FALSE))
    BY <1>9 DEF CancelBeforeStart
  <2> DEFINE r == Receipt("failed", FALSE, FALSE, FALSE)
  <2>2. Truthful(r) /\ pc[t] \in Working
    BY <1>9, <2>1, TruthfulReceipts DEF CancelBeforeStart, Working
  <2>3. /\ sel[t] \in Approval /\ status[sel[t]] = "executing" /\ subject' = subject
        /\ status'[sel[t]] = r.status
        /\ \A i \in Approval : i # sel[t] => status'[i] = status[i] /\ receipt'[i] = receipt[i]
    BY <2>1, <2>2, CompleteOne
  <2>4. runs' = runs /\ r.status = "failed"
    BY <1>9 DEF CancelBeforeStart, Receipt
  <2>5. QED BY <2>3, <2>4 DEF RowMove, RunMove
<1>10. ASSUME NEW t \in Task, NotExecutable(t) PROVE Moves
  <2>1. Complete(t, Receipt("failed", TRUE, FALSE, FALSE))
    BY <1>10 DEF NotExecutable
  <2> DEFINE r == Receipt("failed", TRUE, FALSE, FALSE)
  <2>2. Truthful(r) /\ pc[t] \in Working
    BY <1>10, <2>1, TruthfulReceipts DEF NotExecutable, Working
  <2>3. /\ sel[t] \in Approval /\ status[sel[t]] = "executing" /\ subject' = subject
        /\ status'[sel[t]] = r.status
        /\ \A i \in Approval : i # sel[t] => status'[i] = status[i] /\ receipt'[i] = receipt[i]
    BY <2>1, <2>2, CompleteOne
  <2>4. runs' = runs /\ r.status = "failed"
    BY <1>10 DEF NotExecutable, Receipt
  <2>5. QED BY <2>3, <2>4 DEF RowMove, RunMove
<1>11. ASSUME NEW t \in Task, Enter(t) PROVE Moves
  <2>1. sel[t] \in Approval /\ status[sel[t]] = "executing" /\ runs[subject[sel[t]]] = 0
    BY <1>11 DEF IInv, TypeOK, Enter, ClaimOwned, NoTaskWhenDown, Working, RunsMatch
  <2>2. \A i \in Approval : RowMove(i)
    BY <1>11 DEF Enter, db, RowMove
  <2>3. \A a \in Action : RunMove(a)
    BY <1>11, <2>1 DEF Enter, db, RunMove, Bump, IInv, TypeOK
  <2>4. QED BY <2>2, <2>3
<1>12. ASSUME NEW t \in Task, HandlerReturns(t) PROVE Moves
  <2>1. PICK verified, executed, may \in BOOLEAN :
          /\ verified => executed /\ ~may
          /\ Complete(t, Receipt(IF verified THEN "succeeded" ELSE "failed",
                                 executed, verified, may))
    BY <1>12 DEF HandlerReturns
  <2> DEFINE r == Receipt(IF verified THEN "succeeded" ELSE "failed", executed, verified, may)
  <2>2. Truthful(r) /\ pc[t] \in Working
    BY <1>12, <2>1, TruthfulReceipts DEF HandlerReturns, Working
  <2>3. /\ sel[t] \in Approval /\ status[sel[t]] = "executing" /\ subject' = subject
        /\ status'[sel[t]] = r.status
        /\ \A i \in Approval : i # sel[t] => status'[i] = status[i] /\ receipt'[i] = receipt[i]
    BY <2>1, <2>2, CompleteOne
  <2>4. runs[subject[sel[t]]] = 1 /\ runs' = runs /\ r.status \in {"failed", "succeeded"}
    BY <1>12 DEF HandlerReturns, IInv, RunsMatch, Receipt
  <2>5. QED BY <2>3, <2>4 DEF RowMove, RunMove
<1>13. ASSUME NEW t \in Task, HandlerRaises(t) PROVE Moves
  <2>1. Complete(t, Receipt("failed", TRUE, FALSE, FALSE))
    BY <1>13 DEF HandlerRaises
  <2> DEFINE r == Receipt("failed", TRUE, FALSE, FALSE)
  <2>2. Truthful(r) /\ pc[t] \in Working
    BY <1>13, <2>1, TruthfulReceipts DEF HandlerRaises, Working
  <2>3. /\ sel[t] \in Approval /\ status[sel[t]] = "executing" /\ subject' = subject
        /\ status'[sel[t]] = r.status
        /\ \A i \in Approval : i # sel[t] => status'[i] = status[i] /\ receipt'[i] = receipt[i]
    BY <2>1, <2>2, CompleteOne
  <2>4. runs' = runs /\ r.status = "failed"
    BY <1>13 DEF HandlerRaises, Receipt
  <2>5. QED BY <2>3, <2>4 DEF RowMove, RunMove
<1>14. ASSUME NEW t \in Task, CancelRunning(t) PROVE Moves
  <2>1. Complete(t, Receipt("failed", TRUE, FALSE, TRUE))
    BY <1>14 DEF CancelRunning
  <2> DEFINE r == Receipt("failed", TRUE, FALSE, TRUE)
  <2>2. Truthful(r) /\ pc[t] \in Working
    BY <1>14, <2>1, TruthfulReceipts DEF CancelRunning, Working
  <2>3. /\ sel[t] \in Approval /\ status[sel[t]] = "executing" /\ subject' = subject
        /\ status'[sel[t]] = r.status
        /\ \A i \in Approval : i # sel[t] => status'[i] = status[i] /\ receipt'[i] = receipt[i]
    BY <2>1, <2>2, CompleteOne
  <2>4. runs' = runs /\ r.status = "failed"
    BY <1>14 DEF CancelRunning, Receipt
  <2>5. QED BY <2>3, <2>4 DEF RowMove, RunMove
<1>15. ASSUME NEW t \in Task, Continue(t) PROVE Moves
  BY <1>15 DEF Continue, db, RowMove, RunMove
<1>16. ASSUME NEW t \in Task, CancelSettled(t) PROVE Moves
  BY <1>16 DEF CancelSettled, db, RowMove, RunMove
<1>17. ASSUME Crash PROVE Moves
  BY <1>17 DEF Crash, db, RowMove, RunMove
<1>18. ASSUME Restart PROVE Moves
  <2> DEFINE S == {i \in Approval : status[i] = "executing"}
  <2>1. Close(S, RecoveredReceipt)
    BY <1>18 DEF Restart, Expire
  <2>2. Truthful(RecoveredReceipt) /\ S \in SUBSET Open
    BY TruthfulReceipts DEF IInv, TypeOK, Open, Stale
  <2>3. \A i \in Approval : (i \in S => status'[i] = RecoveredReceipt.status)
          /\ (i \notin S => status'[i] = status[i] /\ receipt'[i] = receipt[i])
    BY <2>1, <2>2, CloseLedger DEF IInv
  <2>4. subject' = subject /\ runs' = runs /\ RecoveredReceipt.status = "failed"
    BY <1>18, <2>1 DEF Restart, Close, RecoveredReceipt, Receipt
  <2>5. QED BY <2>3, <2>4 DEF RowMove, RunMove, Stale
<1>19. QED
  BY <1>1, <1>2, <1>3, <1>4, <1>5, <1>6, <1>7, <1>8, <1>9, <1>10, <1>11, <1>12, <1>13, <1>14, <1>15, <1>16, <1>17, <1>18
     DEF Next, Step, Cancel

\* A receipt, once written, is never rewritten, and its row never reopened.
THEOREM ReceiptsAreFinal == Spec => ReceiptsFinal
<1>1. IInv /\ [Next]_vars =>
        [\A i \in Approval : receipt[i] # NoReceipt =>
           receipt'[i] = receipt[i] /\ status'[i] = status[i]]_vars
  <2> SUFFICES ASSUME IInv, [Next]_vars, NEW i \in Approval, receipt[i] # NoReceipt
               PROVE  receipt'[i] = receipt[i] /\ status'[i] = status[i]
    OBVIOUS
  <2>1. RowMove(i)
    BY NextMoves
  <2>2. status[i] \in Terminal
    BY DEF IInv, LedgerAgrees
  <2>3. QED BY <2>1, <2>2 DEF RowMove, Terminal
<1>2. QED BY <1>1, Invariance, PTL DEF Spec, ReceiptsFinal

-----------------------------------------------------------------------------
(* Refinement.                                                             *)

\* The phase of an action told from its one row.
PhaseOfRow(s, n) ==
    CASE s = "succeeded" -> "succeeded"
      [] s \in {"failed", "denied", "expired"} -> "closed"
      [] s = "executing" -> IF n = 0 THEN "claimed" ELSE "entered"
      [] s = "pending" -> "asked"
      [] OTHER -> "unasked"

\* The phase the refinement gives an action, from the row bound to it.
LEMMA PhaseHere ==
    ASSUME IInv, NEW a \in Action
    PROVE  /\ \A i \in Approval : subject[i] = a => phaseOf[a] = PhaseOfRow(status[i], runs[a])
           /\ (\A i \in Approval : subject[i] # a) => phaseOf[a] = "unasked"
<1>1. \A i \in Approval : subject[i] = a => \A j \in Approval : subject[j] = a => j = i
  BY ApprovalsAssumption DEF ApprovalsAssumption, IInv, OneApprovalPerAction
<1>2. QED BY <1>1 DEF phaseOf, Is, PhaseOfRow

\* The same in the next state.
LEMMA PhaseNext ==
    ASSUME IInv', NEW a \in Action
    PROVE  /\ \A i \in Approval : subject'[i] = a =>
                phaseOf'[a] = PhaseOfRow(status'[i], runs'[a])
           /\ (\A i \in Approval : subject'[i] # a) => phaseOf'[a] = "unasked"
<1>1. \A i \in Approval : subject'[i] = a => \A j \in Approval : subject'[j] = a => j = i
  BY ApprovalsAssumption DEF ApprovalsAssumption, IInv, OneApprovalPerAction
<1>2. QED BY <1>1 DEF phaseOf, Is, PhaseOfRow

\* The gateway implements ExactlyOnce: each action is asked for, claimed,
\* entered and ended in that order, with no way back, whatever rows, tasks and
\* crashes there are.
THEOREM Refinement == Spec => ImplementsExactlyOnce
<1>1. Init => Promise!Init
  <2> SUFFICES ASSUME Init PROVE phaseOf = [a \in Action |-> "unasked"]
    BY DEF Promise!Init
  <2>1. QED BY DEF Init, phaseOf, Is
<1>2. IInv /\ IInv' /\ [Next]_vars => [Promise!Move]_phaseOf
  <2> SUFFICES ASSUME IInv, IInv', [Next]_vars PROVE Promise!Move
    OBVIOUS
  <2>1. phaseOf' \in [Action -> Promise!Phase]
    BY DEF phaseOf, Promise!Phase
  <2>2. ASSUME NEW a \in Action
        PROVE  phaseOf'[a] = phaseOf[a] \/ <<phaseOf[a], phaseOf'[a]>> \in Promise!Edges
    <3>1. CASE \E i \in Approval : subject[i] = a
      <4>1. PICK i \in Approval : subject[i] = a
        BY <3>1
      <4>2. subject'[i] = a /\ RowMove(i) /\ RunMove(a)
        BY <4>1, NextMoves, ApprovalsAssumption DEF ApprovalsAssumption, RowMove
      <4>3. /\ phaseOf[a] = PhaseOfRow(status[i], runs[a])
            /\ phaseOf'[a] = PhaseOfRow(status'[i], runs'[a])
        BY <4>1, <4>2, PhaseHere, PhaseNext
      <4>4. status[i] # "none" /\ runs[a] \in 0..2 /\ status[i] \in Status
        BY <4>1, ApprovalsAssumption DEF ApprovalsAssumption, IInv, RowsBound, TypeOK
      <4>5. runs'[a] = runs[a] \/ (runs[a] = 0 /\ runs'[a] = 1 /\
                                   status[i] = "executing" /\ status'[i] = "executing")
        BY <4>1, <4>2, ApprovalsAssumption
           DEF ApprovalsAssumption, RunMove, IInv, OneApprovalPerAction
      <4>6. status[i] = "pending" => runs[a] = 0
        BY <4>1 DEF IInv, UndecidedNeverRan
      <4>7. QED BY <4>1, <4>2, <4>3, <4>4, <4>5, <4>6
                DEF PhaseOfRow, RowMove, Promise!Edges, Status, Terminal
    <3>2. CASE \A i \in Approval : subject[i] # a
      <4>1. phaseOf[a] = "unasked"
        BY <3>2, PhaseHere
      <4>2. CASE \A i \in Approval : subject'[i] # a
        BY <4>1, <4>2, PhaseNext
      <4>3. CASE \E i \in Approval : subject'[i] = a
        <5>1. PICK i \in Approval : subject'[i] = a
          BY <4>3
        <5>2. subject[i] = NoAction /\ status[i] = "none"
          BY <3>2, <5>1, NextMoves DEF RowMove, IInv, RowsBound
        <5>3. status'[i] = "pending"
          BY <5>1, <5>2, NextMoves, ApprovalsAssumption
             DEF ApprovalsAssumption, RowMove, IInv, RowsBound
        <5>4. phaseOf'[a] = "asked"
          BY <5>1, <5>3, PhaseNext DEF PhaseOfRow
        <5>5. QED BY <4>1, <5>4 DEF Promise!Edges
      <4>4. QED BY <4>2, <4>3
    <3>3. QED BY <3>1, <3>2
  <2>3. QED BY <2>1, <2>2 DEF Promise!Move
<1>3. QED BY <1>1, <1>2, Invariance, PTL DEF Spec, ImplementsExactlyOnce, Promise!Spec
=============================================================================
