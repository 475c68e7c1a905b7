------------------------------ MODULE TurnReport ------------------------------
(***************************************************************************)
(* What a turn says of the changes it made at Calibration IQ: the result    *)
(* that each call brings back (calibration_iq.py:3245-3393, the audit and   *)
(* the single order of calibration_iq_work_prep.py), whether the gateway    *)
(* records it as succeeded (registry.py:3860-4104), and the review of the   *)
(* model's wording, with the line Core says when no wording survives        *)
(* (loop.py:413-721, 1977-2087; truth_review.py).                           *)
(***************************************************************************)
EXTENDS Naturals, Sequences, FiniteSets, SequencesExt

CONSTANTS
    Uses, Kind,       \* calls of tools: [Uses -> {"operator", "order", "week", "start"}]
    Orders,           \* that an audit works on
    MaxActions,       \* bound: actions of a batch
    None

VARIABLES
    call,             \* [Uses -> [result, logged]]
    truth,            \* observed: [Uses -> what the call did]
    phase, wording,   \* of the review
    valid,            \* the wordings a review called valid
    said

vars == <<call, truth, phase, wording, valid, said>>

-----------------------------------------------------------------------------
(* A batch at Calibration IQ: what each processed action did, and the answer.     *)

\* "unproved" took effect, but its receipt does not verify it.
Outcomes == {"ok", "unproved", "no"}

Batches(n) == {b \in [n : {n}, acts : UNION {[1..k -> Outcomes] : k \in 0..n},
                      answer : {"json", "lost", "error", "garbled", "refused"},
                      proved : BOOLEAN] :
    /\ b.answer = "refused" => b.acts = <<>>
    /\ \A i \in DOMAIN b.acts : i < Len(b.acts) => b.acts[i] # "no"
    /\ b.answer = "json" => b.acts # <<>> /\ (Len(b.acts) = n \/ Last(b.acts) = "no")
    /\ b.answer # "json" => ~b.proved /\ \A i \in DOMAIN b.acts : b.acts[i] = "ok"}

Took(b) == Cardinality({i \in DOMAIN b.acts : b.acts[i] # "no"})
Unknown(b) == b.answer \in {"lost", "error", "garbled"}

_receipt_verified(r) == r = "ok"
Verified(receipts) == Len(SelectSeq(receipts, _receipt_verified))

Nothing == [status |-> None, executed |-> FALSE, success |-> FALSE, verified |-> FALSE,
            partial |-> FALSE, may |-> FALSE, requested |-> 0, processed |-> 0, receipts |-> <<>>]

\* No answer, or one of the server's failing: it may have been done.
_operator_error(b) ==
    [Nothing EXCEPT !.status = "temporary_service_failure", !.may = TRUE]
\* An answer that cannot be read: it was done, whatever it was.
Garbled == [Nothing EXCEPT !.status = "invalid_response", !.executed = TRUE]
_response_error(b) ==
    IF b.answer = "error" THEN _operator_error(b) ELSE [Nothing EXCEPT !.status = "operation_failed"]

\* Mutant: a success asks for receipts, not for the state that was read again.
ResultUnproved(b) ==
    CASE b.answer \in {"refused", "error"} -> _response_error(b)
      [] b.answer = "lost" -> [Nothing EXCEPT !.status = "failed"]
      [] b.answer = "garbled" -> Garbled
      [] OTHER ->
         [status |-> IF Took(b) = b.n THEN "success" ELSE "failed", executed |-> TRUE,
          success |-> Took(b) = b.n, verified |-> Took(b) = b.n, partial |-> FALSE, may |-> FALSE,
          requested |-> b.n, processed |-> Len(b.acts), receipts |-> b.acts]

operator_execute(b) ==
    CASE b.answer \in {"refused", "error"} -> _response_error(b)
      [] b.answer = "lost" -> _operator_error(b)
      [] b.answer = "garbled" -> Garbled
      [] OTHER ->
         LET success == /\ Verified(b.acts) = Len(b.acts) /\ Len(b.acts) = b.n
                        /\ b.proved
             partial == Verified(b.acts) > 0 /\ Verified(b.acts) < b.n
         IN [status |-> IF success THEN "success" ELSE IF partial THEN "partial_success" ELSE "failed",
             executed |-> TRUE, success |-> success, verified |-> success, partial |-> partial,
             may |-> FALSE, requested |-> b.n, processed |-> Len(b.acts), receipts |-> b.acts]

-----------------------------------------------------------------------------
(* One order of an audit: perhaps its research is reopened, then its items edited. *)

Rows == {w \in [reopen : {"no", "proved", "doubt", "failed"}, edit : UNION {Batches(n) : n \in 0..MaxActions},
                mapped : BOOLEAN, bound : BOOLEAN, settled : BOOLEAN] :
    /\ ~w.mapped => w.edit.n = 0 /\ w.reopen = "no" /\ ~w.settled
    /\ w.edit.n = 0 => w.edit.answer = "refused"
    /\ (w.edit.n = 0 /\ w.reopen = "no") => w.bound
    /\ ~w.bound => w.reopen = "no" /\ w.edit.answer = "refused" /\ w.edit.n = 1
    /\ w.reopen \in {"doubt", "failed"} => w.edit.answer = "refused" /\ w.edit.n = 1
    /\ w.settled => w.edit.n = Took(w.edit) /\ w.reopen \in {"no", "proved"}}

ReopenResult(w) ==
    IF w.reopen = "proved"
    THEN [Nothing EXCEPT !.status = "success", !.executed = TRUE, !.success = TRUE, !.verified = TRUE,
                         !.requested = 1, !.processed = 1, !.receipts = <<"ok">>]
    ELSE IF w.reopen = "doubt" THEN [Nothing EXCEPT !.status = "temporary_service_failure", !.may = TRUE]
    ELSE [Nothing EXCEPT !.status = "failed"]

\* Both results as one; a doubt about the second stays, as an execution.
_merge_operator_results(a, b, n) ==
    LET receipts == a.receipts \o b.receipts
        success == a.success /\ a.verified /\ b.success /\ b.verified
    IN [b EXCEPT
          !.status = IF success THEN b.status
                     ELSE IF Verified(receipts) > 0 THEN "partial_success" ELSE "failed",
          !.executed = a.executed \/ b.executed, !.success = success, !.verified = success,
          !.partial = ~success /\ Verified(receipts) > 0,
          !.requested = (IF a.requested > 0 THEN a.requested ELSE 1)
                        + IF b.requested > n THEN b.requested ELSE n,
          !.processed = a.processed + b.processed, !.receipts = receipts]

Planned(w) == w.edit.n > 0

reconciliation(w) ==
    CASE ~w.bound \/ (w.reopen = "no" /\ ~Planned(w)) -> Nothing
      [] w.reopen = "no" -> operator_execute(w.edit)
      [] w.reopen = "proved" /\ Planned(w) ->
            _merge_operator_results(ReopenResult(w), operator_execute(w.edit), w.edit.n)
      [] OTHER -> ReopenResult(w)

reconcile_ok(w) == w.settled /\ (Planned(w) => reconciliation(w).verified)

\* What an audit has of an order in the end; and observed: what it did.
Audited == {[planned |-> Planned(w), rec |-> reconciliation(w), mapped |-> w.mapped, ok |-> reconcile_ok(w),
             done |-> w.bound /\ w.reopen \in {"no", "proved"} /\ Took(w.edit) = w.edit.n,
             changed |-> w.reopen = "proved" \/ Took(w.edit) > 0,
             doubt |-> w.reopen = "doubt" \/ Unknown(w.edit),
             garbled |-> w.edit.answer = "garbled",
             merged |-> w.reopen = "proved" /\ Unknown(w.edit)] : w \in Rows}

-----------------------------------------------------------------------------
(* What the audit of one order, and of the week, returns. *)

_ro_requirements(x) ==
    [mode |-> "ro_requirements", success |-> x.mapped => x.ok, verified |-> x.mapped => x.ok,
     counted |-> FALSE, requested |-> 0, processed |-> 0, receipts |-> 0, proved |-> 0,
     doubts |-> 0, failures |-> 0, top |-> x.rec, rows |-> {}, named |-> {}]

Total(xs, f(_)) == FoldFunction(+, 0, [o \in DOMAIN xs |-> f(xs[o].rec)])

_receipt_is_critical(r) == r # "ok"

\* Mutant: the receipts that are kept are the first ones.
KeepFirst(r, limit) ==
    [r EXCEPT !.receipts = SubSeq(@, 1, IF Len(@) < limit THEN Len(@) ELSE limit)]

\* The receipts that are kept: what is not proved comes first.
_compact_reconciliation_result(r, limit) ==
    LET sorted == SelectSeq(r.receipts, _receipt_is_critical) \o SelectSeq(r.receipts, _receipt_verified)
    IN [r EXCEPT !.receipts = SubSeq(sorted, 1, IF Len(sorted) < limit THEN Len(sorted) ELSE limit)]

Limit == [full |-> 12, minimal |-> 3, skeleton |-> 1]

\* A row as it is shown; a skeleton leaves the planned actions out.
_compact_readiness_row(o, x, level) ==
    [order |-> o, planned |-> x.planned /\ level # "skeleton",
     result |-> _compact_reconciliation_result(x.rec, Limit[level])]

Executed(xs) == {o \in DOMAIN xs : xs[o].rec.executed}

\* Rows that do not fit are left out, the executed ones last, and those are named.
_bounded_readiness_rows(xs) ==
    {[rows |-> {_compact_readiness_row(o, xs[o], level) : o \in DOMAIN xs}, named |-> {}] :
        level \in {"full", "minimal", "skeleton"}}
    \cup {[rows |-> {_compact_readiness_row(o, xs[o], "skeleton") : o \in shown},
           named |-> Executed(xs) \ shown] :
        shown \in {s \in SUBSET DOMAIN xs : s # {} /\ (Executed(xs) \subseteq s \/ s \subseteq Executed(xs))}}

_week_readiness(xs, saved, bounded) ==
    [mode |-> "week_readiness", success |-> saved, verified |-> TRUE, counted |-> TRUE,
     requested |-> Total(xs, LAMBDA r : r.requested), processed |-> Total(xs, LAMBDA r : r.processed),
     receipts |-> Total(xs, LAMBDA r : Len(r.receipts)),
     proved |-> Total(xs, LAMBDA r : Verified(r.receipts)),
     doubts |-> Total(xs, LAMBDA r : IF r.may THEN 1 ELSE 0),
     failures |-> Cardinality({o \in DOMAIN xs : xs[o].mapped /\ ~xs[o].ok}),
     top |-> Nothing, rows |-> bounded.rows, named |-> bounded.named]

Truncated == [Nothing EXCEPT !.status = "truncated"]
Cut == [mode |-> None, success |-> FALSE, verified |-> FALSE, counted |-> FALSE, requested |-> 0,
        processed |-> 0, receipts |-> 0, proved |-> 0, doubts |-> 0, failures |-> 0, top |-> Nothing,
        rows |-> {}, named |-> {}]
\* A result that is too long keeps none of its fields.
_invoke_handler(r, long) == IF ~long THEN r ELSE IF "mode" \in DOMAIN r THEN Cut ELSE Truncated

-----------------------------------------------------------------------------
(* The gateway's record of the call. *)

\* Mutant: a partial result that was executed is a success.
OperatorAccepts(r) == r.executed /\ r.status \in {"success", "partial_success"}
operator_succeeded(r) ==
    r.status = "success" /\ r.executed /\ r.success /\ r.verified /\ ~r.partial

FullyProved(r) == /\ r.success /\ r.verified /\ ~r.partial
                  /\ r.requested = r.processed /\ r.processed = Verified(r.receipts)
Attempted(r) == r.requested > 0 \/ r.processed > 0 \/ r.receipts # <<>> \/ r.executed \/ r.may

\* Mutant: an audit that could be completed is a success.
AuditCompleted(r) == r.verified /\ r.success
work_prep_succeeded(r) ==
    /\ r.verified /\ r.success
    /\ r.counted => /\ r.requested = r.receipts /\ r.receipts = r.processed
                    /\ r.processed = r.proved /\ r.failures = 0 /\ r.doubts = 0
    /\ Attempted(r.top) => FullyProved(r.top)
    /\ \A row \in r.rows : row.planned \/ Attempted(row.result) => FullyProved(row.result)

_approved_result_error(c, r) ==
    IF Kind[c] = "operator" THEN ~operator_succeeded(r) ELSE ~work_prep_succeeded(r)

-----------------------------------------------------------------------------
(* What the turn takes from the results. *)

\* The result of a protected action that was run before: only its failure is unwrapped.
Replayed(r) == IF operator_succeeded(r)
               THEN [Nothing EXCEPT !.status = "succeeded", !.executed = TRUE, !.success = TRUE]
               ELSE r
_calibration_iq_operator_payload(r, replayed) == IF replayed THEN Replayed(r) ELSE r

calibration_iq_operator_result_is_verified(r) ==
    /\ r.status = "success" /\ r.success /\ r.verified /\ ~r.partial
    /\ r.receipts # <<>> /\ r.requested = r.processed /\ r.processed = Len(r.receipts)
    /\ Verified(r.receipts) = Len(r.receipts)

Counts(r) ==
    IF r.counted THEN [requested |-> r.requested, proved |-> r.proved,
                       any |-> r.requested + r.processed + r.receipts + r.proved > 0]
    ELSE [requested |-> r.top.requested, proved |-> Verified(r.top.receipts),
          any |-> r.top.requested > 0 \/ r.top.processed > 0 \/ r.top.receipts # <<>>]

_calibration_iq_work_prep_result_mutated(r) ==
    \/ Counts(r).any \/ r.failures > 0 \/ r.doubts > 0
    \/ r.top.executed \/ r.top.may

Done(kinds) == {c \in Uses : call[c].result # None /\ Kind[c] \in kinds}
Mutated == {c \in Done({"order", "week"}) : _calibration_iq_work_prep_result_mutated(call[c].result)}

calibration_iq_mutation_truth_review_required == Done({"operator"}) # {} \/ Mutated # {}

\* Mutant: a call that failed outranks one in doubt.
StateFailedFirst ==
    LET failed == \/ \E c \in Done({"operator"}) : ~call[c].result.success
                  \/ \E c \in Mutated : call[c].result.failures > 0 \/ ~call[c].result.success
    IN IF failed THEN "failed" ELSE "verified"

\* Mutant: the audit's own truth is enough.
StateOfAudits ==
    IF \E c \in Done({"operator"}) : ~call[c].result.verified THEN "indeterminate"
    ELSE IF \E c \in Mutated : ~call[c].result.verified THEN "failed" ELSE "verified"

_calibration_iq_structural_verification_state ==
    LET ops == {c \in Done({"operator"}) : ~calibration_iq_operator_result_is_verified(call[c].result)}
        R(c) == call[c].result
        failing(c) == R(c).failures > 0 \/ ~R(c).success
        doubt == \/ \E c \in ops : R(c).may \/ R(c).success \/ R(c).status = "truncated"
                 \/ \E c \in Mutated : \/ R(c).doubts > 0
                                       \/ R(c).top.may /\ ~R(c).top.executed
                                       \/ ~failing(c) /\ Counts(R(c)).requested > Counts(R(c)).proved
        failed == ops # {} \/ \E c \in Mutated : failing(c)
    IN IF doubt THEN "indeterminate" ELSE IF failed THEN "failed"
       ELSE IF \A c \in Mutated : R(c).verified THEN "verified" ELSE "indeterminate"

-----------------------------------------------------------------------------
Init ==
    /\ call = [c \in Uses |-> [result |-> None, logged |-> None]]
    /\ truth = [c \in Uses |-> None]
    /\ phase = "calls" /\ wording = None /\ valid = {} /\ said = None

Called(c) == phase = "calls" /\ call[c].result = None

Returns(c, r, told, t) ==
    /\ call' = [call EXCEPT ![c] = [result |-> told, logged |-> ~_approved_result_error(c, r)]]
    /\ truth' = [truth EXCEPT ![c] = t]
    /\ UNCHANGED <<phase, wording, valid, said>>

\* Observed: was all of it done, or some; is Core in doubt, and does the result say so.
Fact(all, some, doubt, hidden, long) ==
    [all |-> all, some |-> some, doubt |-> doubt, hidden |-> hidden \/ long, long |-> long,
     executed |-> {}, critical |-> {}]

Operate(c) ==
    /\ Kind[c] = "operator" /\ Called(c)
    /\ \E n \in 1..MaxActions, long, replayed \in BOOLEAN : \E b \in Batches(n) :
          LET r == _invoke_handler(operator_execute(b), long)
          IN Returns(c, r, _calibration_iq_operator_payload(r, replayed),
                     Fact(Took(b) = n, Took(b) > 0, Unknown(b), b.answer = "garbled", FALSE))

OneOrder(c) ==
    /\ Kind[c] = "order" /\ Called(c)
    /\ \E x \in Audited, long \in BOOLEAN :
          LET r == _invoke_handler(_ro_requirements(x), long)
          IN Returns(c, r, r, Fact(x.done, x.changed, x.doubt, x.garbled \/ x.merged, long))

Week(c) ==
    /\ Kind[c] = "week" /\ Called(c)
    /\ \E xs \in [Orders -> Audited], saved \in BOOLEAN : \E bounded \in _bounded_readiness_rows(xs) :
          LET r == _week_readiness(xs, saved, bounded)
              any(P(_)) == \E o \in Orders : P(xs[o])
          IN Returns(c, r, r,
                [Fact(\A o \in Orders : xs[o].done, any(LAMBDA x : x.changed),
                      any(LAMBDA x : x.doubt), any(LAMBDA x : x.garbled), FALSE) EXCEPT
                   !.executed = Executed(xs),
                   !.critical = {o \in Orders : SelectSeq(xs[o].rec.receipts, _receipt_is_critical) # <<>>}])

\* Work that goes on in the background was started.
Start(c) ==
    /\ Kind[c] = "start" /\ Called(c)
    /\ Returns(c, Nothing, Nothing, Fact(TRUE, FALSE, FALSE, FALSE, FALSE))

-----------------------------------------------------------------------------
(* The review. *)

Calm == UNCHANGED <<call, truth>>
Say(s) == phase' = "said" /\ said' = s
Model(w) == [by |-> "model", text |-> w]
fail_closed_text ==
    [by |-> "core", text |-> IF calibration_iq_mutation_truth_review_required
                             THEN _calibration_iq_structural_verification_state ELSE "started"]

\* The model answers, or ends the turn without a word.
Answer ==
    /\ phase = "calls"
    /\ \E text \in {"draft", None} :
          IF calibration_iq_mutation_truth_review_required
          THEN /\ phase' = IF text = None THEN "synthesize" ELSE "review"
               /\ wording' = text /\ UNCHANGED said
          ELSE IF Done({"start"}) # {} /\ text # None
          THEN phase' = "review" /\ wording' = text /\ UNCHANGED said
          ELSE IF Done({"start"}) # {} THEN Say(fail_closed_text) /\ UNCHANGED wording
          ELSE Say([by |-> "plain", text |-> text]) /\ UNCHANGED wording
    /\ Calm /\ UNCHANGED valid

\* The turn is paused for an approval, or used its rounds.
Exit ==
    /\ phase = "calls"
    /\ IF calibration_iq_mutation_truth_review_required
       THEN phase' = "synthesize" /\ UNCHANGED said
       ELSE Say([by |-> "plain", text |-> None])
    /\ Calm /\ UNCHANGED <<wording, valid>>

Synthesize ==
    /\ phase = "synthesize"
    /\ \/ phase' = "review" /\ wording' = "synthesized" /\ UNCHANGED said
       \/ Say(fail_closed_text) /\ UNCHANGED wording
    /\ Calm /\ UNCHANGED valid

\* Mutant: a reviewer that does not answer has no objection.
ReviewUnavailable ==
    /\ phase = "review"
    /\ \/ Say(Model(wording)) /\ UNCHANGED valid
       \/ phase' = "regenerate" /\ UNCHANGED <<said, valid>>
    /\ Calm /\ UNCHANGED wording

\* The reviewer is unavailable, agrees, or objects.
review_candidate ==
    /\ phase = "review"
    /\ \/ Say(fail_closed_text) /\ UNCHANGED valid
       \/ Say(Model(wording)) /\ valid' = valid \cup {wording}
       \/ phase' = "regenerate" /\ UNCHANGED <<said, valid>>
    /\ Calm /\ UNCHANGED wording

regenerate_candidate ==
    /\ phase = "regenerate"
    /\ \/ phase' = "second" /\ wording' = "regenerated" /\ UNCHANGED said
       \/ Say(fail_closed_text) /\ UNCHANGED wording
    /\ Calm /\ UNCHANGED valid

SecondReview ==
    /\ phase = "second"
    /\ \/ Say(Model(wording)) /\ valid' = valid \cup {wording}
       \/ Say(fail_closed_text) /\ UNCHANGED valid
    /\ Calm /\ UNCHANGED wording

Next ==
    \/ \E c \in Uses : Operate(c) \/ OneOrder(c) \/ Week(c) \/ Start(c)
    \/ Answer \/ Exit \/ Synthesize \/ review_candidate \/ regenerate_candidate \/ SecondReview

Spec == Init /\ [][Next]_vars

-----------------------------------------------------------------------------
Counted == Done({"operator"}) \cup Mutated
Line(state) == said # None /\ said.by = "core" /\ said.text = state

(* The line that says "completed and was verified" is said when all that was asked of
   Calibration IQ took effect, and "failed" never when an outcome is unknown, but for
   an answer that could not be read or that a reopened order's result lost
   (loop.py:662-721, calibration_iq_work_prep.py:1129-1187). *)
LineIsTrue ==
    /\ Line("verified") => \A c \in Counted : truth[c].all
    /\ Line("failed") => \A c \in Counted : truth[c].doubt => truth[c].hidden

(* "Indeterminate outranks failed outranks verified, so an uncertain execution is never
   narrated with confidence" (loop.py:668-670). *)
DoubtOutranks == Line("failed") \/ Line("verified") => \A c \in Counted : ~truth[c].doubt

(* "failed and no change was verified" (truth_review.py:62). *)
FailedIsTrue == Line("failed") => \A c \in Done({"operator"}) :
                                     call[c].result.status # "partial_success" /\ ~truth[c].all

(* A call that the gateway records as succeeded did all it set out to do, and when
   each of the turn's calls is, Core's own line says so (registry.py:3918-4104). *)
LoggedIsDone ==
    /\ \A c \in Done({"operator", "order", "week"}) : call[c].logged => truth[c].all
    /\ Counted # {} /\ (\A c \in Counted : call[c].logged /\ "status" \in DOMAIN call[c].result
                                                => call[c].result.status # "succeeded")
         /\ (\A c \in Counted : call[c].logged)
       => _calibration_iq_structural_verification_state = "verified"

(* A turn that changed Calibration IQ, or started work, ends with a wording that a
   review called valid or with Core's line (loop.py:2646-2744, 3092-3112). *)
WordsAreReviewed ==
    said # None =>
        /\ said.by = "model" => said.text \in valid
        /\ said.by = "plain" => \A c \in Uses : truth[c] # None => ~truth[c].some \/ truth[c].long

(* What the audit of a week shows of an order holds a receipt that is not proved when
   there is one, and an executed order that is left out is named
   (calibration_iq_work_prep.py:1934-1999, 2302-2381). *)
ShownIsTrue == \A c \in Done({"week"}) :
    LET rows == call[c].result.rows
        shown == {row.order : row \in rows}
    IN /\ truth[c].executed \subseteq shown \cup call[c].result.named
       /\ \A row \in rows : row.order \in truth[c].critical =>
              \E i \in DOMAIN row.result.receipts : row.result.receipts[i] # "ok"

ReportTruth == LineIsTrue /\ LoggedIsDone /\ WordsAreReviewed /\ ShownIsTrue
=============================================================================
