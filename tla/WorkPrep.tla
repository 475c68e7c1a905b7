------------------------------ MODULE WorkPrep ------------------------------
(***************************************************************************)
(* The readiness audit of the week (core/services/                            *)
(* calibration_iq_work_prep.py, calibration_iq_weekly_queue.py): it reads     *)
(* every repair order in scope, makes Calibration IQ agree with the ADAS Map  *)
(* that governs the order, records the service information that is missing,   *)
(* says which orders are ready, and keeps the rest as the conversation's      *)
(* queue.  Other people and other audits work on the same orders.             *)
(***************************************************************************)
EXTENDS Naturals, FiniteSets

CONSTANTS
    Audits,             \* calls of week_readiness
    Conversation,       \* [Audits -> conversations]
    Executing,          \* the audits with execute_missing
    Unbound,            \* the audits without the identity of their turn
    Orders, Ids, Cals,
    Governs,            \* [Orders -> set of [cal, method]]: what the ADAS Map says
    Methods,            \* of calibrations
    Unknown,            \* the method the map does not give
    MAX_QUEUE_ITEMS, MAX_STORED_CONVERSATIONS,
    MaxOthers,          \* bound: changes made by others
    None

VARIABLES
    item,      \* Calibration IQ: [Orders -> [Ids -> item]]
    research,  \* Calibration IQ: is the research complete, and its version
    record,    \* Calibration IQ: items with an open missing-SI record
    maps,      \* the artifact catalog: what discover finds for an order
    cover,     \* the artifact catalog: [Cals -> state]
    audit, queue,
    others

vars == <<item, research, record, maps, cover, audit, queue, others>>

Absent == [cal |-> None, det |-> None, method |-> None, named |-> FALSE, ver |-> 0]
Active == {"REQUIRED", "POSSIBLE"}
Gap == {"MISSING", "UNVERIFIED"}

NoAudit == [at |-> "idle", todo |-> {}, cur |-> None, snap |-> [o \in Orders |-> None],
            info |-> None, plan |-> {}, verified |-> FALSE, stale |-> FALSE,
            coverage |-> [c \in Cals |-> None], link |-> FALSE,
            ready |-> {}, gaps |-> [o \in Orders |-> {}], saved |-> FALSE]

Init ==
    /\ item \in [Orders -> {[i \in Ids |-> Absent]} \cup
                  {[[i \in Ids |-> Absent] EXCEPT ![k] =
                       [cal |-> c, det |-> d, method |-> Unknown, named |-> FALSE, ver |-> 1]] :
                     k \in Ids, c \in Cals, d \in {"POSSIBLE", "EXCLUDED"}}]
    /\ research \in [Orders -> [done : BOOLEAN, ver : {1}]]
    /\ record = [o \in Orders |-> {}]
    /\ maps \in [Orders -> {"verified", "not_found", "ambiguous"}]
    /\ cover \in [Cals -> {"COVERED", "MISSING"}]
    /\ audit = [a \in Audits |-> NoAudit]
    /\ queue = [c \in {Conversation[a] : a \in Audits} |-> None]
    /\ others = 0

-----------------------------------------------------------------------------
(* Calibration IQ. *)

Snapshot(o) == [item |-> item[o], done |-> research[o].done, ver |-> research[o].ver]

\* The actions of one batch that the service accepts on the versions they carry.
Fits(o, act) == act.id = None \/ item[o][act.id].ver = act.ver

\* What an accepted action leaves of an item.
Edited(old, act) ==
    [cal |-> act.cal, det |-> "REQUIRED", named |-> TRUE, ver |-> old.ver + 1,
     method |-> IF act.method = Unknown /\ act.id # None THEN old.method ELSE act.method]

\* Every way to give the added items an id of their own.
Places(o, acts) == {f \in [acts -> Ids] :
    /\ \A x \in acts : IF x.id = None THEN item[o][f[x]] = Absent ELSE f[x] = x.id
    /\ \A x, y \in acts : x # y => f[x] # f[y]}

\* Someone else works on the order.
Others(o) ==
    /\ others < MaxOthers /\ others' = others + 1
    /\ \/ /\ \E i \in Ids, d \in {"REQUIRED", "EXCLUDED"} :
               /\ item[o][i] # Absent /\ item[o][i].det # d
               /\ item' = [item EXCEPT ![o][i].det = d, ![o][i].ver = @ + 1]
          /\ UNCHANGED research
       \/ /\ \E i \in Ids, c \in Cals, m \in Methods :
               /\ item[o][i] = Absent
               /\ item' = [item EXCEPT ![o][i] = [cal |-> c, det |-> "REQUIRED", method |-> m,
                                                  named |-> FALSE, ver |-> 1]]
          /\ UNCHANGED research
       \/ /\ research' = [research EXCEPT ![o] = [done |-> ~@.done, ver |-> @.ver + 1]]
          /\ UNCHANGED item
    /\ UNCHANGED <<record, maps, cover, audit, queue>>

-----------------------------------------------------------------------------
(* What the governing map asks of the order. *)

Matches(items, c) == {i \in Ids : items[i].cal = c}
ActiveFor(items, c) == {i \in Matches(items, c) : items[i].det \in Active}
Suits(method, r) == r.method = Unknown \/ method = r.method

Update(items, i, r) == [id |-> i, ver |-> items[i].ver, cal |-> r.cal, method |-> r.method]

\* The record to correct: an active one before an inactive one, then the newest.
Candidate(items, c) ==
    LET pool == IF ActiveFor(items, c) # {} THEN ActiveFor(items, c) ELSE Matches(items, c)
    IN  CHOOSE i \in pool : \A k \in pool : items[i].ver >= items[k].ver

ActionFor(items, r) ==
    LET found == Matches(items, r.cal)
        required == {i \in found : items[i].det = "REQUIRED"}
        satisfied == \E i \in required : Suits(items[i].method, r)
    IN  IF satisfied
        THEN IF Cardinality(required) = 1 /\ \E i \in required : ~items[i].named
             THEN {Update(items, i, r) : i \in required} ELSE {}
        ELSE IF found = {}
        THEN {[id |-> None, ver |-> 0, cal |-> r.cal, method |-> r.method]}
        ELSE {Update(items, Candidate(items, r.cal), r)}

\* Mutant: an item that is not active is not a match.
ActionsForActive(o, s) ==
    UNION {ActionFor([i \in Ids |-> IF s.item[i].det \in Active THEN s.item[i] ELSE Absent], r) :
              r \in Governs[o]}

build_reconciliation_actions(o, s) == UNION {ActionFor(s.item, r) : r \in Governs[o]}

\* The map and Calibration IQ agree on the requirement.
Agrees(items, r) == \E i \in Ids : /\ ActiveFor(items, r.cal) = {i}
                                   /\ items[i].det = "REQUIRED" /\ Suits(items[i].method, r)

_reconciliation_issues(o, s) ==
    IF Governs[o] = {} THEN {i \in Ids : s.item[i].det \in Active}
    ELSE {r \in Governs[o] : ~Agrees(s.item, r)}

-----------------------------------------------------------------------------
(* One audit. *)

Rest == UNCHANGED <<item, research, record, maps, cover, queue, others>>
Becomes(a, r) == audit' = [audit EXCEPT ![a] = r]

Cur(a) == audit[a].cur
Snap(a) == audit[a].snap[Cur(a)]

\* The board is read, and the capacity checked, before any order is touched.
Query(a) ==
    /\ audit[a].at = "idle"
    /\ \A b \in Audits : Conversation[b] = Conversation[a] => audit[b].at \in {"idle", "done", "gone"}
    /\ \E rows \in SUBSET Orders, failed \in BOOLEAN :
          audit' = [b \in Audits |->
              IF b = a THEN [NoAudit EXCEPT !.todo = rows,
                               !.at = IF failed \/ Cardinality(rows) > MAX_QUEUE_ITEMS
                                      THEN "gone" ELSE "load"]
              ELSE IF Conversation[b] = Conversation[a] THEN [audit[b] EXCEPT !.saved = FALSE]
              ELSE audit[b]]
    /\ Rest

Load(a, o) ==
    /\ audit[a].at = "load" /\ o \in audit[a].todo /\ audit[a].snap[o] = None
    /\ \/ Becomes(a, [audit[a] EXCEPT !.snap[o] = Snapshot(o)])
       \/ Becomes(a, [audit[a] EXCEPT !.todo = @ \ {o}])
    /\ Rest

_discover_adas_map(a, o, info) ==
    Becomes(a, [audit[a] EXCEPT !.cur = o, !.info = info, !.todo = @ \ {o}, !.plan = {},
                  !.verified = FALSE, !.stale = FALSE, !.link = FALSE,
                  !.coverage = [c \in Cals |-> None],
                  !.at = IF a \in Executing /\ info \in {"not_found", "unverified"}
                         THEN "acquire" ELSE "reconcile"])

Take(a) ==
    /\ \/ audit[a].at = "load" /\ \A o \in audit[a].todo : audit[a].snap[o] # None
       \/ audit[a].at = "next"
    /\ \E o \in audit[a].todo : \E info \in {maps[o], "unverified"} : _discover_adas_map(a, o, info)
    /\ Rest

\* ScrapeX may have captured the map whatever it answers.
_acquire_adas_map_gap(a) ==
    /\ audit[a].at = "acquire"
    /\ \E captured, answered \in BOOLEAN :
          /\ maps' = IF captured THEN [maps EXCEPT ![Cur(a)] = "verified"] ELSE maps
          /\ Becomes(a, [audit[a] EXCEPT !.at = "reconcile",
                           !.info = IF captured /\ answered THEN "verified" ELSE @])
    /\ UNCHANGED <<item, research, record, cover, queue, others>>

\* What is to be done on a snapshot, and the step that does it.
Planned(a, s) == IF audit[a].info = "verified" THEN build_reconciliation_actions(Cur(a), s) ELSE {}

\* Mutant: an order is edited whatever the state of its research.
EditsAtOnce(a) ==
    /\ audit[a].at = "reconcile"
    /\ LET acts == Planned(a, Snap(a)) IN
       Becomes(a, [audit[a] EXCEPT !.plan = acts,
                     !.at = IF acts = {} \/ a \in Unbound THEN "cover" ELSE "edit"])
    /\ Rest

_reconcile_one(a) ==
    /\ audit[a].at = "reconcile"
    /\ LET acts == Planned(a, Snap(a)) IN
       Becomes(a, [audit[a] EXCEPT !.plan = acts,
                     !.at = IF acts = {} \/ a \in Unbound THEN "cover"
                            ELSE IF Snap(a).done THEN "reopen" ELSE "edit"])
    /\ Rest

\* Completed research is reopened on the version that was read.
Reopen(a) ==
    /\ audit[a].at = "reopen"
    /\ \E answered \in BOOLEAN, arrives \in BOOLEAN :
          LET o == Cur(a)
              taken == arrives /\ research[o].ver = Snap(a).ver
          IN  /\ research' = IF taken THEN [research EXCEPT ![o] = [done |-> FALSE, ver |-> @.ver + 1]]
                             ELSE research
              /\ Becomes(a, [audit[a] EXCEPT !.at = "reopened", !.stale = TRUE,
                               !.verified = taken /\ answered])
    /\ UNCHANGED <<item, record, maps, cover, queue, others>>

\* The order goes on as it was read again; if it was not, as it was read before.
Reread(a, s) == [audit[a] EXCEPT !.snap[Cur(a)] = s, !.stale = FALSE]

\* Mutant: the receipt alone proves the reopen.
ReopenedByReceipt(a) ==
    /\ audit[a].at = "reopened"
    /\ IF audit[a].verified
       THEN LET acts == Planned(a, Snapshot(Cur(a))) IN
            Becomes(a, [Reread(a, Snapshot(Cur(a))) EXCEPT
                          !.plan = acts, !.at = IF acts = {} THEN "cover" ELSE "edit"])
       ELSE \/ Becomes(a, [Reread(a, Snapshot(Cur(a))) EXCEPT !.at = "cover"])
            \/ Becomes(a, [audit[a] EXCEPT !.at = "cover"])
    /\ Rest

Reopened(a) ==
    /\ audit[a].at = "reopened"
    /\ \/ LET s == Snapshot(Cur(a))
              acts == Planned(a, s)
          IN  IF audit[a].verified /\ ~s.done /\ s.ver > Snap(a).ver
              THEN Becomes(a, [Reread(a, s) EXCEPT
                                 !.plan = acts, !.at = IF acts = {} THEN "cover" ELSE "edit"])
              ELSE Becomes(a, [Reread(a, s) EXCEPT !.at = "cover", !.verified = FALSE])
       \/ Becomes(a, [audit[a] EXCEPT !.at = "cover", !.verified = FALSE])
    /\ Rest

\* The batch stops at the first action that is refused; the answer may be lost.
Edit(a) ==
    /\ audit[a].at = "edit"
    /\ LET o == Cur(a) IN
       \E acts \in SUBSET {x \in audit[a].plan : Fits(o, x)} : \E f \in Places(o, acts) :
       \E answered \in BOOLEAN :
          /\ item' = [item EXCEPT ![o] = [i \in Ids |->
                        IF \E x \in acts : f[x] = i
                        THEN Edited(@[i], CHOOSE x \in acts : f[x] = i) ELSE @[i]]]
          /\ Becomes(a, [audit[a] EXCEPT !.at = "edited", !.stale = TRUE,
                           !.verified = answered /\ acts = audit[a].plan])
    /\ UNCHANGED <<research, record, maps, cover, queue, others>>

\* The first reading proves the batch; the second only tells how things stand.
EditReread(a) ==
    /\ audit[a].at = "edited"
    /\ \/ Becomes(a, [Reread(a, Snapshot(Cur(a))) EXCEPT !.at = "cover"])
       \/ Becomes(a, [Reread(a, Snapshot(Cur(a))) EXCEPT !.at = "cover", !.verified = FALSE])
       \/ Becomes(a, [audit[a] EXCEPT !.at = "cover", !.verified = FALSE])
    /\ Rest
\* Coverage by the library; a failure proves nothing either way.
_catalog_coverage(a) ==
    /\ audit[a].at = "cover"
    /\ \E failed \in BOOLEAN :
          Becomes(a, [audit[a] EXCEPT
              !.coverage = [c \in Cals |->
                  IF audit[a].info # "verified" \/ ~\E r \in Governs[Cur(a)] : r.cal = c THEN None
                  ELSE IF failed THEN "UNVERIFIED" ELSE cover[c]],
              !.at = IF a \in Executing /\ audit[a].info = "verified" /\ a \notin Unbound
                     THEN "link" ELSE "records"])
    /\ Rest

\* The order's documents are linked as evidence (CiqOperator); the research stays open.
_link_ro_research_evidence(a) ==
    /\ audit[a].at = "link"
    /\ \E linked \in BOOLEAN : Becomes(a, [audit[a] EXCEPT !.link = linked, !.at = "records"])
    /\ Rest

ActiveItem(a, c) == ActiveFor(Snap(a).item, c)

\* Mutant: what could not be checked counts as covered.
ResolveUnproven(a) ==
    {[open |-> audit[a].coverage[p[1]] = "MISSING", id |-> p[2]] :
        p \in {q \in Cals \X Ids : /\ q[2] \in ActiveItem(a, q[1])
                                    /\ audit[a].coverage[q[1]] # None}}

\* One record for each active item whose information is missing, none once it is there.
build_missing_si_actions(a) ==
    {[open |-> audit[a].coverage[p[1]] = "MISSING", id |-> p[2]] :
        p \in {q \in Cals \X Ids : /\ q[2] \in ActiveItem(a, q[1])
                                    /\ audit[a].coverage[q[1]] \in {"MISSING", "COVERED"}}}

\* Best effort: some of the actions may not arrive, and the audit goes on.
Records(a) ==
    /\ audit[a].at = "records"
    /\ \E acts \in IF a \in Unbound THEN {{}} ELSE SUBSET build_missing_si_actions(a) :
          record' = [record EXCEPT ![Cur(a)] =
                       (@ \ {x.id : x \in acts}) \cup {x.id : x \in {y \in acts : y.open}}]
    /\ Becomes(a, [audit[a] EXCEPT !.at = "judge"])
    /\ UNCHANGED <<item, research, maps, cover, queue, others>>

\* Mutant: what was read before the batch is good enough.
ReconcileUnverified(a) == /\ audit[a].info = "verified"
                          /\ \A r \in Governs[Cur(a)] : Agrees(Snap(a).item, r)
                                                        \/ audit[a].plan # {}

reconcile_ok(a) == /\ audit[a].info = "verified"
                   /\ _reconciliation_issues(Cur(a), Snap(a)) = {}
                   /\ audit[a].plan = {} \/ audit[a].verified

Ready(a) == reconcile_ok(a) /\ (a \in Executing => audit[a].link)

Judge(a) ==
    /\ audit[a].at = "judge"
    /\ Becomes(a, [audit[a] EXCEPT
          !.ready = IF Ready(a) THEN @ \cup {Cur(a)} ELSE @,
          !.gaps[Cur(a)] = {<<c, audit[a].coverage[c]>> :
                              c \in {x \in Cals : audit[a].coverage[x] \in Gap}},
          !.at = "next"])
    /\ Rest

\* The rows that still lack information; other conversations' queues are kept, the
\* oldest ones dropped beyond the limit; a row with the same gap keeps its history.
Rows(a) == [o \in {x \in Orders : audit[a].gaps[x] # {}} |-> audit[a].gaps[o]]

Ended(a, saved) == [NoAudit EXCEPT !.at = "done", !.gaps = audit[a].gaps, !.saved = saved]

Stored == {c \in DOMAIN queue : queue[c] # None}

\* Mutant: an audit without gaps leaves the queue as it was.
SaveGapsOnly(a) ==
    /\ audit[a].at \in {"load", "next"} /\ audit[a].todo = {}
    /\ LET c == Conversation[a] IN
       \/ /\ queue' = IF DOMAIN Rows(a) = {} THEN queue ELSE [queue EXCEPT ![c] = Rows(a)]
          /\ Becomes(a, Ended(a, TRUE))
       \/ UNCHANGED queue /\ Becomes(a, Ended(a, FALSE))
    /\ UNCHANGED <<item, research, record, maps, cover, others>>

_save_weekly_queue(a) ==
    /\ audit[a].at \in {"load", "next"} /\ audit[a].todo = {}
    /\ LET c == Conversation[a] IN
       \/ /\ a \notin Unbound
          /\ \E dropped \in SUBSET (Stored \ {c}) :
                /\ Cardinality(dropped) = IF DOMAIN Rows(a) # {}
                                             /\ Cardinality(Stored \cup {c}) > MAX_STORED_CONVERSATIONS
                                          THEN Cardinality(Stored \cup {c}) - MAX_STORED_CONVERSATIONS
                                          ELSE 0
                /\ queue' = [x \in DOMAIN queue |->
                               IF x = c THEN IF DOMAIN Rows(a) = {} THEN None ELSE Rows(a)
                               ELSE IF x \in dropped THEN None ELSE queue[x]]
          /\ Becomes(a, Ended(a, TRUE))
       \/ \* The file cannot be written, or the turn has no identity.
          UNCHANGED queue /\ Becomes(a, Ended(a, FALSE))
    /\ UNCHANGED <<item, research, record, maps, cover, others>>

\* The turn is stopped, or Core with it, between any two steps.
Stop(a) ==
    /\ audit[a].at \notin {"idle", "done", "gone"}
    /\ Becomes(a, [NoAudit EXCEPT !.at = "gone"])
    /\ Rest

Step(a) ==
    \/ Query(a) \/ (\E o \in Orders : Load(a, o)) \/ Take(a)
    \/ _acquire_adas_map_gap(a) \/ _reconcile_one(a) \/ Reopen(a) \/ Reopened(a)
    \/ Edit(a) \/ EditReread(a) \/ _catalog_coverage(a) \/ _link_ro_research_evidence(a)
    \/ Records(a) \/ Judge(a) \/ _save_weekly_queue(a) \/ Stop(a)

Next == (\E a \in Audits : Step(a)) \/ (\E o \in Orders : Others(o))

Spec == Init /\ [][Next]_vars

-----------------------------------------------------------------------------
(* Properties. *)

\* An order is only called ready on a reading of Calibration IQ that is younger than the
\* audit's own last change to it, and in which each requirement of the governing map is
\* one active, required item with the method of the map (week_readiness, _reconcile_one).
ReadyIsTrue == \A a \in Audits : audit[a].at = "next" /\ Cur(a) \in audit[a].ready =>
    /\ ~audit[a].stale
    /\ \A r \in Governs[Cur(a)] : Agrees(Snap(a).item, r)

\* The requirements of an order are edited from a reading in which its research is open:
\* completed research is reopened first, and the reopen is proved by reading it back.
EditsOpenResearch == \A a \in Audits : audit[a].at = "edit" => ~Snap(a).done

\* The audits of one conversation, one after the other, never leave two items for one
\* calibration, whatever answer is lost and wherever an audit is stopped and repeated.
\* (An addition carries no version: audits of two conversations may both add the item.)
Alone == others = 0 /\ \A a, b \in Audits : Conversation[a] = Conversation[b]
OneItemPerCalibration == Alone => \A o \in Orders, c \in Cals : Cardinality(Matches(item[o], c)) <= 1

\* Calibration IQ shows missing information for an item only if an audit found the
\* library without it, and an audit that could not look never closes a record.
RecordsProven == \A o \in Orders : \A i \in Ids :
    (i \in record'[o]) # (i \in record[o]) =>
        \E a \in Audits, c \in Cals :
            /\ audit[a].at = "records" /\ audit[a].cur = o /\ i \in ActiveItem(a, c)
            /\ audit[a].coverage[c] = IF i \in record'[o] THEN "MISSING" ELSE "COVERED"
RecordsAreProven == [][RecordsProven]_vars

\* A conversation's queue is what its last saved audit found: no row of an order whose
\* gap is gone, and none missing, unless another conversation pushed the queue out.
QueueIsLastAudit == \A a \in Audits : audit[a].saved =>
    queue[Conversation[a]] \in {None, Rows(a)} /\ (DOMAIN Rows(a) = {} => queue[Conversation[a]] = None)
=============================================================================
