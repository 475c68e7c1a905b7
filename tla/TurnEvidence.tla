------------------------------ MODULE TurnEvidence ------------------------------
(***************************************************************************)
(* What the results of one turn entitle its later calls to (core/tools/     *)
(* registry.py, core/tools/meta.py, and the rounds of core/orchestrator/     *)
(* loop.py).  A write to Calibration IQ needs an exact read of an earlier    *)
(* round, and ScrapeX's batches are known by ids that an earlier round       *)
(* showed.  A round's calls are chosen together, before any of its results. *)
(*                                                                         *)
(* A call is one step; between two calls others change the repair orders.   *)
(* The action of a call stands for its list of actions, each of which must  *)
(* pass.  Calibration IQ refuses a version that is not current.             *)
(***************************************************************************)
EXTENDS Naturals, FiniteSets

CONSTANTS
    Orders,
    Number,       \* [Orders -> RO numbers]
    Targets, Owner, Kind,   \* children of the orders, and what they are
    Disputed,     \* targets whose mentions in an answer disagree on the version
    Ops,          \* the operations that are asked for
    Batches,      \* ScrapeX batches
    MAX_TOOL_ROUNDS, MAX_TOOL_CALLS_PER_ROUND,
    MaxVersion,   \* bound: changes of a repair order, its research or a child
    None

Identifiers == Orders \cup {Number[o] : o \in Orders}
Versions == 1..MaxVersion
OPERATION_KINDS == [update |-> "calibration", link |-> "document", delete |-> "calibration"]
Destructive == {"delete"}
OnOrder == {"change", "note", "research"}

VARIABLES
    version, research, child,   \* what Calibration IQ holds
    listed,      \* batches at ScrapeX
    continued,   \* the turn goes on after an approved tool: reads do not unlock
    round, calls, phase, approval,
    cache,       \* read_only_call_cache: identifier -> binding; "batches" -> ids
    call_ciq, next_ciq, call_scrapex, next_scrapex,
    write,       \* observed: the last direct write that passed the gate
    shown, coming,   \* observed: bindings shown in earlier rounds, and in this
                     \* one, since the last direct write
    known, posted, doubtful   \* observed: the round that showed an id; controls run
                              \* on a batch; batches in doubt

world == <<version, research, child, listed>>
evidence == <<call_ciq, next_ciq, call_scrapex, next_scrapex>>
observed == <<write, shown, coming, known, posted, doubtful>>
vars == <<world, continued, round, calls, phase, approval, cache, evidence, observed>>

NoIds == [ids |-> {}, quarantined |-> {}]
NothingCached == [i \in Identifiers \cup {"batches"} |-> None]

Init ==
    /\ version = [o \in Orders |-> 1] /\ research = [o \in Orders |-> 1]
    /\ child = [t \in Targets |-> 1] /\ listed \in SUBSET Batches
    /\ continued \in BOOLEAN
    /\ round = 1 /\ calls = 0 /\ phase = "round" /\ approval = None
    /\ cache = NothingCached
    /\ call_ciq = {} /\ next_ciq = {} /\ call_scrapex = NoIds /\ next_scrapex = NoIds
    /\ write = None /\ shown = {} /\ coming = {}
    /\ known = [b \in Batches |-> 0] /\ posted = [b \in Batches |-> 0] /\ doubtful = {}

-----------------------------------------------------------------------------
(* Others.  (Bound: what no operation asks for stays as it is.) *)

Touch(f) == \E x \in DOMAIN f : f[x] < MaxVersion /\ f' = [f EXCEPT ![x] = @ + 1]
Others ==
    /\ phase # "over"
    /\ \/ Ops \cap {"change", "note"} # {} /\ Touch(version)
          /\ UNCHANGED <<research, child, listed>>
       \/ "research" \in Ops /\ Touch(research) /\ UNCHANGED <<version, child, listed>>
       \/ Touch(child) /\ UNCHANGED <<version, research, listed>>
       \/ listed # Batches /\ listed' = Batches /\ UNCHANGED <<version, research, child>>
    /\ UNCHANGED <<continued, round, calls, phase, approval, cache, evidence, observed>>

-----------------------------------------------------------------------------
(* Bindings and the gate of writes. *)

Named(i) == {o \in Orders : i \in {o, Number[o]}}
identifiers(b) == {b.order, Number[b.order]}
children(o) == {t \in Targets : Owner[t] = o} \ Disputed
Binding(o) == [order |-> o, version |-> version[o], research |-> research[o],
               kids |-> [t \in children(o) |-> child[t]]]

\* A new binding replaces those that share an identifier with it.
Merged(b, e) == {x \in e : identifiers(x) \cap identifiers(b) = {}} \cup {b}
evidence_from_result(b, e) == IF b = None \/ continued THEN e ELSE Merged(b, e)

Actions ==
    [op : OnOrder \cap Ops, ro : Identifiers, target : {None} \cup Targets,
     version : {0} \cup Versions]
    \cup [op : DOMAIN OPERATION_KINDS \cap Ops, ro : {None} \cup Identifiers, target : Targets,
          version : Versions]

Only(S) == IF Cardinality(S) = 1 THEN CHOOSE x \in S : TRUE ELSE None
ro_binding(e, i) == Only({b \in e : i \in identifiers(b)})
Shows(b, a) == /\ a.target \in DOMAIN b.kids /\ b.kids[a.target] = a.version
               /\ Kind[a.target] = OPERATION_KINDS[a.op]
target_binding(e, a) == Only({b \in e : Shows(b, a)})

\* The version an operation on the order must carry; a note may go without.
authoritative(b, a) == IF a.op = "research" THEN b.research ELSE b.version
Current(b, a) == \/ a.version = authoritative(b, a)
                 \/ a.op = "note" /\ a.version = 0

\* Mutant: the repair order is not compared with the target's.
AnyOwner(e, a) ==
    IF a.op \in OnOrder THEN LET b == ro_binding(e, a.ro) IN b # None /\ Current(b, a)
                        ELSE target_binding(e, a) # None

validate_write_binding(e, a) ==
    /\ e # {}
    /\ IF a.op \in OnOrder
         THEN LET b == ro_binding(e, a.ro) IN b # None /\ Current(b, a)
         ELSE LET b == target_binding(e, a) IN
              b # None /\ (a.ro # None => ro_binding(e, a.ro) = b)

\* What Calibration IQ makes of an action.
Effect(a, o) ==
    IF a.op \in OnOrder \ {"research"}
    THEN /\ version' = IF a.version \in {0, version[o]} /\ version[o] < MaxVersion
                       THEN [version EXCEPT ![o] = @ + 1] ELSE version
         /\ UNCHANGED <<research, child, listed>>
    ELSE IF a.op = "research"
    THEN /\ research' = IF a.version = research[o] /\ research[o] < MaxVersion
                        THEN [research EXCEPT ![o] = @ + 1] ELSE research
         /\ UNCHANGED <<version, child, listed>>
    ELSE /\ child' = IF a.version = child[a.target] /\ child[a.target] < MaxVersion
                     THEN [child EXCEPT ![a.target] = @ + 1] ELSE child
         /\ UNCHANGED <<version, research, listed>>

\* The evidence as an approval keeps it, and read back from there: nothing when two
\* bindings share an identifier or a target.
binding_proof(e) == {[order |-> b.order, ids |-> identifiers(b), version |-> b.version,
                      research |-> b.research, kids |-> b.kids] : b \in e}
evidence_from_proof(p) ==
    IF \E x, y \in p : x # y /\ (x.ids \cap y.ids # {} \/ DOMAIN x.kids \cap DOMAIN y.kids # {})
    THEN {}
    ELSE {[order |-> x.order, version |-> x.version, research |-> x.research,
           kids |-> x.kids] : x \in p}

-----------------------------------------------------------------------------
(* The calls of a round. *)

May == phase = "round" /\ calls < MAX_TOOL_CALLS_PER_ROUND
Call == May /\ calls' = calls + 1 /\ UNCHANGED <<continued, round>>
Quiet == UNCHANGED <<phase, approval>>
CiqOnly == UNCHANGED <<call_scrapex, next_scrapex, known, posted, doubtful>>
ScrapexOnly == UNCHANGED <<version, research, child, call_ciq, next_ciq, write, shown, coming>>

\* An exact read: the answer of the turn's cache, or a verified one when one order
\* has that identifier.
Read(i) ==
    /\ Call /\ Quiet /\ CiqOnly /\ UNCHANGED <<world, call_ciq, write, shown>>
    /\ \/ cache[i] # None /\ UNCHANGED cache
       \/ /\ cache[i] = None
          /\ LET o == Only(Named(i)) IN
             cache' = IF o = None THEN cache ELSE [cache EXCEPT ![i] = Binding(o)]
    /\ next_ciq' = evidence_from_result(cache'[i], next_ciq)
    /\ coming' = coming \cup (IF cache'[i] = None \/ continued THEN {} ELSE {cache'[i]})

\* Mutant: what this round has read so far outlives the attempt.
KeptForNext == call_ciq' = {} /\ next_ciq' = next_ciq /\ shown' = {} /\ coming' = {}

\* A direct write: the attempt consumes what was read, also when it is blocked.
Consumed == call_ciq' = {} /\ next_ciq' = {} /\ shown' = {} /\ coming' = {}

order_of(a, e) == IF a.op \in OnOrder THEN ro_binding(e, a.ro).order ELSE Owner[a.target]

Write(a) ==
    /\ Call /\ CiqOnly /\ Consumed /\ cache' = NothingCached
    /\ \/ /\ ~validate_write_binding(call_ciq, a)
          /\ Quiet /\ UNCHANGED <<world, write>>
       \/ /\ validate_write_binding(call_ciq, a)
          /\ write' = [action |-> a, at |-> <<round, calls>>]
          /\ IF a.op \in Destructive
             THEN /\ approval' = [action |-> a, proof |-> binding_proof(call_ciq)]
                  /\ phase' = "paused" /\ UNCHANGED world
             ELSE Effect(a, order_of(a, call_ciq)) /\ Quiet

\* Whether a staged action is complete, on the order that was just read: one on the whole
\* order names no child, which would be the sign of a mixed-up operation.
OnWholeOrder(a, b) == a.target = None /\ Current(b, a)
plan_stage_action(a, b) == IF a.op \in OnOrder THEN OnWholeOrder(a, b) ELSE Shows(b, a)

\* A complete action runs as its own tool, bound by the read of the composite alone.
BoundByItsRead(run, b, o) ==
    /\ validate_write_binding({b}, run)
    /\ IF run.op \in Destructive
       THEN /\ approval' = [action |-> run, proof |-> binding_proof({b})]
            /\ phase' = "paused" /\ UNCHANGED world
       ELSE Effect(run, o) /\ Quiet

\* The composite reads for itself; it shows what is missing, or runs the action.
stage_action(a, i) ==
    LET o == Only(Named(i))  b == Binding(o)  run == [a EXCEPT !.ro = o] IN
    /\ Call /\ CiqOnly /\ cache' = NothingCached
    /\ o # None /\ UNCHANGED <<call_ciq, write, shown>>
    /\ \/ /\ ~plan_stage_action(a, b)
          /\ next_ciq' = evidence_from_result(b, next_ciq)
          /\ coming' = coming \cup (IF continued THEN {} ELSE {b})
          /\ Quiet /\ UNCHANGED world
       \/ /\ plan_stage_action(a, b) /\ BoundByItsRead(run, b, o)
          /\ UNCHANGED <<next_ciq, coming>>

\* The owner decides later; the write is bound once more by what the row kept.
Approve ==
    /\ phase = "paused" /\ phase' = "over"
    /\ \/ /\ validate_write_binding(evidence_from_proof(approval.proof), approval.action)
          /\ Effect(approval.action, Owner[approval.action.target])
       \/ UNCHANGED world
    /\ UNCHANGED <<continued, round, calls, approval, cache, evidence, observed>>

-----------------------------------------------------------------------------
(* ScrapeX: ids are minted by a list the model could see whole, kept by bound calls, *)
(* and quarantined by a control whose outcome is in doubt.                          *)

\* Mutant: a later list shows a batch that is in doubt again.
MintedAgain(ids, e) == [ids |-> e.ids \cup ids, quarantined |-> e.quarantined \ ids]

Minted(ids, e) == [e EXCEPT !.ids = @ \cup (ids \ e.quarantined)]

Quarantined(b, e) == IF b \in e.ids
                     THEN [ids |-> e.ids \ {b}, quarantined |-> e.quarantined \cup {b}]
                     ELSE e
\* Mutant: the rest of the round goes on as before.
NextRoundOnly(e, new) == e
\* Mutant: the rest of the round sees everything.
AtOnce(e, new) == new

\* To the calls of the same round only the loss of an id applies.
apply_new_quarantine(e, new) ==
    [ids |-> e.ids \ (new.quarantined \ e.quarantined),
     quarantined |-> e.quarantined \cup new.quarantined]

validate_batch_binding(e, b) == b \notin e.quarantined /\ b \in e.ids

Observe(e) == next_scrapex' = e /\ call_scrapex' = apply_new_quarantine(call_scrapex, e)

\* A list is cached; the model may get too much of it to see it whole.
List ==
    /\ Call /\ Quiet /\ ScrapexOnly /\ UNCHANGED <<listed, posted, doubtful>>
    /\ Batches # {}
    /\ cache' = IF cache["batches"] = None THEN [cache EXCEPT !["batches"] = listed] ELSE cache
    /\ \E whole \in BOOLEAN :
          /\ Observe(IF whole THEN Minted(cache'["batches"], next_scrapex) ELSE next_scrapex)
          /\ known' = [b \in Batches |-> IF whole /\ known[b] = 0 /\ b \in cache'["batches"]
                                         THEN round ELSE known[b]]

\* process_one, start_batch, pause_batch.  (A read bound to a batch passes the same
\* gate and changes nothing.)
Control(b) ==
    /\ Call /\ Quiet /\ ScrapexOnly /\ cache' = NothingCached
    /\ UNCHANGED <<listed, known>>
    /\ \/ /\ ~validate_batch_binding(call_scrapex, b)
          /\ UNCHANGED <<posted, doubtful, call_scrapex, next_scrapex>>
       \/ /\ validate_batch_binding(call_scrapex, b)
          /\ posted' = [posted EXCEPT ![b] = @ + 1]
          /\ \/ Observe(Minted({b}, next_scrapex)) /\ UNCHANGED doubtful
             \/ UNCHANGED <<call_scrapex, next_scrapex, doubtful>>   \* it failed
             \/ Observe(Quarantined(b, next_scrapex)) /\ doubtful' = doubtful \cup {b}

\* acquire_exact makes a batch of its own, which nothing lists to this turn yet.
acquire_exact ==
    /\ Call /\ Quiet /\ ScrapexOnly /\ cache' = NothingCached
    /\ Batches # {} /\ listed' \in {listed, Batches}
    /\ UNCHANGED <<call_scrapex, next_scrapex, known, posted, doubtful>>

-----------------------------------------------------------------------------
\* Results become visible, and usable, with the next round.
NextRound ==
    /\ phase = "round" /\ calls > 0 /\ round < MAX_TOOL_ROUNDS
    /\ round' = round + 1 /\ calls' = 0
    /\ call_ciq' = next_ciq /\ call_scrapex' = next_scrapex
    /\ shown' = shown \cup coming /\ coming' = {} /\ write' = None
    /\ UNCHANGED <<world, continued, phase, approval, cache, next_ciq, next_scrapex,
                   known, posted, doubtful>>

Next ==
    \/ Others \/ NextRound \/ Approve
    \/ \E i \in Identifiers : Read(i)
    \/ \E a \in Actions : (a.op \in OnOrder => a.target = None) /\ Write(a)
    \/ \E a \in Actions, i \in Identifiers : stage_action(a, i)
    \/ List \/ acquire_exact
    \/ \E b \in Batches : Control(b)

-----------------------------------------------------------------------------
(* A write that passes the gate names an order and a version, or a child with its
   version and kind, as one read of an earlier round returned them, with no other
   attempt to write since (registry.py:1290-1465, loop.py:2520-2526, 2844-2850). *)
WritesWhatWasShown ==
    write' \notin {write, None} =>
       LET a == write'.action IN
       \E b \in shown :
          IF a.op \in OnOrder THEN a.ro \in identifiers(b) /\ Current(b, a)
          ELSE Shows(b, a) /\ (a.ro # None => a.ro \in identifiers(b))

(* An approval keeps evidence that binds its action again after the decision, on the
   order the read was of (registry.py:1468-1612, 4508-4514, 4921-4960). *)
ApprovalStillBinds ==
    approval # None =>
       validate_write_binding(evidence_from_proof(approval.proof), approval.action)

(* No control runs again on a batch whose earlier control of this turn is in doubt,
   nor on one that no earlier round showed: not by a sibling, nor after the batch was
   listed again (registry.py:424-603, 894-935; loop.py:2878-2919). *)
ControlsWhatIsCertain ==
    \A b \in Batches : posted'[b] # posted[b] => b \notin doubtful /\ known[b] \in 1..round - 1
=============================================================================
