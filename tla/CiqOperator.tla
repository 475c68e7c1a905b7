------------------------------ MODULE CiqOperator ------------------------------
(***************************************************************************)
(* Writes of X to one repair order of Calibration IQ                         *)
(* (core/services/calibration_iq.py operator_execute,                        *)
(* adas_si_research_adas_map_vin_repair.py).                                 *)
(*                                                                         *)
(* A call of the operator tool reads a snapshot, turns research of the repair *)
(* order into actions on its case, sends one batch, and rereads.  Calibration *)
(* IQ performs a batch action by action; a batch whose answer was lost may    *)
(* still be under way.  The model retries within a message with another call. *)
(***************************************************************************)
EXTENDS Naturals, Sequences, FiniteSets, SequencesExt

CONSTANTS
    Calls,      \* tool calls
    Message,    \* [Calls -> user messages]
    Kind,       \* [Calls -> {"research", "vin", "note"}]
    Cals, Docs, Vins,
    Findings,   \* what a search of the library may find
    MaxTouch,   \* bound: changes by other people
    None

VARIABLES
    case,       \* the research case: version and state
    required,   \* calibrations the repair order requires
    docs,       \* its documents
    ro,         \* the repair order: version and VIN
    done,       \* idempotency keys of the actions that took effect
    call, wire, \* the calls, and the batches on their way
    effects,    \* what took effect, in order
    touched     \* changes by others

vars == <<case, required, docs, ro, done, call, wire, effects, touched>>
ciq == <<case, required, docs, ro, done, effects>>

Idle == [at |-> "idle", snap |-> None, plan |-> <<>>, contested |-> {}, withheld |-> FALSE,
         completes |-> FALSE, oks |-> 0, result |-> "none", proved |-> FALSE]

Init ==
    /\ case = [version |-> 1, state |-> "open"]
    /\ required \in SUBSET Cals
    /\ docs = <<>>
    /\ ro = [version |-> 1, vin |-> None]
    /\ done = {} /\ effects = <<>> /\ wire = {} /\ touched = 0
    /\ call = [c \in Calls |-> Idle]

-----------------------------------------------------------------------------
(* The plan of a call. *)

Snapshot == [case |-> case, required |-> required, docs |-> docs, ro |-> ro,
             touched |-> touched]

Matching(s, d) == {i \in DOMAIN s.docs : s.docs[i].source = d /\ ~s.docs[i].archived}

_matching_existing_document(s, d) ==
    IF Matching(s, d) = {} THEN 0 ELSE CHOOSE i \in Matching(s, d) : \A k \in Matching(s, d) : i <= k

\* f.supports: the documents that support each calibration; f.seen: documents that
\* were found without their procedure; f.fresh: those with pages not known before.
Supported(f) == {c \in Cals : f.supports[c] # {}}
Contested(f) == {c \in Cals : Cardinality(f.supports[c]) > 1}
Found(f) == f.seen \cup UNION {f.supports[c] : c \in Cals}
Validated(f, d) == \E c \in Cals : d \in f.supports[c]
Links(f, d) == {c \in Cals \ Contested(f) : d \in f.supports[c]}

\* The action that a document needs, if it needs one.
DocumentAction(s, f, d) ==
    LET i == _matching_existing_document(s, d)
        missing == Links(f, d) \ s.docs[i].links
    IN  IF i = 0
        THEN {[op |-> "import", doc |-> d, links |-> Links(f, d), valid |-> Validated(f, d)]}
        ELSE IF (Validated(f, d) /\ ~s.docs[i].valid) \/ d \in f.fresh
        THEN {[op |-> "update", target |-> i, version |-> s.docs[i].version,
               links |-> s.docs[i].links \cup Links(f, d), valid |-> Validated(f, d)]}
        ELSE IF missing # {}
        THEN {[op |-> "link", target |-> i, version |-> s.docs[i].version, links |-> missing]}
        ELSE {}

\* Mutant: some support makes the case complete.
EligibleSome(s, f) == s.required \cap Supported(f) # {}

eligible_complete(s, f) == s.required # {} /\ s.required \subseteq Supported(f)

\* The version the case will have when the actions before have each raised it.
CompletionVersion(s, before) == s.case.version + Len(before)

_expand_research_action(s, f, requested) ==
    LET before == <<[op |-> "workspace"]>>
                      \o SetToSeq(UNION {DocumentAction(s, f, d) : d \in Found(f)})
    IN  IF requested /\ eligible_complete(s, f) /\ s.case.state # "complete"
        THEN Append(before, [op |-> "complete", version |-> CompletionVersion(s, before)])
        ELSE before

\* The VIN all readable maps agree on; a map with two VINs spoils it.
_attached_map_vin(reads) ==
    LET vins == UNION {reads[i] : i \in DOMAIN reads}
    IN  IF Cardinality(vins) = 1 THEN vins ELSE {}

-----------------------------------------------------------------------------
(* The calls. *)

Ended(c) == call[c].at \in {"idle", "done"}

Set(c, r) == call' = [call EXCEPT ![c] = r]

\* An identifier does not resolve, or the batch mixes the research of an order with
\* changes of its calibrations: nothing is run.
Unresolved(c) == Set(c, [Idle EXCEPT !.at = "done", !.result = "error"])

\* The calls of a message follow each other.
Begin(c) ==
    /\ call[c].at = "idle"
    /\ \A b \in Calls : Message[b] = Message[c] => Ended(b)
    /\ Set(c, [Idle EXCEPT !.at = "plan", !.snap = Snapshot]) \/ Unresolved(c)
    /\ UNCHANGED <<ciq, wire, touched>>

\* The library is searched and the batch prepared on the snapshot, with the completion
\* of the case when it is requested; a batch that the service does not support, or
\* that is too long, is not sent.
Research(c) ==
    /\ call[c].at = "plan" /\ Kind[c] = "research"
    /\ \/ \E f \in Findings, requested \in BOOLEAN :
            LET s == call[c].snap
            IN  Set(c, [call[c] EXCEPT !.at = "post",
                           !.plan = _expand_research_action(s, f, requested),
                           !.contested = Contested(f),
                           !.completes = requested /\ eligible_complete(s, f),
                           !.withheld = requested /\ ~eligible_complete(s, f)])
       \/ Set(c, [call[c] EXCEPT !.at = "done", !.result = "error"])
    /\ UNCHANGED <<ciq, wire, touched>>

\* Mutant: the VIN is written without the version that was read.
VinUnversioned(c) ==
    /\ call[c].at = "plan" /\ Kind[c] = "vin"
    /\ \E reads \in [1 .. 2 -> SUBSET Vins] : \E v \in _attached_map_vin(reads) :
          Set(c, [call[c] EXCEPT !.at = "post",
                     !.plan = <<[op |-> "vin", vin |-> v, version |-> 0]>>])
    /\ UNCHANGED <<ciq, wire, touched>>

_repair_from_attached_adas_map(c) ==
    /\ call[c].at = "plan" /\ Kind[c] = "vin"
    /\ IF call[c].snap.ro.vin # None
       THEN Set(c, [call[c] EXCEPT !.at = "done", !.result = "success", !.proved = TRUE])
       ELSE \E reads \in [1 .. 2 -> SUBSET Vins] :
              LET vins == _attached_map_vin(reads)
              IN  IF vins = {} THEN Set(c, [call[c] EXCEPT !.at = "done", !.result = "failed"])
                  ELSE \E v \in vins :
                         Set(c, [call[c] EXCEPT !.at = "post",
                                    !.plan = <<[op |-> "vin", vin |-> v,
                                                version |-> call[c].snap.ro.version]>>])
    /\ UNCHANGED <<ciq, wire, touched>>

Notes(c) ==
    /\ call[c].at = "plan" /\ Kind[c] = "note"
    /\ \E n \in 1 .. 2 :
          Set(c, [call[c] EXCEPT !.at = "post", !.plan = [k \in 1 .. n |-> [op |-> "note"]]])
    /\ UNCHANGED <<ciq, wire, touched>>

\* Mutant: every tool call has keys of its own.
KeyOfCall(c, i) == [of |-> c, action |-> call[c].plan[i], ordinal |-> i]

\* One intent of the user, not one attempt of the model.
_stable_action_ids(c, i) ==
    [of |-> Message[c], action |-> call[c].plan[i],
     ordinal |-> Cardinality({k \in 1 .. i : call[c].plan[k] = call[c].plan[i]})]

\* Research stops at the first failure; for other batches the model chooses.
Post(c) ==
    /\ call[c].at = "post"
    /\ \E goes_on \in BOOLEAN :
          /\ Kind[c] = "research" => ~goes_on
          /\ wire' = wire \cup {[call |-> c, next |-> 1, oks |-> 0, replays |-> 0,
                                 on |-> TRUE, goes_on |-> goes_on]}
    /\ Set(c, [call[c] EXCEPT !.at = "wait"])
    /\ UNCHANGED <<ciq, touched>>

\* The connection fails: the request is lost, or it is still on its way.
NoReceipt(c) ==
    /\ call[c].at = "wait"
    /\ Set(c, [call[c] EXCEPT !.at = "done", !.result = "indeterminate"])
    /\ \/ UNCHANGED wire
       \/ \E b \in wire : b.call = c /\ b.next = 1 /\ b.on /\ wire' = wire \ {b}
    /\ UNCHANGED <<ciq, touched>>

Receipts(c) ==
    /\ call[c].at = "wait"
    /\ \E b \in wire : b.call = c /\ ~b.on /\ wire' = wire \ {b}
                       /\ Set(c, [call[c] EXCEPT !.at = "reread", !.oks = b.oks])
    /\ UNCHANGED <<ciq, touched>>

Evidence(cal) ==
    \E i \in DOMAIN docs : cal \in docs[i].links /\ docs[i].valid /\ ~docs[i].archived

_verify_persisted_research_evidence(cals) == cals # {} /\ \A cal \in cals : Evidence(cal)

CompletionVerified == case.state = "complete" /\ _verify_persisted_research_evidence(required)

\* Mutant: the requirements of the first snapshot are verified.
VerifyFirstRequirements(c) ==
    /\ call[c].at = "reread"
    /\ Set(c, [call[c] EXCEPT !.at = "done",
          !.result = IF /\ call[c].oks = Len(call[c].plan)
                        /\ call[c].completes =>
                             /\ case.state = "complete"
                             /\ _verify_persisted_research_evidence(call[c].snap.required)
                        /\ ~call[c].withheld
                     THEN "success" ELSE "failed",
          !.proved = (call[c].completes => CompletionVerified)])
    /\ UNCHANGED <<ciq, wire, touched>>

\* Mutant: one verified receipt is a success.
SuccessIfAny(c) ==
    /\ call[c].at = "reread"
    /\ Set(c, [call[c] EXCEPT !.at = "done",
          !.result = IF /\ call[c].oks > 0 /\ ~call[c].withheld
                        /\ call[c].completes => CompletionVerified
                     THEN "success" ELSE "failed",
          !.proved = (call[c].completes => CompletionVerified)])
    /\ UNCHANGED <<ciq, wire, touched>>

\* Every receipt, and the state that was read again.
Reread(c) ==
    /\ call[c].at = "reread"
    /\ \E readable \in BOOLEAN :
          Set(c, [call[c] EXCEPT
             !.at = IF Kind[c] = "vin" THEN "verify" ELSE "done",
             !.result = CASE /\ readable /\ call[c].oks = Len(call[c].plan)
                             /\ call[c].completes => CompletionVerified
                             /\ ~call[c].withheld -> "success"
                          [] call[c].oks \in 1 .. (Len(call[c].plan) - 1) -> "partial"
                          [] OTHER -> "failed",
             !.proved = (call[c].completes => CompletionVerified)])
    /\ UNCHANGED <<ciq, wire, touched>>

\* The repaired VIN is read once more.
VerifyVin(c) ==
    /\ call[c].at = "verify"
    /\ Set(c, [call[c] EXCEPT !.at = "done",
          !.result = IF @ = "success" /\ ro.vin = call[c].plan[1].vin THEN "success" ELSE "failed",
          !.proved = (ro.vin # None)])
    /\ UNCHANGED <<ciq, wire, touched>>

-----------------------------------------------------------------------------
(* Calibration IQ: an action whose key took effect is answered again and does     *)
(* nothing; a version that has changed, or a refusal, fails it.                   *)

Fits(a) ==
    CASE a.op \in {"update", "link"} ->
           docs[a.target].version = a.version /\ ~docs[a.target].archived
      [] a.op = "complete" -> case.version = a.version
      [] a.op = "vin" -> a.version \in {0, ro.version}
      [] OTHER -> TRUE

Performs(a) ==
    /\ case' = CASE a.op \in {"vin", "note"} -> case
                 [] a.op = "complete" -> [version |-> case.version + 1, state |-> "complete"]
                 [] OTHER -> [case EXCEPT !.version = @ + 1]
    /\ docs' = CASE a.op = "import" ->
                      Append(docs, [source |-> a.doc, links |-> a.links, valid |-> a.valid,
                                    version |-> 1, archived |-> FALSE])
                 [] a.op = "update" ->
                      [docs EXCEPT ![a.target].links = a.links, ![a.target].valid = a.valid,
                                   ![a.target].version = @ + 1]
                 [] a.op = "link" ->
                      [docs EXCEPT ![a.target].links = @ \cup a.links,
                                   ![a.target].version = @ + 1]
                 [] OTHER -> docs
    /\ ro' = IF a.op = "vin" THEN [version |-> ro.version + 1, vin |-> a.vin] ELSE ro

Effect(b, a) ==
    LET c == b.call
    IN  [of |-> Message[c], action |-> a,
         touched |-> touched - call[c].snap.touched, replays |-> b.replays,
         overwrote |-> a.op = "vin" /\ ro.vin # None,
         bare |-> {cal \in call[c].snap.required : ~Evidence(cal)} \ call[c].contested,
         contested |-> {cal \in call[c].snap.required : ~Evidence(cal)} \cap call[c].contested]

Serve ==
    \E b \in wire :
       LET c == b.call
           a == call[c].plan[b.next]
           key == _stable_action_ids(c, b.next)
           goes(ok) == [b EXCEPT !.next = @ + 1,
                           !.oks = IF ok THEN @ + 1 ELSE @,
                           !.replays = IF key \in done THEN @ + 1 ELSE @,
                           !.on = b.next < Len(call[c].plan) /\ (ok \/ b.goes_on)]
       IN  /\ b.on
           /\ \/ /\ key \in done
                 /\ wire' = (wire \ {b}) \cup {goes(TRUE)}
                 /\ UNCHANGED ciq
              \/ /\ key \notin done /\ Fits(a)
                 /\ Performs(a)
                 /\ done' = done \cup {key} /\ effects' = Append(effects, Effect(b, a))
                 /\ wire' = (wire \ {b}) \cup {goes(TRUE)}
                 /\ UNCHANGED required
              \/ /\ key \notin done
                 /\ wire' = (wire \ {b}) \cup {goes(FALSE)}
                 /\ UNCHANGED ciq
           /\ UNCHANGED <<call, touched>>

\* Someone archives a document, reopens the case, adds a requirement or a VIN.
Others ==
    /\ touched < MaxTouch
    /\ \/ /\ \E i \in DOMAIN docs :
                docs' = [docs EXCEPT ![i].archived = TRUE, ![i].version = @ + 1]
          /\ case' = [case EXCEPT !.version = @ + 1]
          /\ touched' = touched + 1 /\ UNCHANGED <<required, ro>>
       \/ /\ case' = [version |-> case.version + 1, state |-> "open"]
          /\ touched' = touched + 1 /\ UNCHANGED <<required, docs, ro>>
       \/ \E cal \in Cals \ required :
             required' = required \cup {cal} /\ UNCHANGED <<case, docs, ro, touched>>
       \/ \E v \in Vins :
             /\ ro.vin = None /\ ro' = [version |-> ro.version + 1, vin |-> v]
             /\ UNCHANGED <<case, required, docs, touched>>
    /\ UNCHANGED <<done, effects, call, wire>>

Next ==
    \/ Serve \/ Others
    \/ \E c \in Calls :
          \/ Begin(c) \/ Research(c) \/ _repair_from_attached_adas_map(c) \/ Notes(c)
          \/ Post(c) \/ NoReceipt(c) \/ Receipts(c) \/ Reread(c) \/ VerifyVin(c)

Spec == Init /\ [][Next]_vars

-----------------------------------------------------------------------------
Asked(c, a) == Cardinality({k \in DOMAIN call[c].plan : call[c].plan[k] = a})
Took(m, a) == Cardinality({k \in DOMAIN effects : effects[k].of = m /\ effects[k].action = a})

(* However often the model repeats what a user message asked for, and however
   late a request arrives, an action takes effect no more often than one attempt
   asked for it (calibration_iq.py:2146-2182). *)
IntentOnce ==
    \A k \in DOMAIN effects :
        LET e == effects[k]
        IN  \E c \in Calls : Message[c] = e.of /\ Took(e.of, e.action) <= Asked(c, e.action)

(* A success was all done, and a completed case had evidence for every requirement
   it had when it was read again (calibration_iq.py:2880-2946, 3277-3393). *)
SuccessIsReal ==
    \A c \in Calls : call[c].at = "done" /\ call[c].result = "success" =>
        /\ call[c].proved
        /\ \A k \in DOMAIN call[c].plan : Took(Message[c], call[c].plan[k]) > 0

(* X completes the case it has read: nobody changed it in between, unless an action
   of the batch was answered from an earlier attempt; every requirement it saw has
   its evidence by then, but for those with more than one source; and a VIN someone
   recorded is not replaced (calibration_iq.py:2566-2600, 2723-2780, 3190-3201,
   adas_si_research_adas_map_vin_repair.py:330-345). *)
OnWhatWasRead ==
    \A k \in DOMAIN effects :
        LET e == effects[k]
        IN  /\ ~e.overwrote
            /\ e.action.op = "complete" => (e.touched = 0 /\ e.bare = {}) \/ e.replays > 0

(* "Research completion must use research_ro with complete_research=true so OEM
   evidence is verified first" (calibration_iq.py:3016): when X completes a case,
   every requirement it saw has its evidence. *)
EvidenceFirst ==
    \A k \in DOMAIN effects :
        LET e == effects[k]
        IN  e.action.op = "complete" /\ e.touched = 0 /\ e.replays = 0 =>
                e.bare \cup e.contested = {}
=============================================================================
