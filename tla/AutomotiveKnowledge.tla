------------------------- MODULE AutomotiveKnowledge -------------------------
(***************************************************************************)
(* What X learns from the service library and keeps (core/services/         *)
(* automotive_knowledge.py), and the two ways into it: research that was    *)
(* accepted (research_delegate.py, research_knowledge_promotion.py) and the  *)
(* operations on records, each on the version its caller read.              *)
(*                                                                         *)
(* A source is a file of the library and the hash that was taken of it;     *)
(* the hash of a content is the content.  Evidence quotes a source.  The     *)
(* files are replaced by others at any time.                                *)
(***************************************************************************)
EXTENDS Naturals, FiniteSets

CONSTANTS
    Records,     \* claims
    Files, Contents,
    Learners,    \* research tasks
    Claim, Reads,\* [Learners -> Records], [Learners -> Files]
    Callers,     \* operations on records
    Ops,         \* what they may do
    Drafts,      \* evidence a caller may offer
    MaxChanges,  \* bound: replaced files
    Quiet,       \* no file is replaced while research reads it
    None

VARIABLES
    file, changes,
    records,    \* [Records -> lifecycle, version and replacement]
    sources,    \* source -> authoritative, and whether its hash was current when last checked
    evidence,   \* [Records -> (evidence -> extracted and verification status)]
    learn, call

base == <<records, sources, evidence>>
vars == <<file, changes, base, learn, call>>

LIFECYCLES == <<"discovered", "evidence_backed", "verified", "superseded">>
Rank(life) == CHOOSE i \in 1..4 : LIFECYCLES[i] = life
Empty == [k \in {} |-> None]

Init ==
    /\ file \in [Files -> Contents] /\ changes = 0
    /\ records = [r \in Records |-> [life |-> "absent", version |-> 0, by |-> None]]
    /\ sources = Empty
    /\ evidence = [r \in Records |-> Empty]
    /\ learn = [l \in Learners |-> [step |-> "idle", text |-> None, sha |-> None,
                                    ok |-> FALSE, told |-> {}]]
    /\ call = [c \in Callers |-> [step |-> "idle", op |-> None, r |-> None,
                                  seen |-> None, draft |-> None, ok |-> FALSE]]

Source(e) == [file |-> e.file, sha |-> e.sha]
Quote(e) == [file |-> e.file, sha |-> e.sha, text |-> e.text]
_source_content_validation(s) == file[s.file] = s.sha

-----------------------------------------------------------------------------
(* What a transaction reads and writes. *)

Rows(src, ev) == {[extracted |-> ev[k].extracted, status |-> ev[k].status,
                   auth |-> src[Source(k)].auth, ok |-> src[Source(k)].ok] : k \in DOMAIN ev}

_validate_target_lifecycle(life, rows) ==
    \E x \in rows :
        \/ life = "discovered"
        \/ life = "evidence_backed" /\ x.extracted /\ (x.auth => x.ok)
        \/ life = "verified" /\ x.extracted /\ x.auth /\ x.ok /\ x.status = "verified"

\* A source that is known keeps the authority it came with.
_insert_source(e, ok) ==
    [s \in DOMAIN sources \cup {Source(e)} |->
        IF s # Source(e) THEN sources[s]
        ELSE [auth |-> IF s \in DOMAIN sources THEN sources[s].auth ELSE e.auth, ok |-> ok]]

\* Mutant: evidence that is known takes the status of the new.
InsertReplaces(r, e) ==
    [k \in DOMAIN evidence[r] \cup {Quote(e)} |->
        IF k # Quote(e) THEN evidence[r][k]
        ELSE [extracted |-> e.extracted, status |-> e.status]]

_insert_evidence(r, e) ==
    [k \in DOMAIN evidence[r] \cup {Quote(e)} |->
        IF k \in DOMAIN evidence[r] THEN evidence[r][k]
        ELSE [extracted |-> e.extracted, status |-> e.status]]

\* Mutant: the status of the capture is trusted.
RehashTrusts(src, ev) == src

_rehash_record_sources(src, ev) ==
    [s \in DOMAIN src |->
        IF s \in {Source(k) : k \in DOMAIN ev}
        THEN [src[s] EXCEPT !.ok = _source_content_validation(s)] ELSE src[s]]

\* One step of the lifecycle after the other; each hashes the sources again.
Climbs(src, ev, from, to) ==
    \A i \in Rank(from) + 1..Rank(to) :
        _validate_target_lifecycle(LIFECYCLES[i], Rows(_rehash_record_sources(src, ev), ev))

Climbed(src, ev, from, to) ==
    IF Rank(from) < Rank(to) THEN _rehash_record_sources(src, ev) ELSE src

Higher(from, to) == IF Rank(from) < Rank(to) THEN to ELSE from
Steps(from, to) == IF Rank(from) < Rank(to) THEN Rank(to) - Rank(from) ELSE 0

create_record(r, e, life, ok) ==
    LET src == _insert_source(e, ok)
        ev == _insert_evidence(r, e)
        created == records[r].life = "absent"
        from == IF created THEN "discovered" ELSE records[r].life
        added == Quote(e) \notin DOMAIN evidence[r]
    IN  /\ from # "superseded" /\ Climbs(src, ev, from, life)
        /\ records' = [records EXCEPT
              ![r].life = Higher(from, life),
              ![r].version = Steps(from, life) + IF created THEN 1
                                                 ELSE @ + IF added THEN 1 ELSE 0]
        /\ evidence' = [evidence EXCEPT ![r] = ev]
        /\ sources' = Climbed(src, ev, from, life)

Refuses(r, e, life, ok) ==
    LET from == IF records[r].life = "absent" THEN "discovered" ELSE records[r].life
    IN  \/ from = "superseded"
        \/ ~Climbs(_insert_source(e, ok), _insert_evidence(r, e), from, life)

-----------------------------------------------------------------------------
(* Research, one task. *)

Goes(l, to) == learn' = [learn EXCEPT ![l].step = to]

\* Mutant: what was verified once is shown.
ShownAsStored(r) == {k \in DOMAIN evidence[r] : evidence[r][k].status = "verified"}

\* The evidence of a verified record that is in effect now.
Effective(r) ==
    {k \in DOMAIN evidence[r] : /\ evidence[r][k].status = "verified"
                                /\ evidence[r][k].extracted
                                /\ sources[Source(k)].auth
                                /\ _source_content_validation(Source(k))}

search(r) == IF records[r].life = "verified" THEN Effective(r) ELSE {}

\* The knowledge comes first; the evaluator may accept what it tells.
Recall(l) ==
    /\ learn[l].step = "idle" /\ search(Claim[l]) # {}
    /\ learn' = [learn EXCEPT ![l].step = "answered",
                              ![l].told = {k.text : k \in search(Claim[l])}]
    /\ UNCHANGED <<file, changes, base, call>>

Library(l) ==
    /\ learn[l].step = "idle"
    /\ learn' = [learn EXCEPT ![l].step = "reviewing", ![l].text = file[Reads[l]]]
    /\ UNCHANGED <<file, changes, base, call>>

Unsatisfied(l) ==
    /\ learn[l].step = "reviewing" /\ Goes(l, "over")
    /\ UNCHANGED <<file, changes, base, call>>

\* Accepted: the file is hashed, and hashed again as evidence is made of it.
Accepted(l) ==
    /\ learn[l].step = "reviewing"
    /\ learn' = [learn EXCEPT ![l].step = "hashed", ![l].sha = file[Reads[l]]]
    /\ UNCHANGED <<file, changes, base, call>>

Learned(l) == [file |-> Reads[l], sha |-> learn[l].sha, text |-> learn[l].text,
               auth |-> TRUE, extracted |-> TRUE, status |-> "verified"]

Captured(l) ==
    /\ learn[l].step = "hashed"
    /\ learn' = [learn EXCEPT
          ![l].step = IF file[Reads[l]] = learn[l].sha THEN "captured" ELSE "over",
          ![l].ok = TRUE]
    /\ UNCHANGED <<file, changes, base, call>>

Promoted(l) ==
    /\ learn[l].step = "captured" /\ Goes(l, "over")
    /\ \/ create_record(Claim[l], Learned(l), "verified", TRUE)
       \/ Refuses(Claim[l], Learned(l), "verified", TRUE) /\ UNCHANGED base
    /\ UNCHANGED <<file, changes, call>>

-----------------------------------------------------------------------------
(* Operations on records. *)

Content(r) == [rec |-> records[r], ev |-> evidence[r]]

\* What is captured through the tools is never verified.
Facade(e, op) == IF op = "store" THEN [e EXCEPT !.status = "unverified"] ELSE e
Wanted(e, asked) == IF e.extracted /\ asked # "discovered" THEN "evidence_backed" ELSE "discovered"

Capture(c) ==
    /\ call[c].step = "idle" /\ "store" \in Ops
    /\ \E r \in Records, e \in Drafts, asked \in {"discovered", "verified"} :
          LET draft == Facade(e, "store")
              ok == _source_content_validation(Source(e))
              life == Wanted(e, asked)
          IN  /\ _validate_target_lifecycle(life, {[extracted |-> e.extracted,
                     status |-> draft.status, auth |-> e.auth, ok |-> ok]})
              /\ call' = [call EXCEPT ![c] = [@ EXCEPT !.step = "captured", !.op = "store",
                                !.r = r, !.draft = draft, !.ok = ok, !.seen = life]]
    /\ UNCHANGED <<file, changes, base, learn>>

Store(c) ==
    LET e == call[c].draft
        r == call[c].r
        life == call[c].seen
    IN  /\ call[c].step = "captured" /\ call[c].op = "store"
        /\ call' = [call EXCEPT ![c].step = "over"]
        /\ \/ create_record(r, e, life, call[c].ok)
           \/ Refuses(r, e, life, call[c].ok) /\ UNCHANGED base
        /\ UNCHANGED <<file, changes, learn>>

\* A caller reads a record and then works on the version it read.
Look(c) ==
    /\ call[c].step = "idle"
    /\ \E r \in Records, op \in Ops \ {"store"} :
          /\ records[r].life # "absent"
          /\ call' = [call EXCEPT ![c] = [@ EXCEPT !.step = "looked", !.op = op, !.r = r,
                                                    !.seen = Content(r)]]
    /\ UNCHANGED <<file, changes, base, learn>>

Expects(c, step, op) ==
    /\ call[c].step = step /\ call[c].op = op
    /\ call' = [call EXCEPT ![c].step = "over"]
    /\ UNCHANGED <<file, changes, learn>>

Fits(c) == /\ records[call[c].r].version = call[c].seen.rec.version
           /\ records[call[c].r].life # "superseded"

Conflict(c) ==
    /\ call[c].step \in {"looked", "captured"} /\ call[c].op # "store" /\ ~Fits(c)
    /\ call' = [call EXCEPT ![c].step = "over"]
    /\ UNCHANGED <<file, changes, base, learn>>

Offer(c) ==
    /\ call[c].step = "looked" /\ call[c].op = "add"
    /\ \E e \in Drafts :
          call' = [call EXCEPT ![c] = [@ EXCEPT !.step = "captured", !.draft = e,
                                                !.ok = _source_content_validation(Source(e))]]
    /\ UNCHANGED <<file, changes, base, learn>>

\* Mutant: the version stays when evidence is added.
AddSilently(c) ==
    LET e == call[c].draft
        r == call[c].r
    IN  /\ Expects(c, "captured", "add") /\ Fits(c)
        /\ evidence' = [evidence EXCEPT ![r] = _insert_evidence(r, e)]
        /\ sources' = _insert_source(e, call[c].ok)
        /\ UNCHANGED records

add_evidence(c) ==
    LET e == call[c].draft
        r == call[c].r
    IN  /\ Expects(c, "captured", "add") /\ Fits(c)
        /\ evidence' = [evidence EXCEPT ![r] = _insert_evidence(r, e)]
        /\ sources' = _insert_source(e, call[c].ok)
        /\ records' = [records EXCEPT ![r].version =
                          @ + IF Quote(e) \in DOMAIN evidence[r] THEN 0 ELSE 1]

Reviewable(was, src, k, extracted, status) ==
    /\ was.extracted => extracted
    /\ was.status # "unverified" => status = was.status
    /\ status = "verified" => extracted /\ src[Source(k)].auth /\ src[Source(k)].ok
    /\ extracted /\ src[Source(k)].auth => src[Source(k)].ok

review_evidence(c) ==
    LET r == call[c].r
        src == _rehash_record_sources(sources, evidence[r])
    IN  /\ Expects(c, "looked", "review") /\ Fits(c)
        /\ \E k \in DOMAIN evidence[r], extracted \in BOOLEAN,
              status \in {"unverified", "verified", "rejected"} :
              LET now == [extracted |-> extracted, status |-> status] IN
              \/ /\ Reviewable(evidence[r][k], src, k, extracted, status)
                 /\ sources' = src
                 /\ evidence' = [evidence EXCEPT ![r][k] = now]
                 /\ records' = [records EXCEPT ![r].version =
                                   @ + IF evidence[r][k] = now THEN 0 ELSE 1]
              \/ ~Reviewable(evidence[r][k], src, k, extracted, status) /\ UNCHANGED base

promote(c) ==
    LET r == call[c].r
        from == records[r].life
    IN  /\ Expects(c, "looked", "promote") /\ Fits(c)
        /\ \E to \in {"evidence_backed", "verified"} :
              IF Rank(to) >= Rank(from) /\ Climbs(sources, evidence[r], from, to)
              THEN /\ records' = [records EXCEPT ![r].life = to, ![r].version = @ + Steps(from, to)]
                   /\ sources' = Climbed(sources, evidence[r], from, to)
                   /\ UNCHANGED evidence
              ELSE UNCHANGED base

\* Mutant: the replacement was verified at some time.
OnceVerified(other) == records[other].life = "verified"

Replaces(other) ==
    /\ records[other].life = "verified"
    /\ _validate_target_lifecycle("verified",
           Rows(_rehash_record_sources(sources, evidence[other]), evidence[other]))

supersede(c) ==
    LET r == call[c].r IN
    /\ Expects(c, "looked", "supersede") /\ Fits(c)
    /\ \E other \in Records \ {r} :
          IF Replaces(other)
          THEN /\ records' = [records EXCEPT
                     ![r] = [life |-> "superseded", version |-> @.version + 1, by |-> other]]
               /\ sources' = _rehash_record_sources(sources, evidence[other])
               /\ UNCHANGED evidence
          ELSE UNCHANGED base

-----------------------------------------------------------------------------
\* A file of the library is replaced.
Replace(f) ==
    /\ changes < MaxChanges /\ changes' = changes + 1
    /\ Quiet => \A l \in Learners : learn[l].step # "reviewing"
    /\ \E c \in Contents \ {file[f]} : file' = [file EXCEPT ![f] = c]
    /\ UNCHANGED <<base, learn, call>>

Next ==
    \/ \E f \in Files : Replace(f)
    \/ \E l \in Learners : \/ Recall(l) \/ Library(l) \/ Unsatisfied(l) \/ Accepted(l)
                           \/ Captured(l) \/ Promoted(l)
    \/ \E c \in Callers : \/ Capture(c) \/ Store(c) \/ Look(c) \/ Conflict(c) \/ Offer(c)
                          \/ add_evidence(c) \/ review_evidence(c) \/ promote(c) \/ supersede(c)

Spec == Init /\ [][Next]_vars

-----------------------------------------------------------------------------
Grounded(src, ev) == \E k \in DOMAIN ev : /\ ev[k].status = "verified" /\ ev[k].extracted
                                          /\ src[Source(k)].auth

\* What r leads to holds r and, with a superseded record, the record that replaced it.
LeadsTo(r, S) ==
    r \in S /\ \A x \in S : records[x].life = "superseded" => records[x].by \in S

(* A verified record has verified evidence from an authoritative source, whatever was
   captured, added or reviewed before and since; a superseded record leads to one that
   is verified, however long the chain (automotive_knowledge.py:879-932, 1707-1771). *)
VerifiedIsGrounded ==
    \A r \in Records :
        /\ records[r].life = "verified" => Grounded(sources, evidence[r])
        /\ records[r].life = "superseded" =>
              \A S \in SUBSET Records :
                  LeadsTo(r, S) => \E x \in S : records[x].life = "verified"

GroundedNow(r) ==
    \E k \in DOMAIN evidence'[r] : /\ evidence'[r][k].status = "verified"
                                   /\ sources'[Source(k)].auth
                                   /\ file[k.file] = k.sha

(* A record becomes verified, or replaces another, only while the file its verified
   evidence quotes has the hash it was verified with (1121-1157, 1248, 1743-1747). *)
TrustIsFresh ==
    \A r \in Records :
        /\ records'[r].life = "verified" /\ records[r].life # "verified" => GroundedNow(r)
        /\ records'[r].life = "superseded" /\ records[r].life # "superseded" =>
              GroundedNow(records'[r].by)

(* Who works on a version works on the content it read (1480-1484, 1570-1573, 1687-1690,
   1733-1736), and a review that verified or rejected stands, also when the same evidence
   is learned again (1071-1101, 1590-1596). *)
OnWhatWasRead ==
    /\ \A c \in Callers :
          /\ call[c].step # "over" /\ call'[c].step = "over" /\ call[c].op # "store"
          /\ records' # records
          => call[c].seen = Content(call[c].r)
    /\ \A r \in Records : \A k \in DOMAIN evidence[r] :
          evidence[r][k].status # "unverified" => evidence'[r][k].status = evidence[r][k].status

(* What research is told from memory is the text of the file as it is, when no file
   was replaced while research read it (1804-1936, 2058-2068). *)
ToldIsCurrent ==
    \A l \in Learners :
        learn[l].step = "idle" /\ learn'[l].step = "answered" /\ Quiet =>
            learn'[l].told = {file[Reads[l]]}
=============================================================================
