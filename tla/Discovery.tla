----------------------------- MODULE Discovery -----------------------------
(***************************************************************************)
(* What the library is known to hold for a repair order (core/services/     *)
(* adas_artifact_catalog.py, as calibration_iq_work_prep.py:708-1010 asks    *)
(* it; adas_si.py:381-458, 1101-1262).  Documents that were scanned, and the *)
(* maps ScrapeX captured, are matched by what identifies an order: its       *)
(* number, the VIN, the inspection, the vehicle and its trim.  An audit      *)
(* first discovers the map that governs the order, and then whether each     *)
(* calibration is covered by a document.                                    *)
(*                                                                         *)
(* A document is what can be read off it; the id of Calibration IQ and the   *)
(* configuration work as number and trim do and are left out, and so are     *)
(* sidecars (Library).                                                      *)
(***************************************************************************)
EXTENDS Naturals, Sequences, FiniteSets

CONSTANTS
    Orders, Asked,   \* and those an audit asks about
    Truth,        \* [Orders -> identity]
    Known,        \* [Orders -> identity]: what Calibration IQ knows of it
    CutOf,        \* [trims that were cut short -> the trim]
    Papers,
    Sheet,        \* [Papers -> what is printed on it, and what its file and folder tell]
    About,        \* [Papers -> SUBSET Orders]: the orders it is for
    Families, Settled, Written,   \* kinds of calibration: the map's own section covers it;
                                  \* it has a written procedure
    Faults,       \* what can go wrong with a capture of ScrapeX
    Uses,         \* what is asked of it: "audit", "count", "search"
    Quiet,        \* no file is moved
    MaxScrapes, MaxMoves,   \* bounds
    None

VARIABLES
    lib,       \* documents on disk
    index,     \* documents with a row in the catalog
    needs,     \* [Orders -> what ADAS Map requires]
    scrapes,   \* rows of ScrapeX, in the order of their time
    moves, ask, tally, look

vars == <<lib, index, needs, scrapes, moves, ask, tally, look>>

Keys == {"ro", "vin", "insp", "car", "trim"}
Idle == [step |-> "idle", ro |-> None, found |-> {}, complete |-> FALSE,
         status |-> None, map |-> None, again |-> None, states |-> <<>>, steady |-> {},
         met |-> {}, due |-> None]
NoTally == [step |-> "idle", physical |-> 0, complete |-> FALSE, counted |-> 0, final |-> FALSE,
            steady |-> {}]
NoLook == [step |-> "idle", ro |-> None, walked |-> {}, answer |-> None]

Init ==
    /\ lib \in SUBSET Papers /\ index = {} /\ needs = [o \in Orders |-> {}]
    /\ scrapes = <<>> /\ moves = 0
    /\ ask = Idle /\ tally = NoTally /\ look = NoLook

-----------------------------------------------------------------------------
(* Identities. *)

Clash(x, y) == x # None /\ y # None /\ x # y

\* Trims that are not both known do not tell vehicles apart.
_vehicle_equal(x, y) == x.car = y.car /\ ~Clash(x.trim, y.trim)

\* Everything the question names agrees.
_query_matches(id, q) ==
    /\ \A k \in {"ro", "vin", "insp"} : q[k] # None => id[k] = q[k]
    /\ q.car # None => _vehicle_equal(id, q)

\* A VIN that agrees is stronger than the vehicle that was read.
_artifact_conflicts(id, row) ==
    \/ \E k \in {"ro", "insp", "vin"} : Clash(id[k], row[k])
    \/ IF id.vin # None /\ row.vin # None THEN Clash(id.trim, row.trim)
       ELSE id.car # None /\ row.car # None /\ ~_vehicle_equal(id, row)

Same(expected, observed) ==
    \/ expected = observed
    \/ expected \in DOMAIN CutOf /\ CutOf[expected] = observed

\* What Calibration IQ knows against the record that was discovered.
_artifact_identity_conflicts(o, id) ==
    \E k \in Keys : Known[o][k] # None /\ id[k] # None /\ ~Same(Known[o][k], id[k])

_artifact_identity(o, include_vehicle) ==
    LET named == Known[o].ro # None \/ Known[o].vin # None
    IN [k \in Keys |-> IF \/ k \in {"ro", "vin"}
                          \/ k \in {"car", "trim"} /\ (include_vehicle \/ ~named)
                       THEN Known[o][k] ELSE None]

-----------------------------------------------------------------------------
(* Rows of the catalog. *)

_parse_report_text(p) ==
    [k \in Keys \cup {"needs", "none", "oe"} |->
        IF Sheet[p].readable /\ Sheet[p].report THEN Sheet[p][k]
        ELSE IF k \in {"needs", "oe"} THEN {} ELSE IF k = "none" THEN FALSE ELSE None]

\* What its text says of an order, or the name of its file and folder.
Identified(p, text) ==
    [ro |-> IF text.ro # None THEN text.ro ELSE Sheet[p].named, vin |-> text.vin,
     insp |-> text.insp, trim |-> None,
     car |-> IF text.car # None THEN text.car ELSE Sheet[p].folder]

Whole(p, text) ==
    /\ \A k \in {"ro", "vin", "insp"} : text[k] # None
    /\ text.car # None \/ Sheet[p].folder # None
    /\ (text.needs # {}) # text.none

\* A report of ADAS Map by its own text, or by the name of its file.
Described(p, text, id, whole) ==
    [id |-> id, readable |-> Sheet[p].readable,
     needs |-> text.needs, none |-> text.none, oe |-> text.oe,
     kind |-> IF Sheet[p].named # None \/ whole THEN "map" ELSE "service",
     proven |-> \/ Sheet[p].named # None /\ id.ro = Sheet[p].named /\ id.vin # None
                \/ whole \/ Sheet[p].folder # None]

Parsed(p, text) == Described(p, text, Identified(p, text), Whole(p, text))
Row(p) == Parsed(p, _parse_report_text(p))

\* Nothing of a file that could not be indexed changes; what is gone is marked so.
Scan(failed) == (index \cap lib) \cup (lib \ failed)

-----------------------------------------------------------------------------
(* People, ScrapeX, filing, and other scans. *)

Notes(l) == [ask EXCEPT !.steady = @ \cap l, !.met = IF ask.step = "idle" THEN @ ELSE @ \cup l]

Moves == moves < MaxMoves /\ moves' = moves + 1

Drop(p) ==
    /\ Moves /\ p \notin lib /\ lib' = lib \cup {p}
    /\ ask' = Notes(lib')
    /\ UNCHANGED <<index, needs, scrapes, tally, look>>

\* The file moves; the row of its old place goes at once, the new place has none yet.
File(p) ==
    /\ ~Quiet /\ Moves /\ p \in lib /\ p \in index /\ index' = index \ {p}
    /\ UNCHANGED <<lib, needs, scrapes, ask, tally, look>>

Delete(p) ==
    /\ ~Quiet /\ Moves /\ p \in lib /\ lib' = lib \ {p}
    /\ ask' = Notes(lib')
    /\ tally' = [tally EXCEPT !.steady = @ \ {p}]
    /\ UNCHANGED <<index, needs, scrapes, look>>

\* ADAS Map finds more to do.
Grow(o, f) ==
    /\ f \notin needs[o] /\ Len(scrapes) < MaxScrapes /\ needs' = [needs EXCEPT ![o] = @ \cup {f}]
    /\ UNCHANGED <<lib, index, scrapes, moves, ask, tally, look>>

\* A capture: what was asked for, and what the page that was open showed.
Scrape(o, fault) ==
    LET open == IF fault = "other" THEN CHOOSE x \in Orders : x # o ELSE o
        seen == IF fault = "partial" THEN {} ELSE needs[open]
    IN  /\ Len(scrapes) < MaxScrapes /\ (fault = "other" => Orders # {o})
        /\ scrapes' = Append(scrapes,
              [id |-> Truth[o], version |-> IF fault = "legacy" THEN 2 ELSE 3, needs |-> seen,
               none |-> needs[open] = {},
               raw |-> [id |-> Truth[open], needs |-> needs[open],
                        complete |-> fault # "failed", bound |-> fault # "unbound"],
               due |-> needs[o]])
        /\ UNCHANGED <<lib, index, needs, moves, ask, tally, look>>

-----------------------------------------------------------------------------
(* The maps of ScrapeX. *)

\* Mutant: the page that was open is not compared with what was asked for.
ProvenUnbound(s) ==
    /\ s.raw.complete /\ s.raw.bound /\ (s.needs = {}) = s.none /\ s.raw.needs = s.needs

\* Proven requirements, of the page that was asked for, kept as they were read.
_proven(s) ==
    /\ s.raw.complete /\ s.raw.bound
    /\ (s.needs = {}) = s.none /\ s.raw.needs = s.needs
    /\ \A k \in {"ro", "vin", "insp", "car"} : s.id[k] # None /\ s.raw.id[k] = s.id[k]
    /\ ~Clash(s.raw.id.trim, s.id.trim)

_canonical_candidates(q) ==
    {i \in DOMAIN scrapes : scrapes[i].version = 3 /\ _query_matches(scrapes[i].id, q)}

_signature(i) == <<scrapes[i].id.vin, scrapes[i].none, scrapes[i].needs>>

\* Of those that another one bears out, the first.
EarliestBorneOut(good) ==
    {i \in good : /\ \E j \in good \ {i} : _signature(j) = _signature(i)
                  /\ \A j \in good : _signature(j) = _signature(i) => i <= j}

\* Mutant: any capture that another one bears out governs.
AnyCorroborated(found) == EarliestBorneOut({i \in found : _proven(scrapes[i])})

\* Of several captures the latest proven one, if another one bears it out.
BorneOut(good) ==
    {i \in good : /\ \A j \in good : j <= i
                  /\ \E j \in good \ {i} : _signature(j) = _signature(i)}

Resolved(found) == BorneOut({i \in found : _proven(scrapes[i])})

-----------------------------------------------------------------------------
(* Discovery. *)

Found(status, id, what, none, due) ==
    [status |-> status, id |-> id, needs |-> what, none |-> none, due |-> due]
Nothing(status) == Found(status, None, {}, FALSE, None)

\* Papers that share a key with the map, and what they make of it.
Beside(s, related) ==
    IF \E row \in related : _artifact_conflicts(s.id, row.id) THEN Nothing("ambiguous")
    ELSE Found(IF _proven(s) /\ \A row \in related : row.readable
               THEN "verified" ELSE "unverified", s.id, s.needs, s.none, s.due)

Canonical(s, arts) ==
    Beside(s, {row \in {Row(p) : p \in arts} : \E k \in {"ro", "vin", "insp"} :
                  s.id[k] # None /\ row.id[k] = s.id[k]})

_fallback_record(r) ==
    LET verified == /\ r.readable /\ r.proven /\ (r.needs # {}) # r.none
                    /\ \A k \in {"ro", "vin", "insp", "car"} : r.id[k] # None
    IN Found(IF verified THEN "verified" ELSE "unverified", r.id, r.needs, r.none, None)

\* A question that names an order is answered by reports only.
Answers(row, q) == _query_matches(row.id, q) /\ (q.ro # None => row.kind = "map")
Physical(q, arts) == {p \in arts : Answers(Row(p), q)}

\* Copies of one document count as one.
Unclear(rows, copies) ==
    copies > 1 /\ (Cardinality({row.id : row \in rows}) > 1 \/ \E row \in rows : row.kind = "map")

\* One report, or what documents of the vehicle agree on.
OfPapers(rows, copies, otherwise) ==
    IF Unclear(rows, copies) THEN Nothing("ambiguous")
    ELSE IF \E row \in rows : row.kind = "map" THEN _fallback_record(CHOOSE row \in rows : TRUE)
    ELSE IF rows # {}
    THEN Found(IF \A row \in rows : row.readable /\ row.proven THEN "verified" ELSE "unverified",
               (CHOOSE row \in rows : TRUE).id, {}, FALSE, None)
    ELSE Nothing(otherwise)

Printed(some, otherwise) == OfPapers({Row(p) : p \in some}, Cardinality(some), otherwise)

Captured(governs, arts) ==
    IF governs = {} THEN Nothing("ambiguous")
    ELSE Canonical(scrapes[CHOOSE i \in governs : TRUE], arts)

discover(q, arts, found, failed, complete) ==
    IF found # {}
    THEN Captured(IF Cardinality(found) > 1 THEN Resolved(found) ELSE found, arts)
    ELSE Printed(Physical(q, arts), IF failed \/ ~complete THEN "unverified" ELSE "not_found")

-----------------------------------------------------------------------------
(* Coverage. *)

Supports(row, steps, f) ==
    row.readable /\ f \in IF row.kind = "map" THEN Settled \cap row.oe ELSE steps

_procedure_supports(p, f) == Supports(Row(p), Sheet[p].steps, f)

Strong(row, q) == \E k \in {"ro", "vin", "insp"} : q[k] # None /\ row.id[k] = q[k]
Alike(row, q) == q.car # None /\ row.id.car # None /\ _vehicle_equal(row.id, q)

Contradicts(row, q) ==
    /\ Strong(row, q)
    /\ \/ \E k \in {"ro", "vin", "insp"} : Clash(q[k], row.id[k])
       \/ /\ q.car # None /\ row.id.car # None
          /\ \/ Clash(row.id.trim, q.trim)
             \/ ~Alike(row, q) /\ ~(q.vin # None /\ row.id.vin = q.vin)

\* Mutant: any document about the vehicle counts.
RelevantByVehicle(row, q) == Strong(row, q) \/ Alike(row, q)

\* A document for the vehicle counts, unless it names another order, VIN or inspection.
Relevant(row, q) ==
    \/ Strong(row, q)
    \/ Alike(row, q) /\ \A k \in {"ro", "vin", "insp"} : q[k] = None \/ row.id[k] = None

\* The question, with what the record adds to it.
Completed(q, id) ==
    [k \in Keys |-> IF id # None /\ id[k] # None THEN id[k] ELSE q[k]]

All(labels, state) == [f \in labels |-> state]

\* Mutant: a calibration without a document is missing, scanned or not.
NearUnscanned(labels, near, complete) ==
    IF \E p \in near : ~Row(p).readable THEN All(labels, "UNVERIFIED")
    ELSE [f \in labels |-> IF \E p \in near : _procedure_supports(p, f) THEN "COVERED"
                           ELSE "MISSING"]

Near(labels, near, complete) ==
    IF \E p \in near : ~Row(p).readable THEN All(labels, "UNVERIFIED")
    ELSE [f \in labels |-> IF \E p \in near : _procedure_supports(p, f) THEN "COVERED"
                           ELSE IF complete THEN "MISSING" ELSE "UNVERIFIED"]

Judged(labels, q, arts, complete) ==
    IF \E p \in arts : Contradicts(Row(p), q) THEN All(labels, "UNVERIFIED")
    ELSE Near(labels, {p \in arts : Relevant(Row(p), q)}, complete)

requirement_coverage(labels, q, d, arts, complete) ==
    IF d.status \in {"ambiguous", "unverified"} THEN All(labels, "UNVERIFIED")
    ELSE IF d.status = "not_found" THEN All(labels, "MISSING")
    ELSE Judged(labels, Completed(q, d.id), arts, complete)

-----------------------------------------------------------------------------
(* The audit of an order: discovery twice, each after a scan, and a last reading of
   the catalog. *)

Steps(to) == ask' = to

Ask(o) ==
    /\ ask.step = "idle"
    /\ Steps([Idle EXCEPT !.step = "index", !.ro = o, !.steady = lib, !.met = lib])
    /\ UNCHANGED <<lib, index, needs, scrapes, moves, tally, look>>

\* A file may fail to be indexed; the others are.
reconcile_index(failed) ==
    /\ ask.step \in {"index", "index again"}
    /\ index' = Scan(failed)
    /\ Steps([ask EXCEPT !.complete = failed = {},
                 !.step = IF ask.step = "index" THEN "read" ELSE "read again"])
    /\ UNCHANGED <<lib, needs, scrapes, moves, tally, look>>

_artifacts ==
    /\ ask.step \in {"read", "read again"}
    /\ Steps([ask EXCEPT !.found = index,
                 !.step = IF ask.step = "read" THEN "discover" ELSE "discover again"])
    /\ UNCHANGED <<lib, index, needs, scrapes, moves, tally, look>>

\* The rows of ScrapeX cannot be read while it is writing them.
Rows(q, failed) == IF failed THEN {} ELSE _canonical_candidates(q)

\* What the last proven capture of the order found, as it is stored by now.
DueOf(good) ==
    IF good = {} THEN None ELSE scrapes[CHOOSE i \in good : \A j \in good : j <= i].due
Due(o) ==
    DueOf({i \in DOMAIN scrapes : /\ scrapes[i].version = 3 /\ _proven(scrapes[i])
                                  /\ scrapes[i].raw.id = Truth[o]})

Labels(d) == d.needs \cap Written

Discovered(q, failed) == discover(q, ask.found, Rows(q, failed), failed, ask.complete)

Judgement(d) ==
    IF d.id # None /\ _artifact_identity_conflicts(ask.ro, d.id) THEN "ambiguous"
    ELSE IF d.status = "verified" /\ d.needs = {} /\ ~d.none THEN "present_unparsed"
    ELSE d.status

_discover_adas_map(failed) ==
    /\ ask.step = "discover"
    /\ \E d \in {Discovered(_artifact_identity(ask.ro, FALSE), failed)} :
       \E status \in {Judgement(d)} :
          Steps([ask EXCEPT !.map = d, !.status = status, !.due = Due(ask.ro),
                    !.step = IF status = "verified" /\ Labels(d) # {} THEN "index again" ELSE "done"])
    /\ UNCHANGED <<lib, index, needs, scrapes, moves, tally, look>>

_catalog_coverage(failed) ==
    /\ ask.step = "discover again"
    /\ \E q \in {_artifact_identity(ask.ro, TRUE)} : \E d \in {Discovered(q, failed)} :
          Steps([ask EXCEPT !.again = d,
                    !.step = IF d.status = "verified" THEN "cover" ELSE "done",
                    !.states = IF d.status = "verified" THEN <<>>
                               ELSE requirement_coverage(Labels(ask.map), q, d, {}, ask.complete)])
    /\ UNCHANGED <<lib, index, needs, scrapes, moves, tally, look>>

\* The catalog is read again, after the discovery.
Cover ==
    /\ ask.step = "cover"
    /\ Steps([ask EXCEPT !.step = "done",
          !.states = requirement_coverage(Labels(ask.map), _artifact_identity(ask.ro, TRUE),
                                          ask.again, index, ask.complete)])
    /\ UNCHANGED <<lib, index, needs, scrapes, moves, tally, look>>

-----------------------------------------------------------------------------
(* Counting what there is, within a few seconds; and searching it. *)

artifact_kind_summary(scanned) ==
    /\ "count" \in Uses /\ tally.step = "idle" /\ index' = (index \cap lib) \cup scanned
    /\ tally' = [NoTally EXCEPT !.step = "scanned", !.physical = Cardinality(lib),
                                !.complete = scanned = lib, !.steady = lib]
    /\ UNCHANGED <<lib, needs, scrapes, moves, ask, look>>

\* Mutant: a complete scan is all it takes.
CountedWhenScanned ==
    /\ tally.step = "scanned"
    /\ tally' = [tally EXCEPT !.step = "counted", !.counted = Cardinality(index),
                              !.final = tally.complete]
    /\ UNCHANGED <<lib, index, needs, scrapes, moves, ask, look>>

Counted ==
    /\ tally.step = "scanned"
    /\ tally' = [tally EXCEPT !.step = "counted", !.counted = Cardinality(index),
                  !.final = tally.complete /\ Cardinality(index) >= tally.physical]
    /\ UNCHANGED <<lib, index, needs, scrapes, moves, ask, look>>

Exact(o) == {p \in look.walked : Sheet[p].folder = Truth[o].car}

matching_documents(o, other) ==
    /\ "search" \in Uses /\ look.step = "idle"
    /\ look' = [step |-> "walked", ro |-> o, answer |-> None,
                walked |-> {p \in lib : Sheet[p].folder = Truth[o].car} \cup other]
    /\ UNCHANGED <<lib, index, needs, scrapes, moves, ask, tally>>

\* A document that went meanwhile cannot be read.
search ==
    /\ look.step = "walked"
    /\ look' = [look EXCEPT !.step = "done", !.answer =
          IF \E p \in look.walked \cap lib : Sheet[p].readable /\ Sheet[p].steps # {} THEN "success"
          ELSE IF Exact(look.ro) # {} THEN "partial_success" ELSE "no_result"]
    /\ UNCHANGED <<lib, index, needs, scrapes, moves, ask, tally>>

\* The answer was taken; another may be asked for.
Taken ==
    /\ \/ ask.step = "done" /\ ask' = Idle /\ UNCHANGED <<tally, look>>
       \/ tally.step = "counted" /\ tally' = NoTally /\ UNCHANGED <<ask, look>>
       \/ look.step = "done" /\ look' = NoLook /\ UNCHANGED <<ask, tally>>
    /\ UNCHANGED <<lib, index, needs, scrapes, moves>>

Next ==
    \/ \E p \in Papers : Drop(p) \/ File(p) \/ Delete(p)
    \/ \E o \in Orders : \E f \in Families : Grow(o, f)
    \/ \E o \in Asked : \/ \E fault \in Faults : Scrape(o, fault)
                       \/ Ask(o) \/ \E other \in SUBSET lib : matching_documents(o, other)
    \/ /\ ask.step \in {"index", "index again"}
       /\ \E failed \in {{}} \cup {{p} : p \in lib} : reconcile_index(failed)
    \/ _artifacts \/ Cover \/ Counted \/ search \/ Taken
    \/ \E failed \in BOOLEAN : _discover_adas_map(failed) \/ _catalog_coverage(failed)
    \/ "count" \in Uses /\ \E scanned \in SUBSET lib : artifact_kind_summary(scanned)

Spec == Init /\ [][Next]_vars

-----------------------------------------------------------------------------
Done == ask.step = "done"

(* A calibration that is covered has a document in the library that is for this order and
   that supports it; a document that was filed under its number by mistake, or is for
   another car of the model, does not do (adas_artifact_catalog.py:1839-2053). *)
CoveredIsReal ==
    Done => \A f \in DOMAIN ask.states : ask.states[f] = "COVERED" =>
        \E p \in ask.met : ask.ro \in About[p] /\ _procedure_supports(p, f)

(* What is missing was looked for in everything that was there: where a map governs, no
   document that lay in the library all the time supports it, however the scans went
   (adas_artifact_catalog.py:2031-2047). *)
MissingIsReal ==
    Done /\ Quiet /\ ask.again # None /\ ask.again.status = "verified" =>
        \A f \in DOMAIN ask.states : ask.states[f] = "MISSING" =>
            ~\E p \in ask.steady : ask.ro \in About[p] /\ _procedure_supports(p, f)

(* The map that governs is the order's own: what the last proven capture of it found, or
   its report; captures that disagree, and papers that contradict it, leave it open
   (adas_artifact_catalog.py:1232-1448, 1645-1739; calibration_iq_work_prep.py:801-925). *)
GovernsItself ==
    Done /\ ask.status = "verified" =>
        /\ \A k \in {"ro", "vin"} : ask.map.id[k] = Truth[ask.ro][k]
        /\ ask.due # None /\ ask.map.due # None => ask.map.needs = ask.due

(* A count that is called final is not short of a document that was there all the time
   (adas_artifact_catalog.py:1133-1136). *)
FinalIsWhole ==
    tally.step = "counted" /\ tally.final => tally.counted >= Cardinality(tally.steady)

(* A search does not report a document of the vehicle as absent, though it could not be
   read (adas_si.py:1236-1249). *)
NotAbsent ==
    look.step = "done" /\ look.answer = "no_result" =>
        \A p \in look.walked : Sheet[p].folder # Truth[look.ro].car

(* As the reason at adas_artifact_catalog.py:1904 says it: nothing in the library matches. *)
NotFoundIsReal ==
    Done /\ ask.again # None /\ ask.again.status = "not_found" =>
        ~\E p \in ask.steady, f \in Labels(ask.map) :
            ask.ro \in About[p] /\ _procedure_supports(p, f)

(* As the comment at adas_artifact_catalog.py:1646 says it: unverified rows do not count. *)
UnverifiedDoNotCount ==
    \A o \in Orders :
        \A found \in {_canonical_candidates(_artifact_identity(o, FALSE))} :
            Cardinality({i \in found : _proven(scrapes[i])}) = 1 => Cardinality(found) = 1
=============================================================================
