------------------------------- MODULE Library -------------------------------
(***************************************************************************)
(* The service-information library and what is derived from it (core/       *)
(* services/adas_si.py, adas_storage.py, adas_artifact_catalog.py).  Files   *)
(* are dropped into the root; filing moves them under the vehicle or repair *)
(* order they are proven to be about; the text of their pages is cached and *)
(* a catalog describes them.  All of it works on files that others change.  *)
(*                                                                         *)
(* The bytes, the text and the hash of a document are the document.  A      *)
(* write gives a file a new time; a move keeps it.                          *)
(***************************************************************************)
EXTENDS Naturals, FiniteSets

CONSTANTS
    Docs,
    Name,      \* [Docs -> the names they are dropped with]
    Place,     \* [Docs -> the folder and name they belong to]
    Tells,     \* [Docs -> {"name", "sidecar", "text", "nothing"}]: what proves it
    Readers,   \* searches that read pages
    Careful,   \* no name is taken again before its file was filed, and no scan
               \* outlasts the wait of a filing
    MaxScans, MaxFilings,   \* bounds
    None

Review == "Needs Review"
Root(n) == [folder |-> "root", name |-> n, copy |-> 1]
At(folder, name) == [folder : {folder}, name : {name}, copy : 1..2]   \* "name (2).pdf"
Paths == {Root(Name[d]) : d \in Docs}
         \cup UNION {At(Place[d].folder, Place[d].name) \cup At(Review, Name[d]) : d \in Docs}

VARIABLES
    file, sidecar,   \* [Paths -> document and time]
    pages,           \* path -> time and text of the cached pages
    catalog,         \* path -> row
    clock, dropped, gone,
    filer, filings, scan, scans, reader

disk == <<file, sidecar>>
derived == <<pages, catalog>>
people == <<clock, dropped, gone>>
vars == <<disk, derived, people, filer, filings, scan, scans, reader>>

NoFiling == [step |-> "idle", todo |-> {}, rows |-> None, moved |-> {}, from |-> None, to |-> None]
NoScan == [step |-> "idle", left |-> {}, seen |-> {}, rows |-> None, texts |-> None, at |-> None]
NoReader == [step |-> "idle", path |-> None, time |-> None, text |-> None]

Init ==
    /\ file = [p \in Paths |-> None] /\ sidecar = [p \in Paths |-> None]
    /\ pages = [p \in Paths |-> None] /\ catalog = [p \in Paths |-> None]
    /\ clock = 0 /\ dropped = {} /\ gone = {}
    /\ filer = NoFiling /\ filings = 0 /\ scan = NoScan /\ scans = 0
    /\ reader = [r \in Readers |-> NoReader]

Present == {p \in DOMAIN file : file[p] # None}
Written(d) == [doc |-> d, time |-> clock + 1]

-----------------------------------------------------------------------------
(* People. *)

Drop(d) ==
    LET p == Root(Name[d]) IN
    /\ d \notin dropped /\ (file[p] # None => ~Careful)
    /\ file' = [file EXCEPT ![p] = Written(d)]
    /\ gone' = gone \cup (IF file[p] = None THEN {} ELSE {file[p].doc})
    /\ clock' = clock + 1 /\ dropped' = dropped \cup {d}
    /\ UNCHANGED <<sidecar, derived, filer, filings, scan, scans, reader>>

DropSidecar(d) ==
    LET p == Root(Name[d]) IN
    /\ Tells[d] = "sidecar" /\ file[p] # None /\ file[p].doc = d /\ sidecar[p] = None
    /\ sidecar' = [sidecar EXCEPT ![p] = Written(d)]
    /\ clock' = clock + 1
    /\ UNCHANGED <<file, derived, dropped, gone, filer, filings, scan, scans, reader>>

\* The file goes, its sidecar stays.
delete_file(p) ==
    /\ ~Careful /\ file[p] # None /\ p.folder = "root"
    /\ file' = [file EXCEPT ![p] = None]
    /\ gone' = gone \cup {file[p].doc}
    /\ UNCHANGED <<sidecar, derived, clock, dropped, filer, filings, scan, scans, reader>>

-----------------------------------------------------------------------------
(* Filing; one at a time. *)

_catalog_rows == [p \in DOMAIN catalog |-> IF catalog[p] = None THEN None ELSE catalog[p].text]

refresh_library ==
    /\ filer.step = "idle" /\ filings < MaxFilings /\ filings' = filings + 1
    /\ filer' = [NoFiling EXCEPT !.step = "filing", !.rows = _catalog_rows,
                                 !.todo = {p \in Present : p.folder = "root"}]
    /\ UNCHANGED <<disk, derived, people, scan, scans, reader>>

CachedText(p, time) == IF pages[p] # None /\ pages[p].time = time THEN pages[p].text ELSE None
Text(p) == IF CachedText(p, file[p].time) # None THEN CachedText(p, file[p].time)
           ELSE file[p].doc

\* The document whose identity is taken for the one at p: by the catalog as filing
\* found it, the sidecar, the name, or the text.
Proof(p) ==
    IF filer.rows[p] # None /\ Tells[filer.rows[p]] # "nothing" THEN filer.rows[p]
    ELSE IF sidecar[p] # None THEN sidecar[p].doc
    ELSE IF Tells[file[p].doc] = "name" THEN file[p].doc
    ELSE IF Tells[Text(p)] = "text" THEN Text(p)
    ELSE None

\* Mutant: the document takes the name that is proper for it.
TargetTaken(folder, name) == [folder |-> folder, name |-> name, copy |-> 1]

_unique_target(folder, name) ==
    CHOOSE p \in At(folder, name) :
        IF file[[p EXCEPT !.copy = 1]] = None THEN p.copy = 1 ELSE p.copy = 2

_classify_root_document(p) ==
    /\ filer.step = "filing" /\ filer.from = None /\ p \in filer.todo /\ file[p] # None
    /\ filer' = [filer EXCEPT !.from = p,
          !.to = IF Proof(p) = None THEN _unique_target(Review, p.name)
                 ELSE _unique_target(Place[Proof(p)].folder, Place[Proof(p)].name)]
    /\ UNCHANGED <<disk, derived, people, filings, scan, scans, reader>>

\* Taken away before it was filed.
Skip(p) ==
    /\ filer.step = "filing" /\ file[p] = None
    /\ filer.from \in {p, None} /\ p \in filer.todo
    /\ filer' = [filer EXCEPT !.todo = @ \ {p}, !.from = None, !.to = None]
    /\ UNCHANGED <<disk, derived, people, filings, scan, scans, reader>>

_migrate_library ==
    LET p == filer.from
        q == filer.to
    IN  /\ filer.step = "filing" /\ p # None /\ file[p] # None
        /\ file' = [file EXCEPT ![q] = file[p], ![p] = None]
        /\ filer' = [filer EXCEPT !.step = "sidecar", !.moved = @ \cup {p, q}]
        /\ UNCHANGED <<sidecar, derived, people, filings, scan, scans, reader>>

\* Where a sidecar is already, the one that comes is put aside and not read again.
MoveSidecar ==
    LET p == filer.from
        q == filer.to
    IN  /\ filer.step = "sidecar"
        /\ sidecar' = IF sidecar[p] = None THEN sidecar
                      ELSE [sidecar EXCEPT ![p] = None,
                                           ![q] = IF @ = None THEN sidecar[p] ELSE @]
        /\ filer' = [filer EXCEPT !.step = "filing", !.todo = @ \ {p}, !.from = None, !.to = None]
        /\ UNCHANGED <<file, derived, people, filings, scan, scans, reader>>

\* Mutant: what was known of the old path stays.
KeepDerived == UNCHANGED derived

_invalidate_derived_paths ==
    /\ pages' = [p \in DOMAIN pages |-> IF p \in filer.moved THEN None ELSE pages[p]]
    /\ catalog' = [p \in DOMAIN catalog |-> IF p \in filer.moved THEN None ELSE catalog[p]]

\* A scan holds the database; filing waits for it a while and then gives up.
Filed ==
    /\ filer.step = "filing" /\ filer.todo = {} /\ filer.from = None
    /\ \/ scan.step = "idle" /\ _invalidate_derived_paths
       \/ scan.step # "idle" /\ ~Careful /\ UNCHANGED derived
    /\ filer' = NoFiling
    /\ UNCHANGED <<disk, people, filings, scan, scans, reader>>

-----------------------------------------------------------------------------
(* The pages of a document, for a search. *)

Reads(r, to) == reader' = [reader EXCEPT ![r] = to]

\* Mutant: the time is taken when the pages are stored.
PagesLate(r, p) ==
    /\ reader[r].step = "idle" /\ file[p] # None /\ CachedText(p, file[p].time) = None
    /\ Reads(r, [step |-> "read", path |-> p, time |-> clock + 1, text |-> file[p].doc])
    /\ UNCHANGED <<disk, derived, people, filer, filings, scan, scans>>

_pages(r, p) ==
    /\ reader[r].step = "idle" /\ file[p] # None /\ CachedText(p, file[p].time) = None
    /\ Reads(r, [NoReader EXCEPT !.step = "stat", !.path = p, !.time = file[p].time])
    /\ UNCHANGED <<disk, derived, people, filer, filings, scan, scans>>

Extract(r) ==
    LET p == reader[r].path IN
    /\ reader[r].step = "stat"
    /\ IF file[p] = None THEN Reads(r, NoReader)
       ELSE Reads(r, [reader[r] EXCEPT !.step = "read", !.text = file[p].doc])
    /\ UNCHANGED <<disk, derived, people, filer, filings, scan, scans>>

Cache(r) ==
    /\ reader[r].step = "read" /\ scan.step = "idle"
    /\ pages' = [pages EXCEPT ![reader[r].path] =
                    [time |-> reader[r].time, text |-> reader[r].text]]
    /\ Reads(r, NoReader)
    /\ UNCHANGED <<disk, catalog, people, filer, filings, scan, scans>>

-----------------------------------------------------------------------------
(* The catalog.  Its changes are committed together. *)

Time(f) == IF f = None THEN 0 ELSE f.time

reconcile_index ==
    /\ scan.step = "idle" /\ scans < MaxScans /\ scans' = scans + 1
    /\ scan' = [NoScan EXCEPT !.step = "scan", !.left = Present, !.seen = Present,
                              !.rows = catalog, !.texts = pages]
    /\ UNCHANGED <<disk, derived, people, filer, filings, reader>>

\* Mutant: the time of the sidecar is not looked at.
UnchangedButSidecar(p) ==
    /\ catalog[p] # None /\ catalog[p].present /\ catalog[p].time = Time(file[p])

Unchanged(p) ==
    /\ catalog[p] # None /\ catalog[p].present
    /\ catalog[p].time = Time(file[p]) /\ catalog[p].side = Time(sidecar[p])

Stat(p) ==
    /\ scan.step = "scan" /\ p \in scan.left
    /\ scan' = IF file[p] = None \/ Unchanged(p)
               THEN [scan EXCEPT !.left = @ \ {p}]
               ELSE [scan EXCEPT !.left = @ \ {p}, !.step = "stat",
                        !.at = [path |-> p, time |-> file[p].time, side |-> Time(sidecar[p]),
                                digest |-> None]]
    /\ UNCHANGED <<disk, derived, people, filer, filings, scans, reader>>

Digest ==
    LET p == scan.at.path IN
    /\ scan.step = "stat"
    /\ scan' = IF file[p] = None THEN [scan EXCEPT !.step = "scan", !.at = None]
               ELSE [scan EXCEPT !.step = "digest", !.at.digest = file[p].doc]
    /\ UNCHANGED <<disk, derived, people, filer, filings, scans, reader>>

\* The cached pages of the time that was read, or the file as it is now; a file that
\* went is described without text.  A sidecar is trusted for the bytes it was made for.
_index_one ==
    LET p == scan.at.path
        cached == CachedText(p, scan.at.time)
        text == IF cached # None THEN cached ELSE IF file[p] = None THEN None ELSE file[p].doc
        row == [time |-> scan.at.time, side |-> scan.at.side, digest |-> scan.at.digest,
                text |-> text, present |-> TRUE,
                proven |-> sidecar[p] # None /\ sidecar[p].doc = scan.at.digest]
    IN  /\ scan.step = "digest"
        /\ scan' = [scan EXCEPT !.step = "scan", !.at = None, !.rows[p] = row,
              !.texts[p] = IF cached # None \/ text = None THEN @
                           ELSE [time |-> scan.at.time, text |-> text]]
        /\ UNCHANGED <<disk, derived, people, filer, filings, scans, reader>>

\* At the end, or at the deadline with files left.
Scanned ==
    /\ scan.step = "scan"
    /\ catalog' = [p \in DOMAIN catalog |->
          IF scan.rows[p] # None /\ p \notin scan.seen
          THEN [scan.rows[p] EXCEPT !.present = FALSE] ELSE scan.rows[p]]
    /\ pages' = scan.texts
    /\ scan' = NoScan
    /\ UNCHANGED <<disk, people, filer, filings, scans, reader>>

Next ==
    \/ \E d \in Docs : Drop(d) \/ DropSidecar(d)
    \/ \E p \in Present : delete_file(p)
    \/ refresh_library \/ _migrate_library \/ MoveSidecar \/ Filed
    \/ \E p \in filer.todo : _classify_root_document(p) \/ Skip(p)
    \/ \E r \in Readers : Extract(r) \/ Cache(r) \/ \E p \in Present : _pages(r, p)
    \/ reconcile_index \/ Digest \/ _index_one \/ Scanned
    \/ \E p \in scan.left : Stat(p)

Spec == Init /\ [][Next]_vars

-----------------------------------------------------------------------------
(* Cached pages that count for a file are the text of that file, whoever replaced,
   moved or deleted it while they were read (adas_si.py:893-969, adas_storage.py:241). *)
PagesAreOfFile ==
    \A p \in Present : CachedText(p, file[p].time) \in {None, file[p].doc}

(* A row that the next scan would leave alone describes the file that is there: its
   hash, its text, and whether the sidecar beside it was made for it
   (adas_artifact_catalog.py:809-1011). *)
RowsAreOfFile ==
    \A p \in Present : Unchanged(p) =>
        /\ catalog[p].digest = file[p].doc
        /\ catalog[p].text = file[p].doc
        /\ sidecar[p] # None => (catalog[p].proven <=> sidecar[p].doc = file[p].doc)
        /\ catalog[p].proven => Tells[file[p].doc] = "sidecar"

(* Every document that was dropped, and not overwritten or deleted, is in the library,
   at one place, also when several belong under one name (adas_storage.py:230-238). *)
NothingLost ==
    \A d \in dropped \ gone : Cardinality({p \in Present : file[p].doc = d}) = 1

(* A document is filed under what it is about, or not at all, however often its name
   was used before (adas_storage.py:9-11, 241-281). *)
FiledAsProven ==
    Careful => \A p \in Present : p.folder \notin {"root", Review} =>
        p.folder = Place[file[p].doc].folder
=============================================================================
