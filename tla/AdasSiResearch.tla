---------------------------- MODULE AdasSiResearch ----------------------------
(***************************************************************************)
(* The background service-information research of a repair order             *)
(* (core/services/adas_si_research.py, adas_si_research_source_cascade.py).   *)
(*                                                                         *)
(* A job searches the library once per calibration of the repair order, and  *)
(* has the procedure it accepts attached to that calibration at Calibration  *)
(* IQ.  The record of the job survives a stop of Core; what its driver holds  *)
(* does not.  Several jobs of one user stand for several users as well: only  *)
(* OneRunning speaks of one user.                                            *)
(***************************************************************************)
EXTENDS Naturals, Sequences, FiniteSets

CONSTANTS
    Jobs,         \* job ids, all of one user
    Old,          \* a job of an older build that was running when Core stopped
    N,            \* calibrations of the repair order, in their order
    Docs,         \* documents of the library
    WithoutId,    \* the objectives without a calibration id: systems that were named, or
                  \* calibrations read without one
    Captured,     \* [Docs -> Nat]: the calibration each was captured for, 0 for none,
                  \* beyond N for one of another repair order
    Unreadable,   \* documents whose sidecar may be missing, malformed or unreadable
    ReviewLimit,  \* _LOCAL_REVIEW_LIMIT
    MaxFaults,    \* bound: stops of Core and failures of the store
    MaxTouch,     \* bound: changes of a document by other people
    None

Cals == 1 .. N

VARIABLES
    up,        \* Core runs; its start-up resumes the records in "unresumed"
    unresumed,
    starting,  \* the job whose start holds _start_lock
    job,       \* the saved records
    at,        \* what the driver of each job is doing
    ciq,       \* the documents of the repair order at Calibration IQ, oldest first
    done,      \* the idempotency keys Calibration IQ has seen
    late,      \* requests Core gave up on, still on their way
    faults, touches,
    posted     \* result messages of each job

vars == <<up, unresumed, starting, job, at, ciq, done, late, faults, touches, posted>>
service == <<up, unresumed, starting>>
world == <<ciq, done, late, faults, touches>>

\* What the saved record of a job says, of the job and of each calibration.
Outcomes == {"pending", "in_progress", "not_run", "attached", "incomplete", "not_found",
             "captured_not_attached", "model_unavailable"}
Records == [state : {"running", "completed"}, contract : {1, 2}, notified : BOOLEAN,
            outcome : [Cals -> Outcomes]]

Fresh == [c \in Cals |-> "pending"]
Idle == [at |-> "none", cal |-> 0, doc |-> None, complete |-> FALSE,
         write |-> None, attached |-> FALSE, again |-> FALSE]

\* A job of the older build may call anything attached.
Init ==
    /\ up = FALSE /\ unresumed = {} /\ starting = None
    /\ job = [j \in Jobs |->
                IF j = Old
                THEN [state |-> "running", contract |-> 1, notified |-> FALSE,
                      outcome |-> [c \in Cals |-> "attached"]]
                ELSE None]
    /\ at = [j \in Jobs |-> Idle]
    /\ ciq = <<>> /\ done = {} /\ late = {}
    /\ faults = 0 /\ touches = 0
    /\ posted = [j \in Jobs |-> 0]

Running(j) == job[j] # None /\ job[j].state = "running"

-----------------------------------------------------------------------------
(* Starting, asking and resuming. *)

_ensure_driver(j) ==
    at' = IF at[j].at \in {"none", "gone"} THEN [at EXCEPT ![j].at = "loop"] ELSE at

running_job == {j \in Jobs : Running(j)}

\* Mutant: the start does not wait for the one under way.
StartUnlocked(j) ==
    /\ up /\ unresumed = {} /\ job[j] = None /\ running_job = {}
    /\ starting' = IF starting = None THEN j ELSE starting
    /\ job' = IF starting \in {None, j} THEN job
              ELSE [job EXCEPT ![j] = [state |-> "running", contract |-> 2,
                                       notified |-> FALSE, outcome |-> Fresh]]
    /\ UNCHANGED <<up, unresumed, at, world, posted>>

\* The lock is held from the look at the running jobs to the save.
start(j) ==
    /\ up /\ unresumed = {} /\ starting = None /\ job[j] = None /\ running_job = {}
    /\ starting' = j
    /\ UNCHANGED <<up, unresumed, job, at, world, posted>>

already_running(j) ==
    /\ up /\ unresumed = {} /\ starting = None /\ j \in running_job
    /\ _ensure_driver(j)
    /\ UNCHANGED <<service, job, world, posted>>

\* No vehicle with a VIN, or no requirement with a written procedure: no job.
_resolve_targets(j) ==
    /\ up /\ starting = j
    /\ starting' = None
    /\ \/ UNCHANGED <<job, at>>
       \/ /\ job' = [job EXCEPT ![j] = [state |-> "running", contract |-> 2,
                                        notified |-> FALSE, outcome |-> Fresh]]
          /\ _ensure_driver(j)
    /\ UNCHANGED <<up, unresumed, world, posted>>

reset_outdated_running_record(r) ==
    IF r.state = "running" /\ r.contract < 2
    THEN [r EXCEPT !.contract = 2, !.notified = FALSE, !.outcome = Fresh] ELSE r

\* Mutant: a restart leaves the running jobs alone.
ResumeResultsOnly(j) ==
    /\ up /\ j \in unresumed
    /\ unresumed' = unresumed \ {j}
    /\ job' = [job EXCEPT ![j] = reset_outdated_running_record(@)]
    /\ at' = IF job[j].state = "completed" /\ ~job[j].notified
             THEN [at EXCEPT ![j].at = "post"] ELSE at
    /\ UNCHANGED <<up, starting, world, posted>>

\* Mutant: a restart posts every completed job again.
ResumePostsAgain(j) ==
    /\ up /\ j \in unresumed
    /\ unresumed' = unresumed \ {j}
    /\ job' = [job EXCEPT ![j] = reset_outdated_running_record(@)]
    /\ at' = [at EXCEPT ![j].at = IF Running(j) THEN "loop" ELSE "post"]
    /\ UNCHANGED <<up, starting, world, posted>>

resume(j) ==
    /\ up /\ j \in unresumed
    /\ unresumed' = unresumed \ {j}
    /\ job' = [job EXCEPT ![j] = reset_outdated_running_record(@)]
    /\ IF Running(j) THEN _ensure_driver(j)
       ELSE at' = IF job[j].notified THEN at ELSE [at EXCEPT ![j].at = "post"]
    /\ UNCHANGED <<up, starting, world, posted>>

Boot ==
    /\ ~up /\ up' = TRUE
    /\ unresumed' = {j \in Jobs : job[j] # None}
    /\ UNCHANGED <<starting, job, at, world, posted>>

\* A crash, or shutdown, which cancels every driver where it stands.  A request
\* that was on its way may still arrive.
Stop ==
    /\ up /\ faults < MaxFaults
    /\ faults' = faults + 1 /\ up' = FALSE
    /\ unresumed' = {} /\ starting' = None
    /\ at' = [j \in Jobs |-> Idle]
    /\ late' = late \cup {at[j].write : j \in {i \in Jobs : at[i].at = "write"}}
    /\ UNCHANGED <<job, ciq, done, touches, posted>>

-----------------------------------------------------------------------------
(* The search of the library for one calibration. *)

\* blind: the documents whose sidecar gives no metadata at this search.
captured_calibration_id(d, blind) == IF d \in blind THEN 0 ELSE Captured[d]

\* Mutant: any document of the vehicle may be reused.
ReuseAny(d, c, blind) == TRUE

\* Only a mismatch that is proved refuses.
provenance_allows_reuse(d, c, blind) ==
    c \in WithoutId \/ captured_calibration_id(d, blind) \in {0, c}

\* rows: the hits in the order of the search; verdict: what the reviewer makes of
\* each.  The first procedure that is complete wins, then the first partial one.
local_procedure(c, rows, verdict, blind) ==
    LET may == {i \in DOMAIN rows : /\ provenance_allows_reuse(rows[i], c, blind)
                                    /\ verdict[rows[i]] # "unprepared"}
        seen == {i \in may : Cardinality({k \in may : k < i}) < ReviewLimit}
        whole == {i \in seen : verdict[rows[i]] = "satisfied"}
        best == IF whole # {} THEN whole ELSE {i \in seen : verdict[rows[i]] = "partial"}
    IN  IF best = {} THEN [doc |-> None, complete |-> FALSE]
        ELSE [doc |-> rows[CHOOSE i \in best : \A k \in best : i <= k],
              complete |-> whole # {}]

Rows == {s \in UNION {[1 .. n -> Docs] : n \in 0 .. Cardinality(Docs)} :
            \A i, k \in DOMAIN s : i # k => s[i] # s[k]}
Verdicts == [Docs -> {"satisfied", "partial", "unsatisfied", "unprepared"}]
LocalResults(c) ==
    {local_procedure(c, rows, verdict, blind) :
        rows \in Rows, verdict \in Verdicts, blind \in SUBSET Unreadable}

-----------------------------------------------------------------------------
(* Calibration IQ: documents with their links and versions, and requests with an  *)
(* idempotency key that have an effect once.                                     *)

_document_on_ro(d) ==
    LET of == {i \in DOMAIN ciq : ciq[i].source = d}
    IN  IF of = {} THEN 0 ELSE CHOOSE i \in of : \A k \in of : i <= k

\* What counts as attached: the link, or without an id the mere presence.
IsAttached(d, c) ==
    _document_on_ro(d) # 0 /\ (c \in WithoutId \/ c \in ciq[_document_on_ro(d)].links)

\* An objective without an id asks for no link.
Arrives(w) ==
    /\ done' = done \cup {w}
    /\ ciq' = CASE w \in done -> ciq
                [] w \notin done /\ w.version = 0 ->
                      Append(ciq, [source |-> w.doc, links |-> {w.cal} \ WithoutId, version |-> 1])
                [] w \notin done /\ w.version # 0 ->
                      IF ciq[w.target].version = w.version
                      THEN [ciq EXCEPT ![w.target].links = @ \cup ({w.cal} \ WithoutId),
                                       ![w.target].version = @ + 1]
                      ELSE ciq

LateArrives ==
    /\ Len(ciq) < 2 * Cardinality(Docs)
    /\ \E w \in late : Arrives(w) /\ late' = late \ {w}
    /\ UNCHANGED <<service, job, at, faults, touches, posted>>

\* Someone edits a document of the repair order.
OthersChange ==
    /\ touches < MaxTouch /\ touches' = touches + 1
    /\ \E i \in DOMAIN ciq : ciq' = [ciq EXCEPT ![i].version = @ + 1]
    /\ UNCHANGED <<service, job, at, done, late, faults, posted>>

-----------------------------------------------------------------------------
(* The driver. *)

Pending(j) == {c \in Cals : job[j].outcome[c] = "pending"}

classify_objective(o) ==
    CASE o \in {"pending", "in_progress"} -> "not_run"
      [] OTHER -> o

\* Results: what was still to do is called not run.
Finalized(r) ==
    [r EXCEPT !.state = "completed",
              !.outcome = [c \in Cals |-> classify_objective(@[c])]]

\* The time limit, the end of the list, or the next objective.
_drive(j) ==
    /\ up /\ at[j].at = "loop"
    /\ CASE ~Running(j) -> at' = [at EXCEPT ![j] = Idle] /\ UNCHANGED job
         [] Running(j) ->
            \/ /\ job' = [job EXCEPT ![j] = Finalized(@)]
               /\ at' = [at EXCEPT ![j] = [Idle EXCEPT !.at = "post", !.again = TRUE]]
            \/ /\ Pending(j) # {}
               /\ LET c == CHOOSE c \in Pending(j) : \A b \in Pending(j) : c <= b
                  IN  /\ job' = [job EXCEPT ![j].outcome[c] = "in_progress"]
                      /\ at' = [at EXCEPT ![j] = [Idle EXCEPT !.at = "model", !.cal = c]]
    /\ UNCHANGED <<service, world, posted>>

_wait_for_model(j) ==
    /\ up /\ at[j].at = "model"
    /\ \/ at' = [at EXCEPT ![j].at = "search"] /\ UNCHANGED job
       \/ /\ job' = [job EXCEPT ![j].outcome[at[j].cal] = "model_unavailable"]
          /\ at' = [at EXCEPT ![j] = [Idle EXCEPT !.at = "loop"]]
    /\ UNCHANGED <<service, world, posted>>

_research(j) ==
    /\ up /\ at[j].at = "search"
    /\ \E r \in LocalResults(at[j].cal) :
          at' = [at EXCEPT ![j].doc = r.doc, ![j].complete = r.complete,
                           ![j].at = IF r.doc = None THEN "finish" ELSE "attach"]
    /\ UNCHANGED <<service, job, world, posted>>

\* The first read of the repair order decides between a link and an import; it may
\* fail, and the file may be gone.
attach(j) ==
    /\ up /\ at[j].at = "attach"
    /\ LET c == at[j].cal
           d == at[j].doc
           i == _document_on_ro(d)
           write == [job |-> j, cal |-> c, doc |-> d, target |-> i,
                     version |-> IF i = 0 THEN 0 ELSE ciq[i].version]
       IN  \/ at' = [at EXCEPT ![j].at = "finish"]
           \/ /\ IsAttached(d, c)
              /\ at' = [at EXCEPT ![j].at = "finish", ![j].attached = TRUE]
           \/ /\ ~IsAttached(d, c)
              /\ at' = [at EXCEPT ![j].at = "write", ![j].write = write]
    /\ UNCHANGED <<service, job, world, posted>>

\* The request is done, refused or lost, or Core gives up on it.
operator_execute(j) ==
    /\ up /\ at[j].at = "write"
    /\ \/ Arrives(at[j].write) /\ UNCHANGED late
       \/ UNCHANGED <<ciq, done, late>>
       \/ late' = late \cup {at[j].write} /\ UNCHANGED <<ciq, done>>
    /\ Len(ciq') <= 2 * Cardinality(Docs)
    /\ at' = [at EXCEPT ![j].at = "reread"]
    /\ UNCHANGED <<service, job, faults, touches, posted>>

\* Mutant: the receipt of the request is taken for its effect.
TrustReceipt(j) ==
    /\ up /\ at[j].at = "reread"
    /\ at' = [at EXCEPT ![j].at = "finish", ![j].attached = at[j].write \in done]
    /\ UNCHANGED <<service, job, world, posted>>

\* A fresh read decides.
Confirm(j) ==
    /\ up /\ at[j].at = "reread"
    /\ \E readable \in BOOLEAN :
          at' = [at EXCEPT ![j].at = "finish",
                           ![j].attached = readable /\ IsAttached(at[j].doc, at[j].cal)]
    /\ UNCHANGED <<service, job, world, posted>>

Outcome(p) ==
    CASE p.doc = None -> "not_found"
      [] p.doc # None /\ p.attached -> IF p.complete THEN "attached" ELSE "incomplete"
      [] OTHER -> "captured_not_attached"

Finish(j) ==
    /\ up /\ at[j].at = "finish"
    /\ job' = [job EXCEPT ![j].outcome[at[j].cal] = Outcome(at[j])]
    /\ at' = [at EXCEPT ![j] = [Idle EXCEPT !.at = "loop"]]
    /\ UNCHANGED <<service, world, posted>>

\* The store fails under the driver: the job is finalized as an error, or, when the
\* store fails again, left running without a driver.
Fails(j) ==
    /\ up /\ at[j].at \in {"loop", "model", "finish"} /\ Running(j) /\ faults < MaxFaults
    /\ faults' = faults + 1
    /\ \/ /\ job' = [job EXCEPT ![j] = Finalized(@)]
          /\ at' = [at EXCEPT ![j] = [Idle EXCEPT !.at = "post"]]
       \/ at' = [at EXCEPT ![j] = [Idle EXCEPT !.at = "gone"]] /\ UNCHANGED job
    /\ UNCHANGED <<service, ciq, done, late, touches, posted>>

\* The message may fail; the notification is awaited after it.  When "notified" cannot
\* be saved, a driver that came to its own end finalizes once more and posts a second
\* message; elsewhere the failure is only logged.
_post_result(j) ==
    /\ up
    /\ \/ /\ at[j].at = "post"
          /\ \/ posted' = [posted EXCEPT ![j] = @ + 1] /\ UNCHANGED faults
             \/ faults < MaxFaults /\ faults' = faults + 1 /\ UNCHANGED posted
          /\ at' = [at EXCEPT ![j].at = "notify"]
          /\ UNCHANGED job
       \/ /\ at[j].at = "notify"
          /\ job' = [job EXCEPT ![j].notified = TRUE]
          /\ at' = [at EXCEPT ![j] = Idle]
          /\ UNCHANGED <<posted, faults>>
       \/ /\ at[j].at = "notify" /\ faults < MaxFaults
          /\ faults' = faults + 1
          /\ \/ at[j].again /\ at' = [at EXCEPT ![j].at = "post", ![j].again = FALSE]
             \/ at' = [at EXCEPT ![j] = [Idle EXCEPT !.at = "gone"]]
          /\ UNCHANGED <<job, posted>>
    /\ UNCHANGED <<service, ciq, done, late, touches>>

Drive(j) ==
    \/ _drive(j) \/ _wait_for_model(j) \/ _research(j) \/ attach(j)
    \/ operator_execute(j) \/ Confirm(j) \/ Finish(j) \/ _post_result(j)

Next ==
    \/ Boot \/ Stop \/ LateArrives \/ OthersChange
    \/ \E j \in Jobs :
          \/ start(j) \/ already_running(j) \/ _resolve_targets(j) \/ resume(j)
          \/ Fails(j) \/ Drive(j)

Fairness ==
    /\ WF_vars(Boot)
    /\ \A j \in Jobs : WF_vars(resume(j)) /\ WF_vars(Drive(j))

Spec == Init /\ [][Next]_vars /\ Fairness

-----------------------------------------------------------------------------
(* A result that a job reports as attached is linked at Calibration IQ to the
   calibration it was researched for, or, when the objective has no calibration id,
   is a document of the repair order, whatever requests were lost, late, refused
   or made by an older build (adas_si_research.py:532-548, 625-650, 654-678,
   1115-1160). *)
AttachedIsLinked ==
    \A j \in Jobs : job[j] # None /\ (job[j].contract = 2 \/ job[j].state = "completed") =>
        \A c \in Cals : job[j].outcome[c] = "attached" => \E d \in Docs : IsAttached(d, c)

(* A document captured for one calibration is linked to another one only when its
   sidecar could not be read (adas_si_research_source_cascade.py:70-87, 169-177,
   341-351). *)
OwnProcedure ==
    \A i \in DOMAIN ciq : \A c \in ciq[i].links :
        ciq[i].source \in Unreadable \/ Captured[ciq[i].source] \in {0, c}

(* "A document already on the RO for a different calibration is linked to this one
   ..., never counted as attached because it merely exists" (adas_si_research.py
   513-515): an objective reported as attached has its link, or a job brought the
   document for it. *)
NotMerelyPresent ==
    LET linked(d, c) == \E i \in DOMAIN ciq : ciq[i].source = d /\ c \in ciq[i].links
        brought(j, d, c) == \E w \in done : w.job = j /\ w.cal = c /\ w.doc = d
    IN  \A j \in Jobs : job[j] # None /\ job[j].contract = 2 =>
            \A c \in Cals : job[j].outcome[c] = "attached" =>
                \E d \in Docs : linked(d, c) \/ brought(j, d, c)

(* "An artifact captured for one CIQ calibration item is never reused for a different
   one" (adas_si_research_source_cascade.py:25-27): a document is linked to the
   calibration it was captured for only. *)
NeverReused ==
    \A i \in DOMAIN ciq : \A c \in ciq[i].links : Captured[ciq[i].source] \in {0, c}

(* A user has one research running, however starts and restarts interleave
   (adas_si_research.py:881-938). *)
OneRunning == \A i, j \in running_job : i = j

(* Results are posted for a finished job only, and never again once the record
   says so; a finished job keeps its outcomes (adas_si_research.py:971-984,
   1176-1191, 1282-1312). *)
PostedIsFinal ==
    [][\A j \in Jobs :
        /\ posted'[j] # posted[j] => job[j].state = "completed" /\ ~job[j].notified
        /\ job[j] # None /\ job[j].state = "completed" => job'[j].outcome = job[j].outcome]_vars

(* A running job is completed and its record says that its result was posted, a
   message that failed included, unless the store failed under its driver; a stop
   of Core only delays it (adas_si_research.py:971-984, 1102-1191, 1282-1312). *)
JobEnds ==
    \A j \in Jobs :
        (Running(j) /\ at[j].at # "gone") ~>
            ((job[j] # None /\ job[j].state = "completed" /\ job[j].notified)
             \/ at[j].at = "gone")
=============================================================================
