-------------------------------- MODULE ScrapeX --------------------------------
(***************************************************************************)
(* The client of ScrapeX (core/services/scrapex.py) and the tool handler    *)
(* that calls it (core/main.py:311-335): the runtime is started from the    *)
(* revision that is checked out, sign-in comes before a batch, a mutation   *)
(* whose outcome is unknown is reported as such, and an acquisition is      *)
(* reported as completed when Calibration IQ shows it.                      *)
(*                                                                         *)
(* A step of a call ends at its next await.  The calls work on one repair   *)
(* order.  ScrapeX loads its code when it takes the port.                   *)
(***************************************************************************)
EXTENDS Naturals, FiniteSets

CONSTANTS
    Callers, Ops,    \* calls, and what they may ask for
    Model,         \* the calls of the model; the sweep makes the others
    Revisions,     \* revisions of ScrapeX's repository
    MaxSpawns, MaxCheckouts, MaxSigns,   \* bounds
    None

BATCH_MINTING_ACTIONS == {"create_exact_batch", "create_phase_batch"}
Mutations == BATCH_MINTING_ACTIONS
             \cup {"open_authentication", "process_one", "start_batch", "pause_batch"}
Statuses == {"verified", "queued", "completed", "needs_operator", "running", "paused",
             "authentication_required", "indeterminate", "invalid_response", "conflict",
             "unavailable", "failed", "configuration_error", "sweep_running",
             "use_stage_action", "attachment_failed"}
Definite == Statuses \ {"indeterminate", "verified", "queued", "completed", "needs_operator",
                        "running", "paused", "attachment_failed"}

VARIABLES
    disk, checkouts,     \* the revision that is checked out
    proc, rev, spawns,   \* processes, and the revision of the one that has the port
    own, reports,        \* process 0: it is ScrapeX; its health names its pid
    signed,              \* ADAS Map's managed browser is signed in
    signs,
    file, shown,         \* the PDF; what Calibration IQ shows of the map
    call,
    effects,             \* observed: what the requests of a call did at ScrapeX
    since, wasSigned     \* observed: revisions checked out since the request's client
                         \* began; whether the browser was signed in during the call

runtime == <<proc, rev, spawns, own, reports>>
session == <<signed, signs>>
ciq == <<file, shown>>
vars == <<disk, checkouts, runtime, session, ciq, call, effects, since, wasSigned>>

\* One document of the map and begun research, or another state of the repair order.
Shown == {"nothing", "map", "two maps", "other type", "research required"}

Idle == [at |-> "idle", op |-> None, stage |-> None, rev |-> None, health |-> None, launched |-> 0,
         batch |-> FALSE, result |-> None]

Init ==
    /\ disk \in Revisions /\ checkouts = 0
    /\ proc \in [0..MaxSpawns -> {"none", "up"}] /\ \A p \in 1..MaxSpawns : proc[p] = "none"
    /\ rev \in Revisions
    /\ spawns = 0 /\ own \in BOOLEAN /\ reports \in BOOLEAN
    /\ proc[0] = "none" => own /\ reports /\ rev = disk
    /\ signed \in BOOLEAN /\ signs = 0
    /\ file = FALSE /\ shown = "nothing"
    /\ call = [c \in Callers |-> Idle]
    /\ effects = [c \in Callers |-> [a \in Mutations |-> 0]]
    /\ since = [c \in Callers |-> {}] /\ wasSigned = [c \in Callers |-> FALSE]

-----------------------------------------------------------------------------
(* What happens around the calls. *)

Active(c) == call[c].at \notin {"idle", "done"}

Checkout ==
    /\ \E c \in Callers : Active(c)
    /\ checkouts < MaxCheckouts /\ checkouts' = checkouts + 1
    /\ disk' \in Revisions \ {disk}
    /\ since' = [c \in Callers |-> IF Active(c) THEN since[c] \cup {disk'} ELSE since[c]]
    /\ UNCHANGED <<runtime, session, ciq, call, effects, wasSigned>>

\* The operator signs in, or the session ends.
Sign ==
    /\ \E c \in Callers : Active(c)
    /\ signs < MaxSigns /\ signs' = signs + 1 /\ signed' = ~signed
    /\ wasSigned' = [c \in Callers |-> wasSigned[c] \/ (Active(c) /\ signed')]
    /\ UNCHANGED <<disk, checkouts, runtime, ciq, call, effects, since>>

\* A process that was launched takes the port, or finds it taken and exits.
Boot(p) ==
    /\ proc[p] = "starting" /\ \E c \in Callers : Active(c)
    /\ IF \E q \in DOMAIN proc : proc[q] = "up"
       THEN proc' = [proc EXCEPT ![p] = "gone"] /\ UNCHANGED rev
       ELSE \/ proc' = [proc EXCEPT ![p] = "up"] /\ rev' = disk
            \/ proc' = [proc EXCEPT ![p] = "gone"] /\ UNCHANGED rev
    /\ UNCHANGED <<disk, checkouts, spawns, own, reports, session, ciq, call, effects, since,
                   wasSigned>>

-----------------------------------------------------------------------------
(* One request, and what the client makes of the answer. *)

Up == {p \in DOMAIN proc : proc[p] = "up"}

\* What comes back of a request that ScrapeX carried out, or did not.
Answers(took) ==
    {"timeout", "5xx", "5xx plain"}
    \cup (IF took THEN {"2xx", "2xx malformed"} ELSE {"4xx", "409 signed out"})

_decode_response(answer, may_mutate) ==
    CASE answer = "2xx malformed" -> IF may_mutate THEN "indeterminate" ELSE "invalid_response"
      [] answer = "5xx plain" -> "invalid_response"
      [] OTHER -> None
_remote_failure(answer, may_mutate) ==
    CASE answer = "409 signed out" -> "authentication_required"
      [] answer = "4xx" -> "conflict"
      [] OTHER -> IF may_mutate THEN "indeterminate" ELSE "unavailable"
_transport_failure(may_mutate) == IF may_mutate THEN "indeterminate" ELSE "unavailable"

\* Mutant: an answer that never came is a failure like any other.
LostIsFailed(answer, may_mutate, success) ==
    IF answer = "timeout" THEN "unavailable"
    ELSE IF _decode_response(answer, may_mutate) # None THEN _decode_response(answer, may_mutate)
    ELSE IF answer = "2xx" THEN success
    ELSE _remote_failure(answer, may_mutate)

_request(answer, may_mutate, success) ==
    IF answer = "timeout" THEN _transport_failure(may_mutate)
    ELSE IF _decode_response(answer, may_mutate) # None THEN _decode_response(answer, may_mutate)
    ELSE IF answer = "2xx" THEN success
    ELSE _remote_failure(answer, may_mutate)

-----------------------------------------------------------------------------
(* The stages of a call: acquire_exact is made of calls of the client to itself. *)

action(s) ==
    CASE s \in {"create", "create again"} -> "create_exact_batch"
      [] s \in {"open", "open again"} -> "open_authentication"
      [] s \in {"process", "process again"} -> "process_one"
      [] OTHER -> s

\* The handler drops the invocation context before it asks the client.
carries_context(c) == FALSE
Refused(c, s) == carries_context(c) /\ action(s) \in BATCH_MINTING_ACTIONS

Finish(k, status) == [Idle EXCEPT !.at = "done", !.result = status, !.op = k.op,
                                  !.batch = k.batch]
Forgets(c) == since' = [since EXCEPT ![c] = {}]
Begin(k, s, at) == [k EXCEPT !.stage = s, !.at = at]

\* The revision is read before the client waits for anything; when git does not
\* answer, the runtime is taken as it is.
Enter(c, k, s) ==
    \/ /\ Refused(c, s)
       /\ call' = [call EXCEPT ![c] = Finish(k, "use_stage_action")] /\ Forgets(c)
    \/ /\ ~Refused(c, s)
       /\ \/ \E r \in {disk, None} :
                call' = [call EXCEPT ![c] = [Begin(k, s, "health") EXCEPT !.rev = r]]
          \/ call' = [call EXCEPT ![c] = [Begin(k, s, "started") EXCEPT !.rev = None]]
       /\ since' = [since EXCEPT ![c] = {disk}]

\* Mutant: a batch that may have been made is asked for once more.
AskedAgain(c, k, status) ==
    LET end(s) == call' = [call EXCEPT ![c] = Finish(k, s)] /\ Forgets(c) IN
    CASE k.stage = "create" /\ status \in {"authentication_required", "indeterminate"} ->
            Enter(c, k, "open")
      [] k.stage = "open" /\ status = "verified" -> Enter(c, k, "create again")
      [] k.stage \in {"create", "create again"} /\ status = "queued" ->
            Enter(c, [k EXCEPT !.batch = TRUE], "process")
      [] k.stage \in {"process", "process again"} /\ status = "completed" ->
            call' = [call EXCEPT ![c].at = "file"] /\ UNCHANGED since
      [] OTHER -> end(status)

\* Mutant: the work is believed when ScrapeX says that it is completed.
Believed(c, k, status) ==
    IF k.stage = "create" /\ status = "queued"
    THEN Enter(c, [k EXCEPT !.batch = TRUE], "process")
    ELSE call' = [call EXCEPT ![c] = Finish(k, status)] /\ Forgets(c)

\* What follows a stage that ended with this status.
After(c, k, status) ==
    LET end(s) == call' = [call EXCEPT ![c] = Finish(k, s)] /\ Forgets(c) IN
    CASE k.stage = "create" /\ status = "authentication_required" -> Enter(c, k, "open")
      [] k.stage = "open" /\ status = "verified" -> Enter(c, k, "create again")
      [] k.stage \in {"create", "create again"} /\ status = "queued" ->
            Enter(c, [k EXCEPT !.batch = TRUE], "process")
      [] k.stage = "process" /\ status = "authentication_required" -> Enter(c, k, "open again")
      [] k.stage = "open again" ->
            IF status = "verified" THEN Enter(c, k, "process again")
            ELSE end("authentication_required")
      [] k.stage \in {"process", "process again"} /\ status = "completed" ->
            call' = [call EXCEPT ![c].at = "file"] /\ UNCHANGED since
      [] k.stage = "ready" /\ status = "authentication_required" ->
            Enter(c, k, "open_authentication")
      [] OTHER -> end(status)
\* The handler lets one browser work: nothing is asked for while a sweep runs.
guarded_scrapex_adas_map(c) ==
    /\ call[c].at = "idle"
    /\ wasSigned' = [wasSigned EXCEPT ![c] = signed]
    /\ \E op \in Ops :
          LET k == [Idle EXCEPT !.op = op] IN
          /\ op = "ready" => c \notin Model
          /\ \/ /\ c \in Model /\ op \in {"acquire_exact", "process_one", "start_batch"}
                /\ call' = [call EXCEPT ![c] = Finish(k, "sweep_running")] /\ UNCHANGED since
             \/ Enter(c, k, op)
    /\ UNCHANGED <<disk, checkouts, runtime, session, ciq, effects>>

-----------------------------------------------------------------------------
(* start_native. *)

Step(c) == UNCHANGED <<disk, checkouts, session, ciq, effects, wasSigned>>
Ends(c, status) == After(c, call[c], status)

\* Mutant: whatever answers is used.
AnyRuntime(c) == TRUE

Fresh(c) == call[c].rev \in {None, rev}
Started(c) == call' = [call EXCEPT ![c].at = "started"] /\ UNCHANGED <<runtime, since>>

\* The launcher runs, or it is missing; the processes in dead were stopped before.
Launch(c, dead) ==
    LET left == [p \in DOMAIN proc |-> IF p \in dead THEN "gone" ELSE proc[p]] IN
    /\ UNCHANGED <<rev, own, reports>>
    /\ \/ /\ spawns < MaxSpawns /\ spawns' = spawns + 1
          /\ proc' = [left EXCEPT ![spawns + 1] = "starting"] /\ UNCHANGED since
          /\ call' = [call EXCEPT ![c].at = "poll", ![c].launched = spawns + 1]
       \/ Ends(c, "failed") /\ proc' = left /\ UNCHANGED spawns

\* The health of what has the port; a stale runtime is remembered.
Health(c) ==
    /\ call[c].at = "health" /\ Step(c)
    /\ \/ Launch(c, {})
       \/ Up # {} /\ Ends(c, "unavailable") /\ UNCHANGED runtime
       \/ Up # {} /\ Fresh(c) /\ Started(c)
       \/ \E p \in Up :
             /\ ~Fresh(c)
             /\ call' = [call EXCEPT ![c].at = "stale",
                            ![c].health = IF p = 0 /\ ~reports THEN None ELSE p]
             /\ UNCHANGED <<runtime, since>>

\* The process that answered, or the one that listens now when it gave no pid.
Suspect(c) == IF call[c].health # None THEN {call[c].health} ELSE Up
\* Mutant: whatever has the port is stopped.
AnyProcess(p) == proc[p] = "up"

_verified_scrapex_process(p) == proc[p] = "up" /\ (p = 0 => own)
_stop_stale_scrapex(c) ==
    /\ call[c].at = "stale" /\ Step(c)
    /\ \/ \E p \in Suspect(c) : _verified_scrapex_process(p) /\ Launch(c, {p})
       \/ Ends(c, "configuration_error") /\ UNCHANGED runtime

\* The launched process exited, the runtime is there, or ninety seconds are over.
Poll(c) ==
    /\ call[c].at = "poll" /\ Step(c)
    /\ \/ /\ proc[call[c].launched] # "gone"
          /\ Up # {} /\ Fresh(c) /\ Started(c)
       \/ Ends(c, "failed") /\ UNCHANGED runtime

-----------------------------------------------------------------------------
(* The client's requests, once there is a runtime. *)

\* Mutant: the batch is made, and sign-in is left to the work on it.
LaterSignIn == {"process_one", "start_batch", "ready"}

NeedsSignIn == {"create_exact_batch", "process_one", "start_batch", "ready"}
\* The state of the sign-in, before a batch is made or worked on.
_authentication_status(c) ==
    LET s == action(call[c].stage) IN
    /\ call[c].at = "started" /\ s \in NeedsSignIn /\ Step(c) /\ UNCHANGED runtime
    /\ \/ Up # {} /\ signed /\ s # "ready"
          /\ call' = [call EXCEPT ![c].at = "post"] /\ UNCHANGED since
       \/ Up # {} /\ signed /\ s = "ready" /\ Ends(c, "verified")
       \/ Up # {} /\ ~signed /\ Ends(c, "authentication_required")
       \/ \E status \in {"unavailable", "invalid_response"} : Ends(c, status)

\* acquire_exact has no request of its own.
acquire_exact(c) ==
    /\ call[c].at = "started" /\ call[c].stage = "acquire_exact"
    /\ Enter(c, call[c], "create") /\ Step(c) /\ UNCHANGED runtime

Succeeds(a, done) ==
    CASE a \in BATCH_MINTING_ACTIONS -> "queued"
      [] a = "open_authentication" -> IF signed THEN "verified" ELSE "authentication_required"
      [] a = "process_one" -> IF done THEN "completed" ELSE "needs_operator"
      [] a = "start_batch" -> "running"
      [] a = "pause_batch" -> "paused"
      [] OTHER -> "verified"

\* What work on a batch leaves behind; ScrapeX may say that it is done when it is not.
Worked == file' \in {file, TRUE} /\ shown' \in Shown

\* What the client reports of the answer to its one request: the status that goes with
\* the action, or the failure.
Reports(c, answer, done) ==
    LET a == action(call[c].stage)
    IN  Ends(c, _request(answer, a \in Mutations, Succeeds(a, done)))

Post(c) ==
    LET a == action(call[c].stage)  mutates == a \in Mutations IN
    /\ call[c].at = IF a \in NeedsSignIn THEN "post" ELSE "started"
    /\ a \notin {"acquire_exact", "ready"}
    /\ UNCHANGED <<disk, checkouts, runtime, session, wasSigned>>
    /\ \/ /\ Up = {} /\ Ends(c, _transport_failure(mutates)) /\ UNCHANGED <<effects, ciq>>
       \/ /\ Up # {}
          /\ \E took \in BOOLEAN : \E answer \in Answers(took), done \in BOOLEAN :
                /\ took /\ a \in {"process_one", "start_batch"} => signed
                /\ answer = "409 signed out" => ~signed /\ a \in {"process_one", "start_batch"}
                /\ effects' = IF took /\ mutates THEN [effects EXCEPT ![c][a] = @ + 1] ELSE effects
                /\ IF took /\ a = "process_one" THEN Worked ELSE UNCHANGED ciq
                /\ Reports(c, answer, done)

-----------------------------------------------------------------------------
(* adas_map_with_ciq_attachment: a completed acquisition is believed when the PDF is *)
(* there and Calibration IQ shows it.                                               *)

_verified_local_adas_map(c) ==
    /\ call[c].at = "file" /\ Step(c) /\ UNCHANGED <<runtime, since>>
    /\ call' = [call EXCEPT ![c] = IF file THEN [@ EXCEPT !.at = "ciq"]
                                   ELSE Finish(@, "attachment_failed")]

Attached == shown = "map"

adas_map_with_ciq_attachment(c) ==
    /\ call[c].at = "ciq" /\ Step(c) /\ UNCHANGED <<runtime, since>>
    /\ \/ Attached /\ call' = [call EXCEPT ![c] = Finish(@, "completed")]
       \/ call' = [call EXCEPT ![c] = Finish(@, "attachment_failed")]

Next ==
    \/ Checkout \/ Sign
    \/ \E p \in 1..MaxSpawns : Boot(p)
    \/ \E c \in Callers :
          \/ guarded_scrapex_adas_map(c) \/ Health(c) \/ _stop_stale_scrapex(c) \/ Poll(c)
          \/ _authentication_status(c) \/ acquire_exact(c) \/ Post(c)
          \/ _verified_local_adas_map(c) \/ adas_map_with_ciq_attachment(c)

Spec == Init /\ [][Next]_vars

-----------------------------------------------------------------------------
(* One call makes at most one batch and works on it at most once, however often it
   asks to sign in and whatever answers are lost (scrapex.py:2270-2353). *)
OneBatchPerCall ==
    \A c \in Callers : effects[c]["create_exact_batch"] <= 1 /\ effects[c]["process_one"] <= 1

(* A call that ends with the request to sign in, while nobody was signed in, made no
   exact batch: the same request can be repeated (scrapex.py:2280-2296, 2371-2377). *)
SignInFirst ==
    \A c \in Callers :
       call[c].result = "authentication_required" =>
          /\ ~wasSigned[c] => effects[c]["create_exact_batch"] = 0
          /\ effects[c]["create_exact_batch"] > 0 => call[c].batch

(* A request is served by a runtime of a revision that was checked out since the
   client began with it, when git answered; only ScrapeX's own process is stopped
   (scrapex.py:1923-2087). *)
ServedByCurrent ==
    /\ \A c \in Callers :
          effects'[c] # effects[c] /\ call[c].rev # None => rev \in since[c]
    /\ proc[0] = "up" /\ ~own => proc'[0] = "up"

(* A call is reported as completed when the PDF is there and Calibration IQ shows
   exactly this document, as an ADAS Map, and the research as begun
   (scrapex.py:2672-2846). *)
CompletedIsReal ==
    \A c \in Callers :
       /\ call[c].op = "acquire_exact"
       /\ call'[c].result = "completed" /\ call[c].result # "completed"
       => file /\ Attached

(* What a request did is never reported as a failure that did nothing, except when
   a server error came without JSON (scrapex.py:977-1107). *)
Doubt(excepted) ==
    \A c \in Callers :
       /\ call'[c].result \in Definite \ excepted /\ call[c].result = None
       /\ call[c].op \in Mutations \ {"open_authentication"}
       => \A a \in Mutations \ {"open_authentication"} : effects'[c][a] = 0
DoubtIsTold == Doubt({"invalid_response"})

(* As the comment at scrapex.py:1023-1027 says it of every server error. *)
DoubtAlwaysTold == Doubt({})

(* As scrapex.py:77-82 says it: no batch is made for the model by these actions. *)
MintingRefused ==
    \A c \in Model :
       call[c].op \in BATCH_MINTING_ACTIONS =>
          \A a \in BATCH_MINTING_ACTIONS : effects[c][a] = 0
=============================================================================
