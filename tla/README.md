# X Omni in TLA+

TLA+ models of X Omni, a local assistant: a FastAPI service ("Core") that serves
a web interface over a WebSocket, runs one local model worker on two GPUs, and
lets that model call tools. Some of those tools change a repair-shop system
(Calibration IQ), some work on a library of service information, some have an
acquisition service (ScrapeX) fetch documents, some make pictures and videos, and
some ask the recorder of a camera (Frigate). Paths below are relative to `src/`.

Core is one asyncio event loop in one process, over one SQLite file. Its hard
behaviour is therefore not data races but what happens *at an await*: another
task runs, the awaiting task is cancelled (Stop, a closed socket), the process
dies, a remote call acted and its answer was lost, or what was read before the
await is no longer so. Every model here is cut at exactly those points.

| module | what it models | checked by |
|---|---|---|
| `Approvals`, `ExactlyOnce`, `ApprovalsProofs` | the approval gateway, what it promises, and its theorems | `Approvals.cfg` |
| `ModelRouter`, `ModelRouterProofs` | ownership of the model worker, its process and the GPUs | `Routers.cfg`, `RouterUnshielded.cfg` |
| `InferenceCoordinator`, `ModelLease`, `InferenceCoordinatorProofs` | the lease on the worker down to asyncio's queues, what it promises, and that it does | `Coordinator.cfg` |
| `AdasMapSweep`, `SweepProofs` | the background ADAS Map sweep | `Sweeps.cfg`, `SweepStatus.cfg`, `Jobs.cfg` |
| `Discovery` | which map governs an order, and what the library holds for it | `Sweeps.cfg` |
| `ChatTurn` | one assistant turn | `Turn.cfg`, `TurnSeventhRound.cfg`, `TurnUnreviewedDraft.cfg` |
| `TurnEvidence` | what the results of a turn entitle its later calls to | `Turn.cfg` |
| `TurnReport` | what a turn says of the changes it made | `Turn.cfg` |
| `Prompt` | what is put before the model, within its window | `Turn.cfg` |
| `ScrapeX` | the client of the acquisition service | `Turn.cfg`, `TurnMinting.cfg` |
| `FrigateSession`, `Footage` | the camera: credential and session, and what is told of footage | `Turn.cfg` |
| `ChatSocket` | windows, their tasks, Stop, and uploads | `Core.cfg`, `Jobs.cfg` |
| `Browser` | the timeline of the chat page | `Core.cfg` |
| `ConversationMemory`, `RecordsProofs` | website revisions and the subject of a conversation | `Core.cfg` |
| `Identity`, `RecordsProofs` | owner, users, sign-ins, sessions | `Core.cfg` |
| `Migrations` | opening the database of an older installation | `Core.cfg` |
| `CiqBoard` | reading Calibration IQ over pages | `Core.cfg` |
| `CiqOperator`, `RecordsProofs` | writing to Calibration IQ | `Core.cfg` |
| `WorkPrep`, `RecordsProofs` | the readiness audit of the week | `Core.cfg` |
| `AutomotiveKnowledge`, `RecordsProofs` | what X learns | `Core.cfg` |
| `Library` | the files it learns from | `Core.cfg` |
| `AdasSiResearch`, `BackgroundProofs` | the background research of a repair order | `Jobs.cfg` |
| `MediaJobs`, `BackgroundProofs` | pictures and videos with ComfyUI | `Jobs.cfg` |

The `MC` modules hold the instances. `MCSweeps`, `MCTurns`, `MCJobs` and `MCCore` (made
of `MCShop` and `MCConversation`) hold several: a variable `scenario`, fixed at the
start, says which one runs, and the others stand still. So one run asks one question
of components that answer it together, each on an instance of its own size.
`PROJECT.json` lists components, runs, mutants, the map from definitions to source
lines, hazards, findings and theorems.

Two more proof modules, `JobsProofs` and `CoreProofs`, carry theorems about a component
over to the properties of the composed runs `jobs` and `core`.

Check a module with `tlc -config X.cfg M` in this directory, e.g.
`tlc -config Approvals.cfg MCApprovals`; check the proofs of a module with
`tlapm ApprovalsProofs.tla`, and likewise for each `...Proofs` module.

## 1. Inventory

### How the parts interact

    browser page ──ws──> Chat socket ──task per turn──> Orchestrator loop ──> Tool gateway
       ▲    │              │   ▲                          │  ▲                  │
       │  histories        │   └── events ────────────────┘  │                  ├─ Calibration IQ client, audits
       │  (REST)      approve / deny / Stop            model HTTP attempt       ├─ library, knowledge, subjects
       │    │              │                                 │                  ├─ sweeps, research jobs ──> ScrapeX
       │    ▼              ▼                                 ▼                  ├─ images, videos: ComfyUI
       └─ State store <─ Approval gateway          Inference lease              └─ camera ──> Frigate
                                                             ▲                                 │
                                         Model router ── lifecycle ops <── swap to vision ─────┘

* **Calls and tasks.** A socket owns at most one active task: a turn, or the
  continuation of an approval. Background jobs are tasks of their own that a
  chat turn starts and a restart resumes.
* **Shared state.** The SQLite store (each method one transaction under one
  lock), the router's `active_*` fields, the lease counters, per-service
  dictionaries of tasks, JSON files, the library's folders and two SQLite caches of
  it, a sealed credential that a script writes as well.
* **Messages.** Events to the socket, HTTP to the worker, Calibration IQ, ScrapeX,
  ComfyUI, Google and Frigate.
* **Callbacks.** The event loop's own: futures that wake a Condition or a Lock,
  cancellation delivered at the next await, a done-callback that clears a task.

### Components

For each: its state, its operations, what is hard, and when it is correct.

**Approval gateway** (`core/state/db.py` 1378–1899, `core/tools/registry.py`
4904–5078, callers in `core/api/chat.py` and `core/api/routes.py`). Rows in
`approvals`, `tool_calls` and `execution_receipts`. Ask, deny, claim by
compare-and-swap, run the handler, file the receipt, expire, recover, continue.
Decisions race from two transports; Stop arrives around every await; the process
dies between the claim and the receipt. Correct when a handler is entered at most
once, the three rows agree, and no receipt hides an execution.

**Model worker lifecycle** (`core/models/router.py`). The published worker, the
operating system's process, port and GPU memory. Start, swap, ensure, recover, hand
the GPUs over and restore, shut down. Pids are reused between the proof of identity
and the signal; a `to_thread` job outlives its task; every step of a hand-off can
fail. Correct when nothing foreign is signalled, the worker of a running request is
not terminated, one tenant holds the GPUs, and the lease always comes back.

**Inference and lifecycle lease** (`_InferenceCoordinator`, `_lifecycle_session`).
Three counters, a Condition, a Lock. Cancellation while waiting; wake-ups consumed by
a task that sleeps again. Correct when it is a fair reader/writer lease.

**ADAS Map sweep** (`core/services/adas_map_sweep.py`). One saved record per sweep,
one driver task per active record, batches at ScrapeX. Start, status, driver, resume,
notification. Records read before and saved after an await, lost answers, sign-ins
that never come. Correct when a user has one active sweep, it is driven, repair
orders are sent once per pass, and every sweep ends with a report.

**Service-information research job** (`adas_si_research.py`). The same shape, with an
objective per calibration and an attachment at Calibration IQ. Correct when what is
reported attached is linked to the right calibration, and every job ends and is posted.

**Chat orchestrator** (`core/orchestrator/*`). The rounds of a turn, open calls, the
cache of reads, evidence, what is to be said and what was said; the request to the
model. Seven ways out of the loop; batches of reads and writes in any order; Stop
while an answer is delivered; requests that grow. Correct when what was seen is
stored, a change is reported truly, a write is bound to a read of an earlier round,
and each request fits.

**Tool gateway policy** (`core/tools/registry.py`, `meta.py`). Evidence of a turn: reads
by order, children with versions, ids of batches, quarantine, the approval's binding.
Orders share numbers, answers disagree about versions, approvals come much later.
Correct when no call carries what no earlier round showed.

**Chat socket; attachment store** (`core/api/chat.py`, `core/api/routes.py`). The active
task of a socket, its partial text; rows and files of uploads. A frame is handled while
a task is being cancelled; a Stop cancels a task before its first step; Core dies
between file and row. Correct when the running task is the one Stop reaches, Stop
returns, a file is sent once, and a stored file stays.

**Web interface** (`ui/src`). The timeline of the page, the active conversation, the
request number of a history. Histories come back in any order; the socket drops and
reconnects. Correct when a page with nothing under way shows what is stored, once.

**Conversation memory** (`db.py` 784–884, 1093–1276, `website.py`,
`conversation_subjects.py`, `conversation_working_context.py`). Two compare-and-swap
protocols under concurrent turns and late answers. Correct when a revision continues
the head of its lineage and a subject never takes an older or a foreign reading.

**Identity and sessions** (`core/api/auth.py`, `db.py` 443–725, `google_auth.py`). Owner,
users, pending attempts, sessions, the grant. A callback awaits Google while the
invitation is revoked. Correct when a session belongs to somebody who may come in now.

**State store basics** (`db.py` 91–425). Migrations that commit in parts. Correct when an
interrupted start loses and duplicates nothing.

**Calibration IQ client and work preparation; weekly queue** (`calibration_iq.py`,
`calibration_iq_work_prep.py`). Reads over pages of a board that changes; one operator
call that reads, completes research, posts a batch and rereads; audits that make
Calibration IQ agree with a map. Answers are lost, retries repeat an intent, others
change the case. Correct when what is called complete was so, an intent takes effect
once, and an order is ready on a true and young reading.

**Library and catalog** (`adas_storage.py`, `adas_si.py`, `adas_artifact_catalog.py`). Files
that move, pages and rows made from them, captures of maps. Correct when a cached page
or row is of the file that is there, filing loses nothing, and a calibration is
covered, or missing, only for a reason.

**Automotive knowledge** (`automotive_knowledge.py`, `research_knowledge_promotion.py`).
Records, sources with hashes, evidence, reviews, promotion, supersession. Files change
between review, hash and promotion. Correct when a verified record has verified
evidence of an authoritative text that was current when it was trusted.

**ScrapeX client** (`scrapex.py`). The runtime's process and revision, sign-in, batches,
attachment. The revision changes between check and use, mutations lose their answers.
Correct when a call makes one batch at most, after the sign-in, on the current
revision, and doubt is told as doubt.

**Image and video generation** (`image_generation.py`, `video_generation.py`). A ComfyUI
process inside the hand-off of the GPUs. Correct when model and ComfyUI never share
them, the model comes back, and a result is what happened.

**Camera and Frigate** (`frigate_client.py`, `frigate_surveillance.py`,
`camera_security.py`, `windows_secrets.py`, `scripts/configure_frigate.py`). A sealed
credential, a session token, ranges of footage. Correct when a typo destroys nothing, a
session belongs to what is stored, and nothing is concluded from what was not held.

**Not modelled**: the navigator and everything else that only drives ALLDATA (retired:
`alldata_sunset.py` refuses each entry point), and with it research task continuity and
the running half of the weekly queue; reviewers that ask a model about a text; the
routes and wiring that only read the store; push messages; calendar, weather,
transcript, placement, system tools; configuration; deployment scripts. Section 6 says
what is left out inside the modelled parts.

The 40 hazards of `PROJECT.json` name, line by line, what in this code is hard to
test; each lists the properties that would catch it or says why none does.

## 2. The models and the code

Names of actions are the names of the functions they model where TLA+ allows it; `map`
in `PROJECT.json` has the lines of each definition. What a model, a reviewer or another
service decides is a nondeterministic choice over what it may decide.

### Approvals

| model | code |
|---|---|
| `subject, status, call, receipt` | `approvals.idempotency_key`, `approvals.status`, `tool_calls.status`, the receipt row |
| `Request` | `create_approval` and its caller in the loop: reuse by identity, or a new row |
| `Age`, `Consult` | ten minutes pass; the expiry sweep that the other methods run first |
| `Deny`, `Claim` | `resolve_approval`'s denial and compare-and-swap, with the bound context |
| `Block`, `Proceed`, `NotExecutable`, `Enter`, `HandlerReturns`, `HandlerRaises` | `Registry.resolve_approval`, cut at every commit and await |
| `CancelBeforeStart`, `CancelRunning`, `CancelSettled` | Stop at each await of the above |
| `Continue` | the continuation turn of the socket |
| `Crash`, `Restart` | `recover_interrupted_approvals`, with a policy that may differ |

`runs` and `turns` are observers, not state of the code; they saturate at 2.
Payload, digest and wording are one model value per bound identity. An action of
`SelfReporting` (calibration_iq_*) reports itself whether it executed, as the
code lets it.

### ModelRouter

`proc, clock, listener, draining` are the machine: processes are born, exit, take
and leave the port, and release GPU memory late; a pid is reused with a new start
time. `pc, kind, name, mine, attempt` are the operations, from `_lifecycle_session`
to its end; the labels of `pc` are the awaits of the code (stop, kill, drain, port,
spawn, adopt, health, cleanup, body). `detached` holds `to_thread` jobs whose task
was cancelled; only `external_workload_session` shields its jobs
(`_await_lifecycle_completion`, router.py:362), so `Cancellable` distinguishes the
instances. Command line, alias, context size and GPU attachment are one
nondeterministic proof. Acquisition of the lease is a guard here and is checked
separately in `InferenceCoordinator`. `Init` covers every machine the core may
find: empty, a worker of its predecessor, or a foreign process, listening or not.

### InferenceCoordinator and ModelLease

A step is one task running from one suspension to the next; `ready` is the event
loop's FIFO, `sleepers` and `queue` are `Condition._waiters` and `Lock._waiters`.
asyncio itself is modelled from its contract as this code uses it and is marked
external in the map. The Condition's own lock is never contended (nothing is
awaited while it is held except `wait_for`, which gives it up) and does not
appear. `PassesOn` chooses the asyncio: from Python 3.13 a cancelled waiter
passes its notification on, before that it does not. The run takes 3.13; the theorem
of section 4 takes either.

`ModelLease` is the promise: requests share, an operation is alone, operations
come in order, and once the first has asked no request is let in.
`ImplementsLease` is checked as a refinement with `INSTANCE ModelLease WITH ...`.

### AdasMapSweep

Every action ends at an await: the remote answer and the reaction to it are one
action, so a crash, a Stop or another task fits before any answer. `rec` is the
saved record, `drv[s].rec` the local one the driver holds across its await,
`batches` what ScrapeX has. Three constants open behaviours separately:
`LostAnswers` (ScrapeX acts and the caller sees a failure), `StopsInLaunch` (a turn
is cancelled while `start()` launches) and `StatusInLaunch` (`status()` is asked
meanwhile). A crash also stands for a graceful shutdown, which leaves the same
saved state. All ends of a repair order that are not tried again are one value,
`settled`. The truncation to a maximum of targets, progress timestamps and all
wording are left out, and so are the counters of a chunk that was given up, which are
never read again; a failing `add_message` is a nondeterministic choice.

### Discovery

`lib` are the documents in the folders, `index` the catalog's rows, `scrapes` the
captures of maps, `needs` what ADAS Map requires of each order. `Ask` starts an audit of
an order: `_discover_adas_map` scans (`reconcile_index`), selects the captures and reports
that may govern (`_canonical_candidates`), and `_catalog_coverage` reads the rows again
(`_artifacts`) and matches each calibration (`Cover`). `artifact_kind_summary` is the
count of a kind, `search` one in the folder of a vehicle. A document is what can be read off it: order,
VIN, inspection, vehicle, trim, and what it documents; the id of Calibration IQ and
the configuration are compared as number and trim are, and are left out. Scans are
atomic here (`Library` has their steps), at most one file fails in one, and copies
without a duplicate mark count as one. Ranking scores are an exact match of the vehicle.

### ChatTurn

One turn of `_run`/`_execute`, cut at the model's streams and reviews, the tool
handlers and the delivery of an event. Tools are classes of calls: an exact read, a
search, a routine write, research, a destructive write, a stage action, a website,
and a malformed call. A text is only what it is: a `draft` of the model, a text of
the `truth` review, the text about `started` background work, or a `fixed`
sentence of Core. The web guard and the evidence review appear as a draft that
may become a fixed text. Others may change the repair order at any await. A
failing store is not modelled. `own`, `shown` and `writes` are observers.

### TurnEvidence

What `ChatTurn` says of one order and one kind of proof, with its data: several
orders that share a number, their children with kinds and versions, answers that show a
child in two versions (`Disputed`), the proof a read leaves for later rounds (`next_ciq`
against `call_ciq`), stage actions with the approval that binds again (`Approve`), and
the ids of ScrapeX's batches with their quarantine (`List`, `acquire_exact`, `Control`).
A call is one step; between two calls others change the orders. Calibration IQ
refuses a version that is not current.

### TurnReport

`Operate`, `OneOrder`, `Week` and `Start` are the four ways a turn changes Calibration IQ,
each with everything that may become of it: verified, refused, lost, half done,
reopened and not edited, answered by something that is no JSON. `fact` is what really
happened. `compact` results (`_compact_reconciliation_result`), the gateway's verdict
(`_approved_result_error`), the state of the turn's evidence, the two reviews of the
wording and the fail-closed line are operators and actions in the order of the code.

### Prompt

A text is its length in characters. `Build` is `build_messages` (the budget, the
sections, the cards, newest-first packing), `Send` is `_guard_prompt_budget` before a
request, `Answer` a round's results cut by `_bounded_tool_result_json`, `Review` the
self-check's request. Estimates keep the code's 3.5 and 2.9 characters per token and
its integer arithmetic; `escapes` is what encoding a preview again adds.

### ScrapeX

`proc` are processes with the revision they loaded, `disk` the checked out one; `ours` is
the process the client believes its own. A call goes through `guarded_scrapex_adas_map`
(main.py), `ensure_ready` (`Health`, `_stop_stale_scrapex`, `Poll`), the sign-in, and
`Post`, whose answer may be lost, malformed, or an error that acted. `acquire_exact` polls
to a definite state and `adas_map_with_ciq_attachment` reads Calibration IQ afterwards. The
calls work on one repair order; code is loaded when the port is taken.

### FrigateSession and Footage

`secret` is the sealed file, `token` each process's session with the era of Frigate it
belongs to, `logging` and `updating` the two locks. A call authorises, logs in at most
`MAX_LOGIN_ATTEMPTS_PER_CALL` times, is answered or refused; a registration saves first,
tries the camera, and restores; `Forget`, `Lapse`, `Expire`, `Die` and `Cancel` fit at
every await. Frigate is external: it accepts `Valid` credentials and honours the sessions
of its era. In `Footage`, time is cells; `Resolve` and `EventWindow` choose the range,
`Clip`, `Extract`, `Vision`, `Caption` answer a question, `Playback` a link, `Still` a
picture, `History` the list of detections; `Retention` gives up old cells meanwhile.

### ChatSocket

`at[s]` is what the receive loop awaits, `held` the frame it has in hand, `active` its
reference to a task, `task` the tasks, of which several may be alive while one clears
itself by a callback. `Frame` takes a message, a Stop, a decision or a swap; `Loop`
continues after an await; `Step` is a task's own code (delivery, storing, the callback);
`Turn` the part of it that is `ChatTurn` or `Approvals`. `upload` are rows with their steps
(file written, row inserted), `blobs` the files, `messages` what was bound.

### Browser

`items` is the timeline, `wire` and `uplink` the two directions of the socket, `fetches`
the histories asked for and not yet answered, `stored` what Core keeps, `active` the open
conversation, `request` the counter that makes an old answer stale. `sendMessage`,
`stopResponse`, `newConversation`, `openConversation`, `connect`, `onclose`, `handleEvent`,
`loadMessages` (with `mergeTimelines`), `restoreLatest` and `createConversation` are the
page's; `receive_message`, `receive_stop`, `Say`, `Finish`, `Raise`, `EndOrphan`, `publish`
and `Answer` are the little of Core it meets. Cards are left out.

### ConversationMemory

`Website` reads the head, awaits the model, and appends by compare-and-swap; a page
stands for its digest. `Subject` reads an order, awaits, and merges what came into the
subject: as another order, as an enrichment, or refused because it is older; the
optimistic version is kept although one step of the loop reads, merges and writes.

### Identity

`attempt` is a pending sign-in from its state token to its session: `Callback` takes it and
asks Google, `SignIn` is what follows the last answer, one step of the loop; `LoginLocal`,
`LoginRemote`, `invite_test_user`, `set_test_user_status`, `delete_session`,
`_prune_pending_states`, `Restart`, and the grant (`refresh_access_token`,
`valid_access_token`). Two accounts share an address over time.

### Migrations

`stage` is the statement a start is at; `tx` the open transaction, `db` what was
committed. Each method of `Store.__init__` is one action or, where statements commit
alone or tables are renamed and copied, several; `Die` throws `tx` away and the next start
begins with the first method. Older installations are: none, the prototype, and the
sole-owner one with hashed cookies and bound approvals. Two of the eight new columns of
`tool_calls` stand for all; captures have readable times.

### CiqBoard, CiqOperator and WorkPrep

`CiqBoard`: `board` changes by `Arrives` and `Leaves` while `_collect` reads pages;
`query_repair_orders` and `_eliminating_filters` explain a zero,
`_resolve_operator_repair_order` finds the one order of a number, `get_repair_order` the
one a question is about. `moments` remembers what the board was since the read began.
A page may come with a total or without (`counted`): the largest total that was seen has
to be reached, and until one is seen an empty page ends the read (`Complete`). Rows are
told apart by `_record_identity`, the business number first, so of two rows with one number
the first is kept. Assumed of the service: it returns an empty page without a total only at
its end.

`CiqOperator`: a call (`Begin`) reads a snapshot, turns research into actions (`Research`,
with what the library was found to have as a choice), or takes a VIN from the attached map
(`_repair_from_attached_adas_map`), sends one batch (`Post`), gets receipts or none, and
rereads. `Serve` is Calibration IQ performing a batch, also after Core gave up on it;
per-action commit, one version per action, keyed replay and the reported count are taken
from the comments and tests of this repository.

`WorkPrep`: an audit takes order after order through discovery, reconciliation of the
requirements (reopen, edit, reread), missing-information records, acquisition, readiness,
and saves its queue; one action per await. Other people and another audit work on the
same orders; Calibration IQ's batch may stop halfway or its answer be lost.

### AutomotiveKnowledge and Library

`AutomotiveKnowledge`: a source is a file and the hash taken of it; `Replace` changes the
file. `Recall`, `Library`, `Accepted`, `Captured`, `Promoted` are a research task that
learns; `Capture`, `Store`, `Offer`, `add_evidence`, `review_evidence`, `Conflict`, `promote`
and `supersede` the operations on records, each on the version its caller read.

`Library`: `file`, `sidecar`, `pages`, `catalog`. `Drop` and `delete_file` are other people;
`refresh_library`, `_migrate_library`, `_classify_root_document`, `MoveSidecar`, `Filed` are
one filing; `Extract` and `Cache` one reading of pages; `reconcile_index`, `Stat`, `Digest`,
`_index_one`, `Scanned` one scan. Bytes, text and hash of a document are the document; a
write gives a file a new time, a move keeps it; times are distinct.

### AdasSiResearch and MediaJobs

`AdasSiResearch`: `job` is the saved record, `at` the driver and its locals, `ciq` the case
with its links. `start`, `already_running`, `_resolve_targets`, `Drive` (search, review,
import, update, link, confirm), `Boot` and `resume`, `Fails` (the store), `Stop` of Core;
`LateArrives` is a write that reaches Calibration IQ after Core gave up on it. `WithoutId`
are objectives without a calibration id, systems that were named: their document is
imported without a link and counts as attached when it is on the order (`IsAttached`).
`Unreadable` are documents whose sidecar may be missing or broken at a search: they give no
`captured_calibration_id`, and only a mismatch that is proved refuses the reuse. When the
save of `notified` fails after the message, a driver that came to its own end finalizes
again and posts a second one (`_post_result`); another only dies.

`MediaJobs`: `pc` of each request through preflight, lock, `external_workload_session`,
staging, spawn, listening, work, collection, release, and restore; `marker` is the file by
which the next start finds an orphan; a step may end well, fail, or be cancelled, and a
cleanup completes before the cancellation is passed on. `Crash` leaves processes alive;
`start_default` waits for the reconciliation of what is left, and starts no model when
that fails.

## 3. What is checked

| run | scenarios | asks |
|---|---|---|
| `approvals` | two approvals, actions and contexts, one WebSocket and one REST decision, one crash | the three tables agree; actions run once; claims are owned and settle; receipts are final; refinement of `ExactlyOnce` |
| `router` | `shielded`: start, recovery, hand-off and shutdown, two at a time, beside a request, cancellation where the code shields; `any`: one swap, recovery or hand-off at a time, cancellable at each await | exclusion, one tenant, the worker of a request lives, nothing foreign is signalled, starts on free GPUs, the lease comes back |
| `coordinator` | two requests and two operations, each coming twice | refinement of `ModelLease`, no lost wake-up, nobody starves |
| `sweep` | `one`: two repair orders in two batches and their retry pass, one crash, lost answers; `two`: two callers, two sweeps, the time limit; `papers`, `captures`, `moving`, `counts` of `Discovery` | batches in turn, nothing sent twice, results posted once of work that was done, one active sweep and driven; what governs, covers or is missing does so for a reason; what ended stays ended |
| `turn` | `turn`; `numbers`, `deletes`, `children`, `batches` of `TurnEvidence`; `acquire`, `calls`, `swept`, `race` of `ScrapeX`; `report`, `week` of `TurnReport`; `opening`, `fitting` of `Prompt`; `camera`, `script`; `footage` | what was seen is stored and changes are told truly; reads admit what they showed; acquisitions are one, signed in, real; requests fit; sessions follow the credential, footage is told as far as it was held |
| `core` | `board`; `research`, `again`, `vin`, `notes` of `CiqOperator`; `week`, `repeated`, `together`, `orders` of `WorkPrep`; `learn`, `edit`, `supersede`; `shelf`, `reuse`, `search` of `Library`; `window`, `windows`; `previews`, `subjects`; `people`; `start`; `staying`, `opening` of `Browser` | one conjunct for each module, as `MCCore` names them |
| `jobs` | `research`, `starts`; `media`; `sweep`; `window` | attached is linked, or without an id on the order; model and ComfyUI never share, results are posted and final; jobs and sweeps end, the GPUs come back, Stop returns |
| `router_unshielded`, `sweep_status`, `turn_seventh_round`, `turn_unreviewed_draft`, `turn_minting` | | the findings of section 5 |

A property of a composed run is a conjunction of implications "in this scenario, that
property of that module", and its comment lists them with the lines they are about.
Those worth arguing about:

* **`SweepTruth`**: a batch is launched only when the one before it has left ScrapeX's
  worker, across a crash between the launch and the saved record (`OneAtATime`,
  `OneBatchPerChunk`); a result is posted once more per crash at most (`PostsBounded`).
* **`CoverageTruth`**: a calibration is called covered by a document that is for this
  order, and missing only when there was none (`CoveredIsReal`, `MissingIsReal`); a capture
  with the page of another order never governs (`GovernsItself`).
* **`TurnSpeaksTruth`**: what the user saw is in the stored transcript, each call has an
  answer, a change is told by one reviewed text; and the line Core says when no wording
  survives is true of what happened (`ReportTruth`).
* **`TurnEntitles`**: a write carries an order and version, or a child with its version
  and kind, as *one* read of an earlier round returned them, with no other attempt since;
  an approval binds again to the state it was asked for.
* **`AcquisitionTruth`**: one batch per call whatever is lost, none before the sign-in,
  served by the revision that is checked out, "completed" only when Calibration IQ shows it.
* **`PromptFits`**: the first request leaves room for every catalog the turn may unlock, and
  each later one fits or has nothing left to cut; what was left out is told.
* **`OperatorTruth`**: an intent of a user's message takes effect once, through lost answers
  and retries, and research is completed on the case that was read.
* **`AuditTruth`**: an order is called ready only on a reading younger than the audit's own
  last change that agrees with the governing map, also when two audits overlap.
* **`TrustIsEarned`**: knowledge is trusted on a hash that is current, changed on the version
  that was read, and a missing-information record changes only on a proved reading.
* **`LibraryTruth`**: pages and rows describe the file that is there, whoever replaced it.
* **`SocketTruth`**: a running task is the one Stop and the end of its socket reach; a page
  with nothing under way shows what is stored, each entry once.
* **`SubjectAdvances`**: no late answer and no concurrent edit takes the subject back.
* **`MemoryTruth`**: an older database, opened over any two deaths, keeps all it had.
* **`MediaTruth`, `GpusReturned`**: the model and a ComfyUI of Core never live together, also
  after a crash between two steps, and a request that has the GPUs gives them back.

Each property of a passing run has mutants: a definition of the model changed the
way a plausible bug would change the code, under which TLC finds that property
violated. The mutants stand beside the definitions they change.

### Why the bounds are enough

* **Approvals.** Interference is between decisions of one row and between a row
  and the sweeps over all rows; two of each show both. The expiry sweep and the
  recovery treat each row alike. The safety part is proved for every size.
* **Router.** Two pids and three births give reuse of a pid between a proof and a
  signal; a detached job is a thread left by a cancellation. Two operations and one
  client show every pair of lease holders.
* **Coordinator.** Two requests and two operations that come twice: the shortest
  lost wake-up needs one request, one operation and a cancellation. Symmetry is
  not used where liveness is checked.
* **Sweep.** Two chunks are needed for "one after another", one repair order each
  (`ChunkLimit = 1`) keeps them apart. Scenario `two` has no crash: the lock that
  serialises `start()` dies with its holders, and `one` has the crash. The time limit
  is in `two` and in `jobs`. Both scenarios are the one instance, kept to one sweep by `Single` and
  to short sweeps by `Pair`, so that what is proved of the module holds in both. Discovery: three captures are what it takes for two that agree
  and one that does not; one move lies between the two readings of the catalog.
* **Turn.** Two rounds of two calls instead of six of eight: a read in one round
  and writes in the next, a batch that mixes both, the deferral of a call, and
  the last round; four rounds for batches, whose quarantine takes three.
  `MaxVersion` lets somebody else and the turn itself change an order. ScrapeX: one checkout
  and one spawned process (two in `race`), at most two sign-ins, since the code asks
  twice. Reports: two calls of the four kinds, batches of at most two actions, since a batch is
  told by "all", "some" or "none". Prompt: seven windows across the boundaries of sections,
  cards and messages; three results; caps scaled down with the order of the code's.
  Camera: two readers and a registration, or Core and the script; four cells of footage.
* **Core.** Three rows over pages of two, with two changes, so that one may come and one go
  during a read. Two calls of one message are a retry; one change by others. Two audits
  overlap or follow. Three claims make a chain of supersession. Three documents under two
  names, one scan or two, two filings, or one beside a search. Two windows, two uploads, one message or two. Three
  turns on previews, so that a lineage has a middle. Two sign-ins at once and three accounts,
  two of them with one address. Two rows in each old table, two deaths. The page: two
  messages, or one with a fault and a Stop, a news item or a drop; or one message and one
  opened conversation, or two opened and a news item.
* **Jobs.** A research job of two objectives and two documents with two stops: a named system
  without an id, after a calibration; both documents were captured for a third, and the
  sidecar of one may be unreadable. Two starts of one user; a picture and a video, each under
  the lock of its kind, that meet at the GPUs, with a crash; a sweep of one order.
* `CHECK_DEADLOCK FALSE` where the system may stop: a turn, a job and a scenario of the shop
  end, a socket may stay silent, and the bounded number of processes does end.

### Fairness, and why the code justifies it

* `Approvals`: weak fairness of each task's next step (the event loop resumes what
  is runnable and every handler has timeouts of its own) and of `Restart`.
* `ModelRouter`: in `shielded`, weak fairness of each operation's run: every
  `to_thread` job has a timeout and the callers of `external_workload_session` bound
  their bodies.
* `InferenceCoordinator`: the loop runs what is ready; a request ends by its 600 s
  read timeout; an operation ends by `LeaseReturns` of `ModelRouter`.
* `MCJobs`, sweep: drivers, callers and resume run, remote calls time out, the service is
  restarted and time passes (`DriverStep`, `Resume`, `TimeLimit`, `CallerStep`, `Restart`,
  `ResumePosted`, `Serve`). Nothing is asked of ScrapeX's worker and of the people who
  sign in or do not.
* `MCJobs`, research: Core is started again (`Boot`), resumes its jobs and drives them; its
  calls have timeouts. Nothing is asked of Calibration IQ.
* `MCJobs`, media: `Works(r)` of a request, each of whose steps has a timeout in the code
  (staging, the listening port, the provider's deadline, the release). Nothing is asked of
  ComfyUI: a step may fail.
* `MCJobs`, window: `Loop` and `Step`, the loop's own code. A turn may take for ever and
  a client may stay silent: `Turn` and `Frame` have none. That is what `StopReturns` needs.
* Everything else claims no liveness and has none.

## 4. What is proved

Each proof module proves for every value of the constants what the runs show on an
instance. The assumptions are the named ones of the modules (typing of the constants,
null values that are nothing else), which TLC evaluates on every run, and the
hypotheses of the theorems below, each with its reason. The constants of the composed
runs are instances, so `JobsProofs`, `CoreProofs` and the last theorems of the others
carry a theorem to the property that a run checks.

### ApprovalsProofs

For every number of approvals, actions, contexts, tasks and crashes and every
`ContextOf`, under `ApprovalsAssumption`:

* `Spec` keeps `TypeOK`, and with it `LedgerTruth` (the ledger agrees, one approval per
  action), `ExecutionTruth` (`AtMostOnce`, `UndecidedNeverRan`, `NoHiddenExecution`,
  `SuccessIsReal`) and `ClaimTruth` (`ClaimOwned`, `OneContinuation`);
* receipts are final (`ReceiptsFinal`, an action property);
* the gateway implements `ExactlyOnce` (`ImplementsExactlyOnce`).

None of these is inductive alone. That a handler is entered at most once needs that a
task about to enter it has not (`RunsMatch`), which needs that no two tasks hold one row
(`OneHolder`, which reaches from the claim to the continuation and is wider than
`ClaimOwned`), that one action has one row (`OneApprovalPerAction`, whose own step needs
`RowsBound`: a row exists exactly when it has an action), and that a stopped service
handles nothing (`NoTaskWhenDown`, without which `Restart` would close a row under a live
task). `TurnsMatch` does for the continuation what `RunsMatch` does for the handler.
`IInv` is their conjunction.

`CloseLedger`, `TruthfulReceipts` and `CompleteOne` say once what a closing transaction
does to the three tables. One lemma per action (`RequestStep` … `RestartStep`) shows that
it keeps `IInv`, with one step per conjunct it disturbs; `NextIInv` collects them. For the
refinement, `NextMoves` says what a step may do to one row and to one counter,
`PhaseHere`/`PhaseNext` read the abstract phase of an action off its row, and
`Refinement` concludes that each step is a `Move`.

### ModelRouterProofs

With nothing but `ModelRouterAssumption`, so also for an operation that is cancelled at any
await and whose thread goes on: `Types`; `ForeignIsSafe` (`NeverForeign`: no process that
is not the core's own worker is signalled); `LeaseExcludes` (`Exclusive`).

`ForeignIsSafe` rests on `IdentityInv`. Processes are dated no later than now
(`ProcessesDated`), so one that takes a pid again is younger than every record of it; and
every record anybody still holds, an operation, a detached job or the published worker
(`Known`), is of a process that was a worker when it was born. A proof of identity compares
pid and start time, so what it proves stays true until the signal: the process is that
worker, or it is gone and the signal meets another start time.

`TenancyProved` (`Tenancy`, `LeaseProtects`) and `WorkersStartFree` (`StartsOnFreeGpu`)
assume `Shielding`: only an external session may be cancelled, and nothing is swapped.
That is how router.py shields (362), and it cannot be left out: the unshielded rest is
finding 1, and a swap without an active worker starts one without the proof of free GPUs
(section 5). The invariant has `ControlInv` (`Exclusive`; `Quiet`, that no job runs on
without its task; `BootOnly` and `BootAlone`, that the start of the service is one operation
and alone) and `GpuInv`: `OneTenant`, `LeaseProtects`, `Published` (between a stop that
worked and a start that did, nothing is published, which is why no second worker is spawned
beside the first) and `SpawnsFree` (a spawn is entered after the wait for free cards, and
nothing takes them in between because the operation is alone).
`TenancyOfRun`, `LeaseOfRun` and `FreeGpuOfRun` are the properties of the run `router`.

### InferenceCoordinatorProofs

For every number of requests, operations and rounds (of clients, finitely many):
`CoordinatorTypes`; `OperationsAlone`; `NoLostWakeup` (`SomeoneWillWake`); and
`Implements`: the coordinator implements `ModelLease`. None of them assumes a Python:
`SomeoneWillWake` says of every one that an operation sleeps only beside a request, whose
end notifies it, and under `PassesOn`, from 3.13 on, that nobody sleeps unless somebody is
inside whose end notifies; before 3.13 a sleeping request may be forgotten (section 5).

The invariant says how the lists and the tasks' places determine each other: who is in
the lock's queue (`Queued`), that requests never are (`RequestsElsewhere`), who owns the lock
(`Owned`), that the one called by a release finds it free (`Called`), that the counters count
(`Counted`), that readers and the writer exclude each other (`Excludes`, `AskedBeside`),
and that a sleeper whose condition holds has somebody ready who will wake it
(`Wakeful`). The lemmas before it (`ListAppend`, `ListTail`, `ListConcat`, …) say what the
three operations on a list without repetitions do to its members and to their order.

For the refinement the operations that came are ordered by their place in the lock's
queue or, before it, in the loop's (`Before`). Joining the queue keeps that order, since who
runs is at the head of the loop's list (`QueueUpStutters`); every other action is a step
of `ModelLease` or changes none of its variables, one lemma each.

### SweepProofs

For every set of repair orders and callers and any number of sweeps and crashes:
every part of the run's `SweepTruth` and `Final`, all under `~StatusInLaunch`, since a status
question while `start()` launches is finding 2, and those about drivers and batches also
under `~StopsInLaunch` (section 5).

`OneActive` is not inductive: `start()` looks for an active sweep, awaits, and creates one.
The invariant `IInv` has what makes that safe: the caller that holds the lock is the one
under way, and that it found no active sweep stays so (`Caller`), because nothing else makes
one; a driver works on a copy of an active record, or notifies of a completed one (`Driver`),
so saving its copy revives nothing that ended; a restart resumes active records only
(`Resumes`); and what was posted is counted against the crashes (`Posted`), since only a
crash between the message and the saved flag makes a second one. `Outcome` says once what
a step of a driver may do to its record; a lemma per call shows that it does.

What is said of chunks and batches (`TypeOKProved`, `OneBatchPerChunkProved`,
`OneAtATimeProved`, `WorkedBeforeDoneProved`) needs a second invariant, `DInv`, which relates
three things that no step changes together: the record, the copy of it that a driver or
`start()` holds across its call, and the batches of ScrapeX. A `Record` is worked from the
left (`InOrder`); every repair order is once in a pass, the second pass has those that need
the operator, and attempts are counted by the chunks that were launched (`InPasses`); a chunk
has the batch that was created for it, and is done when that one is processed and the items
say what it said last, or when it was given up (`Backed`). A copy stays as far as its record
(`Level`) until it is saved. A chunk has one batch and one more for each crash, and one less
while it may still be launched (`Counted`). Batches only grow (`Grows`), so what a record rests
on stays true while ScrapeX works on. `Moves` and `Becomes` say what a step may make of a
record; a lemma for each thing the driver does with its chunk (a batch created or refused,
started or not, read, stopped, given up, a retry pass added) shows that it is one of them.

`FailedNeverStartedProved` also has `~LostAnswers`: a failed `start()` may have started a
batch whose answer was lost (section 5). `Unstarted` is its invariant. `SweepTruthOfRun` and
`FinalOfRun` are the properties of the run; there the scenario `two`, in which a call that
reports a failure lost no answer (`Pair`), takes the place of `~LostAnswers`.

### BackgroundProofs and JobsProofs

`MediaIsTrue` (`OneTenant`, `MediaTruth`) for every set of requests and any number of
crashes, under `Distinct` (a request is not a null value). The invariant: nothing runs while
Core is down (`Quiet`); who has the session, and so the GPUs, is the request at a stage that
needs it, and behind the stop of the model the model is gone (`Held`), which is why a new
ComfyUI meets no model; where the files of a request are at each stage, and that a request
which reached its end without an error left no process and nothing staged (`Filed`), which
is what its result will say; and a result is the last thing of a request and says what
happened (`Answered`).

`ResearchIsTrue` (`AttachedIsLinked`, `OwnProcedure`, `OneRunning`) and `PostsAreFinal`
(`PostedIsFinal`), for every set of jobs, calibrations and documents, every answer of
Calibration IQ and any number of stops, failures of the store and changes by others,
under `Parted` (the null value is no job, document or record). That what is called
attached is linked does not follow from itself, because a driver decides it from what it
holds. An objective without a calibration id asks only for the document to be on the
order, and a document with an `Unreadable` sidecar may be linked wrongly; the two
theorems say so, and section 5 has what the code's comments say instead. The invariant
(`RInv`) follows the document: what a driver holds was captured for the calibration it
works on, or for none, or is `Unreadable`, or the objective has no id; a request on its
way, also one Core gave up on, links such a document and changes no other (`Right`), and
`attached` is set by a read that showed the link (`Drives`). `Grows` says what every
change at Calibration IQ keeps: documents are added and links too, and the first
document of a title stays the first, so a link that was read is never lost again
(`LinksStay`). A job of an older build, which may call anything attached, is at its
start-over before anything else is done with it (`OnRecord`; the property speaks of the
present contract). One research runs because the start that holds the lock found none
and nothing else begins one (`OnlyOne`). Both halves are one module, with the research
as the instance `Si`.

`MediaOfRun` and `ResearchOfRun` are the properties `MediaTruth` and `ResearchTruth` of the
run `jobs`, whose scenarios are instances of the two.

### RecordsProofs and CoreProofs

`IdentityIsOne`, under `Distinct`: for every set of accounts and attempts a session belongs to
an active user and to the account that user is linked to, the grant is the owner's and can
be renewed, and owner and links are one for ever. The parts of the invariant are the
property's own, with `Typed` and `OwnersRow` (an owner that was claimed has a row), which the
sign-in that claims the installation needs: it decides on what the store holds when Google
has answered, and not on what the attempt saw when it began.

`MemoryIsOwn` (`Lineage`, `OwnEvidence`) and `SubjectNeverGoesBack` (`SubjectAdvances`), under
`Recorded` (the null value is no preview, result, subject or order), for any number of turns,
pages, orders and versions. `LineageGrows` shows what appending by compare-and-swap does to
the heads of all sites; `Merges`, `Enriches` and `MergesSubject` what each way of merging a
late result does to the order, the version and the sections of a subject.

The audits of the week: `ReadyOnFreshReading` (`ReadyIsTrue`, `EditsOpenResearch`),
`QueueFollowsAudit` and `RecordsStayProven` without hypotheses beyond the module's, for any
audits, orders and calibrations and whatever other people, a second audit or Calibration IQ
do in between. The invariant `WeekInv`: audits of one conversation take turns (`Alternate`);
an audit takes each order once, what it changed and did not read again it did not verify, and
it edits an order whose research it read as open (`Sound`); the queue is the one its last saved
audit wrote, or it was pushed out (`QueueKept`). A lemma per step of an audit (`Loads`, `Asks`
and those after them) shows what that step leaves.

`OneItemEach` (audits that are stopped and repeated, or lose answers, add a calibration once)
also needs `Distinctly`, that the map of an order names a calibration once:
`extract_adas_map` drops what has the same `_calibration_key`
(calibration_iq_work_prep.py:229-262). Its invariant, `OnlyOnce`, says of the audits of one
conversation, with nobody else at work, that each calibration has one item and that an audit
which edits knows the items as they are (`Current`).

Knowledge: `VerifiedStaysGrounded` (`VerifiedIsGrounded`) and `TrustStaysEarned`
(`TrustIsFresh`, `OnWhatWasRead`), under `Claimed`, which types the constants (research claims
records and reads files; drafts are evidence), for any files, claims and operators, with
files that change at any moment. `KnowledgeInv`: every piece of evidence has its source
(`Sourced`); a superseded record was replaced by one that was verified, and no set of records
is replaced from within itself, so chains of supersession end (`Chained`); a verified record is
grounded (`Held`); and an operator who read a record at its present version knows what is in
it (`Called`), which is what makes the check of the version enough. `ToldStaysCurrent` (what
research is told from memory is the text as it is) also needs `ResearchAlone`: nobody works
on records, no file is replaced while research reads it (section 5 has what happens
otherwise), and a claim is researched in one file.

Calls about a repair order: `OperatorKeeps` (`IntentOnce`, `OnWhatWasRead`, `SuccessIsReal`),
under `Searched`, which types what a search finds, says that the documents are finitely many
and that the null value is no VIN; for any calls, kinds of calls, documents, findings and
calibrations, with batches that are lost, late or repeated and other people at work.
`IntentOnce` rests on the keys: `Keyed` says that as many keys were used as actions took
effect and that each is the key of an action some attempt planned, and `OIntent` counts: were
an action to take effect more often than every attempt asked for it, its keys would have
fewer ordinals than there are keys. `OnWhatWasRead` rests on versions: every change of the
case or of its documents raises the version of the case (`Onward`), so a version that equals
the one the completion expects leaves no room for anyone else (`Followed`), and what the
batch planned for each document (`Thorough`) is what the documents have become (`After`,
`EvidenceThen`). A batch that was answered from an earlier attempt is excepted, as in the
property. `SuccessIsReal` is that all receipts of a batch are of actions that took effect
(`BatchKept`, `CallKept`).

`IdentityOfRun`, `SubjectOfRun`, `AuditOfRun`, `KnowledgeOfRun`, `OperatorOfRun` and
`TrustOfRun` are the properties `IdentityTruth`, `SubjectAdvances`, `AuditTruth`,
`KnowledgeTruth`, `OperatorTruth` and `TrustIsEarned` of the run `core`. Its scenarios are
instances, so `CoreProofs` has the theory once per instance that a property speaks of
(`Members`, `Second`, `Third`, `Fourth`), shows that their constants meet the hypotheses
(`RepeatedDistinctly`, `FirstClaimed`, `FirstSearched` and those like them), that a step of
the run is a step of that scenario or leaves it alone (`Moves`), and that what each scenario
keeps (`Kept`) is what the run checks.

### Only model-checked

* Liveness under fairness and `ENABLED`: `DecisionsSettle`, `LeaseReturns`, `GpusReturned`,
  `StopReturns` and the other leads-to properties.
* Everything in `MCTurns`: `Prompt` declares the one `RECURSIVE` operator (cutting results
  until they fit) and belongs to that run, and so no theorem can be about its properties.
* What folds or recursive functions compute for every input (a merged timeline, a packing).
* All of `Discovery`, `Migrations`, `CiqBoard`, `Library`, `ChatSocket` and `Browser`: nothing
  stands in the way of a proof except its length.

## 5. What was found

Five runs end in the violation they look for; `findings` quotes the lines.

1. **A cancelled swap or recovery kills the worker under a later request**
   (`router_unshielded`). `swap_to` and `recover` await their thread unshielded; the
   cancelled task gives the lease back and the thread goes on.
2. **A status question during `start()` launches a batch twice** (`sweep_status`).
   `status()` makes sure a driver exists without the start lock, also for the record
   that `start()` is still launching.
3. **Tools run after the last tool round** (`turn_seventh_round`). The post-tool
   self-check also looks at the answer of the synthesis round, and the calls it
   selects are executed.
4. **An unreviewed draft is delivered in a mutation turn** (`turn_unreviewed_draft`).
   The same self-check comes before the test that withholds the draft.
5. **The model can mint batches** (`turn_minting`). The registered handler takes the
   context off the call by which `adas_map` would refuse it.

Met while modelling, without a run of their own. Where a property is named, it is
defined and TLC violates it when it is added to the run's cfg.

*Model worker and jobs*

* **Swap without an active worker.** `swap_to` waits for free GPUs only inside
  `_stop_active_worker`, which returns at once when nothing is active
  (router.py:954, 969, 1077). After a failed start or swap the next worker starts
  without that proof. `Routers.cfg` therefore leaves `swap_to` out of `FreeGpu`; TLC
  violates `StartsOnFreeGpu` with `Kinds = {"swap"}`.
* **Lost wake-up before Python 3.13.** The second part of `SomeoneWillWake` asks for
  `PassesOn`; without that condition TLC violates it with `PassesOn = FALSE`: a request
  leaves and wakes everyone, the requests sleep again because an operation waits, that
  operation is cancelled before it runs, and its `finally` takes the counter back
  without a notification (router.py:274, 280). `scripts/setup.ps1:29` asks for Python
  3.11 or later.
* **Stop between the saved sweep and its driver.** With `StopsInLaunch = TRUE` in
  `Sweeps.cfg` `SweepTruth` is violated: the record stays active without a driver until
  somebody asks for its status or the service restarts.
* **A lost start answer is reported as "Nothing was acquired"** (`FailedNeverStarted`, with
  without the last conjunct of `Pair`), and **a result may be posted twice** when the service
  stops between the message and the saved `notified` (`PostsBounded` allows it).
* **Research.** An objective that was in progress at a restart ends "not run"
  (tests/test_adas_si_research.py:323 repairs the record by hand); a request that arrives
  late can import a document again under another calibration.
* **Attached because it is there** (`NotMerelyPresent`, in `MCJobs`). An objective of a named
  system, or of a calibration read without an id, has no calibration id
  (adas_si_research.py:320), and the tests of the link are skipped (547, 613, 634): a document
  that another objective or another person put on the order counts as attached, against
  adas_si_research.py:28–30 and 510–518.
* **Provenance that cannot be read allows reuse** (`NeverReused`, in `MCJobs`). A missing,
  malformed or unreadable sidecar gives no metadata (adas_si_research_source_cascade.py:169–177,
  341–347), so a document captured for one calibration passes for a legacy file and is linked to
  another, against the docstring in lines 25–27 of that file.
* **Media.** A ComfyUI whose Core died between the process and its marker is an orphan
  nobody knows; a cancelled picture may be stored without a result.

*A turn*

* **A refused claim's receipt says executed** although the handler was not entered
  (registry.py:4996 with the default of db.py:1695).
* **`research_ro` does not clear the read cache** although it imports documents into
  the repair order (loop.py:3201–3220); `FreshReads` speaks of the turn's writes.
* **A website ends the turn** without the truth review of an earlier mutation of
  the same turn (loop.py:3031–3060); `MutationReviewed` excepts such turns.
* **A Stop between the stored answer and the end of "done"** stores the text a second
  time (loop.py:3115, chat.py:182); `SeenIsSaved` allows it.
* **The guard for started background work** is passed by the post-tool self-check as
  well (loop.py:2582), and is not made up for at the end.
* **A staged write does not consume the unlock** (loop.py:2844 looks only at direct
  operator tools), so a stale binding passes the gate; Calibration IQ's version refuses it.
* **"Failed … no change was verified" is said of changes that happened or may have**
  (`DoubtOutranks`, `FailedIsTrue`): of a 2xx answer that is no JSON; of an order whose
  research was reopened and whose edit's answer was lost, against loop.py:666–670; of a
  partial success, against truth_review.py:62. A replayed success and a truncated result
  are told as indeterminate; a verified audit with more receipts than are shown can be
  logged failed; an audit that only dispatched records, linked evidence or acquired gets
  no review.
* **The newest message can be dropped from the prompt** (`NewestIsAsked`): what is packed
  first may leave less room than it needs (prompt.py:883), against prompt.py:786.
* **A result can be cut in the middle of its JSON** (`AlwaysWhole`): when the last list is
  emptied the loop ends without encoding again, against loop.py:1401 and
  tests/test_bounded_tool_result_json.py:13. Escapes can make a shortened result longer
  than its cap, and the guard reserves 64 tokens more than the packing does.

*ScrapeX*

* **A 5xx answer without JSON is told as a failure that did nothing** (`DoubtAlwaysTold`;
  scrapex.py:914–932 against 1023–1027).
* An indeterminate `acquire_exact` quarantines nothing, since no id is bound; a sweep that
  starts during an acquisition is not refused (main.py:311–335 guards the converse); of two
  launches at once the second reports a failure; a health without a pid makes the client
  stop whatever of ScrapeX listens by then.

*Calibration IQ, audits, library, knowledge*

* **A changing collection can authorise a write** (`ChangingNeverAuthorizes`, in `MCShop`):
  a row that left and one that came leave the total equal (calibration_iq.py:1893).
* **A complete read can lack a row** (`EmptyProvesTheEnd`, in `MCShop`). Where Calibration IQ
  reports no total, a row that leaves between two pages moves the others up, one is skipped, and
  the empty page that follows calls the read complete (calibration_iq.py:922–924), against its
  docstring (770–773). `ReadIsTrue` asks of a read with a page without a total only that no
  record is missing when no row left.
* **Research is completed without evidence for a contested calibration**
  (`EvidenceFirst`, in `MCShop`; calibration_iq.py:2578 against 3016).
* **An added requirement carries no version**, so overlapping audits of two conversations
  may both add it (`OneItemPerCalibration` is asked of one conversation).
* **A trim that was cut short hides a document** (`NotFoundIsReal`, in `MCSweeps`): discovery
  goes by the number, coverage compares the trim verbatim and reports "Complete exact scan
  found no matching artifact" (adas_artifact_catalog.py:1904, 775–789). **An unverified
  capture does count** (`UnverifiedDoNotCount`; line 1646): beside a proven one it makes the
  order ambiguous. A file that moves between discovery and coverage can be reported missing,
  hence `MissingIsReal` only in the scenarios without moves.
* **A file replaced between the reviewed text and its hash** yields a verified record whose
  excerpt is of another text (research_knowledge_promotion.py:61–67, 382–388); `ToldIsCurrent`
  is asked only in `learn`. A capture of the same quote by the model blocks its later
  verification (INSERT OR IGNORE keeps the first authority).
* **Filing by a stale row or sidecar** when a name is taken again (adas_storage.py:9–11
  against 143–175, 341–365), hence `FiledAsProven` only where `Careful`; an invalidation is
  lost while a scan holds the database (278–281); `reindex_all` is lost when the first scan
  after a new schema version stops at its deadline; backups have names of one second;
  deleting leaves the sidecar; `shutil.move` can overwrite a file made after
  `_unique_target`; managed records are checked and written without a lock.

*Page and conversation*

* **A reconcile that arrives after another conversation was opened is shown in it**
  (`Browser!ShownIsActive`; `loadMessages` sets the items whatever is open), while what is
  typed goes to the open one, against useConversationContinuity.js:170–176.
* **A message with files is shown twice** (`Browser!FilesOnce`): its optimistic text never
  equals the stored one, against conversationTimeline.js:464.
* The first list of conversations, when it arrives after the first message made one, closes
  it again: the next message opens another. A text sent twice is dropped by an older
  history. If Core has not noticed the dropped socket when the page reconnects, the answer
  does not appear without another event, against useChatSocket.js:6–8. An older history's
  status can overwrite a card with its receipt.
* A page digest can come back (A, B, A); a Stop that meets a task sending its error, or
  before its first step, sends no "cancelled"; a socket keeps its session after a
  revocation; files of uploads that died before their row stay.
* **Migrations.** An unreadable `captured_at` starts a burst the next frames join.

*Camera*

* **A password nobody tried can be reported verified** (`VerifiedIsTried`): a login with the
  old credential that is under way hands its session to the verification, against
  frigate_client.py:341–344. A login under way when the credential is forgotten leaves its
  session; a forget during a registration is undone by its rollback;
  `configure_frigate.py --clear` leaves Core's session; script and Core share the file and
  not the locks; a crash between save and verification leaves the untried credential.
* **Labels of frames are shifted when a range begins with a gap** (`LabelsAlwaysTrue`;
  camera_security.py:119), and **a hole in the middle of a range is not told as partial**
  (`PartialIsTold`).

## 6. What the models leave out

* `Approvals` … `ChatTurn`: as section 2 says.
* `TurnEvidence`: the maintenance profile that creates without a scope; argument checks. If
  two orders shared a child's id, the approval's proof would not be rebuilt.
* `TurnReport`: receipts of media, shell and ScrapeX; exceptions of handlers; the cap of 50
  identities. Assumed: a receipt "failed" had no effect, and Calibration IQ's success is that
  of every action.
* `Prompt`: the line added to the last request, the length of `detail_omitted`, metrics, the
  text of research results.
* `ScrapeX`: listings, the shape of answers; refused connections and 4xx had no effect.
* `FrigateSession`: TLS and URL validation, an unreadable document, the FIFO order of the
  locks. `Footage`: decoding, sheets and captions; Frigate returns only what overlaps.
* `ChatSocket`: the sign-in of a socket (`Identity`), extraction of files.
* `Browser`: cards and approvals, worker names in signatures, the attachment tray, voice, the
  order of entries, the `setTimeout(0)` before a reconcile. Core notices a closed socket
  before the page is back. `NothingMissing` excepts texts sent twice and a page that showed
  an error.
* `ConversationMemory`: the window of 500 messages. `Identity`: Tailscale logins.
* `Migrations`: a statement that fails is a death; tables of one script in any fixed order.
* `CiqOperator`, `CiqBoard`: the version a replay shifts, downgrading a validated document,
  the shop-hint search. `WorkPrep`: late requests of a batch that timed out, `_phase_list`,
  `_adas_map_inventory`, and `queue_next` (retired).
* `Library`: arrivals, OCR retries, managed records. `AutomotiveKnowledge`: ranking.
* `MediaJobs`: prompts and parameters. The model after a failed restore is `ModelRouter`.

## 7. Plan

The components worth a state machine have one. What is left is proof, most important
first:

1. `ChatSocket`: that the running task is the one Stop reaches, and that a file is sent once.
2. `Discovery`: `CoveredIsReal`.
3. `Migrations`; `CiqBoard`; `Library`.
4. `TurnEvidence`: `WritesWhatWasShown`, and `ChatTurn`: `OneReadOneWrite`, once the run is
   split so that its module no longer reaches `Prompt`.
