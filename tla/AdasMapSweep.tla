---------------------------- MODULE AdasMapSweep ----------------------------
(***************************************************************************)
(* The background ADAS Map sweep (core/services/adas_map_sweep.py).        *)
(*                                                                         *)
(* A sweep is a record in the state store.  start() saves it and launches  *)
(* its first ScrapeX batch inside the caller's chat turn, under one lock;  *)
(* from then on a driver task, which start(), status() and resume() make   *)
(* sure exists, reads the record, takes one step and saves it again.       *)
(* Every action ends where the code awaits: the answer of a remote call    *)
(* and the program's reaction to it are one action, so a crash, a Stop or  *)
(* another task may come before any answer.                                *)
(*                                                                         *)
(* Modelled of ScrapeX, as far as the sweep sees it: batches, which it     *)
(* creates, starts, works through and sometimes stops on its own.          *)
(***************************************************************************)
EXTENDS Integers, Sequences, FiniteSets, SequencesExt

CONSTANTS
    ROs,              \* repair orders that may lack an ADAS Map
    ChunkLimit,       \* CHUNK_LIMIT
    MaxRestarts,      \* MAX_BATCH_RESTARTS
    MaxReadFailures,  \* MAX_READ_FAILURES
    Callers,          \* chat turns that call start()
    NoCaller,
    MaxSweeps,        \* bound on the sweeps ever recorded
    MaxCrashes,       \* bound on crashes and shutdowns
    LostAnswers,      \* may ScrapeX act and its answer be lost?
    StopsInLaunch,    \* may a turn be cancelled while start() launches?
    StatusInLaunch    \* may status() be asked while start() launches?

ASSUME SweepAssumption ==
    /\ ROs # {} /\ IsFiniteSet(ROs)
    /\ ChunkLimit \in Nat \ {0} /\ MaxSweeps \in Nat \ {0}
    /\ MaxRestarts \in Nat /\ MaxReadFailures \in Nat \ {0}
    /\ MaxCrashes \in Nat
    /\ NoCaller \notin Callers
    /\ {LostAnswers, StopsInLaunch, StatusInLaunch} \subseteq BOOLEAN

VARIABLES
    phase,    \* the service: "down", "resuming" (lifespan start) or "serving"
    rec,      \* state_records: the saved record of every sweep, or NoRecord
    posts,    \* messages: result messages of every sweep in its conversation
    drv,      \* self._tasks: the driver of every sweep and its local record
    lock,     \* self._start_lock: its holder
    call,     \* start() calls: where they are and the record they build
    todo,     \* resume(): records it has still to look at
    posting,  \* resume(): the sweep whose result it is posting
    batches,  \* ScrapeX: every batch it has
    late,     \* has the sweep been running for MAX_RUN_SECONDS?
    crashes   \* crashes and shutdowns so far

vars == <<phase, rec, posts, drv, lock, call, todo, posting, batches, late,
          crashes>>

-----------------------------------------------------------------------------
(* Records *)

Sweeps      == 1 .. MaxSweeps
Active      == {"running", "waiting"}        \* ACTIVE_STATES
Terminal    == {"completed", "failed"}
ItemStates  == {"none", "needs_operator", "settled"}  \* settled: any other end
NoRecord    == [state |-> "absent"]
BatchIds    == 1 .. Len(batches)

Chunk(ros, pass) ==
    [ros |-> ros, pass |-> pass, batch |-> 0, state |-> "pending",
     restarts |-> 0, reads |-> 0, failed |-> FALSE]

\* The repair orders of a set, in batches of at most ChunkLimit.
ChunksOf(set, pass) ==
    LET order == SetToSeq(set)
        n     == (Len(order) + ChunkLimit - 1) \div ChunkLimit
    IN  [k \in 1 .. n |->
            Chunk({order[j] : j \in {j \in 1 .. Len(order) :
                                        (j - 1) \div ChunkLimit = k - 1}}, pass)]

NewRecord(missing) ==
    [state |-> "running", targets |-> missing, chunks |-> ChunksOf(missing, 1),
     items |-> [o \in missing |-> "none"], passes |-> [o \in missing |-> 0],
     retried |-> FALSE, error |-> "none", notified |-> FALSE]

\* The chunk a driver works on: the first that is not done.
\* Mutant: the next chunk is taken up once the one before it runs.
OpenEager(r) == {i \in DOMAIN r.chunks :
                    r.chunks[i].state \notin {"done", "running"}}
Open(r)     == {i \in DOMAIN r.chunks : r.chunks[i].state # "done"}
Current(r)  == CHOOSE i \in Open(r) : \A j \in Open(r) : i <= j
Chunk1(r)   == r.chunks[Current(r)]
WithChunk(r, c)  == [r EXCEPT !.chunks[Current(r)] = c]

\* A chunk is given up. Its counters are never read again and not kept here.
GiveUp(c)   == [c EXCEPT !.state = "done", !.failed = TRUE,
                         !.restarts = 0, !.reads = 0]

Saved(s, r) == rec' = [rec EXCEPT ![s] = r]
Exists(s)   == rec[s] # NoRecord
IsActive(s) == rec[s].state \in Active

-----------------------------------------------------------------------------
(* ScrapeX *)

Processed(b) == \A o \in b.ros : b.items[o] # "none"

\* POST /api/batches/from-ciq/exact and .../start, when they have an effect.
Created(s, r) ==
    batches' = Append(batches,
        [sweep |-> s, chunk |-> Current(r), ros |-> Chunk1(r).ros,
         state |-> "created", items |-> [o \in Chunk1(r).ros |-> "none"]])
Started(id) == batches' = [batches EXCEPT ![id].state = "running"]

\* ScrapeX's worker finishes one repair order of a started batch.
BatchWorks(id) ==
    /\ batches[id].state = "running"
    /\ \E o \in batches[id].ros, result \in ItemStates \ {"none"} :
          /\ batches[id].items[o] = "none"
          /\ batches' = [batches EXCEPT ![id].items[o] = result]
    /\ UNCHANGED <<phase, rec, posts, drv, lock, call, todo, posting, late,
                   crashes>>

\* ScrapeX's worker pauses or restarts with repair orders unfinished.
BatchStops(id) ==
    /\ batches[id].state = "running" /\ ~Processed(batches[id])
    /\ batches' = [batches EXCEPT ![id].state = "stopped"]
    /\ UNCHANGED <<phase, rec, posts, drv, lock, call, todo, posting, late,
                   crashes>>

-----------------------------------------------------------------------------
(* _launch_chunk: two remote calls, made by start() and by the driver.     *)
(* An answer is "ok", "auth" (sign-in is required), "no" (refused) or      *)
(* "lost" (ScrapeX acted, but the caller sees a failure).                  *)

Answers == {"ok", "auth", "no"} \union (IF LostAnswers THEN {"lost"} ELSE {})

\* create_batch answered.
CreateEffect(s, r, a) ==
    IF a \in {"ok", "lost"} THEN Created(s, r) ELSE UNCHANGED batches
AfterCreate(r, a) ==
    CASE a = "ok"   -> WithChunk(r, [Chunk1(r) EXCEPT !.batch = Len(batches) + 1])
      [] a = "auth" -> r
      [] OTHER      -> [r EXCEPT !.error = "launch"]

\* start_batch answered.
StartEffect(r, a) ==
    IF a \in {"ok", "lost"} THEN Started(Chunk1(r).batch) ELSE UNCHANGED batches
\* Mutant: the batch is only remembered once it is started.
AfterStartForgetful(r, a) ==
    LET c == Chunk1(r)
        called(state) == WithChunk(r, [c EXCEPT !.state = state])
    IN  CASE a = "ok" -> [called("running") EXCEPT !.passes =
                            [o \in r.targets |->
                                IF o \in c.ros THEN @[o] + 1 ELSE @[o]]]
          [] a = "auth" -> WithChunk(r, [c EXCEPT !.batch = 0])
          [] OTHER      -> [called("created") EXCEPT !.error = "launch"]

AfterStart(r, a) ==
    LET c == Chunk1(r)
        called(state) == WithChunk(r, [c EXCEPT !.state = state])
    IN  CASE a = "ok" -> [called("running") EXCEPT !.passes =
                            [o \in r.targets |->
                                IF o \in c.ros THEN @[o] + 1 ELSE @[o]]]
          [] a = "auth" -> called("created")
          [] OTHER      -> [called("created") EXCEPT !.error = "launch"]

-----------------------------------------------------------------------------
(* The driver *)

NoDriver    == [pc |-> "none", rec |-> NoRecord]
At(s, pc)   == phase # "down" /\ drv[s].pc = pc
Goto(s, pc, r) == drv' = [drv EXCEPT ![s] = [pc |-> pc, rec |-> r]]
Loop(s)     == Goto(s, "loop", NoRecord)
Ended(s)    == drv' = [drv EXCEPT ![s] = NoDriver]

\* _ensure_driver: a task is created unless one is there and not done.
EnsureDriver(s) == IF drv[s].pc = "none" THEN Loop(s) ELSE UNCHANGED drv

\* _enter_sign_in_wait up to its first await.
EnterSignInWait(s, r) ==
    LET w == [r EXCEPT !.state = "waiting"]
    IN  Saved(s, w) /\ Goto(s, "openSignIn", w)

\* Mutant: retry_pass_done is not set.
RetryAgain(r) == [r EXCEPT !.chunks = @ \o ChunksOf({o \in r.targets :
                                    r.items[o] = "needs_operator"}, 2)]

\* The chunks of the retry pass.
Retry(r) == [r EXCEPT !.retried = TRUE,
                !.chunks = @ \o ChunksOf({o \in r.targets :
                                    r.items[o] = "needs_operator"}, 2)]

\* The top of _drive's loop: read the record and run to the next await.
Drive(s) ==
    LET r == rec[s] IN
    /\ At(s, "loop")
    /\ \/ ~IsActive(s) /\ Ended(s) /\ UNCHANGED rec
       \/ /\ IsActive(s) /\ late[s]
          /\ Goto(s, "recheck", [r EXCEPT !.error = "cut"]) /\ UNCHANGED rec
       \/ /\ ~late[s] /\ r.state = "waiting"
          /\ Goto(s, "signedIn", r) /\ UNCHANGED rec
       \/ /\ ~late[s] /\ r.state = "running" /\ Open(r) = {}
          /\ IF r.retried
             THEN Goto(s, "recheck", r) /\ UNCHANGED rec
             ELSE Saved(s, Retry(r)) /\ UNCHANGED drv
       \/ /\ ~late[s] /\ r.state = "running" /\ Open(r) # {}
          /\ UNCHANGED rec
          /\ Goto(s, CASE Chunk1(r).state = "pending" \/ Chunk1(r).batch = 0
                                                   -> "create"
                       [] Chunk1(r).state = "created" -> "start"
                       [] OTHER                       -> "read", r)
    /\ UNCHANGED <<phase, posts, lock, call, todo, posting, batches, late,
                   crashes>>

\* What the driver does with the outcome of _launch_chunk.
Launched(s, a, r) ==
    \/ a = "auth" /\ EnterSignInWait(s, r)
    \/ a = "ok" /\ Saved(s, r) /\ Loop(s)
    \/ a \in {"no", "lost"} /\ Saved(s, WithChunk(r, GiveUp(Chunk1(r))))
                            /\ Loop(s)

DriveCreate(s) ==
    LET r == drv[s].rec IN
    /\ At(s, "create")
    /\ \E a \in Answers :
          /\ CreateEffect(s, r, a)
          /\ IF a = "ok" THEN Goto(s, "launch", AfterCreate(r, a)) /\ UNCHANGED rec
                         ELSE Launched(s, a, AfterCreate(r, a))
    /\ UNCHANGED <<phase, posts, lock, call, todo, posting, late, crashes>>

DriveLaunch(s) ==
    LET r == drv[s].rec IN
    /\ At(s, "launch")
    /\ \E a \in Answers : /\ StartEffect(r, a)
                          /\ Launched(s, a, AfterStart(r, a))
    /\ UNCHANGED <<phase, posts, lock, call, todo, posting, late, crashes>>

\* A chunk whose batch exists is started; a refusal is counted and retried.
DriveStart(s) ==
    LET r == drv[s].rec
        c == Chunk1(r)
        again == [c EXCEPT !.restarts = @ + 1]
    IN
    /\ At(s, "start")
    /\ \E a \in Answers :
          /\ StartEffect(r, a)
          /\ \/ a = "auth" /\ EnterSignInWait(s, r)
             \/ a = "ok" /\ Saved(s, WithChunk(r, [c EXCEPT !.state = "running"]))
                         /\ Loop(s)
             \/ /\ a \in {"no", "lost"}
                /\ Saved(s, WithChunk(r, IF again.restarts > MaxRestarts
                                         THEN GiveUp(again) ELSE again))
                /\ Loop(s)
    /\ UNCHANGED <<phase, posts, lock, call, todo, posting, late, crashes>>

\* Mutant: the items of a batch are dropped.
AppliedNot(r, b) == r

\* _apply_items: what the batch says of the repair orders of the sweep.
Applied(r, b) == [r EXCEPT !.items =
    [o \in r.targets |-> IF o \in b.ros THEN b.items[o] ELSE @[o]]]

\* batch() answered: a failed read, a finished batch, a batch at work, or one
\* whose worker stopped or made no progress for STALL_SECONDS.
DriveRead(s) ==
    LET r == drv[s].rec
        c == Chunk1(r)
        b == batches[c.batch]
        missed == [c EXCEPT !.reads = @ + 1]
        read == Applied(WithChunk(r, [c EXCEPT !.reads = 0]), b)
    IN
    /\ At(s, "read")
    /\ \/ /\ Saved(s, WithChunk(r, IF missed.reads >= MaxReadFailures
                                   THEN GiveUp(missed) ELSE missed))
          /\ Loop(s)
       \/ /\ Processed(b)
          /\ Saved(s, WithChunk(read, [c EXCEPT !.reads = 0, !.state = "done"]))
          /\ Loop(s)
       \/ /\ ~Processed(b) /\ b.state = "running"
          /\ Saved(s, read) /\ Loop(s)
       \/ /\ ~Processed(b)
          /\ Goto(s, "stopped", read) /\ UNCHANGED rec
    /\ UNCHANGED <<phase, posts, lock, call, todo, posting, batches, late,
                   crashes>>

\* signed_in() answered after the worker stopped: wait for a sign-in, give the
\* chunk up, or start its batch once more.
DriveStopped(s) ==
    LET r == drv[s].rec
        again == [Chunk1(r) EXCEPT !.restarts = @ + 1]
    IN
    /\ At(s, "stopped")
    /\ \/ EnterSignInWait(s, r)
       \/ /\ again.restarts > MaxRestarts
          /\ Saved(s, WithChunk(r, GiveUp(again))) /\ Loop(s)
       \/ /\ again.restarts <= MaxRestarts
          /\ Goto(s, "restart", WithChunk(r, again)) /\ UNCHANGED rec
    /\ UNCHANGED <<phase, posts, lock, call, todo, posting, batches, late,
                   crashes>>

\* The repeated start_batch answered; a failure is left to the next read.
DriveRestart(s) ==
    LET r == drv[s].rec IN
    /\ At(s, "restart")
    /\ \E a \in Answers :
          /\ StartEffect(r, a)
          /\ IF a = "auth" THEN EnterSignInWait(s, r)
                           ELSE Saved(s, r) /\ Loop(s)
    /\ UNCHANGED <<phase, posts, lock, call, todo, posting, late, crashes>>

\* open_sign_in() and the notification, both best effort.
DriveOpenSignIn(s) ==
    /\ At(s, "openSignIn") /\ Loop(s)
    /\ UNCHANGED <<phase, rec, posts, lock, call, todo, posting, batches, late,
                   crashes>>

\* signed_in() answered while waiting: go on, wait, or stop waiting after
\* SIGN_IN_WAIT_SECONDS.
DriveSignedIn(s) ==
    LET r == drv[s].rec IN
    /\ At(s, "signedIn")
    /\ \/ Saved(s, [r EXCEPT !.state = "running"]) /\ Loop(s)
       \/ Loop(s) /\ UNCHANGED rec
       \/ Goto(s, "recheck", [r EXCEPT !.error = "cut"]) /\ UNCHANGED rec
    /\ UNCHANGED <<phase, posts, lock, call, todo, posting, batches, late,
                   crashes>>

\* Any other exception: the record as saved is finalized.
DriveError(s) ==
    /\ \E pc \in {"create", "launch", "start", "read", "stopped", "restart",
                  "signedIn"} : At(s, pc)
    /\ IF IsActive(s) THEN Goto(s, "recheck", [rec[s] EXCEPT !.error = "cut"])
                      ELSE Ended(s)
    /\ UNCHANGED <<phase, rec, posts, lock, call, todo, posting, batches, late,
                   crashes>>

\* add_message; it may raise, which _post_result swallows.
PostsMessage(s) == posts' \in {posts, [posts EXCEPT ![s] = @ + 1]}

\* Mutant: the message is added before the completed record is saved.
DriveRecheckUnsaved(s) ==
    LET done == [drv[s].rec EXCEPT !.state = "completed"] IN
    /\ At(s, "recheck")
    /\ Goto(s, "notify", done) /\ PostsMessage(s)
    /\ UNCHANGED <<phase, rec, lock, call, todo, posting, batches, late, crashes>>

\* _finalize, its re-reads of Calibration IQ answered, up to the notification.
DriveRecheck(s) ==
    LET done == [drv[s].rec EXCEPT !.state = "completed"] IN
    /\ At(s, "recheck")
    /\ Saved(s, done) /\ Goto(s, "notify", done) /\ PostsMessage(s)
    /\ UNCHANGED <<phase, lock, call, todo, posting, batches, late, crashes>>

\* _post_result after its notification, and the end of the task.
DriveNotified(s) ==
    /\ At(s, "notify")
    /\ Saved(s, [drv[s].rec EXCEPT !.notified = TRUE]) /\ Ended(s)
    /\ UNCHANGED <<phase, posts, lock, call, todo, posting, batches, late,
                   crashes>>

DriverStep(s) ==
    \/ Drive(s) \/ DriveCreate(s) \/ DriveLaunch(s) \/ DriveStart(s)
    \/ DriveRead(s) \/ DriveStopped(s) \/ DriveRestart(s)
    \/ DriveOpenSignIn(s) \/ DriveSignedIn(s) \/ DriveError(s)
    \/ DriveRecheck(s) \/ DriveNotified(s)

-----------------------------------------------------------------------------
(* start() and status() *)

Idle         == [pc |-> "idle", sweep |-> 0, rec |-> NoRecord]
In(c, pc)    == phase = "serving" /\ call[c].pc = pc
Call(c, pc, s, r) == call' = [call EXCEPT ![c] = [pc |-> pc, sweep |-> s, rec |-> r]]
Return(c)    == call' = [call EXCEPT ![c] = Idle] /\ lock' = NoCaller
Launching(s) == \E c \in Callers : call[c].pc \in {"create", "launch"}
                                   /\ call[c].sweep = s

\* Mutant: the lock is not taken.
StartUnlocked(c) ==
    /\ In(c, "idle")
    /\ \/ /\ \E s \in Sweeps : IsActive(s) /\ EnsureDriver(s)
          /\ UNCHANGED <<call, lock>>
       \/ /\ \A s \in Sweeps : ~IsActive(s)
          /\ Call(c, "ask", 0, NoRecord) /\ UNCHANGED <<drv, lock>>
    /\ UNCHANGED <<phase, rec, posts, todo, posting, batches, late, crashes>>

\* A call takes the lock: an active sweep is only given its driver back,
\* otherwise Calibration IQ and ScrapeX are asked.
Start(c) ==
    /\ In(c, "idle") /\ lock = NoCaller
    /\ \/ /\ \E s \in Sweeps : IsActive(s) /\ EnsureDriver(s)
          /\ UNCHANGED <<call, lock>>
       \/ /\ \A s \in Sweeps : ~IsActive(s)
          /\ lock' = c /\ Call(c, "ask", 0, NoRecord) /\ UNCHANGED drv
    /\ UNCHANGED <<phase, rec, posts, todo, posting, batches, late, crashes>>

\* Mutant: the driver is created before the first batch is launched.
StartAnsweredDriven(c) ==
    /\ In(c, "ask")
    /\ \/ Return(c) /\ UNCHANGED <<rec, drv>>
       \/ \E s \in Sweeps, missing \in (SUBSET ROs) \ {{}} :
             /\ ~Exists(s) /\ \A t \in 1 .. s - 1 : Exists(t)
             /\ Saved(s, NewRecord(missing)) /\ EnsureDriver(s)
             /\ Call(c, "create", s, NewRecord(missing)) /\ UNCHANGED lock
    /\ UNCHANGED <<phase, posts, todo, posting, batches, late, crashes>>

\* The inventory and ready() answered: nothing is started, or the record of a
\* new sweep is saved and its first batch asked for.
StartAnswered(c) ==
    /\ In(c, "ask")
    /\ \/ Return(c) /\ UNCHANGED rec
       \/ \E s \in Sweeps, missing \in (SUBSET ROs) \ {{}} :
             /\ ~Exists(s) /\ \A t \in 1 .. s - 1 : Exists(t)
             /\ Saved(s, NewRecord(missing))
             /\ Call(c, "create", s, NewRecord(missing)) /\ UNCHANGED lock
    /\ UNCHANGED <<phase, posts, drv, todo, posting, batches, late, crashes>>

\* What start() does with the outcome of _launch_chunk.
StartLaunched(c, a, r) ==
    LET s == call[c].sweep IN
    /\ Return(c)
    /\ IF a = "ok" THEN Saved(s, r) /\ EnsureDriver(s)
       ELSE Saved(s, [r EXCEPT !.state = "failed"]) /\ UNCHANGED drv

StartCreate(c) ==
    LET r == call[c].rec  s == call[c].sweep IN
    /\ In(c, "create")
    /\ \E a \in Answers :
          /\ CreateEffect(s, r, a)
          /\ IF a = "ok" THEN /\ Call(c, "launch", s, AfterCreate(r, a))
                              /\ UNCHANGED <<rec, drv, lock>>
                         ELSE StartLaunched(c, a, AfterCreate(r, a))
    /\ UNCHANGED <<phase, posts, todo, posting, late, crashes>>

StartLaunch(c) ==
    LET r == call[c].rec IN
    /\ In(c, "launch")
    /\ \E a \in Answers : /\ StartEffect(r, a)
                          /\ StartLaunched(c, a, AfterStart(r, a))
    /\ UNCHANGED <<phase, posts, todo, posting, late, crashes>>

\* The chat turn is cancelled (Stop, or its socket is gone) while start() awaits.
StartCancelled(c) ==
    /\ phase = "serving" /\ call[c].pc # "idle"
    /\ call[c].pc \in {"create", "launch"} => StopsInLaunch
    /\ Return(c)
    /\ UNCHANGED <<phase, rec, posts, drv, todo, posting, batches, late, crashes>>

\* status(): it looks at the newest record; any record may be the newest, for
\* records are ordered by whole seconds.
Status(s) ==
    /\ phase = "serving" /\ IsActive(s) /\ EnsureDriver(s)
    /\ Launching(s) => StatusInLaunch
    /\ UNCHANGED <<phase, rec, posts, lock, call, todo, posting, batches, late,
                   crashes>>

CallerStep(c) ==
    \/ StartAnswered(c) \/ StartCreate(c) \/ StartLaunch(c)

-----------------------------------------------------------------------------
(* The service's own start and end *)

\* A crash, or a shutdown, which cancels every task where it awaits: no
\* handler of a cancelled task saves anything.
Crash ==
    /\ phase # "down" /\ crashes < MaxCrashes
    /\ phase' = "down" /\ crashes' = crashes + 1
    /\ drv' = [s \in Sweeps |-> NoDriver]
    /\ call' = [c \in Callers |-> Idle] /\ lock' = NoCaller
    /\ todo' = {} /\ posting' = 0
    /\ UNCHANGED <<rec, posts, batches, late>>

\* resume() reads the records, before the first request is served.
Restart ==
    /\ phase = "down" /\ phase' = "resuming"
    /\ todo' = {s \in Sweeps : Exists(s)}
    /\ UNCHANGED <<rec, posts, drv, lock, call, posting, batches, late, crashes>>

\* Mutants: a sweep that waits for a sign-in is not driven again; a result
\* that was not notified is left alone.
ResumeRunningOnly(s) ==
    /\ phase = "resuming" /\ s \in todo /\ posting = 0
    /\ todo' = todo \ {s}
    /\ \/ rec[s].state = "running" /\ EnsureDriver(s) /\ UNCHANGED <<posts, posting>>
       \/ /\ rec[s].state = "completed" /\ ~rec[s].notified
          /\ PostsMessage(s) /\ posting' = s /\ UNCHANGED drv
       \/ /\ rec[s].state # "running"
          /\ (rec[s].state = "completed" => rec[s].notified)
          /\ UNCHANGED <<posts, posting, drv>>
    /\ UNCHANGED <<phase, rec, lock, call, batches, late, crashes>>

ResumeActiveOnly(s) ==
    /\ phase = "resuming" /\ s \in todo /\ posting = 0
    /\ todo' = todo \ {s}
    /\ \/ IsActive(s) /\ EnsureDriver(s)
       \/ ~IsActive(s) /\ UNCHANGED drv
    /\ UNCHANGED <<phase, rec, posts, posting, lock, call, batches, late, crashes>>

\* One record: drive it, post its result again, or leave it alone.
Resume(s) ==
    /\ phase = "resuming" /\ s \in todo /\ posting = 0
    /\ todo' = todo \ {s}
    /\ \/ IsActive(s) /\ EnsureDriver(s) /\ UNCHANGED <<posts, posting>>
       \/ /\ rec[s].state = "completed" /\ ~rec[s].notified
          /\ PostsMessage(s) /\ posting' = s /\ UNCHANGED drv
       \/ /\ ~IsActive(s) /\ (rec[s].state = "completed" => rec[s].notified)
          /\ UNCHANGED <<posts, posting, drv>>
    /\ UNCHANGED <<phase, rec, lock, call, batches, late, crashes>>

ResumePosted ==
    /\ phase = "resuming" /\ posting # 0
    /\ Saved(posting, [rec[posting] EXCEPT !.notified = TRUE])
    /\ posting' = 0
    /\ UNCHANGED <<phase, posts, drv, lock, call, todo, batches, late, crashes>>

Serve ==
    /\ phase = "resuming" /\ todo = {} /\ posting = 0 /\ phase' = "serving"
    /\ UNCHANGED <<rec, posts, drv, lock, call, todo, posting, batches, late,
                   crashes>>

\* MAX_RUN_SECONDS have passed since the sweep started.
TimeLimit(s) ==
    /\ IsActive(s) /\ ~late[s] /\ late' = [late EXCEPT ![s] = TRUE]
    /\ UNCHANGED <<phase, rec, posts, drv, lock, call, todo, posting, batches,
                   crashes>>

-----------------------------------------------------------------------------

Init ==
    /\ phase = "serving" /\ rec = [s \in Sweeps |-> NoRecord]
    /\ posts = [s \in Sweeps |-> 0] /\ drv = [s \in Sweeps |-> NoDriver]
    /\ lock = NoCaller /\ call = [c \in Callers |-> Idle]
    /\ todo = {} /\ posting = 0 /\ batches = <<>>
    /\ late = [s \in Sweeps |-> FALSE] /\ crashes = 0

Next ==
    \/ \E s \in Sweeps : DriverStep(s) \/ Status(s) \/ Resume(s) \/ TimeLimit(s)
    \/ \E c \in Callers : Start(c) \/ CallerStep(c) \/ StartCancelled(c)
    \/ \E id \in BatchIds : BatchWorks(id) \/ BatchStops(id)
    \/ Crash \/ Restart \/ ResumePosted \/ Serve

Spec == Init /\ [][Next]_vars

\* The event loop runs every task that is ready and every remote call has a
\* timeout; the service is restarted after a crash; time passes.  Nothing is
\* asked of ScrapeX's worker and of the people who start sweeps.
Fairness ==
    /\ \A s \in Sweeps : /\ WF_vars(DriverStep(s)) /\ WF_vars(Resume(s))
                         /\ WF_vars(TimeLimit(s))
    /\ \A c \in Callers : WF_vars(CallerStep(c))
    /\ WF_vars(Restart) /\ WF_vars(ResumePosted) /\ WF_vars(Serve)

FairSpec == Spec /\ Fairness

-----------------------------------------------------------------------------
(* Properties *)

ChunkType ==
    [ros : (SUBSET ROs) \ {{}}, pass : {1, 2}, batch : Nat,
     state : {"pending", "created", "running", "done"},
     restarts : 0 .. MaxRestarts, reads : 0 .. MaxReadFailures - 1,
     failed : BOOLEAN]

IsRecord(r) ==
    /\ DOMAIN r = {"state", "targets", "chunks", "items", "passes", "retried",
                   "error", "notified"}
    /\ r.state \in Active \union Terminal
    /\ r.targets \in (SUBSET ROs) \ {{}}
    /\ r.chunks \in Seq(ChunkType)
    /\ \A i \in DOMAIN r.chunks : r.chunks[i].batch \in {0} \union BatchIds
    /\ r.items \in [r.targets -> ItemStates]
    /\ r.passes \in [r.targets -> 0 .. 2]
    /\ r.error \in {"none", "launch", "cut"}
    /\ {r.retried, r.notified} \subseteq BOOLEAN

\* Every variable has its type; in particular no repair order is attempted by
\* more than the first and the one retry pass of _drive.
TypeOK ==
    /\ phase \in {"down", "resuming", "serving"}
    /\ \A s \in Sweeps : rec[s] = NoRecord \/ IsRecord(rec[s])
    /\ posts \in [Sweeps -> Nat] /\ late \in [Sweeps -> BOOLEAN]
    /\ \A s \in Sweeps :
          /\ drv[s].pc \in {"none", "loop", "create", "launch", "start", "read",
                "stopped", "restart", "openSignIn", "signedIn", "recheck", "notify"}
          /\ IF drv[s].pc \in {"none", "loop"} THEN drv[s].rec = NoRecord
                                               ELSE IsRecord(drv[s].rec)
    /\ lock \in Callers \union {NoCaller}
    /\ \A c \in Callers :
          /\ call[c].pc \in {"idle", "ask", "create", "launch"}
          /\ call[c].pc \in {"create", "launch"} => IsRecord(call[c].rec)
    /\ todo \subseteq Sweeps /\ posting \in {0} \union Sweeps
    /\ \A id \in BatchIds : batches[id].state \in {"created", "running", "stopped"}
    /\ crashes \in 0 .. MaxCrashes

\* A user has one active sweep at a time, although start() awaits Calibration
\* IQ and ScrapeX between its check and its record.
OneActive == Cardinality({s \in Sweeps : IsActive(s)}) <= 1

\* While requests are served an active sweep has a driver, or the start() that
\* is launching it: it never waits for somebody to ask about it.
ActiveIsDriven ==
    phase = "serving" =>
        \A s \in Sweeps : IsActive(s) => drv[s].pc # "none" \/ Launching(s)

\* A sweep that completed or failed stays so: no task that read the record
\* earlier saves it as running again.
TerminalIsFinal ==
    [][\A s \in Sweeps : rec[s].state \in Terminal =>
                            rec'[s].state = rec[s].state]_vars

\* No repair orders are sent to ScrapeX twice in one pass, except that a crash
\* may lose the id of a batch that was just created.
OneBatchPerChunk ==
    \A id \in BatchIds :
        Cardinality({j \in BatchIds : /\ batches[j].sweep = batches[id].sweep
                                      /\ batches[j].chunk = batches[id].chunk})
            <= 1 + crashes

\* Batches run one after another: two batches of a sweep are at work together
\* only when the driver gave a chunk up, or a crash lost a batch.
GaveUp(s) == \E i \in DOMAIN rec[s].chunks : rec[s].chunks[i].failed
Working(s) == {id \in BatchIds : /\ batches[id].sweep = s
                                 /\ batches[id].state = "running"
                                 /\ ~Processed(batches[id])}
OneAtATime ==
    \A s \in Sweeps : Cardinality(Working(s)) > 1 => GaveUp(s) \/ crashes > 0

\* A sweep that was not cut short (time limit, no sign-in, exception) is only
\* reported when every chunk was worked through or given up, every repair order
\* that needed the operator was tried again, and what is reported of it is what
\* ScrapeX said last.
WorkedBeforeDone ==
    \A s \in Sweeps :
        rec[s].state = "completed" /\ rec[s].error # "cut" =>
            LET cs == rec[s].chunks IN
            /\ rec[s].retried /\ Open(rec[s]) = {}
            /\ \A i \in DOMAIN cs : ~cs[i].failed =>
                   \A o \in cs[i].ros :
                       /\ batches[cs[i].batch].items[o] # "none"
                       /\ \/ rec[s].items[o] = batches[cs[i].batch].items[o]
                          \/ \E j \in DOMAIN cs : j > i /\ o \in cs[j].ros
            /\ \A o \in rec[s].targets : rec[s].items[o] = "needs_operator" =>
                   \E i \in DOMAIN cs : cs[i].pass = 2 /\ o \in cs[i].ros

\* A result is posted once, and once more at most for every crash or shutdown;
\* a sweep whose start was reported as failed is never posted.
PostsBounded ==
    \A s \in Sweeps : /\ posts[s] <= 1 + crashes
                      /\ posts[s] > 0 => rec[s].state = "completed"

\* Every sweep that got its record ends, and its result is posted, through
\* crashes, refusals and sign-ins that never come.
Settles ==
    \A s \in Sweeps :
        IsActive(s) ~> \/ rec[s].state = "failed"
                       \/ rec[s].state = "completed" /\ rec[s].notified

\* A sweep whose start() was answered as failed ("Nothing was acquired") has no
\* batch at work, as long as no answer of ScrapeX is lost.
FailedNeverStarted ==
    \A id \in BatchIds : rec[batches[id].sweep].state = "failed" =>
                            batches[id].state = "created"

\* The batches of a sweep "run one after another" (the module's docstring),
\* whoever asks for its status.
BatchesOneAfterAnother == \A s \in Sweeps : Cardinality(Working(s)) <= 1
=============================================================================
