----------------------------- MODULE ModelRouter -----------------------------
(***************************************************************************)
(* Ownership of the model worker: one llama-server process that holds both *)
(* GPUs, serves one port, and is started, swapped, recovered, handed off   *)
(* to an external GPU workload and stopped by lifecycle operations that    *)
(* exclude every inference request.                                        *)
(*                                                                         *)
(* Code: core/models/router.py. An operation is cut at every await         *)
(* (asyncio.to_thread jobs, HTTP, the external body): there the operating  *)
(* system, other tasks and a cancellation come in between. A to_thread job *)
(* goes on after its awaiting task was cancelled; such jobs are in         *)
(* `detached`. Who waits for whom is not modelled here: the lease that     *)
(* _InferenceCoordinator grants appears as the guards of BeginInference    *)
(* and Acquire, and InferenceCoordinator checks the code that grants it.   *)
(***************************************************************************)
EXTENDS Integers, FiniteSets

CONSTANTS
    Worker,        \* configured workers (workers.json), all on one port
    Default,       \* default_worker
    Foreign,       \* a process that is none of ours
    Pid,           \* process ids, reused by the operating system
    MaxBorn,       \* bound: processes started in a behaviour
    MaxDetached,   \* bound: jobs without a task at one time
    Op, Boot,      \* lifecycle operations; Boot is the start at service start
    Kinds,         \* the kinds requested later
    Cancellable,   \* the kinds whose awaiting task may be cancelled
    Client,        \* model HTTP attempts that may run at once
    None

AllKinds == {"start", "swap", "recover", "external", "shutdown"}

Processes == [kind: Worker \cup {Foreign}, born: 1..MaxBorn]
Records == [name: Worker, pid: Pid, born: 1..MaxBorn]

ASSUME ModelRouterAssumption ==
    /\ Default \in Worker /\ Foreign \notin Worker
    /\ Boot \in Op
    /\ Kinds \subseteq AllKinds \ {"start"} /\ Cancellable \subseteq AllKinds
    /\ MaxBorn \in Nat \ {0} /\ MaxDetached \in Nat
    /\ None \notin Pid \cup Processes \cup Records

VARIABLES
    \* operating system
    proc,       \* pid -> None or the process: kind and start time
    clock,      \* start time of the newest process
    listener,   \* pid that listens on the model port, or None
    draining,   \* CUDA memory of an ended process is not released yet
    \* the router
    active,     \* active_name, active_pid, active_started_at (None: all None)
    leases,     \* clients inside inference_session
    pc, kind, name,  \* each operation: where it is, its kind, its worker config
    mine,       \* the process record an operation works on
    attempt,    \* external: 0 handing off, 1 and 2 restoring
    detached,   \* to_thread jobs whose task was cancelled
    closing,    \* shutdown was requested
    \* observed
    harm        \* what a kill has hit: "foreign" process, "leased" worker

os   == <<proc, clock, listener, draining>>
opv  == <<pc, kind, name, mine, attempt>>
vars == <<os, active, leases, opv, detached, closing, harm>>

Jobs == [at: {"stop", "kill", "spawn"}, name: Worker,
         rec: Records \cup {None}, clears: BOOLEAN]

Held == {"held", "stop", "kill", "drain", "port", "spawn", "adopt", "health",
         "cleanup", "ckill", "body", "release"}

TypeOK ==
    /\ proc \in [Pid -> Processes \cup {None}]
    /\ clock \in 0..MaxBorn
    /\ listener \in Pid \cup {None}
    /\ draining \in BOOLEAN
    /\ active \in Records \cup {None}
    /\ leases \subseteq Client
    /\ pc \in [Op -> {"idle", "waiting"} \cup Held]
    /\ kind \in [Op -> AllKinds]
    /\ name \in [Op -> Worker]
    /\ mine \in [Op -> Records \cup {None}]
    /\ attempt \in [Op -> 0..2]
    /\ detached \subseteq Jobs
    /\ closing \in BOOLEAN
    /\ harm \subseteq {"foreign", "leased"}

\* The core starts: the machine may hold a worker left by an earlier core or a
\* foreign process, listening or not, and start_default is queued.
Init ==
    /\ \/ proc = [p \in Pid |-> None] /\ clock = 0 /\ listener = None
       \/ \E p \in Pid, k \in Worker \cup {Foreign} :
            /\ proc = [q \in Pid |-> IF q = p THEN [kind |-> k, born |-> 1] ELSE None]
            /\ clock = 1
            /\ listener \in {None, p}
    /\ draining \in BOOLEAN
    /\ active = None
    /\ leases = {}
    /\ pc = [o \in Op |-> IF o = Boot THEN "waiting" ELSE "idle"]
    /\ kind = [o \in Op |-> "start"]
    /\ name = [o \in Op |-> Default]
    /\ mine = [o \in Op |-> None]
    /\ attempt = [o \in Op |-> 0]
    /\ detached = {}
    /\ closing = FALSE
    /\ harm = {}

-----------------------------------------------------------------------------
(* The operating system.                                                   *)

Alive(p) == proc[p] # None

\* _identity_issues: pid, start time and command line are those of the record.
Same(r) ==
    /\ Alive(r.pid)
    /\ proc[r.pid].born = r.born
    /\ proc[r.pid].kind = r.name

\* _wait_vram_free sees every configured card free.
GpuFree ==
    /\ ~draining
    /\ \A p \in Pid : Alive(p) => proc[p].kind = Foreign
    /\ \A o \in Op : pc[o] # "body"

Born(p, k) ==
    /\ ~Alive(p)
    /\ clock < MaxBorn
    /\ clock' = clock + 1
    /\ proc' = [proc EXCEPT ![p] = [kind |-> k, born |-> clock + 1]]

Die(p) ==
    /\ proc' = [proc EXCEPT ![p] = None]
    /\ draining' = (draining \/ proc[p].kind \in Worker)
    /\ listener' = IF listener = p THEN None ELSE listener
    /\ UNCHANGED clock

\* A signal the router sends to the process it has recorded as r. What it hits
\* is whatever has that pid now.
Kill(r) ==
    /\ Die(r.pid)
    /\ harm' = harm \cup (IF proc[r.pid].kind = Foreign THEN {"foreign"} ELSE {})
                    \cup (IF leases # {} THEN {"leased"} ELSE {})

\* The last check before the signal compares the start time only.
Signal(r) == proc[r.pid].born = r.born /\ Kill(r)

router == <<active, leases, opv, detached, closing, harm>>

WorkerExits(p) == Alive(p) /\ Die(p) /\ UNCHANGED router

ForeignStarts(p) == Born(p, Foreign) /\ UNCHANGED <<listener, draining, router>>

\* A worker listens when it has loaded, a foreign process when it likes.
Listens(p) ==
    /\ Alive(p) /\ listener = None
    /\ listener' = p
    /\ UNCHANGED <<proc, clock, draining, router>>

VramReleased ==
    /\ draining
    /\ draining' = FALSE
    /\ UNCHANGED <<proc, clock, listener, router>>

Environment ==
    \/ \E p \in Pid : WorkerExits(p) \/ ForeignStarts(p) \/ Listens(p)
    \/ VramReleased

-----------------------------------------------------------------------------
(* Leases and requests.                                                    *)

Holder  == {o \in Op : pc[o] \in Held}
\* start_default runs before the service accepts its first request.
Booting == pc[Boot] # "idle" /\ kind[Boot] = "start"

\* Mutant: a request does not wait for the operation that holds the lease.
BeginInferenceAnytime(c) ==
    /\ c \notin leases
    /\ active # None
    /\ leases' = leases \cup {c}
    /\ UNCHANGED <<os, active, opv, detached, closing, harm>>

\* inference_session: never while an operation holds the lease, and refused when
\* no worker is active.
BeginInference(c) ==
    /\ c \notin leases
    /\ Holder = {}
    /\ active # None
    /\ leases' = leases \cup {c}
    /\ UNCHANGED <<os, active, opv, detached, closing, harm>>

EndInference(c) ==
    /\ c \in leases
    /\ leases' = leases \ {c}
    /\ UNCHANGED <<os, active, opv, detached, closing, harm>>

\* swap_to, recover (which picks its worker before it waits for the lease),
\* external_workload_session and shutdown ask for the lifecycle lease.
Request(o, k, n) ==
    /\ pc[o] = "idle" /\ ~closing /\ ~Booting
    /\ k \in Kinds
    /\ k # "swap" => n = IF active = None THEN Default ELSE active.name
    /\ pc' = [pc EXCEPT ![o] = "waiting"]
    /\ kind' = [kind EXCEPT ![o] = k]
    /\ name' = [name EXCEPT ![o] = n]
    /\ closing' = (k = "shutdown")
    /\ UNCHANGED <<os, active, leases, mine, attempt, detached, harm>>

Go(o, step) == pc' = [pc EXCEPT ![o] = step]

\* The operation returns or raises; its local variables are gone.
Return(o) ==
    /\ Go(o, "idle")
    /\ kind' = [kind EXCEPT ![o] = "start"]
    /\ name' = [name EXCEPT ![o] = Default]
    /\ mine' = [mine EXCEPT ![o] = None]
    /\ attempt' = [attempt EXCEPT ![o] = 0]

\* Mutant: the operation does not wait for the requests that are running.
AcquireOverReaders(o) ==
    /\ pc[o] = "waiting"
    /\ Holder = {}
    /\ Go(o, "held")
    /\ UNCHANGED <<os, active, leases, kind, name, mine, attempt, detached, closing, harm>>

\* The lease is granted; the process file lock may still time out.
Acquire(o) ==
    /\ pc[o] = "waiting"
    /\ Holder = {} /\ leases = {}
    /\ \/ Go(o, "held") /\ UNCHANGED <<kind, name, mine, attempt>>
       \/ Return(o)
    /\ UNCHANGED <<os, active, leases, detached, closing, harm>>

\* A listener is the answer of recover, or a conflict; a worker without one is stopped,
\* and without a worker the GPUs are waited for.
recover(o) ==
    /\ kind[o] = "recover"
    /\ Go(o, IF listener # None THEN "release"
             ELSE IF active # None THEN "stop" ELSE "drain")

\* What each operation does first once it holds the lease.
Start(o) ==
    /\ pc[o] = "held"
    /\ \/ /\ kind[o] = "start"     \* the reconciliation of external runtimes may fail
          /\ Go(o, "port") \/ Go(o, "release")
          /\ UNCHANGED name
       \/ /\ kind[o] = "swap"      \* already active: only a health answer
          /\ Go(o, IF active # None /\ active.name = name[o] THEN "release" ELSE "stop")
          /\ UNCHANGED name
       \/ recover(o) /\ UNCHANGED name
       \/ /\ kind[o] = "external"  \* requires an active worker
          /\ IF active = None THEN Go(o, "release") /\ UNCHANGED name
             ELSE Go(o, "stop") /\ name' = [name EXCEPT ![o] = active.name]
       \/ kind[o] = "shutdown" /\ Go(o, "stop") /\ UNCHANGED name
    /\ UNCHANGED <<os, active, leases, kind, mine, attempt, detached, closing, harm>>

-----------------------------------------------------------------------------
(* Stopping the active worker: _stop_active_worker and _terminate_exact.   *)

others == <<leases, kind, name, detached, closing>>

\* An exception: the external hand-off goes on to restore if its worker is gone,
\* everything else releases the lease.
Restores(o) == kind[o] = "external" /\ attempt[o] = 0 /\ active = None

Fail(o) ==
    /\ Go(o, IF Restores(o) THEN "port" ELSE "release")
    /\ attempt' = [attempt EXCEPT ![o] = IF Restores(o) THEN 1 ELSE @]

\* Nothing to stop: _stop_active_worker returns None without waiting for VRAM.
StopNothing(o) ==
    /\ pc[o] = "stop" /\ active = None
    /\ Go(o, IF kind[o] = "swap" THEN "port" ELSE "release")
    /\ UNCHANGED <<os, active, mine, attempt, others, harm>>

\* Identity, port owner and (but for recover) the live answer of the worker.
StopVerified(o) ==
    /\ pc[o] = "stop" /\ active # None
    /\ kind[o] = "recover" => name[o] = active.name
    /\ Same(active) /\ listener \in {None, active.pid}
    /\ Go(o, "kill")
    /\ mine' = [mine EXCEPT ![o] = active]
    /\ UNCHANGED <<os, active, attempt, others, harm>>

\* The process is gone already.
StopGone(o) ==
    /\ pc[o] = "stop" /\ active # None
    /\ ~Alive(active.pid)
    /\ active' = None
    /\ Go(o, "drain")
    /\ UNCHANGED <<os, mine, attempt, others, harm>>

\* Another process has the pid or the port, or the proof was not obtained.
StopRefused(o) ==
    /\ pc[o] = "stop" /\ active # None
    /\ Fail(o)
    /\ UNCHANGED <<os, active, mine, others, harm>>

\* Mutant: the signal goes to the pid without reading the start time again.
KillActiveByPid(o) ==
    /\ pc[o] = "kill"
    /\ \/ Alive(mine[o].pid) /\ Kill(mine[o])
       \/ ~Alive(mine[o].pid) /\ UNCHANGED <<os, harm>>
    /\ active' = None
    /\ Go(o, "drain")
    /\ UNCHANGED <<mine, attempt, others>>

\* The start time is read again, then the signal is sent.
KillActive(o) ==
    /\ pc[o] = "kill"
    /\ \/ Alive(mine[o].pid) /\ Signal(mine[o])
       \/ ~Alive(mine[o].pid) /\ UNCHANGED <<os, harm>>
    /\ active' = None
    /\ Go(o, "drain")
    /\ UNCHANGED <<mine, attempt, others>>

KillRefused(o) ==
    /\ pc[o] = "kill"
    /\ Fail(o)
    /\ UNCHANGED <<os, active, mine, others, harm>>

-----------------------------------------------------------------------------
(* Waiting for the GPUs, the external body, and the port.                  *)

\* What follows a successful wait for the GPUs.
AfterDrain(o) ==
    IF kind[o] = "shutdown" THEN "release"
    ELSE IF kind[o] = "swap" THEN "port"
    ELSE IF kind[o] = "external" /\ attempt[o] = 0 THEN "body" ELSE "spawn"

\* Mutant: the deadline of _wait_vram_free is taken for an answer.
DrainedOrLate(o) ==
    /\ pc[o] = "drain"
    /\ Go(o, AfterDrain(o))
    /\ UNCHANGED <<os, active, mine, attempt, others, harm>>

\* _wait_vram_free succeeds.
Drained(o) ==
    /\ pc[o] = "drain" /\ GpuFree
    /\ \/ Go(o, AfterDrain(o)) /\ UNCHANGED attempt
       \/ \* the external session was cancelled while its worker was stopped
          /\ kind[o] = "external" /\ attempt[o] = 0 /\ "external" \in Cancellable
          /\ Go(o, "port") /\ attempt' = [attempt EXCEPT ![o] = 1]
    /\ UNCHANGED <<os, active, mine, others, harm>>

\* It times out.
DrainFails(o) ==
    /\ pc[o] = "drain"
    /\ Fail(o)
    /\ UNCHANGED <<os, active, mine, others, harm>>

\* The external workload ended, failed or was cancelled; the caller stopped its
\* runtime, whose memory may still be draining.
BodyEnds(o) ==
    /\ pc[o] = "body"
    /\ draining' \in BOOLEAN
    /\ Go(o, "port")
    /\ attempt' = [attempt EXCEPT ![o] = 1]
    /\ UNCHANGED <<proc, clock, listener, active, mine, others, harm>>

\* Mutant: a free port is enough to start the worker again.
PortFreeSpawns(o) ==
    /\ pc[o] = "port" /\ listener = None
    /\ Go(o, "spawn")
    /\ UNCHANGED <<os, active, mine, attempt, others, harm>>

PortFree(o) ==
    /\ pc[o] = "port" /\ listener = None
    /\ Go(o, IF kind[o] = "swap" THEN "spawn" ELSE "drain")
    /\ UNCHANGED <<os, active, mine, attempt, others, harm>>

\* start_default adopts a listener that is exactly its worker.
PortAdopts(o) ==
    /\ pc[o] = "port" /\ kind[o] = "start"
    /\ listener # None
    /\ proc[listener].kind = name[o]
    /\ Go(o, "adopt")
    /\ mine' = [mine EXCEPT ![o] =
                  [name |-> name[o], pid |-> listener, born |-> proc[listener].born]]
    /\ UNCHANGED <<os, active, attempt, others, harm>>

PortTaken(o) ==
    /\ pc[o] = "port" /\ listener # None
    /\ Fail(o)
    /\ UNCHANGED <<os, active, mine, others, harm>>

-----------------------------------------------------------------------------
(* Starting a worker and proving it healthy.                               *)

Spawn(o) ==
    /\ pc[o] = "spawn" /\ listener = None
    /\ \E p \in Pid :
         /\ Born(p, name[o])
         /\ mine' = [mine EXCEPT ![o] =
                       [name |-> name[o], pid |-> p, born |-> clock + 1]]
    /\ Go(o, "health")
    /\ UNCHANGED <<listener, draining, active, attempt, others, harm>>

\* Mutant: a restore that cannot start its worker does not count the attempt.
SpawnFailsAgain(o) ==
    /\ pc[o] = "spawn"
    /\ Go(o, IF kind[o] = "external" THEN "port" ELSE "release")
    /\ UNCHANGED <<os, active, mine, attempt, others, harm>>

\* Files or the port are not as required, or the process exited or was ended by
\* its own handle before it was identified; a restore tries that once more.
SpawnFails(o) ==
    /\ pc[o] = "spawn"
    /\ \/ Fail(o) /\ UNCHANGED draining
       \/ Fail(o) /\ listener = None /\ draining' = TRUE
       \/ /\ kind[o] = "external" /\ attempt[o] = 1 /\ listener = None
          /\ Go(o, "port") /\ attempt' = [attempt EXCEPT ![o] = 2]
          /\ draining' = TRUE
    /\ UNCHANGED <<proc, clock, listener, active, mine, others, harm>>

\* _wait_healthy returns and _set_active publishes the proved process.
Healthy(o) ==
    /\ pc[o] \in {"health", "adopt"}
    /\ Same(mine[o]) /\ listener = mine[o].pid
    /\ active' = mine[o]
    /\ Go(o, "release")
    /\ UNCHANGED <<os, mine, attempt, others, harm>>

\* Mutant: every exit during a restore is tried again.
UnhealthyRetries(o) ==
    /\ pc[o] = "health" /\ kind[o] = "external"
    /\ ~Alive(mine[o].pid)
    /\ Go(o, "port") /\ attempt' = [attempt EXCEPT ![o] = @ + 1]
    /\ UNCHANGED <<os, active, mine, others, harm>>

\* A timeout, a foreign listener, an exit. An adopted process is left alone, a
\* restored one that exited is tried a second time, a spawned one cleaned up.
Unhealthy(o) ==
    /\ pc[o] \in {"health", "adopt"}
    /\ \/ pc[o] = "adopt" /\ Go(o, "release") /\ UNCHANGED attempt
       \/ /\ pc[o] = "health" /\ kind[o] = "external" /\ attempt[o] = 1
          /\ ~Alive(mine[o].pid)
          /\ Go(o, "port") /\ attempt' = [attempt EXCEPT ![o] = 2]
       \/ pc[o] = "health" /\ Go(o, "cleanup") /\ UNCHANGED attempt
    /\ UNCHANGED <<os, active, mine, others, harm>>

\* start_default also forgets the active worker when it failed.
Forget(o) == active' = IF kind[o] = "start" THEN None ELSE active

CleanupVerified(o) ==
    /\ pc[o] = "cleanup"
    /\ Same(mine[o]) /\ listener \in {None, mine[o].pid}
    /\ Go(o, "ckill")
    /\ UNCHANGED <<os, active, mine, attempt, others, harm>>

CleanupKills(o) ==
    /\ pc[o] = "ckill"
    /\ Alive(mine[o].pid) /\ Signal(mine[o])
    /\ Forget(o)
    /\ Go(o, "release")
    /\ UNCHANGED <<mine, attempt, others>>

\* _cleanup_failed_spawn swallows every exception; the process may stay.
CleanupFails(o) ==
    /\ pc[o] \in {"cleanup", "ckill"}
    /\ Forget(o)
    /\ Go(o, "release")
    /\ UNCHANGED <<os, mine, attempt, others, harm>>

Release(o) ==
    /\ pc[o] = "release"
    /\ Return(o)
    /\ UNCHANGED <<os, active, leases, detached, closing, harm>>

-----------------------------------------------------------------------------
(* Cancellation of an operation whose to_thread jobs are not shielded.     *)

Job(at, o, r, clears) == [at |-> at, name |-> name[o], rec |-> r, clears |-> clears]

\* The job the cancelled task leaves behind.
Left(o) ==
    IF pc[o] = "stop" /\ active # None THEN {Job("stop", o, active, kind[o] # "recover")}
    ELSE IF pc[o] = "kill" THEN {Job("kill", o, mine[o], kind[o] # "recover")}
    ELSE IF pc[o] = "spawn" THEN {Job("spawn", o, None, FALSE)}
    ELSE IF pc[o] = "cleanup" THEN {Job("stop", o, mine[o], FALSE)}
    ELSE IF pc[o] = "ckill" THEN {Job("kill", o, mine[o], FALSE)} ELSE {}

Cancel(o) ==
    /\ kind[o] \in Cancellable \ {"external"}
    /\ pc[o] = "waiting" \/ pc[o] \in Held \ {"held", "release"}
    /\ Cardinality(detached \cup Left(o)) <= MaxDetached
    /\ detached' = detached \cup Left(o)
    /\ Return(o)
    /\ UNCHANGED <<os, active, leases, closing, harm>>

\* An external session can be cancelled while it waits, or in its body; its
\* stop and its restore are shielded.
CancelExternal(o) ==
    /\ kind[o] = "external" /\ "external" \in Cancellable
    /\ pc[o] = "waiting"
    /\ Return(o)
    /\ UNCHANGED <<os, active, leases, detached, closing, harm>>

rest == <<leases, opv, closing>>

DetachedVerifies(j) ==
    /\ j.at = "stop"
    /\ Same(j.rec) /\ listener \in {None, j.rec.pid}
    /\ detached' = (detached \ {j}) \cup 
                      {[at |-> "kill", name |-> j.name, rec |-> j.rec, clears |-> j.clears]}
    /\ UNCHANGED <<os, active, rest, harm>>

DetachedKills(j) ==
    /\ j.at = "kill"
    /\ Alive(j.rec.pid) /\ Signal(j.rec)
    /\ active' = IF j.clears THEN None ELSE active
    /\ detached' = detached \ {j}
    /\ UNCHANGED rest

DetachedSpawns(j) ==
    /\ j.at = "spawn" /\ listener = None
    /\ \E p \in Pid : Born(p, j.name)
    /\ detached' = detached \ {j}
    /\ UNCHANGED <<listener, draining, active, rest, harm>>

\* The process is gone, or is another one, or the call fails.
DetachedEnds(j) ==
    /\ active' = IF j.at # "spawn" /\ j.clears /\ ~Alive(j.rec.pid) THEN None ELSE active
    /\ detached' = detached \ {j}
    /\ UNCHANGED <<os, rest, harm>>

Detached ==
    \E j \in detached :
        DetachedVerifies(j) \/ DetachedKills(j) \/ DetachedSpawns(j) \/ DetachedEnds(j)

-----------------------------------------------------------------------------

Stop(o)   == StopNothing(o) \/ StopVerified(o) \/ StopGone(o) \/ StopRefused(o)
             \/ KillActive(o) \/ KillRefused(o)
Free(o)   == Drained(o) \/ DrainFails(o) \/ BodyEnds(o)
             \/ PortFree(o) \/ PortAdopts(o) \/ PortTaken(o)
Launch(o) == Spawn(o) \/ SpawnFails(o) \/ Healthy(o) \/ Unhealthy(o)
             \/ CleanupVerified(o) \/ CleanupKills(o) \/ CleanupFails(o)

Run(o) == Start(o) \/ Stop(o) \/ Free(o) \/ Launch(o) \/ Release(o)

Next ==
    \/ Environment
    \/ \E c \in Client : BeginInference(c) \/ EndInference(c)
    \/ \E o \in Op, k \in Kinds, n \in Worker : Request(o, k, n)
    \/ \E o \in Op : Acquire(o) \/ Run(o) \/ Cancel(o) \/ CancelExternal(o)
    \/ Detached

Spec == Init /\ [][Next]_vars

\* Every job of an operation has its own timeout, and the callers of
\* external_workload_session bound their bodies.
FairSpec == Spec /\ \A o \in Op : WF_vars(Run(o))

-----------------------------------------------------------------------------
(* Properties.                                                             *)

\* A lifecycle operation runs alone: no other operation, no inference request.
Exclusive ==
    /\ \A o, q \in Holder : o = q
    /\ Holder # {} => leases = {}

\* No process that is not one of ours is ever signalled, although pids are reused
\* and processes come and go between the proof and the signal ("A listener that
\* does not satisfy the complete contract is foreign and is never adopted or
\* stopped").
NeverForeign == "foreign" \notin harm

\* No worker is signalled while a request is inside inference_session
\* ("Prevent a swap from terminating the worker during one HTTP attempt").
LeaseProtects == "leased" \notin harm

Workers == {p \in Pid : Alive(p) /\ proc[p].kind \in Worker}

\* One tenant of the GPUs: no second worker process, none beside an external
\* workload, and none beside the published worker, also when that one has died
\* ("The target machine can hold only one 30B worker at a time").
OneTenant ==
    /\ \A p, q \in Workers : p = q
    /\ (\E o \in Op : pc[o] = "body") => Workers = {}
    /\ active # None => Workers \subseteq {active.pid}

\* Who has the GPUs and the lifecycle: Exclusive and OneTenant, on states that
\* have their types (router.py:244-280, 381-402, 464-573).
Tenancy == TypeOK /\ Exclusive /\ OneTenant

\* A worker process appears only when the GPU memory of every earlier one was
\* released ("The next worker must not start until every configured card is
\* free").
StartsOnFreeGpu ==
    [][\A p \in Pid : ~Alive(p) /\ proc'[p] # None => proc'[p].kind = Foreign \/ GpuFree]_vars

\* An operation that holds the lease gives it back, whatever fails and however
\* often a restored worker exits while it loads.
LeaseReturns == \A o \in Op : pc[o] \in Held ~> pc[o] \notin Held
=============================================================================
