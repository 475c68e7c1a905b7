-------------------------- MODULE ModelRouterProofs --------------------------
(***************************************************************************)
(* Theorems about the worker lifecycle, for every number of workers, pids, *)
(* processes, operations and requests: no foreign process is ever hit, and *)
(* the lease excludes, whatever is cancelled; and where nothing is         *)
(* cancelled but external sessions, and nothing is swapped, one worker has *)
(* the GPUs, it is never hit under a request, and it starts on free GPUs.  *)
(***************************************************************************)
EXTENDS MCModelRouters, TLAPS

-----------------------------------------------------------------------------
(* Types, with what they need.                                             *)

\* Steps that work on a recorded process.
OnRecord == {"kill", "health", "adopt", "cleanup", "ckill"}

\* A job, or an operation at such a step, has its record.
Recorded ==
    /\ \A o \in Op : pc[o] \in OnRecord => mine[o] # None
    /\ \A j \in detached : j.at # "spawn" => j.rec # None

\* Whoever listens lives.
ListenerLives == listener # None => Alive(listener)

TypeInv == TypeOK /\ Recorded /\ ListenerLives

\* The types of the system: Init has them.
LEMMA InitTypes == Init => TypeInv
<1> SUFFICES ASSUME Init PROVE TypeInv
  OBVIOUS
<1>1. /\ proc \in [Pid -> Processes \cup {None}] /\ clock \in 0..MaxBorn
      /\ listener \in Pid \cup {None} /\ ListenerLives
  <2>1. CASE proc = [p \in Pid |-> None] /\ clock = 0 /\ listener = None
    BY <2>1, ModelRouterAssumption DEF ListenerLives
  <2>2. ASSUME NEW p \in Pid, NEW k \in Worker \cup {Foreign},
               proc = [q \in Pid |-> IF q = p THEN [kind |-> k, born |-> 1] ELSE None],
               clock = 1, listener \in {None, p}
        PROVE  /\ proc \in [Pid -> Processes \cup {None}] /\ clock \in 0..MaxBorn
               /\ listener \in Pid \cup {None} /\ ListenerLives
    <3>1. [kind |-> k, born |-> 1] \in Processes
      BY ModelRouterAssumption DEF Processes
    <3> QED
      BY <2>2, <3>1, ModelRouterAssumption DEF ListenerLives, Alive
  <2> QED
    BY <2>1, <2>2 DEF Init
<1>2. TypeOK
  <2>1. /\ pc \in [Op -> {"idle", "waiting"} \cup Held] /\ kind \in [Op -> AllKinds]
        /\ name \in [Op -> Worker] /\ mine \in [Op -> Records \cup {None}]
        /\ attempt \in [Op -> 0..2]
    BY ModelRouterAssumption DEF Init, AllKinds
  <2>2. /\ draining \in BOOLEAN /\ active \in Records \cup {None} /\ leases \subseteq Client
        /\ detached \subseteq Jobs /\ closing \in BOOLEAN
        /\ harm \subseteq {"foreign", "leased"}
    BY DEF Init
  <2> QED
    BY <1>1, <2>1, <2>2 DEF TypeOK
<1>3. Recorded
  BY DEF Init, Recorded, OnRecord
<1> QED
  BY <1>1, <1>2, <1>3 DEF TypeInv

\* The machine itself keeps them: worker processes exit, foreign ones start, either listens.
LEMMA EnvironmentTypes == TypeInv /\ Environment => TypeInv'
<1> SUFFICES ASSUME TypeInv, Environment PROVE TypeInv'
  OBVIOUS
<1> USE ModelRouterAssumption
  DEF TypeInv, TypeOK, Recorded, ListenerLives, Alive, Processes, router, opv
<1>1. ASSUME NEW p \in Pid, WorkerExits(p) PROVE TypeInv'
  BY <1>1 DEF WorkerExits, Die
<1>2. ASSUME NEW p \in Pid, ForeignStarts(p) PROVE TypeInv'
  BY <1>2 DEF ForeignStarts, Born
<1>3. ASSUME NEW p \in Pid, Listens(p) PROVE TypeInv'
  BY <1>3 DEF Listens
<1>4. CASE VramReleased
  BY <1>4 DEF VramReleased
<1> QED
  BY <1>1, <1>2, <1>3, <1>4 DEF Environment

\* So do requests and the queue for the lease.
LEMMA LeaseTypes ==
  ASSUME TypeInv,
         \/ \E c \in Client : BeginInference(c) \/ EndInference(c)
         \/ \E o \in Op, k \in Kinds, n \in Worker : Request(o, k, n)
         \/ \E o \in Op : Acquire(o) \/ Release(o) \/ Start(o)
  PROVE  TypeInv'
<1> USE ModelRouterAssumption
  DEF TypeInv, TypeOK, Recorded, ListenerLives, Alive, Processes, os, opv, Held, OnRecord
<1>1. ASSUME NEW c \in Client, BeginInference(c) \/ EndInference(c) PROVE TypeInv'
  BY ZenonT(40), <1>1 DEF BeginInference, EndInference
<1>2. ASSUME NEW o \in Op, NEW k \in Kinds, NEW n \in Worker, Request(o, k, n) PROVE TypeInv'
  BY <1>2 DEF Request, AllKinds
<1>3. ASSUME NEW o \in Op, Acquire(o) PROVE TypeInv'
  BY <1>3 DEF Acquire, Go, Return, AllKinds
<1>4. ASSUME NEW o \in Op, Release(o) PROVE TypeInv'
  BY <1>4 DEF Release, Go, Return, AllKinds
<1>5. ASSUME NEW o \in Op, Start(o) PROVE TypeInv'
  BY <1>5 DEF Start, recover, Go, AllKinds, Records
<1> QED
  BY <1>1, <1>2, <1>3, <1>4, <1>5

\* Stopping a worker, and what its stop leaves, keep the types.
LEMMA StopTypes == ASSUME TypeInv, NEW o \in Op, Stop(o) PROVE TypeInv'
<1> USE ModelRouterAssumption
  DEF TypeInv, TypeOK, Recorded, ListenerLives, Alive, os, Held, OnRecord, others, Go
<1>1. CASE StopNothing(o)
  BY <1>1 DEF StopNothing
<1>2. CASE StopVerified(o)
  BY <1>2 DEF StopVerified
<1>3. CASE StopGone(o)
  BY <1>3 DEF StopGone
<1>4. CASE StopRefused(o)
  BY <1>4 DEF StopRefused, Fail
<1>5. CASE KillActive(o)
  <2>1. CASE Alive(mine[o].pid) /\ Signal(mine[o])
    BY <1>5, <2>1 DEF KillActive, Signal, Kill, Die, Records
  <2>2. CASE ~Alive(mine[o].pid) /\ UNCHANGED <<os, harm>>
    BY <1>5, <2>2 DEF KillActive
  <2> QED
    BY <1>5, <2>1, <2>2 DEF KillActive
<1>6. CASE KillRefused(o)
  BY <1>6 DEF KillRefused, Fail
<1> QED
  BY <1>1, <1>2, <1>3, <1>4, <1>5, <1>6 DEF Stop

\* So do the waits for the GPUs.
LEMMA FreeTypes == ASSUME TypeInv, NEW o \in Op, Free(o) PROVE TypeInv'
<1> USE ModelRouterAssumption
  DEF TypeInv, TypeOK, Recorded, ListenerLives, Alive, os, Held, OnRecord, others, Go
<1>1. CASE Drained(o)
  BY <1>1 DEF Drained, AfterDrain
<1>2. CASE DrainFails(o)
  BY <1>2 DEF DrainFails, Fail
<1>3. CASE BodyEnds(o)
  BY <1>3 DEF BodyEnds
<1>4. CASE PortFree(o)
  BY <1>4 DEF PortFree
<1>5. CASE PortAdopts(o)
  BY <1>5 DEF PortAdopts, Records, Processes
<1>6. CASE PortTaken(o)
  BY <1>6 DEF PortTaken, Fail
<1> QED
  BY <1>1, <1>2, <1>3, <1>4, <1>5, <1>6 DEF Free

\* So do spawning a worker and waiting for it to be proved.
LEMMA LaunchTypes == ASSUME TypeInv, NEW o \in Op, Launch(o) PROVE TypeInv'
<1> USE ModelRouterAssumption
  DEF TypeInv, TypeOK, Recorded, ListenerLives, Alive, os, Held, OnRecord, others, Go
<1>1. CASE Spawn(o)
  BY <1>1 DEF Spawn, Born, Records, Processes
<1>2. CASE SpawnFails(o)
  <2>1. draining' \in BOOLEAN
    BY <1>2 DEF SpawnFails
  <2>2. \/ pc' = [pc EXCEPT ![o] = "port"] \/ pc' = [pc EXCEPT ![o] = "release"]
    BY <1>2 DEF SpawnFails, Fail
  <2>3. attempt' \in [Op -> 0..2]
    BY <1>2 DEF SpawnFails, Fail
  <2> QED
    BY <1>2, <2>1, <2>2, <2>3 DEF SpawnFails
<1>3. CASE Healthy(o)
  BY <1>3 DEF Healthy
<1>4. CASE Unhealthy(o)
  BY <1>4 DEF Unhealthy
<1>5. CASE CleanupVerified(o)
  BY <1>5 DEF CleanupVerified
<1>6. CASE CleanupKills(o)
  BY <1>6 DEF CleanupKills, Signal, Kill, Die, Forget, Records
<1>7. CASE CleanupFails(o)
  BY <1>7 DEF CleanupFails, Forget
<1> QED
  BY <1>1, <1>2, <1>3, <1>4, <1>5, <1>6, <1>7 DEF Launch

\* So does a cancellation, wherever it finds the operation.
LEMMA CancelTypes ==
  ASSUME TypeInv, NEW o \in Op, Cancel(o) \/ CancelExternal(o)
  PROVE  TypeInv'
<1> USE ModelRouterAssumption
  DEF TypeInv, TypeOK, Recorded, ListenerLives, Alive, os, Held, OnRecord, Go, Return, AllKinds
<1>1. CASE Cancel(o)
  <2>1. Left(o) \subseteq Jobs /\ \A j \in Left(o) : j.at # "spawn" => j.rec # None
    <3>1. CASE pc[o] = "stop" /\ active # None
      BY <3>1 DEF Left, Job, Jobs
    <3>2. CASE pc[o] = "kill"
      BY <3>2 DEF Left, Job, Jobs
    <3>3. CASE pc[o] = "spawn"
      BY <3>3 DEF Left, Job, Jobs
    <3>5. CASE pc[o] = "cleanup"
      BY <3>5 DEF Left, Job, Jobs
    <3>6. CASE pc[o] = "ckill"
      BY <3>6 DEF Left, Job, Jobs
    <3>4. CASE ~(pc[o] = "stop" /\ active # None)
               /\ pc[o] \notin {"kill", "spawn", "cleanup", "ckill"}
      BY <3>4 DEF Left
    <3> QED
      BY <3>1, <3>2, <3>3, <3>4, <3>5, <3>6
  <2> QED
    BY <1>1, <2>1 DEF Cancel
<1>2. CASE CancelExternal(o)
  BY <1>2 DEF CancelExternal
<1> QED
  BY <1>1, <1>2

\* So do the tasks that a cancelled operation left running.
LEMMA DetachedTypes == TypeInv /\ Detached => TypeInv'
<1> SUFFICES ASSUME TypeInv, Detached PROVE TypeInv'
  OBVIOUS
<1> USE ModelRouterAssumption
  DEF TypeInv, TypeOK, Recorded, ListenerLives, Alive, os, opv, rest, Jobs
<1>1. ASSUME NEW j \in detached, DetachedVerifies(j) PROVE TypeInv'
  BY <1>1 DEF DetachedVerifies
<1>2. ASSUME NEW j \in detached, DetachedKills(j) PROVE TypeInv'
  BY <1>2 DEF DetachedKills, Signal, Kill, Die, Records
<1>3. ASSUME NEW j \in detached, DetachedSpawns(j) PROVE TypeInv'
  BY <1>3 DEF DetachedSpawns, Born, Processes
<1>4. ASSUME NEW j \in detached, DetachedEnds(j) PROVE TypeInv'
  BY <1>4 DEF DetachedEnds
<1> QED
  BY <1>1, <1>2, <1>3, <1>4 DEF Detached

\* No step breaks the types.
LEMMA NextTypes == TypeInv /\ [Next]_vars => TypeInv'
<1> SUFFICES ASSUME TypeInv, [Next]_vars PROVE TypeInv'
  OBVIOUS
<1>1. CASE Next
  BY <1>1, EnvironmentTypes, LeaseTypes, StopTypes, FreeTypes, LaunchTypes, CancelTypes,
     DetachedTypes DEF Next, Run
<1>2. CASE UNCHANGED vars
  BY <1>2 DEF vars, os, opv, TypeInv, TypeOK, Recorded, ListenerLives, Alive
<1> QED
  BY <1>1, <1>2

\* Every state of the router has its types.
THEOREM Types == Spec => []TypeOK
<1>1. TypeInv => TypeOK
  BY DEF TypeInv
<1> QED
  BY <1>1, InitTypes, NextTypes, PTL DEF Spec

-----------------------------------------------------------------------------
(* Whom a signal hits. Start times tell processes apart.                   *)

\* A record made of one of ours is never the record of a process that is not.
Proved(r) ==
    /\ r.born <= clock
    /\ Alive(r.pid) /\ proc[r.pid].born = r.born => proc[r.pid].kind \in Worker

\* Every record somebody may act on.
Known == {r \in Records : \/ r = active
                          \/ \E o \in Op : r = mine[o]
                          \/ \E j \in detached : r = j.rec}

ProcessesDated == \A p \in Pid : Alive(p) => proc[p].born <= clock

IdentityInv ==
    /\ TypeInv /\ ProcessesDated /\ NeverForeign
    /\ \A r \in Known : Proved(r)

\* Processes end, or start at a later time than any before.
OsMoves ==
    /\ clock <= clock'
    /\ \A p \in Pid : \/ proc'[p] \in {proc[p], None}
                      \/ clock < clock' /\ proc'[p].born = clock'

\* What a step does to identities: the machine moves, the records are those known
\* before or of a process of ours, and no foreign process is hit.
KeepsIdentity ==
    /\ OsMoves
    /\ \A r \in Known' : r \in Known \/ Proved(r)'
    /\ NeverForeign'

\* A proof stays one, however often a pid is used again.
LEMMA ProofsLast ==
  ASSUME IdentityInv, TypeOK', KeepsIdentity
  PROVE  ProcessesDated' /\ \A r \in Known' : Proved(r)'
<1> USE DEF IdentityInv, TypeInv, TypeOK
<1>1. ProcessesDated'
  BY ModelRouterAssumption DEF ProcessesDated, Alive, KeepsIdentity, OsMoves, Processes
<1>2. ASSUME NEW r \in Known', r \in Known PROVE Proved(r)'
  <2>1. r \in Records /\ Proved(r) /\ r.pid \in Pid /\ r.born \in Int
    BY <1>2 DEF Known, Records
  <2>2. r.born <= clock'
    BY <2>1 DEF Proved, KeepsIdentity, OsMoves
  <2>3. ASSUME Alive(r.pid)', proc'[r.pid].born = r.born PROVE proc'[r.pid].kind \in Worker
    BY <2>1, <2>3, ModelRouterAssumption DEF Proved, KeepsIdentity, OsMoves, Alive
  <2> QED
    BY <2>2, <2>3 DEF Proved
<1> QED
  BY <1>1, <1>2 DEF KeepsIdentity

\* Steps of the machine, of requests and of waiting change no record.
LEMMA IdentityOutside ==
  ASSUME IdentityInv,
         \/ Environment
         \/ \E c \in Client : BeginInference(c) \/ EndInference(c)
         \/ \E o \in Op, k \in Kinds, n \in Worker : Request(o, k, n)
         \/ \E o \in Op : Acquire(o) \/ Start(o) \/ Free(o) \/ Release(o) \/ CancelExternal(o)
  PROVE  KeepsIdentity
<1> USE ModelRouterAssumption
  DEF IdentityInv, TypeInv, TypeOK, Known, KeepsIdentity, OsMoves, NeverForeign, os, opv, router
<1>1. ASSUME NEW p \in Pid, WorkerExits(p) PROVE KeepsIdentity
  BY <1>1 DEF WorkerExits, Die
<1>2. ASSUME NEW p \in Pid, ForeignStarts(p) PROVE KeepsIdentity
  BY <1>2 DEF ForeignStarts, Born
<1>3. ASSUME NEW p \in Pid, Listens(p) PROVE KeepsIdentity
  BY <1>3 DEF Listens
<1>4. CASE VramReleased
  BY <1>4 DEF VramReleased
<1>5. ASSUME NEW c \in Client, BeginInference(c) \/ EndInference(c) PROVE KeepsIdentity
  BY <1>5 DEF BeginInference, EndInference
<1>6. ASSUME NEW o \in Op, NEW k \in Kinds, NEW n \in Worker, Request(o, k, n)
      PROVE KeepsIdentity
  BY <1>6 DEF Request
<1>7. ASSUME NEW o \in Op, Acquire(o) \/ Release(o) \/ CancelExternal(o) PROVE KeepsIdentity
  BY <1>7 DEF Acquire, Release, CancelExternal, Return
<1>8. ASSUME NEW o \in Op, Start(o) PROVE KeepsIdentity
  BY <1>8 DEF Start, recover
<1>9. ASSUME NEW o \in Op, Free(o) PROVE KeepsIdentity
  <2>1. CASE Drained(o) \/ DrainFails(o) \/ PortFree(o) \/ PortTaken(o)
    BY <2>1 DEF Drained, DrainFails, PortFree, PortTaken, others
  <2>2. CASE BodyEnds(o)
    BY <2>2 DEF BodyEnds, others
  <2>3. CASE PortAdopts(o)
    <3>1. Alive(listener) /\ proc[listener] \in Processes
      BY <2>3 DEF PortAdopts, ListenerLives, Alive
    <3>2. ASSUME NEW r, r = mine'[o], mine'[o] \in Records PROVE Proved(r)'
      BY <2>3, <3>1, <3>2 DEF PortAdopts, Proved, ProcessesDated, Alive, Processes
    <3> QED
      BY <2>3, <3>2 DEF PortAdopts, others
  <2> QED
    BY <1>9, <2>1, <2>2, <2>3 DEF Free
<1> QED
  BY <1>1, <1>2, <1>3, <1>4, <1>5, <1>6, <1>7, <1>8, <1>9 DEF Environment

\* The start time is read before a signal: it hits one of ours.
LEMMA SignalHitsOurs ==
  ASSUME IdentityInv, NEW r \in Known, Alive(r.pid), Signal(r)
  PROVE  OsMoves /\ NeverForeign'
<1> USE ModelRouterAssumption DEF IdentityInv, TypeInv, TypeOK
<1>1. r.pid \in Pid /\ proc[r.pid].kind # Foreign
  BY DEF Known, Records, Proved, Signal
<1> QED
  BY <1>1 DEF Signal, Kill, Die, OsMoves, NeverForeign

\* An operation that stops a worker signals only a process it identified.
LEMMA IdentityStop == ASSUME IdentityInv, NEW o \in Op, Stop(o) PROVE KeepsIdentity
<1> USE ModelRouterAssumption
  DEF IdentityInv, TypeInv, TypeOK, Known, KeepsIdentity, OsMoves, NeverForeign, os, others
<1>1. CASE StopNothing(o) \/ StopRefused(o) \/ KillRefused(o)
  BY <1>1 DEF StopNothing, StopRefused, KillRefused
<1>2. CASE StopVerified(o)
  BY <1>2 DEF StopVerified
<1>3. CASE StopGone(o)
  BY <1>3 DEF StopGone
<1>4. CASE KillActive(o)
  <2>1. mine[o] \in Known
    BY <1>4 DEF KillActive, Recorded, OnRecord
  <2>2. OsMoves /\ NeverForeign'
    BY <1>4, <2>1, SignalHitsOurs DEF KillActive
  <2> QED
    BY <1>4, <2>2 DEF KillActive
<1> QED
  BY <1>1, <1>2, <1>3, <1>4 DEF Stop

\* An operation that spawns or proves a worker signals only that worker.
LEMMA IdentityLaunch == ASSUME IdentityInv, NEW o \in Op, Launch(o) PROVE KeepsIdentity
<1> USE ModelRouterAssumption
  DEF IdentityInv, TypeInv, TypeOK, Known, KeepsIdentity, OsMoves, NeverForeign, os, others
<1>1. CASE Spawn(o)
  <2>1. PICK p \in Pid : Born(p, name[o]) /\ mine' = [mine EXCEPT ![o] =
                            [name |-> name[o], pid |-> p, born |-> clock + 1]]
    BY <1>1 DEF Spawn
  <2>2. /\ proc' = [proc EXCEPT ![p] = [kind |-> name[o], born |-> clock + 1]]
        /\ clock' = clock + 1 /\ name[o] \in Worker
    BY <2>1 DEF Born
  <2>3. OsMoves
    BY <2>2
  <2>4. ASSUME NEW r, r = [name |-> name[o], pid |-> p, born |-> clock + 1] PROVE Proved(r)'
    <3>1. proc'[r.pid] = [kind |-> name[o], born |-> clock + 1] /\ r.born = clock'
      BY <2>2, <2>4
    <3> QED
      BY <2>2, <3>1 DEF Proved
  <2>5. \A r \in Known' : r \in Known \/ r = [name |-> name[o], pid |-> p, born |-> clock + 1]
    BY <1>1, <2>1 DEF Spawn
  <2>6. NeverForeign'
    BY <1>1 DEF Spawn
  <2> QED
    BY <2>3, <2>4, <2>5, <2>6
<1>2. CASE SpawnFails(o) \/ Unhealthy(o) \/ CleanupVerified(o)
  BY <1>2 DEF SpawnFails, Unhealthy, CleanupVerified
<1>3. CASE Healthy(o) \/ CleanupFails(o)
  BY <1>3 DEF Healthy, CleanupFails, Forget
<1>4. CASE CleanupKills(o)
  <2>1. mine[o] \in Known
    BY <1>4 DEF CleanupKills, Recorded, OnRecord
  <2>2. OsMoves /\ NeverForeign'
    BY <1>4, <2>1, SignalHitsOurs DEF CleanupKills
  <2> QED
    BY <1>4, <2>2 DEF CleanupKills, Forget
<1> QED
  BY <1>1, <1>2, <1>3, <1>4 DEF Launch

\* The records a cancelled task leaves to its thread were its own.
LEMMA IdentityCancel == ASSUME IdentityInv, NEW o \in Op, Cancel(o) PROVE KeepsIdentity
<1> USE ModelRouterAssumption DEF IdentityInv, TypeInv, TypeOK
<1>1. \A j \in Left(o) : j.rec \in Records => j.rec \in Known
  BY DEF Left, Job, Known
<1>2. \A r \in Known' : r \in Known
  BY <1>1 DEF Cancel, Return, Known
<1> QED
  BY <1>2 DEF Cancel, KeepsIdentity, OsMoves, NeverForeign, os

\* A task left behind by a cancelled operation signals only its own worker.
LEMMA IdentityDetached == IdentityInv /\ Detached => KeepsIdentity
<1> SUFFICES ASSUME IdentityInv, NEW j \in detached,
               DetachedVerifies(j) \/ DetachedKills(j) \/ DetachedSpawns(j) \/ DetachedEnds(j)
             PROVE  KeepsIdentity
  BY DEF Detached
<1> USE ModelRouterAssumption
  DEF IdentityInv, TypeInv, TypeOK, Known, KeepsIdentity, OsMoves, NeverForeign, os, opv, rest, Jobs
<1>1. CASE DetachedVerifies(j)
  BY <1>1 DEF DetachedVerifies
<1>2. CASE DetachedKills(j)
  <2>1. j.rec \in Known
    BY <1>2 DEF DetachedKills, Recorded
  <2>2. OsMoves /\ NeverForeign'
    BY <1>2, <2>1, SignalHitsOurs DEF DetachedKills
  <2> QED
    BY <1>2, <2>2 DEF DetachedKills
<1>3. CASE DetachedSpawns(j)
  BY <1>3 DEF DetachedSpawns, Born
<1>4. CASE DetachedEnds(j)
  BY <1>4 DEF DetachedEnds
<1> QED
  BY <1>1, <1>2, <1>3, <1>4

\* Nothing is signalled yet.
LEMMA InitIdentity == Init => IdentityInv
<1> SUFFICES ASSUME Init PROVE IdentityInv
  OBVIOUS
<1>1. TypeInv
  BY InitTypes
<1>2. ProcessesDated
  BY ModelRouterAssumption DEF Init, ProcessesDated, Alive
<1>3. Known = {}
  BY ModelRouterAssumption DEF Init, Known
<1> QED
  BY <1>1, <1>2, <1>3 DEF IdentityInv, Init, NeverForeign

\* No step signals a process that is not the core's worker.
LEMMA NextIdentity == IdentityInv /\ [Next]_vars => IdentityInv'
<1> SUFFICES ASSUME IdentityInv, [Next]_vars PROVE IdentityInv'
  OBVIOUS
<1>1. TypeInv'
  BY NextTypes DEF IdentityInv
<1>2. CASE Next
  <2>1. KeepsIdentity
    BY <1>2, IdentityOutside, IdentityStop, IdentityLaunch, IdentityCancel, IdentityDetached
       DEF Next, Run
  <2> QED
    BY <1>1, <2>1, ProofsLast DEF IdentityInv, TypeInv, KeepsIdentity
<1>3. CASE UNCHANGED vars
  BY <1>1, <1>3
     DEF vars, os, opv, IdentityInv, ProcessesDated, Known, Proved, NeverForeign, Alive
<1> QED
  BY <1>2, <1>3

\* No process that is not one of ours is ever signalled, whatever is cancelled and
\* however pids are used again between a proof and its signal (router.py:464-573).
THEOREM ForeignIsSafe == Spec => []NeverForeign
<1>1. IdentityInv => NeverForeign
  BY DEF IdentityInv
<1> QED
  BY <1>1, InitIdentity, NextIdentity, PTL DEF Spec

-----------------------------------------------------------------------------
(* Who holds the lease.                                                    *)

\* What a step of an operation that holds the lease does to all of them: it moves
\* on or returns, and no request, job or shutdown is touched.
Moves(o) ==
    /\ pc[o] \in Held
    /\ \E s \in Held \cup {"idle"} : pc' = [pc EXCEPT ![o] = s]
    /\ UNCHANGED <<leases, detached, closing>>
    /\ \/ kind' = kind
       \/ pc' = [pc EXCEPT ![o] = "idle"] /\ kind' = [kind EXCEPT ![o] = "start"]

\* An operation at work moves alone, and keeps or gives back the lease.
LEMMA RunMoves == ASSUME TypeOK, NEW o \in Op, Run(o) PROVE Moves(o)
<1> USE DEF TypeOK, Moves, Held, Go, others
<1>1. CASE Start(o)
  BY <1>1 DEF Start, recover
<1>2. CASE Stop(o)
  <2>1. CASE StopNothing(o) \/ StopVerified(o) \/ StopGone(o)
    BY <2>1 DEF StopNothing, StopVerified, StopGone
  <2>2. CASE StopRefused(o) \/ KillRefused(o)
    BY <2>2 DEF StopRefused, KillRefused, Fail
  <2>3. CASE KillActive(o)
    BY <2>3 DEF KillActive
  <2> QED
    BY <1>2, <2>1, <2>2, <2>3 DEF Stop
<1>3. CASE Free(o)
  <2>1. CASE Drained(o)
    BY <2>1 DEF Drained, AfterDrain
  <2>2. CASE DrainFails(o) \/ PortTaken(o)
    BY <2>2 DEF DrainFails, PortTaken, Fail
  <2>3. CASE BodyEnds(o) \/ PortFree(o) \/ PortAdopts(o)
    BY <2>3 DEF BodyEnds, PortFree, PortAdopts
  <2> QED
    BY <1>3, <2>1, <2>2, <2>3 DEF Free
<1>4. CASE Launch(o)
  <2>1. CASE Spawn(o) \/ Healthy(o) \/ Unhealthy(o)
    BY <2>1 DEF Spawn, Healthy, Unhealthy
  <2>2. CASE SpawnFails(o)
    BY <2>2 DEF SpawnFails, Fail
  <2>3. CASE CleanupVerified(o) \/ CleanupKills(o) \/ CleanupFails(o)
    BY <2>3 DEF CleanupVerified, CleanupKills, CleanupFails
  <2> QED
    BY <1>4, <2>1, <2>2, <2>3 DEF Launch
<1>5. CASE Release(o)
  BY <1>5 DEF Release, Return
<1> QED
  BY <1>1, <1>2, <1>3, <1>4, <1>5 DEF Run

\* Outside an operation's own steps, the lease is only taken when it is free.
LEMMA NextExclusive == TypeOK /\ Exclusive /\ [Next]_vars => Exclusive'
<1> SUFFICES ASSUME TypeOK, Exclusive, [Next]_vars PROVE Exclusive'
  OBVIOUS
<1> USE DEF TypeOK, Exclusive, Holder, Held
<1>1. CASE Environment \/ Detached \/ UNCHANGED vars
  <2>1. UNCHANGED <<pc, leases>>
    BY <1>1 DEF Environment, WorkerExits, ForeignStarts, Listens, VramReleased, router, opv, rest,
       Detached, DetachedVerifies, DetachedKills, DetachedSpawns, DetachedEnds, vars
  <2> QED
    BY <2>1
<1>2. ASSUME NEW c \in Client, BeginInference(c) \/ EndInference(c) PROVE Exclusive'
  BY <1>2 DEF BeginInference, EndInference, opv
<1>3. ASSUME NEW o \in Op, NEW k \in Kinds, NEW n \in Worker, Request(o, k, n)
      PROVE Exclusive'
  BY <1>3 DEF Request
<1>4. ASSUME NEW o \in Op, Acquire(o) PROVE Exclusive'
  BY <1>4 DEF Acquire, Go, Return
<1>5. ASSUME NEW o \in Op, Run(o) PROVE Exclusive'
  BY <1>5, RunMoves DEF Moves
<1>6. ASSUME NEW o \in Op, Cancel(o) \/ CancelExternal(o) PROVE Exclusive'
  BY <1>6 DEF Cancel, CancelExternal, Go, Return
<1> QED
  BY <1>1, <1>2, <1>3, <1>4, <1>5, <1>6 DEF Next

\* A lifecycle operation runs alone: beside it no other and no request, whatever is
\* cancelled (router.py:244-280).
THEOREM LeaseExcludes == Spec => []Exclusive
<1>1. Init => Exclusive
  BY DEF Init, Exclusive, Holder, Held
<1>2. TypeInv /\ Exclusive /\ [Next]_vars => (TypeInv /\ Exclusive)'
  BY NextTypes, NextExclusive DEF TypeInv
<1> QED
  BY <1>1, <1>2, InitTypes, PTL DEF Spec

-----------------------------------------------------------------------------
(* Shielded operations: what is cancelled is an external session, whose stop *)
(* and restore are shielded, and nothing is swapped.                         *)

Shielding == Cancellable \subseteq {"external"} /\ "swap" \notin Kinds

\* No job runs without its task, and nothing is swapped.
Quiet == detached = {} /\ \A o \in Op : kind[o] # "swap"

\* The start of the service is one operation, and alone.
BootOnly  == \A o \in Op : kind[o] = "start" /\ pc[o] # "idle" => o = Boot
BootAlone == Booting => \A o \in Op : o # Boot => pc[o] = "idle"

ControlInv == TypeInv /\ Exclusive /\ Quiet /\ BootOnly /\ BootAlone

\* At the start nobody holds the lease.
LEMMA InitControl == Init => ControlInv
<1> SUFFICES ASSUME Init PROVE ControlInv
  OBVIOUS
<1>1. Exclusive /\ Quiet /\ BootOnly /\ BootAlone
  BY DEF Init, Exclusive, Holder, Held, Quiet, BootOnly, BootAlone
<1> QED
  BY <1>1, InitTypes DEF ControlInv

\* No step breaks what ties an operation's place to the state it works on.
LEMMA NextControl == ASSUME Shielding, ControlInv, [Next]_vars PROVE ControlInv'
<1> USE ModelRouterAssumption DEF ControlInv
<1>1. TypeInv' /\ Exclusive'
  BY NextTypes, NextExclusive DEF TypeInv
<1> DEFINE Parts == Quiet /\ BootOnly /\ BootAlone
<1> USE DEF TypeInv, TypeOK, Quiet, BootOnly, BootAlone, Booting
<1>2. CASE Environment \/ Detached \/ UNCHANGED vars
  <2>1. UNCHANGED <<pc, kind, detached>>
    BY <1>2 DEF Environment, WorkerExits, ForeignStarts, Listens, VramReleased, router, opv,
       Detached, vars
  <2> QED
    BY <1>1, <2>1
<1>3. ASSUME NEW c \in Client, BeginInference(c) \/ EndInference(c) PROVE Parts'
  BY <1>3 DEF BeginInference, EndInference, opv
<1>4. ASSUME NEW o \in Op, NEW k \in Kinds, NEW n \in Worker, Request(o, k, n) PROVE Parts'
  BY <1>4 DEF Request, Shielding
<1>5. ASSUME NEW o \in Op, Acquire(o) PROVE Parts'
  BY <1>5 DEF Acquire, Go, Return
<1>6. ASSUME NEW o \in Op, Run(o) PROVE Parts'
  BY <1>6, RunMoves DEF Moves, Held
<1>7. ASSUME NEW o \in Op, Cancel(o) \/ CancelExternal(o) PROVE Parts'
  <2>1. Cancellable \subseteq {"external"}
    BY DEF Shielding
  <2>2. CancelExternal(o)
    BY <1>7, <2>1 DEF Cancel
  <2> QED
    BY <2>2 DEF CancelExternal, Go, Return
<1> QED
  BY <1>1, <1>2, <1>3, <1>4, <1>5, <1>6, <1>7 DEF Next

-----------------------------------------------------------------------------
(* One tenant of the GPUs.                                                 *)

\* Steps at which no worker is published.
Unpublished == {"drain", "body", "port", "spawn", "adopt", "health", "cleanup", "ckill"}

\* What is published while an operation works, and while the first start waits.
Published ==
    \A o \in Op : /\ pc[o] \in Unpublished => active = None
                  /\ pc[o] = "kill" => active # None /\ mine[o] = active
                  /\ kind[o] = "start" /\ pc[o] \in {"waiting", "held"} => active = None

\* A worker is started on free GPUs.
SpawnsFree == \A o \in Op : pc[o] = "spawn" => GpuFree

GpuInv == OneTenant /\ LeaseProtects /\ Published /\ SpawnsFree

TenancyInv == ControlInv /\ IdentityInv /\ GpuInv

\* At the start the GPUs are as the predecessor left them.
LEMMA InitTenancy == Init => TenancyInv
<1> SUFFICES ASSUME Init PROVE TenancyInv
  OBVIOUS
<1>1. OneTenant
  BY ModelRouterAssumption DEF Init, OneTenant, Workers, Alive
<1>2. LeaseProtects /\ Published /\ SpawnsFree
  BY DEF Init, LeaseProtects, Published, SpawnsFree, Unpublished
<1> QED
  BY <1>1, <1>2, InitControl, InitIdentity DEF TenancyInv, GpuInv

\* A step of the operation that holds the lease that touches neither processes nor
\* what is published leaves the GPUs as they are, if it may go where it goes.
LEMMA HandOn ==
  ASSUME TenancyInv, NEW o \in Op, pc[o] \in Held, NEW s \in Held \cup {"idle"},
         pc' = [pc EXCEPT ![o] = s], kind'[o] = kind[o] \/ s = "idle",
         \A q \in Op : q # o => kind'[q] = kind[q] /\ mine'[q] = mine[q],
         UNCHANGED <<proc, active, harm>>, UNCHANGED draining \/ s # "spawn",
         s \in Unpublished => active = None,
         s = "kill" => active # None /\ mine'[o] = active,
         s \in {"body", "spawn"} => GpuFree, s # "held"
  PROVE  GpuInv'
<1> USE DEF TenancyInv, ControlInv, TypeInv, TypeOK, GpuInv
<1>1. \A q \in Op : q # o => pc[q] \notin Held /\ pc'[q] = pc[q]
  BY DEF Exclusive, Holder
<1>2. OneTenant'
  <2>1. Workers' = Workers
    BY DEF Workers, Alive
  <2>2. s = "body" => Workers = {}
    BY ModelRouterAssumption DEF GpuFree, Workers
  <2> QED
    BY <1>1, <2>1, <2>2 DEF OneTenant, Held
<1>3. LeaseProtects'
  BY DEF LeaseProtects
<1>4. Published'
  BY <1>1 DEF Published, Unpublished, Held
<1>5. SpawnsFree'
  BY <1>1 DEF SpawnsFree, GpuFree, Alive, Held
<1> QED
  BY <1>2, <1>3, <1>4, <1>5

\* What the operating system and a worker do on their own adds no tenant.
LEMMA EnvironmentGpu == ASSUME TenancyInv, Environment PROVE GpuInv'
<1> USE ModelRouterAssumption
  DEF TenancyInv, ControlInv, TypeInv, TypeOK, GpuInv, LeaseProtects, Published, router, opv
<1>1. UNCHANGED <<active, pc, kind, mine, harm>>
  BY DEF Environment, WorkerExits, ForeignStarts, Listens, VramReleased
<1>2. Workers' \subseteq Workers
  <2>1. ASSUME NEW p \in Pid, WorkerExits(p) PROVE Workers' \subseteq Workers
    BY <2>1 DEF WorkerExits, Die, Workers, Alive
  <2>2. ASSUME NEW p \in Pid, ForeignStarts(p) PROVE Workers' \subseteq Workers
    BY <2>2 DEF ForeignStarts, Born, Workers, Alive
  <2>3. CASE VramReleased \/ \E p \in Pid : Listens(p)
    BY <2>3 DEF VramReleased, Listens, Workers, Alive
  <2> QED
    BY <2>1, <2>2, <2>3 DEF Environment
<1>3. GpuFree => GpuFree'
  <2>1. ASSUME NEW p \in Pid, WorkerExits(p), GpuFree PROVE GpuFree'
    BY <1>1, <2>1 DEF WorkerExits, Die, GpuFree, Alive
  <2>2. ASSUME NEW p \in Pid, ForeignStarts(p), GpuFree PROVE GpuFree'
    BY <1>1, <2>2 DEF ForeignStarts, Born, GpuFree, Alive
  <2>3. CASE VramReleased \/ \E p \in Pid : Listens(p)
    BY <1>1, <2>3 DEF VramReleased, Listens, GpuFree, Alive
  <2> QED
    BY <2>1, <2>2, <2>3 DEF Environment
<1>4. OneTenant'
  BY <1>1, <1>2 DEF OneTenant
<1> QED
  BY <1>1, <1>3, <1>4 DEF SpawnsFree

\* Requests, waiting and giving up a wait leave the processes alone.
LEMMA LeaseGpu ==
  ASSUME TenancyInv,
         \/ \E c \in Client : BeginInference(c) \/ EndInference(c)
         \/ \E o \in Op, k \in Kinds, n \in Worker : Request(o, k, n)
         \/ \E o \in Op : Acquire(o) \/ CancelExternal(o)
         \/ UNCHANGED vars
  PROVE  GpuInv'
<1> USE ModelRouterAssumption
  DEF TenancyInv, ControlInv, TypeInv, TypeOK, GpuInv, LeaseProtects, os, opv
<1> DEFINE Stays ==
      /\ UNCHANGED <<proc, draining, active, harm>>
      /\ \A o \in Op : \/ pc'[o] = pc[o] /\ kind'[o] = kind[o] /\ mine'[o] = mine[o]
                       \/ pc'[o] = "held" /\ pc[o] = "waiting" /\ kind'[o] = kind[o]
                       \/ pc'[o] = "waiting" /\ kind'[o] # "start"
                       \/ pc'[o] = "idle"
<1>1. Stays
  <2>1. ASSUME NEW c \in Client, BeginInference(c) \/ EndInference(c) PROVE Stays
    BY <2>1 DEF BeginInference, EndInference
  <2>2. ASSUME NEW o \in Op, NEW k \in Kinds, NEW n \in Worker, Request(o, k, n) PROVE Stays
    BY <2>2 DEF Request
  <2>3. ASSUME NEW o \in Op, Acquire(o) \/ CancelExternal(o) PROVE Stays
    BY <2>3 DEF Acquire, CancelExternal, Go, Return
  <2>4. CASE UNCHANGED vars
    BY <2>4 DEF vars
  <2> QED
    BY <2>1, <2>2, <2>3, <2>4
<1>2. Workers' = Workers
  BY <1>1 DEF Workers, Alive
<1>3. GpuFree => GpuFree'
  BY <1>1 DEF GpuFree, Alive
<1>4. OneTenant'
  BY <1>1, <1>2 DEF OneTenant
<1>5. Published'
  BY <1>1 DEF Published, Unpublished
<1>6. SpawnsFree'
  BY <1>1, <1>3 DEF SpawnsFree
<1> QED
  BY <1>1, <1>4, <1>5, <1>6

\* The steps of an operation that neither signal nor publish nor start anything.
LEMMA WalkGpu ==
  ASSUME TenancyInv, NEW o \in Op,
         \/ Start(o) \/ StopNothing(o) \/ StopVerified(o) \/ StopRefused(o) \/ KillRefused(o)
         \/ Free(o) \/ SpawnFails(o) \/ Unhealthy(o) \/ CleanupVerified(o) \/ Release(o)
  PROVE  GpuInv'
<1> USE DEF TenancyInv, ControlInv, TypeInv, TypeOK, GpuInv, Published, Unpublished, Quiet,
        Go, Held, os, others
<1>1. CASE Start(o)
  BY <1>1, HandOn DEF Start, recover
<1>2. CASE StopNothing(o)
  BY <1>2, HandOn DEF StopNothing
<1>3. CASE StopVerified(o)
  BY <1>3, HandOn DEF StopVerified
<1>4. CASE StopRefused(o) \/ KillRefused(o)
  BY <1>4, HandOn DEF StopRefused, KillRefused, Fail, Restores
<1>5. CASE Drained(o)
  BY <1>5, HandOn DEF Drained, AfterDrain
<1>6. CASE DrainFails(o) \/ PortTaken(o)
  BY <1>6, HandOn DEF DrainFails, PortTaken, Fail
<1>7. CASE BodyEnds(o) \/ PortFree(o) \/ PortAdopts(o)
  BY <1>7, HandOn DEF BodyEnds, PortFree, PortAdopts
<1>8. CASE SpawnFails(o)
  BY <1>8, HandOn DEF SpawnFails, Fail
<1>9. CASE Unhealthy(o) \/ CleanupVerified(o)
  BY <1>9, HandOn DEF Unhealthy, CleanupVerified
<1>10. CASE Release(o)
  BY <1>10, HandOn DEF Release, Return
<1> QED
  BY <1>1, <1>2, <1>3, <1>4, <1>5, <1>6, <1>7, <1>8, <1>9, <1>10 DEF Free

\* A stopped or failed worker: processes only end, nothing is published any more, and
\* no request is there.
LEMMA EndGpu ==
  ASSUME TenancyInv, NEW o \in Op,
         StopGone(o) \/ KillActive(o) \/ CleanupKills(o) \/ CleanupFails(o)
  PROVE  GpuInv'
<1> USE ModelRouterAssumption
  DEF TenancyInv, ControlInv, TypeInv, TypeOK, GpuInv, Held, os, others, Go
<1>1. /\ pc[o] \in Held /\ leases = {}
      /\ \A q \in Op : q # o => pc[q] \notin Held
  BY DEF StopGone, KillActive, CleanupKills, CleanupFails, Exclusive, Holder
<1>2. pc' = [pc EXCEPT ![o] = "drain"] \/ pc' = [pc EXCEPT ![o] = "release"]
  BY DEF StopGone, KillActive, CleanupKills, CleanupFails
<1>3. active' = None /\ kind' = kind /\ mine' = mine
  BY DEF StopGone, KillActive, CleanupKills, CleanupFails, Forget, Published, Unpublished
<1>4. \A p \in Pid : proc'[p] \in {proc[p], None}
  BY DEF StopGone, KillActive, CleanupKills, CleanupFails, Signal, Kill, Die
<1>5. LeaseProtects'
  BY <1>1 DEF StopGone, KillActive, CleanupKills, CleanupFails, Signal, Kill, LeaseProtects
<1>6. OneTenant'
  <2>1. Workers' \subseteq Workers
    BY <1>4 DEF Workers, Alive
  <2> QED
    BY <1>1, <1>2, <1>3, <2>1 DEF OneTenant
<1>7. Published' /\ SpawnsFree'
  BY <1>1, <1>2, <1>3 DEF Published, Unpublished, SpawnsFree
<1> QED
  BY <1>5, <1>6, <1>7

\* A worker is started where none is, and nothing is published beside it.
LEMMA SpawnGpu == ASSUME TenancyInv, NEW o \in Op, Spawn(o) PROVE GpuInv'
<1> USE ModelRouterAssumption
  DEF TenancyInv, ControlInv, TypeInv, TypeOK, GpuInv, Held, others, Go
<1>1. /\ active' = None /\ kind' = kind /\ harm' = harm /\ pc' = [pc EXCEPT ![o] = "health"]
      /\ \A q \in Op : q # o => pc[q] \notin Held
  BY DEF Spawn, Published, Unpublished, Exclusive, Holder
<1>2. \A p, q \in Workers' : p = q
  <2>1. Workers = {}
    BY DEF Spawn, SpawnsFree, GpuFree, Workers
  <2>2. PICK p \in Pid : Born(p, name[o])
    BY DEF Spawn
  <2> QED
    BY <2>1, <2>2 DEF Born, Workers, Alive
<1>3. OneTenant'
  BY <1>1, <1>2 DEF OneTenant
<1>4. Published' /\ SpawnsFree' /\ LeaseProtects'
  BY <1>1 DEF Published, Unpublished, SpawnsFree, LeaseProtects, Spawn
<1> QED
  BY <1>3, <1>4

\* What is published is the one worker there is.
LEMMA HealthyGpu == ASSUME TenancyInv, NEW o \in Op, Healthy(o) PROVE GpuInv'
<1> USE ModelRouterAssumption
  DEF TenancyInv, ControlInv, TypeInv, TypeOK, GpuInv, Held, os, others, Go
<1>1. /\ active' = mine[o] /\ kind' = kind /\ mine' = mine /\ UNCHANGED <<proc, harm>>
      /\ pc' = [pc EXCEPT ![o] = "release"] /\ pc[o] \in {"health", "adopt"}
      /\ \A q \in Op : q # o => pc[q] \notin Held
  BY DEF Healthy, Exclusive, Holder
<1>2. mine[o] \in Records /\ mine[o].pid \in Workers
  BY <1>1 DEF Healthy, Recorded, OnRecord, Same, Workers, Records
<1>3. OneTenant'
  <2>1. Workers' = Workers
    BY <1>1 DEF Workers, Alive
  <2> QED
    BY <1>1, <1>2, <2>1 DEF OneTenant
<1>4. \A q \in Op : ~(kind[q] = "start" /\ pc[q] = "waiting")
  BY <1>1 DEF BootOnly, BootAlone, Booting
<1>5. Published' /\ SpawnsFree' /\ LeaseProtects'
  BY <1>1, <1>4 DEF Published, Unpublished, SpawnsFree, LeaseProtects
<1> QED
  BY <1>3, <1>5

\* No step puts a second tenant on the GPUs.
LEMMA NextTenancy == ASSUME Shielding, TenancyInv, [Next]_vars PROVE TenancyInv'
<1>1. ControlInv' /\ IdentityInv'
  BY NextControl, NextIdentity DEF TenancyInv
<1>2. ~Detached /\ \A o \in Op : ~Cancel(o)
  BY DEF TenancyInv, ControlInv, Quiet, Detached, Cancel, Shielding
<1>3. GpuInv'
  BY <1>2, EnvironmentGpu, LeaseGpu, WalkGpu, EndGpu, SpawnGpu, HealthyGpu
     DEF Next, Run, Stop, Launch
<1> QED
  BY <1>1, <1>3 DEF TenancyInv

-----------------------------------------------------------------------------
(* What follows.                                                           *)

\* While operations are shielded, one worker at most has the GPUs, none beside an
\* external workload, and what is published is that one; and no worker is signalled
\* under a request (router.py:244-280, 381-402, 464-573).
THEOREM TenancyProved == ASSUME Shielding PROVE Spec => [](Tenancy /\ LeaseProtects)
<1>1. TenancyInv => Tenancy /\ LeaseProtects
  BY DEF TenancyInv, ControlInv, TypeInv, GpuInv, Tenancy
<1>2. TenancyInv /\ [Next]_vars => TenancyInv'
  BY NextTenancy
<1> QED
  BY <1>1, <1>2, InitTenancy, PTL DEF Spec

\* Only a spawned worker and a foreign process are new; the first is started on free GPUs.
LEMMA NewProcess ==
  ASSUME Shielding, TenancyInv, [Next]_vars, NEW p \in Pid, ~Alive(p), proc'[p] # None
  PROVE  proc'[p].kind = Foreign \/ GpuFree
<1> USE DEF TenancyInv, ControlInv, TypeInv, TypeOK, GpuInv, Alive, os, router, others
<1>1. ~Detached /\ \A o \in Op : ~Cancel(o)
  BY DEF Quiet, Detached, Cancel, Shielding
<1>2. CASE Environment
  BY <1>2 DEF Environment, WorkerExits, ForeignStarts, Listens, VramReleased, Die, Born
<1>3. ASSUME NEW o \in Op, Spawn(o) PROVE GpuFree
  BY <1>3 DEF Spawn, SpawnsFree
<1>4. ASSUME NEW o \in Op, KillActive(o) \/ CleanupKills(o) PROVE FALSE
  BY <1>4 DEF KillActive, CleanupKills, Signal, Kill, Die
<1>5. ASSUME NEW c \in Client, BeginInference(c) \/ EndInference(c) PROVE FALSE
  BY <1>5 DEF BeginInference, EndInference
<1>6. ASSUME NEW o \in Op, NEW k \in Kinds, NEW n \in Worker, Request(o, k, n) PROVE FALSE
  BY <1>6 DEF Request
<1>7. ASSUME NEW o \in Op,
             Acquire(o) \/ CancelExternal(o) \/ Start(o) \/ Free(o) \/ Release(o)
      PROVE  FALSE
  BY <1>7 DEF Acquire, CancelExternal, Start, recover, Release, Free, Drained, DrainFails, BodyEnds,
     PortFree, PortAdopts, PortTaken
<1>8. ASSUME NEW o \in Op,
             \/ StopNothing(o) \/ StopVerified(o) \/ StopGone(o) \/ StopRefused(o)
             \/ KillRefused(o) \/ SpawnFails(o) \/ Healthy(o) \/ Unhealthy(o)
             \/ CleanupVerified(o) \/ CleanupFails(o)
      PROVE  FALSE
  BY <1>8 DEF StopNothing, StopVerified, StopGone, StopRefused, KillRefused, SpawnFails,
     Healthy, Unhealthy, CleanupVerified, CleanupFails
<1>9. CASE UNCHANGED vars
  BY <1>9 DEF vars
<1> QED
  BY <1>1, <1>2, <1>3, <1>4, <1>5, <1>6, <1>7, <1>8, <1>9 DEF Next, Run, Stop, Launch

\* While operations are shielded, a worker process appears only when every card is free
\* (router.py:381-402, 464-573).
THEOREM WorkersStartFree == ASSUME Shielding PROVE Spec => StartsOnFreeGpu
<1>1. TenancyInv /\ [Next]_vars => TenancyInv'
  BY NextTenancy
<1>2. TenancyInv /\ [Next]_vars =>
        [\A p \in Pid : ~Alive(p) /\ proc'[p] # None => proc'[p].kind = Foreign \/ GpuFree]_vars
  BY NewProcess
<1> QED
  BY <1>1, <1>2, InitTenancy, PTL DEF Spec, StartsOnFreeGpu

-----------------------------------------------------------------------------
(* The same of the instance TLC checks.                                    *)

MCInv == scenario = "shielded" => TenancyInv

\* Every scenario of the run starts in the invariant of its router.
LEMMA InitMC == MCInit => MCInv
  BY InitTenancy DEF MCInit, MCInv

\* A step of the run is a step of the router of its scenario.
LEMMA NextMC == ASSUME Shielding, MCInv, [MCNext]_<<scenario, vars>> PROVE MCInv'
<1>1. scenario' = "shielded" => scenario = "shielded" /\ [Next]_vars
  BY DEF MCNext
<1> QED
  BY <1>1, NextTenancy DEF MCInv

\* The shielded operations TLC runs never leave the GPUs to two (router.py:381-402, 464-573).
THEOREM TenancyOfRun == ASSUME Shielding PROVE MCSpec => []TenancyHolds
<1>1. MCInv => TenancyHolds
  BY DEF MCInv, TenancyInv, ControlInv, TypeInv, GpuInv, Tenancy, TenancyHolds
<1>2. MCInv /\ [MCNext]_<<scenario, vars>> => MCInv'
  BY NextMC
<1> QED
  BY <1>1, <1>2, InitMC, PTL DEF MCSpec

\* They never signal a worker under a request (router.py:244-280).
THEOREM LeaseOfRun == ASSUME Shielding PROVE MCSpec => []LeaseProtected
<1>1. MCInv => LeaseProtected
  BY DEF MCInv, TenancyInv, GpuInv, LeaseProtected
<1>2. MCInv /\ [MCNext]_<<scenario, vars>> => MCInv'
  BY NextMC
<1> QED
  BY <1>1, <1>2, InitMC, PTL DEF MCSpec

\* They start workers on free GPUs only (router.py:381-402).
THEOREM FreeGpuOfRun == ASSUME Shielding PROVE MCSpec => FreeGpu
<1>1. MCInv /\ [MCNext]_<<scenario, vars>> => MCInv'
  BY NextMC
<1>2. MCInv /\ [MCNext]_<<scenario, vars>> =>
        [scenario = "shielded" =>
           \A p \in Pid : ~Alive(p) /\ proc'[p] # None
                           => proc'[p].kind = Foreign \/ GpuFree]_<<scenario, vars>>
  BY NewProcess DEF MCInv, MCNext
<1> QED
  BY <1>1, <1>2, InitMC, PTL DEF MCSpec, FreeGpu
=============================================================================
