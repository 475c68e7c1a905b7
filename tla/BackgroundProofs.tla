-------------------------- MODULE BackgroundProofs --------------------------
(***************************************************************************)
(* Theorems about what Core does in the background, for any number of stops   *)
(* of Core.  Pictures and videos, for every set of requests: the model and a  *)
(* loaded ComfyUI never share the GPUs, and a result is what happened.  The   *)
(* research of repair orders, for every set of jobs, calibrations and         *)
(* documents and every answer of Calibration IQ: what is called attached is   *)
(* where it belongs, one research runs, and results are final.                *)
(***************************************************************************)
EXTENDS MediaJobs, Sequences, FiniteSetTheorems, WellFoundedInduction, TLAPS

CONSTANTS Jobs, Old, N, Docs, WithoutId, Captured, Unreadable, ReviewLimit, MaxFaults, MaxTouch

VARIABLES on, unresumed, starting, job, at, ciq, done, late, faults, touches, posted

Si == INSTANCE AdasSiResearch WITH up <- on

-----------------------------------------------------------------------------
(* Pictures and videos.                                                    *)

\* Nobody's name is also a request's.
Distinct == None \notin Requests /\ Foreign \notin Requests

Answers == [success : BOOLEAN, produced : BOOLEAN, restored : BOOLEAN]

Stages == {"new", "lock", "session", "stop", "ensure", "mark", "wait", "submit", "produce",
           "release", "restore", "cleanup", "finish", "done", "lost"}

\* The stages that follow a stop of the model, those that hold the GPUs, and those
\* that follow the work.
Without == {"ensure", "mark", "wait", "submit", "produce", "release"}
Holding == Without \cup {"stop", "restore"}
Ending  == {"restore", "cleanup", "finish"}

TypeOK ==
    /\ up \in {"down", "boot", "up"} /\ model \in BOOLEAN /\ active \in BOOLEAN
    /\ lock \in [{"image", "video"} -> Requests \cup {None}]
    /\ session \in Requests \cup {None}
    /\ pc \in [Requests -> Stages]
    /\ err \in [Requests -> {"ok", "error", "cancel"}]
    /\ stopped \in [Requests -> BOOLEAN]
    /\ restored \in [Requests -> BOOLEAN]
    /\ produced \in [Requests -> BOOLEAN]
    /\ result \in [Requests -> Answers \cup {None}]

\* While Core is down or starts, no request is under way.
Quiet == up # "up" => \A r \in Requests : pc[r] \in {"new", "done", "lost"}

\* The session is with the request whose stage says so, and with it the GPUs; a lock
\* is with a request that has not given it back.
Held(r) ==
    /\ pc[r] \in Holding <=> session = r
    /\ lock[Kind(r)] = r => pc[r] \in Holding \cup {"session"}
    /\ pc[r] \in Without => ~model

\* Where the files of a request are, and what its stages leave when none has failed.
Filed(r) ==
    /\ produced[r] => r \notin Videos /\ r \in stored
    /\ r \in temp => r \in Videos /\ pc[r] \in Ending \cup {"release", "lost"}
    /\ r \in staged => r \in Videos
    /\ pc[r] \in Ending \cup {"release"} /\ err[r] = "ok" => produced[r] \/ r \in temp
    /\ pc[r] \in Ending /\ err[r] = "ok" => r \notin alive
    /\ pc[r] = "finish" /\ err[r] = "ok" => r \notin staged

\* A result is the last thing of a request, and says what happened.
Answered(r) ==
    result[r] # None =>
        /\ pc[r] = "done"
        /\ result[r].success =>
             result[r].produced /\ result[r].restored /\ r \notin alive \cup staged
        /\ result[r].produced => r \in stored

IInv ==
    /\ TypeOK /\ Quiet /\ OneTenant
    /\ \A r \in Requests : Held(r) /\ Filed(r) /\ Answered(r)

-----------------------------------------------------------------------------
(* Every start satisfies the invariant: nothing is held, stored or answered. *)
LEMMA Begins == ASSUME Distinct, Init PROVE IInv
<1>1. TypeOK
  BY DEF Init, TypeOK, Stages, Answers
<1>2. Quiet /\ OneTenant
  BY DEF Init, Quiet, OneTenant
<1>3. ASSUME NEW r \in Requests PROVE Held(r) /\ Filed(r) /\ Answered(r)
  BY DEF Init, Distinct, Held, Filed, Answered, Holding, Without, Ending, Kind
<1> QED
  BY <1>1, <1>2, <1>3 DEF IInv

(* An answer is a record of its three parts. *)
LEMMA AnswerTyped ==
    ASSUME TypeOK, NEW q \in Requests, NEW s \in BOOLEAN, NEW m \in BOOLEAN, Answer(q, s, m)
    PROVE  result' \in [Requests -> Answers \cup {None}]
<1>1. [success |-> s, produced |-> m, restored |-> restored[q]] \in Answers
  <2>1. restored[q] \in BOOLEAN
    BY DEF TypeOK
  <2> QED
    BY <2>1 DEF Answers
<1>2. result \in [Requests -> Answers \cup {None}]
  BY DEF TypeOK
<1> QED
  BY <1>1, <1>2 DEF Answer

(* Preflight keeps the invariant. *)
LEMMA PreflightStep == ASSUME Distinct, IInv, NEW q \in Requests, Preflight(q) PROVE IInv'
<1> USE DEF Go, router, request, comfy, files
<1>0. TypeOK /\ Quiet /\ OneTenant /\ \A r \in Requests : Held(r) /\ Filed(r) /\ Answered(r)
  BY DEF IInv
<1>1. TypeOK'
  <2>1. result' \in [Requests -> Answers \cup {None}]
    <3>1. CASE Answer(q, FALSE, FALSE)
      BY <1>0, <3>1, AnswerTyped
    <3>2. CASE UNCHANGED result
      BY <1>0, <3>2 DEF TypeOK
    <3> QED
      BY <3>1, <3>2 DEF Preflight
  <2> QED
    BY <1>0, <2>1 DEF Preflight, TypeOK, Stages
<1>2. Quiet'
  BY <1>0 DEF Preflight, Ready, Answer, TypeOK, Quiet
<1>3. OneTenant'
  BY <1>0 DEF Preflight, Ready, Answer, TypeOK, OneTenant, Held, Without, Holding
<1>4. ASSUME NEW r \in Requests PROVE Held(r)'
  BY <1>0 DEF Preflight, Ready, Answer, TypeOK, Distinct, Held, Without, Holding, Kind
<1>5. ASSUME NEW r \in Requests PROVE Filed(r)'
  BY <1>0 DEF Preflight, Ready, Answer, TypeOK, Distinct, Filed, Ending
<1>6. ASSUME NEW r \in Requests PROVE Answered(r)'
  BY <1>0 DEF Preflight, Ready, Answer, TypeOK, Distinct, Answered, Filed, Ending
<1> QED
  BY <1>1, <1>2, <1>3, <1>4, <1>5, <1>6 DEF IInv

(* Lock keeps the invariant. *)
LEMMA LockStep == ASSUME Distinct, IInv, NEW q \in Requests, Lock(q) PROVE IInv'
<1> USE DEF Go, router, request, comfy, files
<1>0. TypeOK /\ Quiet /\ OneTenant /\ \A r \in Requests : Held(r) /\ Filed(r) /\ Answered(r)
  BY DEF IInv
<1>1. TypeOK'
  BY <1>0 DEF Lock, TypeOK, Stages, Answers, Kind
<1>2. Quiet'
  BY <1>0 DEF Lock, TypeOK, Quiet
<1>3. OneTenant'
  BY <1>0 DEF Lock, TypeOK, OneTenant, Held, Without, Holding
<1>4. ASSUME NEW r \in Requests PROVE Held(r)'
  BY <1>0 DEF Lock, TypeOK, Distinct, Held, Without, Holding, Kind
<1>5. ASSUME NEW r \in Requests PROVE Filed(r)'
  BY <1>0 DEF Lock, TypeOK, Distinct, Filed, Ending
<1>6. ASSUME NEW r \in Requests PROVE Answered(r)'
  BY <1>0 DEF Lock, TypeOK, Distinct, Answered, Filed, Ending
<1> QED
  BY <1>1, <1>2, <1>3, <1>4, <1>5, <1>6 DEF IInv

(* external_workload_session keeps the invariant. *)
LEMMA external_workload_sessionStep ==
    ASSUME Distinct, IInv, NEW q \in Requests, external_workload_session(q)
    PROVE  IInv'
<1> USE DEF Go, router, request, comfy, files
<1>0. TypeOK /\ Quiet /\ OneTenant /\ \A r \in Requests : Held(r) /\ Filed(r) /\ Answered(r)
  BY DEF IInv
<1>1. TypeOK'
  BY <1>0 DEF external_workload_session, Notes, TypeOK, Stages, Answers, Kind
<1>2. Quiet'
  BY <1>0 DEF external_workload_session, Notes, TypeOK, Quiet
<1>3. OneTenant'
  BY <1>0 DEF external_workload_session, Notes, TypeOK, OneTenant, Held, Without, Holding
<1>4. ASSUME NEW r \in Requests PROVE Held(r)'
  BY <1>0 DEF external_workload_session, Notes, TypeOK, Distinct, Held, Without, Holding, Kind
<1>5. ASSUME NEW r \in Requests PROVE Filed(r)'
  BY <1>0 DEF external_workload_session, Notes, TypeOK, Distinct, Filed, Ending
<1>6. ASSUME NEW r \in Requests PROVE Answered(r)'
  BY <1>0 DEF external_workload_session, Notes, TypeOK, Distinct, Answered, Filed, Ending
<1> QED
  BY <1>1, <1>2, <1>3, <1>4, <1>5, <1>6 DEF IInv

(* Leaves keeps the invariant. *)
LEMMA LeavesStep == ASSUME Distinct, IInv, NEW q \in Requests, Leaves(q) PROVE IInv'
<1> USE DEF Go, router, request, comfy, files
<1>0. TypeOK /\ Quiet /\ OneTenant /\ \A r \in Requests : Held(r) /\ Filed(r) /\ Answered(r)
  BY DEF IInv
<1>1. TypeOK'
  BY <1>0 DEF Leaves, TypeOK, Stages, Answers, Kind
<1>2. Quiet'
  BY <1>0 DEF Leaves, TypeOK, Quiet
<1>3. OneTenant'
  BY <1>0 DEF Leaves, TypeOK, OneTenant, Held, Without, Holding
<1>4. ASSUME NEW r \in Requests PROVE Held(r)'
  BY <1>0 DEF Leaves, TypeOK, Distinct, Held, Without, Holding, Kind
<1>5. ASSUME NEW r \in Requests PROVE Filed(r)'
  BY <1>0 DEF Leaves, TypeOK, Distinct, Filed, Ending
<1>6. ASSUME NEW r \in Requests PROVE Answered(r)'
  BY <1>0 DEF Leaves, TypeOK, Distinct, Answered, Filed, Ending
<1> QED
  BY <1>1, <1>2, <1>3, <1>4, <1>5, <1>6 DEF IInv

(* _stop_active_worker keeps the invariant. *)
LEMMA stop_active_workerStep ==
    ASSUME Distinct, IInv, NEW q \in Requests, _stop_active_worker(q)
    PROVE  IInv'
<1> USE DEF Go, router, request, comfy, files
<1>0. TypeOK /\ Quiet /\ OneTenant /\ \A r \in Requests : Held(r) /\ Filed(r) /\ Answered(r)
  BY DEF IInv
<1>1. TypeOK'
  BY <1>0 DEF _stop_active_worker, Notes, TypeOK, Stages, Answers, Kind
<1>2. Quiet'
  BY <1>0 DEF _stop_active_worker, Notes, TypeOK, Quiet
<1>3. OneTenant'
  BY <1>0 DEF _stop_active_worker, Notes, TypeOK, OneTenant, Held, Without, Holding
<1>4. ASSUME NEW r \in Requests PROVE Held(r)'
  BY <1>0 DEF _stop_active_worker, Notes, TypeOK, Distinct, Held, Without, Holding, Kind
<1>5. ASSUME NEW r \in Requests PROVE Filed(r)'
  BY <1>0 DEF _stop_active_worker, Notes, TypeOK, Distinct, Filed, Ending
<1>6. ASSUME NEW r \in Requests PROVE Answered(r)'
  BY <1>0 DEF _stop_active_worker, Notes, TypeOK, Distinct, Answered, Filed, Ending
<1> QED
  BY <1>1, <1>2, <1>3, <1>4, <1>5, <1>6 DEF IInv

(* _spawn keeps the invariant. *)
LEMMA spawnStep == ASSUME Distinct, IInv, NEW q \in Requests, _spawn(q) PROVE IInv'
<1> USE DEF Go, router, request, comfy, files
<1>0. TypeOK /\ Quiet /\ OneTenant /\ \A r \in Requests : Held(r) /\ Filed(r) /\ Answered(r)
  BY DEF IInv
<1>1. TypeOK'
  BY <1>0 DEF _spawn, Notes, TypeOK, Stages, Answers, Kind
<1>2. Quiet'
  BY <1>0 DEF _spawn, Notes, TypeOK, Quiet
<1>3. OneTenant'
  BY <1>0 DEF _spawn, Notes, TypeOK, OneTenant, Held, Without, Holding
<1>4. ASSUME NEW r \in Requests PROVE Held(r)'
  BY <1>0 DEF _spawn, Notes, TypeOK, Distinct, Held, Without, Holding, Kind
<1>5. ASSUME NEW r \in Requests PROVE Filed(r)'
  BY <1>0 DEF _spawn, Notes, TypeOK, Distinct, Filed, Ending
<1>6. ASSUME NEW r \in Requests PROVE Answered(r)'
  BY <1>0 DEF _spawn, Notes, TypeOK, Distinct, Answered, Filed, Ending
<1> QED
  BY <1>1, <1>2, <1>3, <1>4, <1>5, <1>6 DEF IInv

(* _write_spawn_state keeps the invariant. *)
LEMMA write_spawn_stateStep ==
    ASSUME Distinct, IInv, NEW q \in Requests, _write_spawn_state(q)
    PROVE  IInv'
<1> USE DEF Go, router, request, comfy, files
<1>0. TypeOK /\ Quiet /\ OneTenant /\ \A r \in Requests : Held(r) /\ Filed(r) /\ Answered(r)
  BY DEF IInv
<1>1. TypeOK'
  BY <1>0 DEF _write_spawn_state, Notes, TypeOK, Stages, Answers, Kind
<1>2. Quiet'
  BY <1>0 DEF _write_spawn_state, Notes, TypeOK, Quiet
<1>3. OneTenant'
  BY <1>0 DEF _write_spawn_state, Notes, TypeOK, OneTenant, Held, Without, Holding
<1>4. ASSUME NEW r \in Requests PROVE Held(r)'
  BY <1>0 DEF _write_spawn_state, Notes, TypeOK, Distinct, Held, Without, Holding, Kind
<1>5. ASSUME NEW r \in Requests PROVE Filed(r)'
  BY <1>0 DEF _write_spawn_state, Notes, TypeOK, Distinct, Filed, Ending
<1>6. ASSUME NEW r \in Requests PROVE Answered(r)'
  BY <1>0 DEF _write_spawn_state, Notes, TypeOK, Distinct, Answered, Filed, Ending
<1> QED
  BY <1>1, <1>2, <1>3, <1>4, <1>5, <1>6 DEF IInv

(* _wait_ready keeps the invariant. *)
LEMMA wait_readyStep == ASSUME Distinct, IInv, NEW q \in Requests, _wait_ready(q) PROVE IInv'
<1> USE DEF Go, router, request, comfy, files
<1>0. TypeOK /\ Quiet /\ OneTenant /\ \A r \in Requests : Held(r) /\ Filed(r) /\ Answered(r)
  BY DEF IInv
<1>1. TypeOK'
  BY <1>0 DEF _wait_ready, _terminate_spawned, Notes, TypeOK, Stages, Answers, Kind
<1>2. Quiet'
  BY <1>0 DEF _wait_ready, _terminate_spawned, Notes, TypeOK, Quiet
<1>3. OneTenant'
  BY <1>0 DEF _wait_ready, _terminate_spawned, Notes, TypeOK, OneTenant, Held, Without, Holding
<1>4. ASSUME NEW r \in Requests PROVE Held(r)'
  BY <1>0 DEF _wait_ready, _terminate_spawned, Notes, TypeOK, Distinct, Held, Without,
     Holding, Kind
<1>5. ASSUME NEW r \in Requests PROVE Filed(r)'
  BY <1>0 DEF _wait_ready, _terminate_spawned, Notes, TypeOK, Distinct, Filed, Ending
<1>6. ASSUME NEW r \in Requests PROVE Answered(r)'
  BY <1>0 DEF _wait_ready, _terminate_spawned, Notes, TypeOK, Distinct, Answered, Filed, Ending
<1> QED
  BY <1>1, <1>2, <1>3, <1>4, <1>5, <1>6 DEF IInv

(* Submit keeps the invariant. *)
LEMMA SubmitStep == ASSUME Distinct, IInv, NEW q \in Requests, Submit(q) PROVE IInv'
<1> USE DEF Go, router, request, comfy, files
<1>0. TypeOK /\ Quiet /\ OneTenant /\ \A r \in Requests : Held(r) /\ Filed(r) /\ Answered(r)
  BY DEF IInv
<1>1. TypeOK'
  BY <1>0 DEF Submit, _stage_source, TypeOK, Stages, Answers, Kind
<1>2. Quiet'
  BY <1>0 DEF Submit, _stage_source, TypeOK, Quiet
<1>3. OneTenant'
  BY <1>0 DEF Submit, _stage_source, TypeOK, OneTenant, Held, Without, Holding
<1>4. ASSUME NEW r \in Requests PROVE Held(r)'
  BY <1>0 DEF Submit, _stage_source, TypeOK, Distinct, Held, Without, Holding, Kind
<1>5. ASSUME NEW r \in Requests PROVE Filed(r)'
  BY <1>0 DEF Submit, _stage_source, TypeOK, Distinct, Filed, Ending
<1>6. ASSUME NEW r \in Requests PROVE Answered(r)'
  BY <1>0 DEF Submit, _stage_source, TypeOK, Distinct, Answered, Filed, Ending
<1> QED
  BY <1>1, <1>2, <1>3, <1>4, <1>5, <1>6 DEF IInv

(* generate keeps the invariant. *)
LEMMA generateStep == ASSUME Distinct, IInv, NEW q \in Requests, generate(q) PROVE IInv'
<1> USE DEF Go, router, request, comfy, files
<1>0. TypeOK /\ Quiet /\ OneTenant /\ \A r \in Requests : Held(r) /\ Filed(r) /\ Answered(r)
  BY DEF IInv
<1>1. TypeOK'
  BY <1>0 DEF generate, Notes, _execute_workflow, _download_video, _atomic_store,
     TypeOK, Stages, Answers, Kind
<1>2. Quiet'
  BY <1>0 DEF generate, Notes, _execute_workflow, _download_video, _atomic_store,
     TypeOK, Quiet
<1>3. OneTenant'
  BY <1>0 DEF generate, Notes, _execute_workflow, _download_video, _atomic_store,
     TypeOK, OneTenant, Held,
     Without, Holding
<1>4. ASSUME NEW r \in Requests PROVE Held(r)'
  BY <1>0 DEF generate, Notes, _execute_workflow, _download_video, _atomic_store,
     TypeOK, Distinct, Held,
     Without, Holding, Kind
<1>5. ASSUME NEW r \in Requests PROVE Filed(r)'
  <2>1. PICK o \in {"ok", "error", "cancel"} :
          /\ Notes(q, o)
          /\ o = "ok" => q \in alive
          /\ IF q \in Videos THEN _execute_workflow(q, o) ELSE _atomic_store(q, o)
    BY DEF generate
  <2>2. Filed(r) /\ Filed(q) /\ pc[q] = "produce"
    BY <1>0 DEF generate
  <2>3. CASE q \in Videos
    BY <1>0, <2>1, <2>2, <2>3
       DEF generate, Notes, _execute_workflow, _download_video, TypeOK, Filed, Ending
  <2>4. CASE q \notin Videos
    BY ZenonT(40), <1>0, <2>1, <2>2, <2>4 DEF generate, Notes, _atomic_store, TypeOK,
       Filed, Ending
  <2> QED
    BY <2>3, <2>4
<1>6. ASSUME NEW r \in Requests PROVE Answered(r)'
  BY <1>0 DEF generate, Notes, _execute_workflow, _download_video, _atomic_store,
     TypeOK, Distinct,
     Answered, Filed, Ending
<1> QED
  BY <1>1, <1>2, <1>3, <1>4, <1>5, <1>6 DEF IInv

(* release_runtime keeps the invariant. *)
LEMMA release_runtimeStep ==
    ASSUME Distinct, IInv, NEW q \in Requests, release_runtime(q)
    PROVE  IInv'
<1> USE DEF Go, router, request, comfy, files
<1>0. TypeOK /\ Quiet /\ OneTenant /\ \A r \in Requests : Held(r) /\ Filed(r) /\ Answered(r)
  BY DEF IInv
<1>1. TypeOK'
  BY <1>0 DEF release_runtime, _terminate_spawned, Notes, Gone, TypeOK, Stages, Answers, Kind
<1>2. Quiet'
  BY <1>0 DEF release_runtime, _terminate_spawned, Notes, Gone, TypeOK, Quiet
<1>3. OneTenant'
  BY <1>0 DEF release_runtime, _terminate_spawned, Notes, Gone, TypeOK, OneTenant, Held,
     Without, Holding
<1>4. ASSUME NEW r \in Requests PROVE Held(r)'
  BY <1>0 DEF release_runtime, _terminate_spawned, Notes, Gone, TypeOK, Distinct, Held,
     Without, Holding, Kind
<1>5. ASSUME NEW r \in Requests PROVE Filed(r)'
  BY <1>0 DEF release_runtime, _terminate_spawned, Notes, Gone, TypeOK, Distinct, Filed, Ending
<1>6. ASSUME NEW r \in Requests PROVE Answered(r)'
  BY <1>0 DEF release_runtime, _terminate_spawned, Notes, Gone, TypeOK, Distinct, Answered,
     Filed, Ending
<1> QED
  BY <1>1, <1>2, <1>3, <1>4, <1>5, <1>6 DEF IInv

(* _restore_external_worker keeps the invariant. *)
LEMMA restore_external_workerStep ==
    ASSUME Distinct, IInv, NEW q \in Requests, _restore_external_worker(q)
    PROVE  IInv'
<1> USE DEF Go, router, request, comfy, files
<1>0. TypeOK /\ Quiet /\ OneTenant /\ \A r \in Requests : Held(r) /\ Filed(r) /\ Answered(r)
  BY DEF IInv
<1>1. TypeOK'
  BY ZenonT(40), <1>0 DEF _restore_external_worker, Notes, TypeOK, Stages, Answers, Kind
<1>2. Quiet'
  BY <1>0 DEF _restore_external_worker, Notes, TypeOK, Quiet
<1>3. OneTenant'
  BY <1>0 DEF _restore_external_worker, Notes, TypeOK, OneTenant, Held, Without, Holding
<1>4. ASSUME NEW r \in Requests PROVE Held(r)'
  BY <1>0 DEF _restore_external_worker, Notes, TypeOK, Distinct, Held, Without, Holding, Kind
<1>5. ASSUME NEW r \in Requests PROVE Filed(r)'
  BY <1>0 DEF _restore_external_worker, Notes, TypeOK, Distinct, Filed, Ending
<1>6. ASSUME NEW r \in Requests PROVE Answered(r)'
  BY <1>0 DEF _restore_external_worker, Notes, TypeOK, Distinct, Answered, Filed, Ending
<1> QED
  BY <1>1, <1>2, <1>3, <1>4, <1>5, <1>6 DEF IInv

(* _cleanup_request_files keeps the invariant. *)
LEMMA cleanup_request_filesStep ==
    ASSUME Distinct, IInv, NEW q \in Requests, _cleanup_request_files(q)
    PROVE  IInv'
<1> USE DEF Go, router, request, comfy, files
<1>0. TypeOK /\ Quiet /\ OneTenant /\ \A r \in Requests : Held(r) /\ Filed(r) /\ Answered(r)
  BY DEF IInv
<1>1. TypeOK'
  BY <1>0 DEF _cleanup_request_files, Notes, TypeOK, Stages, Answers, Kind
<1>2. Quiet'
  BY <1>0 DEF _cleanup_request_files, Notes, TypeOK, Quiet
<1>3. OneTenant'
  BY <1>0 DEF _cleanup_request_files, Notes, TypeOK, OneTenant, Held, Without, Holding
<1>4. ASSUME NEW r \in Requests PROVE Held(r)'
  BY <1>0 DEF _cleanup_request_files, Notes, TypeOK, Distinct, Held, Without, Holding, Kind
<1>5. ASSUME NEW r \in Requests PROVE Filed(r)'
  BY <1>0 DEF _cleanup_request_files, Notes, TypeOK, Distinct, Filed, Ending
<1>6. ASSUME NEW r \in Requests PROVE Answered(r)'
  BY <1>0 DEF _cleanup_request_files, Notes, TypeOK, Distinct, Answered, Filed, Ending
<1> QED
  BY <1>1, <1>2, <1>3, <1>4, <1>5, <1>6 DEF IInv

(* FinishImage keeps the invariant. *)
LEMMA FinishImageStep == ASSUME Distinct, IInv, NEW q \in Requests, FinishImage(q) PROVE IInv'
<1> USE DEF Go, router, request, comfy, files
<1>0. TypeOK /\ Quiet /\ OneTenant /\ \A r \in Requests : Held(r) /\ Filed(r) /\ Answered(r)
  BY DEF IInv
<1>1. TypeOK'
  <2>1. result' \in [Requests -> Answers \cup {None}]
    <3>1. CASE err[q] = "cancel"
      BY <1>0, <3>1 DEF FinishImage, TypeOK
    <3>2. CASE err[q] # "cancel"
      <4>1. (err[q] = "ok" /\ restored[q]) \in BOOLEAN
        OBVIOUS
      <4>2. produced[q] \in BOOLEAN
        BY <1>0 DEF TypeOK
      <4>3. Answer(q, err[q] = "ok" /\ restored[q], produced[q])
        BY <3>2 DEF FinishImage
      <4> QED
        BY <1>0, <4>1, <4>2, <4>3, AnswerTyped
    <3> QED
      BY <3>1, <3>2
  <2> QED
    BY <1>0, <2>1 DEF FinishImage, TypeOK, Stages
<1>2. Quiet'
  BY <1>0 DEF FinishImage, Answer, TypeOK, Quiet
<1>3. OneTenant'
  BY <1>0 DEF FinishImage, Answer, TypeOK, OneTenant, Held, Without, Holding
<1>4. ASSUME NEW r \in Requests PROVE Held(r)'
  BY <1>0 DEF FinishImage, Answer, TypeOK, Distinct, Held, Without, Holding, Kind
<1>5. ASSUME NEW r \in Requests PROVE Filed(r)'
  BY <1>0 DEF FinishImage, Answer, TypeOK, Distinct, Filed, Ending
<1>6. ASSUME NEW r \in Requests PROVE Answered(r)'
  <2>1. CASE r = q /\ err[q] # "cancel"
    <3>1. result'[q] = [success |-> err[q] = "ok" /\ restored[q], produced |-> produced[q],
                        restored |-> restored[q]]
      BY <1>0, <2>1 DEF FinishImage, Answer, TypeOK
    <3>2. Filed(q) /\ q \notin Videos /\ pc[q] = "finish"
      BY <1>0 DEF FinishImage
    <3>3. err[q] = "ok" => produced[q]
      BY <3>2 DEF Filed, Ending
    <3> DEFINE fine == err[q] = "ok" /\ restored[q]
    <3>4. result'[q] = [success |-> fine, produced |-> produced[q], restored |-> restored[q]]
      BY <3>1
    <3> HIDE DEF fine
    <3>5. /\ result'[q].success = fine
          /\ result'[q].produced = produced[q] /\ result'[q].restored = restored[q]
      BY <3>4
    <3>6. result'[q].success => result'[q].produced /\ result'[q].restored /\ err[q] = "ok"
      BY <3>3, <3>5, Zenon DEF fine
    <3> QED
      BY <1>0, <2>1, <3>1, <3>2, <3>5, <3>6 DEF FinishImage, TypeOK, Answered, Filed, Ending
  <2>2. CASE ~(r = q /\ err[q] # "cancel")
    BY <1>0, <2>2 DEF FinishImage, Answer, TypeOK, Answered
  <2> QED
    BY <2>1, <2>2
<1> QED
  BY <1>1, <1>2, <1>3, <1>4, <1>5, <1>6 DEF IInv

(* FinishVideo keeps the invariant. *)
LEMMA FinishVideoStep == ASSUME Distinct, IInv, NEW q \in Requests, FinishVideo(q) PROVE IInv'
<1> USE DEF Go, router, request, comfy, files
<1>0. TypeOK /\ Quiet /\ OneTenant /\ \A r \in Requests : Held(r) /\ Filed(r) /\ Answered(r)
  BY DEF IInv
<1>1. TypeOK'
  <2>1. result' \in [Requests -> Answers \cup {None}]
    <3>1. CASE err[q] = "cancel"
      BY <1>0, <3>1 DEF FinishVideo, TypeOK
    <3>2. CASE err[q] # "cancel"
      <4>1. PICK verified \in BOOLEAN :
              LET kept == verified /\ q \in temp
              IN  Answer(q, kept, kept) \/ Answer(q, FALSE, kept)
        BY <3>2 DEF FinishVideo, _retain_failed_wan_result
      <4> DEFINE kept == verified /\ q \in temp
      <4>2. kept \in BOOLEAN
        OBVIOUS
      <4>3. Answer(q, kept, kept) \/ Answer(q, FALSE, kept)
        BY <4>1
      <4> HIDE DEF kept
      <4> QED
        BY <1>0, <4>2, <4>3, AnswerTyped
    <3> QED
      BY <3>1, <3>2
  <2> QED
    BY <1>0, <2>1 DEF FinishVideo, TypeOK, Stages
<1>2. Quiet'
  BY <1>0 DEF FinishVideo, Succeeded, Answer, _retain_failed_wan_result,
     _verify_and_store, TypeOK, Quiet
<1>3. OneTenant'
  BY <1>0 DEF FinishVideo, Succeeded, Answer, _retain_failed_wan_result,
     _verify_and_store, TypeOK, OneTenant, Held, Without, Holding
<1>4. ASSUME NEW r \in Requests PROVE Held(r)'
  BY <1>0 DEF FinishVideo, Succeeded, Answer, _retain_failed_wan_result,
     _verify_and_store, TypeOK, Distinct, Held, Without,
     Holding, Kind
<1>5. ASSUME NEW r \in Requests PROVE Filed(r)'
  BY <1>0 DEF FinishVideo, Succeeded, Answer, _retain_failed_wan_result,
     _verify_and_store, TypeOK, Distinct, Filed, Ending
<1>6. ASSUME NEW r \in Requests PROVE Answered(r)'
  BY <1>0 DEF FinishVideo, Succeeded, Answer, _retain_failed_wan_result,
     _verify_and_store, TypeOK, Distinct, Answered, Filed, Ending
<1> QED
  BY <1>1, <1>2, <1>3, <1>4, <1>5, <1>6 DEF IInv

(* Crash keeps the invariant. *)
LEMMA CrashStep == ASSUME Distinct, IInv, Crash PROVE IInv'
<1> USE DEF router, request, comfy, files
<1>0. TypeOK /\ Quiet /\ OneTenant /\ \A r \in Requests : Held(r) /\ Filed(r) /\ Answered(r)
  BY DEF IInv
<1>1. TypeOK'
  BY <1>0 DEF Crash, TypeOK, Stages
<1>2. Quiet'
  BY <1>0 DEF Crash, TypeOK, Quiet
<1>3. OneTenant'
  BY <1>0 DEF Crash, TypeOK, OneTenant
<1>4. ASSUME NEW r \in Requests PROVE Held(r)'
  BY <1>0 DEF Crash, TypeOK, Distinct, Held, Quiet, Without, Holding, Kind
<1>5. ASSUME NEW r \in Requests PROVE Filed(r)'
  BY <1>0 DEF Crash, TypeOK, Distinct, Filed, Ending
<1>6. ASSUME NEW r \in Requests PROVE Answered(r)'
  BY <1>0 DEF Crash, TypeOK, Distinct, Answered
<1> QED
  BY <1>1, <1>2, <1>3, <1>4, <1>5, <1>6 DEF IInv

(* Boots keeps the invariant. *)
LEMMA BootsStep == ASSUME Distinct, IInv, Boots PROVE IInv'
<1> USE DEF router, request, comfy, files
<1>0. TypeOK /\ Quiet /\ OneTenant /\ \A r \in Requests : Held(r) /\ Filed(r) /\ Answered(r)
  BY DEF IInv
<1>1. TypeOK'
  BY <1>0 DEF Boots, TypeOK, Stages
<1>2. Quiet'
  BY <1>0 DEF Boots, TypeOK, Quiet
<1>3. OneTenant'
  BY <1>0 DEF Boots, TypeOK, OneTenant
<1>4. ASSUME NEW r \in Requests PROVE Held(r)'
  BY <1>0 DEF Boots, TypeOK, Distinct, Held, Quiet, Without, Holding, Kind
<1>5. ASSUME NEW r \in Requests PROVE Filed(r)'
  BY <1>0 DEF Boots, TypeOK, Distinct, Filed, Ending
<1>6. ASSUME NEW r \in Requests PROVE Answered(r)'
  BY <1>0 DEF Boots, TypeOK, Distinct, Answered
<1> QED
  BY <1>1, <1>2, <1>3, <1>4, <1>5, <1>6 DEF IInv

(* start_default keeps the invariant. *)
LEMMA start_defaultStep == ASSUME Distinct, IInv, start_default PROVE IInv'
<1> USE DEF router, request, comfy, files
<1>0. TypeOK /\ Quiet /\ OneTenant /\ \A r \in Requests : Held(r) /\ Filed(r) /\ Answered(r)
  BY DEF IInv
<1>1. TypeOK'
  BY <1>0 DEF start_default, reconcile_startup, ReconcileFails, TypeOK, Stages
<1>2. Quiet'
  BY <1>0 DEF start_default, reconcile_startup, ReconcileFails, TypeOK, Quiet
<1>3. OneTenant'
  BY <1>0 DEF start_default, reconcile_startup, ReconcileFails, TypeOK, OneTenant
<1>4. ASSUME NEW r \in Requests PROVE Held(r)'
  BY <1>0 DEF start_default, reconcile_startup, ReconcileFails, TypeOK, Distinct, Held,
     Quiet, Without, Holding, Kind
<1>5. ASSUME NEW r \in Requests PROVE Filed(r)'
  BY <1>0 DEF start_default, reconcile_startup, ReconcileFails, TypeOK, Distinct, Filed, Ending
<1>6. ASSUME NEW r \in Requests PROVE Answered(r)'
  BY <1>0 DEF start_default, reconcile_startup, ReconcileFails, TypeOK, Distinct, Answered
<1> QED
  BY <1>1, <1>2, <1>3, <1>4, <1>5, <1>6 DEF IInv

(* ForeignListens keeps the invariant. *)
LEMMA ForeignListensStep == ASSUME Distinct, IInv, ForeignListens PROVE IInv'
<1> USE DEF router, request, comfy, files
<1>0. TypeOK /\ Quiet /\ OneTenant /\ \A r \in Requests : Held(r) /\ Filed(r) /\ Answered(r)
  BY DEF IInv
<1>1. TypeOK'
  BY <1>0 DEF ForeignListens, TypeOK, Stages
<1>2. Quiet'
  BY <1>0 DEF ForeignListens, TypeOK, Quiet
<1>3. OneTenant'
  BY <1>0 DEF ForeignListens, TypeOK, OneTenant
<1>4. ASSUME NEW r \in Requests PROVE Held(r)'
  BY <1>0 DEF ForeignListens, TypeOK, Distinct, Held, Quiet, Without, Holding, Kind
<1>5. ASSUME NEW r \in Requests PROVE Filed(r)'
  BY <1>0 DEF ForeignListens, TypeOK, Distinct, Filed, Ending
<1>6. ASSUME NEW r \in Requests PROVE Answered(r)'
  BY <1>0 DEF ForeignListens, TypeOK, Distinct, Answered
<1> QED
  BY <1>1, <1>2, <1>3, <1>4, <1>5, <1>6 DEF IInv

(* Exits keeps the invariant. *)
LEMMA ExitsStep == ASSUME Distinct, IInv, NEW p, Exits(p) PROVE IInv'
<1> USE DEF router, request, comfy, files
<1>0. TypeOK /\ Quiet /\ OneTenant /\ \A r \in Requests : Held(r) /\ Filed(r) /\ Answered(r)
  BY DEF IInv
<1>1. TypeOK'
  BY <1>0 DEF Exits, TypeOK, Stages
<1>2. Quiet'
  BY <1>0 DEF Exits, TypeOK, Quiet
<1>3. OneTenant'
  BY <1>0 DEF Exits, TypeOK, OneTenant
<1>4. ASSUME NEW r \in Requests PROVE Held(r)'
  BY <1>0 DEF Exits, TypeOK, Distinct, Held, Quiet, Without, Holding, Kind
<1>5. ASSUME NEW r \in Requests PROVE Filed(r)'
  BY <1>0 DEF Exits, TypeOK, Distinct, Filed, Ending
<1>6. ASSUME NEW r \in Requests PROVE Answered(r)'
  BY <1>0 DEF Exits, TypeOK, Distinct, Answered
<1> QED
  BY <1>1, <1>2, <1>3, <1>4, <1>5, <1>6 DEF IInv

(* No step breaks the invariant. *)
LEMMA Continues == ASSUME Distinct, IInv, [Next]_vars PROVE IInv'
<1>1. CASE \E q \in Requests :
             Preflight(q) \/ Lock(q) \/ external_workload_session(q) \/ Leaves(q)
  BY <1>1, PreflightStep, LockStep, external_workload_sessionStep, LeavesStep
<1>2. CASE \E q \in Requests : Works(q)
  BY <1>2, stop_active_workerStep, spawnStep, write_spawn_stateStep, wait_readyStep,
     SubmitStep, generateStep, release_runtimeStep, restore_external_workerStep,
     cleanup_request_filesStep, FinishImageStep, FinishVideoStep
     DEF Works
<1>3. CASE Crash \/ Boots \/ start_default \/ ForeignListens
  BY <1>3, CrashStep, BootsStep, start_defaultStep, ForeignListensStep
<1>4. CASE \E p \in Requests \cup {Foreign} : Exits(p)
  BY <1>4, ExitsStep
<1>5. CASE UNCHANGED vars
  BY <1>5 DEF vars, router, request, comfy, files, IInv, TypeOK, Quiet, OneTenant, Held,
     Filed, Answered, Kind
<1> QED
  BY <1>1, <1>2, <1>3, <1>4, <1>5 DEF Next

(* The invariant says of every request what the two properties ask. *)
LEMMA Enough == ASSUME Distinct, IInv PROVE OneTenant /\ MediaTruth
<1>1. OneTenant
  BY DEF IInv
<1>2. ASSUME NEW r \in Requests, pc[r] = "done"
      PROVE  r # session /\ r # lock[Kind(r)] /\ r \notin temp
  BY <1>2 DEF IInv, Held, Filed, Holding, Without, Ending
<1>3. ASSUME NEW r \in Requests, result[r] # None
      PROVE  /\ result[r].success =>
                   result[r].produced /\ result[r].restored /\ r \notin alive \cup staged
             /\ result[r].produced => r \in stored
  BY <1>3 DEF IInv, Answered
<1> QED
  BY <1>1, <1>2, <1>3 DEF MediaTruth

(* The invariant always holds. *)
THEOREM Invariance == ASSUME Distinct PROVE Init /\ [][Next]_vars => []IInv
<1>1. Init => IInv
  BY Begins
<1>2. IInv /\ [Next]_vars => IInv'
  BY Continues
<1> QED
  BY <1>1, <1>2, PTL

(* The model and a ComfyUI of Core that holds GPU memory never live together, and a
   result is a success only when its file is stored, the model is back and its
   ComfyUI is gone (router.py:404-562, image_generation.py:684-1161,
   video_generation.py:1258-1904). *)
THEOREM MediaIsTrue == ASSUME Distinct PROVE Spec => [](OneTenant /\ MediaTruth)
<1>1. IInv => OneTenant /\ MediaTruth
  BY Enough
<1> QED
  BY <1>1, Invariance, PTL DEF Spec

-----------------------------------------------------------------------------
(* The research of repair orders.                                          *)

Writes == [job : Jobs, cal : Nat, doc : Docs, target : Nat, version : Nat]
Papers == [source : Docs, links : SUBSET Nat, version : Nat \ {0}]
Working == {"loop", "model", "search", "attach", "write", "reread", "finish"}
Places == [at : Working \cup {"none", "gone", "post", "notify"}, cal : Nat,
           doc : Docs \cup {None}, complete : BOOLEAN, write : Writes \cup {None},
           attached : BOOLEAN, again : BOOLEAN]

\* What is absent is neither a job nor a document nor a record of one.
Parted == None \notin Jobs \cup Docs \cup Si!Records

ResearchTyped ==
    /\ on \in BOOLEAN /\ unresumed \subseteq Jobs
    /\ job \in [Jobs -> Si!Records \cup {None}]
    /\ at \in [Jobs -> Places]
    /\ ciq \in Seq(Papers) /\ late \subseteq Writes

\* The document of a title on a repair order, and what counts as attached, for any
\* documents.
FirstOf(papers, d) ==
    LET of == {i \in DOMAIN papers : papers[i].source = d}
    IN  IF of = {} THEN 0 ELSE CHOOSE i \in of : \A k \in of : i <= k
AttachedIn(papers, d, c) ==
    FirstOf(papers, d) # 0 /\ (c \in WithoutId \/ c \in papers[FirstOf(papers, d)].links)

\* A document that may be used for an objective: nothing that can be read says otherwise.
Suits(d, c) == c \in WithoutId \/ d \in Unreadable \/ Captured[d] \in {0, c}

\* A request brings or links a document that suits, and if it changes a document it is
\* that one.
Right(w, papers) ==
    /\ Suits(w.doc, w.cal)
    /\ w.version # 0 => w.target \in DOMAIN papers /\ papers[w.target].source = w.doc

\* A driver works on a running job and posts a completed one; what it holds is of the
\* calibration it works on.
Drives(j) ==
    /\ at[j].at # "none" => on /\ j \notin unresumed /\ job[j] # None
    /\ at[j].at \in Working => Si!Running(j)
    /\ at[j].at \in {"post", "notify"} => job[j].state = "completed" /\ ~job[j].notified
    /\ at[j].at \in {"attach", "write", "reread"} => at[j].doc # None
    /\ at[j].doc # None => Suits(at[j].doc, at[j].cal)
    /\ at[j].at = "write" => at[j].write \in Writes /\ Right(at[j].write, ciq)
    /\ at[j].attached => /\ at[j].at = "finish" /\ at[j].doc # None
                         /\ AttachedIn(ciq, at[j].doc, at[j].cal)

\* A job of an older build is started over before anything is done with it; a running
\* job was not posted.
OnRecord(j) ==
    /\ j \in unresumed => job[j] # None
    /\ job[j] # None => /\ job[j].contract # 2 => Si!Running(j) /\ (~on \/ j \in unresumed)
                        /\ job[j].state = "running" => ~job[j].notified

\* The start that holds the lock saw no running job, and none has begun since.
OnlyOne ==
    /\ \A i, j \in Jobs : Si!Running(i) /\ Si!Running(j) => i = j
    /\ starting # None => /\ starting \in Jobs /\ job[starting] = None /\ Si!running_job = {}
                          /\ on /\ unresumed = {}

RInv ==
    /\ ResearchTyped /\ OnlyOne /\ Si!AttachedIsLinked /\ Si!OwnProcedure
    /\ \A w \in late : Right(w, ciq)
    /\ \A j \in Jobs : Drives(j) /\ OnRecord(j)

-----------------------------------------------------------------------------
(* A set of numbers has a least one. *)
LEMMA LeastExists ==
    ASSUME NEW I \in SUBSET Nat, I # {}
    PROVE  \E i \in I : \A j \in I : i <= j
<1>1. PICK i \in I : \A j \in I : <<j, i>> \notin OpToRel(<, Nat)
  BY NatLessThanWellFounded, WFMin
<1>2. \A j \in I : ~(j < i)
  BY <1>1, Zenon DEF OpToRel
<1> QED
  BY <1>2

(* The first document of a title, if there is one. *)
LEMMA FirstIs ==
    ASSUME NEW papers \in Seq(Papers), NEW d
    PROVE  /\ FirstOf(papers, d) # 0 =>
                /\ FirstOf(papers, d) \in DOMAIN papers
                /\ papers[FirstOf(papers, d)].source = d
                /\ \A k \in DOMAIN papers : papers[k].source = d => FirstOf(papers, d) <= k
           /\ FirstOf(papers, d) \in Nat
           /\ (\E k \in DOMAIN papers : papers[k].source = d) => FirstOf(papers, d) # 0
<1> DEFINE of == {i \in DOMAIN papers : papers[i].source = d}
<1>1. CASE of = {}
  BY <1>1 DEF FirstOf
<1>2. CASE of # {}
  <2>1. of \in SUBSET Nat
    OBVIOUS
  <2>2. \E i \in of : \A k \in of : i <= k
    BY <1>2, <2>1, LeastExists
  <2>3. FirstOf(papers, d) \in of /\ \A k \in of : FirstOf(papers, d) <= k
    <3>1. FirstOf(papers, d) = CHOOSE i \in of : \A k \in of : i <= k
      BY <1>2 DEF FirstOf
    <3> HIDE DEF of
    <3> QED
      BY <2>2, <3>1
  <2> QED
    BY <2>1, <2>3
<1> QED
  BY <1>1, <1>2

\* Documents are added and gain links; they stay of one source.
Grows(old, new) ==
    /\ old \in Seq(Papers) /\ new \in Seq(Papers) /\ Len(old) <= Len(new)
    /\ \A i \in 1 .. Len(old) : old[i].source = new[i].source /\ old[i].links \subseteq new[i].links

(* What is attached stays so when documents are added or gain links. *)
LEMMA AttachedStays ==
    ASSUME NEW old, NEW new, Grows(old, new), NEW d, NEW c, AttachedIn(old, d, c)
    PROVE  AttachedIn(new, d, c)
<1> DEFINE a == FirstOf(old, d)
           b == FirstOf(new, d)
<1>1. /\ old \in Seq(Papers) /\ new \in Seq(Papers) /\ DOMAIN old = 1 .. Len(old)
      /\ DOMAIN new = 1 .. Len(new) /\ Len(old) \in Nat /\ Len(new) \in Nat
      /\ DOMAIN old \subseteq DOMAIN new
  BY DEF Grows
<1>2. a # 0 /\ (c \in WithoutId \/ c \in old[a].links)
  BY DEF AttachedIn
<1>3. a \in DOMAIN old /\ old[a].source = d /\ \A k \in DOMAIN old : old[k].source = d => a <= k
  BY <1>1, <1>2, FirstIs
<1>4. a \in DOMAIN new /\ new[a].source = d /\ (c \in WithoutId \/ c \in new[a].links)
  BY <1>1, <1>2, <1>3 DEF Grows
<1>5. b # 0
  BY <1>1, <1>4, FirstIs
<1>6. b \in DOMAIN new /\ new[b].source = d /\ b <= a
  BY <1>1, <1>4, <1>5, FirstIs
<1>7. b \in DOMAIN old /\ old[b].source = d
  BY <1>1, <1>3, <1>6 DEF Grows
<1>8. a = b
  BY <1>1, <1>3, <1>6, <1>7
<1> QED
  BY <1>4, <1>5, <1>8 DEF AttachedIn

(* What a request is right about stays so. *)
LEMMA RightStays ==
    ASSUME NEW old, NEW new, Grows(old, new), NEW w, Right(w, old) PROVE Right(w, new)
  BY DEF Right, Grows

(* The model's operators are these. *)
LEMMA IsTheirs ==
    \A d, c : /\ Si!IsAttached(d, c) <=> AttachedIn(ciq, d, c)
              /\ Si!IsAttached(d, c)' <=> AttachedIn(ciq', d, c)
  BY DEF Si!IsAttached, AttachedIn, Si!_document_on_ro, FirstOf

-----------------------------------------------------------------------------
\* What a job calls attached is.
AttachedOf(j) ==
    job[j] # None /\ (job[j].contract = 2 \/ job[j].state = "completed") =>
        \A c \in Si!Cals : job[j].outcome[c] = "attached" => \E d \in Docs : AttachedIn(ciq, d, c)

(* The property is that of each job. *)
LEMMA AttachedIs == /\ Si!AttachedIsLinked <=> \A j \in Jobs : AttachedOf(j)
                    /\ Si!AttachedIsLinked' <=> \A j \in Jobs : AttachedOf(j)'
  BY IsTheirs DEF Si!AttachedIsLinked, AttachedOf

\* One job moves.
Others(j) == /\ \A i \in Jobs \ {j} : at'[i] = at[i] /\ job'[i] = job[i]
             /\ UNCHANGED Si!service

(* The invariant of all jobs follows from that of the one that moved. *)
LEMMA Moves ==
    ASSUME RInv, NEW j \in Jobs, job[j] # None, Others(j), ResearchTyped', Grows(ciq, ciq'), Si!OwnProcedure',
           \A w \in late' : Right(w, ciq)', Drives(j)', OnRecord(j)', AttachedOf(j)',
           Si!Running(j)' => Si!Running(j)
    PROVE  RInv'
<1>1. ASSUME NEW i \in Jobs \ {j} PROVE Drives(i)' /\ OnRecord(i)' /\ AttachedOf(i)'
  <2>1. at'[i] = at[i] /\ job'[i] = job[i] /\ on' = on /\ unresumed' = unresumed
    BY DEF Others, Si!service
  <2>2. Drives(i) /\ OnRecord(i) /\ AttachedOf(i)
    BY AttachedIs DEF RInv
  <2>3. Drives(i)'
    <3>1. at[i].attached => AttachedIn(ciq', at[i].doc, at[i].cal)
      BY <2>2, AttachedStays DEF Drives
    <3>2. at[i].at = "write" => Right(at[i].write, ciq')
      BY <2>2, RightStays DEF Drives
    <3> QED
      BY <2>1, <2>2, <3>1, <3>2 DEF Drives, Si!Running
  <2>4. AttachedOf(i)'
    BY <2>1, <2>2, AttachedStays DEF AttachedOf
  <2> QED
    BY <2>1, <2>2, <2>3, <2>4 DEF OnRecord, Si!Running
<1>2. Si!AttachedIsLinked'
  BY <1>1, AttachedIs
<1>3. \A i \in Jobs : Si!Running(i)' => Si!Running(i)
  BY DEF Others, Si!Running
<1>4. OnlyOne'
  <2>1. /\ starting' = starting /\ on' = on /\ unresumed' = unresumed
        /\ Si!running_job' \subseteq Si!running_job
    BY <1>3 DEF Others, Si!service, Si!running_job
  <2>2. starting # None => job'[starting] = None
    BY DEF Others, RInv, OnlyOne
  <2> QED
    BY <1>3, <2>1, <2>2 DEF RInv, OnlyOne
<1> QED
  BY <1>1, <1>2, <1>4 DEF RInv

(* Nothing is added to a repair order by most steps. *)
LEMMA Stays == ASSUME RInv, ciq' = ciq
               PROVE  Grows(ciq, ciq') /\ Si!OwnProcedure' /\ \A w \in late : Right(w, ciq)'
  BY DEF RInv, ResearchTyped, Grows, Si!OwnProcedure, Right

-----------------------------------------------------------------------------
DriverStages == Working \cup {"none", "gone", "post", "notify"}

\* A driver goes to a stage and takes what it holds along, or drops it.
LEMMA Goes ==
    ASSUME at \in [Jobs -> Places], NEW j \in Jobs, NEW x \in DriverStages,
           at' = [at EXCEPT ![j].at = x]
    PROVE  /\ at' \in [Jobs -> Places] /\ \A i \in Jobs \ {j} : at'[i] = at[i]
           /\ at'[j].at = x /\ at'[j].cal = at[j].cal /\ at'[j].doc = at[j].doc
           /\ at'[j].complete = at[j].complete /\ at'[j].write = at[j].write
           /\ at'[j].attached = at[j].attached
<1>1. at[j] \in Places
  OBVIOUS
<1>2. [at[j] EXCEPT !.at = x] \in Places
  BY <1>1, Zenon DEF Places, DriverStages
<1>3. at' = [at EXCEPT ![j] = [at[j] EXCEPT !.at = x]]
  BY Zenon
<1>4. at' \in [Jobs -> Places] /\ \A i \in Jobs \ {j} : at'[i] = at[i]
  BY <1>2, <1>3, Zenon
<1>5. at'[j] = [at[j] EXCEPT !.at = x]
  BY <1>3, Zenon
<1> QED
  BY <1>1, <1>4, <1>5, Zenon DEF Places

(* A driver goes to a stage with nothing in its hands. *)
LEMMA Drops ==
    ASSUME at \in [Jobs -> Places], NEW j \in Jobs, NEW x \in DriverStages, NEW c \in Nat,
           \/ at' = [at EXCEPT ![j] = [Si!Idle EXCEPT !.at = x, !.cal = c]]
           \/ c = 0 /\ at' = [at EXCEPT ![j] = [Si!Idle EXCEPT !.at = x]]
           \/ c = 0 /\ at' = [at EXCEPT ![j] = [Si!Idle EXCEPT !.at = x, !.again = TRUE]]
    PROVE  /\ at' \in [Jobs -> Places] /\ \A i \in Jobs \ {j} : at'[i] = at[i]
           /\ at'[j].at = x /\ at'[j].cal = c /\ at'[j].doc = None /\ ~at'[j].attached
<1> DEFINE q(g) == [at |-> x, cal |-> c, doc |-> None, complete |-> FALSE,
                    write |-> None, attached |-> FALSE, again |-> g]
<1>1. PICK g \in BOOLEAN : at' = [at EXCEPT ![j] = q(g)]
  <2>1. at' = [at EXCEPT ![j] = q(FALSE)] \/ at' = [at EXCEPT ![j] = q(TRUE)]
    BY Zenon DEF Si!Idle
  <2> QED
    BY <2>1, Zenon
<1>2. /\ q(g) \in Places /\ q(g).at = x /\ q(g).cal = c /\ q(g).doc = None /\ ~q(g).attached
  BY Zenon DEF Places, DriverStages
<1> HIDE DEF q
<1> QED
  BY <1>1, <1>2

\* A job's record gets an outcome.
Noted(j, c, o) == job' = [job EXCEPT ![j].outcome[c] = o]

(* A record that is put in the place of another is there, and the rest are as they were. *)
LEMMA PutsRecord ==
    ASSUME job \in [Jobs -> Si!Records \cup {None}], NEW j \in Jobs, NEW r \in Si!Records,
           job' = [job EXCEPT ![j] = r]
    PROVE  /\ job' \in [Jobs -> Si!Records \cup {None}] /\ job'[j] = r
           /\ \A i \in Jobs \ {j} : job'[i] = job[i]
OBVIOUS

(* A record that gets an outcome keeps the rest. *)
LEMMA NotesOutcome ==
    ASSUME job \in [Jobs -> Si!Records \cup {None}], NEW j \in Jobs, job[j] # None,
           NEW c, NEW o \in Si!Outcomes, Noted(j, c, o)
    PROVE  /\ job' \in [Jobs -> Si!Records \cup {None}] /\ \A i \in Jobs \ {j} : job'[i] = job[i]
           /\ job'[j] \in Si!Records /\ job'[j].state = job[j].state
           /\ job'[j].contract = job[j].contract /\ job'[j].notified = job[j].notified
           /\ \A b \in Si!Cals : job'[j].outcome[b] = IF b = c THEN o ELSE job[j].outcome[b]
<1>1. job[j] \in Si!Records
  OBVIOUS
<1> DEFINE r == [job[j] EXCEPT !.outcome = [job[j].outcome EXCEPT ![c] = o]]
<1>2. job' = [job EXCEPT ![j] = r]
  BY Zenon DEF Noted
<1>3. job[j].outcome \in [Si!Cals -> Si!Outcomes]
  BY <1>1 DEF Si!Records
<1>4. /\ [job[j].outcome EXCEPT ![c] = o] \in [Si!Cals -> Si!Outcomes]
      /\ \A b \in Si!Cals : [job[j].outcome EXCEPT ![c] = o][b] = IF b = c THEN o ELSE job[j].outcome[b]
  BY <1>3
<1>5. /\ r \in Si!Records /\ r.state = job[j].state /\ r.contract = job[j].contract
      /\ r.notified = job[j].notified /\ r.outcome = [job[j].outcome EXCEPT ![c] = o]
  BY <1>1, <1>4, Zenon DEF Si!Records
<1>6. /\ job' \in [Jobs -> Si!Records \cup {None}] /\ job'[j] = r
      /\ \A i \in Jobs \ {j} : job'[i] = job[i]
  BY <1>2, <1>5, PutsRecord
<1> HIDE DEF r
<1> QED
  BY <1>4, <1>5, <1>6

\* A job's record is completed.
LEMMA Completes ==
    ASSUME job \in [Jobs -> Si!Records \cup {None}], NEW j \in Jobs, job[j] # None,
           job' = [job EXCEPT ![j] = Si!Finalized(@)]
    PROVE  /\ job' \in [Jobs -> Si!Records \cup {None}] /\ \A i \in Jobs \ {j} : job'[i] = job[i]
           /\ job'[j] \in Si!Records /\ job'[j].state = "completed"
           /\ job'[j].contract = job[j].contract /\ job'[j].notified = job[j].notified
           /\ \A b \in Si!Cals : job'[j].outcome[b] = "attached" => job[j].outcome[b] = "attached"
<1>1. job[j] \in Si!Records
  OBVIOUS
<1> DEFINE last == [c \in Si!Cals |-> Si!classify_objective(job[j].outcome[c])]
           r == [job[j] EXCEPT !.state = "completed", !.outcome = last]
<1>2. job' = [job EXCEPT ![j] = r]
  BY Zenon DEF Si!Finalized
<1>3. \A o \in Si!Outcomes : Si!classify_objective(o) \in Si!Outcomes
                          /\ (Si!classify_objective(o) = "attached" => o = "attached")
  BY Zenon DEF Si!classify_objective, Si!Outcomes
<1>4. last \in [Si!Cals -> Si!Outcomes] /\ \A b \in Si!Cals : last[b] = "attached" => job[j].outcome[b] = "attached"
  BY <1>1, <1>3 DEF Si!Records
<1>5. /\ r \in Si!Records /\ r.state = "completed" /\ r.contract = job[j].contract
      /\ r.notified = job[j].notified /\ r.outcome = last
  <2> HIDE DEF last
  <2> QED
    BY <1>1, <1>4, Zenon DEF Si!Records
<1>6. /\ job' \in [Jobs -> Si!Records \cup {None}] /\ job'[j] = r
      /\ \A i \in Jobs \ {j} : job'[i] = job[i]
  BY <1>2, <1>5, PutsRecord
<1> HIDE DEF r, last
<1> QED
  BY <1>4, <1>5, <1>6

-----------------------------------------------------------------------------
(* A step in which one driver goes on and nothing is sent. *)
LEMMA OneMoves ==
    ASSUME RInv, NEW j \in Jobs, job[j] # None, UNCHANGED <<Si!service, ciq, late>>,
           at' \in [Jobs -> Places], \A i \in Jobs \ {j} : at'[i] = at[i],
           job' \in [Jobs -> Si!Records \cup {None}], \A i \in Jobs \ {j} : job'[i] = job[i],
           Drives(j)', OnRecord(j)', AttachedOf(j)', Si!Running(j)' => Si!Running(j)
    PROVE  RInv'
<1>1. ResearchTyped'
  BY DEF RInv, ResearchTyped, Si!service
<1>2. Others(j)
  BY DEF Others
<1> QED
  BY <1>1, <1>2, Stays, Moves DEF RInv

(* The same, for a step that leaves the world alone. *)
LEMMA OneGoes ==
    ASSUME RInv, NEW j \in Jobs, job[j] # None, UNCHANGED <<Si!service, Si!world>>,
           at' \in [Jobs -> Places], \A i \in Jobs \ {j} : at'[i] = at[i],
           job' \in [Jobs -> Si!Records \cup {None}], \A i \in Jobs \ {j} : job'[i] = job[i],
           Drives(j)', OnRecord(j)', AttachedOf(j)', Si!Running(j)' => Si!Running(j)
    PROVE  RInv'
<1>1. UNCHANGED <<Si!service, ciq, late>>
  BY DEF Si!world
<1> QED
  BY <1>1, OneMoves

(* The model comes up, or the calibration is given up. *)
LEMMA WaitKeeps == ASSUME Parted, RInv, NEW j \in Jobs, Si!_wait_for_model(j) PROVE RInv'
<1>1. /\ Drives(j) /\ OnRecord(j) /\ AttachedOf(j) /\ Si!Running(j) /\ at[j].at = "model"
      /\ at \in [Jobs -> Places] /\ job \in [Jobs -> Si!Records \cup {None}]
      /\ job[j] # None /\ ~at[j].attached /\ UNCHANGED <<Si!service, Si!world>> /\ on
  BY AttachedIs DEF Si!_wait_for_model, RInv, ResearchTyped, Drives, Working,
     Si!Running
<1>2. CASE at' = [at EXCEPT ![j].at = "search"] /\ UNCHANGED job
  <2>1. /\ at' \in [Jobs -> Places] /\ \A i \in Jobs \ {j} : at'[i] = at[i]
        /\ at'[j].at = "search" /\ at'[j].cal = at[j].cal /\ at'[j].doc = at[j].doc
        /\ ~at'[j].attached
    BY <1>1, <1>2, Goes DEF DriverStages, Working
  <2>2. Drives(j)' /\ OnRecord(j)' /\ AttachedOf(j)' /\ Si!Running(j)'
    BY <1>1, <1>2, <2>1 DEF Drives, OnRecord, AttachedOf, Si!Running, Working,
       Si!service, Si!world
  <2> QED
    BY <1>1, <1>2, <2>1, <2>2, OneGoes
<1>3. CASE /\ job' = [job EXCEPT ![j].outcome[at[j].cal] = "model_unavailable"]
           /\ at' = [at EXCEPT ![j] = [Si!Idle EXCEPT !.at = "loop"]]
  <2>1. /\ at' \in [Jobs -> Places] /\ \A i \in Jobs \ {j} : at'[i] = at[i]
        /\ at'[j].at = "loop" /\ at'[j].doc = None /\ ~at'[j].attached
    BY <1>1, <1>3, Drops DEF DriverStages, Working
  <2>2. /\ job' \in [Jobs -> Si!Records \cup {None}] /\ \A i \in Jobs \ {j} : job'[i] = job[i]
        /\ job'[j] \in Si!Records /\ job'[j].state = job[j].state
        /\ job'[j].contract = job[j].contract /\ job'[j].notified = job[j].notified
        /\ \A b \in Si!Cals : job'[j].outcome[b] = "attached" => job[j].outcome[b] = "attached"
    <3>1. Noted(j, at[j].cal, "model_unavailable")
      BY <1>3, Zenon DEF Noted
    <3> QED
      BY <1>1, <3>1, NotesOutcome DEF Si!Outcomes
  <2>3. Drives(j)' /\ OnRecord(j)' /\ AttachedOf(j)' /\ Si!Running(j)'
    BY <1>1, <2>1, <2>2 DEF Drives, OnRecord, AttachedOf, Si!Running, Working,
       Si!service, Si!world, Parted
  <2> QED
    BY <1>1, <2>1, <2>2, <2>3, OneGoes
<1> QED
  BY <1>2, <1>3 DEF Si!_wait_for_model

(* The search offers a document that suits. *)
LEMMA Offers ==
    ASSUME NEW c, NEW r \in Si!LocalResults(c)
    PROVE  /\ r.doc \in Docs \cup {None} /\ r.complete \in BOOLEAN
           /\ r.doc # None => Suits(r.doc, c)
<1>1. PICK rows \in Si!Rows, verdict \in Si!Verdicts, blind \in SUBSET Unreadable :
          r = Si!local_procedure(c, rows, verdict, blind)
  BY DEF Si!LocalResults
<1>2. PICK n \in 0 .. Si!Cardinality(Docs) : rows \in [1 .. n -> Docs]
  BY <1>1 DEF Si!Rows
<1> DEFINE may == {i \in DOMAIN rows : /\ Si!provenance_allows_reuse(rows[i], c, blind)
                                       /\ verdict[rows[i]] # "unprepared"}
           seen == {i \in may : Si!Cardinality({k \in may : k < i}) < ReviewLimit}
           whole == {i \in seen : verdict[rows[i]] = "satisfied"}
           best == IF whole # {} THEN whole ELSE {i \in seen : verdict[rows[i]] = "partial"}
           first == CHOOSE i \in best : \A k \in best : i <= k
<1>3. best \subseteq may
  OBVIOUS
<1>4. r = IF best = {} THEN [doc |-> None, complete |-> FALSE]
          ELSE [doc |-> rows[first], complete |-> whole # {}]
  BY <1>1, Zenon DEF Si!local_procedure
<1>5. \A i \in may : i \in Nat /\ rows[i] \in Docs /\ Suits(rows[i], c)
  BY <1>1, <1>2 DEF Si!provenance_allows_reuse, Si!captured_calibration_id, Suits
<1>6. best # {} => first \in best
  <2>1. best \in SUBSET Nat
    BY <1>3, <1>5
  <2> HIDE DEF best
  <2> QED
    BY <2>1, LeastExists
<1> HIDE DEF first, best, whole, seen, may
<1> QED
  BY <1>3, <1>4, <1>5, <1>6

(* The search takes an offer, or has none. *)
LEMMA ResearchKeeps == ASSUME Parted, RInv, NEW j \in Jobs, Si!_research(j) PROVE RInv'
<1>1. /\ Drives(j) /\ OnRecord(j) /\ AttachedOf(j) /\ Si!Running(j) /\ at[j].at = "search"
      /\ at \in [Jobs -> Places] /\ job \in [Jobs -> Si!Records \cup {None}]
      /\ job[j] # None /\ ~at[j].attached /\ UNCHANGED <<Si!service, Si!world, job>> /\ on
  BY AttachedIs DEF Si!_research, RInv, ResearchTyped, Drives, Working, Si!Running
<1>2. PICK r \in Si!LocalResults(at[j].cal) :
          at' = [at EXCEPT ![j].doc = r.doc, ![j].complete = r.complete,
                           ![j].at = IF r.doc = None THEN "finish" ELSE "attach"]
  BY DEF Si!_research
<1>3. /\ r.doc \in Docs \cup {None} /\ r.complete \in BOOLEAN
      /\ r.doc # None => Suits(r.doc, at[j].cal)
  BY Offers
<1> DEFINE p == [at[j] EXCEPT !.doc = r.doc, !.complete = r.complete,
                              !.at = IF r.doc = None THEN "finish" ELSE "attach"]
<1>4. at' = [at EXCEPT ![j] = p]
  BY <1>2, Zenon
<1>5. at[j] \in Places
  BY <1>1
<1>6. /\ p \in Places /\ p.at = (IF r.doc = None THEN "finish" ELSE "attach")
      /\ p.doc = r.doc /\ p.cal = at[j].cal /\ p.attached = at[j].attached
  <2>1. (IF r.doc = None THEN "finish" ELSE "attach") \in DriverStages
    BY DEF DriverStages, Working
  <2> QED
    BY <1>3, <1>5, <2>1, Zenon DEF Places, DriverStages
<1>7. /\ at' \in [Jobs -> Places] /\ at'[j] = p /\ \A i \in Jobs \ {j} : at'[i] = at[i]
  <2> HIDE DEF p
  <2> QED
    BY <1>1, <1>4, <1>6
<1> HIDE DEF p
<1>8. Drives(j)' /\ OnRecord(j)' /\ AttachedOf(j)' /\ Si!Running(j)'
  BY <1>1, <1>3, <1>6, <1>7 DEF Drives, OnRecord, AttachedOf, Si!Running, Working,
     Si!service, Si!world
<1> QED
  BY <1>1, <1>7, <1>8, OneGoes

(* The read that decides whether the document is attached. *)
LEMMA ConfirmKeeps == ASSUME Parted, RInv, NEW j \in Jobs, Si!Confirm(j) PROVE RInv'
<1>1. /\ Drives(j) /\ OnRecord(j) /\ AttachedOf(j) /\ Si!Running(j) /\ at[j].at = "reread"
      /\ at \in [Jobs -> Places] /\ job \in [Jobs -> Si!Records \cup {None}]
      /\ job[j] # None /\ at[j].doc # None /\ UNCHANGED <<Si!service, Si!world, job>> /\ on
  BY AttachedIs DEF Si!Confirm, RInv, ResearchTyped, Drives, Working, Si!Running
<1>2. PICK readable \in BOOLEAN :
          at' = [at EXCEPT ![j].at = "finish",
                           ![j].attached = readable /\ Si!IsAttached(at[j].doc, at[j].cal)]
  BY DEF Si!Confirm
<1> DEFINE yes == readable /\ Si!IsAttached(at[j].doc, at[j].cal)
           p == [at[j] EXCEPT !.at = "finish", !.attached = yes]
<1>3. at[j] \in Places /\ yes \in BOOLEAN /\ (yes => AttachedIn(ciq, at[j].doc, at[j].cal))
  BY <1>1, IsTheirs
<1>4. at' = [at EXCEPT ![j] = p]
  BY <1>2, Zenon
<1> HIDE DEF yes
<1>5. /\ p \in Places /\ p.at = "finish"
      /\ p.doc = at[j].doc /\ p.cal = at[j].cal /\ p.attached = yes
  BY <1>3, Zenon DEF Places, Working
<1>6. /\ at' \in [Jobs -> Places] /\ at'[j] = p /\ \A i \in Jobs \ {j} : at'[i] = at[i]
  <2> HIDE DEF p
  <2> QED
    BY <1>1, <1>4, <1>5
<1> HIDE DEF p
<1>7. Drives(j)' /\ OnRecord(j)' /\ AttachedOf(j)' /\ Si!Running(j)'
  BY <1>1, <1>3, <1>5, <1>6 DEF Drives, OnRecord, AttachedOf, Si!Running, Working,
     Si!service, Si!world
<1> QED
  BY <1>1, <1>6, <1>7, OneGoes

(* The first read: nothing to do, a failure, or a request. *)
LEMMA AttachKeeps == ASSUME Parted, RInv, NEW j \in Jobs, Si!attach(j) PROVE RInv'
<1> DEFINE i == Si!_document_on_ro(at[j].doc)
           write == [job |-> j, cal |-> at[j].cal, doc |-> at[j].doc, target |-> i,
                     version |-> IF i = 0 THEN 0 ELSE ciq[i].version]
<1>1. /\ Drives(j) /\ OnRecord(j) /\ AttachedOf(j) /\ Si!Running(j) /\ at[j].at = "attach"
      /\ at \in [Jobs -> Places] /\ job \in [Jobs -> Si!Records \cup {None}]
      /\ job[j] # None /\ at[j].doc # None /\ ~at[j].attached
      /\ UNCHANGED <<Si!service, Si!world, job>> /\ on
  BY AttachedIs DEF Si!attach, RInv, ResearchTyped, Drives, Working, Si!Running
<1>2. at[j] \in Places /\ at[j].doc \in Docs /\ at[j].cal \in Nat
  BY <1>1 DEF Places
<1>3. CASE at' = [at EXCEPT ![j].at = "finish"]
  <2>1. /\ at' \in [Jobs -> Places] /\ \A k \in Jobs \ {j} : at'[k] = at[k]
        /\ at'[j].at = "finish" /\ at'[j].cal = at[j].cal /\ at'[j].doc = at[j].doc
        /\ ~at'[j].attached
    BY <1>1, <1>3, Goes DEF DriverStages, Working
  <2>2. Drives(j)' /\ OnRecord(j)' /\ AttachedOf(j)' /\ Si!Running(j)'
    BY <1>1, <2>1 DEF Drives, OnRecord, AttachedOf, Si!Running, Working,
       Si!service, Si!world
  <2> QED
    BY <1>1, <2>1, <2>2, OneGoes
<1>4. CASE /\ Si!IsAttached(at[j].doc, at[j].cal)
           /\ at' = [at EXCEPT ![j].at = "finish", ![j].attached = TRUE]
  <2> DEFINE p == [at[j] EXCEPT !.at = "finish", !.attached = TRUE]
  <2>1. at' = [at EXCEPT ![j] = p]
    BY <1>4, Zenon
  <2>2. /\ p \in Places /\ p.at = "finish" /\ p.doc = at[j].doc /\ p.cal = at[j].cal
    BY <1>2, Zenon DEF Places, Working
  <2>3. /\ at' \in [Jobs -> Places] /\ at'[j] = p /\ \A k \in Jobs \ {j} : at'[k] = at[k]
    <3> HIDE DEF p
    <3> QED
      BY <1>1, <2>1, <2>2
  <2>4. AttachedIn(ciq, at[j].doc, at[j].cal)
    BY <1>4, IsTheirs
  <2> HIDE DEF p
  <2>5. Drives(j)' /\ OnRecord(j)' /\ AttachedOf(j)' /\ Si!Running(j)'
    BY <1>1, <2>2, <2>3, <2>4 DEF Drives, OnRecord, AttachedOf, Si!Running, Working,
       Si!service, Si!world
  <2> QED
    BY <1>1, <2>3, <2>5, OneGoes
<1>5. CASE at' = [at EXCEPT ![j].at = "write", ![j].write = write]
  <2> DEFINE p == [at[j] EXCEPT !.at = "write", !.write = write]
  <2>1. at' = [at EXCEPT ![j] = p]
    BY <1>5, Zenon
  <2>2. /\ write \in Writes /\ Right(write, ciq)
    <3>1. ciq \in Seq(Papers) /\ i = FirstOf(ciq, at[j].doc)
      BY DEF RInv, ResearchTyped, Si!_document_on_ro, FirstOf
    <3>2. i \in Nat /\ (i # 0 => i \in DOMAIN ciq /\ ciq[i].source = at[j].doc /\ ciq[i].version \in Nat)
      <4>1. \A k \in DOMAIN ciq : ciq[k] \in Papers
        BY <3>1
      <4> HIDE DEF i
      <4>2. i \in Nat /\ (i # 0 => i \in DOMAIN ciq /\ ciq[i].source = at[j].doc)
        BY <3>1, FirstIs
      <4> QED
        BY <4>1, <4>2 DEF Papers
    <3> HIDE DEF i
    <3>3. write \in Writes
      BY <1>2, <3>2 DEF Writes
    <3>4. Right(write, ciq)
      BY <1>1, <3>2 DEF Right, Drives
    <3> QED
      BY <3>3, <3>4
  <2> HIDE DEF write
  <2>3. /\ p \in Places /\ p.at = "write" /\ p.doc = at[j].doc /\ p.cal = at[j].cal
        /\ p.attached = at[j].attached /\ p.write = write
    BY <1>2, <2>2, Zenon DEF Places, Working
  <2>4. /\ at' \in [Jobs -> Places] /\ at'[j] = p /\ \A k \in Jobs \ {j} : at'[k] = at[k]
    <3> HIDE DEF p
    <3> QED
      BY <1>1, <2>1, <2>3
  <2> HIDE DEF p
  <2>5. Drives(j)' /\ OnRecord(j)' /\ AttachedOf(j)' /\ Si!Running(j)'
    BY <1>1, <2>2, <2>3, <2>4 DEF Drives, OnRecord, AttachedOf, Si!Running, Working,
       Si!service, Si!world,
       Right
  <2> QED
    BY <1>1, <2>4, <2>5, OneGoes
<1> QED
  BY <1>3, <1>4, <1>5, Zenon DEF Si!attach

-----------------------------------------------------------------------------
(* A repair order after a change of one of its documents. *)
LEMMA Changes ==
    ASSUME ciq \in Seq(Papers), Si!OwnProcedure, NEW i \in DOMAIN ciq, NEW p \in Papers,
           p.source = ciq[i].source, ciq[i].links \subseteq p.links,
           \A c \in p.links \ ciq[i].links : p.source \in Unreadable \/ Captured[p.source] \in {0, c},
           ciq' = [ciq EXCEPT ![i] = p]
    PROVE  Grows(ciq, ciq') /\ Si!OwnProcedure'
<1>1. /\ ciq' \in Seq(Papers) /\ Len(ciq') = Len(ciq) /\ DOMAIN ciq' = DOMAIN ciq
      /\ \A k \in DOMAIN ciq : ciq'[k] = IF k = i THEN p ELSE ciq[k]
  OBVIOUS
<1>2. Grows(ciq, ciq')
  BY <1>1 DEF Grows
<1>3. Si!OwnProcedure'
  BY <1>1 DEF Si!OwnProcedure
<1> QED
  BY <1>2, <1>3

(* The links and the version of a document are numbers. *)
LEMMA OfPapers == \A p \in Papers : p.links \in SUBSET Nat /\ p.version \in Nat \ {0}
BY DEF Papers

(* What Calibration IQ makes of a request. *)
LEMMA ArrivesGrows ==
    ASSUME RInv, NEW w \in Writes, Right(w, ciq), Si!Arrives(w)
    PROVE  Grows(ciq, ciq') /\ Si!OwnProcedure'
<1>1. ciq \in Seq(Papers) /\ Si!OwnProcedure /\ \A k \in DOMAIN ciq : ciq[k] \in Papers
  BY DEF RInv, ResearchTyped
<1> DEFINE asked == {w.cal} \ WithoutId
           new == [source |-> w.doc, links |-> asked, version |-> 1]
           linked == [ciq[w.target] EXCEPT !.links = @ \cup asked, !.version = @ + 1]
<1>2. /\ w.doc \in Docs /\ asked \in SUBSET Nat /\ w.version \in Nat
      /\ \A c \in asked : w.doc \in Unreadable \/ Captured[w.doc] \in {0, c}
  BY DEF Writes, Right, Suits
<1>3. \/ ciq' = ciq
      \/ ciq' = Append(ciq, new)
      \/ w.version # 0 /\ ciq' = [ciq EXCEPT ![w.target] = linked]
  BY Zenon DEF Si!Arrives
<1> HIDE DEF asked
<1>4. CASE ciq' = ciq
  BY <1>4, Stays
<1>5. CASE ciq' = Append(ciq, new)
  <2>1. new \in Papers
    BY <1>2 DEF Papers
  <2>2. /\ ciq' \in Seq(Papers) /\ Len(ciq') = Len(ciq) + 1
        /\ \A k \in 1 .. Len(ciq) : ciq'[k] = ciq[k]
        /\ ciq'[Len(ciq) + 1] = new
    BY <1>1, <1>5, <2>1
  <2>3. Grows(ciq, ciq')
    BY <1>1, <2>2 DEF Grows
  <2>4. Si!OwnProcedure'
    BY <1>1, <1>2, <2>2 DEF Si!OwnProcedure
  <2> QED
    BY <2>3, <2>4
<1>6. CASE w.version # 0 /\ ciq' = [ciq EXCEPT ![w.target] = linked]
  <2>1. w.target \in DOMAIN ciq /\ ciq[w.target].source = w.doc /\ ciq[w.target] \in Papers
    BY <1>1, <1>6 DEF Right
  <2>2. ciq[w.target].links \cup asked \in SUBSET Nat /\ ciq[w.target].version + 1 \in Nat \ {0}
    <3>1. ciq[w.target].links \in SUBSET Nat /\ ciq[w.target].version \in Nat \ {0}
      BY <2>1, OfPapers
    <3>2. ciq[w.target].links \cup asked \in SUBSET Nat
      <4>1. asked \in SUBSET Nat
        BY <1>2
      <4> QED
        BY <3>1, <4>1, Zenon
    <3>3. ciq[w.target].version + 1 \in Nat \ {0}
      BY <3>1
    <3> QED
      BY <3>2, <3>3
  <2>3. /\ linked \in Papers /\ linked.source = ciq[w.target].source
        /\ linked.links = ciq[w.target].links \cup asked
    BY <2>1, <2>2, Zenon DEF Papers
  <2> HIDE DEF linked
  <2> QED
    BY <1>1, <1>2, <1>6, <2>1, <2>3, Changes
<1> QED
  BY <1>3, <1>4, <1>5, <1>6

(* A repair order that grew keeps what all jobs hold true of it. *)
LEMMA GrowsKeeps ==
    ASSUME RInv, UNCHANGED <<Si!service, job, at>>, Grows(ciq, ciq'), Si!OwnProcedure',
           late' \subseteq late
    PROVE  RInv'
<1>1. ResearchTyped' /\ UNCHANGED <<on, unresumed, starting>>
  BY DEF RInv, ResearchTyped, Grows, Si!service
<1>2. \A w \in late' : Right(w, ciq)'
  BY RightStays DEF RInv, Right
<1>3. ASSUME NEW j \in Jobs PROVE Drives(j)' /\ OnRecord(j)' /\ AttachedOf(j)'
  <2>1. Drives(j) /\ OnRecord(j) /\ AttachedOf(j)
    BY AttachedIs DEF RInv
  <2>2. at[j].attached => AttachedIn(ciq', at[j].doc, at[j].cal)
    BY <2>1, AttachedStays DEF Drives
  <2>3. at[j].at = "write" => Right(at[j].write, ciq')
    BY <2>1, RightStays DEF Drives
  <2>4. AttachedOf(j)'
    BY <2>1, AttachedStays DEF AttachedOf
  <2> QED
    BY <1>1, <2>1, <2>2, <2>3, <2>4 DEF Drives, OnRecord, Si!Running
<1>4. OnlyOne'
  BY <1>1 DEF RInv, OnlyOne, Si!Running, Si!running_job
<1> QED
  BY <1>1, <1>2, <1>3, <1>4, AttachedIs DEF RInv

(* A request that Core gave up on is done later. *)
LEMMA LateArrivesKeeps == ASSUME RInv, Si!LateArrives PROVE RInv'
<1>1. PICK w \in late : Si!Arrives(w) /\ late' = late \ {w}
  BY DEF Si!LateArrives
<1>2. w \in Writes /\ Right(w, ciq)
  BY DEF RInv, ResearchTyped
<1> QED
  BY <1>1, <1>2, ArrivesGrows, GrowsKeeps DEF Si!LateArrives

(* Others change a document, and none of its links. *)
LEMMA OthersChangeKeeps == ASSUME RInv, Si!OthersChange PROVE RInv'
<1>1. PICK i \in DOMAIN ciq : ciq' = [ciq EXCEPT ![i].version = @ + 1]
  BY DEF Si!OthersChange
<1> DEFINE p == [ciq[i] EXCEPT !.version = @ + 1]
<1>2. ciq' = [ciq EXCEPT ![i] = p]
  BY <1>1, Zenon
<1>3. ciq \in Seq(Papers) /\ Si!OwnProcedure /\ ciq[i] \in Papers
  BY DEF RInv, ResearchTyped
<1>4. ciq[i].version + 1 \in Nat \ {0}
  BY <1>3 DEF Papers
<1>5. p \in Papers /\ p.source = ciq[i].source /\ p.links = ciq[i].links
  BY <1>3, <1>4, Zenon DEF Papers
<1> HIDE DEF p
<1>6. Grows(ciq, ciq') /\ Si!OwnProcedure'
  BY <1>2, <1>3, <1>5, Changes
<1> QED
  BY <1>6, GrowsKeeps DEF Si!OthersChange

(* A request that is done, refused, lost or given up. *)
LEMMA ExecuteKeeps ==
    ASSUME Parted, RInv, NEW j \in Jobs, Si!operator_execute(j)
    PROVE  RInv'
<1>1. /\ Drives(j) /\ OnRecord(j) /\ AttachedOf(j) /\ Si!Running(j) /\ at[j].at = "write"
      /\ at \in [Jobs -> Places] /\ job \in [Jobs -> Si!Records \cup {None}]
      /\ job[j] # None /\ at[j].doc # None /\ ~at[j].attached
      /\ at[j].write \in Writes /\ Right(at[j].write, ciq)
      /\ UNCHANGED <<Si!service, job>> /\ on
  BY AttachedIs DEF Si!operator_execute, RInv, ResearchTyped, Drives, Working,
     Si!Running
<1>2. /\ at' \in [Jobs -> Places] /\ \A k \in Jobs \ {j} : at'[k] = at[k]
      /\ at'[j].at = "reread" /\ at'[j].cal = at[j].cal /\ at'[j].doc = at[j].doc
      /\ ~at'[j].attached
  <2>1. at' = [at EXCEPT ![j].at = "reread"]
    BY DEF Si!operator_execute
  <2> QED
    BY <1>1, <2>1, Goes DEF DriverStages, Working
<1>3. Grows(ciq, ciq') /\ Si!OwnProcedure'
  BY <1>1, ArrivesGrows, Stays DEF Si!operator_execute
<1>4. late' \subseteq Writes /\ \A w \in late' : Right(w, ciq)'
  <2>1. late' \subseteq late \cup {at[j].write}
    BY DEF Si!operator_execute
  <2>2. late \subseteq Writes /\ \A w \in late \cup {at[j].write} : Right(w, ciq')
    BY <1>1, <1>3, RightStays DEF RInv, ResearchTyped
  <2> QED
    BY <1>1, <2>1, <2>2 DEF Right
<1>5. ResearchTyped'
  BY <1>1, <1>2, <1>3, <1>4 DEF RInv, ResearchTyped, Grows, Si!service
<1>6. AttachedOf(j)'
  BY <1>1, <1>3, AttachedStays DEF AttachedOf
<1>7. Drives(j)' /\ OnRecord(j)' /\ Si!Running(j)'
  BY <1>1, <1>2 DEF Drives, OnRecord, Si!Running, Working, Si!service
<1> QED
  BY <1>1, <1>2, <1>3, <1>4, <1>5, <1>6, <1>7, Moves DEF Others

-----------------------------------------------------------------------------
(* A calibration gets its outcome: attached only what the last read showed. *)
LEMMA FinishKeeps == ASSUME Parted, RInv, NEW j \in Jobs, Si!Finish(j) PROVE RInv'
<1> DEFINE c == at[j].cal
           o == Si!Outcome(at[j])
<1>1. /\ Drives(j) /\ OnRecord(j) /\ AttachedOf(j) /\ Si!Running(j) /\ at[j].at = "finish"
      /\ at \in [Jobs -> Places] /\ job \in [Jobs -> Si!Records \cup {None}]
      /\ job[j] # None /\ UNCHANGED <<Si!service, Si!world>> /\ on
  BY AttachedIs DEF Si!Finish, RInv, ResearchTyped, Drives, Working, Si!Running
<1>2. o \in Si!Outcomes /\ (o = "attached" => at[j].doc # None /\ at[j].attached)
  BY Zenon DEF Si!Outcome, Si!Outcomes
<1>3. /\ at' \in [Jobs -> Places] /\ \A i \in Jobs \ {j} : at'[i] = at[i]
      /\ at'[j].at = "loop" /\ at'[j].doc = None /\ ~at'[j].attached
  <2>1. at' = [at EXCEPT ![j] = [Si!Idle EXCEPT !.at = "loop"]]
    BY DEF Si!Finish
  <2> QED
    BY <1>1, <2>1, Drops DEF DriverStages, Working
<1>4. /\ job' \in [Jobs -> Si!Records \cup {None}] /\ \A i \in Jobs \ {j} : job'[i] = job[i]
      /\ job'[j] \in Si!Records /\ job'[j].state = job[j].state
      /\ job'[j].contract = job[j].contract /\ job'[j].notified = job[j].notified
      /\ \A b \in Si!Cals : job'[j].outcome[b] = IF b = c THEN o ELSE job[j].outcome[b]
  <2>1. Noted(j, c, o)
    BY Zenon DEF Si!Finish, Noted
  <2> HIDE DEF c, o
  <2> QED
    BY <1>1, <1>2, <2>1, NotesOutcome
<1>5. o = "attached" => at[j].doc \in Docs /\ AttachedIn(ciq, at[j].doc, c)
  <2>1. at[j].doc \in Docs \cup {None}
    BY <1>1 DEF Places
  <2> QED
    BY <1>1, <1>2, <2>1 DEF Drives
<1> HIDE DEF o
<1>6. AttachedOf(j)'
  BY <1>1, <1>4, <1>5 DEF AttachedOf, Si!world
<1>7. Drives(j)' /\ OnRecord(j)' /\ Si!Running(j)'
  BY <1>1, <1>3, <1>4 DEF Drives, OnRecord, Si!Running, Working, Si!service,
     Si!world, Parted
<1> QED
  BY <1>1, <1>3, <1>4, <1>6, <1>7, OneGoes

(* A driver whose job ends goes on to post it. *)
LEMMA EndKeeps ==
    ASSUME Parted, RInv, NEW j \in Jobs, on, Si!Running(j), at[j].at # "none",
           UNCHANGED <<Si!service, ciq, late>>,
           job' = [job EXCEPT ![j] = Si!Finalized(@)],
           \/ at' = [at EXCEPT ![j] = [Si!Idle EXCEPT !.at = "post"]]
           \/ at' = [at EXCEPT ![j] = [Si!Idle EXCEPT !.at = "post", !.again = TRUE]]
    PROVE  RInv'
<1>1. /\ Drives(j) /\ OnRecord(j) /\ AttachedOf(j)
      /\ at \in [Jobs -> Places] /\ job \in [Jobs -> Si!Records \cup {None}]
      /\ job[j] # None /\ job[j].state = "running"
  BY AttachedIs DEF RInv, ResearchTyped, Si!Running
<1>2. /\ at' \in [Jobs -> Places] /\ \A i \in Jobs \ {j} : at'[i] = at[i]
      /\ at'[j].at = "post" /\ at'[j].doc = None /\ ~at'[j].attached
  BY <1>1, Drops DEF DriverStages, Working
<1>3. /\ job' \in [Jobs -> Si!Records \cup {None}] /\ \A i \in Jobs \ {j} : job'[i] = job[i]
      /\ job'[j] \in Si!Records /\ job'[j].state = "completed"
      /\ job'[j].contract = job[j].contract /\ job'[j].notified = job[j].notified
      /\ \A b \in Si!Cals : job'[j].outcome[b] = "attached" => job[j].outcome[b] = "attached"
  BY <1>1, Completes
<1>4. job[j].contract = 2 /\ ~job[j].notified
  BY <1>1 DEF Drives, OnRecord
<1>5. Drives(j)' /\ OnRecord(j)' /\ AttachedOf(j)'
  BY <1>1, <1>2, <1>3, <1>4 DEF Drives, OnRecord, AttachedOf, Si!Running, Working,
     Si!service, Parted
<1> QED
  BY <1>1, <1>2, <1>3, <1>5, OneMoves

(* The next calibration, or the end of the job. *)
LEMMA DriveKeeps == ASSUME Parted, RInv, NEW j \in Jobs, Si!_drive(j) PROVE RInv'
<1>1. /\ Drives(j) /\ OnRecord(j) /\ AttachedOf(j) /\ Si!Running(j) /\ at[j].at = "loop"
      /\ at \in [Jobs -> Places] /\ job \in [Jobs -> Si!Records \cup {None}]
      /\ job[j] # None /\ UNCHANGED <<Si!service, Si!world>> /\ on
  BY AttachedIs DEF Si!_drive, RInv, ResearchTyped, Drives, Working, Si!Running
<1>2. \/ /\ job' = [job EXCEPT ![j] = Si!Finalized(@)]
         /\ at' = [at EXCEPT ![j] = [Si!Idle EXCEPT !.at = "post", !.again = TRUE]]
      \/ \E c \in Si!Cals : /\ Noted(j, c, "in_progress")
                         /\ at' = [at EXCEPT ![j] = [Si!Idle EXCEPT !.at = "model", !.cal = c]]
  <2> DEFINE c == CHOOSE c \in Si!Pending(j) : \A b \in Si!Pending(j) : c <= b
  <2>1. CASE Si!Pending(j) # {}
    <3>1. Si!Pending(j) \in SUBSET Nat
      BY DEF Si!Pending, Si!Cals
    <3>2. c \in Si!Pending(j)
      BY <2>1, <3>1, LeastExists
    <3>3. c \in Si!Cals
      BY <3>2 DEF Si!Pending
    <3> QED
      BY <1>1, <3>3, Zenon DEF Si!_drive, Noted
  <2>2. CASE Si!Pending(j) = {}
    BY <1>1, <2>2, Zenon DEF Si!_drive
  <2> QED
    BY <2>1, <2>2
<1>3. CASE \E c \in Si!Cals : /\ Noted(j, c, "in_progress")
                           /\ at' = [at EXCEPT ![j] = [Si!Idle EXCEPT !.at = "model", !.cal = c]]
  <2>1. PICK c \in Si!Cals : /\ Noted(j, c, "in_progress")
                          /\ at' = [at EXCEPT ![j] = [Si!Idle EXCEPT !.at = "model", !.cal = c]]
    BY <1>3
  <2>2. /\ at' \in [Jobs -> Places] /\ \A i \in Jobs \ {j} : at'[i] = at[i]
        /\ at'[j].at = "model" /\ at'[j].doc = None /\ ~at'[j].attached
    <3>1. c \in Nat /\ "model" \in DriverStages
      BY DEF Si!Cals, DriverStages, Working
    <3>2. at' = [at EXCEPT ![j] = [Si!Idle EXCEPT !.at = "model", !.cal = c]]
      BY <2>1
    <3> QED
      BY <1>1, <3>1, <3>2, Drops, Zenon
  <2>3. /\ job' \in [Jobs -> Si!Records \cup {None}] /\ \A i \in Jobs \ {j} : job'[i] = job[i]
        /\ job'[j] \in Si!Records /\ job'[j].state = job[j].state
        /\ job'[j].contract = job[j].contract /\ job'[j].notified = job[j].notified
        /\ \A b \in Si!Cals : job'[j].outcome[b] = "attached" => job[j].outcome[b] = "attached"
    BY <1>1, <2>1, NotesOutcome DEF Si!Outcomes
  <2>4. Drives(j)' /\ OnRecord(j)' /\ AttachedOf(j)' /\ Si!Running(j)'
    BY <1>1, <2>2, <2>3 DEF Drives, OnRecord, AttachedOf, Si!Running, Working,
       Si!service, Si!world, Parted
  <2> QED
    BY <1>1, <2>2, <2>3, <2>4, OneGoes
<1>4. CASE /\ job' = [job EXCEPT ![j] = Si!Finalized(@)]
           /\ at' = [at EXCEPT ![j] = [Si!Idle EXCEPT !.at = "post", !.again = TRUE]]
  BY <1>1, <1>4, EndKeeps DEF Si!world
<1> QED
  BY <1>2, <1>3, <1>4

(* The store fails under a driver. *)
LEMMA FailsKeeps == ASSUME Parted, RInv, NEW j \in Jobs, Si!Fails(j) PROVE RInv'
<1>1. /\ Drives(j) /\ OnRecord(j) /\ AttachedOf(j) /\ Si!Running(j) /\ at[j].at # "none"
      /\ at \in [Jobs -> Places] /\ job \in [Jobs -> Si!Records \cup {None}]
      /\ job[j] # None /\ UNCHANGED <<Si!service, ciq, late>> /\ on
  BY AttachedIs DEF Si!Fails, RInv, ResearchTyped, Drives, Si!Running
<1>2. CASE /\ job' = [job EXCEPT ![j] = Si!Finalized(@)]
           /\ at' = [at EXCEPT ![j] = [Si!Idle EXCEPT !.at = "post"]]
  BY <1>1, <1>2, EndKeeps
<1>3. CASE at' = [at EXCEPT ![j] = [Si!Idle EXCEPT !.at = "gone"]] /\ UNCHANGED job
  <2>1. /\ at' \in [Jobs -> Places] /\ \A i \in Jobs \ {j} : at'[i] = at[i]
        /\ at'[j].at = "gone" /\ at'[j].doc = None /\ ~at'[j].attached
    BY <1>1, <1>3, Drops DEF DriverStages, Working
  <2>2. Drives(j)' /\ OnRecord(j)' /\ AttachedOf(j)' /\ Si!Running(j)'
    BY <1>1, <1>3, <2>1 DEF Drives, OnRecord, AttachedOf, Si!Running, Working,
       Si!service
  <2> QED
    BY <1>1, <1>3, <2>1, <2>2, OneMoves
<1> QED
  BY <1>2, <1>3 DEF Si!Fails

(* The result is posted, and the record says so. *)
LEMMA PostKeeps == ASSUME Parted, RInv, NEW j \in Jobs, Si!_post_result(j) PROVE RInv'
<1>1. /\ Drives(j) /\ OnRecord(j) /\ AttachedOf(j)
      /\ at \in [Jobs -> Places] /\ job \in [Jobs -> Si!Records \cup {None}]
      /\ UNCHANGED <<Si!service, ciq, late>> /\ on /\ job[j] # None
  BY AttachedIs DEF Si!_post_result, RInv, ResearchTyped, Drives
<1>2. CASE at[j].at = "post" /\ at' = [at EXCEPT ![j].at = "notify"] /\ UNCHANGED job
  <2>1. /\ at' \in [Jobs -> Places] /\ \A i \in Jobs \ {j} : at'[i] = at[i]
        /\ at'[j].at = "notify" /\ at'[j].cal = at[j].cal /\ at'[j].doc = at[j].doc
        /\ at'[j].attached = at[j].attached
    BY <1>1, <1>2, Goes DEF DriverStages
  <2>2. Drives(j)' /\ OnRecord(j)' /\ AttachedOf(j)' /\ (Si!Running(j)' => Si!Running(j))
    BY <1>1, <1>2, <2>1 DEF Drives, OnRecord, AttachedOf, Si!Running, Working,
       Si!service
  <2> QED
    BY <1>1, <1>2, <2>1, <2>2, OneMoves
<1>3. CASE /\ at[j].at = "notify" /\ job' = [job EXCEPT ![j].notified = TRUE]
           /\ at' = [at EXCEPT ![j] = Si!Idle]
  <2>1. /\ at' \in [Jobs -> Places] /\ \A i \in Jobs \ {j} : at'[i] = at[i]
        /\ at'[j].at = "none" /\ at'[j].doc = None /\ ~at'[j].attached
    <3>1. Si!Idle \in Places /\ Si!Idle.at = "none" /\ Si!Idle.doc = None /\ ~Si!Idle.attached
      BY DEF Si!Idle, Places
    <3> QED
      BY <1>1, <1>3, <3>1, Zenon
  <2> DEFINE r == [job[j] EXCEPT !.notified = TRUE]
  <2>2. job' = [job EXCEPT ![j] = r]
    BY <1>3, Zenon
  <2>3. job[j] \in Si!Records /\ job[j].state = "completed"
    BY <1>1, <1>3 DEF Drives
  <2>4. /\ r \in Si!Records /\ r.state = job[j].state /\ r.contract = job[j].contract
        /\ r.outcome = job[j].outcome
    BY <2>3, Zenon DEF Si!Records
  <2> HIDE DEF r
  <2>5. /\ job' \in [Jobs -> Si!Records \cup {None}] /\ job'[j] = r
        /\ \A i \in Jobs \ {j} : job'[i] = job[i]
    BY <1>1, <2>2, <2>4
  <2>6. Drives(j)' /\ OnRecord(j)' /\ AttachedOf(j)' /\ (Si!Running(j)' => Si!Running(j))
    BY <1>1, <1>3, <2>1, <2>3, <2>4, <2>5 DEF Drives, OnRecord, AttachedOf, Si!Running,
       Working, Si!service
  <2> QED
    BY <1>1, <2>1, <2>5, <2>6, OneMoves
<1>4. CASE /\ at[j].at = "notify" /\ UNCHANGED job
           /\ at' = [at EXCEPT ![j].at = "post", ![j].again = FALSE]
  <2> DEFINE p == [at[j] EXCEPT !.at = "post", !.again = FALSE]
  <2>1. at' = [at EXCEPT ![j] = p]
    BY <1>4, Zenon
  <2>2. p \in Places /\ p.at = "post" /\ p.cal = at[j].cal /\ p.doc = at[j].doc /\ p.attached = at[j].attached
    BY <1>1, Zenon DEF Places
  <2>3. /\ at' \in [Jobs -> Places] /\ at'[j] = p /\ \A i \in Jobs \ {j} : at'[i] = at[i]
    <3> HIDE DEF p
    <3> QED
      BY <1>1, <2>1, <2>2
  <2> HIDE DEF p
  <2>4. Drives(j)' /\ OnRecord(j)' /\ AttachedOf(j)' /\ (Si!Running(j)' => Si!Running(j))
    BY <1>1, <1>4, <2>2, <2>3 DEF Drives, OnRecord, AttachedOf, Si!Running, Working,
       Si!service
  <2> QED
    BY <1>1, <1>4, <2>3, <2>4, OneMoves
<1>5. CASE /\ at[j].at = "notify" /\ UNCHANGED job
           /\ at' = [at EXCEPT ![j] = [Si!Idle EXCEPT !.at = "gone"]]
  <2>1. /\ at' \in [Jobs -> Places] /\ \A i \in Jobs \ {j} : at'[i] = at[i]
        /\ at'[j].at = "gone" /\ at'[j].doc = None /\ ~at'[j].attached
    BY <1>1, <1>5, Drops DEF DriverStages, Working
  <2>2. Drives(j)' /\ OnRecord(j)' /\ AttachedOf(j)' /\ (Si!Running(j)' => Si!Running(j))
    BY <1>1, <1>5, <2>1 DEF Drives, OnRecord, AttachedOf, Si!Running, Working,
       Si!service
  <2> QED
    BY <1>1, <1>5, <2>1, <2>2, OneMoves
<1> QED
  BY <1>2, <1>3, <1>4, <1>5, Zenon DEF Si!_post_result

-----------------------------------------------------------------------------
\* A driver that there was not, or that the store killed, begins.
LEMMA Ensures ==
    ASSUME at \in [Jobs -> Places], NEW j \in Jobs, Si!_ensure_driver(j)
    PROVE  /\ at' \in [Jobs -> Places] /\ \A i \in Jobs \ {j} : at'[i] = at[i]
           /\ at'[j].at = IF at[j].at \in {"none", "gone"} THEN "loop" ELSE at[j].at
           /\ at'[j].cal = at[j].cal /\ at'[j].doc = at[j].doc
           /\ at'[j].write = at[j].write /\ at'[j].attached = at[j].attached
<1>1. CASE at[j].at \in {"none", "gone"} /\ at' = [at EXCEPT ![j].at = "loop"]
  <2>1. "loop" \in DriverStages
    BY DEF DriverStages, Working
  <2>2. at' = [at EXCEPT ![j].at = "loop"]
    BY <1>1
  <2> QED
    BY <1>1, <2>1, <2>2, Goes, Zenon
<1>2. CASE at[j].at \notin {"none", "gone"} /\ at' = at
  BY <1>2
<1> QED
  BY <1>1, <1>2, Zenon DEF Si!_ensure_driver

(* A start finds a job that runs, and makes sure that it has a driver. *)
LEMMA AlreadyKeeps ==
    ASSUME Parted, RInv, NEW j \in Jobs, Si!already_running(j)
    PROVE  RInv'
<1>1. /\ Drives(j) /\ OnRecord(j) /\ AttachedOf(j) /\ Si!Running(j) /\ job[j] # None
      /\ at \in [Jobs -> Places] /\ job \in [Jobs -> Si!Records \cup {None}]
      /\ UNCHANGED <<Si!service, job, Si!world>> /\ on /\ j \notin unresumed
  BY AttachedIs DEF Si!already_running, RInv, ResearchTyped, Si!running_job,
     Si!Running
<1>2. /\ at' \in [Jobs -> Places] /\ \A i \in Jobs \ {j} : at'[i] = at[i]
      /\ at'[j].at = IF at[j].at \in {"none", "gone"} THEN "loop" ELSE at[j].at
      /\ at'[j].cal = at[j].cal /\ at'[j].doc = at[j].doc
      /\ at'[j].write = at[j].write /\ at'[j].attached = at[j].attached
  BY <1>1, Ensures DEF Si!already_running
<1>3. Drives(j)' /\ OnRecord(j)' /\ AttachedOf(j)'
  BY <1>1, <1>2 DEF Drives, OnRecord, AttachedOf, Si!Running, Working, Si!service,
     Si!world
<1> QED
  BY <1>1, <1>2, <1>3, OneGoes

(* A job that is looked at, beside others that stay. *)
LEMMA ServiceKeeps ==
    ASSUME RInv, UNCHANGED Si!world, ResearchTyped', OnlyOne',
           \A j \in Jobs : Drives(j)' /\ OnRecord(j)' /\ AttachedOf(j)'
    PROVE  RInv'
<1>1. UNCHANGED <<ciq, late>>
  BY DEF Si!world
<1> QED
  BY <1>1, AttachedIs, Stays DEF RInv

(* A start takes the lock when no job runs. *)
LEMMA StartKeeps == ASSUME Parted, RInv, NEW j \in Jobs, Si!start(j) PROVE RInv'
<1>1. /\ UNCHANGED <<on, unresumed, job, at, Si!world>> /\ job[j] = None /\ Si!running_job = {}
      /\ starting' = j /\ on /\ unresumed = {}
  BY DEF Si!start
<1>2. ResearchTyped'
  BY <1>1 DEF RInv, ResearchTyped, Si!world
<1>3. OnlyOne'
  BY <1>1 DEF RInv, OnlyOne, Si!running_job, Si!Running
<1>4. ASSUME NEW k \in Jobs PROVE Drives(k)' /\ OnRecord(k)' /\ AttachedOf(k)'
  BY <1>1, AttachedIs DEF RInv, Drives, OnRecord, AttachedOf, Si!Running, Si!world
<1> QED
  BY <1>1, <1>2, <1>3, <1>4, ServiceKeeps

(* A step that changes one record, or the start's lock, and at most one driver. *)
LEMMA ResolveKeeps ==
    ASSUME Parted, RInv, NEW j \in Jobs, Si!_resolve_targets(j)
    PROVE  RInv'
<1> DEFINE r == [state |-> "running", contract |-> 2, notified |-> FALSE, outcome |-> Si!Fresh]
<1>1. /\ UNCHANGED <<on, unresumed, Si!world>> /\ on /\ starting = j /\ starting' = None
      /\ job \in [Jobs -> Si!Records \cup {None}] /\ at \in [Jobs -> Places]
      /\ job[j] = None /\ Si!running_job = {} /\ unresumed = {}
  BY DEF Si!_resolve_targets, RInv, OnlyOne, ResearchTyped, Parted
<1>2. CASE UNCHANGED <<job, at>>
  <2>1. ResearchTyped'
    BY <1>1, <1>2 DEF RInv, ResearchTyped, Si!world
  <2>2. OnlyOne'
    BY <1>1, <1>2 DEF RInv, OnlyOne, Si!Running
  <2>3. ASSUME NEW k \in Jobs PROVE Drives(k)' /\ OnRecord(k)' /\ AttachedOf(k)'
    BY <1>1, <1>2, AttachedIs DEF RInv, Drives, OnRecord, AttachedOf, Si!Running,
       Si!world
  <2> QED
    BY <1>1, <2>1, <2>2, <2>3, ServiceKeeps
<1>3. CASE job' = [job EXCEPT ![j] = r] /\ Si!_ensure_driver(j)
  <2>1. /\ at' \in [Jobs -> Places] /\ \A i \in Jobs \ {j} : at'[i] = at[i]
        /\ at'[j].at = IF at[j].at \in {"none", "gone"} THEN "loop" ELSE at[j].at
        /\ at'[j].cal = at[j].cal /\ at'[j].doc = at[j].doc
        /\ at'[j].write = at[j].write /\ at'[j].attached = at[j].attached
    BY <1>1, <1>3, Ensures
  <2>2. /\ r \in Si!Records /\ r.state = "running" /\ r.contract = 2 /\ ~r.notified
        /\ \A c \in Si!Cals : r.outcome[c] = "pending"
    BY DEF Si!Records, Si!Fresh, Si!Outcomes
  <2> HIDE DEF r
  <2>3. /\ job' \in [Jobs -> Si!Records \cup {None}] /\ job'[j] = r
        /\ \A i \in Jobs \ {j} : job'[i] = job[i]
    BY <1>1, <1>3, <2>2
  <2>4. ResearchTyped'
    BY <1>1, <2>1, <2>3 DEF RInv, ResearchTyped, Si!world
  <2>5. OnlyOne'
    BY <1>1, <2>3 DEF RInv, OnlyOne, Si!Running, Si!running_job
  <2>6. Drives(j)' /\ OnRecord(j)' /\ AttachedOf(j)'
    <3>1. at[j].at = "none" /\ Drives(j)
      BY <1>1 DEF RInv, Drives
    <3>2. Drives(j)' /\ OnRecord(j)'
        BY <1>1, <2>1, <2>2, <2>3, <3>1 DEF Drives, OnRecord, Si!Running, Working, Parted
    <3>3. AttachedOf(j)'
      BY <2>2, <2>3 DEF AttachedOf
    <3> QED
      BY <3>2, <3>3
  <2>7. ASSUME NEW k \in Jobs \ {j} PROVE Drives(k)' /\ OnRecord(k)' /\ AttachedOf(k)'
    BY <1>1, <2>1, <2>3, AttachedIs DEF RInv, Drives, OnRecord, AttachedOf, Si!Running,
       Si!world
  <2> QED
    BY <1>1, <2>4, <2>5, <2>6, <2>7, ServiceKeeps
<1> QED
  BY <1>2, <1>3 DEF Si!_resolve_targets

(* Core starts, with the records it has to look at. *)
LEMMA BootKeeps == ASSUME RInv, Si!Boot PROVE RInv'
<1>1. UNCHANGED <<starting, job, at, Si!world>> /\ ~on /\ on' /\ unresumed' = {j \in Jobs : job[j] # None}
  BY DEF Si!Boot
<1>2. ResearchTyped'
  BY <1>1 DEF RInv, ResearchTyped, Si!world, Si!Boot
<1>3. OnlyOne'
  BY <1>1 DEF RInv, OnlyOne, Si!running_job, Si!Running
<1>4. ASSUME NEW k \in Jobs PROVE Drives(k)' /\ OnRecord(k)' /\ AttachedOf(k)'
  BY <1>1, AttachedIs DEF RInv, Drives, OnRecord, AttachedOf, Si!Running, Working,
     Si!world
<1> QED
  BY <1>1, <1>2, <1>3, <1>4, ServiceKeeps

(* Core stops; requests that were on their way may still arrive. *)
LEMMA StopKeeps == ASSUME Parted, RInv, Si!Stop PROVE RInv'
<1>1. UNCHANGED <<job, ciq>> /\ ~on' /\ unresumed' = {} /\ starting' = None
  BY DEF Si!Stop
<1>2. /\ at' \in [Jobs -> Places]
      /\ \A j \in Jobs : at'[j].at = "none" /\ at'[j].doc = None /\ ~at'[j].attached
  BY DEF Si!Stop, Si!Idle, Places
<1>3. late' \subseteq Writes /\ \A w \in late' : Right(w, ciq)'
  <2>1. \A j \in Jobs : at[j].at = "write" => at[j].write \in Writes /\ Right(at[j].write, ciq)
    BY DEF RInv, Drives
  <2>2. \A w \in late : w \in Writes /\ Right(w, ciq)
    BY DEF RInv, ResearchTyped
  <2>3. \A w \in late' : w \in late \/ \E j \in Jobs : at[j].at = "write" /\ w = at[j].write
    BY DEF Si!Stop
  <2> QED
    BY <1>1, <2>1, <2>2, <2>3 DEF Right
<1>4. ResearchTyped'
  BY <1>1, <1>2, <1>3 DEF RInv, ResearchTyped, Si!Stop
<1>5. OnlyOne'
  BY <1>1 DEF RInv, OnlyOne, Si!Running
<1>6. ASSUME NEW k \in Jobs PROVE Drives(k)' /\ OnRecord(k)' /\ AttachedOf(k)'
  BY <1>1, <1>2, AttachedIs DEF RInv, Drives, OnRecord, AttachedOf, Si!Running, Working
<1> QED
  BY <1>1, <1>3, <1>4, <1>5, <1>6, AttachedIs, Stays DEF RInv

\* A record that is looked at when Core starts.
LEMMA ResumeKeeps == ASSUME Parted, RInv, NEW j \in Jobs, Si!resume(j) PROVE RInv'
<1> DEFINE r == Si!reset_outdated_running_record(job[j])
<1>1. /\ Drives(j) /\ OnRecord(j) /\ AttachedOf(j) /\ at \in [Jobs -> Places]
      /\ job \in [Jobs -> Si!Records \cup {None}] /\ on /\ j \in unresumed /\ unresumed \subseteq Jobs
      /\ on' = on /\ unresumed' = unresumed \ {j} /\ UNCHANGED <<starting, Si!world>>
      /\ job' = [job EXCEPT ![j] = r] /\ at[j].at = "none"
  BY AttachedIs DEF Si!resume, RInv, ResearchTyped, Drives
<1>2. job[j] # None /\ job[j] \in Si!Records
  BY <1>1 DEF OnRecord
<1>3. /\ r \in Si!Records /\ r.state = job[j].state /\ r.contract = 2
      /\ job[j].contract = 2 => r = job[j]
      /\ job[j].contract # 2 => \A c \in Si!Cals : r.outcome[c] = "pending"
      /\ r.notified => job[j].notified
  <2>1. job[j].contract \in {1, 2} /\ 1 < 2 /\ ~(2 < 2)
    BY <1>2 DEF Si!Records
  <2>2. CASE job[j].contract = 2
    <3>1. r = job[j]
      BY <2>1, <2>2 DEF Si!reset_outdated_running_record
    <3> QED
      BY <1>2, <2>2, <3>1
  <2>3. CASE job[j].contract = 1
    <3>1. job[j].state = "running" /\ job[j].notified = FALSE
      BY <1>1, <1>2, <2>3 DEF OnRecord, Si!Running, Si!Records
    <3>2. r = [job[j] EXCEPT !.contract = 2, !.notified = FALSE, !.outcome = Si!Fresh]
      BY <2>1, <2>3, <3>1 DEF Si!reset_outdated_running_record
    <3>3. Si!Fresh \in [Si!Cals -> Si!Outcomes] /\ \A c \in Si!Cals : Si!Fresh[c] = "pending"
      BY DEF Si!Fresh, Si!Outcomes
    <3> HIDE DEF r
    <3>4. /\ r \in Si!Records /\ r.state = job[j].state /\ r.contract = 2 /\ ~r.notified
          /\ r.outcome = Si!Fresh
      BY <1>2, <3>2, <3>3, Zenon DEF Si!Records
    <3> QED
      BY <2>3, <3>1, <3>3, <3>4
  <2> QED
    BY <2>1, <2>2, <2>3
<1> HIDE DEF r
<1>4. /\ job' \in [Jobs -> Si!Records \cup {None}] /\ job'[j] = r /\ r # None
      /\ \A i \in Jobs \ {j} : job'[i] = job[i]
  BY <1>1, <1>3 DEF Parted
<1>5. /\ at' \in [Jobs -> Places] /\ \A i \in Jobs \ {j} : at'[i] = at[i]
      /\ at'[j].at \in {"none", "loop", "post"} /\ at'[j].doc = at[j].doc
      /\ at'[j].cal = at[j].cal /\ at'[j].attached = at[j].attached
      /\ at'[j].at = "loop" => Si!Running(j)
      /\ at'[j].at = "post" => ~Si!Running(j) /\ ~job[j].notified
  <2>1. CASE Si!Running(j) /\ Si!_ensure_driver(j)
    BY <1>1, <2>1, Ensures
  <2>2. CASE ~Si!Running(j) /\ at' = at
    BY <1>1, <2>2
  <2>3. CASE ~Si!Running(j) /\ ~job[j].notified /\ at' = [at EXCEPT ![j].at = "post"]
    <3>1. "post" \in DriverStages
      BY DEF DriverStages
    <3>2. at' = [at EXCEPT ![j].at = "post"]
      BY <2>3
    <3>3. /\ at' \in [Jobs -> Places] /\ \A i \in Jobs \ {j} : at'[i] = at[i]
          /\ at'[j].at = "post" /\ at'[j].cal = at[j].cal /\ at'[j].doc = at[j].doc
          /\ at'[j].attached = at[j].attached
      BY <1>1, <3>1, <3>2, Goes, Zenon
    <3> QED
      BY <2>3, <3>3
  <2> QED
    BY <1>1, <2>1, <2>2, <2>3, Zenon DEF Si!resume
<1>6. ResearchTyped'
  BY <1>1, <1>4, <1>5 DEF RInv, ResearchTyped, Si!world
<1>7. OnlyOne'
  <2>1. \A i \in Jobs : Si!Running(i)' <=> Si!Running(i)
    BY <1>2, <1>3, <1>4 DEF Si!Running
  <2> QED
    BY <1>1, <2>1 DEF RInv, OnlyOne
<1>8. Drives(j)' /\ OnRecord(j)'
  <2>1. job[j].state \in {"running", "completed"}
    BY <1>2 DEF Si!Records
  <2> QED
    BY <1>1, <1>2, <1>3, <1>4, <1>5, <2>1 DEF Drives, OnRecord, Si!Running, Working,
       Si!world
<1>9. AttachedOf(j)'
  BY <1>1, <1>2, <1>3, <1>4 DEF AttachedOf, Si!world, Si!Records
<1>10. ASSUME NEW k \in Jobs \ {j} PROVE Drives(k)' /\ OnRecord(k)' /\ AttachedOf(k)'
  BY <1>1, <1>4, <1>5, AttachedIs DEF RInv, Drives, OnRecord, AttachedOf, Si!Running,
     Si!world
<1> QED
  BY <1>1, <1>6, <1>7, <1>8, <1>9, <1>10, ServiceKeeps

-----------------------------------------------------------------------------
\* At the start at most an older job is on record.
LEMMA ResearchBegins == ASSUME Parted, Si!Init PROVE RInv
<1> DEFINE all == [c \in Si!Cals |-> "attached"]
<1>1. /\ on = FALSE /\ unresumed = {} /\ starting = None /\ ciq = <<>> /\ late = {}
      /\ at = [j \in Jobs |-> Si!Idle]
      /\ \A j \in Jobs : j # Old => job[j] = None
      /\ \A j \in Jobs : j = Old =>
            job[j] = [state |-> "running", contract |-> 1, notified |-> FALSE, outcome |-> all]
  BY DEF Si!Init
<1>2. Si!Idle \in Places /\ Si!Idle.at = "none" /\ Si!Idle.doc = None /\ ~Si!Idle.attached
  BY DEF Si!Idle, Places
<1>3. \A j \in Jobs : j = Old => /\ job[j] \in Si!Records /\ job[j].state = "running"
                                 /\ job[j].contract = 1 /\ ~job[j].notified
  <2>1. all \in [Si!Cals -> Si!Outcomes]
    BY DEF Si!Outcomes
  <2> HIDE DEF all
  <2> DEFINE r == [state |-> "running", contract |-> 1, notified |-> FALSE, outcome |-> all]
  <2>2. r \in Si!Records /\ r.state = "running" /\ r.contract = 1 /\ ~r.notified
    BY <2>1 DEF Si!Records
  <2>3. \A j \in Jobs : j = Old => job[j] = r
    BY <1>1
  <2> HIDE DEF r
  <2> QED
    BY <2>2, <2>3
<1>4. ResearchTyped
  <2>1. job \in [Jobs -> Si!Records \cup {None}]
    <3>1. \A j \in Jobs : job[j] \in Si!Records \cup {None}
      BY <1>1, <1>3
    <3>2. DOMAIN job = Jobs /\ job = [j \in Jobs |-> job[j]]
      BY Zenon DEF Si!Init
    <3> QED
      BY <3>1, <3>2
  <2>2. at \in [Jobs -> Places] /\ ciq \in Seq(Papers)
    BY <1>1, <1>2
  <2> QED
    BY <1>1, <2>1, <2>2 DEF ResearchTyped
<1>5. OnlyOne
  BY <1>1, <1>3 DEF OnlyOne, Si!Running
<1>6. \A j \in Jobs : Drives(j) /\ OnRecord(j) /\ AttachedOf(j)
  BY <1>1, <1>2, <1>3 DEF Drives, OnRecord, AttachedOf, Si!Running, Working
<1>7. Si!OwnProcedure
  BY <1>1 DEF Si!OwnProcedure
<1> QED
  BY <1>1, <1>4, <1>5, <1>6, <1>7, AttachedIs DEF RInv

(* No step of the research breaks the invariant. *)
LEMMA ResearchContinues == ASSUME Parted, RInv, [Si!Next]_Si!vars PROVE RInv'
<1>1. CASE UNCHANGED Si!vars
  <2>1. UNCHANGED <<Si!service, job, at, ciq, late>>
    BY <1>1 DEF Si!vars, Si!service
  <2> QED
    BY <2>1, Stays, GrowsKeeps
<1>2. ASSUME NEW j \in Jobs, Si!Drive(j) PROVE RInv'
  BY <1>2, DriveKeeps, WaitKeeps, ResearchKeeps, AttachKeeps, ExecuteKeeps, ConfirmKeeps,
     FinishKeeps, PostKeeps DEF Si!Drive
<1>3. ASSUME NEW j \in Jobs,
             Si!start(j) \/ Si!already_running(j) \/ Si!_resolve_targets(j) \/ Si!resume(j) \/ Si!Fails(j)
      PROVE  RInv'
  BY <1>3, StartKeeps, AlreadyKeeps, ResolveKeeps, ResumeKeeps, FailsKeeps
<1> QED
  BY <1>1, <1>2, <1>3, BootKeeps, StopKeeps, LateArrivesKeeps, OthersChangeKeeps
     DEF Si!Next

(* The invariant of the research always holds. *)
LEMMA ResearchInvariance ==
    ASSUME Parted
    PROVE  Si!Init /\ [][Si!Next]_Si!vars => []RInv
<1>1. Si!Init => RInv
  BY ResearchBegins
<1>2. RInv /\ [Si!Next]_Si!vars => RInv'
  BY ResearchContinues
<1> QED
  BY <1>1, <1>2, PTL

(* The invariant says what is to be shown. *)
LEMMA ResearchEnough ==
    ASSUME RInv
    PROVE  Si!AttachedIsLinked /\ Si!OwnProcedure /\ Si!OneRunning
BY DEF RInv, OnlyOne, Si!OneRunning, Si!running_job

(* What a job reports as attached is linked at Calibration IQ to the calibration it was
   researched for, or, when the objective has no calibration id, is on the repair order;
   a document is linked to a calibration it was not captured for only when its sidecar
   could not be read; and a user has one research running (adas_si_research.py:532-678,
   863-938, 1115-1160, adas_si_research_source_cascade.py:70-87, 169-177, 341-351). *)
THEOREM ResearchIsTrue ==
    ASSUME Parted
    PROVE  Si!Spec =>
             [](Si!AttachedIsLinked /\ Si!OwnProcedure /\ Si!OneRunning)
<1>1. RInv => Si!AttachedIsLinked /\ Si!OwnProcedure /\ Si!OneRunning
  BY ResearchEnough
<1> QED
  BY <1>1, ResearchInvariance, PTL DEF Si!Spec

-----------------------------------------------------------------------------
Counts == posted \in [Jobs -> Nat]

(* The numbers of messages are numbers. *)
LEMMA CountsLast == Si!Spec => []Counts
<1>1. Si!Init => Counts
  BY DEF Si!Init, Counts
<1>2. Counts /\ [Si!Next]_Si!vars => Counts'
  <2> SUFFICES ASSUME Counts, [Si!Next]_Si!vars,
                      UNCHANGED posted \/ \E j \in Jobs : Si!_post_result(j)
               PROVE  Counts'
    BY DEF Si!Next, Si!vars, Si!Boot, Si!Stop, Si!LateArrives,
       Si!OthersChange, Si!start, Si!already_running,
       Si!_resolve_targets, Si!resume, Si!Fails, Si!Drive,
       Si!_drive, Si!_wait_for_model, Si!_research, Si!attach,
       Si!operator_execute, Si!Confirm, Si!Finish
  <2>1. CASE UNCHANGED posted
    BY <2>1 DEF Counts
  <2>2. ASSUME NEW j \in Jobs, Si!_post_result(j) PROVE Counts'
    <3>1. UNCHANGED posted \/ posted' = [posted EXCEPT ![j] = @ + 1]
      BY <2>2, Zenon DEF Si!_post_result
    <3> QED
      BY <3>1 DEF Counts
  <2> QED
    BY <2>1, <2>2
<1> QED
  BY <1>1, <1>2, PTL DEF Si!Spec

(* A step posts the result of a completed job only, and changes none. *)
LEMMA PostsOnce ==
    ASSUME Parted, RInv, Counts, [Si!Next]_Si!vars, NEW j \in Jobs
    PROVE  /\ posted'[j] # posted[j] => job[j].state = "completed" /\ ~job[j].notified
           /\ job[j] # None /\ job[j].state = "completed" => job'[j].outcome = job[j].outcome
<1>0. job \in [Jobs -> Si!Records \cup {None}] /\ \A k \in Jobs : Drives(k)
  BY DEF RInv, ResearchTyped
<1>1. CASE UNCHANGED <<job, posted>>
  BY <1>1
<1>2. ASSUME NEW k \in Jobs, Si!_resolve_targets(k)
      PROVE  UNCHANGED posted /\ (job[j] # None => job'[j] = job[j])
  <2>1. job[k] = None
    BY <1>2 DEF RInv, OnlyOne, Si!_resolve_targets, Parted
  <2> QED
    BY <1>0, <1>2, <2>1 DEF Si!_resolve_targets
<1>3. ASSUME NEW k \in Jobs, Si!resume(k), job[j] # None, job[j].state = "completed"
      PROVE  UNCHANGED posted /\ job'[j] = job[j]
  <2>1. Si!reset_outdated_running_record(job[j]) = job[j]
    BY <1>3 DEF Si!reset_outdated_running_record
  <2> QED
    BY <1>0, <1>3, <2>1 DEF Si!resume
<1>4. ASSUME NEW k \in Jobs, Si!Running(k), UNCHANGED posted,
             \E r : job' = [job EXCEPT ![k] = r],
             job[j] # None, job[j].state = "completed"
      PROVE  job'[j] = job[j]
  BY <1>0, <1>4 DEF Si!Running
<1>5. ASSUME NEW k \in Jobs,
             Si!Fails(k) \/ Si!_drive(k) \/ Si!_wait_for_model(k) \/ Si!Finish(k)
      PROVE  UNCHANGED posted /\ (UNCHANGED job \/ (Si!Running(k) /\ \E r : job' = [job EXCEPT ![k] = r]))
  <2>1. CASE Si!Fails(k)
    BY <2>1, Zenon DEF Si!Fails
  <2>2. CASE Si!_drive(k)
    BY <2>2, Zenon DEF Si!_drive
  <2>3. CASE Si!_wait_for_model(k) \/ Si!Finish(k)
    <3>1. Si!Running(k)
      BY <1>0, <2>3 DEF Drives, Working, Si!_wait_for_model, Si!Finish
    <3> QED
      BY <2>3, <3>1, Zenon DEF Si!_wait_for_model, Si!Finish
  <2> QED
    BY <1>5, <2>1, <2>2, <2>3
<1>6. ASSUME NEW k \in Jobs, Si!_post_result(k)
      PROVE  /\ posted'[j] # posted[j] => job[j].state = "completed" /\ ~job[j].notified
             /\ job[j] # None /\ job[j].state = "completed" => job'[j].outcome = job[j].outcome
  <2>1. CASE at[k].at = "post" /\ UNCHANGED job
    <3>1. UNCHANGED posted \/ posted' = [posted EXCEPT ![k] = @ + 1]
      BY <1>6, <2>1, Zenon DEF Si!_post_result
    <3> QED
      BY <1>0, <2>1, <3>1 DEF Drives, Counts
  <2>2. CASE UNCHANGED posted /\ job' = [job EXCEPT ![k].notified = TRUE]
    <3> DEFINE r == [job[k] EXCEPT !.notified = TRUE]
    <3>1. job' = [job EXCEPT ![k] = r]
      BY <2>2, Zenon
    <3>2. job[k] \in Si!Records => r.outcome = job[k].outcome
      BY Zenon DEF Si!Records
    <3> HIDE DEF r
    <3> QED
      BY <1>0, <2>2, <3>1, <3>2
  <2>3. CASE UNCHANGED <<job, posted>>
    BY <2>3
  <2> QED
    BY <1>6, <2>1, <2>2, <2>3, Zenon DEF Si!_post_result
<1>7. \/ UNCHANGED <<job, posted>>
      \/ \E k \in Jobs : \/ Si!_resolve_targets(k) \/ Si!resume(k) \/ Si!_post_result(k)
                         \/ Si!Fails(k) \/ Si!_drive(k) \/ Si!_wait_for_model(k) \/ Si!Finish(k)
  BY DEF Si!Next, Si!vars, Si!Boot, Si!Stop, Si!LateArrives,
     Si!OthersChange, Si!start, Si!already_running,
     Si!Drive, Si!_research, Si!attach, Si!operator_execute,
     Si!Confirm
<1>8. CASE UNCHANGED posted /\ (job[j] # None /\ job[j].state = "completed" => job'[j] = job[j])
  BY <1>8
<1>9. \A k \in Jobs : Si!resume(k) => UNCHANGED posted
  BY DEF Si!resume
<1> QED
  BY <1>1, <1>2, <1>3, <1>4, <1>5, <1>6, <1>7, <1>8, <1>9

(* Results are posted for a finished job only, and not again once the record says so; a
   finished job keeps its outcomes (adas_si_research.py:971-984, 1176-1191, 1282-1312). *)
THEOREM PostsAreFinal == ASSUME Parted PROVE Si!Spec => Si!PostedIsFinal
<1>1. ASSUME RInv, Counts, [Si!Next]_Si!vars
      PROVE  [\A j \in Jobs :
                /\ posted'[j] # posted[j] => job[j].state = "completed" /\ ~job[j].notified
                /\ job[j] # None /\ job[j].state = "completed" =>
                      job'[j].outcome = job[j].outcome]_Si!vars
  BY <1>1, PostsOnce
<1> QED
  BY <1>1, ResearchInvariance, CountsLast, PTL DEF Si!Spec, Si!PostedIsFinal
=============================================================================
