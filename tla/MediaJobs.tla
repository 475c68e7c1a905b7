------------------------------ MODULE MediaJobs ------------------------------
(***************************************************************************)
(* Pictures and videos made with ComfyUI (core/services/image_generation.py,  *)
(* video_generation.py), and what a stop of Core leaves of them (core/main.py *)
(* lifespan, ModelRouter.external_workload_session as these two use it).      *)
(*                                                                         *)
(* A request takes the GPUs from the model, starts a ComfyUI of its own,      *)
(* lets it work, stops it and gives the GPUs back.  A step that awaits may    *)
(* end well, fail, or be cancelled; a cleanup completes before the            *)
(* cancellation is passed on, so a cancellation is an outcome of the step.    *)
(* The process of request r is called r.                                     *)
(***************************************************************************)
EXTENDS Naturals, FiniteSets

CONSTANTS
    Requests,
    Videos,      \* the requests that are videos; the others are pictures
    Foreign,     \* a ComfyUI someone else starts
    MaxCrashes,  \* bound
    None

VARIABLES
    up,        \* Core runs: "down", "boot" or "up"
    model,     \* the process of the model lives
    active,    \* the router holds it for verified
    lock,      \* the lock of the picture and of the video service
    session,   \* the request that holds the GPUs
    pc, err, stopped, restored, produced,
    alive,     \* ComfyUI processes
    loaded,    \* those that have a model on the GPUs
    listener,  \* the one that listens on the port
    marker,    \* the file that says which process is Core's
    staged,    \* source pictures copied for a video
    temp,      \* downloaded videos
    stored,    \* results kept under the digest of their content
    result,
    crashes

request == <<pc, err, stopped, restored, produced>>
comfy == <<alive, loaded, listener, marker>>
files == <<staged, temp, stored>>
router == <<up, model, active, crashes>>
vars == <<router, lock, session, request, comfy, files, result>>

Kind(r) == IF r \in Videos THEN "video" ELSE "image"

Init ==
    /\ up = "up" /\ model = TRUE /\ active = TRUE /\ crashes = 0
    /\ lock = [k \in {"image", "video"} |-> None] /\ session = None
    /\ pc = [r \in Requests |-> "new"]
    /\ err = [r \in Requests |-> "ok"]
    /\ stopped = [r \in Requests |-> FALSE]
    /\ restored = [r \in Requests |-> FALSE]
    /\ produced = [r \in Requests |-> FALSE]
    /\ alive = {} /\ loaded = {} /\ listener = None /\ marker = None
    /\ staged = {} /\ temp = {} /\ stored = {}
    /\ result = [r \in Requests |-> None]

Go(r, to) == pc' = [pc EXCEPT ![r] = to]

\* The first error of a request is the one it reports.
Notes(r, outcome) ==
    err' = IF err[r] = "ok" THEN [err EXCEPT ![r] = outcome] ELSE err

Answer(r, success, made) ==
    result' = [result EXCEPT ![r] = [success |-> success, produced |-> made,
                                     restored |-> restored[r]]]

-----------------------------------------------------------------------------
(* Before the GPUs. *)

\* The provider is ready for work when nothing listens on its port.
Ready == listener = None

\* Invalid arguments, or a provider that is not ready.
Preflight(r) ==
    /\ up = "up" /\ pc[r] = "new"
    /\ \/ Go(r, "lock") /\ Ready /\ UNCHANGED result
       \/ Go(r, "done") /\ Answer(r, FALSE, FALSE)
    /\ UNCHANGED <<router, lock, session, err, stopped, restored, produced, comfy, files>>

Lock(r) ==
    /\ pc[r] = "lock" /\ lock[Kind(r)] = None
    /\ lock' = [lock EXCEPT ![Kind(r)] = r]
    /\ Go(r, "session")
    /\ UNCHANGED <<router, session, err, stopped, restored, produced, comfy, files, result>>

external_workload_session(r) ==
    /\ pc[r] = "session" /\ session = None
    /\ session' = r
    /\ IF active THEN Go(r, "stop") /\ UNCHANGED err
       ELSE Go(r, "restore") /\ Notes(r, "error")
    /\ UNCHANGED <<router, lock, stopped, restored, produced, comfy, files, result>>

\* A caller that gives up while it waits.
Leaves(r) ==
    /\ pc[r] \in {"lock", "session"}
    /\ lock' = [k \in DOMAIN lock |-> IF lock[k] = r THEN None ELSE lock[k]]
    /\ Go(r, "done")
    /\ UNCHANGED <<router, session, err, stopped, restored, produced, comfy, files, result>>

_stop_active_worker(r) ==
    /\ pc[r] = "stop"
    /\ \E o \in {"ok", "error", "cancel"}, down \in BOOLEAN :
          /\ o # "error" => down
          /\ model' = (model /\ ~down) /\ active' = (active /\ ~down)
          /\ stopped' = [stopped EXCEPT ![r] = down]
          /\ Notes(r, o)
          /\ Go(r, IF o = "ok" THEN "ensure" ELSE "restore")
    /\ UNCHANGED <<up, crashes, lock, session, restored, produced, comfy, files, result>>

-----------------------------------------------------------------------------
(* The runtime. *)

\* A ComfyUI that listens already is never adopted.
_spawn(r) ==
    /\ pc[r] = "ensure"
    /\ \/ /\ listener = None
          /\ alive' = alive \cup {r} /\ Go(r, "mark") /\ UNCHANGED err
       \/ /\ \E o \in {"error", "cancel"} : Notes(r, o)
          /\ Go(r, "restore") /\ UNCHANGED alive
    /\ UNCHANGED <<router, lock, session, stopped, restored, produced, loaded, listener,
                   marker, files, result>>

\* The identity of the new process is checked before the marker is written; a new
\* process that fails is stopped at once.
_write_spawn_state(r) ==
    /\ pc[r] = "mark"
    /\ \/ marker' = r /\ Go(r, "wait") /\ UNCHANGED <<alive, err>>
       \/ /\ alive' = alive \ {r} /\ Notes(r, "error") /\ Go(r, "restore")
          /\ UNCHANGED marker
    /\ UNCHANGED <<router, lock, session, stopped, restored, produced, loaded, listener,
                   files, result>>

\* It has ended, is stopped, or its identity cannot be proved: then it is left.
_terminate_spawned(r) ==
    \/ /\ alive' = alive \ {r} /\ loaded' = loaded \ {r}
       /\ listener' = IF listener = r THEN None ELSE listener
       /\ marker' = None
    \/ r \in alive /\ UNCHANGED comfy

Gone(r) == r \notin alive'

_wait_ready(r) ==
    /\ pc[r] = "wait"
    /\ \/ /\ r \in alive /\ listener \in {None, r}
          /\ listener' = r /\ Go(r, "submit")
          /\ UNCHANGED <<alive, loaded, marker, err>>
       \/ /\ _terminate_spawned(r)
          /\ \E o \in {"error", "cancel"} : Notes(r, o)
          /\ Go(r, "restore")
    /\ UNCHANGED <<router, lock, session, stopped, restored, produced, files, result>>

_stage_source(r) == staged' = IF r \in Videos THEN staged \cup {r} ELSE staged

\* The source of a video is staged, and the work is submitted once.
Submit(r) ==
    /\ pc[r] = "submit"
    /\ loaded' = loaded \cup ({r} \cap alive)
    /\ _stage_source(r)
    /\ Go(r, "produce")
    /\ UNCHANGED <<router, lock, session, err, stopped, restored, produced, alive, listener,
                   marker, temp, stored, result>>

\* A picture is stored under its digest before it is reported, also when its caller
\* has gone.
_atomic_store(r, o) ==
    /\ \/ stored' = stored \cup {r} /\ r \in alive
       \/ UNCHANGED stored /\ o # "ok"
    /\ produced' = [produced EXCEPT ![r] = (o = "ok")]
    /\ UNCHANGED temp

_download_video(r) == temp' = temp \cup {r}

\* A video is downloaded to a file of its own, which goes again when the request fails.
_execute_workflow(r, o) ==
    /\ IF o = "ok" THEN _download_video(r) ELSE UNCHANGED temp
    /\ UNCHANGED <<stored, produced>>

generate(r) ==
    /\ pc[r] = "produce"
    /\ Go(r, "release")
    /\ \E o \in {"ok", "error", "cancel"} :
          /\ Notes(r, o)
          /\ o = "ok" => r \in alive
          /\ IF r \in Videos THEN _execute_workflow(r, o) ELSE _atomic_store(r, o)
    /\ UNCHANGED <<router, lock, session, stopped, restored, comfy, staged, result>>

release_runtime(r) ==
    /\ pc[r] = "release"
    /\ _terminate_spawned(r)
    /\ \E o \in {"ok", "error", "cancel"} :
          /\ Notes(r, o)
          /\ (o = "error") = ~Gone(r)
    /\ Go(r, "restore")
    /\ UNCHANGED <<router, lock, session, stopped, restored, produced, files, result>>

-----------------------------------------------------------------------------
(* Giving the GPUs back. *)

\* Mutant: the model is started without waiting for the GPUs.
RestoreAtOnce(r) ==
    /\ pc[r] = "restore"
    /\ model' = (model \/ stopped[r]) /\ active' = (active \/ stopped[r])
    /\ restored' = [restored EXCEPT ![r] = stopped[r]]
    /\ session' = None /\ lock' = [lock EXCEPT ![Kind(r)] = None]
    /\ Go(r, "cleanup")
    /\ UNCHANGED <<up, crashes, err, stopped, produced, comfy, files, result>>

\* Mutant: an early failure keeps the GPUs.
RestoreKeepsSession(r) ==
    /\ pc[r] = "restore"
    /\ model' = (model \/ stopped[r]) /\ active' = (active \/ stopped[r])
    /\ restored' = [restored EXCEPT ![r] = stopped[r]]
    /\ session' = IF stopped[r] THEN None ELSE session
    /\ lock' = [lock EXCEPT ![Kind(r)] = None]
    /\ Go(r, "cleanup")
    /\ UNCHANGED <<up, crashes, err, stopped, produced, comfy, files, result>>

\* The model that was stopped is started again once the GPUs are free; otherwise, or
\* when it does not come up, the request has failed.
_restore_external_worker(r) ==
    /\ pc[r] = "restore"
    /\ \/ ~stopped[r] /\ UNCHANGED <<model, active, restored, err>>
       \/ /\ stopped[r] /\ loaded = {}
          /\ model' = TRUE /\ active' = TRUE
          /\ restored' = [restored EXCEPT ![r] = TRUE]
          /\ \E o \in {"ok", "cancel"} : Notes(r, o)
       \/ stopped[r] /\ Notes(r, "error") /\ UNCHANGED <<model, active, restored>>
    /\ session' = None /\ lock' = [lock EXCEPT ![Kind(r)] = None]
    /\ Go(r, "cleanup")
    /\ UNCHANGED <<up, crashes, stopped, produced, comfy, files, result>>

\* The staged source and the outputs of the request, in the thread of a video.
_cleanup_request_files(r) ==
    /\ pc[r] = "cleanup"
    /\ \/ /\ staged' = staged \ {r}
          /\ \E o \in {"ok", "cancel"} : Notes(r, o) /\ (r \notin Videos => o = "ok")
       \/ r \in Videos /\ Notes(r, "error") /\ UNCHANGED staged
    /\ Go(r, "finish")
    /\ UNCHANGED <<router, lock, session, stopped, restored, produced, comfy, temp, stored,
                   result>>

\* Mutant: a finished picture is a success, whatever became of the model.
FinishProduced(r) ==
    /\ pc[r] = "finish" /\ r \notin Videos
    /\ Go(r, "done")
    /\ Answer(r, produced[r], produced[r])
    /\ UNCHANGED <<router, lock, session, err, stopped, restored, produced, comfy, files>>

FinishImage(r) ==
    /\ pc[r] = "finish" /\ r \notin Videos
    /\ Go(r, "done")
    /\ IF err[r] = "cancel" THEN UNCHANGED result
       ELSE Answer(r, err[r] = "ok" /\ restored[r], produced[r])
    /\ UNCHANGED <<router, lock, session, err, stopped, restored, produced, comfy, files>>

\* Mutant: the answer is given before the file is verified and stored.
FinishUnverified(r) ==
    /\ pc[r] = "finish" /\ r \in Videos
    /\ Go(r, "done")
    /\ temp' = temp \ {r}
    /\ \E kept \in BOOLEAN : stored' = IF kept /\ r \in temp THEN stored \cup {r} ELSE stored
    /\ Answer(r, r \in temp /\ err[r] = "ok" /\ restored[r], r \in temp)
    /\ UNCHANGED <<router, lock, session, err, stopped, restored, produced, comfy, staged>>

\* What the request checks last, after every cleanup: no step has failed and the model
\* is back.
Succeeded(r) == err[r] = "ok" /\ restored[r]

\* A video that was made is kept although the request has failed.
_retain_failed_wan_result(r, kept) == Answer(r, FALSE, kept)

_verify_and_store(r, kept) == stored' = IF kept THEN stored \cup {r} ELSE stored

\* A video that was made is verified and kept also when the model did not come back;
\* a cancelled one is removed.
FinishVideo(r) ==
    /\ pc[r] = "finish" /\ r \in Videos
    /\ Go(r, "done")
    /\ temp' = temp \ {r}
    /\ IF err[r] = "cancel" THEN UNCHANGED <<stored, result>>
       ELSE \E verified \in BOOLEAN :
              LET kept == verified /\ r \in temp
              IN  /\ _verify_and_store(r, kept)
                  /\ IF Succeeded(r) THEN Answer(r, kept, kept)
                     ELSE _retain_failed_wan_result(r, kept)
    /\ UNCHANGED <<router, lock, session, err, stopped, restored, produced, comfy, staged>>

-----------------------------------------------------------------------------
(* A stop of Core, its next start, and other programs. *)

Crash ==
    /\ up = "up" /\ crashes < MaxCrashes
    /\ crashes' = crashes + 1 /\ up' = "down" /\ active' = FALSE
    /\ lock' = [k \in DOMAIN lock |-> None] /\ session' = None
    /\ pc' = [r \in Requests |-> IF pc[r] \in {"new", "done"} THEN pc[r] ELSE "lost"]
    /\ UNCHANGED <<model, err, stopped, restored, produced, comfy, files, result>>

Boots == up = "down" /\ up' = "boot"
         /\ UNCHANGED <<model, active, crashes, lock, session, request, comfy, files, result>>

\* Only the process the marker names is stopped, and only while no other listens; an
\* unknown listener stops the start of the model.
reconcile_startup ==
    \/ marker \notin alive /\ listener = None
       /\ marker' = None /\ UNCHANGED <<alive, loaded, listener>>
    \/ /\ marker \in alive /\ listener \in {None, marker}
       /\ alive' = alive \ {marker} /\ loaded' = loaded \ {marker}
       /\ listener' = None /\ marker' = None

\* A marker whose process is gone is removed also when someone else listens.
ReconcileFails ==
    /\ marker' = IF marker # None /\ marker \notin alive THEN None ELSE marker
    /\ UNCHANGED <<alive, loaded, listener>>

\* Mutant: the model is started whatever became of the orphan.
StartAnyway ==
    /\ up = "boot" /\ up' = "up"
    /\ model' = TRUE /\ active' = TRUE
    /\ UNCHANGED <<crashes, lock, session, request, comfy, files, result>>

start_default ==
    /\ up = "boot" /\ up' = "up"
    /\ \/ /\ reconcile_startup
          /\ model \/ loaded' = {}
          /\ model' = TRUE /\ active' = TRUE
       \/ ReconcileFails /\ UNCHANGED <<model, active>>
    /\ UNCHANGED <<crashes, lock, session, request, files, result>>

ForeignListens ==
    /\ listener = None /\ Foreign \notin alive
    /\ listener' = Foreign /\ alive' = alive \cup {Foreign}
    /\ UNCHANGED <<router, lock, session, request, loaded, marker, files, result>>

\* A ComfyUI ends by itself.
Exits(p) ==
    /\ p \in alive
    /\ alive' = alive \ {p} /\ loaded' = loaded \ {p}
    /\ listener' = IF listener = p THEN None ELSE listener
    /\ UNCHANGED <<router, lock, session, request, marker, files, result>>

Works(r) ==
    \/ _stop_active_worker(r) \/ _spawn(r) \/ _write_spawn_state(r) \/ _wait_ready(r)
    \/ Submit(r) \/ generate(r) \/ release_runtime(r) \/ _restore_external_worker(r)
    \/ _cleanup_request_files(r) \/ FinishImage(r) \/ FinishVideo(r)

Next ==
    \/ Crash \/ Boots \/ start_default \/ ForeignListens
    \/ \E p \in Requests \cup {Foreign} : Exits(p)
    \/ \E r \in Requests :
          Preflight(r) \/ Lock(r) \/ external_workload_session(r) \/ Leaves(r) \/ Works(r)

Fairness == \A r \in Requests : WF_vars(Works(r))

Spec == Init /\ [][Next]_vars /\ Fairness

-----------------------------------------------------------------------------
(* The model and a ComfyUI of Core that holds GPU memory never live together,
   also after a crash between any two steps (router.py:404-562,
   image_generation.py:496-534, 684-707). *)
OneTenant == model => loaded = {}

(* A result is a success only when its file is stored, the model is back and the
   ComfyUI of the request is gone; a result that names a file has one; and a
   request that ended leaves no lock, session or temporary file behind
   (image_generation.py:1087-1161, video_generation.py:1258-1472, 1716-1904). *)
MediaTruth ==
    \A r \in Requests :
        /\ result[r] # None =>
            /\ result[r].success =>
                result[r].produced /\ result[r].restored /\ r \notin alive \cup staged
            /\ result[r].produced => r \in stored
        /\ pc[r] = "done" =>
            r # session /\ r # lock[Kind(r)] /\ r \notin temp

(* A request that has the GPUs gives them back (router.py:464-573). *)
GpusReturned == \A r \in Requests : (session = r) ~> (session # r)
=============================================================================
