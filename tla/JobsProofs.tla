------------------------------ MODULE JobsProofs ------------------------------
(***************************************************************************)
(* What BackgroundProofs shows of pictures and videos and of the research of  *)
(* repair orders, as theorems about the jobs of Core checked together.        *)
(***************************************************************************)
EXTENDS MCJobs, TLAPS

\* A picture and a video, and a job of an older build that is resumed.
Alone == INSTANCE BackgroundProofs WITH Requests <- {picture, video}, Videos <- {video},
              Foreign <- foreign, MaxCrashes <- 1, up <- core, on <- up,
              Jobs <- {j1}, Old <- j1, N <- 2, Docs <- {d1, d2},
              Captured <- (d1 :> 3 @@ d2 :> 3), WithoutId <- {2}, Unreadable <- {d2},
              ReviewLimit <- 1, MaxFaults <- 2, MaxTouch <- 1
\* Two starts of research.
Pair == INSTANCE BackgroundProofs WITH Requests <- {picture, video}, Videos <- {video},
              Foreign <- foreign, MaxCrashes <- 1, up <- core, on <- up,
              Jobs <- {j1, j2}, Old <- None, N <- 1, Docs <- {d2},
              Captured <- (d2 :> 1), WithoutId <- {}, Unreadable <- {},
              ReviewLimit <- 1, MaxFaults <- 1, MaxTouch <- 0

(* The pictures and videos start as they do alone, and move as they do alone or not
   at all. *)
LEMMA StartsAlone == Init => Alone!Init
  BY DEF Init, Media!Init, Alone!Init

\* A step of the run is a step of the media jobs, or leaves them alone.
LEMMA MovesAlone == [Next]_vars => [Alone!Next]_Alone!vars
<1>1. ASSUME Media!Next PROVE Alone!Next
  BY <1>1 DEF Media!Next, Alone!Next, Media!Crash, Alone!Crash, Media!Boots,
     Alone!Boots, Media!start_default, Alone!start_default,
     Media!reconcile_startup, Alone!reconcile_startup, Media!ReconcileFails,
     Alone!ReconcileFails, Media!ForeignListens, Alone!ForeignListens,
     Media!Exits, Alone!Exits, Media!Preflight, Alone!Preflight, Media!Ready,
     Alone!Ready, Media!Lock, Alone!Lock, Media!external_workload_session,
     Alone!external_workload_session, Media!Leaves, Alone!Leaves, Media!Works,
     Alone!Works, Media!_stop_active_worker, Alone!_stop_active_worker,
     Media!_spawn, Alone!_spawn, Media!_write_spawn_state,
     Alone!_write_spawn_state, Media!_wait_ready, Alone!_wait_ready,
     Media!_terminate_spawned, Alone!_terminate_spawned, Media!Submit,
     Alone!Submit, Media!_stage_source, Alone!_stage_source, Media!generate,
     Alone!generate, Media!_execute_workflow, Alone!_execute_workflow,
     Media!_download_video, Alone!_download_video,
     Media!_atomic_store, Alone!_atomic_store, Media!release_runtime,
     Alone!release_runtime, Media!Gone, Alone!Gone,
     Media!_restore_external_worker, Alone!_restore_external_worker,
     Media!_cleanup_request_files, Alone!_cleanup_request_files, Media!FinishImage,
     Alone!FinishImage, Media!FinishVideo, Alone!FinishVideo, Media!Succeeded,
     Alone!Succeeded, Media!_retain_failed_wan_result,
     Alone!_retain_failed_wan_result,
     Media!_verify_and_store, Alone!_verify_and_store, Media!Answer,
     Alone!Answer, Media!Notes, Alone!Notes, Media!Go, Alone!Go, Media!Kind,
     Alone!Kind, Media!router, Alone!router, Media!comfy, Alone!comfy,
     Media!files, Alone!files, Media!request, Alone!request
<1>2. ASSUME UNCHANGED mediaVars PROVE UNCHANGED Alone!vars
  BY <1>2 DEF mediaVars, Alone!vars, Alone!router, Alone!request, Alone!comfy,
     Alone!files
<1> QED
  BY <1>1, <1>2 DEF Next, vars

(* The model and a ComfyUI of Core never share the GPUs, and a result is what happened,
   whichever job of Core runs (router.py:404-562, image_generation.py:684-1161,
   video_generation.py:1258-1904). *)
THEOREM MediaOfRun == Spec => []MediaTruth
<1>1. Alone!Distinct
  BY Names DEF Alone!Distinct
<1>2. Alone!Init /\ [][Alone!Next]_Alone!vars => []Alone!IInv
  BY <1>1, Alone!Invariance
<1>3. Alone!IInv => MediaTruth
  <2>1. Alone!IInv => Alone!OneTenant /\ Alone!MediaTruth
    BY <1>1, Alone!Enough
  <2> QED
    BY <2>1 DEF MediaTruth, Media!OneTenant, Media!MediaTruth, Alone!OneTenant,
       Alone!MediaTruth, Media!Kind, Alone!Kind
<1> QED
  BY <1>2, <1>3, StartsAlone, MovesAlone, PTL DEF Spec
-----------------------------------------------------------------------------
(* The research of a repair order.                                         *)

\* What both scenarios of research keep true, each of its own jobs.
ResearchKept ==
    /\ scenario = "research" => Alone!RInv
    /\ scenario = "starts" => Pair!RInv

(* The job that is resumed starts and moves as it does alone. *)
LEMMA OneMoves ==
    /\ Research!Init => Alone!Si!Init
    /\ Research!Next => Alone!Si!Next
<1>1. \A S : Research!Cardinality(S) = Alone!Si!Cardinality(S)
  BY Zenon DEF Research!Cardinality, Alone!Si!Cardinality
<1>2. \A c : Research!LocalResults(c) = Alone!Si!LocalResults(c)
  <2>1. Research!Rows = Alone!Si!Rows /\ Research!Verdicts = Alone!Si!Verdicts
    BY Zenon DEF Research!Rows, Alone!Si!Rows, Research!Verdicts, Alone!Si!Verdicts,
       Research!Cardinality, Alone!Si!Cardinality
  <2>2. ASSUME NEW c, NEW rows, NEW verdict, NEW blind
        PROVE  Research!local_procedure(c, rows, verdict, blind) =
                 Alone!Si!local_procedure(c, rows, verdict, blind)
    BY Zenon DEF Research!local_procedure, Alone!Si!local_procedure,
       Research!captured_calibration_id, Alone!Si!captured_calibration_id,
       Research!provenance_allows_reuse, Alone!Si!provenance_allows_reuse,
       Research!Cardinality, Alone!Si!Cardinality
  <2> TAKE c
  <2>3. \A x \in Research!LocalResults(c) : x \in Alone!Si!LocalResults(c)
    BY <2>1, <2>2 DEF Research!LocalResults, Alone!Si!LocalResults
  <2>4. \A x \in Alone!Si!LocalResults(c) : x \in Research!LocalResults(c)
    BY <2>1, <2>2 DEF Research!LocalResults, Alone!Si!LocalResults
  <2> QED
    BY <2>3, <2>4 DEF Research!LocalResults, Alone!Si!LocalResults
<1>3. \A w : Research!Arrives(w) <=> Alone!Si!Arrives(w)
  BY Zenon DEF Research!Arrives, Alone!Si!Arrives
<1>4. \A j : Research!start(j) => Alone!Si!start(j)
  BY Zenon DEF Research!start, Alone!Si!start, Research!running_job,
     Alone!Si!running_job, Research!Running, Alone!Si!Running, Research!world,
     Alone!Si!world
<1>5. \A j : Research!already_running(j) => Alone!Si!already_running(j)
  BY Zenon DEF Research!already_running, Alone!Si!already_running, Research!running_job,
     Alone!Si!running_job, Research!Running, Alone!Si!Running,
     Research!_ensure_driver, Alone!Si!_ensure_driver, Research!world, Alone!Si!world,
     Research!service, Alone!Si!service
<1>6. \A j : Research!_resolve_targets(j) => Alone!Si!_resolve_targets(j)
  BY Zenon DEF Research!_resolve_targets, Alone!Si!_resolve_targets,
     Research!_ensure_driver, Alone!Si!_ensure_driver, Research!Fresh, Alone!Si!Fresh,
     Research!Cals, Alone!Si!Cals, Research!world, Alone!Si!world
<1>7. \A j : Research!resume(j) => Alone!Si!resume(j)
  BY Zenon DEF Research!resume, Alone!Si!resume, Research!reset_outdated_running_record,
     Alone!Si!reset_outdated_running_record, Research!Fresh, Alone!Si!Fresh,
     Research!Cals, Alone!Si!Cals, Research!_ensure_driver, Alone!Si!_ensure_driver,
     Research!Running, Alone!Si!Running, Research!world, Alone!Si!world
<1>8. \A j : Research!_drive(j) => Alone!Si!_drive(j)
  BY Zenon DEF Research!_drive, Alone!Si!_drive, Research!Finalized,
     Alone!Si!Finalized, Research!classify_objective, Alone!Si!classify_objective,
     Research!Cals, Alone!Si!Cals, Research!Pending, Alone!Si!Pending,
     Research!Running, Alone!Si!Running, Research!Idle, Alone!Si!Idle, Research!world,
     Alone!Si!world, Research!service, Alone!Si!service
<1>9. \A j : Research!_wait_for_model(j) => Alone!Si!_wait_for_model(j)
  BY Zenon DEF Research!_wait_for_model, Alone!Si!_wait_for_model, Research!Idle,
     Alone!Si!Idle, Research!world, Alone!Si!world, Research!service,
     Alone!Si!service
<1>10. \A j : Research!_research(j) => Alone!Si!_research(j)
  BY <1>2, Zenon DEF Research!_research, Alone!Si!_research, Research!attach,
     Alone!Si!attach, Research!IsAttached, Alone!Si!IsAttached, Research!_document_on_ro,
     Alone!Si!_document_on_ro, Research!world, Alone!Si!world, Research!service,
     Alone!Si!service
<1>11. \A j : Research!attach(j) => Alone!Si!attach(j)
  BY Zenon DEF Research!attach, Alone!Si!attach, Research!IsAttached, Alone!Si!IsAttached,
     Research!_document_on_ro, Alone!Si!_document_on_ro, Research!world,
     Alone!Si!world, Research!service, Alone!Si!service
<1>12. \A j : Research!operator_execute(j) => Alone!Si!operator_execute(j)
  BY <1>1, <1>3, Zenon DEF Research!operator_execute, Alone!Si!operator_execute,
     Research!service, Alone!Si!service
<1>13. \A j : Research!Confirm(j) => Alone!Si!Confirm(j)
  BY Zenon DEF Research!Confirm, Alone!Si!Confirm, Research!IsAttached, Alone!Si!IsAttached,
     Research!_document_on_ro, Alone!Si!_document_on_ro, Research!world,
     Alone!Si!world, Research!service, Alone!Si!service
<1>14. \A j : Research!Finish(j) => Alone!Si!Finish(j)
  BY Zenon DEF Research!Finish, Alone!Si!Finish, Research!Outcome, Alone!Si!Outcome,
     Research!Idle, Alone!Si!Idle, Research!world, Alone!Si!world, Research!service,
     Alone!Si!service
<1>15. \A j : Research!_post_result(j) => Alone!Si!_post_result(j)
  BY Zenon DEF Research!_post_result, Alone!Si!_post_result, Research!Idle,
     Alone!Si!Idle, Research!service, Alone!Si!service
<1>16. \A j : Research!Fails(j) => Alone!Si!Fails(j)
  BY Zenon DEF Research!Fails, Alone!Si!Fails, Research!Finalized, Alone!Si!Finalized,
     Research!classify_objective, Alone!Si!classify_objective, Research!Cals,
     Alone!Si!Cals, Research!Running, Alone!Si!Running, Research!Idle,
     Alone!Si!Idle, Research!service, Alone!Si!service
<1>17. Research!Boot => Alone!Si!Boot
  BY Zenon DEF Research!Boot, Alone!Si!Boot, Research!world, Alone!Si!world
<1>18. Research!Stop => Alone!Si!Stop
  BY Zenon DEF Research!Stop, Alone!Si!Stop, Research!Idle, Alone!Si!Idle
<1>19. Research!OthersChange => Alone!Si!OthersChange
  BY Zenon DEF Research!OthersChange, Alone!Si!OthersChange, Research!service,
     Alone!Si!service
<1>20. Research!LateArrives => Alone!Si!LateArrives
  BY <1>1, <1>3, Zenon DEF Research!LateArrives, Alone!Si!LateArrives, Research!service,
     Alone!Si!service
<1>21. Research!Init => Alone!Si!Init
  BY Zenon DEF Research!Init, Alone!Si!Init, Research!Idle, Alone!Si!Idle,
     Research!Cals, Alone!Si!Cals
<1> QED
  BY <1>4, <1>5, <1>6, <1>7, <1>8, <1>9, <1>10, <1>11, <1>12,
     <1>13, <1>14, <1>15, <1>16, <1>17, <1>18, <1>19, <1>20, <1>21, Zenon
     DEF Research!Next, Alone!Si!Next, Research!Drive, Alone!Si!Drive

(* The two that are started start and move as they do alone. *)
LEMMA PairMoves ==
    /\ Starts!Init => Pair!Si!Init
    /\ Starts!Next => Pair!Si!Next
<1>1. \A S : Starts!Cardinality(S) = Pair!Si!Cardinality(S)
  BY Zenon DEF Starts!Cardinality, Pair!Si!Cardinality
<1>2. \A c : Starts!LocalResults(c) = Pair!Si!LocalResults(c)
  <2>1. Starts!Rows = Pair!Si!Rows /\ Starts!Verdicts = Pair!Si!Verdicts
    BY Zenon DEF Starts!Rows, Pair!Si!Rows, Starts!Verdicts, Pair!Si!Verdicts,
       Starts!Cardinality, Pair!Si!Cardinality
  <2>2. ASSUME NEW c, NEW rows, NEW verdict, NEW blind
        PROVE  Starts!local_procedure(c, rows, verdict, blind) =
                 Pair!Si!local_procedure(c, rows, verdict, blind)
    BY Zenon DEF Starts!local_procedure, Pair!Si!local_procedure,
       Starts!captured_calibration_id, Pair!Si!captured_calibration_id,
       Starts!provenance_allows_reuse, Pair!Si!provenance_allows_reuse, Starts!Cardinality,
       Pair!Si!Cardinality
  <2> TAKE c
  <2>3. \A x \in Starts!LocalResults(c) : x \in Pair!Si!LocalResults(c)
    BY <2>1, <2>2 DEF Starts!LocalResults, Pair!Si!LocalResults
  <2>4. \A x \in Pair!Si!LocalResults(c) : x \in Starts!LocalResults(c)
    BY <2>1, <2>2 DEF Starts!LocalResults, Pair!Si!LocalResults
  <2> QED
    BY <2>3, <2>4 DEF Starts!LocalResults, Pair!Si!LocalResults
<1>3. \A w : Starts!Arrives(w) <=> Pair!Si!Arrives(w)
  BY Zenon DEF Starts!Arrives, Pair!Si!Arrives
<1>4. \A j : Starts!start(j) => Pair!Si!start(j)
  BY Zenon DEF Starts!start, Pair!Si!start, Starts!running_job, Pair!Si!running_job,
     Starts!Running, Pair!Si!Running, Starts!world, Pair!Si!world
<1>5. \A j : Starts!already_running(j) => Pair!Si!already_running(j)
  BY Zenon DEF Starts!already_running, Pair!Si!already_running, Starts!running_job,
     Pair!Si!running_job, Starts!Running, Pair!Si!Running, Starts!_ensure_driver,
     Pair!Si!_ensure_driver, Starts!world, Pair!Si!world, Starts!service, Pair!Si!service
<1>6. \A j : Starts!_resolve_targets(j) => Pair!Si!_resolve_targets(j)
  BY Zenon DEF Starts!_resolve_targets, Pair!Si!_resolve_targets, Starts!_ensure_driver,
     Pair!Si!_ensure_driver, Starts!Fresh, Pair!Si!Fresh, Starts!Cals, Pair!Si!Cals,
     Starts!world, Pair!Si!world
<1>7. \A j : Starts!resume(j) => Pair!Si!resume(j)
  BY Zenon DEF Starts!resume, Pair!Si!resume, Starts!reset_outdated_running_record,
     Pair!Si!reset_outdated_running_record, Starts!Fresh, Pair!Si!Fresh, Starts!Cals,
     Pair!Si!Cals, Starts!_ensure_driver, Pair!Si!_ensure_driver, Starts!Running,
     Pair!Si!Running, Starts!world, Pair!Si!world
<1>8. \A j : Starts!_drive(j) => Pair!Si!_drive(j)
  BY Zenon DEF Starts!_drive, Pair!Si!_drive, Starts!Finalized, Pair!Si!Finalized,
     Starts!classify_objective, Pair!Si!classify_objective, Starts!Cals, Pair!Si!Cals,
     Starts!Pending, Pair!Si!Pending, Starts!Running, Pair!Si!Running, Starts!Idle,
     Pair!Si!Idle, Starts!world, Pair!Si!world, Starts!service, Pair!Si!service
<1>9. \A j : Starts!_wait_for_model(j) => Pair!Si!_wait_for_model(j)
  BY Zenon DEF Starts!_wait_for_model, Pair!Si!_wait_for_model, Starts!Idle, Pair!Si!Idle,
     Starts!world, Pair!Si!world, Starts!service, Pair!Si!service
<1>10. \A j : Starts!_research(j) => Pair!Si!_research(j)
  BY <1>2, Zenon DEF Starts!_research, Pair!Si!_research, Starts!attach, Pair!Si!attach,
     Starts!IsAttached, Pair!Si!IsAttached, Starts!_document_on_ro, Pair!Si!_document_on_ro,
     Starts!world, Pair!Si!world, Starts!service, Pair!Si!service
<1>11. \A j : Starts!attach(j) => Pair!Si!attach(j)
  BY Zenon DEF Starts!attach, Pair!Si!attach, Starts!IsAttached, Pair!Si!IsAttached,
     Starts!_document_on_ro, Pair!Si!_document_on_ro, Starts!world, Pair!Si!world,
     Starts!service, Pair!Si!service
<1>12. \A j : Starts!operator_execute(j) => Pair!Si!operator_execute(j)
  BY <1>1, <1>3, Zenon DEF Starts!operator_execute, Pair!Si!operator_execute,
     Starts!service, Pair!Si!service
<1>13. \A j : Starts!Confirm(j) => Pair!Si!Confirm(j)
  BY Zenon DEF Starts!Confirm, Pair!Si!Confirm, Starts!IsAttached, Pair!Si!IsAttached,
     Starts!_document_on_ro, Pair!Si!_document_on_ro, Starts!world, Pair!Si!world,
     Starts!service, Pair!Si!service
<1>14. \A j : Starts!Finish(j) => Pair!Si!Finish(j)
  BY Zenon DEF Starts!Finish, Pair!Si!Finish, Starts!Outcome, Pair!Si!Outcome, Starts!Idle,
     Pair!Si!Idle, Starts!world, Pair!Si!world, Starts!service, Pair!Si!service
<1>15. \A j : Starts!_post_result(j) => Pair!Si!_post_result(j)
  BY Zenon DEF Starts!_post_result, Pair!Si!_post_result, Starts!Idle, Pair!Si!Idle,
     Starts!service, Pair!Si!service
<1>16. \A j : Starts!Fails(j) => Pair!Si!Fails(j)
  BY Zenon DEF Starts!Fails, Pair!Si!Fails, Starts!Finalized, Pair!Si!Finalized,
     Starts!classify_objective, Pair!Si!classify_objective, Starts!Cals, Pair!Si!Cals,
     Starts!Running, Pair!Si!Running, Starts!Idle, Pair!Si!Idle, Starts!service,
     Pair!Si!service
<1>17. Starts!Boot => Pair!Si!Boot
  BY Zenon DEF Starts!Boot, Pair!Si!Boot, Starts!world, Pair!Si!world
<1>18. Starts!Stop => Pair!Si!Stop
  BY Zenon DEF Starts!Stop, Pair!Si!Stop, Starts!Idle, Pair!Si!Idle
<1>19. Starts!OthersChange => Pair!Si!OthersChange
  BY Zenon DEF Starts!OthersChange, Pair!Si!OthersChange, Starts!service, Pair!Si!service
<1>20. Starts!LateArrives => Pair!Si!LateArrives
  BY <1>1, <1>3, Zenon DEF Starts!LateArrives, Pair!Si!LateArrives, Starts!service,
     Pair!Si!service
<1>21. Starts!Init => Pair!Si!Init
  BY Zenon DEF Starts!Init, Pair!Si!Init, Starts!Idle, Pair!Si!Idle, Starts!Cals,
     Pair!Si!Cals
<1> QED
  BY <1>4, <1>5, <1>6, <1>7, <1>8, <1>9, <1>10, <1>11, <1>12,
     <1>13, <1>14, <1>15, <1>16, <1>17, <1>18, <1>19, <1>20, <1>21, Zenon
     DEF Starts!Next, Pair!Si!Next, Starts!Drive, Pair!Si!Drive

(* The names of each scenario are apart from what is absent. *)
LEMMA BothParted == Alone!Parted /\ Pair!Parted
BY Names DEF Alone!Parted, Pair!Parted, Research!Records, Alone!Si!Records,
   Starts!Records, Pair!Si!Records, Research!Outcomes, Alone!Si!Outcomes,
   Starts!Outcomes, Pair!Si!Outcomes, Research!Cals, Alone!Si!Cals, Starts!Cals,
   Pair!Si!Cals

(* What a job reports as attached is linked to the calibration it was researched for, or
   on the repair order when the objective has no id; a document is linked to a
   calibration it was not captured for only when its sidecar could not be read; and one
   research runs, whichever job of Core runs beside it (adas_si_research.py:532-678,
   863-938, 1115-1160). *)
THEOREM ResearchOfRun == Spec => []ResearchTruth
<1>1. Init => ResearchKept
  BY OneMoves, PairMoves, BothParted, Alone!ResearchBegins, Pair!ResearchBegins
     DEF Init, ResearchKept
<1>2. ResearchKept /\ [Next]_vars => ResearchKept'
  <2> SUFFICES ASSUME ResearchKept, [Next]_vars PROVE ResearchKept'
    OBVIOUS
  <2>1. UNCHANGED scenario
    BY DEF Next, vars
  <2>2. CASE scenario = "research"
    <3>1. [Alone!Si!Next]_Alone!Si!vars
      BY <2>2, OneMoves DEF Next, vars, researchVars, Alone!Si!vars
    <3> QED
      BY <2>1, <2>2, <3>1, BothParted, Alone!ResearchContinues DEF ResearchKept
  <2>3. CASE scenario = "starts"
    <3>1. [Pair!Si!Next]_Pair!Si!vars
      BY <2>3, PairMoves DEF Next, vars, researchVars, Pair!Si!vars
    <3> QED
      BY <2>1, <2>3, <3>1, BothParted, Pair!ResearchContinues DEF ResearchKept
  <2> QED
    BY <2>1, <2>2, <2>3 DEF ResearchKept
<1>3. ResearchKept => ResearchTruth
  <2>1. Alone!RInv => Alone!Si!AttachedIsLinked /\ Alone!Si!OwnProcedure
    BY Alone!ResearchEnough
  <2>2. Pair!RInv => Pair!Si!OneRunning
    BY Pair!ResearchEnough
  <2> QED
    BY <2>1, <2>2 DEF ResearchKept, ResearchTruth,
       Research!AttachedIsLinked, Alone!Si!AttachedIsLinked, Research!IsAttached,
       Alone!Si!IsAttached, Research!_document_on_ro, Alone!Si!_document_on_ro,
       Research!Cals, Alone!Si!Cals, Research!OwnProcedure, Alone!Si!OwnProcedure,
       Starts!OneRunning, Pair!Si!OneRunning, Starts!running_job, Pair!Si!running_job,
       Starts!Running, Pair!Si!Running
<1> QED
  BY <1>1, <1>2, <1>3, PTL DEF Spec
=============================================================================
