-------------------------------- MODULE MCJobs --------------------------------
(* The long-running jobs of Core, and the answer of a window, checked together:  *)
(* each scenario lets one of them run on an instance of its own size.           *)
EXTENDS TLC, Naturals, Sequences, FiniteSets

CONSTANTS s1, k1, k2, u1, f1, j1, j2, d1, d2, picture, video, r1, c1, foreign, None


VARIABLES
    scenario,
    up, unresumed, starting, job, at, ciq, done, late, faults, touches, posted,
    core, model, active, lock, session, pc, err, stopped, restored, produced,
    alive, loaded, listener, marker, staged, temp, stored, result, crashes,
    here, place, holding, answering, task, upload, blobs, messages,
    phase, rec, posts, drv, startLock, call, todo, posting, batches, overtime, stops

\* A job of an older build that is resumed, and stops of Core: a named system, and a
\* calibration whose procedures were captured for another one; two starts.
Research == INSTANCE AdasSiResearch WITH Jobs <- {j1}, Old <- j1, N <- 2,
              Docs <- {d1, d2}, Captured <- (d1 :> 3 @@ d2 :> 3), WithoutId <- {2},
              Unreadable <- {d2}, ReviewLimit <- 1,
              MaxFaults <- 2, MaxTouch <- 1
Starts == INSTANCE AdasSiResearch WITH Jobs <- {j1, j2}, Old <- None, N <- 1,
              Docs <- {d2}, Captured <- (d2 :> 1), WithoutId <- {}, Unreadable <- {},
              ReviewLimit <- 1,
              MaxFaults <- 1, MaxTouch <- 0
\* A picture and a video.
Media == INSTANCE MediaJobs WITH Requests <- {picture, video}, Videos <- {video}, Foreign <- foreign,
              MaxCrashes <- 1, up <- core
\* A sweep of one repair order, with a crash, lost answers and a sign-in that never comes.
Sweep == INSTANCE AdasMapSweep WITH ROs <- {r1}, ChunkLimit <- 1, MaxRestarts <- 1,
              MaxReadFailures <- 2, Callers <- {c1}, NoCaller <- None, MaxSweeps <- 1,
              MaxCrashes <- 1, LostAnswers <- TRUE, StopsInLaunch <- FALSE,
              StatusInLaunch <- FALSE, lock <- startLock, late <- overtime, crashes <- stops

\* One window that answers, and is stopped.
Window == INSTANCE ChatSocket WITH Sockets <- {s1}, Owners <- {s1}, Slots <- {k1, k2},
            Uploads <- {u1}, Files <- {f1}, MaxMessages <- 1,
            up <- here, at <- place, held <- holding, active <- answering

\* What is absent is none of the others, and nobody's ComfyUI is that of a request.
ASSUME Names ==
    /\ None \notin {picture, video} \cup {j1, j2} \cup {d1, d2}
    /\ None \notin Research!Records \cup Starts!Records
    /\ foreign \notin {picture, video}

windowVars == <<here, place, holding, answering, task, upload, blobs, messages>>
researchVars == <<up, unresumed, starting, job, at, ciq, done, late, faults, touches, posted>>
mediaVars == <<core, model, active, lock, session, pc, err, stopped, restored, produced,
               alive, loaded, listener, marker, staged, temp, stored, result, crashes>>
sweepVars == <<phase, rec, posts, drv, startLock, call, todo, posting, batches, overtime, stops>>
vars == <<scenario, windowVars, researchVars, mediaVars, sweepVars>>

Init ==
    /\ \/ scenario \in {"window", "research", "media", "sweep"} /\ Research!Init
       \/ scenario = "starts" /\ Starts!Init
    /\ Window!Init /\ Media!Init /\ Sweep!Init

Next ==
    /\ UNCHANGED scenario
    /\ \/ /\ \/ scenario = "research" /\ Research!Next
             \/ scenario = "starts" /\ Starts!Next
          /\ UNCHANGED <<windowVars, mediaVars, sweepVars>>
       \/ scenario = "media" /\ Media!Next /\ UNCHANGED <<windowVars, researchVars, sweepVars>>
       \/ scenario = "sweep" /\ Sweep!Next /\ UNCHANGED <<windowVars, researchVars, mediaVars>>
       \/ scenario = "window" /\ Window!Next /\ UNCHANGED <<researchVars, mediaVars, sweepVars>>

ResearchSteps(A) == scenario = "research" /\ A /\ UNCHANGED <<scenario, windowVars, mediaVars, sweepVars>>
MediaSteps(A) == scenario = "media" /\ A /\ UNCHANGED <<scenario, windowVars, researchVars, sweepVars>>
SweepSteps(A) == scenario = "sweep" /\ A /\ UNCHANGED <<scenario, windowVars, researchVars, mediaVars>>
WindowSteps(A) ==
    scenario = "window" /\ A /\ UNCHANGED <<scenario, researchVars, mediaVars, sweepVars>>

Fairness ==
    /\ WF_vars(WindowSteps(Window!Loop(s1)))
    /\ \A k \in {k1, k2} : WF_vars(WindowSteps(Window!Step(s1, k)))
    /\ WF_vars(ResearchSteps(Research!Boot))
    /\ WF_vars(ResearchSteps(Research!resume(j1)))
    /\ WF_vars(ResearchSteps(Research!Drive(j1)))
    /\ \A r \in {picture, video} : WF_vars(MediaSteps(Media!Works(r)))
    /\ WF_vars(SweepSteps(Sweep!DriverStep(1))) /\ WF_vars(SweepSteps(Sweep!Resume(1)))
    /\ WF_vars(SweepSteps(Sweep!TimeLimit(1))) /\ WF_vars(SweepSteps(Sweep!CallerStep(c1)))
    /\ WF_vars(SweepSteps(Sweep!Restart)) /\ WF_vars(SweepSteps(Sweep!ResumePosted))
    /\ WF_vars(SweepSteps(Sweep!Serve))

Spec == Init /\ [][Next]_vars /\ Fairness

(* AdasSiResearch!AttachedIsLinked, OwnProcedure, OneRunning: what a job reports as
   attached is linked to that calibration, or on the repair order when the objective
   has no id; a document is linked to a calibration it was not captured for only when
   its sidecar could not be read; and one job runs (adas_si_research.py:532-678,
   863-938, 1115-1160). *)
ResearchTruth ==
    /\ scenario = "research" => Research!AttachedIsLinked /\ Research!OwnProcedure
    /\ scenario = "starts" => Starts!OneRunning

(* AdasSiResearch!NotMerelyPresent and NeverReused, as adas_si_research.py:513-515 and
   adas_si_research_source_cascade.py:25-27 say them. *)
NotMerelyPresent == scenario = "research" => Research!NotMerelyPresent
NeverReused == scenario = "research" => Research!NeverReused

(* AdasSiResearch!PostedIsFinal and JobEnds: a job that runs ends with a record that
   says its result was posted, or the store failed under its driver, also across
   stops of Core, and runs no more (adas_si_research.py:971-1025, 1102-1191,
   1282-1312). *)
JobSettles == Research!PostedIsFinal /\ (scenario = "research" => Research!JobEnds)

(* MediaJobs!OneTenant and MediaTruth: the model and a ComfyUI of Core never share
   the GPUs, and a result is what happened (router.py:404-562,
   image_generation.py:684-1161, video_generation.py:1258-1904). *)
MediaTruth == scenario = "media" => Media!OneTenant /\ Media!MediaTruth

(* MediaJobs!GpusReturned: a request that has the GPUs gives them back
   (router.py:464-573). *)
GpusReturned == scenario = "media" => Media!GpusReturned

(* AdasMapSweep!Settles: a recorded sweep ends and its result is posted, through
   a crash, lost answers and a sign-in that never comes (adas_map_sweep.py:657-681,
   773-958, 1104-1134). *)
SweepSettles == scenario = "sweep" => Sweep!Settles

(* ChatSocket!StopReturns: Stop and the end of a socket come back (chat.py
   172-188, 500-508). *)
StopReturns == scenario = "window" => Window!StopReturns
=============================================================================
