-------------------------------- MODULE MCTurns --------------------------------
(* The rounds of a turn, what the results of its calls entitle it to, and the     *)
(* clients of ScrapeX and of the camera's recorder that some of them use: each      *)
(* scenario lets one of them run on an instance of its own size.                  *)
EXTENDS ChatTurn, TLC

CONSTANTS o1, o2, c1, c2, d1, b1, b2, None

VARIABLES
    scenario,
    orders, inquiry, child, listed, continued, nth, calls, pending, approval, cached,
    call_ciq, next_ciq, call_scrapex, next_scrapex, write, showing, coming, known,
    posted, doubtful,
    disk, checkouts, proc, rev, spawns, ours, reports, browser, signs, pdf, visible,
    client, carried, since, wasSigned,
    told, fact, reviewing, wording, validated, said,
    given, msgs, catalog, requests, fitted, limit, at,
    secret, token, logging, updating, place, asking, era, forgets, deaths, touched, dirty,
    recorded, detection, wanted, doing, span, frames, finding, lost

\* Two repair orders with one number; a read by the number finds neither.
Numbers == INSTANCE TurnEvidence WITH version <- orders, research <- inquiry, shown <- showing,
            round <- nth, phase <- pending, cache <- cached,
            Orders <- {o1, o2}, Number <- [o \in {o1, o2} |-> "n"], Targets <- {},
            Owner <- <<>>, Kind <- <<>>, Disputed <- {}, Ops <- {"change", "note"},
            Batches <- {}, MAX_TOOL_ROUNDS <- 3, MAX_TOOL_CALLS_PER_ROUND <- 2, MaxVersion <- 2
\* A calibration of one order and a document of another; deletions are approved.
Deletes == INSTANCE TurnEvidence WITH version <- orders, research <- inquiry, shown <- showing,
            round <- nth, phase <- pending, cache <- cached,
            Orders <- {o1, o2}, Number <- [o \in {o1, o2} |-> o], Targets <- {c1, d1},
            Owner <- (c1 :> o1 @@ d1 :> o2), Kind <- (c1 :> "calibration" @@ d1 :> "document"),
            Disputed <- {}, Ops <- {"delete"}, Batches <- {},
            MAX_TOOL_ROUNDS <- 2, MAX_TOOL_CALLS_PER_ROUND <- 2, MaxVersion <- 2
\* One order, a document of it that its answer shows in two versions.
Children == INSTANCE TurnEvidence WITH version <- orders, research <- inquiry, shown <- showing,
            round <- nth, phase <- pending, cache <- cached,
            Orders <- {o1}, Number <- (o1 :> "n"), Targets <- {c1, d1},
            Owner <- [t \in {c1, d1} |-> o1], Kind <- (c1 :> "calibration" @@ d1 :> "document"),
            Disputed <- {d1}, Ops <- {"research", "update", "link", "delete"}, Batches <- {},
            MAX_TOOL_ROUNDS <- 3, MAX_TOOL_CALLS_PER_ROUND <- 2, MaxVersion <- 2
\* Two batches of ScrapeX over four rounds.
Listings == INSTANCE TurnEvidence WITH version <- orders, research <- inquiry, shown <- showing,
            round <- nth, phase <- pending, cache <- cached,
            Orders <- {}, Number <- <<>>, Targets <- {}, Owner <- <<>>, Kind <- <<>>,
            Disputed <- {}, Ops <- {}, Batches <- {b1, b2},
            MAX_TOOL_ROUNDS <- 4, MAX_TOOL_CALLS_PER_ROUND <- 2, MaxVersion <- 1

\* An acquisition; any other call of the model; what a sweep asks for; two calls at once.
Acquire == INSTANCE ScrapeX WITH signed <- browser, file <- pdf, shown <- visible, own <- ours,
            call <- client, effects <- carried, Callers <- {c1}, Model <- {c1},
            Ops <- {"acquire_exact"}, Revisions <- {1, 2},
            MaxSpawns <- 1, MaxCheckouts <- 1, MaxSigns <- 2
Requests == INSTANCE ScrapeX WITH signed <- browser, file <- pdf, shown <- visible, own <- ours,
            call <- client, effects <- carried, Callers <- {c1}, Model <- {c1},
            Ops <- {"read", "open_authentication", "create_exact_batch", "create_phase_batch",
                    "process_one", "start_batch", "pause_batch"},
            Revisions <- {1, 2}, MaxSpawns <- 1, MaxCheckouts <- 1, MaxSigns <- 1
Swept == INSTANCE ScrapeX WITH signed <- browser, file <- pdf, shown <- visible, own <- ours,
            call <- client, effects <- carried, Callers <- {c1}, Model <- {},
            Ops <- {"ready", "create_exact_batch", "start_batch"}, Revisions <- {1, 2},
            MaxSpawns <- 1, MaxCheckouts <- 1, MaxSigns <- 2
Race == INSTANCE ScrapeX WITH signed <- browser, file <- pdf, shown <- visible, own <- ours,
            call <- client, effects <- carried, Callers <- {c1, c2}, Model <- {c1, c2},
            Ops <- {"pause_batch"}, Revisions <- {1, 2},
            MaxSpawns <- 2, MaxCheckouts <- 1, MaxSigns <- 0

\* An operator's batch and the audit of one order; the audit of two, and a background start.
Batched == INSTANCE TurnReport WITH call <- told, truth <- fact, phase <- reviewing,
            valid <- validated,
            Uses <- {c1, c2}, Kind <- (c1 :> "operator" @@ c2 :> "order"), Orders <- {o1},
            MaxActions <- 2
Weekly == INSTANCE TurnReport WITH call <- told, truth <- fact, phase <- reviewing,
            valid <- validated,
            Uses <- {c1, c2}, Kind <- (c1 :> "week" @@ c2 :> "start"), Orders <- {o1, o2},
            MaxActions <- 1

\* Lengths of what a turn starts with: nothing, something, or more than there is room for.
Card(whole, preview, excluded) ==
    [whole |-> whole, preview |-> preview, excluded |-> excluded]
Message(role, chars, cards) == [role |-> role, chars |-> chars, cards |-> cards]
Openings ==
    [window : {120, 137, 146, 154, 161, 170, 200}, system : {<<40, 30>>, <<100, 60>>},
     clock : {10}, research : {[core |-> n, parts |-> <<8, 9>>] : n \in {0, 12}},
     subject : {[whole |-> n, identity |-> IF n = 0 THEN 0 ELSE 15] : n \in {0, 45, 70}},
     history : {<<Message("user", 35, <<>>)>>,
                <<Message("user", 30, <<>>),
                  Message("assistant", 60, <<Card(20, 10, FALSE), Card(90, 20, FALSE)>>),
                  Message("user", 33, <<>>)>>,
                <<Message("assistant", 61, <<Card(20, 10, TRUE), Card(25, 20, FALSE),
                                             Card(30, 20, FALSE)>>),
                  Message("user", 74, <<>>)>>,
                <<Message("user", 30, <<>>), Message("assistant", 40, <<Card(5, 5, FALSE)>>),
                  Message("user", 10, <<>>),
                  Message("assistant", 22, <<Card(5, 5, FALSE), Card(7, 5, FALSE)>>)>>},
     tools : {20}, reserve : {20, 140}, extra : {0, 20}, review : {60}, escapes : {0}]
Long == {[window |-> 200, system |-> <<40, 30>>, clock |-> 10, review |-> 60, escapes |-> n,
          research |-> [core |-> 0, parts |-> <<>>], subject |-> [whole |-> 45, identity |-> 15],
          history |-> <<Message("user", 35, <<>>)>>, tools |-> 20, reserve |-> 140,
          extra |-> 0] : n \in {0, 1}}
Result(base, lists, of) ==
    [role |-> "tool", chars |-> 0, calls |-> 0, form |-> "json", base |-> base,
     lists |-> lists, of |-> of, omitted |-> [i \in DOMAIN lists |-> 0]]
Answers == {Result(12, <<8, 5>>, <<6, 9>>), Result(20, <<1>>, <<80>>),
            Result(15, <<0, 9>>, <<3, 7>>)}
\* Many openings; and three requests with long results.
Opening == INSTANCE Prompt WITH Turns <- Openings, Results <- Answers, MaxRequests <- 2,
            MaxCalls <- 1, Overhead <- 8, SubjectMax <- 60, ResearchMax <- 40, CardsMax <- 90,
            CardMax <- 60, MaxCards <- 2, ResultMax <- 90, ShrinkSteps <- <<60, 30, 16>>,
            Heading <- 8, Envelope <- 6, Notice <- 12, Wrapper <- 6, Room <- 8
Fitting == INSTANCE Prompt WITH Turns <- Long, Results <- Answers, MaxRequests <- 3,
            MaxCalls <- 2, Overhead <- 8, SubjectMax <- 60, ResearchMax <- 40, CardsMax <- 90,
            CardMax <- 60, MaxCards <- 2, ResultMax <- 90, ShrinkSteps <- <<60, 30, 16>>,
            Heading <- 8, Envelope <- 6, Notice <- 12, Wrapper <- 6, Room <- 8

\* A credential is registered while two calls read; and while the script registers one.
Camera == INSTANCE FrigateSession WITH at <- place, call <- asking, Clients <- {"core"},
            Script <- "script", Registrations <- {"r1"}, Reads <- {"q1", "q2"},
            Home <- [c \in {"r1", "q1", "q2"} |-> "core"],
            Credentials <- {"old", "new", "typo"}, Valid <- {"old", "new"}, First <- "old",
            MAX_LOGIN_ATTEMPTS_PER_CALL <- 1, MaxLapses <- 1, MaxForgets <- 1, MaxDeaths <- 0
Script == INSTANCE FrigateSession WITH at <- place, call <- asking,
            Clients <- {"core", "script"}, Script <- "script",
            Registrations <- {"r1", "r2"}, Reads <- {"q1"},
            Home <- [c \in {"r1", "r2", "q1"} |-> IF c = "r2" THEN "script" ELSE "core"],
            Credentials <- {"new", "typo"}, Valid <- {"new"}, First <- None,
            MAX_LOGIN_ATTEMPTS_PER_CALL <- 1, MaxLapses <- 0, MaxForgets <- 0, MaxDeaths <- 1
\* Every question about four cells of footage.
Seen == INSTANCE Footage WITH review <- detection, ask <- wanted, step <- doing,
            range <- span, answer <- finding, Length <- 4, MaxAnalysis <- 3, MaxPlayback <- 4,
            MaxSeek <- 1, MIN_SAMPLES <- 2, MAX_SAMPLES <- 3, OPEN_EVENT <- 2, MaxLost <- 1

evidenceVars == <<orders, inquiry, child, listed, continued, nth, calls, pending, approval,
                  cached, call_ciq, next_ciq, call_scrapex, next_scrapex, write, showing,
                  coming, known, posted, doubtful>>
scrapexVars == <<disk, checkouts, proc, rev, spawns, ours, reports, browser, signs, pdf,
                 visible, client, carried, since, wasSigned>>
reportVars == <<told, fact, reviewing, wording, validated, said>>
promptVars == <<given, msgs, catalog, requests, fitted, limit, at>>
sessionVars == <<secret, token, logging, updating, place, asking, era, forgets, deaths,
                 touched, dirty>>
footageVars == <<recorded, detection, wanted, doing, span, frames, finding, lost>>
cameraVars == <<sessionVars, footageVars>>
turnVars == vars
allVars == <<scenario, turnVars, evidenceVars, scrapexVars, reportVars, promptVars, cameraVars>>

NoEvidence ==
    /\ orders = None /\ inquiry = None /\ child = None /\ listed = None /\ continued = None
    /\ nth = None /\ calls = None /\ pending = None /\ approval = None /\ cached = None
    /\ call_ciq = None /\ next_ciq = None /\ call_scrapex = None /\ next_scrapex = None
    /\ write = None /\ showing = None /\ coming = None /\ known = None /\ posted = None
    /\ doubtful = None
NoScrapeX ==
    /\ disk = None /\ checkouts = None /\ proc = None /\ rev = None /\ spawns = None
    /\ ours = None /\ reports = None /\ browser = None /\ signs = None /\ pdf = None
    /\ visible = None /\ client = None /\ carried = None /\ since = None /\ wasSigned = None
NoReport == /\ told = None /\ fact = None /\ reviewing = None /\ wording = None
            /\ validated = None /\ said = None
NoPrompt == /\ given = None /\ msgs = None /\ catalog = None /\ requests = None
            /\ fitted = None /\ limit = None /\ at = None
NoSession == /\ secret = None /\ token = None /\ logging = None /\ updating = None
             /\ place = None /\ asking = None /\ era = None /\ forgets = None
             /\ deaths = None /\ touched = None /\ dirty = None
NoFootage == /\ recorded = None /\ detection = None /\ wanted = None /\ doing = None
             /\ span = None /\ frames = None /\ finding = None /\ lost = None
NoCamera == NoSession /\ NoFootage
NoTurn ==
    /\ ro = None /\ origin = None /\ phase = None /\ batch = None /\ deferred = None
    /\ open = None /\ repeated = None /\ usable = None /\ next = None /\ reads = None
    /\ cache = None /\ operator = None /\ started = None /\ searched = None /\ paused = None
    /\ sealed = None /\ round = None /\ repeat_only_round = None
    /\ post_tool_review_done = None /\ truth_emitted = None /\ draft = None /\ out = None
    /\ full_text = None /\ seen = None /\ partial = None /\ saved = None /\ outcome = None
    /\ own = None /\ shown = None /\ writes = None

MCInit ==
    \/ scenario = "turn" /\ Init /\ NoEvidence /\ NoScrapeX /\ NoReport /\ NoPrompt /\ NoCamera
    \/ /\ \/ scenario = "numbers" /\ Numbers!Init
          \/ scenario = "deletes" /\ Deletes!Init
          \/ scenario = "children" /\ Children!Init
          \/ scenario = "batches" /\ Listings!Init
       /\ NoTurn /\ NoScrapeX /\ NoReport /\ NoPrompt /\ NoCamera
    \/ /\ \/ scenario = "acquire" /\ Acquire!Init
          \/ scenario = "calls" /\ Requests!Init
          \/ scenario = "swept" /\ Swept!Init
          \/ scenario = "race" /\ Race!Init
       /\ NoTurn /\ NoEvidence /\ NoReport /\ NoPrompt /\ NoCamera
    \/ /\ \/ scenario = "report" /\ Batched!Init
          \/ scenario = "week" /\ Weekly!Init
       /\ NoTurn /\ NoEvidence /\ NoScrapeX /\ NoPrompt /\ NoCamera
    \/ /\ \/ scenario = "opening" /\ Opening!Init
          \/ scenario = "fitting" /\ Fitting!Init
       /\ NoTurn /\ NoEvidence /\ NoScrapeX /\ NoReport /\ NoCamera
    \/ /\ \/ scenario = "camera" /\ Camera!Init /\ NoFootage
          \/ scenario = "script" /\ Script!Init /\ NoFootage
          \/ scenario = "footage" /\ Seen!Init /\ NoSession
       /\ NoTurn /\ NoEvidence /\ NoScrapeX /\ NoReport /\ NoPrompt

MCNext ==
    /\ UNCHANGED scenario
    /\ \/ scenario = "turn" /\ Next
          /\ UNCHANGED <<evidenceVars, scrapexVars, reportVars, promptVars, cameraVars>>
       \/ /\ \/ scenario = "numbers" /\ Numbers!Next
             \/ scenario = "deletes" /\ Deletes!Next
             \/ scenario = "children" /\ Children!Next
             \/ scenario = "batches" /\ Listings!Next
          /\ UNCHANGED <<turnVars, scrapexVars, reportVars, promptVars, cameraVars>>
       \/ /\ \/ scenario = "acquire" /\ Acquire!Next
             \/ scenario = "calls" /\ Requests!Next
             \/ scenario = "swept" /\ Swept!Next
             \/ scenario = "race" /\ Race!Next
          /\ UNCHANGED <<turnVars, evidenceVars, reportVars, promptVars, cameraVars>>
       \/ /\ \/ scenario = "report" /\ Batched!Next
             \/ scenario = "week" /\ Weekly!Next
          /\ UNCHANGED <<turnVars, evidenceVars, scrapexVars, promptVars, cameraVars>>
       \/ /\ \/ scenario = "opening" /\ Opening!Next
             \/ scenario = "fitting" /\ Fitting!Next
          /\ UNCHANGED <<turnVars, evidenceVars, scrapexVars, reportVars, cameraVars>>
       \/ /\ \/ scenario = "camera" /\ Camera!Next /\ UNCHANGED footageVars
             \/ scenario = "script" /\ Script!Next /\ UNCHANGED footageVars
             \/ scenario = "footage" /\ Seen!Next /\ UNCHANGED sessionVars
          /\ UNCHANGED <<turnVars, evidenceVars, scrapexVars, reportVars, promptVars>>

MCSpec == MCInit /\ [][MCNext]_allVars

(* ChatTurn!TranscriptTruth, MutationReviewed;
   TurnReport!ReportTruth: what was seen is saved and every call answered; a mutation is
   reported by one reviewed text, or by a line that is true (loop.py:413-721, 1977-2087,
   2519-3156; chat.py:163-203; registry.py:3918-4104). *)
TurnSpeaksTruth ==
    /\ scenario = "turn" => TranscriptTruth /\ MutationReviewed
    /\ scenario = "report" => Batched!ReportTruth
    /\ scenario = "week" => Weekly!ReportTruth

(* OneReadOneWrite, FreshReads; FrigateSession!SessionTruth; Footage!FootageTruth: a read
   admits one write, of a later round, and shows the turn's own writes; and what a turn
   reads of the camera comes through a session of the stored credential, which was tried
   before it replaced the old one, and is told as far as the recorder held it
   (loop.py:3188-3281; frigate_client.py:313-610; camera_security.py:292-720). *)
TurnReadsTruth ==
    /\ scenario = "turn" => OneReadOneWrite /\ FreshReads
    /\ scenario = "camera" => Camera!SessionTruth
    /\ scenario = "script" => Script!SessionTruth
    /\ scenario = "footage" => Seen!FootageTruth

(* TurnEvidence!WritesWhatWasShown, ApprovalStillBinds, ControlsWhatIsCertain: a write
   carries an order, child and version that one earlier read returned, an approval binds
   its action again, and a control in doubt is not repeated
   (registry.py:424-603, 894-1612, 4508-4960; loop.py:2520-2919). *)
TurnEntitles ==
    [][/\ scenario = "numbers" => Numbers!WritesWhatWasShown
       /\ scenario = "deletes" => Deletes!WritesWhatWasShown /\ Deletes!ApprovalStillBinds'
       /\ scenario = "children" => Children!WritesWhatWasShown /\ Children!ApprovalStillBinds'
       /\ scenario = "batches" => Listings!ControlsWhatIsCertain]_allVars

(* ScrapeX!OneBatchPerCall, SignInFirst, ServedByCurrent, CompletedIsReal, DoubtIsTold:
   a call makes one batch at most, and none before the sign-in; a runtime of the checked
   out revision serves it; it is completed when Calibration IQ shows the map, and failed
   when nothing was done (scrapex.py:914-1107, 1923-2563, 2672-2846). *)
AcquisitionTruth ==
    [][/\ scenario = "acquire" =>
             /\ Acquire!OneBatchPerCall' /\ Acquire!SignInFirst' /\ Acquire!ServedByCurrent
             /\ Acquire!CompletedIsReal /\ Acquire!DoubtIsTold
       /\ scenario = "calls" =>
             Requests!SignInFirst' /\ Requests!ServedByCurrent /\ Requests!DoubtIsTold
       /\ scenario = "swept" => Swept!ServedByCurrent /\ Swept!DoubtIsTold
       /\ scenario = "race" => Race!ServedByCurrent /\ Race!DoubtIsTold]_allVars

(* Prompt!StartFits, FitsOrNothingLeft, OmissionsCounted, CardsTold, ResearchStays: what
   is put before the model fits its window, beside every catalog the turn may unlock, as
   far as results can be cut; and what was left out of it is told
   (prompt.py:361-888; loop.py:1376-1431, 1719-1799, 2188-2222). *)
PromptFits ==
    /\ scenario = "opening" => /\ Opening!StartFits /\ Opening!FitsOrNothingLeft
                               /\ Opening!CardsTold /\ Opening!ResearchStays
    /\ scenario = "fitting" => Fitting!FitsOrNothingLeft /\ Fitting!OmissionsCounted

(* Prompt!NewestIsAsked, AlwaysWhole, as prompt.py:786 and loop.py:1401 say it; no run
   checks them. *)
NewestIsAsked == scenario = "opening" => Opening!NewestIsAsked
AlwaysWhole == scenario = "fitting" => Fitting!AlwaysWhole

(* FrigateSession!VerifiedIsTried, as frigate_client.py:341 says it; Footage!LabelsAlwaysTrue,
   PartialIsTold, as camera_security.py:119 and frigate_surveillance.py:245 say it; no run
   checks them. *)
VerifiedIsTried == scenario = "camera" => Camera!VerifiedIsTried
LabelsAlwaysTrue == scenario = "footage" => Seen!LabelsAlwaysTrue
PartialIsTold == scenario = "footage" => Seen!PartialIsTold

(* ScrapeX!MintingRefused, as scrapex.py:77-82 says it. *)
MintingRefused == scenario = "calls" => Requests!MintingRefused

(* ScrapeX!DoubtAlwaysTold, as scrapex.py:1023-1027 says it; no run checks it. *)
DoubtAlwaysTold == [][scenario = "calls" => Requests!DoubtAlwaysTold]_allVars

(* TurnReport!DoubtOutranks, FailedIsTrue, as loop.py:668-670 and truth_review.py:62 say
   it; no run checks them. *)
DoubtOutranks == scenario = "report" => Batched!DoubtOutranks
FailedIsTrue == scenario = "report" => Batched!FailedIsTrue
=============================================================================
