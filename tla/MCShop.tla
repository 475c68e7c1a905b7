-------------------------------- MODULE MCShop --------------------------------
(* The shop's records: the board of Calibration IQ, one operator call on it, the *)
(* readiness audit of the week, the library of service information, and what X    *)
(* learns from it.  Each scenario lets one of them run on an instance of its own  *)
(* size.                                                                         *)
EXTENDS TLC, Naturals, Sequences, FiniteSets

CONSTANTS r1, r2, r3, k1, k2, m1, m2, c1, c2, d1, d2, v1, v2,
          a1, a2, o1, o2, i1, i2, static, unknown, None

VARIABLES
    scenario,
    board, read, moments, gained, lost, changes,
    case, required, docs, ro, done, call, wire, effects, touched,
    item, research, record, maps, cover, audit, queue, others,
    held, replaced, records, sources, evidence, learn, edit,
    file, sidecar, pages, catalog, clock, dropped, gone, filer, filings, scan, scans, reader

boardVars == <<board, read, moments, gained, lost, changes>>
operatorVars == <<case, required, docs, ro, done, call, wire, effects, touched>>
auditVars == <<item, research, record, maps, cover, audit, queue, others>>
knowledgeVars == <<held, replaced, records, sources, evidence, learn, edit>>
libraryVars == <<file, sidecar, pages, catalog, clock, dropped, gone,
                 filer, filings, scan, scans, reader>>
work == <<boardVars, operatorVars, auditVars>>
shelf == <<knowledgeVars, libraryVars>>
vars == <<scenario, work, shelf>>

-----------------------------------------------------------------------------
\* Three rows, two of them with the number that is asked for, over two pages; the numbers
\* of two of one shop end with the same digits.
Board == INSTANCE CiqBoard WITH Rows <- {r1, r2, r3}, InPhase <- {r1, r3}, Wanted <- "x",
            Number <- (r1 :> "x" @@ r2 :> "x" @@ r3 :> "y"), Digits <- "z",
            Ending <- {r1, r3}, Limit <- 2, MaxChanges <- 2,
            PAGE_SIZE <- 2, MAX_COLLECT <- 3, MAX_PAGE_REQUESTS <- 3

Shows(at1, at2, seen, fresh) ==
    [supports |-> [c \in {c1, c2} |-> IF c = c1 THEN at1 ELSE at2],
     seen |-> seen, fresh |-> fresh]

\* One completion of the research, with documents for both calibrations, or contested.
Research == INSTANCE CiqOperator WITH Calls <- {k1}, Message <- (k1 :> m1),
            Kind <- (k1 :> "research"), Cals <- {c1, c2}, Docs <- {d1, d2}, Vins <- {},
            MaxTouch <- 1,
            Findings <- {Shows({d1}, {}, {}, {}), Shows({d1}, {d2}, {}, {}),
                         Shows({d1, d2}, {}, {}, {}), Shows({}, {}, {d1}, {d1})}
\* The completion repeated in the same message.
Again == INSTANCE CiqOperator WITH Calls <- {k1, k2}, Message <- (k1 :> m1 @@ k2 :> m1),
            Kind <- (k1 :> "research" @@ k2 :> "research"), Cals <- {c1}, Docs <- {d1},
            Vins <- {}, MaxTouch <- 1,
            Findings <- {[supports |-> [c \in {c1} |-> {d1}], seen |-> {}, fresh |-> {}],
                         [supports |-> [c \in {c1} |-> {}], seen |-> {d1}, fresh |-> {d1}]}
\* The VIN set from the attached map while a note is written, and a note sent twice.
Vin == INSTANCE CiqOperator WITH Calls <- {k1, k2}, Message <- (k1 :> m1 @@ k2 :> m2),
            Kind <- (k1 :> "vin" @@ k2 :> "note"), Cals <- {}, Docs <- {},
            Vins <- {v1, v2}, MaxTouch <- 1, Findings <- {}
Notes == INSTANCE CiqOperator WITH Calls <- {k1, k2}, Message <- (k1 :> m1 @@ k2 :> m1),
            Kind <- (k1 :> "note" @@ k2 :> "note"), Cals <- {}, Docs <- {}, Vins <- {},
            MaxTouch <- 1, Findings <- {}

Front == {[cal |-> c1, method |-> static]}
\* One audit that acquires, while others work on the order.
Week == INSTANCE WorkPrep WITH Audits <- {a1}, Conversation <- [a \in {a1} |-> m1],
            Executing <- {a1}, Unbound <- {}, Orders <- {o1}, Ids <- {i1, i2}, Cals <- {c1},
            Governs <- [o \in {o1} |-> Front], Methods <- {static}, Unknown <- unknown,
            MAX_QUEUE_ITEMS <- 1, MAX_STORED_CONVERSATIONS <- 1, MaxOthers <- 2
\* An audit repeated in the conversation; the first acquires.
Repeated == INSTANCE WorkPrep WITH Audits <- {a1, a2}, Conversation <- [a \in {a1, a2} |-> m1],
            Executing <- {a1}, Unbound <- {}, Orders <- {o1}, Ids <- {i1, i2}, Cals <- {c1},
            Governs <- [o \in {o1} |-> Front], Methods <- {static}, Unknown <- unknown,
            MAX_QUEUE_ITEMS <- 1, MAX_STORED_CONVERSATIONS <- 1, MaxOthers <- 0
\* Two conversations audit one order at once; one of them has no identity of its turn
\* in "Orders", where two orders, one without any calibration, exceed the capacity.
Together == INSTANCE WorkPrep WITH Audits <- {a1, a2},
            Conversation <- [a \in {a1, a2} |-> IF a = a1 THEN m1 ELSE m2], Executing <- {},
            Unbound <- {}, Orders <- {o1}, Ids <- {i1}, Cals <- {c1},
            Governs <- [o \in {o1} |-> Front], Methods <- {static}, Unknown <- unknown,
            MAX_QUEUE_ITEMS <- 1, MAX_STORED_CONVERSATIONS <- 1, MaxOthers <- 0
TwoOrders == INSTANCE WorkPrep WITH Audits <- {a1}, Conversation <- [a \in {a1} |-> m1],
            Executing <- {}, Unbound <- {a1}, Orders <- {o1, o2}, Ids <- {i1}, Cals <- {c1},
            Governs <- [o \in {o1, o2} |-> IF o = o1 THEN Front ELSE {}],
            Methods <- {static}, Unknown <- unknown, MAX_QUEUE_ITEMS <- 2,
            MAX_STORED_CONVERSATIONS <- 1, MaxOthers <- 0

\* Two tasks research one claim in one file, which is replaced twice.
Learn == INSTANCE AutomotiveKnowledge WITH file <- held, changes <- replaced, call <- edit,
            Records <- {r1}, Files <- {"f"}, Contents <- {"u", "v"}, Learners <- {k1, k2},
            Claim <- [l \in {k1, k2} |-> r1], Reads <- [l \in {k1, k2} |-> "f"],
            Callers <- {}, Ops <- {}, Drafts <- {}, MaxChanges <- 2, Quiet <- TRUE
Draft(auth, extracted, status) == [file |-> "f", sha |-> "u", text |-> "u", auth |-> auth,
                                   extracted |-> extracted, status |-> status]
\* One task, while two callers store, add, review and promote.
Edit == INSTANCE AutomotiveKnowledge WITH file <- held, changes <- replaced, call <- edit,
            Records <- {r1}, Files <- {"f"}, Contents <- {"u", "v"}, Learners <- {k1},
            Claim <- [l \in {k1} |-> r1], Reads <- [l \in {k1} |-> "f"],
            Callers <- {c1, c2}, Ops <- {"store", "add", "review", "promote"},
            Drafts <- {Draft(TRUE, TRUE, "verified"), Draft(TRUE, TRUE, "unverified"),
                       Draft(FALSE, TRUE, "unverified"), Draft(TRUE, FALSE, "unverified")},
            MaxChanges <- 1, Quiet <- FALSE
\* Three claims, learned and replaced by one another.
Supersede == INSTANCE AutomotiveKnowledge WITH file <- held, changes <- replaced, call <- edit,
            Records <- {r1, r2, r3}, Files <- {"f"}, Contents <- {"u", "v"},
            Learners <- {k1, k2, m1},
            Claim <- [l \in {k1, k2, m1} |-> IF l = k1 THEN r1 ELSE IF l = k2 THEN r2 ELSE r3],
            Reads <- [l \in {k1, k2, m1} |-> "f"], Callers <- {c1, c2},
            Ops <- {"supersede"}, Drafts <- {}, MaxChanges <- 1, Quiet <- FALSE

\* Three documents under two names; two belong to one place under one name.
Named == ("da" :> "x" @@ "db" :> "x" @@ "dc" :> "y")
Placed == ("da" :> [folder |-> "A", name |-> "z"] @@ "db" :> [folder |-> "B", name |-> "x"]
           @@ "dc" :> [folder |-> "A", name |-> "z"])
Told == ("da" :> "text" @@ "db" :> "sidecar" @@ "dc" :> "name")
Shelf == INSTANCE Library WITH Docs <- {"da", "db", "dc"}, Name <- Named, Place <- Placed,
            Tells <- Told, Readers <- {}, Careful <- TRUE, MaxScans <- 1, MaxFilings <- 2
\* One name used twice, with a search that reads pages.
Reuse == INSTANCE Library WITH Docs <- {"da", "db"}, Name <- Named, Place <- Placed,
            Tells <- Told, Readers <- {1}, Careful <- FALSE, MaxScans <- 1, MaxFilings <- 1
Search == INSTANCE Library WITH Docs <- {"da", "db"}, Name <- Named, Place <- Placed,
            Tells <- Told, Readers <- {1}, Careful <- TRUE, MaxScans <- 1, MaxFilings <- 1

-----------------------------------------------------------------------------
NoBoard == /\ board = None /\ read = None /\ moments = None
           /\ gained = None /\ lost = None /\ changes = None
NoCall == /\ case = None /\ required = None /\ docs = None /\ ro = None /\ done = None
          /\ call = None /\ wire = None /\ effects = None /\ touched = None
NoAudit == /\ item = None /\ research = None /\ record = None /\ maps = None
           /\ cover = None /\ audit = None /\ queue = None /\ others = None
NoWork == NoBoard /\ NoCall /\ NoAudit
NoKnowledge == /\ held = None /\ replaced = None /\ records = None /\ sources = None
               /\ evidence = None /\ learn = None /\ edit = None
NoLibrary == /\ file = None /\ sidecar = None /\ pages = None /\ catalog = None
             /\ clock = None /\ dropped = None /\ gone = None /\ filer = None
             /\ filings = None /\ scan = None /\ scans = None /\ reader = None
Absent == NoWork /\ NoKnowledge /\ NoLibrary

WorkInit ==
    \/ scenario = "board" /\ Board!Init /\ NoCall /\ NoAudit
    \/ /\ \/ scenario = "research" /\ Research!Init
          \/ scenario = "again" /\ Again!Init
          \/ scenario = "vin" /\ Vin!Init
          \/ scenario = "notes" /\ Notes!Init
       /\ NoBoard /\ NoAudit
    \/ /\ \/ scenario = "week" /\ Week!Init
          \/ scenario = "repeated" /\ Repeated!Init
          \/ scenario = "together" /\ Together!Init
          \/ scenario = "orders" /\ TwoOrders!Init
       /\ NoBoard /\ NoCall

KnowledgeInit == \/ scenario = "learn" /\ Learn!Init
                 \/ scenario = "edit" /\ Edit!Init
                 \/ scenario = "supersede" /\ Supersede!Init
LibraryInit == \/ scenario = "shelf" /\ Shelf!Init
               \/ scenario = "reuse" /\ Reuse!Init
               \/ scenario = "search" /\ Search!Init
Init == \/ WorkInit /\ NoKnowledge /\ NoLibrary
        \/ KnowledgeInit /\ NoWork /\ NoLibrary
        \/ LibraryInit /\ NoWork /\ NoKnowledge

WorkNext ==
       \/ scenario = "board" /\ Board!Next /\ UNCHANGED <<operatorVars, auditVars>>
       \/ /\ \/ scenario = "research" /\ Research!Next
             \/ scenario = "again" /\ Again!Next
             \/ scenario = "vin" /\ Vin!Next
             \/ scenario = "notes" /\ Notes!Next
          /\ UNCHANGED <<boardVars, auditVars>>
       \/ /\ \/ scenario = "week" /\ Week!Next
             \/ scenario = "repeated" /\ Repeated!Next
             \/ scenario = "together" /\ Together!Next
             \/ scenario = "orders" /\ TwoOrders!Next
          /\ UNCHANGED <<boardVars, operatorVars>>

KnowledgeNext == \/ scenario = "learn" /\ Learn!Next
                 \/ scenario = "edit" /\ Edit!Next
                 \/ scenario = "supersede" /\ Supersede!Next
LibraryNext == \/ scenario = "shelf" /\ Shelf!Next
               \/ scenario = "reuse" /\ Reuse!Next
               \/ scenario = "search" /\ Search!Next
Next == /\ UNCHANGED scenario
        /\ \/ WorkNext /\ UNCHANGED shelf
           \/ KnowledgeNext /\ UNCHANGED <<work, libraryVars>>
           \/ LibraryNext /\ UNCHANGED <<work, knowledgeVars>>

Spec == Init /\ [][Next]_vars

-----------------------------------------------------------------------------
(* CiqBoard!ReadIsTrue, ZeroExplained: what is read over pages that all report a total
   was the board at one moment of the read, unless a row left and another came; what is
   read without one has every record that stayed, unless a row left; and a zero that a
   filter made is explained by an empty board (calibration_iq.py:645-658, 758-929,
   661-724). *)
BoardTruth == scenario = "board" => Board!ReadIsTrue /\ Board!ZeroExplained

(* CiqOperator!IntentOnce, OnWhatWasRead, SuccessIsReal: an intent of a message takes
   effect once whatever is retried, the research is completed, and the VIN set, only on
   the case that was read, and a call reported as proved took effect as reported
   (calibration_iq.py:2146-2182, 2773-2812, 3239-3393). *)
OperatorTruth ==
    /\ scenario = "research" =>
          Research!IntentOnce /\ Research!OnWhatWasRead /\ Research!SuccessIsReal
    /\ scenario = "again" => Again!IntentOnce /\ Again!OnWhatWasRead /\ Again!SuccessIsReal
    /\ scenario = "vin" => Vin!IntentOnce /\ Vin!OnWhatWasRead /\ Vin!SuccessIsReal
    /\ scenario = "notes" => Notes!IntentOnce

(* WorkPrep!ReadyIsTrue, EditsOpenResearch, OneItemPerCalibration, QueueIsLastAudit:
   an order is ready on a reading that agrees with the map and is younger than the
   audit's last change; the requirements of completed research are edited only after
   a proved reopen; repeated audits add an item once; the queue is the last audit's
   (calibration_iq_work_prep.py:448-559, 1190-1422, 2663-2720, 3153-3220). *)
AuditTruth ==
    /\ scenario = "week" => Week!ReadyIsTrue /\ Week!EditsOpenResearch
    /\ scenario = "repeated" => /\ Repeated!ReadyIsTrue /\ Repeated!EditsOpenResearch
                                /\ Repeated!OneItemPerCalibration /\ Repeated!QueueIsLastAudit
    /\ scenario = "together" => /\ Together!ReadyIsTrue /\ Together!EditsOpenResearch
                                /\ Together!QueueIsLastAudit
    /\ scenario = "orders" => /\ TwoOrders!ReadyIsTrue /\ TwoOrders!EditsOpenResearch
                              /\ TwoOrders!QueueIsLastAudit

(* AutomotiveKnowledge!VerifiedIsGrounded: a verified record has verified evidence from
   an authoritative source, and a superseded one leads to a verified one
   (automotive_knowledge.py:879-932, 1707-1771). *)
KnowledgeTruth ==
    /\ scenario = "learn" => Learn!VerifiedIsGrounded
    /\ scenario = "edit" => Edit!VerifiedIsGrounded
    /\ scenario = "supersede" => Supersede!VerifiedIsGrounded

(* WorkPrep!RecordsProven; AutomotiveKnowledge!TrustIsFresh, OnWhatWasRead,
   ToldIsCurrent: an open missing-SI record changes only on what the library was found to
   have, or not to have; trust is given on a hash that is current, changes are made on the
   version that was read, and what is recalled is the text as it is
   (calibration_iq_work_prep.py:562-617; automotive_knowledge.py:1121-1157, 1480-1596,
   1804-1936). *)
TrustIsEarned ==
    [][/\ scenario = "repeated" => Repeated!RecordsProven
       /\ scenario = "together" => Together!RecordsProven
       /\ scenario = "learn" =>
             Learn!TrustIsFresh /\ Learn!OnWhatWasRead /\ Learn!ToldIsCurrent
       /\ scenario = "edit" => Edit!TrustIsFresh /\ Edit!OnWhatWasRead
       /\ scenario = "supersede" => Supersede!TrustIsFresh /\ Supersede!OnWhatWasRead]_vars

(* Library!PagesAreOfFile, RowsAreOfFile, NothingLost, FiledAsProven: cached pages and
   rows describe the file that is there, and filing loses nothing and files a document
   where it belongs (adas_si.py:893-969, adas_artifact_catalog.py:809-1099,
   adas_storage.py:230-478). *)
LibraryTruth ==
    /\ scenario = "shelf" => /\ Shelf!RowsAreOfFile /\ Shelf!NothingLost
                             /\ Shelf!FiledAsProven
    /\ scenario = "reuse" => Reuse!PagesAreOfFile /\ Reuse!RowsAreOfFile /\ Reuse!NothingLost
    /\ scenario = "search" => /\ Search!PagesAreOfFile /\ Search!RowsAreOfFile
                              /\ Search!NothingLost /\ Search!FiledAsProven

(* CiqBoard!ChangingNeverAuthorizes, as calibration_iq.py:1893 says it. *)
ChangingNeverAuthorizes == scenario = "board" => Board!ChangingNeverAuthorizes

(* CiqBoard!EmptyProvesTheEnd, as calibration_iq.py:770-773 says it. *)
EmptyProvesTheEnd == scenario = "board" => Board!EmptyProvesTheEnd

(* CiqOperator!EvidenceFirst, as calibration_iq.py:3016 says it. *)
EvidenceFirst == scenario = "research" => Research!EvidenceFirst
=============================================================================
