---------------------------- MODULE MCConversation ----------------------------
(* The parts of Core that a browser talks to, and the page itself: each scenario   *)
(* lets one of them run on an instance of its own size.                         *)
EXTENDS TLC, Naturals, Sequences, FiniteSets

CONSTANTS s1, s2, k1, k2, u1, u2, f1, t1, t2, t3, p1, p2, o1, o2, g1, g2, g3, i1, i2, None

VARIABLES
    scenario,
    here, place, holding, answering, task, upload, blobs, messages,
    previews, revising, version, revised, subject,
    setup, owner, user, attempt, signed, grant, refreshing,
    stage, db, tx, installed, deaths,
    rows, listed, speaking, stray, upward, downward, online, opened, timeline, waiting,
    partial, asked, histories, left

\* One window and two uploads of one file; two windows and one upload.
Window == INSTANCE ChatSocket WITH Sockets <- {s1}, Owners <- {s1}, Slots <- {k1, k2},
            Uploads <- {u1, u2}, Files <- {f1}, MaxMessages <- 1,
            up <- here, at <- place, held <- holding, active <- answering
Windows == INSTANCE ChatSocket WITH Sockets <- {s1, s2}, Owners <- {s1}, Slots <- {k1},
            Uploads <- {u1}, Files <- {f1}, MaxMessages <- 2,
            up <- here, at <- place, held <- holding, active <- answering
\* Three turns on the previews; two turns on the subject.
Previews == INSTANCE ConversationMemory WITH Turns <- {t1, t2, t3}, Pages <- {p1, p2},
            MaxPreviews <- 3, Orders <- {}, MaxVersion <- 2, edit <- revising, result <- revised
Subjects == INSTANCE ConversationMemory WITH Turns <- {t1, t2}, Pages <- {},
            MaxPreviews <- 0, Orders <- {o1, o2}, MaxVersion <- 2, edit <- revising, result <- revised
\* Three accounts, two of them with the same address.
People == INSTANCE Identity WITH Accounts <- {g1, g2, g3},
            Email <- (g1 :> "e1" @@ g2 :> "e2" @@ g3 :> "e2"), Attempts <- {i1, i2}, session <- signed
\* An older installation of two rows in every table is opened, with two deaths.
Start == INSTANCE Migrations WITH Rows <- {k1, k2}, Captures <- {1, 3, 6}, MaxGap <- 2,
            MaxDeaths <- 2
\* The page stays in a conversation, with two messages, or one and a fault; or it opens others.
Allow(sends, drops, opens, fails, news, stops) ==
    [sends |-> sends, drops |-> drops, opens |-> opens, fails |-> fails, news |-> news, stops |-> stops]
Staying == INSTANCE Browser WITH Conversations <- {k1, k2}, Texts <- {"x", "y"},
            Budgets <- {Allow(2, 0, 0, 0, 0, 0), Allow(1, 0, 0, 1, 0, 1), Allow(1, 0, 0, 0, 1, 0),
                        Allow(1, 1, 0, 0, 0, 0)},
            stored <- rows, known <- listed, turn <- speaking, orphan <- stray, uplink <- upward,
            wire <- downward, up <- online, active <- opened, items <- timeline,
            thinking <- waiting, streaming <- partial, request <- asked, fetches <- histories
Opening == INSTANCE Browser WITH Conversations <- {k1, k2}, Texts <- {"x"},
            Budgets <- {Allow(1, 0, 1, 0, 0, 0), Allow(0, 0, 2, 0, 1, 0)},
            stored <- rows, known <- listed, turn <- speaking, orphan <- stray, uplink <- upward,
            wire <- downward, up <- online, active <- opened, items <- timeline,
            thinking <- waiting, streaming <- partial, request <- asked, fetches <- histories

socketVars == <<here, place, holding, answering, task, upload, blobs, messages>>
memoryVars == <<previews, revising, version, revised, subject>>
identityVars == <<setup, owner, user, attempt, signed, grant, refreshing>>
startVars == <<stage, db, tx, installed, deaths>>
pageVars == <<rows, listed, speaking, stray, upward, downward, online, opened, timeline,
              waiting, partial, asked, histories, left>>
restVars == <<startVars, pageVars>>
vars == <<scenario, socketVars, memoryVars, identityVars, restVars>>

NoStart == stage = None /\ db = None /\ tx = None /\ installed = None /\ deaths = None
NoPage == /\ rows = None /\ listed = None /\ speaking = None /\ stray = None /\ upward = None
          /\ downward = None /\ online = None /\ opened = None /\ timeline = None
          /\ waiting = None /\ partial = None /\ asked = None /\ histories = None /\ left = None

Init ==
    /\ \/ scenario \in {"window", "previews", "people"} /\ Window!Init /\ Previews!Init
       \/ scenario = "windows" /\ Windows!Init /\ Previews!Init
       \/ scenario = "subjects" /\ Window!Init /\ Subjects!Init
       \/ scenario = "start" /\ Window!Init /\ Previews!Init /\ Start!Init
       \/ scenario = "staying" /\ Window!Init /\ Previews!Init /\ Staying!Init
       \/ scenario = "opening" /\ Window!Init /\ Previews!Init /\ Opening!Init
    /\ People!Init
    /\ scenario # "start" => NoStart
    /\ scenario \notin {"staying", "opening"} => NoPage

Absent == /\ here = None /\ place = None /\ holding = None /\ answering = None
          /\ task = None /\ upload = None /\ blobs = None /\ messages = None
          /\ previews = None /\ revising = None /\ version = None /\ revised = None
          /\ subject = None /\ setup = None /\ owner = None /\ user = None
          /\ attempt = None /\ signed = None /\ grant = None /\ refreshing = None
          /\ NoStart /\ NoPage

Next ==
    /\ UNCHANGED scenario
    /\ \/ scenario = "window" /\ Window!Next /\ UNCHANGED <<memoryVars, identityVars, restVars>>
       \/ scenario = "windows" /\ Windows!Next /\ UNCHANGED <<memoryVars, identityVars, restVars>>
       \/ scenario = "previews" /\ Previews!Next /\ UNCHANGED <<socketVars, identityVars, restVars>>
       \/ scenario = "subjects" /\ Subjects!Next /\ UNCHANGED <<socketVars, identityVars, restVars>>
       \/ scenario = "people" /\ People!Next /\ UNCHANGED <<socketVars, memoryVars, restVars>>
       \/ scenario = "start" /\ Start!Next /\ UNCHANGED <<socketVars, memoryVars, identityVars, pageVars>>
       \/ /\ \/ scenario = "staying" /\ Staying!Next
             \/ scenario = "opening" /\ Opening!Next
          /\ UNCHANGED <<socketVars, memoryVars, identityVars, startVars>>

Spec == Init /\ [][Next]_vars

(* ChatSocket!OneWorker, SentOnce and FilesKept: a running task is the one Stop and the
   end of its socket reach; a file is sent once, from whichever window, and stays as
   long as a row names it (chat.py:63-84, 145-170, 440-466; main.py:89-112).
   Browser!NothingTwice and NothingMissing: in whatever order events and histories come,
   a page with nothing under way shows what is kept, once (conversationTimeline.js:448-486,
   useConversationContinuity.js:88-190). *)
SocketTruth ==
    /\ scenario = "window" => Window!OneWorker /\ Window!SentOnce /\ Window!FilesKept
    /\ scenario = "windows" => Windows!OneWorker /\ Windows!SentOnce /\ Windows!FilesKept
    /\ scenario = "staying" => Staying!NothingTwice /\ Staying!NothingMissing
    /\ scenario = "opening" => Opening!NothingTwice

(* ConversationMemory!Lineage and OwnEvidence: a revision was made from the head
   of its site, and the subject holds its own evidence (db.py:784-884,
   conversation_working_context.py:1253-1318).  Migrations!Current, NothingDiscarded,
   LegacyNeverRuns, BurstsAreMotions: an older database is opened whole, however often
   its start is interrupted (db.py:91-425). *)
MemoryTruth ==
    /\ scenario = "previews" => Previews!Lineage
    /\ scenario = "subjects" => Subjects!OwnEvidence
    /\ scenario = "start" => /\ Start!Current /\ Start!NothingDiscarded
                             /\ Start!LegacyNeverRuns /\ Start!BurstsAreMotions

(* ConversationMemory!SubjectAdvances: late answers and changes of the subject
   lose nothing newer (conversation_working_context.py:1253-1383). *)
SubjectAdvances == Subjects!SubjectAdvances

(* Identity!SessionsAreCurrent, GrantLasts and OneIdentity: no sign-in that was
   under way outlives a revocation, and the owner's grant can be renewed
   (auth.py:494-555, db.py:450-630). *)
IdentityTruth ==
    scenario = "people" => People!SessionsAreCurrent /\ People!GrantLasts /\ People!OneIdentity
=============================================================================
