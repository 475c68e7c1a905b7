-------------------------------- MODULE MCCore --------------------------------
(* What Core keeps, in one run: the records of the shop (MCShop), and those of    *)
(* conversations and people (MCConversation).  A scenario of the one runs while   *)
(* the other is left alone.                                                      *)
EXTENDS TLC, Naturals

CONSTANTS r1, r2, r3, k1, k2, m1, m2, c1, c2, d1, d2, v1, v2, a1, a2, o1, o2, i1, i2,
          static, unknown, None, s1, s2, u1, u2, f1, t1, t2, t3, p1, p2, g1, g2, g3


VARIABLES
    scenario,
    board, read, moments, gained, lost, changes, case, required, docs, ro, done, call,
    wire, effects, touched, item, research, record, maps, cover, audit, queue, others,
    held, replaced, records, sources, evidence, learn, edit, file, sidecar, pages,
    catalog, clock, dropped, gone, filer, filings, scan, scans, reader,
    here, place, holding, answering, task, upload, blobs, messages, previews, revising,
    version, revised, subject, setup, owner, user, attempt, signed, grant, refreshing,
    stage, db, tx, installed, deaths, rows, listed, speaking, stray, upward, downward,
    online, opened, timeline, waiting, partial, asked, histories, left

Shop == INSTANCE MCShop
Talk == INSTANCE MCConversation

\* What is absent is no account, order, calibration, VIN, item, grant, result or subject.
ASSUME Names ==
    LET Named == {o1, o2, None} IN
    None \notin {g1, g2, g3} \cup {o1, o2} \cup {c1} \cup {v1, v2} \cup {i1, i2}
        \cup [account : {g1, g2, g3}, refresh : BOOLEAN]
        \cup [tool : {"ciq", "map", "prep", "list", "research", "evidence"},
               order : Named, version : Nat]
        \cup [order : Named, version : Nat,
              sections : UNION {[D -> Named] : D \in SUBSET Talk!Subjects!Sections}]

shopVars == <<board, read, moments, gained, lost, changes, case, required, docs, ro, done,
              call, wire, effects, touched, item, research, record, maps, cover, audit,
              queue, others, held, replaced, records, sources, evidence, learn, edit,
              file, sidecar, pages, catalog, clock, dropped, gone, filer, filings, scan,
              scans, reader>>
talkVars == <<here, place, holding, answering, task, upload, blobs, messages, previews,
              revising, version, revised, subject, setup, owner, user, attempt, signed,
              grant, refreshing, stage, db, tx, installed, deaths, rows, listed, speaking,
              stray, upward, downward, online, opened, timeline, waiting, partial, asked,
              histories, left>>
vars == <<scenario, shopVars, talkVars>>

Init == \/ Shop!Init /\ Talk!Absent
        \/ Talk!Init /\ Shop!Absent

Next == \/ Shop!Next /\ UNCHANGED talkVars
        \/ Talk!Next /\ UNCHANGED shopVars

Spec == Init /\ [][Next]_vars

(* CiqBoard!ReadIsTrue, ZeroExplained; CiqOperator!IntentOnce, OnWhatWasRead,
   SuccessIsReal: what is read of the board was the board, an intent takes effect once
   and on the case that was read (calibration_iq.py:661-929, 2146-3393). *)
BoardTruth == Shop!BoardTruth
OperatorTruth == Shop!OperatorTruth

(* WorkPrep!ReadyIsTrue, EditsOpenResearch, OneItemPerCalibration, QueueIsLastAudit: an
   order is ready on a true and young reading, repeated audits add an item once
   (calibration_iq_work_prep.py:448-559, 1190-1422, 2663-3220). *)
AuditTruth == Shop!AuditTruth

(* AutomotiveKnowledge!VerifiedIsGrounded; Library!PagesAreOfFile, RowsAreOfFile,
   NothingLost, FiledAsProven: a verified record has verified evidence; cached rows and
   pages are of the file (automotive_knowledge.py:879-932, 1707-1771; adas_si.py:893-969;
   adas_storage.py:230-478). *)
KnowledgeTruth == Shop!KnowledgeTruth
LibraryTruth == Shop!LibraryTruth

(* MCShop!TrustIsEarned: records change, and knowledge is trusted, on what is true
   (calibration_iq_work_prep.py:562-617; automotive_knowledge.py:1121-1936). *)
TrustIsEarned == Shop!TrustIsEarned

(* MCConversation!SocketTruth: a running task is the one Stop reaches, a file is sent
   once and stays, and the page shows what is kept, once (chat.py:63-170, 440-466;
   main.py:89-112; conversationTimeline.js:448-486). *)
SocketTruth == Talk!SocketTruth

(* MCConversation!MemoryTruth, SubjectAdvances: a revision was made from the head of its
   site; the subject holds its own evidence, and late answers lose nothing newer; an
   older database is opened whole (db.py:91-425, 784-884,
   conversation_working_context.py:1253-1383). *)
MemoryTruth == Talk!MemoryTruth
SubjectAdvances == Talk!SubjectAdvances

(* MCConversation!IdentityTruth: no sign-in that was under way outlives a revocation
   (auth.py:494-555, db.py:450-630). *)
IdentityTruth == Talk!IdentityTruth
=============================================================================
