------------------------------ MODULE CoreProofs ------------------------------
(***************************************************************************)
(* What RecordsProofs shows of people, of the subject of a conversation, of    *)
(* what is learned, of the preparation of the week and of the calls about a    *)
(* repair order, as theorems about the records of Core checked together.       *)
(***************************************************************************)
EXTENDS MCCore, TLAPS

-----------------------------------------------------------------------------
(* How the records of the shop start and move. *)

(* Each scenario starts as its component does. *)
LEMMA Starts ==
    ASSUME Init
    PROVE  /\ scenario = "week" => Shop!Week!Init
           /\ scenario = "repeated" => Shop!Repeated!Init
           /\ scenario = "together" => Shop!Together!Init
           /\ scenario = "orders" => Shop!TwoOrders!Init
           /\ scenario = "learn" => Shop!Learn!Init
           /\ scenario = "edit" => Shop!Edit!Init
           /\ scenario = "supersede" => Shop!Supersede!Init
           /\ scenario = "research" => Shop!Research!Init
           /\ scenario = "again" => Shop!Again!Init
           /\ scenario = "vin" => Shop!Vin!Init
           /\ scenario = "notes" => Shop!Notes!Init
  BY DEF Init, Talk!Init, Shop!Init, Shop!WorkInit, Shop!KnowledgeInit, Shop!LibraryInit

(* In each of them the component moves, or what it keeps stays. *)
LEMMA Moves ==
    ASSUME [Next]_vars
    PROVE  /\ scenario' = scenario
           /\ \/ UNCHANGED Shop!auditVars
              \/ scenario = "week" /\ Shop!Week!Next
              \/ scenario = "repeated" /\ Shop!Repeated!Next
              \/ scenario = "together" /\ Shop!Together!Next
              \/ scenario = "orders" /\ Shop!TwoOrders!Next
           /\ \/ UNCHANGED Shop!knowledgeVars
              \/ scenario = "learn" /\ Shop!Learn!Next
              \/ scenario = "edit" /\ Shop!Edit!Next
              \/ scenario = "supersede" /\ Shop!Supersede!Next
           /\ \/ UNCHANGED Shop!operatorVars
              \/ scenario = "research" /\ Shop!Research!Next
              \/ scenario = "again" /\ Shop!Again!Next
              \/ scenario = "vin" /\ Shop!Vin!Next
              \/ scenario = "notes" /\ Shop!Notes!Next
<1>1. ASSUME scenario' = scenario, UNCHANGED shopVars
      PROVE  UNCHANGED <<scenario, Shop!auditVars, Shop!knowledgeVars, Shop!operatorVars>>
  BY <1>1 DEF shopVars, Shop!auditVars, Shop!knowledgeVars, Shop!operatorVars
<1>2. CASE UNCHANGED vars
  BY <1>1, <1>2 DEF vars
<1>3. CASE Talk!Next /\ UNCHANGED shopVars
  BY <1>1, <1>3 DEF Talk!Next
<1>4. CASE Shop!Next
  <2>1. CASE Shop!WorkNext /\ UNCHANGED Shop!shelf
    BY <1>4, <2>1 DEF Shop!Next, Shop!WorkNext, Shop!shelf
  <2>2. CASE Shop!KnowledgeNext /\ UNCHANGED Shop!work
    BY <1>4, <2>2 DEF Shop!Next, Shop!KnowledgeNext, Shop!work
  <2>3. CASE UNCHANGED <<Shop!work, Shop!knowledgeVars>>
    BY <1>4, <2>3 DEF Shop!Next, Shop!work
  <2> QED
    BY <1>4, <2>1, <2>2, <2>3 DEF Shop!Next
<1> QED
  BY <1>2, <1>3, <1>4 DEF Next

-----------------------------------------------------------------------------
\* People, subjects, and the first scenario of each kind.
Members == INSTANCE RecordsProofs WITH Accounts <- {g1, g2, g3},
             Email <- (g1 :> "e1" @@ g2 :> "e2" @@ g3 :> "e2"), Attempts <- {i1, i2},
             session <- signed, Turns <- {t1, t2}, Pages <- {}, MaxPreviews <- 0,
             Orders <- {o1, o2}, MaxVersion <- 2, edit <- revising, result <- revised,
             file <- held, changes <- replaced, call <- edit,
             Records <- {r1}, Files <- {"f"}, Contents <- {"u", "v"}, Learners <- {k1, k2},
             Claim <- [l \in {k1, k2} |-> r1], Reads <- [l \in {k1, k2} |-> "f"],
             Callers <- {}, Ops <- {}, Drafts <- {}, MaxChanges <- 2, Quiet <- TRUE,
             Audits <- {a1}, Conversation <- [a \in {a1} |-> m1], Executing <- {a1}, Unbound <- {},
             Due <- {o1}, Ids <- {i1, i2}, Cals <- {c1}, Governs <- [o \in {o1} |-> Shop!Front],
             Methods <- {static}, Unknown <- unknown, MAX_QUEUE_ITEMS <- 1,
             MAX_STORED_CONVERSATIONS <- 1, MaxOthers <- 2,
             Calls <- {k1}, Message <- (k1 :> m1), Kind <- (k1 :> "research"),
             Needed <- {c1, c2}, Docs <- {d1, d2}, Vins <- {}, MaxTouch <- 1,
             Findings <- {Shop!Shows({d1}, {}, {}, {}), Shop!Shows({d1}, {d2}, {}, {}),
                          Shop!Shows({d1, d2}, {}, {}, {}), Shop!Shows({}, {}, {d1}, {d1})},
             calls <- call

(* The scenario of people starts as they do alone. *)
LEMMA StartsAlone == ASSUME Init, scenario = "people" PROVE Members!Init
<1>1. ~Shop!Init
  BY DEF Shop!Init, Shop!WorkInit, Shop!KnowledgeInit, Shop!LibraryInit
<1>2. Talk!People!Init
  BY <1>1 DEF Init, Talk!Init
<1> QED
  BY <1>2 DEF Talk!People!Init, Members!Init, Talk!People!Emails, Members!Emails,
     Talk!People!User, Members!User, Talk!People!NoUser, Members!NoUser,
     Talk!People!Attempt, Members!Attempt, Talk!People!NoAttempt, Members!NoAttempt

(* In that scenario people move as they do alone, or not at all, and it stays. *)
LEMMA MovesAlone ==
    ASSUME [Next]_vars, scenario' = "people"
    PROVE  scenario = "people" /\ [Members!Next]_Members!vars
<1>1. ASSUME Talk!People!Next PROVE Members!Next
  BY <1>1, Zenon DEF Talk!People!Next, Members!Next, Talk!People!local_oauth_setup,
     Members!local_oauth_setup, Talk!People!Restart, Members!Restart,
     Talk!People!LoginLocal, Members!LoginLocal, Talk!People!LoginRemote,
     Members!LoginRemote, Talk!People!Begin, Members!Begin,
     Talk!People!_prune_pending_states, Members!_prune_pending_states,
     Talk!People!Callback, Members!Callback, Talk!People!CallbackFails,
     Members!CallbackFails, Talk!People!SignIn, Members!SignIn,
     Talk!People!create_session, Members!create_session, Talk!People!save_google_token,
     Members!save_google_token, Talk!People!bind_owner, Members!bind_owner,
     Talk!People!provision_test_user, Members!provision_test_user,
     Talk!People!invite_test_user, Members!invite_test_user,
     Talk!People!set_test_user_status, Members!set_test_user_status,
     Talk!People!delete_session, Members!delete_session,
     Talk!People!refresh_access_token, Members!refresh_access_token,
     Talk!People!valid_access_token, Members!valid_access_token, Talk!People!Emails,
     Members!Emails, Talk!People!User, Members!User, Talk!People!NoUser, Members!NoUser,
     Talk!People!Attempt, Members!Attempt, Talk!People!NoAttempt, Members!NoAttempt
<1>2. ASSUME UNCHANGED talkVars PROVE UNCHANGED Members!vars
  BY <1>2 DEF talkVars, Members!vars
<1>3. CASE UNCHANGED vars
  BY <1>2, <1>3 DEF vars
<1>4. CASE Shop!Next /\ UNCHANGED talkVars
  BY <1>2, <1>4 DEF Shop!Next
<1>5. CASE Talk!Next /\ UNCHANGED shopVars
  BY <1>1, <1>5 DEF Talk!Next
<1> QED
  BY <1>3, <1>4, <1>5 DEF Next

(* No sign-in that was under way outlives a revocation, and the owner's grant can be
   renewed, whatever else Core keeps (auth.py:494-555, db.py:450-630). *)
THEOREM IdentityOfRun == Spec => []IdentityTruth
<1> DEFINE Inv == scenario = "people" => Members!IInv
<1>1. Members!Distinct
  BY Names DEF Members!Distinct, Members!Grants
<1>2. Init => Inv
  BY <1>1, StartsAlone, Members!Begins
<1>3. Inv /\ [Next]_vars => Inv'
  BY <1>1, MovesAlone, Members!Continues
<1>4. Inv => IdentityTruth
  BY DEF Members!IInv, IdentityTruth, Talk!IdentityTruth, Talk!People!SessionsAreCurrent,
     Talk!People!GrantLasts, Talk!People!OneIdentity, Members!SessionsAreCurrent,
     Members!GrantLasts, Members!OneIdentity, Talk!People!Emails, Members!Emails
<1> QED
  BY <1>2, <1>3, <1>4, PTL DEF Spec

-----------------------------------------------------------------------------
(* Where no subject is spoken of, there is none, and no result that could make one. *)
NoSubject == /\ subject = None
             /\ scenario = "previews" => \A t \in {t1, t2, t3} : revised[t] = None

(* The scenario of subjects starts as they do alone; the others without a subject. *)
LEMMA StartsWithout ==
    ASSUME Init
    PROVE  IF scenario = "subjects" THEN Members!Memory!Init ELSE NoSubject
<1>1. CASE Shop!Init /\ Talk!Absent
  <2>1. scenario \notin {"subjects", "previews"}
    BY <1>1 DEF Shop!Init, Shop!WorkInit, Shop!KnowledgeInit, Shop!LibraryInit
  <2> QED
    BY <1>1, <2>1 DEF Talk!Absent, NoSubject
<1>2. CASE Talk!Init /\ Shop!Absent
  <2>1. CASE scenario = "subjects"
    BY <1>2, <2>1 DEF Talk!Init, Talk!Subjects!Init, Members!Memory!Init
  <2>2. CASE scenario # "subjects"
    BY <1>2, <2>2 DEF Talk!Init, Talk!Previews!Init, NoSubject
  <2> QED
    BY <2>1, <2>2
<1> QED
  BY <1>1, <1>2 DEF Init

(* Subjects move as they do alone. *)
LEMMA SubjectsMove == ASSUME Talk!Subjects!Next PROVE Members!Memory!Next
  BY Zenon DEF Talk!Subjects!Next, Members!Memory!Next, Talk!Subjects!Website,
     Members!Memory!Website, Talk!Subjects!Subject, Members!Memory!Subject,
     Talk!Subjects!OthersChange, Members!Memory!OthersChange,
     Talk!Subjects!website_preview_generate, Members!Memory!website_preview_generate,
     Talk!Subjects!_revision_result, Members!Memory!_revision_result,
     Talk!Subjects!_persist_website_turn, Members!Memory!_persist_website_turn,
     Talk!Subjects!add_website_revision_message, Members!Memory!add_website_revision_message,
     Talk!Subjects!add_message, Members!Memory!add_message, Talk!Subjects!Answer,
     Members!Memory!Answer, Talk!Subjects!persist_update, Members!Memory!persist_update,
     Talk!Subjects!_latest_website_preview, Members!Memory!_latest_website_preview,
     Talk!Subjects!Head_, Members!Memory!Head_, Talk!Subjects!set_conversation_subject,
     Members!Memory!set_conversation_subject, Talk!Subjects!_enrichment,
     Members!Memory!_enrichment, Talk!Subjects!_merge_subject, Members!Memory!_merge_subject,
     Talk!Subjects!_merge_context, Members!Memory!_merge_context, Talk!Subjects!_same_ro,
     Members!Memory!_same_ro, Talk!Subjects!subject_from_tool_result,
     Members!Memory!subject_from_tool_result, Talk!Subjects!SectionsOf,
     Members!Memory!SectionsOf, Talk!Subjects!Carried, Members!Memory!Carried

(* In the scenario of subjects a step is theirs or leaves them alone; elsewhere no subject
   appears. *)
LEMMA MovesWithout ==
    ASSUME [Next]_vars
    PROVE  /\ scenario' = scenario
           /\ scenario = "subjects" => [Members!Memory!Next]_Members!Memory!vars
           /\ scenario # "subjects" /\ NoSubject => NoSubject'
<1>1. ASSUME UNCHANGED <<previews, revising, version, revised, subject>>, scenario' = scenario
      PROVE  UNCHANGED Members!Memory!vars /\ (NoSubject => NoSubject')
  BY <1>1 DEF Members!Memory!vars, NoSubject
<1>2. CASE UNCHANGED vars
  <2>1. UNCHANGED <<previews, revising, version, revised, subject>> /\ scenario' = scenario
    BY <1>2 DEF vars, talkVars
  <2> QED
    BY <1>1, <2>1
<1>3. CASE Shop!Next /\ UNCHANGED talkVars
  <2>1. UNCHANGED <<previews, revising, version, revised, subject>> /\ scenario' = scenario
    BY <1>3 DEF talkVars, Shop!Next
  <2> QED
    BY <1>1, <2>1
<1>4. CASE Talk!Next /\ UNCHANGED shopVars
  <2>1. scenario' = scenario
    BY <1>4 DEF Talk!Next
  <2>2. CASE scenario = "subjects"
    BY <1>4, <2>1, <2>2, SubjectsMove DEF Talk!Next
  <2>3. CASE scenario = "previews"
    <3>1. ASSUME NoSubject, Talk!Previews!Next PROVE NoSubject'
      <4>1. ASSUME NEW t \in {t1, t2, t3}, Talk!Previews!Website(t) PROVE UNCHANGED <<revised, subject>>
        BY <4>1 DEF Talk!Previews!Website, Talk!Previews!website_preview_generate,
           Talk!Previews!_revision_result, Talk!Previews!_persist_website_turn,
           Talk!Previews!add_website_revision_message, Talk!Previews!add_message
      <4>2. ASSUME NEW t \in {t1, t2, t3}, Talk!Previews!Subject(t) PROVE FALSE
        BY <2>3, <3>1, <4>2 DEF Talk!Previews!Subject, Talk!Previews!persist_update, NoSubject
      <4> QED
        BY <2>1, <3>1, <4>1, <4>2 DEF Talk!Previews!Next, NoSubject
    <3> QED
      BY <1>4, <2>1, <2>3, <3>1 DEF Talk!Next
  <2>4. CASE scenario \notin {"subjects", "previews"}
    <3>1. UNCHANGED <<previews, revising, version, revised, subject>>
      BY <1>4, <2>4 DEF Talk!Next, Talk!memoryVars
    <3> QED
      BY <1>1, <2>1, <2>4, <3>1
  <2> QED
    BY <2>2, <2>3, <2>4
<1> QED
  BY <1>2, <1>3, <1>4 DEF Next

(* No late answer and no concurrent edit takes the subject of a conversation back, whatever
   else Core keeps (conversation_working_context.py:1253-1383). *)
THEOREM SubjectOfRun == Spec => SubjectAdvances
<1> DEFINE Inv == IF scenario = "subjects" THEN Members!Kept ELSE NoSubject
           Advances == subject # None =>
             /\ subject' # None
             /\ Members!Memory!_same_ro(subject, subject') => subject'.version >= subject.version
             /\ DOMAIN subject.sections \cap Members!Memory!Carried \subseteq DOMAIN subject'.sections
<1>1. Members!Recorded
  <2>1. Members!Previews = {}
    BY DEF Members!Previews
  <2>2. Members!Results = [tool : {"ciq", "map", "prep", "list", "research", "evidence"},
                           order : {o1, o2, None}, version : Nat]
    <3>1. {o1, o2} \cup {None} = {o1, o2, None}
      OBVIOUS
    <3> QED
      BY <3>1, Zenon DEF Members!Results, Members!Tools
  <2>3. Members!Contexts = UNION {[D -> {o1, o2, None}] : D \in SUBSET Talk!Subjects!Sections}
    <3>1. Members!Memory!Sections = Talk!Subjects!Sections /\ {o1, o2} \cup {None} = {o1, o2, None}
      BY DEF Members!Memory!Sections, Talk!Subjects!Sections, Members!Memory!Carried, Talk!Subjects!Carried
    <3> QED
      BY <3>1, Zenon DEF Members!Contexts
  <2>4. Members!Subjects = [order : {o1, o2, None}, version : Nat, sections :
                              UNION {[D -> {o1, o2, None}] : D \in SUBSET Talk!Subjects!Sections}]
    <3>1. {o1, o2} \cup {None} = {o1, o2, None}
      OBVIOUS
    <3> QED
      BY <2>3, <3>1, Zenon DEF Members!Subjects
  <2> QED
    BY <2>1, <2>2, <2>4, Names, Zenon DEF Members!Recorded
<1>2. Init => Inv
  BY <1>1, StartsWithout, Members!MemoryBegins
<1>3. Inv /\ [Next]_vars => Inv' /\ [Advances]_Members!Memory!vars
  <2> SUFFICES ASSUME Inv, [Next]_vars PROVE Inv' /\ [Advances]_Members!Memory!vars
    OBVIOUS
  <2>1. CASE scenario = "subjects"
    BY <1>1, <2>1, MovesWithout, Members!MemoryContinues
  <2>2. CASE scenario # "subjects"
    <3>1. subject = None
      BY <2>2 DEF NoSubject
    <3> QED
      BY <2>2, <3>1, MovesWithout
  <2> QED
    BY <2>1, <2>2
<1>4. [Advances]_Members!Memory!vars =>
        [subject # None =>
           /\ subject' # None
           /\ Talk!Subjects!_same_ro(subject, subject') => subject'.version >= subject.version
           /\ DOMAIN subject.sections \cap Talk!Subjects!Carried \subseteq DOMAIN subject'.sections]_Talk!Subjects!vars
  BY DEF Members!Memory!vars, Talk!Subjects!vars, Members!Memory!_same_ro, Talk!Subjects!_same_ro,
     Members!Memory!Carried, Talk!Subjects!Carried
<1> QED
  BY <1>2, <1>3, <1>4, PTL DEF Spec, SubjectAdvances, Talk!SubjectAdvances, Talk!Subjects!SubjectAdvances

-----------------------------------------------------------------------------
(* The first scenario of each kind starts and moves as it does alone. *)

(* The scenario "week" starts and moves as it does alone. *)
LEMMA WeekAlone == (Shop!Week!Init => Members!Prep!Init) /\ (Shop!Week!Next => Members!Prep!Next)
<1>1. Shop!Week!Absent = Members!Prep!Absent /\ Shop!Week!NoAudit = Members!Prep!NoAudit
  BY DEF Shop!Week!Absent, Members!Prep!Absent, Shop!Week!NoAudit, Members!Prep!NoAudit
<1>2. {[[i \in {i1, i2} |-> Shop!Week!Absent] EXCEPT ![k] =
          [cal |-> c, det |-> d, method |-> unknown, named |-> FALSE, ver |-> 1]] :
             k \in {i1, i2}, c \in {c1}, d \in {"POSSIBLE", "EXCLUDED"}} =
      {[[i \in {i1, i2} |-> Members!Prep!Absent] EXCEPT ![k] =
          [cal |-> c, det |-> d, method |-> unknown, named |-> FALSE, ver |-> 1]] :
             k \in {i1, i2}, c \in {c1}, d \in {"POSSIBLE", "EXCLUDED"}}
  BY <1>1
<1>3. Shop!Week!Init => Members!Prep!Init
  BY <1>1, <1>2 DEF Shop!Week!Init, Members!Prep!Init
<1>4. Shop!Week!Next => Members!Prep!Next
  <2>1. ASSUME NEW x
        PROVE
         (\/ Shop!Week!Query(x) \/ Shop!Week!Take(x)
          \/ Shop!Week!_acquire_adas_map_gap(x) \/ Shop!Week!_reconcile_one(x)
          \/ Shop!Week!Reopen(x)) =>
         (\/ Members!Prep!Query(x) \/ Members!Prep!Take(x)
          \/ Members!Prep!_acquire_adas_map_gap(x) \/ Members!Prep!_reconcile_one(x)
          \/ Members!Prep!Reopen(x))
    BY Zenon DEF Shop!Week!Query, Members!Prep!Query, Shop!Week!NoAudit,
       Members!Prep!NoAudit, Shop!Week!Cardinality, Members!Prep!Cardinality,
       Shop!Week!Rest, Members!Prep!Rest, Shop!Week!Take, Members!Prep!Take,
       Shop!Week!_discover_adas_map, Members!Prep!_discover_adas_map, Shop!Week!Becomes,
       Members!Prep!Becomes, Shop!Week!_acquire_adas_map_gap,
       Members!Prep!_acquire_adas_map_gap, Shop!Week!Cur, Members!Prep!Cur,
       Shop!Week!_reconcile_one, Members!Prep!_reconcile_one, Shop!Week!Planned,
       Members!Prep!Planned, Shop!Week!build_reconciliation_actions,
       Members!Prep!build_reconciliation_actions, Shop!Week!ActionFor,
       Members!Prep!ActionFor, Shop!Week!Matches, Members!Prep!Matches, Shop!Week!Suits,
       Members!Prep!Suits, Shop!Week!Update, Members!Prep!Update, Shop!Week!Candidate,
       Members!Prep!Candidate, Shop!Week!ActiveFor, Members!Prep!ActiveFor,
       Shop!Week!Active, Members!Prep!Active, Shop!Week!Snap, Members!Prep!Snap,
       Shop!Week!Reopen, Members!Prep!Reopen
  <2>2. ASSUME NEW x
        PROVE
         (\/ Shop!Week!Reopened(x) \/ Shop!Week!Edit(x) \/ Shop!Week!EditReread(x)
          \/ Shop!Week!_catalog_coverage(x) \/ Shop!Week!_link_ro_research_evidence(x)
          \/ Shop!Week!Records(x) \/ Shop!Week!Judge(x)) =>
         (\/ Members!Prep!Reopened(x) \/ Members!Prep!Edit(x)
          \/ Members!Prep!EditReread(x) \/ Members!Prep!_catalog_coverage(x)
          \/ Members!Prep!_link_ro_research_evidence(x) \/ Members!Prep!Records(x)
          \/ Members!Prep!Judge(x))
    BY Zenon DEF Shop!Week!Reopened, Members!Prep!Reopened, Shop!Week!Snapshot,
       Members!Prep!Snapshot, Shop!Week!Cur, Members!Prep!Cur, Shop!Week!Planned,
       Members!Prep!Planned, Shop!Week!build_reconciliation_actions,
       Members!Prep!build_reconciliation_actions, Shop!Week!ActionFor,
       Members!Prep!ActionFor, Shop!Week!Matches, Members!Prep!Matches, Shop!Week!Suits,
       Members!Prep!Suits, Shop!Week!Cardinality, Members!Prep!Cardinality,
       Shop!Week!Update, Members!Prep!Update, Shop!Week!Candidate,
       Members!Prep!Candidate, Shop!Week!ActiveFor, Members!Prep!ActiveFor,
       Shop!Week!Active, Members!Prep!Active, Shop!Week!Snap, Members!Prep!Snap,
       Shop!Week!Becomes, Members!Prep!Becomes, Shop!Week!Reread, Members!Prep!Reread,
       Shop!Week!Rest, Members!Prep!Rest, Shop!Week!Edit, Members!Prep!Edit,
       Shop!Week!Fits, Members!Prep!Fits, Shop!Week!Places, Members!Prep!Places,
       Shop!Week!Absent, Members!Prep!Absent, Shop!Week!Edited, Members!Prep!Edited,
       Shop!Week!EditReread, Members!Prep!EditReread, Shop!Week!_catalog_coverage,
       Members!Prep!_catalog_coverage, Shop!Week!_link_ro_research_evidence,
       Members!Prep!_link_ro_research_evidence, Shop!Week!Records, Members!Prep!Records,
       Shop!Week!build_missing_si_actions, Members!Prep!build_missing_si_actions,
       Shop!Week!ActiveItem, Members!Prep!ActiveItem, Shop!Week!Judge,
       Members!Prep!Judge, Shop!Week!Ready, Members!Prep!Ready, Shop!Week!reconcile_ok,
       Members!Prep!reconcile_ok, Shop!Week!_reconciliation_issues,
       Members!Prep!_reconciliation_issues, Shop!Week!Agrees, Members!Prep!Agrees,
       Shop!Week!Gap, Members!Prep!Gap
  <2>3. ASSUME NEW x
        PROVE
         (\/ Shop!Week!_save_weekly_queue(x) \/ Shop!Week!Stop(x)) =>
         (\/ Members!Prep!_save_weekly_queue(x) \/ Members!Prep!Stop(x))
    BY Zenon DEF Shop!Week!_save_weekly_queue, Members!Prep!_save_weekly_queue,
       Shop!Week!Stored, Members!Prep!Stored, Shop!Week!Cardinality,
       Members!Prep!Cardinality, Shop!Week!Rows, Members!Prep!Rows, Shop!Week!Becomes,
       Members!Prep!Becomes, Shop!Week!Ended, Members!Prep!Ended, Shop!Week!NoAudit,
       Members!Prep!NoAudit, Shop!Week!Stop, Members!Prep!Stop, Shop!Week!Rest,
       Members!Prep!Rest
  <2>4. ASSUME NEW x, NEW o PROVE Shop!Week!Load(x, o) => Members!Prep!Load(x, o)
    BY Zenon DEF Shop!Week!Load, Members!Prep!Load, Shop!Week!Becomes,
       Members!Prep!Becomes, Shop!Week!Snapshot, Members!Prep!Snapshot, Shop!Week!Rest,
       Members!Prep!Rest
  <2>5. ASSUME NEW x PROVE Shop!Week!Others(x) => Members!Prep!Others(x)
    BY Zenon DEF Shop!Week!Others, Members!Prep!Others, Shop!Week!Absent,
       Members!Prep!Absent
  <2> QED
    BY <2>1, <2>2, <2>3, <2>4, <2>5, Zenon DEF Shop!Week!Next, Members!Prep!Next,
       Shop!Week!Step, Members!Prep!Step
<1> QED
  BY <1>3, <1>4

(* What the invariant of each scenario says of the run. *)
LEMMA WeekEnough ==
    ASSUME Members!WeekInv
    PROVE  Shop!Week!ReadyIsTrue /\ Shop!Week!EditsOpenResearch
<1>1. Members!Prep!ReadyIsTrue /\ Members!Prep!EditsOpenResearch /\ Members!Prep!QueueIsLastAudit
  BY Members!Enough
<1> QED
  BY <1>1, Zenon DEF Shop!Week!ReadyIsTrue, Members!Prep!ReadyIsTrue, Shop!Week!Cur,
     Members!Prep!Cur, Shop!Week!Agrees, Members!Prep!Agrees, Shop!Week!ActiveFor,
     Members!Prep!ActiveFor, Shop!Week!Matches, Members!Prep!Matches, Shop!Week!Active,
     Members!Prep!Active, Shop!Week!Suits, Members!Prep!Suits, Shop!Week!Snap,
     Members!Prep!Snap, Shop!Week!EditsOpenResearch, Members!Prep!EditsOpenResearch

(* The scenario "learn" starts and moves as it does alone. *)
LEMMA LearnAlone == (Shop!Learn!Init => Members!Know!Init) /\ (Shop!Learn!Next => Members!Know!Next)
<1>1. ASSUME Shop!Learn!Init PROVE Members!Know!Init
  BY <1>1 DEF Shop!Learn!Init, Members!Know!Init, Shop!Learn!Empty, Members!Know!Empty
<1>2. Shop!Learn!Next => Members!Know!Next
  <2>1. ASSUME NEW x PROVE Shop!Learn!Replace(x) => Members!Know!Replace(x)
    BY Zenon DEF Shop!Learn!Replace, Members!Know!Replace, Shop!Learn!base,
       Members!Know!base
  <2>2. ASSUME NEW x
        PROVE
         (\/ Shop!Learn!Recall(x) \/ Shop!Learn!Library(x)
          \/ Shop!Learn!Unsatisfied(x) \/ Shop!Learn!Accepted(x)
          \/ Shop!Learn!Captured(x) \/ Shop!Learn!Promoted(x)) =>
         (\/ Members!Know!Recall(x) \/ Members!Know!Library(x)
          \/ Members!Know!Unsatisfied(x) \/ Members!Know!Accepted(x)
          \/ Members!Know!Captured(x) \/ Members!Know!Promoted(x))
    BY Zenon DEF Shop!Learn!Recall, Members!Know!Recall, Shop!Learn!search,
       Members!Know!search, Shop!Learn!Effective, Members!Know!Effective,
       Shop!Learn!Source, Members!Know!Source, Shop!Learn!_source_content_validation,
       Members!Know!_source_content_validation, Shop!Learn!base, Members!Know!base,
       Shop!Learn!Library, Members!Know!Library, Shop!Learn!Unsatisfied,
       Members!Know!Unsatisfied, Shop!Learn!Goes, Members!Know!Goes,
       Shop!Learn!Accepted, Members!Know!Accepted, Shop!Learn!Captured,
       Members!Know!Captured, Shop!Learn!Promoted, Members!Know!Promoted,
       Shop!Learn!create_record, Members!Know!create_record, Shop!Learn!_insert_source,
       Members!Know!_insert_source, Shop!Learn!_insert_evidence,
       Members!Know!_insert_evidence, Shop!Learn!Quote, Members!Know!Quote,
       Shop!Learn!Climbs, Members!Know!Climbs, Shop!Learn!Rank, Members!Know!Rank,
       Shop!Learn!LIFECYCLES, Members!Know!LIFECYCLES,
       Shop!Learn!_validate_target_lifecycle, Members!Know!_validate_target_lifecycle,
       Shop!Learn!Rows, Members!Know!Rows, Shop!Learn!_rehash_record_sources,
       Members!Know!_rehash_record_sources, Shop!Learn!Higher, Members!Know!Higher,
       Shop!Learn!Steps, Members!Know!Steps, Shop!Learn!Climbed, Members!Know!Climbed,
       Shop!Learn!Learned, Members!Know!Learned, Shop!Learn!Refuses,
       Members!Know!Refuses
  <2>3. ASSUME NEW x
        PROVE
         (\/ Shop!Learn!Capture(x) \/ Shop!Learn!Store(x) \/ Shop!Learn!Look(x)
          \/ Shop!Learn!Conflict(x) \/ Shop!Learn!Offer(x)) =>
         (\/ Members!Know!Capture(x) \/ Members!Know!Store(x) \/ Members!Know!Look(x)
          \/ Members!Know!Conflict(x) \/ Members!Know!Offer(x))
    BY Zenon DEF Shop!Learn!Capture, Members!Know!Capture, Shop!Learn!Facade,
       Members!Know!Facade, Shop!Learn!_source_content_validation,
       Members!Know!_source_content_validation, Shop!Learn!Source, Members!Know!Source,
       Shop!Learn!Wanted, Members!Know!Wanted, Shop!Learn!_validate_target_lifecycle,
       Members!Know!_validate_target_lifecycle, Shop!Learn!base, Members!Know!base,
       Shop!Learn!Store, Members!Know!Store, Shop!Learn!create_record,
       Members!Know!create_record, Shop!Learn!_insert_source,
       Members!Know!_insert_source, Shop!Learn!_insert_evidence,
       Members!Know!_insert_evidence, Shop!Learn!Quote, Members!Know!Quote,
       Shop!Learn!Climbs, Members!Know!Climbs, Shop!Learn!Rank, Members!Know!Rank,
       Shop!Learn!LIFECYCLES, Members!Know!LIFECYCLES, Shop!Learn!Rows,
       Members!Know!Rows, Shop!Learn!_rehash_record_sources,
       Members!Know!_rehash_record_sources, Shop!Learn!Higher, Members!Know!Higher,
       Shop!Learn!Steps, Members!Know!Steps, Shop!Learn!Climbed, Members!Know!Climbed,
       Shop!Learn!Refuses, Members!Know!Refuses, Shop!Learn!Look, Members!Know!Look,
       Shop!Learn!Content, Members!Know!Content, Shop!Learn!Conflict,
       Members!Know!Conflict, Shop!Learn!Fits, Members!Know!Fits, Shop!Learn!Offer,
       Members!Know!Offer
  <2>4. ASSUME NEW x
        PROVE
         (\/ Shop!Learn!add_evidence(x) \/ Shop!Learn!review_evidence(x)
          \/ Shop!Learn!promote(x) \/ Shop!Learn!supersede(x)) =>
         (\/ Members!Know!add_evidence(x) \/ Members!Know!review_evidence(x)
          \/ Members!Know!promote(x) \/ Members!Know!supersede(x))
    BY Zenon DEF Shop!Learn!add_evidence, Members!Know!add_evidence,
       Shop!Learn!Expects, Members!Know!Expects, Shop!Learn!Fits, Members!Know!Fits,
       Shop!Learn!_insert_evidence, Members!Know!_insert_evidence, Shop!Learn!Quote,
       Members!Know!Quote, Shop!Learn!_insert_source, Members!Know!_insert_source,
       Shop!Learn!Source, Members!Know!Source, Shop!Learn!review_evidence,
       Members!Know!review_evidence, Shop!Learn!_rehash_record_sources,
       Members!Know!_rehash_record_sources, Shop!Learn!_source_content_validation,
       Members!Know!_source_content_validation, Shop!Learn!Reviewable,
       Members!Know!Reviewable, Shop!Learn!base, Members!Know!base, Shop!Learn!promote,
       Members!Know!promote, Shop!Learn!Rank, Members!Know!Rank, Shop!Learn!LIFECYCLES,
       Members!Know!LIFECYCLES, Shop!Learn!Climbs, Members!Know!Climbs,
       Shop!Learn!_validate_target_lifecycle, Members!Know!_validate_target_lifecycle,
       Shop!Learn!Rows, Members!Know!Rows, Shop!Learn!Steps, Members!Know!Steps,
       Shop!Learn!Climbed, Members!Know!Climbed, Shop!Learn!supersede,
       Members!Know!supersede, Shop!Learn!Replaces, Members!Know!Replaces
  <2> QED
    BY <2>1, <2>2, <2>3, <2>4, Zenon DEF Shop!Learn!Next, Members!Know!Next
<1> QED
  BY <1>1, <1>2

(* What holds of it alone, and of its steps. *)
LEMMA LearnEnough ==
    /\ Members!Know!VerifiedIsGrounded => Shop!Learn!VerifiedIsGrounded
    /\ Members!Know!TrustIsFresh => Shop!Learn!TrustIsFresh
    /\ Members!Know!OnWhatWasRead => Shop!Learn!OnWhatWasRead
    /\ Members!Know!ToldIsCurrent => Shop!Learn!ToldIsCurrent
<1>1. Members!Know!VerifiedIsGrounded => Shop!Learn!VerifiedIsGrounded
  BY Zenon DEF Shop!Learn!VerifiedIsGrounded, Members!Know!VerifiedIsGrounded,
     Shop!Learn!Grounded, Members!Know!Grounded, Shop!Learn!Source,
     Members!Know!Source, Shop!Learn!LeadsTo, Members!Know!LeadsTo
<1>2. Members!Know!TrustIsFresh => Shop!Learn!TrustIsFresh
  BY Zenon DEF Shop!Learn!TrustIsFresh, Members!Know!TrustIsFresh,
     Shop!Learn!GroundedNow, Members!Know!GroundedNow, Shop!Learn!Source,
     Members!Know!Source
<1>3. Members!Know!OnWhatWasRead => Shop!Learn!OnWhatWasRead
  BY Zenon DEF Shop!Learn!OnWhatWasRead, Members!Know!OnWhatWasRead,
     Shop!Learn!Content, Members!Know!Content
<1>4. Members!Know!ToldIsCurrent => Shop!Learn!ToldIsCurrent
  BY Zenon DEF Shop!Learn!ToldIsCurrent, Members!Know!ToldIsCurrent
<1> QED
  BY <1>1, <1>2, <1>3, <1>4

(* The scenario "research" starts and moves as it does alone. *)
LEMMA SearchCallsAlone == (Shop!Research!Init => Members!Ciq!Init) /\ (Shop!Research!Next => Members!Ciq!Next)
<1>1. Shop!Research!Init => Members!Ciq!Init
  BY DEF Shop!Research!Init, Members!Ciq!Init, Shop!Research!Idle, Members!Ciq!Idle
<1>2. Shop!Research!Next => Members!Ciq!Next
  <2>1.
         (\/ Shop!Research!Serve \/ Shop!Research!Others) =>
         (\/ Members!Ciq!Serve \/ Members!Ciq!Others)
    BY Zenon DEF Shop!Research!Serve, Members!Ciq!Serve,
       Shop!Research!_stable_action_ids, Members!Ciq!_stable_action_ids,
       Shop!Research!Cardinality, Members!Ciq!Cardinality, Shop!Research!ciq,
       Members!Ciq!ciq, Shop!Research!Fits, Members!Ciq!Fits, Shop!Research!Performs,
       Members!Ciq!Performs, Shop!Research!Effect, Members!Ciq!Effect,
       Shop!Research!Evidence, Members!Ciq!Evidence, Shop!Research!Others,
       Members!Ciq!Others
  <2>2. ASSUME NEW x PROVE Shop!Research!Research(x) => Members!Ciq!Research(x)
    BY Zenon DEF Shop!Research!Research, Members!Ciq!Research, Shop!Research!Set,
       Members!Ciq!Set, Shop!Research!_expand_research_action,
       Members!Ciq!_expand_research_action, Shop!Research!SetToSeq,
       Members!Ciq!SetToSeq, Shop!Research!IsInjective, Members!Ciq!IsInjective,
       Shop!Research!Cardinality, Members!Ciq!Cardinality, Shop!Research!DocumentAction,
       Members!Ciq!DocumentAction, Shop!Research!_matching_existing_document,
       Members!Ciq!_matching_existing_document, Shop!Research!Matching,
       Members!Ciq!Matching, Shop!Research!Links, Members!Ciq!Links,
       Shop!Research!Contested, Members!Ciq!Contested, Shop!Research!Validated,
       Members!Ciq!Validated, Shop!Research!Found, Members!Ciq!Found,
       Shop!Research!eligible_complete, Members!Ciq!eligible_complete,
       Shop!Research!Supported, Members!Ciq!Supported, Shop!Research!CompletionVersion,
       Members!Ciq!CompletionVersion, Shop!Research!ciq, Members!Ciq!ciq
  <2>3. ASSUME NEW x
        PROVE
         (\/ Shop!Research!Begin(x) \/ Shop!Research!_repair_from_attached_adas_map(x)
          \/ Shop!Research!Notes(x)) =>
         (\/ Members!Ciq!Begin(x) \/ Members!Ciq!_repair_from_attached_adas_map(x)
          \/ Members!Ciq!Notes(x))
    BY Zenon DEF Shop!Research!Begin, Members!Ciq!Begin, Shop!Research!Ended,
       Members!Ciq!Ended, Shop!Research!Set, Members!Ciq!Set, Shop!Research!Idle,
       Members!Ciq!Idle, Shop!Research!Snapshot, Members!Ciq!Snapshot,
       Shop!Research!Unresolved, Members!Ciq!Unresolved, Shop!Research!ciq,
       Members!Ciq!ciq, Shop!Research!_repair_from_attached_adas_map,
       Members!Ciq!_repair_from_attached_adas_map, Shop!Research!_attached_map_vin,
       Members!Ciq!_attached_map_vin, Shop!Research!Cardinality,
       Members!Ciq!Cardinality, Shop!Research!Notes, Members!Ciq!Notes
  <2>4. ASSUME NEW x
        PROVE
         (\/ Shop!Research!Post(x) \/ Shop!Research!NoReceipt(x)
          \/ Shop!Research!Receipts(x) \/ Shop!Research!Reread(x)
          \/ Shop!Research!VerifyVin(x)) =>
         (\/ Members!Ciq!Post(x) \/ Members!Ciq!NoReceipt(x)
          \/ Members!Ciq!Receipts(x) \/ Members!Ciq!Reread(x)
          \/ Members!Ciq!VerifyVin(x))
    BY Zenon DEF Shop!Research!Post, Members!Ciq!Post, Shop!Research!Set,
       Members!Ciq!Set, Shop!Research!ciq, Members!Ciq!ciq, Shop!Research!NoReceipt,
       Members!Ciq!NoReceipt, Shop!Research!Receipts, Members!Ciq!Receipts,
       Shop!Research!Reread, Members!Ciq!Reread, Shop!Research!CompletionVerified,
       Members!Ciq!CompletionVerified,
       Shop!Research!_verify_persisted_research_evidence,
       Members!Ciq!_verify_persisted_research_evidence, Shop!Research!Evidence,
       Members!Ciq!Evidence, Shop!Research!VerifyVin, Members!Ciq!VerifyVin
  <2> QED
    BY <2>1, <2>2, <2>3, <2>4, Zenon DEF Shop!Research!Next, Members!Ciq!Next
<1> QED
  BY <1>1, <1>2

(* What the invariant of each scenario says of the run. *)
LEMMA SearchCallsEnough ==
    ASSUME Members!OInv
    PROVE  Shop!Research!IntentOnce /\ Shop!Research!OnWhatWasRead /\ Shop!Research!SuccessIsReal
<1>1. Members!Ciq!IntentOnce /\ Members!Ciq!OnWhatWasRead /\ Members!Ciq!SuccessIsReal
  BY Members!OIntent, Members!OSuccess DEF Members!OInv
<1> QED
  BY <1>1, Zenon DEF Shop!Research!IntentOnce, Members!Ciq!IntentOnce,
     Shop!Research!Took, Members!Ciq!Took, Shop!Research!Cardinality,
     Members!Ciq!Cardinality, Shop!Research!Asked, Members!Ciq!Asked,
     Shop!Research!OnWhatWasRead, Members!Ciq!OnWhatWasRead,
     Shop!Research!SuccessIsReal, Members!Ciq!SuccessIsReal

(* Two documents are finitely many. *)
LEMMA FewDocuments ==
    \A x, y : /\ Members!IsFiniteSet({}) /\ Members!IsFiniteSet({x})
              /\ Members!IsFiniteSet({x, y})
<1> TAKE x, y
<1>1. Members!IsFiniteSet({})
  BY Members!FS_EmptySet
<1>2. Members!IsFiniteSet({} \cup {x})
  BY <1>1, Members!FS_AddElement
<1>3. Members!IsFiniteSet(({} \cup {x}) \cup {y})
  BY <1>2, Members!FS_AddElement
<1>4. {} \cup {x} = {x} /\ ({} \cup {x}) \cup {y} = {x, y}
  OBVIOUS
<1> QED
  BY <1>1, <1>2, <1>3, <1>4

(* What research finds in these scenarios is about documents and calibrations. *)
LEMMA FirstSearched == Members!Searched
<1>1. \A x, y, z, w \in SUBSET {d1, d2} :
         /\ Shop!Shows(x, y, z, w).supports \in [{c1, c2} -> SUBSET {d1, d2}]
         /\ Shop!Shows(x, y, z, w).seen \in SUBSET {d1, d2}
  BY DEF Shop!Shows
<1>2. {} \in SUBSET {d1, d2} /\ {d1} \in SUBSET {d1, d2} /\ {d2} \in SUBSET {d1, d2}
  OBVIOUS
<1>3. {d1, d2} \in SUBSET {d1, d2}
  OBVIOUS
<1> QED
  BY <1>1, <1>2, <1>3, FewDocuments, Zenon DEF Members!Searched

(* Research claims what can be recorded, and research alone teaches. *)
LEMMA FirstClaimed == Members!Claimed /\ Members!ResearchAlone
  BY DEF Members!Claimed, Members!ResearchAlone

\* What the first scenarios keep.
FirstKept ==
    /\ scenario = "week" => Members!WeekInv
    /\ scenario = "learn" => Members!KnowledgeInv /\ Members!Taught
    /\ scenario = "research" => Members!OInv

(* Every start of the run is one of these scenarios that is kept. *)
LEMMA FirstBegins == ASSUME Init PROVE FirstKept
  BY Starts, WeekAlone, SearchCallsAlone, LearnAlone, Members!WeekBegins, Members!OInit,
     Members!KnowledgeBegins, FirstClaimed, Members!TaughtBegins DEF FirstKept

(* In these scenarios the records move as they do alone, or not at all. *)
LEMMA FirstMoves ==
    ASSUME [Next]_vars
    PROVE  /\ scenario' = scenario
           /\ scenario = "week" => [Members!Prep!Next]_Members!Prep!vars
           /\ scenario = "learn" => [Members!Know!Next]_Members!Know!vars
           /\ scenario = "research" => [Members!Ciq!Next]_Members!Ciq!vars
<1>1. UNCHANGED Shop!auditVars => UNCHANGED Members!Prep!vars
  BY DEF Shop!auditVars, Members!Prep!vars
<1>2. UNCHANGED Shop!knowledgeVars => UNCHANGED Members!Know!vars
  BY DEF Shop!knowledgeVars, Members!Know!vars, Members!Know!base
<1>3. UNCHANGED Shop!operatorVars => UNCHANGED Members!Ciq!vars
  BY DEF Shop!operatorVars, Members!Ciq!vars
<1> QED
  BY <1>1, <1>2, <1>3, Moves, WeekAlone, LearnAlone, SearchCallsAlone

(* Every step of the run keeps them. *)
LEMMA FirstStays == ASSUME FirstKept, [Next]_vars PROVE FirstKept'
  BY FirstMoves, FirstSearched, FirstClaimed, Members!WeekContinues, Members!OStep,
     Members!OStutter, Members!KnowledgeContinues, Members!TaughtStays DEF FirstKept

(* What is kept is what the run checks. *)
LEMMA FirstShows ==
    ASSUME FirstKept
    PROVE  /\ scenario = "week" => Shop!Week!ReadyIsTrue /\ Shop!Week!EditsOpenResearch
           /\ scenario = "learn" => Shop!Learn!VerifiedIsGrounded
           /\ scenario = "research" =>
                 /\ Shop!Research!IntentOnce
                 /\ Shop!Research!OnWhatWasRead
                 /\ Shop!Research!SuccessIsReal
  BY WeekEnough, LearnEnough, Members!Grounds, SearchCallsEnough DEF FirstKept

(* What is recorded and trusted in these scenarios is earned. *)
LEMMA FirstEarns ==
    ASSUME FirstKept, [Next]_vars
    PROVE  /\ scenario = "learn" =>
                 /\ Shop!Learn!TrustIsFresh
                 /\ Shop!Learn!OnWhatWasRead
                 /\ Shop!Learn!ToldIsCurrent
  BY FirstMoves, FirstClaimed, Members!Trusts, Members!WorksOnWhatWasRead,
     Members!Recalls, LearnEnough DEF FirstKept

-----------------------------------------------------------------------------
\* The second scenarios.
Second == INSTANCE RecordsProofs WITH Accounts <- {g1, g2, g3},
             Email <- (g1 :> "e1" @@ g2 :> "e2" @@ g3 :> "e2"), Attempts <- {i1, i2},
             session <- signed, Turns <- {t1, t2}, Pages <- {}, MaxPreviews <- 0,
             Orders <- {o1, o2}, MaxVersion <- 2, edit <- revising, result <- revised,
             file <- held, changes <- replaced, call <- edit,
             Records <- {r1}, Files <- {"f"}, Contents <- {"u", "v"}, Learners <- {k1},
             Claim <- [l \in {k1} |-> r1], Reads <- [l \in {k1} |-> "f"],
             Callers <- {c1, c2}, Ops <- {"store", "add", "review", "promote"},
             Drafts <- {Shop!Draft(TRUE, TRUE, "verified"), Shop!Draft(TRUE, TRUE, "unverified"),
                        Shop!Draft(FALSE, TRUE, "unverified"),
                        Shop!Draft(TRUE, FALSE, "unverified")},
             MaxChanges <- 1, Quiet <- FALSE,
             Audits <- {a1, a2}, Conversation <- [a \in {a1, a2} |-> m1], Executing <- {a1},
             Unbound <- {}, Due <- {o1}, Ids <- {i1, i2}, Cals <- {c1},
             Governs <- [o \in {o1} |-> Shop!Front], Methods <- {static}, Unknown <- unknown,
             MAX_QUEUE_ITEMS <- 1, MAX_STORED_CONVERSATIONS <- 1, MaxOthers <- 0,
             Calls <- {k1, k2}, Message <- (k1 :> m1 @@ k2 :> m1),
             Kind <- (k1 :> "research" @@ k2 :> "research"), Needed <- {c1}, Docs <- {d1},
             Vins <- {}, MaxTouch <- 1,
             Findings <- {[supports |-> [c \in {c1} |-> {d1}], seen |-> {}, fresh |-> {}],
                          [supports |-> [c \in {c1} |-> {}], seen |-> {d1}, fresh |-> {d1}]},
             calls <- call

(* The scenario "repeated" starts and moves as it does alone. *)
LEMMA RepeatedAlone == (Shop!Repeated!Init => Second!Prep!Init) /\ (Shop!Repeated!Next => Second!Prep!Next)
<1>1. Shop!Repeated!Absent = Second!Prep!Absent /\ Shop!Repeated!NoAudit = Second!Prep!NoAudit
  BY DEF Shop!Repeated!Absent, Second!Prep!Absent, Shop!Repeated!NoAudit, Second!Prep!NoAudit
<1>2. {[[i \in {i1, i2} |-> Shop!Repeated!Absent] EXCEPT ![k] =
          [cal |-> c, det |-> d, method |-> unknown, named |-> FALSE, ver |-> 1]] :
             k \in {i1, i2}, c \in {c1}, d \in {"POSSIBLE", "EXCLUDED"}} =
      {[[i \in {i1, i2} |-> Second!Prep!Absent] EXCEPT ![k] =
          [cal |-> c, det |-> d, method |-> unknown, named |-> FALSE, ver |-> 1]] :
             k \in {i1, i2}, c \in {c1}, d \in {"POSSIBLE", "EXCLUDED"}}
  BY <1>1
<1>3. Shop!Repeated!Init => Second!Prep!Init
  BY <1>1, <1>2 DEF Shop!Repeated!Init, Second!Prep!Init
<1>4. Shop!Repeated!Next => Second!Prep!Next
  <2>1. ASSUME NEW x
        PROVE
         (\/ Shop!Repeated!Query(x) \/ Shop!Repeated!Take(x)
          \/ Shop!Repeated!_acquire_adas_map_gap(x) \/ Shop!Repeated!_reconcile_one(x)
          \/ Shop!Repeated!Reopen(x)) =>
         (\/ Second!Prep!Query(x) \/ Second!Prep!Take(x)
          \/ Second!Prep!_acquire_adas_map_gap(x) \/ Second!Prep!_reconcile_one(x)
          \/ Second!Prep!Reopen(x))
    BY Zenon DEF Shop!Repeated!Query, Second!Prep!Query, Shop!Repeated!NoAudit,
       Second!Prep!NoAudit, Shop!Repeated!Cardinality, Second!Prep!Cardinality,
       Shop!Repeated!Rest, Second!Prep!Rest, Shop!Repeated!Take, Second!Prep!Take,
       Shop!Repeated!_discover_adas_map, Second!Prep!_discover_adas_map,
       Shop!Repeated!Becomes, Second!Prep!Becomes, Shop!Repeated!_acquire_adas_map_gap,
       Second!Prep!_acquire_adas_map_gap, Shop!Repeated!Cur, Second!Prep!Cur,
       Shop!Repeated!_reconcile_one, Second!Prep!_reconcile_one, Shop!Repeated!Planned,
       Second!Prep!Planned, Shop!Repeated!build_reconciliation_actions,
       Second!Prep!build_reconciliation_actions, Shop!Repeated!ActionFor,
       Second!Prep!ActionFor, Shop!Repeated!Matches, Second!Prep!Matches,
       Shop!Repeated!Suits, Second!Prep!Suits, Shop!Repeated!Update, Second!Prep!Update,
       Shop!Repeated!Candidate, Second!Prep!Candidate, Shop!Repeated!ActiveFor,
       Second!Prep!ActiveFor, Shop!Repeated!Active, Second!Prep!Active,
       Shop!Repeated!Snap, Second!Prep!Snap, Shop!Repeated!Reopen, Second!Prep!Reopen
  <2>2. ASSUME NEW x
        PROVE
         (\/ Shop!Repeated!Reopened(x) \/ Shop!Repeated!Edit(x)
          \/ Shop!Repeated!EditReread(x) \/ Shop!Repeated!_catalog_coverage(x)
          \/ Shop!Repeated!_link_ro_research_evidence(x) \/ Shop!Repeated!Records(x)
          \/ Shop!Repeated!Judge(x)) =>
         (\/ Second!Prep!Reopened(x) \/ Second!Prep!Edit(x)
          \/ Second!Prep!EditReread(x) \/ Second!Prep!_catalog_coverage(x)
          \/ Second!Prep!_link_ro_research_evidence(x) \/ Second!Prep!Records(x)
          \/ Second!Prep!Judge(x))
    BY Zenon DEF Shop!Repeated!Reopened, Second!Prep!Reopened,
       Shop!Repeated!Snapshot, Second!Prep!Snapshot, Shop!Repeated!Cur, Second!Prep!Cur,
       Shop!Repeated!Planned, Second!Prep!Planned,
       Shop!Repeated!build_reconciliation_actions,
       Second!Prep!build_reconciliation_actions, Shop!Repeated!ActionFor,
       Second!Prep!ActionFor, Shop!Repeated!Matches, Second!Prep!Matches,
       Shop!Repeated!Suits, Second!Prep!Suits, Shop!Repeated!Cardinality,
       Second!Prep!Cardinality, Shop!Repeated!Update, Second!Prep!Update,
       Shop!Repeated!Candidate, Second!Prep!Candidate, Shop!Repeated!ActiveFor,
       Second!Prep!ActiveFor, Shop!Repeated!Active, Second!Prep!Active,
       Shop!Repeated!Snap, Second!Prep!Snap, Shop!Repeated!Becomes, Second!Prep!Becomes,
       Shop!Repeated!Reread, Second!Prep!Reread, Shop!Repeated!Rest, Second!Prep!Rest,
       Shop!Repeated!Edit, Second!Prep!Edit, Shop!Repeated!Fits, Second!Prep!Fits,
       Shop!Repeated!Places, Second!Prep!Places, Shop!Repeated!Absent,
       Second!Prep!Absent, Shop!Repeated!Edited, Second!Prep!Edited,
       Shop!Repeated!EditReread, Second!Prep!EditReread,
       Shop!Repeated!_catalog_coverage, Second!Prep!_catalog_coverage,
       Shop!Repeated!_link_ro_research_evidence, Second!Prep!_link_ro_research_evidence,
       Shop!Repeated!Records, Second!Prep!Records,
       Shop!Repeated!build_missing_si_actions, Second!Prep!build_missing_si_actions,
       Shop!Repeated!ActiveItem, Second!Prep!ActiveItem, Shop!Repeated!Judge,
       Second!Prep!Judge, Shop!Repeated!Ready, Second!Prep!Ready,
       Shop!Repeated!reconcile_ok, Second!Prep!reconcile_ok,
       Shop!Repeated!_reconciliation_issues, Second!Prep!_reconciliation_issues,
       Shop!Repeated!Agrees, Second!Prep!Agrees, Shop!Repeated!Gap, Second!Prep!Gap
  <2>3. ASSUME NEW x
        PROVE
         (\/ Shop!Repeated!_save_weekly_queue(x) \/ Shop!Repeated!Stop(x)) =>
         (\/ Second!Prep!_save_weekly_queue(x) \/ Second!Prep!Stop(x))
    BY Zenon DEF Shop!Repeated!_save_weekly_queue, Second!Prep!_save_weekly_queue,
       Shop!Repeated!Stored, Second!Prep!Stored, Shop!Repeated!Cardinality,
       Second!Prep!Cardinality, Shop!Repeated!Rows, Second!Prep!Rows,
       Shop!Repeated!Becomes, Second!Prep!Becomes, Shop!Repeated!Ended,
       Second!Prep!Ended, Shop!Repeated!NoAudit, Second!Prep!NoAudit,
       Shop!Repeated!Stop, Second!Prep!Stop, Shop!Repeated!Rest, Second!Prep!Rest
  <2>4. ASSUME NEW x, NEW o PROVE Shop!Repeated!Load(x, o) => Second!Prep!Load(x, o)
    BY Zenon DEF Shop!Repeated!Load, Second!Prep!Load, Shop!Repeated!Becomes,
       Second!Prep!Becomes, Shop!Repeated!Snapshot, Second!Prep!Snapshot,
       Shop!Repeated!Rest, Second!Prep!Rest
  <2>5. ASSUME NEW x PROVE Shop!Repeated!Others(x) => Second!Prep!Others(x)
    BY Zenon DEF Shop!Repeated!Others, Second!Prep!Others, Shop!Repeated!Absent,
       Second!Prep!Absent
  <2> QED
    BY <2>1, <2>2, <2>3, <2>4, <2>5, Zenon DEF Shop!Repeated!Next, Second!Prep!Next,
       Shop!Repeated!Step, Second!Prep!Step
<1> QED
  BY <1>3, <1>4

(* The same of the scenario that follows. *)
LEMMA RepeatedEnough ==
    ASSUME Second!WeekInv
    PROVE  Shop!Repeated!ReadyIsTrue /\ Shop!Repeated!EditsOpenResearch /\ Shop!Repeated!QueueIsLastAudit
<1>1. Second!Prep!ReadyIsTrue /\ Second!Prep!EditsOpenResearch /\ Second!Prep!QueueIsLastAudit
  BY Second!Enough
<1> QED
  BY <1>1, Zenon DEF Shop!Repeated!ReadyIsTrue, Second!Prep!ReadyIsTrue, Shop!Repeated!Cur,
     Second!Prep!Cur, Shop!Repeated!Agrees, Second!Prep!Agrees,
     Shop!Repeated!ActiveFor, Second!Prep!ActiveFor, Shop!Repeated!Matches,
     Second!Prep!Matches, Shop!Repeated!Active, Second!Prep!Active,
     Shop!Repeated!Suits, Second!Prep!Suits, Shop!Repeated!Snap, Second!Prep!Snap,
     Shop!Repeated!EditsOpenResearch, Second!Prep!EditsOpenResearch,
     Shop!Repeated!QueueIsLastAudit, Second!Prep!QueueIsLastAudit, Shop!Repeated!Rows,
     Second!Prep!Rows

(* Audits that are repeated add an item once. *)
LEMMA RepeatedOnce == ASSUME Second!OnlyOnce PROVE Shop!Repeated!OneItemPerCalibration
<1>1. Second!Prep!OneItemPerCalibration
  BY Second!Counts
<1>2. \A S : Shop!Repeated!Cardinality(S) = Second!Prep!Cardinality(S)
  BY Zenon DEF Shop!Repeated!Cardinality, Second!Prep!Cardinality
<1> QED
  BY <1>1, <1>2 DEF Shop!Repeated!OneItemPerCalibration, Second!Prep!OneItemPerCalibration,
     Shop!Repeated!Alone, Second!Prep!Alone, Shop!Repeated!Matches, Second!Prep!Matches

(* The map names a calibration once where audits are repeated. *)
LEMMA RepeatedDistinctly == Second!Distinctly
  BY Names DEF Second!Distinctly, Shop!Front

(* What a step of the scenario records is proved by a reading. *)
LEMMA RepeatedRecords ==
    ASSUME Second!WeekInv, [Second!Prep!Next]_Second!Prep!vars
    PROVE  Shop!Repeated!RecordsProven
<1>1. Second!Prep!RecordsProven
  BY Second!RecordsStep
<1> QED
  BY <1>1, Zenon DEF Shop!Repeated!RecordsProven, Second!Prep!RecordsProven,
     Shop!Repeated!ActiveItem, Second!Prep!ActiveItem, Shop!Repeated!ActiveFor,
     Second!Prep!ActiveFor, Shop!Repeated!Matches, Second!Prep!Matches,
     Shop!Repeated!Active, Second!Prep!Active, Shop!Repeated!Snap, Second!Prep!Snap,
     Shop!Repeated!Cur, Second!Prep!Cur

(* The scenario "edit" starts and moves as it does alone. *)
LEMMA EditAlone == (Shop!Edit!Init => Second!Know!Init) /\ (Shop!Edit!Next => Second!Know!Next)
<1>1. ASSUME Shop!Edit!Init PROVE Second!Know!Init
  BY <1>1 DEF Shop!Edit!Init, Second!Know!Init, Shop!Edit!Empty, Second!Know!Empty
<1>2. Shop!Edit!Next => Second!Know!Next
  <2>1. ASSUME NEW x PROVE Shop!Edit!Replace(x) => Second!Know!Replace(x)
    BY Zenon DEF Shop!Edit!Replace, Second!Know!Replace, Shop!Edit!base,
       Second!Know!base
  <2>2. ASSUME NEW x
        PROVE
         (\/ Shop!Edit!Recall(x) \/ Shop!Edit!Library(x) \/ Shop!Edit!Unsatisfied(x)
          \/ Shop!Edit!Accepted(x) \/ Shop!Edit!Captured(x) \/ Shop!Edit!Promoted(x)) =>
         (\/ Second!Know!Recall(x) \/ Second!Know!Library(x)
          \/ Second!Know!Unsatisfied(x) \/ Second!Know!Accepted(x)
          \/ Second!Know!Captured(x) \/ Second!Know!Promoted(x))
    BY Zenon DEF Shop!Edit!Recall, Second!Know!Recall, Shop!Edit!search,
       Second!Know!search, Shop!Edit!Effective, Second!Know!Effective, Shop!Edit!Source,
       Second!Know!Source, Shop!Edit!_source_content_validation,
       Second!Know!_source_content_validation, Shop!Edit!base, Second!Know!base,
       Shop!Edit!Library, Second!Know!Library, Shop!Edit!Unsatisfied,
       Second!Know!Unsatisfied, Shop!Edit!Goes, Second!Know!Goes, Shop!Edit!Accepted,
       Second!Know!Accepted, Shop!Edit!Captured, Second!Know!Captured,
       Shop!Edit!Promoted, Second!Know!Promoted, Shop!Edit!create_record,
       Second!Know!create_record, Shop!Edit!_insert_source, Second!Know!_insert_source,
       Shop!Edit!_insert_evidence, Second!Know!_insert_evidence, Shop!Edit!Quote,
       Second!Know!Quote, Shop!Edit!Climbs, Second!Know!Climbs, Shop!Edit!Rank,
       Second!Know!Rank, Shop!Edit!LIFECYCLES, Second!Know!LIFECYCLES,
       Shop!Edit!_validate_target_lifecycle, Second!Know!_validate_target_lifecycle,
       Shop!Edit!Rows, Second!Know!Rows, Shop!Edit!_rehash_record_sources,
       Second!Know!_rehash_record_sources, Shop!Edit!Higher, Second!Know!Higher,
       Shop!Edit!Steps, Second!Know!Steps, Shop!Edit!Climbed, Second!Know!Climbed,
       Shop!Edit!Learned, Second!Know!Learned, Shop!Edit!Refuses, Second!Know!Refuses
  <2>3. ASSUME NEW x
        PROVE
         (\/ Shop!Edit!Capture(x) \/ Shop!Edit!Store(x) \/ Shop!Edit!Look(x)
          \/ Shop!Edit!Conflict(x) \/ Shop!Edit!Offer(x)) =>
         (\/ Second!Know!Capture(x) \/ Second!Know!Store(x) \/ Second!Know!Look(x)
          \/ Second!Know!Conflict(x) \/ Second!Know!Offer(x))
    BY Zenon DEF Shop!Edit!Capture, Second!Know!Capture, Shop!Edit!Facade,
       Second!Know!Facade, Shop!Edit!_source_content_validation,
       Second!Know!_source_content_validation, Shop!Edit!Source, Second!Know!Source,
       Shop!Edit!Wanted, Second!Know!Wanted, Shop!Edit!_validate_target_lifecycle,
       Second!Know!_validate_target_lifecycle, Shop!Edit!base, Second!Know!base,
       Shop!Edit!Store, Second!Know!Store, Shop!Edit!create_record,
       Second!Know!create_record, Shop!Edit!_insert_source, Second!Know!_insert_source,
       Shop!Edit!_insert_evidence, Second!Know!_insert_evidence, Shop!Edit!Quote,
       Second!Know!Quote, Shop!Edit!Climbs, Second!Know!Climbs, Shop!Edit!Rank,
       Second!Know!Rank, Shop!Edit!LIFECYCLES, Second!Know!LIFECYCLES, Shop!Edit!Rows,
       Second!Know!Rows, Shop!Edit!_rehash_record_sources,
       Second!Know!_rehash_record_sources, Shop!Edit!Higher, Second!Know!Higher,
       Shop!Edit!Steps, Second!Know!Steps, Shop!Edit!Climbed, Second!Know!Climbed,
       Shop!Edit!Refuses, Second!Know!Refuses, Shop!Edit!Look, Second!Know!Look,
       Shop!Edit!Content, Second!Know!Content, Shop!Edit!Conflict, Second!Know!Conflict,
       Shop!Edit!Fits, Second!Know!Fits, Shop!Edit!Offer, Second!Know!Offer
  <2>4. ASSUME NEW x
        PROVE
         (\/ Shop!Edit!add_evidence(x) \/ Shop!Edit!review_evidence(x)
          \/ Shop!Edit!promote(x) \/ Shop!Edit!supersede(x)) =>
         (\/ Second!Know!add_evidence(x) \/ Second!Know!review_evidence(x)
          \/ Second!Know!promote(x) \/ Second!Know!supersede(x))
    BY Zenon DEF Shop!Edit!add_evidence, Second!Know!add_evidence,
       Shop!Edit!Expects, Second!Know!Expects, Shop!Edit!Fits, Second!Know!Fits,
       Shop!Edit!_insert_evidence, Second!Know!_insert_evidence, Shop!Edit!Quote,
       Second!Know!Quote, Shop!Edit!_insert_source, Second!Know!_insert_source,
       Shop!Edit!Source, Second!Know!Source, Shop!Edit!review_evidence,
       Second!Know!review_evidence, Shop!Edit!_rehash_record_sources,
       Second!Know!_rehash_record_sources, Shop!Edit!_source_content_validation,
       Second!Know!_source_content_validation, Shop!Edit!Reviewable,
       Second!Know!Reviewable, Shop!Edit!base, Second!Know!base, Shop!Edit!promote,
       Second!Know!promote, Shop!Edit!Rank, Second!Know!Rank, Shop!Edit!LIFECYCLES,
       Second!Know!LIFECYCLES, Shop!Edit!Climbs, Second!Know!Climbs,
       Shop!Edit!_validate_target_lifecycle, Second!Know!_validate_target_lifecycle,
       Shop!Edit!Rows, Second!Know!Rows, Shop!Edit!Steps, Second!Know!Steps,
       Shop!Edit!Climbed, Second!Know!Climbed, Shop!Edit!supersede,
       Second!Know!supersede, Shop!Edit!Replaces, Second!Know!Replaces
  <2> QED
    BY <2>1, <2>2, <2>3, <2>4, Zenon DEF Shop!Edit!Next, Second!Know!Next
<1> QED
  BY <1>1, <1>2

(* What holds of it alone, and of its steps. *)
LEMMA EditEnough ==
    /\ Second!Know!VerifiedIsGrounded => Shop!Edit!VerifiedIsGrounded
    /\ Second!Know!TrustIsFresh => Shop!Edit!TrustIsFresh
    /\ Second!Know!OnWhatWasRead => Shop!Edit!OnWhatWasRead
<1>1. Second!Know!VerifiedIsGrounded => Shop!Edit!VerifiedIsGrounded
  BY Zenon DEF Shop!Edit!VerifiedIsGrounded, Second!Know!VerifiedIsGrounded,
     Shop!Edit!Grounded, Second!Know!Grounded, Shop!Edit!Source, Second!Know!Source,
     Shop!Edit!LeadsTo, Second!Know!LeadsTo
<1>2. Second!Know!TrustIsFresh => Shop!Edit!TrustIsFresh
  BY Zenon DEF Shop!Edit!TrustIsFresh, Second!Know!TrustIsFresh, Shop!Edit!GroundedNow,
     Second!Know!GroundedNow, Shop!Edit!Source, Second!Know!Source
<1>3. Second!Know!OnWhatWasRead => Shop!Edit!OnWhatWasRead
  BY Zenon DEF Shop!Edit!OnWhatWasRead, Second!Know!OnWhatWasRead, Shop!Edit!Content,
     Second!Know!Content
<1> QED
  BY <1>1, <1>2, <1>3

(* The scenario "again" starts and moves as it does alone. *)
LEMMA AgainCallsAlone == (Shop!Again!Init => Second!Ciq!Init) /\ (Shop!Again!Next => Second!Ciq!Next)
<1>1. Shop!Again!Init => Second!Ciq!Init
  BY DEF Shop!Again!Init, Second!Ciq!Init, Shop!Again!Idle, Second!Ciq!Idle
<1>2. Shop!Again!Next => Second!Ciq!Next
  <2>1.
         (\/ Shop!Again!Serve \/ Shop!Again!Others) =>
         (\/ Second!Ciq!Serve \/ Second!Ciq!Others)
    BY Zenon DEF Shop!Again!Serve, Second!Ciq!Serve,
       Shop!Again!_stable_action_ids, Second!Ciq!_stable_action_ids,
       Shop!Again!Cardinality, Second!Ciq!Cardinality, Shop!Again!ciq, Second!Ciq!ciq,
       Shop!Again!Fits, Second!Ciq!Fits, Shop!Again!Performs, Second!Ciq!Performs,
       Shop!Again!Effect, Second!Ciq!Effect, Shop!Again!Evidence, Second!Ciq!Evidence,
       Shop!Again!Others, Second!Ciq!Others
  <2>2. ASSUME NEW x PROVE Shop!Again!Research(x) => Second!Ciq!Research(x)
    BY Zenon DEF Shop!Again!Research, Second!Ciq!Research, Shop!Again!Set,
       Second!Ciq!Set, Shop!Again!_expand_research_action,
       Second!Ciq!_expand_research_action, Shop!Again!SetToSeq, Second!Ciq!SetToSeq,
       Shop!Again!IsInjective, Second!Ciq!IsInjective, Shop!Again!Cardinality,
       Second!Ciq!Cardinality, Shop!Again!DocumentAction, Second!Ciq!DocumentAction,
       Shop!Again!_matching_existing_document, Second!Ciq!_matching_existing_document,
       Shop!Again!Matching, Second!Ciq!Matching, Shop!Again!Links, Second!Ciq!Links,
       Shop!Again!Contested, Second!Ciq!Contested, Shop!Again!Validated,
       Second!Ciq!Validated, Shop!Again!Found, Second!Ciq!Found,
       Shop!Again!eligible_complete, Second!Ciq!eligible_complete, Shop!Again!Supported,
       Second!Ciq!Supported, Shop!Again!CompletionVersion, Second!Ciq!CompletionVersion,
       Shop!Again!ciq, Second!Ciq!ciq
  <2>3. ASSUME NEW x
        PROVE
         (\/ Shop!Again!Begin(x) \/ Shop!Again!_repair_from_attached_adas_map(x)
          \/ Shop!Again!Notes(x)) =>
         (\/ Second!Ciq!Begin(x) \/ Second!Ciq!_repair_from_attached_adas_map(x)
          \/ Second!Ciq!Notes(x))
    BY Zenon DEF Shop!Again!Begin, Second!Ciq!Begin, Shop!Again!Ended,
       Second!Ciq!Ended, Shop!Again!Set, Second!Ciq!Set, Shop!Again!Idle,
       Second!Ciq!Idle, Shop!Again!Snapshot, Second!Ciq!Snapshot, Shop!Again!Unresolved,
       Second!Ciq!Unresolved, Shop!Again!ciq, Second!Ciq!ciq,
       Shop!Again!_repair_from_attached_adas_map,
       Second!Ciq!_repair_from_attached_adas_map, Shop!Again!_attached_map_vin,
       Second!Ciq!_attached_map_vin, Shop!Again!Cardinality, Second!Ciq!Cardinality,
       Shop!Again!Notes, Second!Ciq!Notes
  <2>4. ASSUME NEW x
        PROVE
         (\/ Shop!Again!Post(x) \/ Shop!Again!NoReceipt(x) \/ Shop!Again!Receipts(x)
          \/ Shop!Again!Reread(x) \/ Shop!Again!VerifyVin(x)) =>
         (\/ Second!Ciq!Post(x) \/ Second!Ciq!NoReceipt(x) \/ Second!Ciq!Receipts(x)
          \/ Second!Ciq!Reread(x) \/ Second!Ciq!VerifyVin(x))
    BY Zenon DEF Shop!Again!Post, Second!Ciq!Post, Shop!Again!Set, Second!Ciq!Set,
       Shop!Again!ciq, Second!Ciq!ciq, Shop!Again!NoReceipt, Second!Ciq!NoReceipt,
       Shop!Again!Receipts, Second!Ciq!Receipts, Shop!Again!Reread, Second!Ciq!Reread,
       Shop!Again!CompletionVerified, Second!Ciq!CompletionVerified,
       Shop!Again!_verify_persisted_research_evidence,
       Second!Ciq!_verify_persisted_research_evidence, Shop!Again!Evidence,
       Second!Ciq!Evidence, Shop!Again!VerifyVin, Second!Ciq!VerifyVin
  <2> QED
    BY <2>1, <2>2, <2>3, <2>4, Zenon DEF Shop!Again!Next, Second!Ciq!Next
<1> QED
  BY <1>1, <1>2

(* The same of the scenario that follows. *)
LEMMA AgainCallsEnough ==
    ASSUME Second!OInv
    PROVE  Shop!Again!IntentOnce /\ Shop!Again!OnWhatWasRead /\ Shop!Again!SuccessIsReal
<1>1. Second!Ciq!IntentOnce /\ Second!Ciq!OnWhatWasRead /\ Second!Ciq!SuccessIsReal
  BY Second!OIntent, Second!OSuccess DEF Second!OInv
<1> QED
  BY <1>1, Zenon DEF Shop!Again!IntentOnce, Second!Ciq!IntentOnce, Shop!Again!Took,
     Second!Ciq!Took, Shop!Again!Cardinality, Second!Ciq!Cardinality, Shop!Again!Asked,
     Second!Ciq!Asked, Shop!Again!OnWhatWasRead, Second!Ciq!OnWhatWasRead,
     Shop!Again!SuccessIsReal, Second!Ciq!SuccessIsReal

(* What research finds in these scenarios is about documents and calibrations. *)
LEMMA SecondSearched == Second!Searched
<1>1. /\ [c \in {c1} |-> {d1}] \in [{c1} -> SUBSET {d1}]
      /\ [c \in {c1} |-> {}] \in [{c1} -> SUBSET {d1}]
  OBVIOUS
<1>2. Second!IsFiniteSet({d1})
  BY FewDocuments, Zenon DEF Second!IsFiniteSet, Members!IsFiniteSet
<1> QED
  BY <1>1, <1>2 DEF Second!Searched

(* Research claims what can be recorded, and callers offer evidence. *)
LEMMA SecondClaimed == Second!Claimed
  BY DEF Second!Claimed, Second!Offered, Second!Statuses, Shop!Draft

\* What the second scenarios keep.
SecondKept ==
    /\ scenario = "repeated" => Second!WeekInv /\ Second!OnlyOnce
    /\ scenario = "edit" => Second!KnowledgeInv
    /\ scenario = "again" => Second!OInv

(* Every start of the run is one of these scenarios that is kept. *)
LEMMA SecondBegins == ASSUME Init PROVE SecondKept
  BY Starts, RepeatedAlone, AgainCallsAlone, EditAlone, Second!WeekBegins, Second!OInit,
     Second!KnowledgeBegins, SecondClaimed, Second!OnlyOnceBegins, RepeatedDistinctly DEF
     SecondKept

(* In these scenarios the records move as they do alone, or not at all. *)
LEMMA SecondMoves ==
    ASSUME [Next]_vars
    PROVE  /\ scenario' = scenario
           /\ scenario = "repeated" => [Second!Prep!Next]_Second!Prep!vars
           /\ scenario = "edit" => [Second!Know!Next]_Second!Know!vars
           /\ scenario = "again" => [Second!Ciq!Next]_Second!Ciq!vars
<1>1. UNCHANGED Shop!auditVars => UNCHANGED Second!Prep!vars
  BY DEF Shop!auditVars, Second!Prep!vars
<1>2. UNCHANGED Shop!knowledgeVars => UNCHANGED Second!Know!vars
  BY DEF Shop!knowledgeVars, Second!Know!vars, Second!Know!base
<1>3. UNCHANGED Shop!operatorVars => UNCHANGED Second!Ciq!vars
  BY DEF Shop!operatorVars, Second!Ciq!vars
<1> QED
  BY <1>1, <1>2, <1>3, Moves, RepeatedAlone, EditAlone, AgainCallsAlone

(* Every step of the run keeps them. *)
LEMMA SecondStays == ASSUME SecondKept, [Next]_vars PROVE SecondKept'
  BY SecondMoves, SecondSearched, SecondClaimed, Second!WeekContinues, Second!OStep,
     Second!OStutter, Second!KnowledgeContinues, Second!OnlyOnceStays, RepeatedDistinctly
     DEF SecondKept

(* What is kept is what the run checks. *)
LEMMA SecondShows ==
    ASSUME SecondKept
    PROVE  /\ scenario = "repeated" =>
                 /\ Shop!Repeated!ReadyIsTrue
                 /\ Shop!Repeated!EditsOpenResearch
                 /\ Shop!Repeated!OneItemPerCalibration
                 /\ Shop!Repeated!QueueIsLastAudit
           /\ scenario = "edit" => Shop!Edit!VerifiedIsGrounded
           /\ scenario = "again" =>
                 /\ Shop!Again!IntentOnce
                 /\ Shop!Again!OnWhatWasRead
                 /\ Shop!Again!SuccessIsReal
  BY RepeatedEnough, RepeatedOnce, EditEnough, Second!Grounds, AgainCallsEnough DEF
     SecondKept

(* What is recorded and trusted in these scenarios is earned. *)
LEMMA SecondEarns ==
    ASSUME SecondKept, [Next]_vars
    PROVE  /\ scenario = "repeated" => Shop!Repeated!RecordsProven
           /\ scenario = "edit" => Shop!Edit!TrustIsFresh /\ Shop!Edit!OnWhatWasRead
  BY SecondMoves, SecondClaimed, Second!Trusts, Second!WorksOnWhatWasRead, EditEnough,
     RepeatedRecords DEF SecondKept

-----------------------------------------------------------------------------
\* The third scenarios.
Third == INSTANCE RecordsProofs WITH Accounts <- {g1, g2, g3},
             Email <- (g1 :> "e1" @@ g2 :> "e2" @@ g3 :> "e2"), Attempts <- {i1, i2},
             session <- signed, Turns <- {t1, t2}, Pages <- {}, MaxPreviews <- 0,
             Orders <- {o1, o2}, MaxVersion <- 2, edit <- revising, result <- revised,
             file <- held, changes <- replaced, call <- edit,
             Records <- {r1, r2, r3}, Files <- {"f"}, Contents <- {"u", "v"},
             Learners <- {k1, k2, m1}, 
             Claim <- [l \in {k1, k2, m1} |-> IF l = k1 THEN r1 ELSE IF l = k2 THEN r2 ELSE r3],
             Reads <- [l \in {k1, k2, m1} |-> "f"], Callers <- {c1, c2},
             Ops <- {"supersede"}, Drafts <- {}, MaxChanges <- 1, Quiet <- FALSE,
             Audits <- {a1, a2}, Conversation <- [a \in {a1, a2} |-> IF a = a1 THEN m1 ELSE m2], Executing <- {},
             Unbound <- {}, Due <- {o1}, Ids <- {i1}, Cals <- {c1},
             Governs <- [o \in {o1} |-> Shop!Front], Methods <- {static}, Unknown <- unknown,
             MAX_QUEUE_ITEMS <- 1, MAX_STORED_CONVERSATIONS <- 1, MaxOthers <- 0,
             Calls <- {k1, k2}, Message <- (k1 :> m1 @@ k2 :> m2),
             Kind <- (k1 :> "vin" @@ k2 :> "note"), Needed <- {}, Docs <- {},
             Vins <- {v1, v2}, MaxTouch <- 1, Findings <- {}, calls <- call

(* The scenario "together" starts and moves as it does alone. *)
LEMMA TogetherAlone == (Shop!Together!Init => Third!Prep!Init) /\ (Shop!Together!Next => Third!Prep!Next)
<1>1. Shop!Together!Absent = Third!Prep!Absent /\ Shop!Together!NoAudit = Third!Prep!NoAudit
  BY DEF Shop!Together!Absent, Third!Prep!Absent, Shop!Together!NoAudit, Third!Prep!NoAudit
<1>2. {[[i \in {i1} |-> Shop!Together!Absent] EXCEPT ![k] =
          [cal |-> c, det |-> d, method |-> unknown, named |-> FALSE, ver |-> 1]] :
             k \in {i1}, c \in {c1}, d \in {"POSSIBLE", "EXCLUDED"}} =
      {[[i \in {i1} |-> Third!Prep!Absent] EXCEPT ![k] =
          [cal |-> c, det |-> d, method |-> unknown, named |-> FALSE, ver |-> 1]] :
             k \in {i1}, c \in {c1}, d \in {"POSSIBLE", "EXCLUDED"}}
  BY <1>1
<1>3. Shop!Together!Init => Third!Prep!Init
  BY <1>1, <1>2 DEF Shop!Together!Init, Third!Prep!Init
<1>4. Shop!Together!Next => Third!Prep!Next
  <2>1. ASSUME NEW x
        PROVE
         (\/ Shop!Together!Query(x) \/ Shop!Together!Take(x)
          \/ Shop!Together!_acquire_adas_map_gap(x) \/ Shop!Together!_reconcile_one(x)
          \/ Shop!Together!Reopen(x)) =>
         (\/ Third!Prep!Query(x) \/ Third!Prep!Take(x)
          \/ Third!Prep!_acquire_adas_map_gap(x) \/ Third!Prep!_reconcile_one(x)
          \/ Third!Prep!Reopen(x))
    BY Zenon DEF Shop!Together!Query, Third!Prep!Query, Shop!Together!NoAudit,
       Third!Prep!NoAudit, Shop!Together!Cardinality, Third!Prep!Cardinality,
       Shop!Together!Rest, Third!Prep!Rest, Shop!Together!Take, Third!Prep!Take,
       Shop!Together!_discover_adas_map, Third!Prep!_discover_adas_map,
       Shop!Together!Becomes, Third!Prep!Becomes, Shop!Together!_acquire_adas_map_gap,
       Third!Prep!_acquire_adas_map_gap, Shop!Together!Cur, Third!Prep!Cur,
       Shop!Together!_reconcile_one, Third!Prep!_reconcile_one, Shop!Together!Planned,
       Third!Prep!Planned, Shop!Together!build_reconciliation_actions,
       Third!Prep!build_reconciliation_actions, Shop!Together!ActionFor,
       Third!Prep!ActionFor, Shop!Together!Matches, Third!Prep!Matches,
       Shop!Together!Suits, Third!Prep!Suits, Shop!Together!Update, Third!Prep!Update,
       Shop!Together!Candidate, Third!Prep!Candidate, Shop!Together!ActiveFor,
       Third!Prep!ActiveFor, Shop!Together!Active, Third!Prep!Active,
       Shop!Together!Snap, Third!Prep!Snap, Shop!Together!Reopen, Third!Prep!Reopen
  <2>2. ASSUME NEW x
        PROVE
         (\/ Shop!Together!Reopened(x) \/ Shop!Together!Edit(x)
          \/ Shop!Together!EditReread(x) \/ Shop!Together!_catalog_coverage(x)
          \/ Shop!Together!_link_ro_research_evidence(x) \/ Shop!Together!Records(x)
          \/ Shop!Together!Judge(x)) =>
         (\/ Third!Prep!Reopened(x) \/ Third!Prep!Edit(x) \/ Third!Prep!EditReread(x)
          \/ Third!Prep!_catalog_coverage(x)
          \/ Third!Prep!_link_ro_research_evidence(x) \/ Third!Prep!Records(x)
          \/ Third!Prep!Judge(x))
    BY Zenon DEF Shop!Together!Reopened, Third!Prep!Reopened,
       Shop!Together!Snapshot, Third!Prep!Snapshot, Shop!Together!Cur, Third!Prep!Cur,
       Shop!Together!Planned, Third!Prep!Planned,
       Shop!Together!build_reconciliation_actions,
       Third!Prep!build_reconciliation_actions, Shop!Together!ActionFor,
       Third!Prep!ActionFor, Shop!Together!Matches, Third!Prep!Matches,
       Shop!Together!Suits, Third!Prep!Suits, Shop!Together!Cardinality,
       Third!Prep!Cardinality, Shop!Together!Update, Third!Prep!Update,
       Shop!Together!Candidate, Third!Prep!Candidate, Shop!Together!ActiveFor,
       Third!Prep!ActiveFor, Shop!Together!Active, Third!Prep!Active,
       Shop!Together!Snap, Third!Prep!Snap, Shop!Together!Becomes, Third!Prep!Becomes,
       Shop!Together!Reread, Third!Prep!Reread, Shop!Together!Rest, Third!Prep!Rest,
       Shop!Together!Edit, Third!Prep!Edit, Shop!Together!Fits, Third!Prep!Fits,
       Shop!Together!Places, Third!Prep!Places, Shop!Together!Absent, Third!Prep!Absent,
       Shop!Together!Edited, Third!Prep!Edited, Shop!Together!EditReread,
       Third!Prep!EditReread, Shop!Together!_catalog_coverage,
       Third!Prep!_catalog_coverage, Shop!Together!_link_ro_research_evidence,
       Third!Prep!_link_ro_research_evidence, Shop!Together!Records, Third!Prep!Records,
       Shop!Together!build_missing_si_actions, Third!Prep!build_missing_si_actions,
       Shop!Together!ActiveItem, Third!Prep!ActiveItem, Shop!Together!Judge,
       Third!Prep!Judge, Shop!Together!Ready, Third!Prep!Ready,
       Shop!Together!reconcile_ok, Third!Prep!reconcile_ok,
       Shop!Together!_reconciliation_issues, Third!Prep!_reconciliation_issues,
       Shop!Together!Agrees, Third!Prep!Agrees, Shop!Together!Gap, Third!Prep!Gap
  <2>3. ASSUME NEW x
        PROVE
         (\/ Shop!Together!_save_weekly_queue(x) \/ Shop!Together!Stop(x)) =>
         (\/ Third!Prep!_save_weekly_queue(x) \/ Third!Prep!Stop(x))
    BY Zenon DEF Shop!Together!_save_weekly_queue, Third!Prep!_save_weekly_queue,
       Shop!Together!Stored, Third!Prep!Stored, Shop!Together!Cardinality,
       Third!Prep!Cardinality, Shop!Together!Rows, Third!Prep!Rows,
       Shop!Together!Becomes, Third!Prep!Becomes, Shop!Together!Ended, Third!Prep!Ended,
       Shop!Together!NoAudit, Third!Prep!NoAudit, Shop!Together!Stop, Third!Prep!Stop,
       Shop!Together!Rest, Third!Prep!Rest
  <2>4. ASSUME NEW x, NEW o PROVE Shop!Together!Load(x, o) => Third!Prep!Load(x, o)
    BY Zenon DEF Shop!Together!Load, Third!Prep!Load, Shop!Together!Becomes,
       Third!Prep!Becomes, Shop!Together!Snapshot, Third!Prep!Snapshot,
       Shop!Together!Rest, Third!Prep!Rest
  <2>5. ASSUME NEW x PROVE Shop!Together!Others(x) => Third!Prep!Others(x)
    BY Zenon DEF Shop!Together!Others, Third!Prep!Others, Shop!Together!Absent,
       Third!Prep!Absent
  <2> QED
    BY <2>1, <2>2, <2>3, <2>4, <2>5, Zenon DEF Shop!Together!Next, Third!Prep!Next,
       Shop!Together!Step, Third!Prep!Step
<1> QED
  BY <1>3, <1>4

(* The same of the scenario that follows. *)
LEMMA TogetherEnough ==
    ASSUME Third!WeekInv
    PROVE  Shop!Together!ReadyIsTrue /\ Shop!Together!EditsOpenResearch /\ Shop!Together!QueueIsLastAudit
<1>1. Third!Prep!ReadyIsTrue /\ Third!Prep!EditsOpenResearch /\ Third!Prep!QueueIsLastAudit
  BY Third!Enough
<1> QED
  BY <1>1, Zenon DEF Shop!Together!ReadyIsTrue, Third!Prep!ReadyIsTrue, Shop!Together!Cur,
     Third!Prep!Cur, Shop!Together!Agrees, Third!Prep!Agrees, Shop!Together!ActiveFor,
     Third!Prep!ActiveFor, Shop!Together!Matches, Third!Prep!Matches,
     Shop!Together!Active, Third!Prep!Active, Shop!Together!Suits, Third!Prep!Suits,
     Shop!Together!Snap, Third!Prep!Snap, Shop!Together!EditsOpenResearch,
     Third!Prep!EditsOpenResearch, Shop!Together!QueueIsLastAudit,
     Third!Prep!QueueIsLastAudit, Shop!Together!Rows, Third!Prep!Rows

(* What a step of the scenario records is proved by a reading. *)
LEMMA TogetherRecords ==
    ASSUME Third!WeekInv, [Third!Prep!Next]_Third!Prep!vars
    PROVE  Shop!Together!RecordsProven
<1>1. Third!Prep!RecordsProven
  BY Third!RecordsStep
<1> QED
  BY <1>1, Zenon DEF Shop!Together!RecordsProven, Third!Prep!RecordsProven,
     Shop!Together!ActiveItem, Third!Prep!ActiveItem, Shop!Together!ActiveFor,
     Third!Prep!ActiveFor, Shop!Together!Matches, Third!Prep!Matches,
     Shop!Together!Active, Third!Prep!Active, Shop!Together!Snap, Third!Prep!Snap,
     Shop!Together!Cur, Third!Prep!Cur

(* The scenario "supersede" starts and moves as it does alone. *)
LEMMA SupersedeAlone == (Shop!Supersede!Init => Third!Know!Init) /\ (Shop!Supersede!Next => Third!Know!Next)
<1>1. ASSUME Shop!Supersede!Init PROVE Third!Know!Init
  BY <1>1 DEF Shop!Supersede!Init, Third!Know!Init, Shop!Supersede!Empty,
     Third!Know!Empty
<1>2. Shop!Supersede!Next => Third!Know!Next
  <2>1. ASSUME NEW x PROVE Shop!Supersede!Replace(x) => Third!Know!Replace(x)
    BY Zenon DEF Shop!Supersede!Replace, Third!Know!Replace, Shop!Supersede!base,
       Third!Know!base
  <2>2. ASSUME NEW x
        PROVE
         (\/ Shop!Supersede!Recall(x) \/ Shop!Supersede!Library(x)
          \/ Shop!Supersede!Unsatisfied(x) \/ Shop!Supersede!Accepted(x)
          \/ Shop!Supersede!Captured(x) \/ Shop!Supersede!Promoted(x)) =>
         (\/ Third!Know!Recall(x) \/ Third!Know!Library(x)
          \/ Third!Know!Unsatisfied(x) \/ Third!Know!Accepted(x)
          \/ Third!Know!Captured(x) \/ Third!Know!Promoted(x))
    BY Zenon DEF Shop!Supersede!Recall, Third!Know!Recall, Shop!Supersede!search,
       Third!Know!search, Shop!Supersede!Effective, Third!Know!Effective,
       Shop!Supersede!Source, Third!Know!Source,
       Shop!Supersede!_source_content_validation, Third!Know!_source_content_validation,
       Shop!Supersede!base, Third!Know!base, Shop!Supersede!Library, Third!Know!Library,
       Shop!Supersede!Unsatisfied, Third!Know!Unsatisfied, Shop!Supersede!Goes,
       Third!Know!Goes, Shop!Supersede!Accepted, Third!Know!Accepted,
       Shop!Supersede!Captured, Third!Know!Captured, Shop!Supersede!Promoted,
       Third!Know!Promoted, Shop!Supersede!create_record, Third!Know!create_record,
       Shop!Supersede!_insert_source, Third!Know!_insert_source,
       Shop!Supersede!_insert_evidence, Third!Know!_insert_evidence,
       Shop!Supersede!Quote, Third!Know!Quote, Shop!Supersede!Climbs, Third!Know!Climbs,
       Shop!Supersede!Rank, Third!Know!Rank, Shop!Supersede!LIFECYCLES,
       Third!Know!LIFECYCLES, Shop!Supersede!_validate_target_lifecycle,
       Third!Know!_validate_target_lifecycle, Shop!Supersede!Rows, Third!Know!Rows,
       Shop!Supersede!_rehash_record_sources, Third!Know!_rehash_record_sources,
       Shop!Supersede!Higher, Third!Know!Higher, Shop!Supersede!Steps, Third!Know!Steps,
       Shop!Supersede!Climbed, Third!Know!Climbed, Shop!Supersede!Learned,
       Third!Know!Learned, Shop!Supersede!Refuses, Third!Know!Refuses
  <2>3. ASSUME NEW x
        PROVE
         (\/ Shop!Supersede!Capture(x) \/ Shop!Supersede!Store(x)
          \/ Shop!Supersede!Look(x) \/ Shop!Supersede!Conflict(x)
          \/ Shop!Supersede!Offer(x)) =>
         (\/ Third!Know!Capture(x) \/ Third!Know!Store(x) \/ Third!Know!Look(x)
          \/ Third!Know!Conflict(x) \/ Third!Know!Offer(x))
    BY Zenon DEF Shop!Supersede!Capture, Third!Know!Capture,
       Shop!Supersede!Facade, Third!Know!Facade,
       Shop!Supersede!_source_content_validation, Third!Know!_source_content_validation,
       Shop!Supersede!Source, Third!Know!Source, Shop!Supersede!Wanted,
       Third!Know!Wanted, Shop!Supersede!_validate_target_lifecycle,
       Third!Know!_validate_target_lifecycle, Shop!Supersede!base, Third!Know!base,
       Shop!Supersede!Store, Third!Know!Store, Shop!Supersede!create_record,
       Third!Know!create_record, Shop!Supersede!_insert_source,
       Third!Know!_insert_source, Shop!Supersede!_insert_evidence,
       Third!Know!_insert_evidence, Shop!Supersede!Quote, Third!Know!Quote,
       Shop!Supersede!Climbs, Third!Know!Climbs, Shop!Supersede!Rank, Third!Know!Rank,
       Shop!Supersede!LIFECYCLES, Third!Know!LIFECYCLES, Shop!Supersede!Rows,
       Third!Know!Rows, Shop!Supersede!_rehash_record_sources,
       Third!Know!_rehash_record_sources, Shop!Supersede!Higher, Third!Know!Higher,
       Shop!Supersede!Steps, Third!Know!Steps, Shop!Supersede!Climbed,
       Third!Know!Climbed, Shop!Supersede!Refuses, Third!Know!Refuses,
       Shop!Supersede!Look, Third!Know!Look, Shop!Supersede!Content, Third!Know!Content,
       Shop!Supersede!Conflict, Third!Know!Conflict, Shop!Supersede!Fits,
       Third!Know!Fits, Shop!Supersede!Offer, Third!Know!Offer
  <2>4. ASSUME NEW x
        PROVE
         (\/ Shop!Supersede!add_evidence(x) \/ Shop!Supersede!review_evidence(x)
          \/ Shop!Supersede!promote(x) \/ Shop!Supersede!supersede(x)) =>
         (\/ Third!Know!add_evidence(x) \/ Third!Know!review_evidence(x)
          \/ Third!Know!promote(x) \/ Third!Know!supersede(x))
    BY Zenon DEF Shop!Supersede!add_evidence, Third!Know!add_evidence,
       Shop!Supersede!Expects, Third!Know!Expects, Shop!Supersede!Fits, Third!Know!Fits,
       Shop!Supersede!_insert_evidence, Third!Know!_insert_evidence,
       Shop!Supersede!Quote, Third!Know!Quote, Shop!Supersede!_insert_source,
       Third!Know!_insert_source, Shop!Supersede!Source, Third!Know!Source,
       Shop!Supersede!review_evidence, Third!Know!review_evidence,
       Shop!Supersede!_rehash_record_sources, Third!Know!_rehash_record_sources,
       Shop!Supersede!_source_content_validation, Third!Know!_source_content_validation,
       Shop!Supersede!Reviewable, Third!Know!Reviewable, Shop!Supersede!base,
       Third!Know!base, Shop!Supersede!promote, Third!Know!promote, Shop!Supersede!Rank,
       Third!Know!Rank, Shop!Supersede!LIFECYCLES, Third!Know!LIFECYCLES,
       Shop!Supersede!Climbs, Third!Know!Climbs,
       Shop!Supersede!_validate_target_lifecycle, Third!Know!_validate_target_lifecycle,
       Shop!Supersede!Rows, Third!Know!Rows, Shop!Supersede!Steps, Third!Know!Steps,
       Shop!Supersede!Climbed, Third!Know!Climbed, Shop!Supersede!supersede,
       Third!Know!supersede, Shop!Supersede!Replaces, Third!Know!Replaces
  <2> QED
    BY <2>1, <2>2, <2>3, <2>4, Zenon DEF Shop!Supersede!Next, Third!Know!Next
<1> QED
  BY <1>1, <1>2

(* What holds of it alone, and of its steps. *)
LEMMA SupersedeEnough ==
    /\ Third!Know!VerifiedIsGrounded => Shop!Supersede!VerifiedIsGrounded
    /\ Third!Know!TrustIsFresh => Shop!Supersede!TrustIsFresh
    /\ Third!Know!OnWhatWasRead => Shop!Supersede!OnWhatWasRead
<1>1. Third!Know!VerifiedIsGrounded => Shop!Supersede!VerifiedIsGrounded
  BY Zenon DEF Shop!Supersede!VerifiedIsGrounded, Third!Know!VerifiedIsGrounded,
     Shop!Supersede!Grounded, Third!Know!Grounded, Shop!Supersede!Source,
     Third!Know!Source, Shop!Supersede!LeadsTo, Third!Know!LeadsTo
<1>2. Third!Know!TrustIsFresh => Shop!Supersede!TrustIsFresh
  BY Zenon DEF Shop!Supersede!TrustIsFresh, Third!Know!TrustIsFresh,
     Shop!Supersede!GroundedNow, Third!Know!GroundedNow, Shop!Supersede!Source,
     Third!Know!Source
<1>3. Third!Know!OnWhatWasRead => Shop!Supersede!OnWhatWasRead
  BY Zenon DEF Shop!Supersede!OnWhatWasRead, Third!Know!OnWhatWasRead,
     Shop!Supersede!Content, Third!Know!Content
<1> QED
  BY <1>1, <1>2, <1>3

(* The scenario "vin" starts and moves as it does alone. *)
LEMMA VinCallsAlone == (Shop!Vin!Init => Third!Ciq!Init) /\ (Shop!Vin!Next => Third!Ciq!Next)
<1>1. Shop!Vin!Init => Third!Ciq!Init
  BY DEF Shop!Vin!Init, Third!Ciq!Init, Shop!Vin!Idle, Third!Ciq!Idle
<1>2. Shop!Vin!Next => Third!Ciq!Next
  <2>1.
         (\/ Shop!Vin!Serve \/ Shop!Vin!Others) =>
         (\/ Third!Ciq!Serve \/ Third!Ciq!Others)
    BY Zenon DEF Shop!Vin!Serve, Third!Ciq!Serve, Shop!Vin!_stable_action_ids,
       Third!Ciq!_stable_action_ids, Shop!Vin!Cardinality, Third!Ciq!Cardinality,
       Shop!Vin!ciq, Third!Ciq!ciq, Shop!Vin!Fits, Third!Ciq!Fits, Shop!Vin!Performs,
       Third!Ciq!Performs, Shop!Vin!Effect, Third!Ciq!Effect, Shop!Vin!Evidence,
       Third!Ciq!Evidence, Shop!Vin!Others, Third!Ciq!Others
  <2>2. ASSUME NEW x PROVE Shop!Vin!Research(x) => Third!Ciq!Research(x)
    BY Zenon DEF Shop!Vin!Research, Third!Ciq!Research, Shop!Vin!Set,
       Third!Ciq!Set, Shop!Vin!_expand_research_action,
       Third!Ciq!_expand_research_action, Shop!Vin!SetToSeq, Third!Ciq!SetToSeq,
       Shop!Vin!IsInjective, Third!Ciq!IsInjective, Shop!Vin!Cardinality,
       Third!Ciq!Cardinality, Shop!Vin!DocumentAction, Third!Ciq!DocumentAction,
       Shop!Vin!_matching_existing_document, Third!Ciq!_matching_existing_document,
       Shop!Vin!Matching, Third!Ciq!Matching, Shop!Vin!Links, Third!Ciq!Links,
       Shop!Vin!Contested, Third!Ciq!Contested, Shop!Vin!Validated, Third!Ciq!Validated,
       Shop!Vin!Found, Third!Ciq!Found, Shop!Vin!eligible_complete,
       Third!Ciq!eligible_complete, Shop!Vin!Supported, Third!Ciq!Supported,
       Shop!Vin!CompletionVersion, Third!Ciq!CompletionVersion, Shop!Vin!ciq,
       Third!Ciq!ciq
  <2>3. ASSUME NEW x
        PROVE
         (\/ Shop!Vin!Begin(x) \/ Shop!Vin!_repair_from_attached_adas_map(x)
          \/ Shop!Vin!Notes(x)) =>
         (\/ Third!Ciq!Begin(x) \/ Third!Ciq!_repair_from_attached_adas_map(x)
          \/ Third!Ciq!Notes(x))
    BY Zenon DEF Shop!Vin!Begin, Third!Ciq!Begin, Shop!Vin!Ended, Third!Ciq!Ended,
       Shop!Vin!Set, Third!Ciq!Set, Shop!Vin!Idle, Third!Ciq!Idle, Shop!Vin!Snapshot,
       Third!Ciq!Snapshot, Shop!Vin!Unresolved, Third!Ciq!Unresolved, Shop!Vin!ciq,
       Third!Ciq!ciq, Shop!Vin!_repair_from_attached_adas_map,
       Third!Ciq!_repair_from_attached_adas_map, Shop!Vin!_attached_map_vin,
       Third!Ciq!_attached_map_vin, Shop!Vin!Cardinality, Third!Ciq!Cardinality,
       Shop!Vin!Notes, Third!Ciq!Notes
  <2>4. ASSUME NEW x
        PROVE
         (\/ Shop!Vin!Post(x) \/ Shop!Vin!NoReceipt(x) \/ Shop!Vin!Receipts(x)
          \/ Shop!Vin!Reread(x) \/ Shop!Vin!VerifyVin(x)) =>
         (\/ Third!Ciq!Post(x) \/ Third!Ciq!NoReceipt(x) \/ Third!Ciq!Receipts(x)
          \/ Third!Ciq!Reread(x) \/ Third!Ciq!VerifyVin(x))
    BY Zenon DEF Shop!Vin!Post, Third!Ciq!Post, Shop!Vin!Set, Third!Ciq!Set,
       Shop!Vin!ciq, Third!Ciq!ciq, Shop!Vin!NoReceipt, Third!Ciq!NoReceipt,
       Shop!Vin!Receipts, Third!Ciq!Receipts, Shop!Vin!Reread, Third!Ciq!Reread,
       Shop!Vin!CompletionVerified, Third!Ciq!CompletionVerified,
       Shop!Vin!_verify_persisted_research_evidence,
       Third!Ciq!_verify_persisted_research_evidence, Shop!Vin!Evidence,
       Third!Ciq!Evidence, Shop!Vin!VerifyVin, Third!Ciq!VerifyVin
  <2> QED
    BY <2>1, <2>2, <2>3, <2>4, Zenon DEF Shop!Vin!Next, Third!Ciq!Next
<1> QED
  BY <1>1, <1>2

(* The same of the scenario that follows. *)
LEMMA VinCallsEnough ==
    ASSUME Third!OInv
    PROVE  Shop!Vin!IntentOnce /\ Shop!Vin!OnWhatWasRead /\ Shop!Vin!SuccessIsReal
<1>1. Third!Ciq!IntentOnce /\ Third!Ciq!OnWhatWasRead /\ Third!Ciq!SuccessIsReal
  BY Third!OIntent, Third!OSuccess DEF Third!OInv
<1> QED
  BY <1>1, Zenon DEF Shop!Vin!IntentOnce, Third!Ciq!IntentOnce, Shop!Vin!Took,
     Third!Ciq!Took, Shop!Vin!Cardinality, Third!Ciq!Cardinality, Shop!Vin!Asked,
     Third!Ciq!Asked, Shop!Vin!OnWhatWasRead, Third!Ciq!OnWhatWasRead,
     Shop!Vin!SuccessIsReal, Third!Ciq!SuccessIsReal

(* What research finds in these scenarios is about documents and calibrations. *)
LEMMA ThirdSearched == Third!Searched
  BY FewDocuments, Names, Zenon DEF Third!Searched, Third!IsFiniteSet, Members!IsFiniteSet

(* Research claims what can be recorded. *)
LEMMA ThirdClaimed == Third!Claimed
  BY DEF Third!Claimed

\* What the third scenarios keep.
ThirdKept ==
    /\ scenario = "together" => Third!WeekInv
    /\ scenario = "supersede" => Third!KnowledgeInv
    /\ scenario = "vin" => Third!OInv

(* Every start of the run is one of these scenarios that is kept. *)
LEMMA ThirdBegins == ASSUME Init PROVE ThirdKept
  BY Starts, TogetherAlone, VinCallsAlone, SupersedeAlone, Third!WeekBegins, Third!OInit,
     Third!KnowledgeBegins, ThirdClaimed DEF ThirdKept

(* In these scenarios the records move as they do alone, or not at all. *)
LEMMA ThirdMoves ==
    ASSUME [Next]_vars
    PROVE  /\ scenario' = scenario
           /\ scenario = "together" => [Third!Prep!Next]_Third!Prep!vars
           /\ scenario = "supersede" => [Third!Know!Next]_Third!Know!vars
           /\ scenario = "vin" => [Third!Ciq!Next]_Third!Ciq!vars
<1>1. UNCHANGED Shop!auditVars => UNCHANGED Third!Prep!vars
  BY DEF Shop!auditVars, Third!Prep!vars
<1>2. UNCHANGED Shop!knowledgeVars => UNCHANGED Third!Know!vars
  BY DEF Shop!knowledgeVars, Third!Know!vars, Third!Know!base
<1>3. UNCHANGED Shop!operatorVars => UNCHANGED Third!Ciq!vars
  BY DEF Shop!operatorVars, Third!Ciq!vars
<1> QED
  BY <1>1, <1>2, <1>3, Moves, TogetherAlone, SupersedeAlone, VinCallsAlone

(* Every step of the run keeps them. *)
LEMMA ThirdStays == ASSUME ThirdKept, [Next]_vars PROVE ThirdKept'
  BY ThirdMoves, ThirdSearched, ThirdClaimed, Third!WeekContinues, Third!OStep,
     Third!OStutter, Third!KnowledgeContinues DEF ThirdKept

(* What is kept is what the run checks. *)
LEMMA ThirdShows ==
    ASSUME ThirdKept
    PROVE  /\ scenario = "together" =>
                 /\ Shop!Together!ReadyIsTrue
                 /\ Shop!Together!EditsOpenResearch
                 /\ Shop!Together!QueueIsLastAudit
           /\ scenario = "supersede" => Shop!Supersede!VerifiedIsGrounded
           /\ scenario = "vin" =>
                 /\ Shop!Vin!IntentOnce
                 /\ Shop!Vin!OnWhatWasRead
                 /\ Shop!Vin!SuccessIsReal
  BY TogetherEnough, SupersedeEnough, Third!Grounds, VinCallsEnough DEF ThirdKept

(* What is recorded and trusted in these scenarios is earned. *)
LEMMA ThirdEarns ==
    ASSUME ThirdKept, [Next]_vars
    PROVE  /\ scenario = "together" => Shop!Together!RecordsProven
           /\ scenario = "supersede" =>
                 /\ Shop!Supersede!TrustIsFresh
                 /\ Shop!Supersede!OnWhatWasRead
  BY ThirdMoves, ThirdClaimed, Third!Trusts, Third!WorksOnWhatWasRead, SupersedeEnough,
     TogetherRecords DEF ThirdKept

-----------------------------------------------------------------------------
\* The fourth scenarios.
Fourth == INSTANCE RecordsProofs WITH Accounts <- {g1, g2, g3},
             Email <- (g1 :> "e1" @@ g2 :> "e2" @@ g3 :> "e2"), Attempts <- {i1, i2},
             session <- signed, Turns <- {t1, t2}, Pages <- {}, MaxPreviews <- 0,
             Orders <- {o1, o2}, MaxVersion <- 2, edit <- revising, result <- revised,
             file <- held, changes <- replaced, call <- edit,
             Records <- {r1, r2, r3}, Files <- {"f"}, Contents <- {"u", "v"},
             Learners <- {k1, k2, m1}, 
             Claim <- [l \in {k1, k2, m1} |-> IF l = k1 THEN r1 ELSE IF l = k2 THEN r2 ELSE r3],
             Reads <- [l \in {k1, k2, m1} |-> "f"], Callers <- {c1, c2},
             Ops <- {"supersede"}, Drafts <- {}, MaxChanges <- 1, Quiet <- FALSE,
             Audits <- {a1}, Conversation <- [a \in {a1} |-> m1], Executing <- {}, Unbound <- {a1},
             Due <- {o1, o2}, Ids <- {i1}, Cals <- {c1},
             Governs <- [o \in {o1, o2} |-> IF o = o1 THEN Shop!Front ELSE {}], Methods <- {static},
             Unknown <- unknown, MAX_QUEUE_ITEMS <- 2, MAX_STORED_CONVERSATIONS <- 1,
             MaxOthers <- 0,
             Calls <- {k1, k2}, Message <- (k1 :> m1 @@ k2 :> m1),
             Kind <- (k1 :> "note" @@ k2 :> "note"), Needed <- {}, Docs <- {}, Vins <- {},
             MaxTouch <- 1, Findings <- {}, calls <- call

(* The scenario "orders" starts and moves as it does alone. *)
LEMMA TwoOrdersAlone == (Shop!TwoOrders!Init => Fourth!Prep!Init) /\ (Shop!TwoOrders!Next => Fourth!Prep!Next)
<1>1. Shop!TwoOrders!Absent = Fourth!Prep!Absent /\ Shop!TwoOrders!NoAudit = Fourth!Prep!NoAudit
  BY DEF Shop!TwoOrders!Absent, Fourth!Prep!Absent, Shop!TwoOrders!NoAudit, Fourth!Prep!NoAudit
<1>2. {[[i \in {i1} |-> Shop!TwoOrders!Absent] EXCEPT ![k] =
          [cal |-> c, det |-> d, method |-> unknown, named |-> FALSE, ver |-> 1]] :
             k \in {i1}, c \in {c1}, d \in {"POSSIBLE", "EXCLUDED"}} =
      {[[i \in {i1} |-> Fourth!Prep!Absent] EXCEPT ![k] =
          [cal |-> c, det |-> d, method |-> unknown, named |-> FALSE, ver |-> 1]] :
             k \in {i1}, c \in {c1}, d \in {"POSSIBLE", "EXCLUDED"}}
  BY <1>1
<1>3. Shop!TwoOrders!Init => Fourth!Prep!Init
  BY <1>1, <1>2 DEF Shop!TwoOrders!Init, Fourth!Prep!Init
<1>4. Shop!TwoOrders!Next => Fourth!Prep!Next
  <2>1. ASSUME NEW x
        PROVE
         (\/ Shop!TwoOrders!Query(x) \/ Shop!TwoOrders!Take(x)
          \/ Shop!TwoOrders!_acquire_adas_map_gap(x)
          \/ Shop!TwoOrders!_reconcile_one(x) \/ Shop!TwoOrders!Reopen(x)) =>
         (\/ Fourth!Prep!Query(x) \/ Fourth!Prep!Take(x)
          \/ Fourth!Prep!_acquire_adas_map_gap(x) \/ Fourth!Prep!_reconcile_one(x)
          \/ Fourth!Prep!Reopen(x))
    BY Zenon DEF Shop!TwoOrders!Query, Fourth!Prep!Query, Shop!TwoOrders!NoAudit,
       Fourth!Prep!NoAudit, Shop!TwoOrders!Cardinality, Fourth!Prep!Cardinality,
       Shop!TwoOrders!Rest, Fourth!Prep!Rest, Shop!TwoOrders!Take, Fourth!Prep!Take,
       Shop!TwoOrders!_discover_adas_map, Fourth!Prep!_discover_adas_map,
       Shop!TwoOrders!Becomes, Fourth!Prep!Becomes,
       Shop!TwoOrders!_acquire_adas_map_gap, Fourth!Prep!_acquire_adas_map_gap,
       Shop!TwoOrders!Cur, Fourth!Prep!Cur, Shop!TwoOrders!_reconcile_one,
       Fourth!Prep!_reconcile_one, Shop!TwoOrders!Planned, Fourth!Prep!Planned,
       Shop!TwoOrders!build_reconciliation_actions,
       Fourth!Prep!build_reconciliation_actions, Shop!TwoOrders!ActionFor,
       Fourth!Prep!ActionFor, Shop!TwoOrders!Matches, Fourth!Prep!Matches,
       Shop!TwoOrders!Suits, Fourth!Prep!Suits, Shop!TwoOrders!Update,
       Fourth!Prep!Update, Shop!TwoOrders!Candidate, Fourth!Prep!Candidate,
       Shop!TwoOrders!ActiveFor, Fourth!Prep!ActiveFor, Shop!TwoOrders!Active,
       Fourth!Prep!Active, Shop!TwoOrders!Snap, Fourth!Prep!Snap, Shop!TwoOrders!Reopen,
       Fourth!Prep!Reopen
  <2>2. ASSUME NEW x
        PROVE
         (\/ Shop!TwoOrders!Reopened(x) \/ Shop!TwoOrders!Edit(x)
          \/ Shop!TwoOrders!EditReread(x) \/ Shop!TwoOrders!_catalog_coverage(x)
          \/ Shop!TwoOrders!_link_ro_research_evidence(x) \/ Shop!TwoOrders!Records(x)
          \/ Shop!TwoOrders!Judge(x)) =>
         (\/ Fourth!Prep!Reopened(x) \/ Fourth!Prep!Edit(x)
          \/ Fourth!Prep!EditReread(x) \/ Fourth!Prep!_catalog_coverage(x)
          \/ Fourth!Prep!_link_ro_research_evidence(x) \/ Fourth!Prep!Records(x)
          \/ Fourth!Prep!Judge(x))
    BY Zenon DEF Shop!TwoOrders!Reopened, Fourth!Prep!Reopened,
       Shop!TwoOrders!Snapshot, Fourth!Prep!Snapshot, Shop!TwoOrders!Cur,
       Fourth!Prep!Cur, Shop!TwoOrders!Planned, Fourth!Prep!Planned,
       Shop!TwoOrders!build_reconciliation_actions,
       Fourth!Prep!build_reconciliation_actions, Shop!TwoOrders!ActionFor,
       Fourth!Prep!ActionFor, Shop!TwoOrders!Matches, Fourth!Prep!Matches,
       Shop!TwoOrders!Suits, Fourth!Prep!Suits, Shop!TwoOrders!Cardinality,
       Fourth!Prep!Cardinality, Shop!TwoOrders!Update, Fourth!Prep!Update,
       Shop!TwoOrders!Candidate, Fourth!Prep!Candidate, Shop!TwoOrders!ActiveFor,
       Fourth!Prep!ActiveFor, Shop!TwoOrders!Active, Fourth!Prep!Active,
       Shop!TwoOrders!Snap, Fourth!Prep!Snap, Shop!TwoOrders!Becomes,
       Fourth!Prep!Becomes, Shop!TwoOrders!Reread, Fourth!Prep!Reread,
       Shop!TwoOrders!Rest, Fourth!Prep!Rest, Shop!TwoOrders!Edit, Fourth!Prep!Edit,
       Shop!TwoOrders!Fits, Fourth!Prep!Fits, Shop!TwoOrders!Places, Fourth!Prep!Places,
       Shop!TwoOrders!Absent, Fourth!Prep!Absent, Shop!TwoOrders!Edited,
       Fourth!Prep!Edited, Shop!TwoOrders!EditReread, Fourth!Prep!EditReread,
       Shop!TwoOrders!_catalog_coverage, Fourth!Prep!_catalog_coverage,
       Shop!TwoOrders!_link_ro_research_evidence,
       Fourth!Prep!_link_ro_research_evidence, Shop!TwoOrders!Records,
       Fourth!Prep!Records, Shop!TwoOrders!build_missing_si_actions,
       Fourth!Prep!build_missing_si_actions, Shop!TwoOrders!ActiveItem,
       Fourth!Prep!ActiveItem, Shop!TwoOrders!Judge, Fourth!Prep!Judge,
       Shop!TwoOrders!Ready, Fourth!Prep!Ready, Shop!TwoOrders!reconcile_ok,
       Fourth!Prep!reconcile_ok, Shop!TwoOrders!_reconciliation_issues,
       Fourth!Prep!_reconciliation_issues, Shop!TwoOrders!Agrees, Fourth!Prep!Agrees,
       Shop!TwoOrders!Gap, Fourth!Prep!Gap
  <2>3. ASSUME NEW x
        PROVE
         (\/ Shop!TwoOrders!_save_weekly_queue(x) \/ Shop!TwoOrders!Stop(x)) =>
         (\/ Fourth!Prep!_save_weekly_queue(x) \/ Fourth!Prep!Stop(x))
    BY Zenon DEF Shop!TwoOrders!_save_weekly_queue,
       Fourth!Prep!_save_weekly_queue, Shop!TwoOrders!Stored, Fourth!Prep!Stored,
       Shop!TwoOrders!Cardinality, Fourth!Prep!Cardinality, Shop!TwoOrders!Rows,
       Fourth!Prep!Rows, Shop!TwoOrders!Becomes, Fourth!Prep!Becomes,
       Shop!TwoOrders!Ended, Fourth!Prep!Ended, Shop!TwoOrders!NoAudit,
       Fourth!Prep!NoAudit, Shop!TwoOrders!Stop, Fourth!Prep!Stop, Shop!TwoOrders!Rest,
       Fourth!Prep!Rest
  <2>4. ASSUME NEW x, NEW o PROVE Shop!TwoOrders!Load(x, o) => Fourth!Prep!Load(x, o)
    BY Zenon DEF Shop!TwoOrders!Load, Fourth!Prep!Load, Shop!TwoOrders!Becomes,
       Fourth!Prep!Becomes, Shop!TwoOrders!Snapshot, Fourth!Prep!Snapshot,
       Shop!TwoOrders!Rest, Fourth!Prep!Rest
  <2>5. ASSUME NEW x PROVE Shop!TwoOrders!Others(x) => Fourth!Prep!Others(x)
    BY Zenon DEF Shop!TwoOrders!Others, Fourth!Prep!Others, Shop!TwoOrders!Absent,
       Fourth!Prep!Absent
  <2> QED
    BY <2>1, <2>2, <2>3, <2>4, <2>5, Zenon DEF Shop!TwoOrders!Next, Fourth!Prep!Next,
       Shop!TwoOrders!Step, Fourth!Prep!Step
<1> QED
  BY <1>3, <1>4

(* The same of the scenario that follows. *)
LEMMA TwoOrdersEnough ==
    ASSUME Fourth!WeekInv
    PROVE  Shop!TwoOrders!ReadyIsTrue /\ Shop!TwoOrders!EditsOpenResearch /\ Shop!TwoOrders!QueueIsLastAudit
<1>1. Fourth!Prep!ReadyIsTrue /\ Fourth!Prep!EditsOpenResearch /\ Fourth!Prep!QueueIsLastAudit
  BY Fourth!Enough
<1> QED
  BY <1>1, Zenon DEF Shop!TwoOrders!ReadyIsTrue, Fourth!Prep!ReadyIsTrue, Shop!TwoOrders!Cur,
     Fourth!Prep!Cur, Shop!TwoOrders!Agrees, Fourth!Prep!Agrees,
     Shop!TwoOrders!ActiveFor, Fourth!Prep!ActiveFor, Shop!TwoOrders!Matches,
     Fourth!Prep!Matches, Shop!TwoOrders!Active, Fourth!Prep!Active,
     Shop!TwoOrders!Suits, Fourth!Prep!Suits, Shop!TwoOrders!Snap, Fourth!Prep!Snap,
     Shop!TwoOrders!EditsOpenResearch, Fourth!Prep!EditsOpenResearch,
     Shop!TwoOrders!QueueIsLastAudit, Fourth!Prep!QueueIsLastAudit,
     Shop!TwoOrders!Rows, Fourth!Prep!Rows

(* The scenario "notes" starts and moves as it does alone. *)
LEMMA NotesCallsAlone == (Shop!Notes!Init => Fourth!Ciq!Init) /\ (Shop!Notes!Next => Fourth!Ciq!Next)
<1>1. Shop!Notes!Init => Fourth!Ciq!Init
  BY DEF Shop!Notes!Init, Fourth!Ciq!Init, Shop!Notes!Idle, Fourth!Ciq!Idle
<1>2. Shop!Notes!Next => Fourth!Ciq!Next
  <2>1.
         (\/ Shop!Notes!Serve \/ Shop!Notes!Others) =>
         (\/ Fourth!Ciq!Serve \/ Fourth!Ciq!Others)
    BY Zenon DEF Shop!Notes!Serve, Fourth!Ciq!Serve,
       Shop!Notes!_stable_action_ids, Fourth!Ciq!_stable_action_ids,
       Shop!Notes!Cardinality, Fourth!Ciq!Cardinality, Shop!Notes!ciq, Fourth!Ciq!ciq,
       Shop!Notes!Fits, Fourth!Ciq!Fits, Shop!Notes!Performs, Fourth!Ciq!Performs,
       Shop!Notes!Effect, Fourth!Ciq!Effect, Shop!Notes!Evidence, Fourth!Ciq!Evidence,
       Shop!Notes!Others, Fourth!Ciq!Others
  <2>2. ASSUME NEW x PROVE Shop!Notes!Research(x) => Fourth!Ciq!Research(x)
    BY Zenon DEF Shop!Notes!Research, Fourth!Ciq!Research, Shop!Notes!Set,
       Fourth!Ciq!Set, Shop!Notes!_expand_research_action,
       Fourth!Ciq!_expand_research_action, Shop!Notes!SetToSeq, Fourth!Ciq!SetToSeq,
       Shop!Notes!IsInjective, Fourth!Ciq!IsInjective, Shop!Notes!Cardinality,
       Fourth!Ciq!Cardinality, Shop!Notes!DocumentAction, Fourth!Ciq!DocumentAction,
       Shop!Notes!_matching_existing_document, Fourth!Ciq!_matching_existing_document,
       Shop!Notes!Matching, Fourth!Ciq!Matching, Shop!Notes!Links, Fourth!Ciq!Links,
       Shop!Notes!Contested, Fourth!Ciq!Contested, Shop!Notes!Validated,
       Fourth!Ciq!Validated, Shop!Notes!Found, Fourth!Ciq!Found,
       Shop!Notes!eligible_complete, Fourth!Ciq!eligible_complete, Shop!Notes!Supported,
       Fourth!Ciq!Supported, Shop!Notes!CompletionVersion, Fourth!Ciq!CompletionVersion,
       Shop!Notes!ciq, Fourth!Ciq!ciq
  <2>3. ASSUME NEW x
        PROVE
         (\/ Shop!Notes!Begin(x) \/ Shop!Notes!_repair_from_attached_adas_map(x)
          \/ Shop!Notes!Notes(x)) =>
         (\/ Fourth!Ciq!Begin(x) \/ Fourth!Ciq!_repair_from_attached_adas_map(x)
          \/ Fourth!Ciq!Notes(x))
    BY Zenon DEF Shop!Notes!Begin, Fourth!Ciq!Begin, Shop!Notes!Ended,
       Fourth!Ciq!Ended, Shop!Notes!Set, Fourth!Ciq!Set, Shop!Notes!Idle,
       Fourth!Ciq!Idle, Shop!Notes!Snapshot, Fourth!Ciq!Snapshot, Shop!Notes!Unresolved,
       Fourth!Ciq!Unresolved, Shop!Notes!ciq, Fourth!Ciq!ciq,
       Shop!Notes!_repair_from_attached_adas_map,
       Fourth!Ciq!_repair_from_attached_adas_map, Shop!Notes!_attached_map_vin,
       Fourth!Ciq!_attached_map_vin, Shop!Notes!Cardinality, Fourth!Ciq!Cardinality,
       Shop!Notes!Notes, Fourth!Ciq!Notes
  <2>4. ASSUME NEW x
        PROVE
         (\/ Shop!Notes!Post(x) \/ Shop!Notes!NoReceipt(x) \/ Shop!Notes!Receipts(x)
          \/ Shop!Notes!Reread(x) \/ Shop!Notes!VerifyVin(x)) =>
         (\/ Fourth!Ciq!Post(x) \/ Fourth!Ciq!NoReceipt(x) \/ Fourth!Ciq!Receipts(x)
          \/ Fourth!Ciq!Reread(x) \/ Fourth!Ciq!VerifyVin(x))
    BY Zenon DEF Shop!Notes!Post, Fourth!Ciq!Post, Shop!Notes!Set, Fourth!Ciq!Set,
       Shop!Notes!ciq, Fourth!Ciq!ciq, Shop!Notes!NoReceipt, Fourth!Ciq!NoReceipt,
       Shop!Notes!Receipts, Fourth!Ciq!Receipts, Shop!Notes!Reread, Fourth!Ciq!Reread,
       Shop!Notes!CompletionVerified, Fourth!Ciq!CompletionVerified,
       Shop!Notes!_verify_persisted_research_evidence,
       Fourth!Ciq!_verify_persisted_research_evidence, Shop!Notes!Evidence,
       Fourth!Ciq!Evidence, Shop!Notes!VerifyVin, Fourth!Ciq!VerifyVin
  <2> QED
    BY <2>1, <2>2, <2>3, <2>4, Zenon DEF Shop!Notes!Next, Fourth!Ciq!Next
<1> QED
  BY <1>1, <1>2

(* The same of the scenario that follows. *)
LEMMA NotesCallsEnough ==
    ASSUME Fourth!OInv
    PROVE  Shop!Notes!IntentOnce
<1>1. Fourth!Ciq!IntentOnce /\ Fourth!Ciq!OnWhatWasRead /\ Fourth!Ciq!SuccessIsReal
  BY Fourth!OIntent, Fourth!OSuccess DEF Fourth!OInv
<1> QED
  BY <1>1, Zenon DEF Shop!Notes!IntentOnce, Fourth!Ciq!IntentOnce, Shop!Notes!Took,
     Fourth!Ciq!Took, Shop!Notes!Cardinality, Fourth!Ciq!Cardinality, Shop!Notes!Asked,
     Fourth!Ciq!Asked

(* What research finds in these scenarios is about documents and calibrations. *)
LEMMA FourthSearched == Fourth!Searched
  BY FewDocuments, Zenon DEF Fourth!Searched, Fourth!IsFiniteSet, Members!IsFiniteSet

\* What the fourth scenarios keep.
FourthKept ==
    /\ scenario = "orders" => Fourth!WeekInv
    /\ scenario = "notes" => Fourth!OInv

(* Every start of the run is one of these scenarios that is kept. *)
LEMMA FourthBegins == ASSUME Init PROVE FourthKept
  BY Starts, TwoOrdersAlone, NotesCallsAlone, Fourth!WeekBegins, Fourth!OInit DEF
     FourthKept

(* In these scenarios the records move as they do alone, or not at all. *)
LEMMA FourthMoves ==
    ASSUME [Next]_vars
    PROVE  /\ scenario' = scenario
           /\ scenario = "orders" => [Fourth!Prep!Next]_Fourth!Prep!vars
           /\ scenario = "notes" => [Fourth!Ciq!Next]_Fourth!Ciq!vars
<1>1. UNCHANGED Shop!auditVars => UNCHANGED Fourth!Prep!vars
  BY DEF Shop!auditVars, Fourth!Prep!vars
<1>2. UNCHANGED Shop!operatorVars => UNCHANGED Fourth!Ciq!vars
  BY DEF Shop!operatorVars, Fourth!Ciq!vars
<1> QED
  BY <1>1, <1>2, Moves, TwoOrdersAlone, NotesCallsAlone

(* Every step of the run keeps them. *)
LEMMA FourthStays == ASSUME FourthKept, [Next]_vars PROVE FourthKept'
  BY FourthMoves, FourthSearched, Fourth!WeekContinues, Fourth!OStep, Fourth!OStutter DEF
     FourthKept

(* What is kept is what the run checks. *)
LEMMA FourthShows ==
    ASSUME FourthKept
    PROVE  /\ scenario = "orders" =>
                 /\ Shop!TwoOrders!ReadyIsTrue
                 /\ Shop!TwoOrders!EditsOpenResearch
                 /\ Shop!TwoOrders!QueueIsLastAudit
           /\ scenario = "notes" => Shop!Notes!IntentOnce
  BY TwoOrdersEnough, NotesCallsEnough DEF FourthKept

-----------------------------------------------------------------------------
\* What all scenarios keep.
Kept == FirstKept /\ SecondKept /\ ThirdKept /\ FourthKept

(* Every start is kept. *)
LEMMA KeptBegins == Init => Kept
  BY FirstBegins, SecondBegins, ThirdBegins, FourthBegins DEF Kept

(* Every step keeps it. *)
LEMMA KeptStays == Kept /\ [Next]_vars => Kept'
  BY FirstStays, SecondStays, ThirdStays, FourthStays DEF Kept

(* An order is ready on a true and young reading, completed research is not edited, the
   queue is the last audit's and repeated audits add an item once, whatever else Core keeps
   (calibration_iq_work_prep.py:448-559, 1190-1422, 2663-3220). *)
THEOREM AuditOfRun == Spec => []AuditTruth
<1>1. Kept => AuditTruth
  BY FirstShows, SecondShows, ThirdShows, FourthShows DEF Kept, AuditTruth, Shop!AuditTruth
<1> QED
  BY <1>1, KeptBegins, KeptStays, PTL DEF Spec

(* A verified record has verified evidence from an authoritative source, and a superseded
   one leads to a verified one, whatever else Core keeps
   (automotive_knowledge.py:879-932, 1707-1771). *)
THEOREM KnowledgeOfRun == Spec => []KnowledgeTruth
<1>1. Kept => KnowledgeTruth
  BY FirstShows, SecondShows, ThirdShows DEF Kept, KnowledgeTruth, Shop!KnowledgeTruth
<1> QED
  BY <1>1, KeptBegins, KeptStays, PTL DEF Spec

(* An intent of a message takes effect once whatever is retried, the research is completed
   and the VIN set only on what was read, and a call reported as proved took effect as
   reported, whatever else Core keeps (calibration_iq.py:2146-2182, 2773-2812, 3239-3393). *)
THEOREM OperatorOfRun == Spec => []OperatorTruth
<1>1. Kept => OperatorTruth
  BY FirstShows, SecondShows, ThirdShows, FourthShows DEF Kept, OperatorTruth, Shop!OperatorTruth
<1> QED
  BY <1>1, KeptBegins, KeptStays, PTL DEF Spec

(* Missing-information records change only on what the library was found to have or not;
   trust is given on a hash that is current, changes are made on the version that was read,
   and what is recalled is the text as it is, whatever else Core keeps
   (calibration_iq_work_prep.py:562-617; automotive_knowledge.py:1121-1936). *)
THEOREM TrustOfRun == Spec => TrustIsEarned
<1> DEFINE Earned ==
      /\ scenario = "repeated" => Shop!Repeated!RecordsProven
      /\ scenario = "together" => Shop!Together!RecordsProven
      /\ scenario = "learn" => /\ Shop!Learn!TrustIsFresh /\ Shop!Learn!OnWhatWasRead
                              /\ Shop!Learn!ToldIsCurrent
      /\ scenario = "edit" => Shop!Edit!TrustIsFresh /\ Shop!Edit!OnWhatWasRead
      /\ scenario = "supersede" =>
            Shop!Supersede!TrustIsFresh /\ Shop!Supersede!OnWhatWasRead
<1>1. Kept /\ [Next]_vars => [Earned]_Shop!vars
  BY FirstEarns, SecondEarns, ThirdEarns DEF Kept
<1> QED
  BY <1>1, KeptBegins, KeptStays, PTL DEF Spec, TrustIsEarned, Shop!TrustIsEarned
=============================================================================
