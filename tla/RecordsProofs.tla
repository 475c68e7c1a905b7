---------------------------- MODULE RecordsProofs ----------------------------
(***************************************************************************)
(* Theorems about what Core keeps.                                          *)
(*                                                                         *)
(* Of people, for every set of accounts and sign-ins: a session is of a       *)
(* current user, and the stored grant can be renewed.  Of conversations, for   *)
(* every set of turns, pages and repair orders: a revision continues the head  *)
(* of its site, and a subject never goes back.  Of what is learned, for every   *)
(* set of claims, files, researchers and callers: what is called verified is    *)
(* grounded, trust is given on files as they are, and a change is made to what   *)
(* was read.  Of the preparation of the week, for every set of audits, orders    *)
(* and calibrations: an order is ready on a true and young reading, the queue is *)
(* the last audit's, and an item is added once.  Of the writes to a repair       *)
(* order, for every set of calls, documents and findings: an intent takes effect *)
(* once, and on what was read.                                               *)
(***************************************************************************)
EXTENDS Identity, Sequences, FiniteSetTheorems, WellFoundedInduction, TLAPS

CONSTANTS Turns, Pages, MaxPreviews, Orders, MaxVersion,
          Records, Files, Contents, Learners, Claim, Reads, Callers, Ops, Drafts, MaxChanges,
          Quiet,
          Audits, Conversation, Executing, Unbound, Due, Ids, Cals, Governs, Methods, Unknown,
          MAX_QUEUE_ITEMS, MAX_STORED_CONVERSATIONS, MaxOthers,
          Calls, Message, Kind, Needed, Docs, Vins, Findings, MaxTouch

VARIABLES previews, edit, version, result, subject,
          file, changes, records, sources, evidence, learn, call,
          item, research, record, maps, cover, audit, queue, others,
          case, required, docs, ro, done, calls, wire, effects, touched

Memory == INSTANCE ConversationMemory
Know == INSTANCE AutomotiveKnowledge
\* The orders of a week.
Prep == INSTANCE WorkPrep WITH Orders <- Due
\* What a repair order needs, and the calls about it.
Ciq == INSTANCE CiqOperator WITH Cals <- Needed, call <- calls

-----------------------------------------------------------------------------
(* People. *)

Grants == [account : Accounts, refresh : BOOLEAN]

\* What is absent is neither an account nor a grant.
Distinct == None \notin Accounts \cup Grants

Requests == [st : {"none", "pending", "exchanging"}, kind : {"owner", "test_user"},
             local : BOOLEAN, email : Emails \cup {None}, account : Accounts \cup {None}]

\* Sign-ins know an account once Google has named one; what is renewed is stored.
Typed ==
    /\ TypeOK
    /\ attempt \in [Attempts -> Requests]
    /\ \A i \in Attempts : attempt[i].st = "exchanging" => attempt[i].account \in Accounts
    /\ grant \in Grants \cup {None}
    /\ refreshing => grant # None

\* Nobody is invited before there is an owner, whose row nothing changes afterwards; an
\* address without a role has no other data.
OwnersRow ==
    /\ \A e \in Emails : user[e].role = "none" => user[e] = NoUser
    /\ owner = None => \A e \in Emails : user[e] = NoUser
    /\ owner # None => user[Email[owner]] = User("owner", "active", owner)

IInv == Typed /\ OwnersRow /\ SessionsAreCurrent /\ GrantLasts /\ OneIdentity

-----------------------------------------------------------------------------
(* Every address of an account is one of Emails. *)
LEMMA Addressed == ASSUME NEW a \in Accounts PROVE Email[a] \in Emails
  BY DEF Emails

(* Every start satisfies the invariant: nobody is known. *)
LEMMA Begins == ASSUME Distinct, Init PROVE IInv
<1> USE DEF Init
<1>1. NoUser \in [role : {"none", "owner", "test_user"},
                  status : {"none", "pending", "active", "revoked"},
                  sub : Accounts \cup {None}]
  BY DEF NoUser, User
<1>2. TypeOK
  BY <1>1 DEF TypeOK
<1>3. NoAttempt \in Requests /\ NoAttempt.st # "exchanging"
  BY DEF NoAttempt, Attempt, Requests
<1>4. Typed
  BY <1>2, <1>3 DEF Typed
<1>5. OwnersRow /\ SessionsAreCurrent /\ GrantLasts
  BY DEF OwnersRow, SessionsAreCurrent, GrantLasts
<1>6. OneIdentity
  BY DEF OneIdentity, NoUser, User
<1> QED
  BY <1>4, <1>5, <1>6 DEF IInv

(* local_oauth_setup keeps the invariant. *)
LEMMA local_oauth_setupStep == ASSUME Distinct, IInv, local_oauth_setup PROVE IInv'
<1>0. Typed /\ OwnersRow /\ SessionsAreCurrent /\ GrantLasts /\ OneIdentity
  BY DEF IInv
<1>1. TypeOK'
  BY <1>0 DEF local_oauth_setup, Typed, TypeOK, User
<1>2. Typed'
  BY <1>0, <1>1 DEF local_oauth_setup, Typed, TypeOK, Requests, Grants, NoAttempt, Attempt
<1>3. OwnersRow'
  BY <1>0 DEF local_oauth_setup, Typed, TypeOK, OwnersRow, NoUser, User
<1>4. SessionsAreCurrent'
  BY <1>0 DEF local_oauth_setup, Typed, TypeOK, SessionsAreCurrent, User
<1>5. GrantLasts'
  BY <1>0 DEF local_oauth_setup, Typed, TypeOK, GrantLasts
<1>6. OneIdentity'
  BY <1>0 DEF local_oauth_setup, Typed, TypeOK, OneIdentity, User
<1> QED
  BY <1>1, <1>2, <1>3, <1>4, <1>5, <1>6 DEF IInv

(* Restart keeps the invariant. *)
LEMMA RestartStep == ASSUME Distinct, IInv, Restart PROVE IInv'
<1>0. Typed /\ OwnersRow /\ SessionsAreCurrent /\ GrantLasts /\ OneIdentity
  BY DEF IInv
<1>1. TypeOK'
  BY <1>0 DEF Restart, Typed, TypeOK, User
<1>2. Typed'
  BY <1>0, <1>1 DEF Restart, Typed, TypeOK, Requests, Grants, NoAttempt, Attempt
<1>3. OwnersRow'
  BY <1>0 DEF Restart, Typed, TypeOK, OwnersRow, NoUser, User
<1>4. SessionsAreCurrent'
  BY <1>0 DEF Restart, Typed, TypeOK, SessionsAreCurrent, User
<1>5. GrantLasts'
  BY <1>0 DEF Restart, Typed, TypeOK, GrantLasts
<1>6. OneIdentity'
  BY <1>0 DEF Restart, Typed, TypeOK, OneIdentity, User
<1> QED
  BY <1>1, <1>2, <1>3, <1>4, <1>5, <1>6 DEF IInv

(* LoginLocal keeps the invariant. *)
LEMMA LoginLocalStep ==
    ASSUME Distinct, IInv, NEW i \in Attempts, LoginLocal(i)
    PROVE  IInv'
<1>0. Typed /\ OwnersRow /\ SessionsAreCurrent /\ GrantLasts /\ OneIdentity
  BY DEF IInv
<1>1. TypeOK'
  BY <1>0 DEF LoginLocal, Begin, Typed, TypeOK, User
<1>2. Typed'
  BY <1>0, <1>1 DEF LoginLocal, Begin, Typed, TypeOK, Requests, Grants, NoAttempt, Attempt
<1>3. OwnersRow'
  BY <1>0 DEF LoginLocal, Begin, Typed, TypeOK, OwnersRow, NoUser, User
<1>4. SessionsAreCurrent'
  BY <1>0 DEF LoginLocal, Begin, Typed, TypeOK, SessionsAreCurrent, User
<1>5. GrantLasts'
  BY <1>0 DEF LoginLocal, Begin, Typed, TypeOK, GrantLasts
<1>6. OneIdentity'
  BY <1>0 DEF LoginLocal, Begin, Typed, TypeOK, OneIdentity, User
<1> QED
  BY <1>1, <1>2, <1>3, <1>4, <1>5, <1>6 DEF IInv

(* LoginRemote keeps the invariant. *)
LEMMA LoginRemoteStep ==
    ASSUME Distinct, IInv, NEW i \in Attempts, NEW e \in Emails, LoginRemote(i, e)
    PROVE  IInv'
<1>0. Typed /\ OwnersRow /\ SessionsAreCurrent /\ GrantLasts /\ OneIdentity
  BY DEF IInv
<1>1. TypeOK'
  BY <1>0 DEF LoginRemote, Begin, Typed, TypeOK, User
<1>2. Typed'
  BY <1>0, <1>1 DEF LoginRemote, Begin, Typed, TypeOK, Requests, Grants, NoAttempt,
     Attempt
<1>3. OwnersRow'
  BY <1>0 DEF LoginRemote, Begin, Typed, TypeOK, OwnersRow, NoUser, User
<1>4. SessionsAreCurrent'
  BY <1>0 DEF LoginRemote, Begin, Typed, TypeOK, SessionsAreCurrent, User
<1>5. GrantLasts'
  BY <1>0 DEF LoginRemote, Begin, Typed, TypeOK, GrantLasts
<1>6. OneIdentity'
  BY <1>0 DEF LoginRemote, Begin, Typed, TypeOK, OneIdentity, User
<1> QED
  BY <1>1, <1>2, <1>3, <1>4, <1>5, <1>6 DEF IInv

(* _prune_pending_states keeps the invariant. *)
LEMMA prune_pending_statesStep ==
    ASSUME Distinct, IInv, NEW i \in Attempts, _prune_pending_states(i)
    PROVE  IInv'
<1>0. Typed /\ OwnersRow /\ SessionsAreCurrent /\ GrantLasts /\ OneIdentity
  BY DEF IInv
<1>1. TypeOK'
  BY <1>0 DEF _prune_pending_states, Typed, TypeOK, User
<1>2. Typed'
  BY <1>0, <1>1 DEF _prune_pending_states, Typed, TypeOK, Requests, Grants, NoAttempt,
     Attempt
<1>3. OwnersRow'
  BY <1>0 DEF _prune_pending_states, Typed, TypeOK, OwnersRow, NoUser, User
<1>4. SessionsAreCurrent'
  BY <1>0 DEF _prune_pending_states, Typed, TypeOK, SessionsAreCurrent, User
<1>5. GrantLasts'
  BY <1>0 DEF _prune_pending_states, Typed, TypeOK, GrantLasts
<1>6. OneIdentity'
  BY <1>0 DEF _prune_pending_states, Typed, TypeOK, OneIdentity, User
<1> QED
  BY <1>1, <1>2, <1>3, <1>4, <1>5, <1>6 DEF IInv

(* Callback keeps the invariant. *)
LEMMA CallbackStep ==
    ASSUME Distinct, IInv, NEW i \in Attempts, NEW a \in Accounts, Callback(i, a)
    PROVE  IInv'
<1>0. Typed /\ OwnersRow /\ SessionsAreCurrent /\ GrantLasts /\ OneIdentity
  BY DEF IInv
<1>1. TypeOK'
  BY <1>0 DEF Callback, Typed, TypeOK, User
<1>2. Typed'
  BY <1>0, <1>1 DEF Callback, Typed, TypeOK, Requests, Grants, NoAttempt, Attempt
<1>3. OwnersRow'
  BY <1>0 DEF Callback, Typed, TypeOK, OwnersRow, NoUser, User
<1>4. SessionsAreCurrent'
  BY <1>0 DEF Callback, Typed, TypeOK, SessionsAreCurrent, User
<1>5. GrantLasts'
  BY <1>0 DEF Callback, Typed, TypeOK, GrantLasts
<1>6. OneIdentity'
  BY <1>0 DEF Callback, Typed, TypeOK, OneIdentity, User
<1> QED
  BY <1>1, <1>2, <1>3, <1>4, <1>5, <1>6 DEF IInv

(* CallbackFails keeps the invariant. *)
LEMMA CallbackFailsStep ==
    ASSUME Distinct, IInv, NEW i \in Attempts, CallbackFails(i)
    PROVE  IInv'
<1>0. Typed /\ OwnersRow /\ SessionsAreCurrent /\ GrantLasts /\ OneIdentity
  BY DEF IInv
<1>1. TypeOK'
  BY <1>0 DEF CallbackFails, Typed, TypeOK, User
<1>2. Typed'
  BY <1>0, <1>1 DEF CallbackFails, Typed, TypeOK, Requests, Grants, NoAttempt, Attempt
<1>3. OwnersRow'
  BY <1>0 DEF CallbackFails, Typed, TypeOK, OwnersRow, NoUser, User
<1>4. SessionsAreCurrent'
  BY <1>0 DEF CallbackFails, Typed, TypeOK, SessionsAreCurrent, User
<1>5. GrantLasts'
  BY <1>0 DEF CallbackFails, Typed, TypeOK, GrantLasts
<1>6. OneIdentity'
  BY <1>0 DEF CallbackFails, Typed, TypeOK, OneIdentity, User
<1> QED
  BY <1>1, <1>2, <1>3, <1>4, <1>5, <1>6 DEF IInv

(* invite_test_user keeps the invariant. *)
LEMMA invite_test_userStep ==
    ASSUME Distinct, IInv, NEW e \in Emails, invite_test_user(e)
    PROVE  IInv'
<1>0. Typed /\ OwnersRow /\ SessionsAreCurrent /\ GrantLasts /\ OneIdentity
  BY DEF IInv
<1>1. TypeOK'
  BY <1>0 DEF invite_test_user, Typed, TypeOK, User
<1>2. Typed'
  BY <1>0, <1>1 DEF invite_test_user, Typed, TypeOK, Requests, Grants, NoAttempt, Attempt
<1>3. OwnersRow'
  BY <1>0 DEF invite_test_user, Typed, TypeOK, OwnersRow, NoUser, User
<1>4. SessionsAreCurrent'
  BY <1>0 DEF invite_test_user, Typed, TypeOK, SessionsAreCurrent, OwnersRow, NoUser, User
<1>5. GrantLasts'
  BY <1>0 DEF invite_test_user, Typed, TypeOK, GrantLasts
<1>6. OneIdentity'
  BY <1>0 DEF invite_test_user, Typed, TypeOK, OneIdentity, User
<1> QED
  BY <1>1, <1>2, <1>3, <1>4, <1>5, <1>6 DEF IInv

(* set_test_user_status keeps the invariant. *)
LEMMA set_test_user_statusStep == ASSUME Distinct, IInv, NEW e \in Emails,
           NEW status \in {"pending", "active", "revoked"}, set_test_user_status(e, status) PROVE IInv'
<1>0. Typed /\ OwnersRow /\ SessionsAreCurrent /\ GrantLasts /\ OneIdentity
  BY DEF IInv
<1>1. TypeOK'
  BY <1>0 DEF set_test_user_status, Typed, TypeOK, User
<1>2. Typed'
  BY <1>0, <1>1 DEF set_test_user_status, Typed, TypeOK, Requests, Grants, NoAttempt,
     Attempt
<1>3. OwnersRow'
  BY <1>0 DEF set_test_user_status, Typed, TypeOK, OwnersRow, NoUser, User
<1>4. SessionsAreCurrent'
  BY <1>0 DEF set_test_user_status, Typed, TypeOK, SessionsAreCurrent, User
<1>5. GrantLasts'
  BY <1>0 DEF set_test_user_status, Typed, TypeOK, GrantLasts
<1>6. OneIdentity'
  BY <1>0 DEF set_test_user_status, Typed, TypeOK, OneIdentity, User
<1> QED
  BY <1>1, <1>2, <1>3, <1>4, <1>5, <1>6 DEF IInv

(* delete_session keeps the invariant. *)
LEMMA delete_sessionStep ==
    ASSUME Distinct, IInv, NEW s \in session, delete_session(s)
    PROVE  IInv'
<1>0. Typed /\ OwnersRow /\ SessionsAreCurrent /\ GrantLasts /\ OneIdentity
  BY DEF IInv
<1>1. TypeOK'
  BY <1>0 DEF delete_session, Typed, TypeOK, User
<1>2. Typed'
  BY <1>0, <1>1 DEF delete_session, Typed, TypeOK, Requests, Grants, NoAttempt, Attempt
<1>3. OwnersRow'
  BY <1>0 DEF delete_session, Typed, TypeOK, OwnersRow, NoUser, User
<1>4. SessionsAreCurrent'
  BY <1>0 DEF delete_session, Typed, TypeOK, SessionsAreCurrent, User
<1>5. GrantLasts'
  BY <1>0 DEF delete_session, Typed, TypeOK, GrantLasts
<1>6. OneIdentity'
  BY <1>0 DEF delete_session, Typed, TypeOK, OneIdentity, User
<1> QED
  BY <1>1, <1>2, <1>3, <1>4, <1>5, <1>6 DEF IInv

(* refresh_access_token keeps the invariant. *)
LEMMA refresh_access_tokenStep == ASSUME Distinct, IInv, refresh_access_token PROVE IInv'
<1>0. Typed /\ OwnersRow /\ SessionsAreCurrent /\ GrantLasts /\ OneIdentity
  BY DEF IInv
<1>1. TypeOK'
  BY <1>0 DEF refresh_access_token, Typed, TypeOK, User
<1>2. Typed'
  BY <1>0, <1>1 DEF refresh_access_token, Typed, TypeOK, Requests, Grants, NoAttempt,
     Attempt
<1>3. OwnersRow'
  BY <1>0 DEF refresh_access_token, Typed, TypeOK, OwnersRow, NoUser, User
<1>4. SessionsAreCurrent'
  BY <1>0 DEF refresh_access_token, Typed, TypeOK, SessionsAreCurrent, User
<1>5. GrantLasts'
  BY <1>0 DEF refresh_access_token, Typed, TypeOK, GrantLasts
<1>6. OneIdentity'
  BY <1>0 DEF refresh_access_token, Typed, TypeOK, OneIdentity, User
<1> QED
  BY <1>1, <1>2, <1>3, <1>4, <1>5, <1>6 DEF IInv

(* valid_access_token keeps the invariant. *)
LEMMA valid_access_tokenStep == ASSUME Distinct, IInv, valid_access_token PROVE IInv'
<1>0. Typed /\ OwnersRow /\ SessionsAreCurrent /\ GrantLasts /\ OneIdentity
  BY DEF IInv
<1>1. TypeOK'
  BY <1>0 DEF valid_access_token, save_google_token, Typed, TypeOK, User
<1>2. Typed'
  BY <1>0, <1>1 DEF valid_access_token, save_google_token, Typed, TypeOK, Requests,
     Grants, NoAttempt, Attempt
<1>3. OwnersRow'
  BY <1>0 DEF valid_access_token, save_google_token, Typed, TypeOK, OwnersRow, NoUser,
     User
<1>4. SessionsAreCurrent'
  BY <1>0 DEF valid_access_token, save_google_token, Typed, TypeOK, SessionsAreCurrent,
     User
<1>5. GrantLasts'
  BY <1>0 DEF valid_access_token, save_google_token, Typed, TypeOK, Grants, GrantLasts
<1>6. OneIdentity'
  BY <1>0 DEF valid_access_token, save_google_token, Typed, TypeOK, OneIdentity, User
<1> QED
  BY <1>1, <1>2, <1>3, <1>4, <1>5, <1>6 DEF IInv

(* Saving the owner's token keeps the grant renewable. *)
LEMMA TokenSaved ==
    ASSUME Distinct, IInv, NEW a \in Accounts, NEW refresh \in BOOLEAN,
           refresh \/ (grant # None /\ grant.refresh), save_google_token(a, refresh)
    PROVE  grant' = [account |-> a, refresh |-> TRUE]
<1> DEFINE lasting == refresh \/ (grant # None /\ grant.refresh)
<1>1. grant' = [account |-> a, refresh |-> lasting]
  BY DEF save_google_token
<1>2. lasting = TRUE
  BY Zenon
<1> QED
  BY <1>1, <1>2

(* A tester's sign-in keeps the invariant: the session that it makes is of the account
   the user is linked to by the same step. *)
LEMMA TesterSignsIn ==
    ASSUME Distinct, IInv, NEW i \in Attempts, NEW a \in Accounts,
           attempt' = [attempt EXCEPT ![i] = NoAttempt], create_session(a),
           provision_test_user(a), UNCHANGED <<owner, grant, setup, refreshing>>
    PROVE  IInv'
<1> USE DEF create_session, provision_test_user
<1>0. Typed /\ OwnersRow /\ SessionsAreCurrent /\ GrantLasts /\ OneIdentity
  BY DEF IInv
<1>e. Email[a] \in Emails
  BY Addressed
<1>1. TypeOK'
  BY <1>0, <1>e DEF Typed, TypeOK, User
<1>2. Typed'
  BY <1>0, <1>1 DEF Typed, TypeOK, Requests, Grants, NoAttempt, Attempt
<1>3. OwnersRow'
  BY <1>0, <1>e DEF Typed, TypeOK, OwnersRow, NoUser, User
<1>4. SessionsAreCurrent'
  BY <1>0, <1>e DEF Typed, TypeOK, SessionsAreCurrent, User, Distinct
<1>5. GrantLasts'
  BY <1>0 DEF GrantLasts
<1>6. OneIdentity'
  BY <1>0, <1>e DEF Typed, TypeOK, OneIdentity, User
<1> QED
  BY <1>2, <1>3, <1>4, <1>5, <1>6 DEF IInv

(* The owner's sign-in keeps the invariant: the first one finds no user and no grant,
   a later one is of the same account. *)
LEMMA OwnerSignsIn ==
    ASSUME Distinct, IInv, NEW i \in Attempts, NEW a \in Accounts, NEW refresh \in BOOLEAN,
           attempt' = [attempt EXCEPT ![i] = NoAttempt], create_session(a),
           refresh \/ (grant # None /\ grant.refresh), save_google_token(a, refresh),
           bind_owner(a), UNCHANGED <<setup, refreshing>>
    PROVE  IInv'
<1> USE DEF create_session, bind_owner
<1>0. Typed /\ OwnersRow /\ SessionsAreCurrent /\ GrantLasts /\ OneIdentity
  BY DEF IInv
<1>e. Email[a] \in Emails
  BY Addressed
<1>g. grant' = [account |-> a, refresh |-> TRUE]
  BY TokenSaved
<1>1. TypeOK'
  BY <1>0, <1>e DEF Typed, TypeOK, User
<1>2. Typed'
  <2>1. grant' \in Grants
    BY <1>g DEF Grants
  <2>2. grant' # None
    BY <2>1 DEF Distinct
  <2> QED
    BY <1>0, <1>1, <2>1, <2>2 DEF Typed, TypeOK, Requests, Grants, NoAttempt, Attempt
<1>3. OwnersRow'
  BY <1>0, <1>e DEF Typed, TypeOK, OwnersRow, NoUser, User, Distinct
<1>4. SessionsAreCurrent'
  BY <1>0, <1>e DEF Typed, TypeOK, OwnersRow, SessionsAreCurrent, NoUser, User, Distinct
<1>5. GrantLasts'
  BY <1>g DEF GrantLasts
<1>6. OneIdentity'
  BY <1>0, <1>e DEF Typed, TypeOK, OwnersRow, OneIdentity, NoUser, User, Distinct
<1> QED
  BY <1>2, <1>3, <1>4, <1>5, <1>6 DEF IInv

(* The end of a callback keeps the invariant. *)
LEMMA SignInStep == ASSUME Distinct, IInv, NEW i \in Attempts, SignIn(i) PROVE IInv'
<1>1. attempt[i].account \in Accounts
  BY DEF IInv, Typed, SignIn
<1>2. CASE /\ attempt[i].kind = "test_user" /\ provision_test_user(attempt[i].account)
           /\ UNCHANGED <<owner, grant>>
  BY <1>1, <1>2, TesterSignsIn DEF SignIn
<1>3. CASE /\ \E refresh \in BOOLEAN :
                 /\ refresh \/ (grant # None /\ grant.refresh)
                 /\ save_google_token(attempt[i].account, refresh)
           /\ bind_owner(attempt[i].account)
  <2>1. PICK refresh \in BOOLEAN :
          /\ refresh \/ (grant # None /\ grant.refresh)
          /\ save_google_token(attempt[i].account, refresh)
    BY <1>3
  <2> QED
    BY <1>1, <1>3, <2>1, OwnerSignsIn DEF SignIn
<1> QED
  BY <1>2, <1>3 DEF SignIn

(* No step breaks the invariant. *)
LEMMA Continues == ASSUME Distinct, IInv, [Next]_vars PROVE IInv'
<1>1. CASE local_oauth_setup \/ Restart \/ refresh_access_token \/ valid_access_token
  BY <1>1, local_oauth_setupStep, RestartStep, refresh_access_tokenStep,
     valid_access_tokenStep
<1>2. CASE \E i \in Attempts :
             \/ LoginLocal(i) \/ _prune_pending_states(i) \/ CallbackFails(i) \/ SignIn(i)
             \/ \E e \in Emails : LoginRemote(i, e)
             \/ \E a \in Accounts : Callback(i, a)
  BY <1>2, LoginLocalStep, prune_pending_statesStep, CallbackFailsStep, SignInStep,
     LoginRemoteStep, CallbackStep
<1>3. CASE \E e \in Emails :
             \/ invite_test_user(e)
             \/ \E status \in {"pending", "active", "revoked"} : set_test_user_status(e, status)
  BY <1>3, invite_test_userStep, set_test_user_statusStep
<1>4. CASE \E s \in session : delete_session(s)
  BY <1>4, delete_sessionStep
<1>5. CASE UNCHANGED vars
  BY <1>5 DEF vars, IInv, Typed, TypeOK, OwnersRow, SessionsAreCurrent, GrantLasts,
     OneIdentity
<1> QED
  BY <1>1, <1>2, <1>3, <1>4, <1>5 DEF Next

(* The invariant always holds. *)
THEOREM Invariance == ASSUME Distinct PROVE Spec => []IInv
<1>1. Init => IInv
  BY Begins
<1>2. IInv /\ [Next]_vars => IInv'
  BY Continues
<1> QED
  BY <1>1, <1>2, PTL DEF Spec

(* A session belongs to an active user and to the account that user is linked to,
   whatever sign-ins were under way; the stored grant is the owner's and can be renewed;
   there is one owner for ever and one user per account (auth.py:494-555,
   db.py:450-630). *)
THEOREM IdentityIsOne ==
    ASSUME Distinct PROVE Spec => [](SessionsAreCurrent /\ GrantLasts /\ OneIdentity)
<1>1. IInv => SessionsAreCurrent /\ GrantLasts /\ OneIdentity
  BY DEF IInv
<1> QED
  BY <1>1, Invariance, PTL

-----------------------------------------------------------------------------
(* What conversations remember. *)

Previews == [site : Pages, page : Pages, parent : Pages \cup {None}]
Tools == {"ciq", "map", "prep", "list", "research", "evidence"}
Results == [tool : Tools, order : Orders \cup {None}, version : Nat]
Contexts == UNION {[D -> Orders \cup {None}] : D \in SUBSET Memory!Sections}
Subjects == [order : Orders \cup {None}, version : Nat, sections : Contexts]

\* What is absent is neither a preview nor a result nor a subject.
Recorded == None \notin Previews \cup Results \cup Subjects \cup Orders

\* What a turn holds has the shape of what its tool returns.
MemoryTyped ==
    /\ previews \in Seq(Previews)
    /\ edit \in [Turns -> Previews \cup {None}]
    /\ version \in [Orders -> Nat]
    /\ result \in [Turns -> Results \cup {None}]
    /\ \A t \in Turns : result[t] # None =>
          /\ result[t].tool # "ciq" => result[t].version = 0
          /\ result[t].tool \in {"list", "research"} <=> result[t].order = None
    /\ subject \in Subjects \cup {None}

\* The head of a site, and the lineage, of any history of previews.
HeadOf(history, site, n) ==
    LET of == {i \in 1 .. n : history[i].site = site}
    IN  IF of = {} THEN None ELSE history[CHOOSE i \in of : \A j \in of : j <= i].page
LineageOf(history) ==
    \A i \in 1 .. Len(history) :
        history[i].parent # None =>
            HeadOf(history, history[i].site, i - 1) = history[i].parent

Kept == MemoryTyped /\ Memory!Lineage /\ Memory!OwnEvidence

(* A set of indices has a last one. *)
LEMMA LastExists ==
    ASSUME NEW n \in Nat, NEW I \in SUBSET (1 .. n), I # {}
    PROVE  \E i \in I : \A j \in I : j <= i
<1> DEFINE Bounds == {m \in Nat : \A j \in I : j <= m}
<1>1. Bounds # {} /\ Bounds \subseteq Nat
  BY n \in Bounds
<1>2. PICK m \in Bounds : \A k \in Bounds : m <= k
  <2> HIDE DEF Bounds
  <2>1. PICK m \in Bounds : \A k \in Bounds : <<k, m>> \notin OpToRel(<, Nat)
    BY <1>1, NatLessThanWellFounded, WFMin
  <2>2. \A k \in Bounds : ~(k < m)
    BY <1>1, <2>1, Zenon DEF OpToRel
  <2> QED
    BY <1>1, <2>2
<1>3. CASE m \in I
  BY <1>3
<1>4. CASE m \notin I
  <2>1. m # 0
    <3>1. PICK j \in I : TRUE
      OBVIOUS
    <3> QED
      BY <3>1
  <2>2. m - 1 \in Bounds
    BY <2>1, <1>4
  <2> QED
    BY <2>2, <1>2
<1> QED
  BY <1>3, <1>4

(* What a longer history says of the head of a site among its first previews is what the
   shorter one said. *)
LEMMA HeadStays ==
    ASSUME NEW history \in Seq(Previews), NEW p \in Previews, NEW site,
           NEW n \in 0 .. Len(history)
    PROVE  HeadOf(Append(history, p), site, n) = HeadOf(history, site, n)
<1> DEFINE longer == Append(history, p)
           of == {i \in 1 .. n : history[i].site = site}
           after == {i \in 1 .. n : longer[i].site = site}
<1>1. \A i \in 1 .. n : longer[i] = history[i]
  OBVIOUS
<1>2. after = of
  BY <1>1
<1>3. CASE of = {}
  BY <1>2, <1>3 DEF HeadOf
<1>4. CASE of # {}
  <2> DEFINE last == CHOOSE i \in of : \A j \in of : j <= i
  <2>1. last \in 1 .. n
    <3>1. n \in Nat /\ of \in SUBSET (1 .. n)
      OBVIOUS
    <3>2. \E i \in of : \A j \in of : j <= i
      BY <1>4, <3>1, LastExists
    <3> QED
      BY <3>1, <3>2
  <2>2. HeadOf(history, site, n) = history[last].page
    BY <1>4 DEF HeadOf
  <2>3. HeadOf(longer, site, n) = longer[last].page
    BY <1>4, <1>2 DEF HeadOf
  <2> QED
    BY <1>1, <2>1, <2>2, <2>3
<1> QED
  BY <1>3, <1>4

(* A preview that continues the head of its site, or begins one, keeps the lineage. *)
LEMMA LineageGrows ==
    ASSUME NEW history \in Seq(Previews), NEW p \in Previews, LineageOf(history),
           p.parent # None => HeadOf(history, p.site, Len(history)) = p.parent
    PROVE  LineageOf(Append(history, p))
<1> DEFINE longer == Append(history, p)
<1> SUFFICES ASSUME NEW i \in 1 .. Len(longer), longer[i].parent # None
             PROVE  HeadOf(longer, longer[i].site, i - 1) = longer[i].parent
  BY DEF LineageOf
<1>1. Len(history) \in Nat /\ Len(longer) = Len(history) + 1
  OBVIOUS
<1>2. HeadOf(longer, longer[i].site, i - 1) = HeadOf(history, longer[i].site, i - 1)
  BY <1>1, HeadStays
<1>3. CASE i = Len(history) + 1
  BY <1>1, <1>2, <1>3
<1>4. CASE i # Len(history) + 1
  <2>1. i \in 1 .. Len(history) /\ longer[i] = history[i]
    BY <1>1, <1>4
  <2> QED
    BY <1>2, <2>1 DEF LineageOf
<1> QED
  BY <1>3, <1>4

(* Lineage says this of the previews there are, now and after a step. *)
LEMMA LineageIs ==
    (Memory!Lineage <=> LineageOf(previews)) /\ (Memory!Lineage' <=> LineageOf(previews'))
  BY DEF Memory!Lineage, LineageOf, Memory!Head_, HeadOf

(* A new conversation satisfies the invariant. *)
LEMMA MemoryBegins == ASSUME Recorded, Memory!Init PROVE Kept
<1> USE DEF Memory!Init
<1>1. MemoryTyped
  BY DEF MemoryTyped, Recorded
<1>2. Memory!Lineage /\ Memory!OwnEvidence
  BY DEF Memory!Lineage, Memory!OwnEvidence
<1> QED
  BY <1>1, <1>2 DEF Kept

(* A preview that is generated or revised is held by its turn; nothing is stored. *)
LEMMA MadeStep ==
    ASSUME Recorded, Kept, NEW t \in Turns, NEW page \in Pages,
           \/ Memory!website_preview_generate(t, page)
           \/ Memory!_revision_result(t, page)
    PROVE  Kept'
<1>1. [site |-> page, page |-> page, parent |-> None] \in Previews
  BY DEF Previews
<1>2. previews # <<>> => Memory!_latest_website_preview \in Previews
  BY DEF Kept, MemoryTyped, Memory!_latest_website_preview
<1>3. previews # <<>> => [site |-> Memory!_latest_website_preview.site, page |-> page,
                         parent |-> Memory!_latest_website_preview.page] \in Previews
  BY <1>2 DEF Previews
<1>4. MemoryTyped'
  BY <1>1, <1>3 DEF Kept, MemoryTyped, Memory!website_preview_generate,
     Memory!_revision_result
<1>5. Memory!Lineage' /\ Memory!OwnEvidence'
  BY LineageIs DEF Kept, Memory!OwnEvidence, Memory!website_preview_generate,
     Memory!_revision_result
<1> QED
  BY <1>4, <1>5 DEF Kept

(* A preview is stored after the head of its site, or it is a first one. *)
LEMMA StoredStep ==
    ASSUME Recorded, Kept, NEW t \in Turns, Memory!_persist_website_turn(t)
    PROVE  Kept'
<1>1. edit[t] \in Previews
  BY DEF Kept, MemoryTyped, Memory!_persist_website_turn,
     Memory!add_website_revision_message, Memory!add_message
<1>2. /\ edit' = [edit EXCEPT ![t] = None]
      /\ UNCHANGED <<version, result, subject>>
      /\ \/ /\ previews' = Append(previews, edit[t])
            /\ edit[t].parent # None =>
                  Memory!Head_(edit[t].site, Len(previews)) = edit[t].parent
         \/ UNCHANGED previews
  BY DEF Memory!_persist_website_turn, Memory!add_website_revision_message,
     Memory!add_message
<1>3. MemoryTyped'
  BY SMTT(30), <1>1, <1>2 DEF Kept, MemoryTyped
<1>4. Memory!OwnEvidence'
  BY <1>2 DEF Kept, Memory!OwnEvidence
<1>5. CASE UNCHANGED previews
  BY <1>3, <1>4, <1>5, LineageIs DEF Kept
<1>6. CASE /\ previews' = Append(previews, edit[t])
           /\ edit[t].parent # None =>
                 Memory!Head_(edit[t].site, Len(previews)) = edit[t].parent
  <2>1. Memory!Head_(edit[t].site, Len(previews)) = HeadOf(previews, edit[t].site, Len(previews))
    BY DEF Memory!Head_, HeadOf
  <2>2. LineageOf(previews')
    BY <1>1, <1>6, <2>1, LineageIs, LineageGrows DEF Kept, MemoryTyped
  <2> QED
    BY <1>3, <1>4, <2>2, LineageIs DEF Kept
<1> QED
  BY <1>2, <1>5, <1>6

(* The sections each tool fills. *)
LEMMA SectionsAre ==
    /\ Memory!SectionsOf("ciq") = {"calibrations"}
    /\ Memory!SectionsOf("prep") = {"calibrations", "weekly"}
    /\ Memory!SectionsOf("list") = {"weekly"}
    /\ Memory!SectionsOf("research") = {"technical_research"}
    /\ Memory!SectionsOf("map") = {"evidence"}
    /\ Memory!SectionsOf("evidence") = {"evidence"}
  BY Zenon DEF Memory!SectionsOf

(* Merging keeps the sections of both sides, and the update wins. *)
LEMMA Merges ==
    ASSUME NEW base \in Contexts, NEW update \in Contexts
    PROVE  /\ Memory!_merge_context(base, update) \in Contexts
           /\ DOMAIN Memory!_merge_context(base, update) = DOMAIN base \cup DOMAIN update
           /\ \A k \in DOMAIN base \cup DOMAIN update :
                 Memory!_merge_context(base, update)[k] =
                     IF k \in DOMAIN update THEN update[k] ELSE base[k]
<1> DEFINE D == DOMAIN base \cup DOMAIN update
           merged == Memory!_merge_context(base, update)
<1>1. /\ D \in SUBSET Memory!Sections
      /\ \A k \in DOMAIN base : base[k] \in Orders \cup {None}
      /\ \A k \in DOMAIN update : update[k] \in Orders \cup {None}
  BY DEF Contexts
<1>2. merged = [k \in D |-> IF k \in DOMAIN update THEN update[k] ELSE base[k]]
  BY DEF Memory!_merge_context
<1>3. merged \in [D -> Orders \cup {None}]
  BY <1>1, <1>2
<1>4. merged \in Contexts
  BY <1>1, <1>3 DEF Contexts
<1> QED
  BY <1>2, <1>4

\* What a result says belongs to its order.
Fits(r) == /\ r \in Results
           /\ r.tool # "ciq" => r.version = 0
           /\ r.tool \in {"list", "research"} <=> r.order = None

(* What a subject holds of a repair order was read from it. *)
Own(s) == \A k \in DOMAIN s.sections : k \notin Memory!Carried => s.sections[k] = s.order

(* A result is the start of a subject. *)
LEMMA FromResult ==
    ASSUME Recorded, NEW r, Fits(r)
    PROVE  LET s == Memory!subject_from_tool_result(r) IN
           /\ s \in Subjects /\ Own(s) /\ s.order = r.order /\ s.version = r.version
           /\ DOMAIN s.sections = Memory!SectionsOf(r.tool)
           /\ \A k \in DOMAIN s.sections :
                 s.sections[k] = IF k \in Memory!Carried THEN None ELSE r.order
<1> DEFINE s == Memory!subject_from_tool_result(r)
<1>1. Memory!SectionsOf(r.tool) \in SUBSET Memory!Sections
  BY SectionsAre DEF Fits, Results, Tools, Memory!Sections, Memory!Carried
<1>2. s.sections = [k \in Memory!SectionsOf(r.tool) |->
                      IF k \in Memory!Carried THEN None ELSE r.order]
  BY DEF Memory!subject_from_tool_result
<1>3. s.sections \in Contexts
  BY <1>1, <1>2 DEF Fits, Results, Contexts
<1>4. s = [order |-> r.order, version |-> r.version, sections |-> s.sections]
  BY DEF Memory!subject_from_tool_result
<1>5. s \in Subjects
  BY <1>3, <1>4 DEF Fits, Results, Subjects
<1> QED
  BY <1>2, <1>4, <1>5 DEF Own

\* A subject that replaces another goes on from it.
GoesOn(old, new) ==
    /\ new \in Subjects
    /\ Own(new)
    /\ Memory!_same_ro(old, new) => new.version >= old.version
    /\ DOMAIN old.sections \cap Memory!Carried \subseteq DOMAIN new.sections

(* A subject with other sections is a subject; with the sections it had and those of a
   result about its own order, or about none, it goes on. *)
LEMMA Updated ==
    ASSUME NEW old \in Subjects, Own(old), NEW update \in Contexts, NEW v \in Nat,
           NEW new, new = [order |-> old.order, version |-> v,
                           sections |-> Memory!_merge_context(old.sections, update)],
           v >= old.version,
           \A k \in DOMAIN update : k \notin Memory!Carried => update[k] = old.order
    PROVE  GoesOn(old, new)
<1>1. old.sections \in Contexts
  BY DEF Subjects
<1> DEFINE merged == Memory!_merge_context(old.sections, update)
<1>2. /\ merged \in Contexts
      /\ DOMAIN merged = DOMAIN old.sections \cup DOMAIN update
      /\ \A k \in DOMAIN merged :
            merged[k] = IF k \in DOMAIN update THEN update[k] ELSE old.sections[k]
  <2>1. /\ merged \in Contexts
        /\ DOMAIN merged = DOMAIN old.sections \cup DOMAIN update
        /\ \A k \in DOMAIN old.sections \cup DOMAIN update :
              merged[k] = IF k \in DOMAIN update THEN update[k] ELSE old.sections[k]
    BY <1>1, Merges
  <2> QED
    BY <2>1
<1> HIDE DEF merged
<1>3. new.order = old.order /\ new.version = v /\ new.sections = merged
  BY DEF merged
<1>4. new \in Subjects
  BY <1>2 DEF Subjects, merged
<1>5. Own(new)
  BY <1>2, <1>3 DEF Own
<1> QED
  BY <1>2, <1>3, <1>4, <1>5 DEF GoesOn

(* Documents and delegated research are added to the subject. *)
LEMMA Enriches ==
    ASSUME Recorded, subject \in Subjects, Own(subject), NEW r, Fits(r),
           \/ r.tool = "research"
           \/ r.tool = "evidence" /\ Memory!_same_ro(subject, r)
    PROVE  GoesOn(subject, Memory!_enrichment(r))
<1> DEFINE s == Memory!subject_from_tool_result(r)
<1>1. /\ s \in Subjects /\ DOMAIN s.sections = Memory!SectionsOf(r.tool)
      /\ \A k \in DOMAIN s.sections :
            s.sections[k] = IF k \in Memory!Carried THEN None ELSE r.order
  BY FromResult
<1> HIDE DEF s
<1>2. s.sections \in Contexts
  BY <1>1 DEF Subjects
<1>3. \A k \in DOMAIN s.sections : k \notin Memory!Carried => s.sections[k] = subject.order
  <2>1. CASE r.tool = "research"
    BY <1>1, <2>1, SectionsAre DEF Memory!Carried
  <2>2. CASE Memory!_same_ro(subject, r)
    BY <1>1, <2>2 DEF Memory!_same_ro
  <2> QED
    BY <2>1, <2>2
<1>4. Memory!_enrichment(r) =
        [order |-> subject.order, version |-> subject.version,
         sections |-> Memory!_merge_context(subject.sections, s.sections)]
  BY DEF Memory!_enrichment, Subjects, s
<1>5. subject.version \in Nat
  BY DEF Subjects
<1> QED
  BY <1>2, <1>3, <1>4, <1>5, Updated

(* A verified read, a map, a prepared audit or a list is merged into the subject, replaces
   it, or is refused because it is older. *)
LEMMA MergesSubject ==
    ASSUME Recorded, NEW old \in Subjects, Own(old), NEW r, Fits(r),
           r.tool \in {"ciq", "map", "prep", "list"}
    PROVE  GoesOn(old, Memory!_merge_subject(old, Memory!subject_from_tool_result(r), r.tool))
<1> DEFINE in == Memory!subject_from_tool_result(r)
           new == Memory!_merge_subject(old, in, r.tool)
<1> SUFFICES GoesOn(old, new)
  OBVIOUS
<1>1. /\ in \in Subjects /\ Own(in) /\ in.order = r.order /\ in.version = r.version
      /\ DOMAIN in.sections = Memory!SectionsOf(r.tool)
      /\ \A k \in DOMAIN in.sections :
            in.sections[k] = IF k \in Memory!Carried THEN None ELSE r.order
  BY FromResult
<1> HIDE DEF in
<1>2. /\ in.sections \in Contexts /\ old.sections \in Contexts
      /\ in.version \in Nat /\ old.version \in Nat
      /\ in = [order |-> in.order, version |-> in.version, sections |-> in.sections]
      /\ old = [order |-> old.order, version |-> old.version, sections |-> old.sections]
  BY <1>1 DEF Subjects
<1>3. CASE r.tool = "list" /\ old.order # None
  <2>1. new = [old EXCEPT !.sections = Memory!_merge_context(@, in.sections)]
    BY <1>3, Zenon DEF Memory!_merge_subject
  <2>2. new = [order |-> old.order, version |-> old.version,
               sections |-> Memory!_merge_context(old.sections, in.sections)]
    BY <1>2, <2>1
  <2>3. \A k \in DOMAIN in.sections : k \in Memory!Carried
    BY <1>1, <1>3, SectionsAre DEF Memory!Carried
  <2> QED
    BY <1>2, <2>2, <2>3, Updated
<1>4. CASE r.tool = "list" /\ old.order = None
  <2>1. new = [in EXCEPT !.sections = Memory!_merge_context(old.sections, @)]
    BY <1>4, Zenon DEF Memory!_merge_subject
  <2>2. new = [order |-> old.order, version |-> in.version,
               sections |-> Memory!_merge_context(old.sections, in.sections)]
    BY <1>1, <1>2, <1>4, <2>1 DEF Fits
  <2>3. GoesOn(old, [order |-> old.order, version |-> old.version,
                     sections |-> Memory!_merge_context(old.sections, in.sections)])
    BY <1>1, <1>2, <1>4, SectionsAre, Updated DEF Memory!Carried
  <2> QED
    BY <1>2, <1>4, <2>2, <2>3 DEF GoesOn, Own, Subjects, Memory!_same_ro
<1>5. CASE r.tool # "list" /\ Memory!_same_ro(old, in)
  <2>1. \A k \in DOMAIN in.sections : k \notin Memory!Carried => in.sections[k] = old.order
    BY <1>1, <1>5 DEF Memory!_same_ro
  <2>2. CASE r.tool = "ciq" /\ old.version > in.version
    <3>1. new = old
      BY <1>5, <2>2, Zenon DEF Memory!_merge_subject
    <3> QED
      BY <1>2, <3>1 DEF GoesOn
  <2>3. CASE ~(r.tool = "ciq" /\ old.version > in.version)
    <3> DEFINE v == IF in.version = 0 THEN old.version ELSE in.version
    <3>1. new = [old EXCEPT !.version = IF in.version = 0 THEN @ ELSE in.version,
                            !.sections = Memory!_merge_context(@, in.sections)]
      BY <1>5, <2>3, Zenon DEF Memory!_merge_subject
    <3>2. new = [order |-> old.order, version |-> v,
                 sections |-> Memory!_merge_context(old.sections, in.sections)]
      BY <1>2, <3>1
    <3>3. v \in Nat /\ v >= old.version
      BY <1>1, <1>2, <2>3 DEF Fits
    <3> QED
      BY <1>2, <2>1, <3>2, <3>3, Updated
  <2> QED
    BY <2>2, <2>3
<1>6. CASE r.tool # "list" /\ ~Memory!_same_ro(old, in)
  <2> DEFINE kept == [k \in DOMAIN old.sections \cap Memory!Carried |-> old.sections[k]]
             merged == Memory!_merge_context(kept, in.sections)
  <2>1. new = [in EXCEPT !.sections = Memory!_merge_context(kept, @)]
    BY <1>6, Zenon DEF Memory!_merge_subject
  <2>2. kept \in Contexts
    <3>1. /\ DOMAIN kept = DOMAIN old.sections \cap Memory!Carried
          /\ DOMAIN kept \in SUBSET Memory!Sections
          /\ kept \in [DOMAIN kept -> Orders \cup {None}]
      BY <1>2 DEF Contexts
    <3> QED
      BY <3>1 DEF Contexts
  <2>3. /\ merged \in Contexts
        /\ DOMAIN merged = DOMAIN kept \cup DOMAIN in.sections
        /\ \A k \in DOMAIN merged :
              merged[k] = IF k \in DOMAIN in.sections THEN in.sections[k] ELSE kept[k]
    <3> HIDE DEF kept
    <3>1. /\ merged \in Contexts
          /\ DOMAIN merged = DOMAIN kept \cup DOMAIN in.sections
          /\ \A k \in DOMAIN kept \cup DOMAIN in.sections :
                merged[k] = IF k \in DOMAIN in.sections THEN in.sections[k] ELSE kept[k]
      BY <1>2, <2>2, Merges
    <3> QED
      BY <3>1
  <2>4. DOMAIN kept = DOMAIN old.sections \cap Memory!Carried
    OBVIOUS
  <2> HIDE DEF kept, merged
  <2>5. new = [order |-> in.order, version |-> in.version, sections |-> merged]
    BY <1>2, <2>1 DEF merged
  <2>6. new \in Subjects
    BY <1>1, <2>3, <2>5 DEF Subjects
  <2>7. Own(new)
    BY <1>1, <2>3, <2>4, <2>5 DEF Own
  <2>8. ~Memory!_same_ro(old, new)
    BY <1>6, <2>5 DEF Memory!_same_ro
  <2> QED
    BY <2>3, <2>4, <2>5, <2>6, <2>7, <2>8 DEF GoesOn
<1> QED
  BY <1>3, <1>4, <1>5, <1>6

(* A tool's result is held by its turn. *)
LEMMA AnswerStep ==
    ASSUME Recorded, Kept, NEW t \in Turns, NEW tool \in Tools, NEW o \in Orders,
           Memory!Answer(t, tool, o)
    PROVE  Kept'
<1> DEFINE r == [tool |-> tool, order |-> IF tool \in {"list", "research"} THEN None ELSE o,
                 version |-> IF tool = "ciq" THEN version[o] ELSE 0]
<1>1. Fits(r)
  BY DEF Kept, MemoryTyped, Recorded, Fits, Results, Tools
<1>2. result' = [result EXCEPT ![t] = r] /\ UNCHANGED <<previews, edit, version, subject>>
  BY DEF Memory!Answer
<1> HIDE DEF r
<1>3. MemoryTyped'
  BY <1>1, <1>2 DEF Kept, MemoryTyped, Fits
<1>4. Memory!Lineage' /\ Memory!OwnEvidence'
  BY <1>2, LineageIs DEF Kept, Memory!OwnEvidence
<1> QED
  BY <1>3, <1>4 DEF Kept

(* Somebody works on a repair order at Calibration IQ. *)
LEMMA OthersStep ==
    ASSUME Kept, NEW o \in Orders, Memory!OthersChange(o) PROVE Kept'
<1>1. MemoryTyped'
  BY DEF Kept, MemoryTyped, Memory!OthersChange
<1>2. Memory!Lineage' /\ Memory!OwnEvidence'
  BY LineageIs DEF Kept, Memory!OwnEvidence, Memory!OthersChange
<1> QED
  BY <1>1, <1>2 DEF Kept

(* What is stored of a result goes on from the subject there is. *)
LEMMA UpdateStep ==
    ASSUME Recorded, Kept, NEW t \in Turns, Memory!persist_update(t)
    PROVE  Kept' /\ (subject # None => GoesOn(subject, subject'))
<1> DEFINE r == result[t]
<1>1. Fits(r)
  BY DEF Kept, MemoryTyped, Memory!persist_update, Fits
<1>2. /\ subject # None => subject \in Subjects /\ Own(subject)
      /\ result' = [result EXCEPT ![t] = None] /\ UNCHANGED <<previews, edit, version>>
  BY DEF Kept, MemoryTyped, Memory!OwnEvidence, Own, Memory!persist_update
<1>3. subject' = CASE r.tool \in {"evidence", "research"} /\ subject # None ->
                        IF r.tool = "research" \/ Memory!_same_ro(subject, r)
                        THEN Memory!_enrichment(r) ELSE subject
                   [] r.tool = "evidence" /\ subject = None -> None
                   [] subject = None /\ r.tool # "evidence" ->
                        Memory!subject_from_tool_result(r)
                   [] OTHER -> Memory!_merge_subject(
                                  subject, Memory!subject_from_tool_result(r), r.tool)
  BY Zenon DEF Memory!persist_update, Memory!set_conversation_subject
<1> HIDE DEF r
<1>4. \/ subject = None /\ subject' = None
      \/ subject' \in Subjects /\ Own(subject') /\ (subject # None => GoesOn(subject, subject'))
  <2>1. CASE r.tool \in {"evidence", "research"} /\ subject # None
    <3>1. CASE r.tool = "research" \/ Memory!_same_ro(subject, r)
      <4>1. subject' = Memory!_enrichment(r)
        BY <1>3, <2>1, <3>1, Zenon
      <4> QED
        BY <1>1, <1>2, <2>1, <3>1, <4>1, Enriches DEF GoesOn
    <3>2. CASE ~(r.tool = "research" \/ Memory!_same_ro(subject, r))
      <4>1. subject' = subject
        BY <1>3, <2>1, <3>2, Zenon
      <4> QED
        BY <1>2, <2>1, <4>1 DEF GoesOn, Subjects
    <3> QED
      BY <3>1, <3>2
  <2>2. CASE r.tool = "evidence" /\ subject = None
    BY <1>3, <2>2, Zenon
  <2>3. CASE subject = None /\ r.tool # "evidence"
    <3>1. subject' = Memory!subject_from_tool_result(r)
      BY <1>3, <2>3, Zenon
    <3> QED
      BY <1>1, <2>3, <3>1, FromResult
  <2>4. CASE subject # None /\ r.tool \notin {"evidence", "research"}
    <3>1. subject' = Memory!_merge_subject(subject, Memory!subject_from_tool_result(r), r.tool)
      BY <1>3, <2>4, Zenon
    <3>2. r.tool \in {"ciq", "map", "prep", "list"}
      BY <1>1, <2>4 DEF Fits, Results, Tools
    <3> QED
      BY <1>1, <1>2, <2>4, <3>1, <3>2, MergesSubject DEF GoesOn
  <2> QED
    BY <2>1, <2>2, <2>3, <2>4
<1>5. MemoryTyped'
  BY <1>2, <1>4 DEF Kept, MemoryTyped
<1>6. Memory!OwnEvidence'
  BY <1>4 DEF Memory!OwnEvidence, Own
<1>7. Memory!Lineage'
  BY <1>2, LineageIs DEF Kept
<1> QED
  BY <1>4, <1>5, <1>6, <1>7 DEF Kept

(* No step breaks the invariant, and none takes the subject back. *)
LEMMA MemoryContinues ==
    ASSUME Recorded, Kept, [Memory!Next]_Memory!vars
    PROVE  /\ Kept'
           /\ subject # None =>
                 /\ subject' # None
                 /\ Memory!_same_ro(subject, subject') => subject'.version >= subject.version
                 /\ DOMAIN subject.sections \cap Memory!Carried \subseteq DOMAIN subject'.sections
<1>1. ASSUME UNCHANGED subject, Kept'
      PROVE  Kept' /\ (subject # None => GoesOn(subject, subject'))
  BY <1>1 DEF Kept, MemoryTyped, Memory!OwnEvidence, GoesOn, Own, Subjects
<1>2. Kept' /\ (subject # None => GoesOn(subject, subject'))
  <2>1. CASE \E t \in Turns : Memory!Website(t)
    BY <1>1, <2>1, MadeStep, StoredStep DEF Memory!Website,
       Memory!website_preview_generate,
       Memory!_revision_result, Memory!_persist_website_turn,
       Memory!add_website_revision_message, Memory!add_message
  <2>2. CASE \E t \in Turns : Memory!Subject(t)
    <3>1. PICK t \in Turns : Memory!Subject(t)
      BY <2>2
    <3>2. CASE Memory!persist_update(t)
      BY <3>2, UpdateStep
    <3>3. CASE \E tool \in Tools, o \in Orders : Memory!Answer(t, tool, o)
      BY <1>1, <3>3, AnswerStep DEF Memory!Answer
    <3> QED
      BY <3>1, <3>2, <3>3 DEF Memory!Subject, Tools
  <2>3. CASE \E o \in Orders : Memory!OthersChange(o)
    BY <1>1, <2>3, OthersStep DEF Memory!OthersChange
  <2>4. CASE UNCHANGED Memory!vars
    <3>1. UNCHANGED <<previews, edit, version, result, subject>>
      BY <2>4 DEF Memory!vars
    <3>2. MemoryTyped' /\ Memory!Lineage' /\ Memory!OwnEvidence'
      BY <3>1, LineageIs DEF Kept, MemoryTyped, Memory!OwnEvidence
    <3> QED
      BY <1>1, <3>1, <3>2 DEF Kept
  <2> QED
    BY <2>1, <2>2, <2>3, <2>4 DEF Memory!Next
<1> QED
  BY <1>2 DEF GoesOn, Recorded

(* Every revision continues the head of its site, and the subject holds its own evidence,
   for any number of turns, pages and repair orders (db.py:784-884,
   conversation_working_context.py:1253-1318). *)
THEOREM MemoryIsOwn ==
    ASSUME Recorded PROVE Memory!Spec => [](Memory!Lineage /\ Memory!OwnEvidence)
<1>1. Memory!Init => Kept
  BY MemoryBegins
<1>2. Kept /\ [Memory!Next]_Memory!vars => Kept'
  BY MemoryContinues
<1>3. Kept => Memory!Lineage /\ Memory!OwnEvidence
  BY DEF Kept
<1> QED
  BY <1>1, <1>2, <1>3, PTL DEF Memory!Spec

(* No late answer and no concurrent edit takes the subject back to an older version of
   its repair order, and what is carried along stays (conversation_working_context.py:
   1253-1318, 1321-1383). *)
THEOREM SubjectNeverGoesBack ==
    ASSUME Recorded
    PROVE  Memory!Spec => Memory!SubjectAdvances
<1>1. Memory!Init => Kept
  BY MemoryBegins
<1>2. Kept /\ [Memory!Next]_Memory!vars => Kept'
  BY MemoryContinues
<1>3. Kept /\ [Memory!Next]_Memory!vars =>
        [subject # None =>
           /\ subject' # None
           /\ Memory!_same_ro(subject, subject') => subject'.version >= subject.version
           /\ DOMAIN subject.sections \cap Memory!Carried \subseteq DOMAIN subject'.sections]_Memory!vars
  BY MemoryContinues
<1> QED
  BY <1>1, <1>2, <1>3, PTL DEF Memory!Spec, Memory!SubjectAdvances

-----------------------------------------------------------------------------
(* What is learned from the service library. *)

Lives == {"absent", "discovered", "evidence_backed", "verified", "superseded"}
Statuses == {"unverified", "verified", "rejected"}
Judged == [extracted : BOOLEAN, status : Statuses]
Known == [auth : BOOLEAN, ok : BOOLEAN]
Offered == [file : Files, sha : Contents, text : Contents, auth : BOOLEAN,
            extracted : BOOLEAN, status : Statuses]

\* Research claims what can be recorded and reads files; what is offered is evidence.
Claimed == /\ Claim \in [Learners -> Records] /\ Reads \in [Learners -> Files]
           /\ Drafts \subseteq Offered

Shaped(x) == x \in [step : {x.step}, op : {x.op}, r : {x.r}, seen : {x.seen},
                    draft : {x.draft}, ok : {x.ok}]

KnowledgeTyped ==
    /\ records \in [Records -> [life : Lives, version : Nat, by : Records \cup {None}]]
    /\ evidence = [r \in Records |-> evidence[r]]
    /\ \A r \in Records : evidence[r] \in [DOMAIN evidence[r] -> Judged]
    /\ sources \in [DOMAIN sources -> Known]
    /\ call = [c \in Callers |-> call[c]] /\ \A c \in Callers : Shaped(call[c])

Sourced == \A r \in Records : \A k \in DOMAIN evidence[r] : Know!Source(k) \in DOMAIN sources

\* A record was replaced by one that was verified; no set of records is replaced by its own.
Chained ==
    /\ \A r \in Records : records[r].life = "superseded" =>
          /\ records[r].by \in Records
          /\ records[records[r].by].life \in {"verified", "superseded"}
    /\ \A S \in SUBSET Records :
          S # {} /\ (\A x \in S : records[x].life = "superseded") =>
              \E x \in S : records[x].by \notin S

\* Who stores has checked evidence; who works on a record read one that is there, and
\* what it read is what the version stands for.
Evidenced(e) == e.auth \in BOOLEAN /\ e.extracted \in BOOLEAN /\ e.status \in Statuses
Stores(x) == /\ x.r \in Records /\ Evidenced(x.draft) /\ x.ok \in BOOLEAN
             /\ x.seen \in {"discovered", "evidence_backed"}
Works(x) == /\ x.r \in Records /\ records[x.r].life # "absent"
            /\ x.step = "captured" => Evidenced(x.draft) /\ x.ok \in BOOLEAN
            /\ x.seen.rec.version \in Nat /\ x.seen.rec.version <= records[x.r].version
            /\ x.seen.rec.version = records[x.r].version => x.seen = Know!Content(x.r)
Called == \A c \in Callers : call[c].step \in {"looked", "captured"} =>
              IF call[c].op = "store" THEN Stores(call[c]) ELSE Works(call[c])

Held == \A r \in Records : records[r].life = "verified" => Know!Grounded(sources, evidence[r])

KnowledgeInv == KnowledgeTyped /\ Sourced /\ Chained /\ Held /\ Called

-----------------------------------------------------------------------------

(* The rank of a stage of the lifecycle is its place in it. *)
LEMMA Ranks ==
    /\ Know!Rank("discovered") = 1 /\ Know!Rank("evidence_backed") = 2 /\ Know!Rank("verified") = 3
    /\ Know!Rank("superseded") = 4
<1>1. /\ Know!LIFECYCLES[1] = "discovered" /\ Know!LIFECYCLES[2] = "evidence_backed"
      /\ Know!LIFECYCLES[3] = "verified" /\ Know!LIFECYCLES[4] = "superseded"
  BY DEF Know!LIFECYCLES
<1>2. ASSUME NEW n \in 1..4, NEW i \in 1..4, Know!LIFECYCLES[i] = Know!LIFECYCLES[n]
      PROVE  i = n
  BY <1>1, <1>2
<1>3. ASSUME NEW n \in 1..4 PROVE Know!Rank(Know!LIFECYCLES[n]) = n
  BY <1>2, <1>3 DEF Know!Rank
<1> QED
  BY <1>1, <1>3

Ordered == {"discovered", "evidence_backed", "verified"}

\* The evidence of ev that is verified, and quotes a file as it is.
Fresh(src, ev) == \E k \in DOMAIN ev : /\ ev[k].extracted /\ ev[k].status = "verified"
                                       /\ src[Know!Source(k)].auth /\ file[k.file] = k.sha

(* What becomes verified was validated against files that were hashed again. *)
LEMMA Validated ==
    ASSUME NEW src, NEW ev, \A k \in DOMAIN ev : Know!Source(k) \in DOMAIN src,
           src \in [DOMAIN src -> Known],
           Know!_validate_target_lifecycle("verified", Know!Rows(Know!_rehash_record_sources(src, ev), ev))
    PROVE  Fresh(src, ev) /\ Fresh(Know!_rehash_record_sources(src, ev), ev)
<1> DEFINE new == Know!_rehash_record_sources(src, ev)
<1>1. PICK x \in Know!Rows(new, ev) : x.extracted /\ x.auth /\ x.ok /\ x.status = "verified"
  BY DEF Know!_validate_target_lifecycle
<1>2. PICK k \in DOMAIN ev : x = [extracted |-> ev[k].extracted, status |-> ev[k].status,
                   auth |-> new[Know!Source(k)].auth, ok |-> new[Know!Source(k)].ok]
  BY DEF Know!Rows
<1>3. new[Know!Source(k)] = [src[Know!Source(k)] EXCEPT !.ok = Know!_source_content_validation(Know!Source(k))]
  BY DEF Know!_rehash_record_sources
<1>4. src[Know!Source(k)] \in Known
  OBVIOUS
<1>5. new[Know!Source(k)].auth = src[Know!Source(k)].auth
      /\ new[Know!Source(k)].ok = Know!_source_content_validation(Know!Source(k))
  BY <1>3, <1>4 DEF Known
<1>6. file[k.file] = k.sha
  BY <1>1, <1>2, <1>5 DEF Know!_source_content_validation, Know!Source
<1> QED
  BY <1>1, <1>2, <1>5, <1>6 DEF Fresh

(* Sources that are hashed again keep their authority. *)
LEMMA Rehashed ==
    ASSUME NEW src, NEW ev, src \in [DOMAIN src -> Known]
    PROVE  /\ Know!_rehash_record_sources(src, ev) \in [DOMAIN src -> Known]
           /\ DOMAIN Know!_rehash_record_sources(src, ev) = DOMAIN src
           /\ \A s \in DOMAIN src : Know!_rehash_record_sources(src, ev)[s].auth = src[s].auth
<1> DEFINE new == Know!_rehash_record_sources(src, ev)
<1>1. DOMAIN new = DOMAIN src /\ new = [s \in DOMAIN src |-> new[s]]
  BY DEF Know!_rehash_record_sources
<1>2. ASSUME NEW s \in DOMAIN src PROVE new[s] \in Known /\ new[s].auth = src[s].auth
  <2>1. src[s] \in Known
    OBVIOUS
  <2>2. Know!_source_content_validation(s) \in BOOLEAN
    BY DEF Know!_source_content_validation
  <2>3. [src[s] EXCEPT !.ok = Know!_source_content_validation(s)] \in Known
        /\ [src[s] EXCEPT !.ok = Know!_source_content_validation(s)].auth = src[s].auth
    BY <2>1, <2>2 DEF Known
  <2> QED
    BY <2>1, <2>3 DEF Know!_rehash_record_sources
<1> HIDE DEF new
<1> QED
  BY <1>1, <1>2 DEF new

-----------------------------------------------------------------------------
\* What a transaction may do to a record.
Moved(r) ==
    /\ records[r].life = "superseded" => records'[r] = records[r]
    /\ records[r].life = "verified" => records'[r].life \in {"verified", "superseded"}
    /\ records'[r].life = "verified" /\ records[r].life # "verified" =>
          Fresh(sources', evidence'[r])
    /\ records'[r].life = "superseded" /\ records[r].life # "superseded" =>
          /\ records'[r].by \in Records /\ records[records'[r].by].life = "verified"
          /\ records'[records'[r].by].life = "verified"
          /\ Fresh(sources', evidence'[records'[r].by])
    /\ records[r].life # "absent" =>
          /\ records'[r].life # "absent"
          /\ records[r].version <= records'[r].version
          /\ records'[r].version = records[r].version =>
                records'[r] = records[r] /\ evidence'[r] = evidence[r]

Keeps(r) == \A k \in DOMAIN evidence[r] :
    /\ k \in DOMAIN evidence'[r]
    /\ evidence[r][k].extracted => evidence'[r][k].extracted
    /\ evidence[r][k].status # "unverified" => evidence'[r][k].status = evidence[r][k].status

BaseTyped ==
    /\ records \in [Records -> [life : Lives, version : Nat, by : Records \cup {None}]]
    /\ evidence = [r \in Records |-> evidence[r]]
    /\ \A r \in Records : evidence[r] \in [DOMAIN evidence[r] -> Judged]
    /\ sources \in [DOMAIN sources -> Known]
    /\ Sourced

\* What a transaction may do to what is known.
Faithful ==
    /\ BaseTyped'
    /\ \A s \in DOMAIN sources : s \in DOMAIN sources' /\ sources'[s].auth = sources[s].auth
    /\ \A r \in Records : Moved(r) /\ Keeps(r)

\* Evidence that is inserted stands beside what was there.
Stands(r, e, ok) ==
    LET src == Know!_insert_source(e, ok)
        ev == Know!_insert_evidence(r, e)
    IN  /\ src \in [DOMAIN src -> Known]
        /\ \A s \in DOMAIN sources : s \in DOMAIN src /\ src[s].auth = sources[s].auth
        /\ ev \in [DOMAIN ev -> Judged]
        /\ DOMAIN ev = DOMAIN evidence[r] \cup {Know!Quote(e)}
        /\ \A k \in DOMAIN evidence[r] : ev[k] = evidence[r][k]
        /\ Know!Quote(e) \in DOMAIN evidence[r] => ev = evidence[r]
        /\ \A k \in DOMAIN ev : Know!Source(k) \in DOMAIN src

(* Evidence and its source are inserted beside what was there. *)
LEMMA Inserted ==
    ASSUME BaseTyped, NEW r \in Records, NEW e, Evidenced(e), NEW ok \in BOOLEAN
    PROVE  Stands(r, e, ok)
<1> DEFINE src == Know!_insert_source(e, ok)
<1> DEFINE ev == Know!_insert_evidence(r, e)
<1>1. src = [s \in DOMAIN sources \cup {Know!Source(e)} |-> src[s]]
  BY DEF Know!_insert_source
<1>2. ASSUME NEW s \in DOMAIN sources
      PROVE  src[s] \in Known /\ src[s].auth = sources[s].auth
  <2>1. sources[s] \in Known
    BY DEF BaseTyped
  <2>2. src[s] = sources[s] \/ src[s] = [auth |-> sources[s].auth, ok |-> ok]
    BY DEF Know!_insert_source
  <2> QED
    BY <2>1, <2>2 DEF Known
<1>3. ASSUME Know!Source(e) \notin DOMAIN sources PROVE src[Know!Source(e)] \in Known
  <2>1. src[Know!Source(e)] = [auth |-> e.auth, ok |-> ok]
    BY <1>3 DEF Know!_insert_source
  <2> QED
    BY <2>1 DEF Known, Evidenced
<1>4. ev = [k \in DOMAIN evidence[r] \cup {Know!Quote(e)} |-> ev[k]]
  BY DEF Know!_insert_evidence
<1>5. \A k \in DOMAIN evidence[r] : ev[k] = evidence[r][k] /\ ev[k] \in Judged
  BY DEF Know!_insert_evidence, BaseTyped
<1>6. ASSUME Know!Quote(e) \notin DOMAIN evidence[r] PROVE ev[Know!Quote(e)] \in Judged
  <2>1. ev[Know!Quote(e)] = [extracted |-> e.extracted, status |-> e.status]
    BY <1>6 DEF Know!_insert_evidence
  <2> QED
    BY <2>1 DEF Judged, Evidenced
<1>7. Know!Source(Know!Quote(e)) = Know!Source(e)
  BY DEF Know!Source, Know!Quote
<1>8. evidence[r] = [k \in DOMAIN evidence[r] |-> evidence[r][k]]
  BY DEF BaseTyped
<1>9. \A k \in DOMAIN evidence[r] : Know!Source(k) \in DOMAIN sources
  BY DEF BaseTyped, Sourced
<1> HIDE DEF src, ev
<1>10. /\ src \in [DOMAIN sources \cup {Know!Source(e)} -> Known]
       /\ DOMAIN src = DOMAIN sources \cup {Know!Source(e)}
  BY <1>1, <1>2, <1>3
<1>11. /\ ev \in [DOMAIN evidence[r] \cup {Know!Quote(e)} -> Judged]
       /\ DOMAIN ev = DOMAIN evidence[r] \cup {Know!Quote(e)}
  BY <1>4, <1>5, <1>6
<1>12. ASSUME Know!Quote(e) \in DOMAIN evidence[r] PROVE ev = evidence[r]
  <2>1. DOMAIN evidence[r] \cup {Know!Quote(e)} = DOMAIN evidence[r]
    BY <1>12
  <2>2. ev = [k \in DOMAIN evidence[r] |-> ev[k]]
    BY <1>4, <2>1
  <2>3. [k \in DOMAIN evidence[r] |-> ev[k]] = [k \in DOMAIN evidence[r] |-> evidence[r][k]]
    BY <1>5
  <2> QED
    BY <1>8, <2>2, <2>3
<1>13. \A k \in DOMAIN ev : Know!Source(k) \in DOMAIN src
  BY <1>7, <1>9, <1>10, <1>11
<1> QED
  BY <1>2, <1>5, <1>10, <1>11, <1>12, <1>13 DEF src, ev, Stands

(* Where a record climbs to verified, its evidence is fresh. *)
LEMMA ClimbsFresh ==
    ASSUME NEW src, NEW ev, \A k \in DOMAIN ev : Know!Source(k) \in DOMAIN src,
           src \in [DOMAIN src -> Known], NEW from \in Ordered, NEW to \in Ordered,
           Know!Climbs(src, ev, from, to)
    PROVE  /\ Know!Higher(from, to) \in Ordered
           /\ Know!Steps(from, to) \in Nat
           /\ Know!Steps(from, to) = 0 => Know!Higher(from, to) = from
           /\ Know!Rank(to) >= Know!Rank(from) => Know!Higher(from, to) = to
           /\ from = "verified" => Know!Higher(from, to) = "verified"
           /\ Know!Higher(from, to) = "verified" /\ from # "verified" =>
                 Fresh(Know!Climbed(src, ev, from, to), ev)
           /\ Know!Climbed(src, ev, from, to) \in [DOMAIN src -> Known]
           /\ DOMAIN Know!Climbed(src, ev, from, to) = DOMAIN src
           /\ \A s \in DOMAIN src : Know!Climbed(src, ev, from, to)[s].auth = src[s].auth
<1>1. Know!Rank(from) \in 1..3 /\ Know!Rank(to) \in 1..3
      /\ (Know!Rank(to) = 3 => to = "verified") /\ (from = "verified" => Know!Rank(from) = 3)
      /\ (from # "verified" => Know!Rank(from) < 3)
  BY Ranks DEF Ordered
<1>2. ASSUME Know!Higher(from, to) = "verified", from # "verified"
      PROVE  Fresh(Know!Climbed(src, ev, from, to), ev)
  <2>1. Know!Rank(from) < Know!Rank(to) /\ to = "verified"
    BY <1>1, <1>2 DEF Know!Higher
  <2>2. Know!Rank(to) = 3
    BY <2>1, Ranks
  <2>3. 3 \in Know!Rank(from) + 1..Know!Rank(to)
    BY <1>1, <2>1, <2>2
  <2>4. Know!LIFECYCLES[3] = "verified"
    BY DEF Know!LIFECYCLES
  <2>5. Know!_validate_target_lifecycle("verified", Know!Rows(Know!_rehash_record_sources(src, ev), ev))
    BY <2>3, <2>4 DEF Know!Climbs
  <2>6. Fresh(Know!_rehash_record_sources(src, ev), ev)
    BY <2>5, Validated
  <2> QED
    BY <2>1, <2>6 DEF Know!Climbed
<1>4. ASSUME Know!Rank(to) = Know!Rank(from) PROVE to = from
  BY <1>4, Ranks DEF Ordered
<1>3. /\ Know!Higher(from, to) \in Ordered /\ Know!Steps(from, to) \in Nat
      /\ Know!Rank(to) >= Know!Rank(from) => Know!Higher(from, to) = to
      /\ Know!Steps(from, to) = 0 => Know!Higher(from, to) = from
      /\ from = "verified" => Know!Higher(from, to) = "verified"
  BY <1>1, <1>4 DEF Know!Higher, Know!Steps
<1> QED
  BY <1>2, <1>3, Rehashed DEF Know!Climbed
(* A record that is not touched, and whose evidence is not, moves faithfully. *)
LEMMA Untouched ==
    ASSUME NEW r \in Records, records \in [Records -> [life : Lives, version : Nat, by : Records \cup {None}]],
           records'[r] = records[r], evidence'[r] = evidence[r]
    PROVE  Moved(r) /\ Keeps(r)
<1>1. records[r].version \in Nat
  OBVIOUS
<1>2. records[r].version <= records[r].version
  BY <1>1
<1> QED
  BY <1>2 DEF Moved, Keeps

(* To create a record, or to add to the one that is there, is faithful
   (automotive_knowledge.py:1272-1403). *)
LEMMA CreatesFaithfully ==
    ASSUME BaseTyped, NEW r \in Records, NEW e, Evidenced(e), NEW ok \in BOOLEAN,
           NEW life \in Ordered, Know!create_record(r, e, life, ok)
    PROVE  Faithful
<1> DEFINE src == Know!_insert_source(e, ok)
<1> DEFINE ev == Know!_insert_evidence(r, e)
<1> DEFINE created == records[r].life = "absent"
<1> DEFINE from == IF created THEN "discovered" ELSE records[r].life
<1> DEFINE added == Know!Quote(e) \notin DOMAIN evidence[r]
<1> DEFINE high == Know!Higher(from, life)
<1> DEFINE steps == Know!Steps(from, life)
<1> DEFINE number == steps + IF created THEN 1 ELSE records[r].version + IF added THEN 1 ELSE 0
<1>1. /\ records[r].life \in Lives /\ records[r].version \in Nat
      /\ records[r] \in [life : Lives, version : Nat, by : Records \cup {None}]
  BY DEF BaseTyped
<1>2. /\ from # "superseded" /\ Know!Climbs(src, ev, from, life)
      /\ records' = [records EXCEPT ![r].life = high, ![r].version = number]
      /\ evidence' = [evidence EXCEPT ![r] = ev]
      /\ sources' = Know!Climbed(src, ev, from, life)
  BY Zenon DEF Know!create_record
<1>3. from \in Ordered
  BY <1>1, <1>2 DEF Lives, Ordered
<1>4. /\ src \in [DOMAIN src -> Known]
      /\ \A s \in DOMAIN sources : s \in DOMAIN src /\ src[s].auth = sources[s].auth
      /\ ev \in [DOMAIN ev -> Judged]
      /\ DOMAIN ev = DOMAIN evidence[r] \cup {Know!Quote(e)}
      /\ \A k \in DOMAIN evidence[r] : ev[k] = evidence[r][k]
      /\ ~added => ev = evidence[r]
      /\ \A k \in DOMAIN ev : Know!Source(k) \in DOMAIN src
  BY Inserted DEF Stands
<1> HIDE DEF src, ev, from
<1>5. /\ high \in Ordered /\ steps \in Nat
      /\ steps = 0 => high = from
      /\ from = "verified" => high = "verified"
      /\ high = "verified" /\ from # "verified" => Fresh(sources', ev)
      /\ sources' \in [DOMAIN src -> Known] /\ DOMAIN sources' = DOMAIN src
      /\ \A s \in DOMAIN src : sources'[s].auth = src[s].auth
  BY <1>2, <1>3, <1>4, ClimbsFresh
<1> HIDE DEF high, steps
<1>6. /\ number \in Nat
      /\ ~created => number >= records[r].version
      /\ ~created /\ number = records[r].version => steps = 0 /\ ~added
  BY <1>1, <1>5
<1> HIDE DEF number
<1>7. evidence'[r] = ev /\ (\A o \in Records \ {r} : evidence'[o] = evidence[o])
      /\ evidence' = [o \in Records |-> evidence'[o]]
  BY <1>2 DEF BaseTyped
<1>8. /\ records'[r] = [records[r] EXCEPT !.life = high, !.version = number]
      /\ \A o \in Records \ {r} : records'[o] = records[o]
      /\ records' = [o \in Records |-> records'[o]]
  BY <1>2 DEF BaseTyped
<1>9. /\ records'[r].life = high /\ records'[r].version = number
      /\ records'[r].by = records[r].by
      /\ records'[r] \in [life : Lives, version : Nat, by : Records \cup {None}]
  BY <1>1, <1>5, <1>6, <1>8 DEF Ordered, Lives
<1>10. BaseTyped'
  <2>1. records' \in [Records -> [life : Lives, version : Nat, by : Records \cup {None}]]
    BY <1>8, <1>9 DEF BaseTyped
  <2>2. \A o \in Records : evidence'[o] \in [DOMAIN evidence'[o] -> Judged]
    BY <1>4, <1>7 DEF BaseTyped
  <2>3. \A o \in Records : \A k \in DOMAIN evidence'[o] : Know!Source(k) \in DOMAIN sources'
    BY <1>4, <1>5, <1>7 DEF BaseTyped, Sourced
  <2> QED
    BY <1>5, <1>7, <2>1, <2>2, <2>3 DEF BaseTyped, Sourced
<1>11. \A s \in DOMAIN sources : s \in DOMAIN sources' /\ sources'[s].auth = sources[s].auth
  BY <1>4, <1>5
<1>12. \A o \in Records \ {r} : Moved(o) /\ Keeps(o)
  BY <1>7, <1>8, Untouched DEF BaseTyped
<1>13. Keeps(r)
  BY <1>4, <1>7 DEF Keeps
<1>14. Moved(r)
  <2>1. records[r].life # "superseded" /\ records'[r].life # "superseded"
        /\ records'[r].life # "absent"
    BY <1>2, <1>5, <1>9 DEF from, Ordered
  <2>2. records[r].life = "verified" => records'[r].life = "verified"
    BY <1>5, <1>9 DEF from
  <2>3. records'[r].life = "verified" /\ records[r].life # "verified" => Fresh(sources', evidence'[r])
    BY <1>5, <1>7, <1>9 DEF from
  <2>4. ASSUME records[r].life # "absent" PROVE records[r].version <= records'[r].version
    BY <1>1, <1>6, <1>9, <2>4
  <2>5. ASSUME records[r].life # "absent", records'[r].version = records[r].version
        PROVE  records'[r] = records[r] /\ evidence'[r] = evidence[r]
    <3>1. steps = 0 /\ ~added
      BY <1>6, <1>9, <2>5
    <3>2. high = records[r].life
      BY <1>5, <2>5, <3>1 DEF from
    <3>3. records'[r] = records[r]
      BY <1>1, <1>9, <2>5, <3>2
    <3> QED
      BY <1>4, <1>7, <3>1, <3>3
  <2> QED
    BY <2>1, <2>2, <2>3, <2>4, <2>5 DEF Moved
<1> QED
  BY <1>10, <1>11, <1>12, <1>13, <1>14 DEF Faithful

(* To add evidence to the version that was read is faithful. *)
LEMMA AddsFaithfully ==
    ASSUME BaseTyped, NEW c \in Callers, Works(call[c]), Know!add_evidence(c)
    PROVE  Faithful
<1> DEFINE e == call[c].draft
<1> DEFINE r == call[c].r
<1> DEFINE ok == call[c].ok
<1> DEFINE src == Know!_insert_source(e, ok)
<1> DEFINE ev == Know!_insert_evidence(r, e)
<1> DEFINE added == Know!Quote(e) \notin DOMAIN evidence[r]
<1> DEFINE number == records[r].version + IF Know!Quote(e) \in DOMAIN evidence[r] THEN 0 ELSE 1
<1>1. /\ r \in Records /\ Evidenced(e) /\ ok \in BOOLEAN
      /\ records[r].life \notin {"absent", "superseded"}
  BY DEF Works, Know!add_evidence, Know!Expects, Know!Fits
<1>2. /\ records[r].version \in Nat
      /\ records[r] \in [life : Lives, version : Nat, by : Records \cup {None}]
  BY <1>1 DEF BaseTyped
<1>3. /\ records' = [records EXCEPT ![r].version = number]
      /\ evidence' = [evidence EXCEPT ![r] = ev]
      /\ sources' = src
  BY DEF Know!add_evidence
<1> HIDE DEF e, ok, r
<1>4. /\ src \in [DOMAIN src -> Known]
      /\ \A s \in DOMAIN sources : s \in DOMAIN src /\ src[s].auth = sources[s].auth
      /\ ev \in [DOMAIN ev -> Judged]
      /\ DOMAIN ev = DOMAIN evidence[r] \cup {Know!Quote(e)}
      /\ \A k \in DOMAIN evidence[r] : ev[k] = evidence[r][k]
      /\ ~added => ev = evidence[r]
      /\ \A k \in DOMAIN ev : Know!Source(k) \in DOMAIN src
  <2>1. Stands(r, e, ok)
    BY <1>1, Inserted
  <2> QED
    BY <2>1 DEF src, ev, Stands
<1> HIDE DEF src, ev
<1>6. /\ number \in Nat /\ number >= records[r].version
      /\ number = records[r].version => ~added
  BY <1>2
<1> HIDE DEF number
<1>7. evidence'[r] = ev /\ (\A o \in Records \ {r} : evidence'[o] = evidence[o])
      /\ evidence' = [o \in Records |-> evidence'[o]]
  BY <1>1, <1>3 DEF BaseTyped
<1>8. /\ records'[r] = [records[r] EXCEPT !.version = number]
      /\ \A o \in Records \ {r} : records'[o] = records[o]
      /\ records' = [o \in Records |-> records'[o]]
  BY <1>1, <1>3 DEF BaseTyped
<1>9. /\ records'[r].life = records[r].life /\ records'[r].version = number
      /\ records'[r].by = records[r].by
      /\ records'[r] \in [life : Lives, version : Nat, by : Records \cup {None}]
  BY <1>2, <1>6, <1>8
<1>10. BaseTyped'
  <2>1. records' \in [Records -> [life : Lives, version : Nat, by : Records \cup {None}]]
    BY <1>8, <1>9 DEF BaseTyped
  <2>2. \A o \in Records : evidence'[o] \in [DOMAIN evidence'[o] -> Judged]
    BY <1>4, <1>7 DEF BaseTyped
  <2>3. \A o \in Records : \A k \in DOMAIN evidence'[o] : Know!Source(k) \in DOMAIN sources'
    BY <1>3, <1>4, <1>7 DEF BaseTyped, Sourced
  <2> QED
    BY <1>3, <1>4, <1>7, <2>1, <2>2, <2>3 DEF BaseTyped, Sourced
<1>11. \A s \in DOMAIN sources : s \in DOMAIN sources' /\ sources'[s].auth = sources[s].auth
  BY <1>3, <1>4
<1>12. \A o \in Records \ {r} : Moved(o) /\ Keeps(o)
  BY <1>7, <1>8, Untouched DEF BaseTyped
<1>13. Keeps(r)
  BY <1>4, <1>7 DEF Keeps
<1>14. Moved(r)
  <2>1. ASSUME number = records[r].version
        PROVE  records'[r] = records[r] /\ evidence'[r] = evidence[r]
    BY <1>2, <1>4, <1>6, <1>7, <1>9, <2>1
  <2> QED
    BY <1>1, <1>6, <1>9, <2>1 DEF Moved
<1> QED
  BY <1>10, <1>11, <1>12, <1>13, <1>14 DEF Faithful

(* To review evidence of the version that was read is faithful, or changes nothing. *)
LEMMA ReviewsFaithfully ==
    ASSUME BaseTyped, NEW c \in Callers, Works(call[c]), Know!review_evidence(c)
    PROVE  Faithful \/ UNCHANGED Know!base
<1> DEFINE r == call[c].r
<1> DEFINE src == Know!_rehash_record_sources(sources, evidence[r])
<1>1. r \in Records /\ records[r].life \notin {"absent", "superseded"}
  BY DEF Works, Know!review_evidence, Know!Expects, Know!Fits
<1>2. PICK k \in DOMAIN evidence[r], extracted \in BOOLEAN, status \in Statuses :
         LET now == [extracted |-> extracted, status |-> status] IN
              \/ /\ Know!Reviewable(evidence[r][k], src, k, extracted, status)
                 /\ sources' = src
                 /\ evidence' = [evidence EXCEPT ![r][k] = now]
                 /\ records' = [records EXCEPT ![r].version =
                                   @ + IF evidence[r][k] = now THEN 0 ELSE 1]
              \/ ~Know!Reviewable(evidence[r][k], src, k, extracted, status) /\ UNCHANGED Know!base
  BY Zenon DEF Know!review_evidence, Statuses
<1> DEFINE now == [extracted |-> extracted, status |-> status]
<1> DEFINE number == records[r].version + IF evidence[r][k] = now THEN 0 ELSE 1
<1> SUFFICES ASSUME ~UNCHANGED Know!base PROVE Faithful
  OBVIOUS
<1>3. /\ Know!Reviewable(evidence[r][k], src, k, extracted, status)
      /\ sources' = src
      /\ evidence' = [evidence EXCEPT ![r][k] = now]
      /\ records' = [records EXCEPT ![r].version = number]
  BY <1>2, Zenon
<1>4. /\ src \in [DOMAIN sources -> Known] /\ DOMAIN src = DOMAIN sources
      /\ \A s \in DOMAIN sources : src[s].auth = sources[s].auth
  BY Rehashed DEF BaseTyped
<1>5. /\ records[r].version \in Nat
      /\ records[r] \in [life : Lives, version : Nat, by : Records \cup {None}]
      /\ evidence[r] \in [DOMAIN evidence[r] -> Judged]
  BY <1>1 DEF BaseTyped
<1> HIDE DEF src
<1>6. /\ number \in Nat /\ number >= records[r].version
      /\ number = records[r].version => evidence[r][k] = now
  BY <1>5
<1> HIDE DEF number
<1>7. /\ evidence[r][k].extracted => extracted
      /\ evidence[r][k].status # "unverified" => status = evidence[r][k].status
  BY <1>3 DEF Know!Reviewable
<1>8. /\ now \in Judged /\ now.extracted = extracted /\ now.status = status
  BY DEF Judged
<1> HIDE DEF now
<1>9. /\ evidence'[r] = [evidence[r] EXCEPT ![k] = now]
      /\ \A o \in Records \ {r} : evidence'[o] = evidence[o]
      /\ evidence' = [o \in Records |-> evidence'[o]]
  BY <1>1, <1>3 DEF BaseTyped
<1>10. /\ DOMAIN evidence'[r] = DOMAIN evidence[r] /\ evidence'[r][k] = now
       /\ \A i \in DOMAIN evidence[r] \ {k} : evidence'[r][i] = evidence[r][i]
       /\ evidence'[r] \in [DOMAIN evidence[r] -> Judged]
       /\ evidence[r][k] = now => evidence'[r] = evidence[r]
  BY <1>5, <1>8, <1>9
<1>11. /\ records'[r] = [records[r] EXCEPT !.version = number]
       /\ \A o \in Records \ {r} : records'[o] = records[o]
       /\ records' = [o \in Records |-> records'[o]]
  BY <1>1, <1>3 DEF BaseTyped
<1>12. /\ records'[r].life = records[r].life /\ records'[r].version = number
       /\ records'[r].by = records[r].by
       /\ records'[r] \in [life : Lives, version : Nat, by : Records \cup {None}]
  BY <1>5, <1>6, <1>11
<1> HIDE DEF r
<1>13. BaseTyped'
  <2>1. records' \in [Records -> [life : Lives, version : Nat, by : Records \cup {None}]]
    BY <1>11, <1>12 DEF BaseTyped
  <2>2. \A o \in Records : /\ evidence'[o] \in [DOMAIN evidence'[o] -> Judged]
                           /\ DOMAIN evidence'[o] = DOMAIN evidence[o]
    BY <1>9, <1>10 DEF BaseTyped
  <2> QED
    BY <1>3, <1>4, <1>9, <2>1, <2>2 DEF BaseTyped, Sourced
<1>14. \A s \in DOMAIN sources : s \in DOMAIN sources' /\ sources'[s].auth = sources[s].auth
  BY <1>3, <1>4
<1>15. \A o \in Records \ {r} : Moved(o) /\ Keeps(o)
  BY <1>9, <1>11, Untouched DEF BaseTyped
<1>16. Keeps(r)
  <2>1. ASSUME NEW i \in DOMAIN evidence[r]
        PROVE  /\ i \in DOMAIN evidence'[r]
               /\ evidence[r][i].extracted => evidence'[r][i].extracted
               /\ evidence[r][i].status # "unverified" =>
                     evidence'[r][i].status = evidence[r][i].status
    BY <1>7, <1>8, <1>10
  <2> QED
    BY <2>1 DEF Keeps
<1>17. Moved(r)
  <2>1. ASSUME number = records[r].version
        PROVE  records'[r] = records[r] /\ evidence'[r] = evidence[r]
    BY <1>5, <1>6, <1>10, <1>12, <2>1
  <2> QED
    BY <1>1, <1>6, <1>12, <2>1 DEF Moved
<1> QED
  BY <1>13, <1>14, <1>15, <1>16, <1>17 DEF Faithful

(* A version that was raised by some steps is no less, and the same when there was none. *)
LEMMA Raised ==
    ASSUME NEW v \in Nat, NEW n \in Nat
    PROVE  v + n \in Nat /\ v + n >= v /\ (v + n = v => n = 0)
  OBVIOUS

(* To promote the version that was read is faithful, or changes nothing. *)
LEMMA PromotesFaithfully ==
    ASSUME BaseTyped, NEW c \in Callers, Works(call[c]), Know!promote(c)
    PROVE  Faithful \/ UNCHANGED Know!base
<1> DEFINE r == call[c].r
<1> DEFINE from == records[r].life
<1> SUFFICES ASSUME ~UNCHANGED Know!base PROVE Faithful
  OBVIOUS
<1>1. r \in Records /\ from \notin {"absent", "superseded"}
  BY DEF Works, Know!promote, Know!Expects, Know!Fits
<1>2. PICK to \in {"evidence_backed", "verified"} :
         /\ Know!Rank(to) >= Know!Rank(from) /\ Know!Climbs(sources, evidence[r], from, to)
         /\ records' = [records EXCEPT ![r].life = to, ![r].version = @ + Know!Steps(from, to)]
         /\ sources' = Know!Climbed(sources, evidence[r], from, to)
         /\ UNCHANGED evidence
  BY Zenon DEF Know!promote
<1>3. /\ records[r].version \in Nat
      /\ records[r] \in [life : Lives, version : Nat, by : Records \cup {None}]
      /\ evidence[r] \in [DOMAIN evidence[r] -> Judged]
      /\ \A k \in DOMAIN evidence[r] : Know!Source(k) \in DOMAIN sources
      /\ sources \in [DOMAIN sources -> Known]
  BY <1>1 DEF BaseTyped, Sourced
<1>4. from \in Ordered /\ to \in Ordered
  BY <1>1, <1>3 DEF Lives, Ordered
<1> DEFINE steps == Know!Steps(from, to)
<1>5. /\ steps \in Nat
      /\ steps = 0 => to = from
      /\ from = "verified" => to = "verified"
      /\ to = "verified" /\ from # "verified" => Fresh(sources', evidence[r])
      /\ sources' \in [DOMAIN sources -> Known] /\ DOMAIN sources' = DOMAIN sources
      /\ \A s \in DOMAIN sources : sources'[s].auth = sources[s].auth
  <2> HIDE DEF from
  <2> QED
    BY ONLY <1>2, <1>3, <1>4, ClimbsFresh
<1>6. records' = [records EXCEPT ![r].life = to, ![r].version = records[r].version + steps]
  BY <1>2
<1> DEFINE number == records[r].version + steps
<1> HIDE DEF steps, r, from
<1>7. number \in Nat /\ number >= records[r].version
      /\ (number = records[r].version => steps = 0)
  <2>1. records[r].version \in Nat /\ steps \in Nat
    BY <1>3, <1>5
  <2> QED
    BY ONLY <2>1, Raised DEF number
<1> HIDE DEF number
<1>8. /\ records'[r] = [records[r] EXCEPT !.life = to, !.version = number]
      /\ \A o \in Records \ {r} : records'[o] = records[o]
      /\ records' = [o \in Records |-> records'[o]]
  BY <1>1, <1>6 DEF BaseTyped, number
<1>9. /\ records'[r].life = to /\ records'[r].version = number
      /\ records'[r].by = records[r].by
      /\ records'[r] \in [life : Lives, version : Nat, by : Records \cup {None}]
  BY <1>3, <1>4, <1>7, <1>8 DEF Ordered, Lives
<1>10. BaseTyped'
  <2>1. records' \in [Records -> [life : Lives, version : Nat, by : Records \cup {None}]]
    BY <1>8, <1>9 DEF BaseTyped
  <2> QED
    BY <1>2, <1>5, <2>1 DEF BaseTyped, Sourced
<1>11. \A s \in DOMAIN sources : s \in DOMAIN sources' /\ sources'[s].auth = sources[s].auth
  BY <1>5
<1>12. \A o \in Records \ {r} : Moved(o) /\ Keeps(o)
  BY <1>2, <1>8, Untouched DEF BaseTyped
<1>13. Keeps(r)
  BY <1>2 DEF Keeps
<1>14. Moved(r)
  <2>1. ASSUME number = records[r].version PROVE records'[r] = records[r]
    <3>1. to = records[r].life
      BY <1>5, <1>7, <2>1 DEF from
    <3> QED
      BY <1>3, <1>9, <2>1, <3>1
  <2>2. to # "absent" /\ to # "superseded" /\ records[r].life # "superseded"
    BY <1>1 DEF from
  <2> QED
    BY <1>2, <1>5, <1>7, <1>9, <2>1, <2>2 DEF Moved, from
<1> QED
  BY <1>10, <1>11, <1>12, <1>13, <1>14 DEF Faithful

(* To replace a record by a verified one is faithful, or changes nothing. *)
LEMMA SupersedesFaithfully ==
    ASSUME BaseTyped, NEW c \in Callers, Works(call[c]), Know!supersede(c)
    PROVE  Faithful \/ UNCHANGED Know!base
<1> DEFINE r == call[c].r
<1> SUFFICES ASSUME ~UNCHANGED Know!base PROVE Faithful
  OBVIOUS
<1>1. r \in Records /\ records[r].life \notin {"absent", "superseded"}
  BY DEF Works, Know!supersede, Know!Expects, Know!Fits
<1>2. PICK other \in Records \ {r} :
         /\ Know!Replaces(other)
         /\ records' = [records EXCEPT
               ![r] = [life |-> "superseded", version |-> @.version + 1, by |-> other]]
         /\ sources' = Know!_rehash_record_sources(sources, evidence[other])
         /\ UNCHANGED evidence
  BY Zenon DEF Know!supersede
<1>3. /\ records[r].version \in Nat /\ sources \in [DOMAIN sources -> Known]
      /\ \A k \in DOMAIN evidence[other] : Know!Source(k) \in DOMAIN sources
  BY <1>1, <1>2 DEF BaseTyped, Sourced
<1>4. Fresh(sources', evidence[other]) /\ records[other].life = "verified"
  BY <1>2, <1>3, Validated DEF Know!Replaces
<1>5. /\ sources' \in [DOMAIN sources -> Known] /\ DOMAIN sources' = DOMAIN sources
      /\ \A s \in DOMAIN sources : sources'[s].auth = sources[s].auth
  BY <1>2, <1>3, Rehashed
<1> HIDE DEF r
<1>6. /\ records'[r] = [life |-> "superseded", version |-> records[r].version + 1, by |-> other]
      /\ \A o \in Records \ {r} : records'[o] = records[o]
      /\ records' = [o \in Records |-> records'[o]]
  BY <1>1, <1>2 DEF BaseTyped
<1>7. records'[r] \in [life : Lives, version : Nat, by : Records \cup {None}]
  BY <1>3, <1>6 DEF Lives
<1>8. BaseTyped'
  <2>1. records' \in [Records -> [life : Lives, version : Nat, by : Records \cup {None}]]
    BY <1>6, <1>7 DEF BaseTyped
  <2> QED
    BY <1>2, <1>5, <2>1 DEF BaseTyped, Sourced
<1>9. \A o \in Records \ {r} : Moved(o) /\ Keeps(o)
  BY <1>2, <1>6, Untouched DEF BaseTyped
<1>10. Keeps(r)
  BY <1>2 DEF Keeps
<1>11. Moved(r)
  BY <1>1, <1>2, <1>3, <1>4, <1>6 DEF Moved
<1> QED
  BY <1>5, <1>8, <1>9, <1>10, <1>11 DEF Faithful
-----------------------------------------------------------------------------
\* A step of research or of a caller on what is known.
Touches ==
    \/ \E l \in Learners : Know!Promoted(l)
    \/ \E c \in Callers : \/ Know!Store(c) \/ Know!add_evidence(c) \/ Know!review_evidence(c)
                           \/ Know!promote(c) \/ Know!supersede(c)

(* Every step leaves what is known alone, or changes it faithfully. *)
LEMMA StepsFaithfully ==
    ASSUME Claimed, KnowledgeInv, [Know!Next]_Know!vars
    PROVE  Faithful \/ UNCHANGED Know!base
<1> USE DEF KnowledgeInv
<1>0. BaseTyped
  BY DEF KnowledgeTyped, BaseTyped
<1>1. ASSUME NEW l \in Learners, Know!Promoted(l) PROVE Faithful \/ UNCHANGED Know!base
  <2>1. Evidenced(Know!Learned(l))
    BY DEF Evidenced, Know!Learned, Statuses
  <2>2. Claim[l] \in Records
    BY DEF Claimed
  <2>3. CASE Know!create_record(Claim[l], Know!Learned(l), "verified", TRUE)
    BY <1>0, <2>1, <2>2, <2>3, CreatesFaithfully DEF Ordered
  <2> QED
    BY <1>1, <2>3, Zenon DEF Know!Promoted
<1>2. ASSUME NEW c \in Callers, Know!Store(c) PROVE Faithful \/ UNCHANGED Know!base
  <2>1. Stores(call[c])
    BY <1>2 DEF Called, Know!Store
  <2>2. CASE Know!create_record(call[c].r, call[c].draft, call[c].seen, call[c].ok)
    <3>1. call[c].seen \in Ordered
      BY <2>1 DEF Stores, Ordered
    <3> QED
      BY <1>0, <2>1, <2>2, <3>1, CreatesFaithfully DEF Stores
  <2> QED
    BY <1>2, <2>2, Zenon DEF Know!Store
<1>3. ASSUME NEW c \in Callers, Know!Expects(c, "looked", "add") \/ Know!Expects(c, "captured", "add")
                \/ Know!Expects(c, "looked", "review") \/ Know!Expects(c, "looked", "promote")
                \/ Know!Expects(c, "looked", "supersede")
      PROVE  Works(call[c])
  BY <1>3 DEF Called, Know!Expects
<1>4. ASSUME NEW c \in Callers, Know!add_evidence(c) PROVE Faithful
  <2>1. Works(call[c])
    BY <1>3, <1>4 DEF Know!add_evidence
  <2> QED
    BY <1>0, <1>4, <2>1, AddsFaithfully
<1>5. ASSUME NEW c \in Callers, Know!review_evidence(c)
      PROVE  Faithful \/ UNCHANGED Know!base
  <2>1. Works(call[c])
    BY <1>3, <1>5 DEF Know!review_evidence
  <2> QED
    BY <1>0, <1>5, <2>1, ReviewsFaithfully
<1>6. ASSUME NEW c \in Callers, Know!promote(c) PROVE Faithful \/ UNCHANGED Know!base
  <2>1. Works(call[c])
    BY <1>3, <1>6 DEF Know!promote
  <2> QED
    BY <1>0, <1>6, <2>1, PromotesFaithfully
<1>7. ASSUME NEW c \in Callers, Know!supersede(c) PROVE Faithful \/ UNCHANGED Know!base
  <2>1. Works(call[c])
    BY <1>3, <1>7 DEF Know!supersede
  <2> QED
    BY <1>0, <1>7, <2>1, SupersedesFaithfully
<1>8. CASE UNCHANGED Know!vars
  BY <1>8 DEF Know!vars
<1>9. ASSUME NEW f \in Files, Know!Replace(f) PROVE UNCHANGED Know!base
  BY <1>9 DEF Know!Replace
<1>10. ASSUME NEW l \in Learners,
              Know!Recall(l) \/ Know!Library(l) \/ Know!Unsatisfied(l) \/ Know!Accepted(l) \/ Know!Captured(l)
       PROVE  UNCHANGED Know!base
  BY <1>10 DEF Know!Recall, Know!Library, Know!Unsatisfied, Know!Accepted, Know!Captured
<1>11. ASSUME NEW c \in Callers, Know!Capture(c) \/ Know!Look(c) \/ Know!Conflict(c) \/ Know!Offer(c)
       PROVE  UNCHANGED Know!base
  BY <1>11 DEF Know!Capture, Know!Look, Know!Conflict, Know!Offer
<1> QED
  BY <1>1, <1>2, <1>4, <1>5, <1>6, <1>7, <1>8, <1>9, <1>10, <1>11, Zenon DEF Know!Next

(* What changes faithfully keeps the chains of replacement, and the verified evidence of
   what is verified. *)
LEMMA FaithfulHolds ==
    ASSUME KnowledgeInv, Faithful \/ UNCHANGED Know!base
    PROVE  BaseTyped' /\ Chained' /\ Held'
<1> USE DEF KnowledgeInv
<1>0. BaseTyped
  BY DEF KnowledgeTyped, BaseTyped
<1>1. CASE UNCHANGED Know!base
  BY <1>0, <1>1 DEF Know!base, BaseTyped, Sourced, Chained, Held, Know!Grounded,
     Know!Source
<1>2. CASE Faithful
  <2>1. BaseTyped'
    BY <1>2 DEF Faithful
  <2>2. ASSUME NEW r \in Records PROVE Moved(r) /\ Keeps(r)
    BY <1>2 DEF Faithful
  <2>3. ASSUME NEW r \in Records, records'[r].life = "verified"
        PROVE  Know!Grounded(sources', evidence'[r])
    <3>1. CASE records[r].life = "verified"
      <4>1. PICK k \in DOMAIN evidence[r] : /\ evidence[r][k].status = "verified"
                /\ evidence[r][k].extracted /\ sources[Know!Source(k)].auth
        BY <3>1 DEF Held, Know!Grounded
      <4>2. /\ k \in DOMAIN evidence'[r] /\ evidence'[r][k].status = "verified"
            /\ evidence'[r][k].extracted
        BY <2>2, <4>1 DEF Keeps
      <4>3. sources'[Know!Source(k)].auth
        BY <1>2, <4>1 DEF Faithful, Sourced
      <4> QED
        BY <4>2, <4>3 DEF Know!Grounded
    <3>2. CASE records[r].life # "verified"
      BY <2>2, <2>3, <3>2 DEF Moved, Fresh, Know!Grounded
    <3> QED
      BY <3>1, <3>2
  <2>4. ASSUME NEW r \in Records, records'[r].life = "superseded"
        PROVE  /\ records'[r].by \in Records
               /\ records'[records'[r].by].life \in {"verified", "superseded"}
    <3>1. CASE records[r].life = "superseded"
      <4>1. records'[r] = records[r] /\ records[r].by \in Records
            /\ records[records[r].by].life \in {"verified", "superseded"}
        BY <2>2, <3>1 DEF Moved, Chained
      <4>2. Moved(records[r].by)
        BY <2>2, <4>1
      <4> QED
        BY <4>1, <4>2 DEF Moved
    <3> QED
      BY <2>2, <2>4, <3>1 DEF Moved
  <2>5. ASSUME NEW S \in SUBSET Records, S # {}, \A x \in S : records'[x].life = "superseded"
        PROVE  \E x \in S : records'[x].by \notin S
    <3>1. CASE \A x \in S : records[x].life = "superseded"
      BY <2>2, <2>5, <3>1 DEF Chained, Moved
    <3>2. CASE \E x \in S : records[x].life # "superseded"
      <4>1. PICK x \in S : records[x].life # "superseded"
        BY <3>2
      <4>2. records'[records'[x].by].life = "verified"
        BY <2>2, <2>5, <4>1 DEF Moved
      <4> QED
        BY <2>5, <4>2
    <3> QED
      BY <3>1, <3>2
  <2> QED
    BY <2>1, <2>3, <2>4, <2>5 DEF Held, Chained
<1> QED
  BY <1>1, <1>2
(* Every start knows nothing, and nobody works on a record. *)
LEMMA KnowledgeBegins == ASSUME Claimed, Know!Init PROVE KnowledgeInv
<1> USE DEF Know!Init
<1>1. KnowledgeTyped
  <2>1. ASSUME NEW r \in Records
        PROVE records[r] \in [life : Lives, version : Nat, by : Records \cup {None}]
    BY DEF Lives
  <2>2. \A r \in Records : evidence[r] \in [DOMAIN evidence[r] -> Judged]
    BY DEF Know!Empty
  <2>3. sources \in [DOMAIN sources -> Known]
    BY DEF Know!Empty
  <2> QED
    BY <2>1, <2>2, <2>3 DEF KnowledgeTyped, Shaped
<1>2. Sourced
  BY DEF Sourced, Know!Empty
<1>3. Chained /\ Held
  BY DEF Chained, Held
<1>4. Called
  BY DEF Called
<1> QED
  BY <1>1, <1>2, <1>3, <1>4 DEF KnowledgeInv

\* What a caller holds stays good when what is known changes faithfully.
Holds(x) == IF x.op = "store" THEN Stores(x) ELSE Works(x)

(* What a faithful change leaves true of a record and of its evidence. *)
LEMMA StillHolds ==
    ASSUME BaseTyped, Faithful \/ UNCHANGED Know!base, NEW x, Holds(x)
    PROVE  Holds(x)'
<1>1. CASE x.op = "store"
  BY <1>1 DEF Holds, Stores, Evidenced
<1>2. CASE x.op # "store"
  <2>1. Works(x) /\ x.r \in Records
    BY <1>2 DEF Holds, Works
  <2>2. CASE UNCHANGED Know!base
    BY <1>2, <2>1, <2>2 DEF Know!base, Holds, Works, Know!Content, Evidenced
  <2>3. CASE Faithful
    <3>1. Moved(x.r) /\ records[x.r].version \in Nat /\ records'[x.r].version \in Nat
      BY <2>1, <2>3 DEF Faithful, BaseTyped
    <3>2. Works(x)'
      <4>1. records'[x.r].life # "absent" /\ records[x.r].version <= records'[x.r].version
        BY <2>1, <3>1 DEF Moved, Works
      <4>2. ASSUME x.seen.rec.version = records'[x.r].version
            PROVE  x.seen = Know!Content(x.r)'
        <5>1. records'[x.r].version = records[x.r].version
          BY <2>1, <3>1, <4>1, <4>2 DEF Works
        <5> QED
          BY <2>1, <3>1, <4>2, <5>1 DEF Moved, Works, Know!Content
      <4> QED
        BY <2>1, <3>1, <4>1, <4>2 DEF Works, Evidenced
    <3> QED
      BY <1>2, <3>2 DEF Holds
  <2> QED
    BY <2>2, <2>3
<1> QED
  BY <1>1, <1>2
(* What callers hold stays good in every step. *)
LEMMA CallsHold ==
    ASSUME Claimed, KnowledgeInv, [Know!Next]_Know!vars
    PROVE  /\ call' = [c \in Callers |-> call'[c]] /\ \A c \in Callers : Shaped(call'[c])
           /\ Called'
<1> USE DEF KnowledgeInv
<1>1. Faithful \/ UNCHANGED Know!base
  BY StepsFaithfully
<1>2. BaseTyped /\ BaseTyped'
  BY <1>1, FaithfulHolds DEF KnowledgeTyped, BaseTyped
<1>3. /\ call = [c \in Callers |-> call[c]]
      /\ \A c \in Callers : Shaped(call[c])
      /\ \A c \in Callers : call[c].step \in {"looked", "captured"} => Holds(call[c])
  BY DEF KnowledgeTyped, Called, Holds
<1>4. ASSUME NEW x, Holds(x) PROVE Holds(x)'
  BY <1>1, <1>2, <1>4, StillHolds
<1> DEFINE GoodThen(z) ==
              \E x : x = z /\ Shaped(x) /\ (x.step \in {"looked", "captured"} => Holds(x)')
<1>5. ASSUME NEW c \in Callers PROVE GoodThen(call[c])
  BY <1>3, <1>4
<1>6. ASSUME call' = [c \in Callers |-> call'[c]], \A c \in Callers : GoodThen(call'[c])
      PROVE  /\ call' = [c \in Callers |-> call'[c]] /\ \A c \in Callers : Shaped(call'[c])
             /\ Called'
  BY <1>6 DEF Called, Holds
<1> HIDE DEF GoodThen
<1>7. ASSUME UNCHANGED call
      PROVE  call' = [c \in Callers |-> call'[c]] /\ \A c \in Callers : GoodThen(call'[c])
  BY <1>3, <1>5, <1>7
<1>8. ASSUME NEW c \in Callers, NEW x, call' = [call EXCEPT ![c] = x], GoodThen(x)
      PROVE  call' = [o \in Callers |-> call'[o]] /\ \A o \in Callers : GoodThen(call'[o])
  BY <1>3, <1>5, <1>8
<1>9. ASSUME NEW c \in Callers, call' = [call EXCEPT ![c].step = "over"]
      PROVE  call' = [o \in Callers |-> call'[o]] /\ \A o \in Callers : GoodThen(call'[o])
  <2>1. call' = [call EXCEPT ![c] = [call[c] EXCEPT !.step = "over"]]
    BY <1>9
  <2>2. GoodThen([call[c] EXCEPT !.step = "over"])
    <3>1. Shaped(call[c])
      BY <1>3
    <3>2. [call[c] EXCEPT !.step = "over"] =
             [step |-> "over", op |-> call[c].op, r |-> call[c].r, seen |-> call[c].seen,
              draft |-> call[c].draft, ok |-> call[c].ok]
      BY <3>1 DEF Shaped
    <3> QED
      BY <3>2 DEF Shaped, GoodThen
  <2> QED
    BY <1>8, <2>1, <2>2
<1> USE DEF GoodThen
<1>10. ASSUME NEW l \in Learners, Know!Recall(l) \/ Know!Library(l) \/ Know!Unsatisfied(l) \/ Know!Accepted(l)
                                 \/ Know!Captured(l) \/ Know!Promoted(l)
       PROVE  UNCHANGED call
  BY <1>10 DEF Know!Recall, Know!Library, Know!Unsatisfied, Know!Accepted,
     Know!Captured, Know!Promoted
<1>11. ASSUME NEW c \in Callers, Know!Capture(c)
       PROVE  \E x : call' = [call EXCEPT ![c] = x] /\ GoodThen(x)
  <2>1. PICK r \in Records, e \in Drafts, asked \in {"discovered", "verified"} :
           call' = [call EXCEPT ![c] = [@ EXCEPT !.step = "captured", !.op = "store",
                      !.r = r, !.draft = Know!Facade(e, "store"),
                      !.ok = Know!_source_content_validation(Know!Source(e)), !.seen = Know!Wanted(e, asked)]]
    BY <1>11, Zenon DEF Know!Capture
  <2> DEFINE x == [step |-> "captured", op |-> "store", r |-> r, seen |-> Know!Wanted(e, asked),
                   draft |-> Know!Facade(e, "store"), ok |-> Know!_source_content_validation(Know!Source(e))]
  <2>2. Shaped(call[c])
    BY <1>3
  <2>3. call' = [call EXCEPT ![c] = x]
    <3>1. ASSUME NEW z, z = [call[c] EXCEPT !.step = "captured", !.op = "store",
                      !.r = r, !.draft = Know!Facade(e, "store"),
                      !.ok = Know!_source_content_validation(Know!Source(e)), !.seen = Know!Wanted(e, asked)] PROVE z = x
      BY ONLY <2>2, <3>1 DEF Shaped
    <3> HIDE DEF x
    <3> QED
      BY <2>1, <3>1
  <2>4. e \in Offered
    BY DEF Claimed
  <2>5. Evidenced(Know!Facade(e, "store"))
    BY <2>4 DEF Evidenced, Know!Facade, Offered, Statuses
  <2>6. Stores(x)
    BY <2>5 DEF Stores, Know!Wanted, Know!_source_content_validation
  <2>7. ASSUME NEW y, y = x PROVE Holds(y)'
    <3>1. Holds(y)
      BY <2>6, <2>7 DEF Holds
    <3> QED
      BY <3>1, <1>4
  <2>8. GoodThen(x)
    BY <2>7 DEF Shaped
  <2> QED
    BY <2>3, <2>8
<1>12. ASSUME NEW c \in Callers, Know!Look(c)
       PROVE  \E x : call' = [call EXCEPT ![c] = x] /\ GoodThen(x)
  <2>1. PICK r \in Records, op \in Ops \ {"store"} :
           /\ records[r].life # "absent"
           /\ call' = [call EXCEPT ![c] = [@ EXCEPT !.step = "looked", !.op = op, !.r = r,
                                                    !.seen = Know!Content(r)]]
    BY <1>12, Zenon DEF Know!Look
  <2> DEFINE x == [step |-> "looked", op |-> op, r |-> r, seen |-> Know!Content(r),
                   draft |-> call[c].draft, ok |-> call[c].ok]
  <2>2. Shaped(call[c])
    BY <1>3
  <2>3. call' = [call EXCEPT ![c] = x]
    <3>1. ASSUME NEW z, z = [call[c] EXCEPT !.step = "looked", !.op = op, !.r = r, !.seen = Know!Content(r)]
          PROVE  z = x
      BY ONLY <2>2, <3>1 DEF Shaped
    <3> HIDE DEF x
    <3> QED
      BY <2>1, <3>1
  <2>4. UNCHANGED Know!base
    BY <1>12 DEF Know!Look
  <2>5. records[r].version \in Nat
    BY <1>2 DEF BaseTyped
  <2>6. Works(x)
    BY <2>1, <2>5 DEF Works, Know!Content
  <2>7. ASSUME NEW y, y = x PROVE Holds(y)'
    <3>1. Holds(y)
      BY <2>6, <2>7 DEF Holds
    <3> QED
      BY <3>1, <1>4
  <2>8. GoodThen(x)
    BY <2>7 DEF Shaped
  <2> QED
    BY <2>3, <2>8
<1>13. ASSUME NEW c \in Callers, Know!Offer(c)
       PROVE  \E x : call' = [call EXCEPT ![c] = x] /\ GoodThen(x)
  <2>1. PICK e \in Drafts :
           call' = [call EXCEPT ![c] = [@ EXCEPT !.step = "captured", !.draft = e,
                                         !.ok = Know!_source_content_validation(Know!Source(e))]]
    BY <1>13, Zenon DEF Know!Offer
  <2> DEFINE x == [step |-> "captured", op |-> call[c].op, r |-> call[c].r,
                   seen |-> call[c].seen, draft |-> e,
                   ok |-> Know!_source_content_validation(Know!Source(e))]
  <2>2. Shaped(call[c])
    BY <1>3
  <2>3. call' = [call EXCEPT ![c] = x]
    <3>1. ASSUME NEW z, z = [call[c] EXCEPT !.step = "captured", !.draft = e,
                                         !.ok = Know!_source_content_validation(Know!Source(e))] PROVE z = x
      BY ONLY <2>2, <3>1 DEF Shaped
    <3> HIDE DEF x
    <3> QED
      BY <2>1, <3>1
  <2>4. call[c].step = "looked" /\ call[c].op = "add"
    BY <1>13 DEF Know!Offer
  <2>5. Works(call[c])
    BY <2>4 DEF Called
  <2>6. Evidenced(e)
    BY DEF Claimed, Offered, Evidenced
  <2>7. Works(x)
    BY <2>5, <2>6 DEF Works, Know!_source_content_validation
  <2>8. ASSUME NEW y, y = x PROVE Holds(y)'
    <3>1. Holds(y)
      BY <2>4, <2>7, <2>8 DEF Holds
    <3> QED
      BY <3>1, <1>4
  <2>9. GoodThen(x)
    BY <2>8 DEF Shaped
  <2> QED
    BY <2>3, <2>9
<1>14. ASSUME NEW c \in Callers, Know!Store(c) \/ Know!Conflict(c) \/ Know!add_evidence(c)
                                \/ Know!review_evidence(c) \/ Know!promote(c) \/ Know!supersede(c)
       PROVE  call' = [call EXCEPT ![c].step = "over"]
  BY <1>14, Zenon DEF Know!Store, Know!Conflict, Know!add_evidence,
     Know!review_evidence, Know!promote, Know!supersede, Know!Expects
<1>15. ASSUME NEW f \in Files, Know!Replace(f) PROVE UNCHANGED call
  BY <1>15 DEF Know!Replace
<1>16. CASE UNCHANGED Know!vars
  <2>1. UNCHANGED call
    BY <1>16 DEF Know!vars
  <2> QED
    BY <1>6, <1>7, <2>1
<1> HIDE DEF GoodThen
<1> QED
  BY <1>6, <1>7, <1>8, <1>9, <1>10, <1>11, <1>12, <1>13, <1>14, <1>15, <1>16, Zenon
     DEF Know!Next
(* Every step keeps the invariant. *)
LEMMA KnowledgeContinues ==
    ASSUME Claimed, KnowledgeInv, [Know!Next]_Know!vars
    PROVE  KnowledgeInv'
<1>1. Faithful \/ UNCHANGED Know!base
  BY StepsFaithfully
<1>2. BaseTyped' /\ Chained' /\ Held'
  BY <1>1, FaithfulHolds
<1> QED
  BY <1>2, CallsHold DEF KnowledgeInv, KnowledgeTyped, BaseTyped

(* Among records that do not replace themselves, whatever holds what a superseded record
   leads to holds a verified one. *)
LEMMA Grounds == ASSUME KnowledgeInv PROVE Know!VerifiedIsGrounded
<1> USE DEF KnowledgeInv
<1>1. ASSUME NEW r \in Records, records[r].life = "superseded",
             NEW S \in SUBSET Records, Know!LeadsTo(r, S)
      PROVE  \E x \in S : records[x].life = "verified"
  <2> DEFINE T == {x \in S : records[x].life = "superseded"}
  <2>1. T \in SUBSET Records /\ T # {} /\ \A x \in T : records[x].life = "superseded"
    BY <1>1 DEF Know!LeadsTo
  <2>2. PICK x \in T : records[x].by \notin T
    BY <2>1 DEF Chained
  <2>3. records[x].by \in S
    BY <1>1 DEF Know!LeadsTo
  <2>4. records[records[x].by].life \in {"verified", "superseded"}
    BY DEF Chained
  <2> QED
    BY <2>2, <2>3, <2>4
<1> QED
  BY <1>1 DEF Know!VerifiedIsGrounded, Held

(* What becomes trusted is fresh, and a review stands. *)
LEMMA Trusts ==
    ASSUME Claimed, KnowledgeInv, [Know!Next]_Know!vars
    PROVE  Know!TrustIsFresh
<1>1. CASE Faithful
  <2>1. ASSUME NEW r \in Records PROVE Moved(r)
    BY <1>1 DEF Faithful
  <2> QED
    BY <2>1 DEF Moved, Fresh, Know!TrustIsFresh, Know!GroundedNow
<1>2. CASE UNCHANGED Know!base
  BY <1>2 DEF Know!base, Know!TrustIsFresh
<1> QED
  BY <1>1, <1>2, StepsFaithfully

(* What an operation changes is what its caller read. *)
LEMMA WorksOnWhatWasRead ==
    ASSUME Claimed, KnowledgeInv, [Know!Next]_Know!vars
    PROVE  Know!OnWhatWasRead
<1>1. \A r \in Records : \A k \in DOMAIN evidence[r] :
          evidence[r][k].status # "unverified" => evidence'[r][k].status = evidence[r][k].status
  <2>1. CASE Faithful
    BY <2>1 DEF Faithful, Keeps
  <2>2. CASE UNCHANGED Know!base
    BY <2>2 DEF Know!base
  <2> QED
    BY <2>1, <2>2, StepsFaithfully
<1>2. ASSUME NEW c \in Callers, call[c].step # "over", call'[c].step = "over",
             call[c].op # "store", records' # records
      PROVE  call[c].seen = Know!Content(call[c].r)
  <2>1. call = [o \in Callers |-> call[o]]
    BY DEF KnowledgeInv, KnowledgeTyped
  <2>2. ASSUME NEW o \in Callers, call' = [call EXCEPT ![o].step = "over"] PROVE o = c
    BY <1>2, <2>1, <2>2
  <2>3. ASSUME NEW o \in Callers, Know!Store(o) PROVE FALSE
    BY <1>2, <2>2, <2>3 DEF Know!Store
  <2>4. ASSUME NEW o \in Callers, Know!Fits(o), call' = [call EXCEPT ![o].step = "over"],
               call[o].step \in {"looked", "captured"}
        PROVE  call[c].seen = Know!Content(call[c].r)
    <3>1. o = c /\ Works(call[c])
      BY <1>2, <2>2, <2>4 DEF KnowledgeInv, Called
    <3> QED
      BY <2>4, <3>1 DEF Know!Fits, Works
  <2>5. ASSUME NEW o \in Callers,
               Know!add_evidence(o) \/ Know!review_evidence(o) \/ Know!promote(o) \/ Know!supersede(o)
        PROVE  /\ Know!Fits(o) /\ call' = [call EXCEPT ![o].step = "over"]
               /\ call[o].step \in {"looked", "captured"}
    BY <2>5, Zenon DEF Know!add_evidence, Know!review_evidence, Know!promote,
       Know!supersede, Know!Expects
  <2>6. ASSUME NEW l \in Learners, Know!Recall(l) \/ Know!Library(l) \/ Know!Unsatisfied(l) \/ Know!Accepted(l)
                                  \/ Know!Captured(l) \/ Know!Promoted(l)
        PROVE  UNCHANGED call
    BY <2>6 DEF Know!Recall, Know!Library, Know!Unsatisfied, Know!Accepted,
       Know!Captured, Know!Promoted
  <2>7. ASSUME NEW o \in Callers, Know!Capture(o) \/ Know!Look(o) \/ Know!Conflict(o) \/ Know!Offer(o)
        PROVE  UNCHANGED records
    BY <2>7 DEF Know!Capture, Know!Look, Know!Conflict, Know!Offer, Know!base
  <2>8. ASSUME NEW f \in Files, Know!Replace(f) PROVE UNCHANGED records
    BY <2>8 DEF Know!Replace, Know!base
  <2>9. UNCHANGED Know!vars => UNCHANGED records
    BY DEF Know!vars, Know!base
  <2> QED
    BY <1>2, <2>3, <2>4, <2>5, <2>6, <2>7, <2>8, <2>9, Zenon DEF Know!Next
<1> QED
  BY <1>1, <1>2 DEF Know!OnWhatWasRead

(* A verified record has verified evidence from an authoritative source, and a superseded
   one leads to one that is verified (automotive_knowledge.py:879-932, 1707-1771). *)
THEOREM VerifiedStaysGrounded ==
    ASSUME Claimed
    PROVE  Know!Spec => []Know!VerifiedIsGrounded
<1>1. Know!Init => KnowledgeInv
  BY KnowledgeBegins
<1>2. KnowledgeInv /\ [Know!Next]_Know!vars => KnowledgeInv'
  BY KnowledgeContinues
<1>3. KnowledgeInv => Know!VerifiedIsGrounded
  BY Grounds
<1> QED
  BY <1>1, <1>2, <1>3, PTL DEF Know!Spec

(* Trust is given on a hash that is current, and changes are made on the version that was
   read (automotive_knowledge.py:1071-1157, 1480-1596, 1687-1747). *)
THEOREM TrustStaysEarned ==
    ASSUME Claimed
    PROVE  Know!Spec => [][Know!TrustIsFresh /\ Know!OnWhatWasRead]_Know!vars
<1>1. Know!Init => KnowledgeInv
  BY KnowledgeBegins
<1>2. KnowledgeInv /\ [Know!Next]_Know!vars => KnowledgeInv'
  BY KnowledgeContinues
<1>3. KnowledgeInv /\ [Know!Next]_Know!vars => [Know!TrustIsFresh /\ Know!OnWhatWasRead]_Know!vars
  BY Trusts, WorksOnWhatWasRead
<1> QED
  BY <1>1, <1>2, <1>3, PTL DEF Know!Spec
-----------------------------------------------------------------------------
(* Where research alone teaches. *)

\* Nobody works on records, and a claim is researched in one file.
ResearchAlone == /\ Callers = {} /\ Quiet
                 /\ \A l, m \in Learners : Claim[l] = Claim[m] => Reads[l] = Reads[m]

Task(x) == x \in [step : {x.step}, text : {x.text}, sha : {x.sha}, ok : {x.ok}, told : {x.told}]

\* Research has the text of the file it reviews, and of the hash it took; what was
\* learned is the text of its hash, in the file of its claim.
Taught ==
    /\ learn = [l \in Learners |-> learn[l]] /\ \A l \in Learners : Task(learn[l])
    /\ \A l \in Learners :
          /\ learn[l].step = "reviewing" => learn[l].text = file[Reads[l]]
          /\ learn[l].step \in {"hashed", "captured"} => learn[l].text = learn[l].sha
    /\ \A r \in Records : \A k \in DOMAIN evidence[r] :
          /\ k.text = k.sha
          /\ \E l \in Learners : Claim[l] = r /\ k.file = Reads[l]

(* At first nothing has been taught. *)
LEMMA TaughtBegins == ASSUME Know!Init PROVE Taught
  BY DEF Know!Init, Taught, Task, Know!Empty

(* What research is taught stays the text of the file it reads. *)
LEMMA TaughtStays ==
    ASSUME Claimed, ResearchAlone, KnowledgeInv, Taught, [Know!Next]_Know!vars
    PROVE  Taught'
<1> USE DEF Taught
<1>1. ASSUME UNCHANGED <<file, evidence, learn>> PROVE Taught'
  BY <1>1
<1>2. ASSUME NEW f \in Files, Know!Replace(f) PROVE Taught'
  <2>1. \A l \in Learners : learn[l].step # "reviewing"
    BY <1>2 DEF Know!Replace, ResearchAlone
  <2>2. UNCHANGED <<evidence, learn>>
    BY <1>2 DEF Know!Replace, Know!base
  <2> QED
    BY <2>1, <2>2
<1>3. ASSUME NEW l \in Learners, NEW x, Task(x), learn' = [learn EXCEPT ![l] = x],
             UNCHANGED <<file, evidence>>,
             x.step = "reviewing" => x.text = file[Reads[l]],
             x.step \in {"hashed", "captured"} => x.text = x.sha
      PROVE  Taught'
  BY <1>3
<1>4. ASSUME NEW l \in Learners, Know!Recall(l) PROVE Taught'
  <2>1. learn' = [learn EXCEPT ![l].step = "answered",
                   ![l].told = {k.text : k \in Know!search(Claim[l])}]
    BY <1>4 DEF Know!Recall, Know!Goes
  <2>2. ASSUME NEW x, x = [learn[l] EXCEPT !.step = "answered",
                   !.told = {k.text : k \in Know!search(Claim[l])}]
        PROVE  Task(x) /\ x.step = "answered"
    <3>1. Task(learn[l])
      OBVIOUS
    <3> QED
      BY ONLY <2>2, <3>1 DEF Task
  <2>4. UNCHANGED <<file, evidence>>
    BY <1>4 DEF Know!Recall, Know!base
  <2> QED
    BY <1>3, <2>1, <2>2, <2>4
<1>5. ASSUME NEW l \in Learners, Know!Library(l) PROVE Taught'
  <2>1. learn' = [learn EXCEPT ![l].step = "reviewing", ![l].text = file[Reads[l]]]
    BY <1>5 DEF Know!Library, Know!Goes
  <2>2. ASSUME NEW x, x = [learn[l] EXCEPT !.step = "reviewing", !.text = file[Reads[l]]]
        PROVE  Task(x) /\ x.step = "reviewing" /\ x.text = file[Reads[l]]
    <3>1. Task(learn[l])
      OBVIOUS
    <3> QED
      BY ONLY <2>2, <3>1 DEF Task
  <2>4. UNCHANGED <<file, evidence>>
    BY <1>5 DEF Know!Library, Know!base
  <2> QED
    BY <1>3, <2>1, <2>2, <2>4
<1>6. ASSUME NEW l \in Learners, Know!Unsatisfied(l) PROVE Taught'
  <2>1. learn' = [learn EXCEPT ![l].step = "over"]
    BY <1>6 DEF Know!Unsatisfied, Know!Goes
  <2>2. ASSUME NEW x, x = [learn[l] EXCEPT !.step = "over"]
        PROVE  Task(x) /\ x.step = "over"
    <3>1. Task(learn[l])
      OBVIOUS
    <3> QED
      BY ONLY <2>2, <3>1 DEF Task
  <2>4. UNCHANGED <<file, evidence>>
    BY <1>6 DEF Know!Unsatisfied, Know!base
  <2> QED
    BY <1>3, <2>1, <2>2, <2>4
<1>7. ASSUME NEW l \in Learners, Know!Accepted(l) PROVE Taught'
  <2>1. learn' = [learn EXCEPT ![l].step = "hashed", ![l].sha = file[Reads[l]]]
    BY <1>7 DEF Know!Accepted, Know!Goes
  <2>2. ASSUME NEW x, x = [learn[l] EXCEPT !.step = "hashed", !.sha = file[Reads[l]]]
        PROVE  Task(x) /\ x.step = "hashed" /\ x.sha = file[Reads[l]] /\ x.text = learn[l].text
    <3>1. Task(learn[l])
      OBVIOUS
    <3> QED
      BY ONLY <2>2, <3>1 DEF Task
  <2>3. learn[l].step = "reviewing"
    BY <1>7 DEF Know!Accepted
  <2>4. UNCHANGED <<file, evidence>>
    BY <1>7 DEF Know!Accepted, Know!base
  <2> QED
    BY <1>3, <2>1, <2>2, <2>3, <2>4
<1>8. ASSUME NEW l \in Learners, Know!Captured(l) PROVE Taught'
  <2> DEFINE step == IF file[Reads[l]] = learn[l].sha THEN "captured" ELSE "over"
  <2> HIDE DEF step
  <2>1. learn' = [learn EXCEPT ![l].step = step, ![l].ok = TRUE]
    BY <1>8 DEF Know!Captured, step
  <2> DEFINE x == [learn[l] EXCEPT !.step = step, !.ok = TRUE]
  <2>2. Task(x) /\ x.step = step /\ x.sha = learn[l].sha /\ x.text = learn[l].text
    <3>1. Task(learn[l])
      OBVIOUS
    <3> QED
      BY ONLY <3>1 DEF Task
  <2>3. learn[l].step = "hashed" /\ step \in {"captured", "over"}
    BY <1>8 DEF Know!Captured, step
  <2>4. UNCHANGED <<file, evidence>>
    BY <1>8 DEF Know!Captured, Know!base
  <2>5. learn' = [learn EXCEPT ![l] = x]
    <3>1. learn = [m \in Learners |-> learn[m]] /\ l \in Learners
      BY <1>8
    <3> QED
      BY ONLY <2>1, <3>1
  <2> HIDE DEF x
  <2>6. x.step # "reviewing" /\ (x.step = "captured" => x.text = x.sha) /\ x.step # "hashed"
    BY <2>2, <2>3
  <2> QED
    BY <1>3, <1>8, <2>2, <2>4, <2>5, <2>6
<1>9. ASSUME NEW l \in Learners, Know!Promoted(l) PROVE Taught'
  <2> DEFINE r == Claim[l]
  <2> DEFINE q == Know!Quote(Know!Learned(l))
  <2>1. learn' = [learn EXCEPT ![l].step = "over"] /\ learn[l].step = "captured" /\ UNCHANGED file
    BY <1>9 DEF Know!Promoted, Know!Goes
  <2>2. ASSUME NEW x, x = [learn[l] EXCEPT !.step = "over"]
        PROVE  Task(x) /\ x.step = "over"
    <3>1. Task(learn[l])
      OBVIOUS
    <3> QED
      BY ONLY <2>2, <3>1 DEF Task
  <2>3. r \in Records /\ evidence = [o \in Records |-> evidence[o]]
    BY DEF Claimed, KnowledgeInv, KnowledgeTyped
  <2>4. UNCHANGED evidence \/ evidence' = [evidence EXCEPT ![r] = Know!_insert_evidence(r, Know!Learned(l))]
    BY <1>9, Zenon DEF Know!Promoted, Know!create_record, Know!base
  <2>5. DOMAIN Know!_insert_evidence(r, Know!Learned(l)) = DOMAIN evidence[r] \cup {q}
    BY DEF Know!_insert_evidence
  <2>6. q.text = learn[l].text /\ q.sha = learn[l].sha /\ q.file = Reads[l]
    BY DEF Know!Quote, Know!Learned
  <2> HIDE DEF q
  <2>7. \A o \in Records : \A k \in DOMAIN evidence'[o] :
           k \in DOMAIN evidence[o] \/ (o = r /\ k = q)
    BY <2>3, <2>4, <2>5
  <2>8. \A o \in Records : \A k \in DOMAIN evidence'[o] :
           k.text = k.sha /\ \E m \in Learners : Claim[m] = o /\ k.file = Reads[m]
    BY <2>1, <2>6, <2>7
  <2>9. ASSUME NEW x, Task(x), x.step = "over", learn' = [learn EXCEPT ![l] = x]
        PROVE  /\ learn' = [m \in Learners |-> learn'[m]]
               /\ \A m \in Learners : Task(learn'[m])
               /\ \A m \in Learners :
                     /\ learn'[m].step = "reviewing" => learn'[m].text = file'[Reads[m]]
                     /\ learn'[m].step \in {"hashed", "captured"} =>
                           learn'[m].text = learn'[m].sha
    BY <2>1, <2>9
  <2> QED
    BY <2>1, <2>2, <2>8, <2>9
<1>10. ~\E c \in Callers : TRUE
  BY DEF ResearchAlone
<1>11. CASE UNCHANGED Know!vars
  BY <1>1, <1>11 DEF Know!vars, Know!base
<1> HIDE DEF Taught
<1> QED
  BY <1>2, <1>4, <1>5, <1>6, <1>7, <1>8, <1>9, <1>10, <1>11, Zenon DEF Know!Next

(* What is recalled is the text of the file as it is. *)
LEMMA Recalls ==
    ASSUME Claimed, ResearchAlone, Taught, [Know!Next]_Know!vars PROVE Know!ToldIsCurrent
<1>1. ASSUME NEW l \in Learners, learn[l].step = "idle", learn'[l].step = "answered"
      PROVE  Know!Recall(l)
  <2>1. learn = [m \in Learners |-> learn[m]]
    BY DEF Taught
  <2>2. ASSUME NEW m \in Learners, Know!Recall(m) PROVE m = l
    BY <1>1, <2>1, <2>2 DEF Know!Recall
  <2>3. ASSUME NEW m \in Learners, NEW x, learn' = [learn EXCEPT ![m] = x], x.step # "answered"
        PROVE  FALSE
    BY <1>1, <2>1, <2>3
  <2>4. ASSUME NEW m \in Learners, Know!Library(m) \/ Know!Unsatisfied(m) \/ Know!Accepted(m)
                                  \/ Know!Captured(m) \/ Know!Promoted(m)
        PROVE  FALSE
    <3>1. Task(learn[m])
      BY DEF Taught
    <3>2. CASE Know!Library(m)
      BY <1>1, <2>1, <3>1, <3>2 DEF Know!Library, Task
    <3>3. CASE Know!Unsatisfied(m) \/ Know!Promoted(m)
      BY <1>1, <2>1, <3>1, <3>3 DEF Know!Unsatisfied, Know!Promoted, Know!Goes, Task
    <3>4. CASE Know!Accepted(m)
      BY <1>1, <2>1, <3>1, <3>4 DEF Know!Accepted, Task
    <3>5. CASE Know!Captured(m)
      BY <1>1, <2>1, <3>1, <3>5 DEF Know!Captured, Task
    <3> QED
      BY <2>4, <3>2, <3>3, <3>4, <3>5
  <2>5. ~\E c \in Callers : TRUE
    BY DEF ResearchAlone
  <2>6. UNCHANGED learn => FALSE
    BY <1>1
  <2>7. ASSUME NEW f \in Files, Know!Replace(f) PROVE UNCHANGED learn
    BY <2>7 DEF Know!Replace
  <2>8. UNCHANGED Know!vars => UNCHANGED learn
    BY DEF Know!vars
  <2> QED
    BY <2>2, <2>4, <2>5, <2>6, <2>7, <2>8, Zenon DEF Know!Next
<1>2. ASSUME NEW l \in Learners, Know!Recall(l)
      PROVE  learn'[l].told = {file[Reads[l]]}
  <2>1. ASSUME NEW k \in Know!search(Claim[l]) PROVE k.text = file[Reads[l]]
    <3>1. k \in Know!Effective(Claim[l])
      BY DEF Know!search
    <3>2. k \in DOMAIN evidence[Claim[l]] /\ file[k.file] = k.sha
      BY <3>1 DEF Know!Effective, Know!_source_content_validation, Know!Source
    <3>3. k.text = k.sha /\ \E m \in Learners : Claim[m] = Claim[l] /\ k.file = Reads[m]
      BY <3>2 DEF Taught, Claimed
    <3> QED
      BY <3>2, <3>3 DEF ResearchAlone
  <2>2. Know!search(Claim[l]) # {}
    BY <1>2 DEF Know!Recall
  <2>3. {k.text : k \in Know!search(Claim[l])} = {file[Reads[l]]}
    BY <2>1, <2>2
  <2>4. learn'[l].told = {k.text : k \in Know!search(Claim[l])}
    <3>1. Task(learn[l]) /\ learn = [m \in Learners |-> learn[m]]
      BY DEF Taught
    <3> QED
      BY <1>2, <3>1 DEF Know!Recall, Task
  <2> QED
    BY <2>3, <2>4
<1> QED
  BY <1>1, <1>2 DEF Know!ToldIsCurrent

(* What research is told from memory is the text of the file as it is, where research
   alone teaches and no file is replaced while it reads (automotive_knowledge.py:1804-1936,
   2058-2068). *)
THEOREM ToldStaysCurrent ==
    ASSUME Claimed, ResearchAlone
    PROVE  Know!Spec => [][Know!ToldIsCurrent]_Know!vars
<1>1. Know!Init => KnowledgeInv /\ Taught
  BY KnowledgeBegins, TaughtBegins
<1>2. KnowledgeInv /\ Taught /\ [Know!Next]_Know!vars => KnowledgeInv' /\ Taught'
  BY KnowledgeContinues, TaughtStays
<1>3. KnowledgeInv /\ Taught /\ [Know!Next]_Know!vars => [Know!ToldIsCurrent]_Know!vars
  BY Recalls
<1> QED
  BY <1>1, <1>2, <1>3, PTL DEF Know!Spec

-----------------------------------------------------------------------------
(* The preparation of the week. *)

\* The steps of an audit on one order.
Working == {"acquire", "reconcile", "reopen", "reopened", "edit", "edited", "cover", "link",
            "records", "judge"}

Formed(x) == x \in [at : {x.at}, todo : SUBSET Due, cur : {x.cur}, snap : {x.snap},
                    info : {x.info}, plan : {x.plan}, verified : BOOLEAN, stale : BOOLEAN,
                    coverage : {x.coverage}, link : {x.link}, ready : {x.ready},
                    gaps : {x.gaps}, saved : BOOLEAN]

\* An audit takes each order once; what it changed and did not read again it did not
\* verify; it edits an order whose research it read as open.
Sound(x) ==
    /\ Formed(x) /\ x.snap = [o \in Due |-> x.snap[o]]
    /\ x.saved => x.at = "done"
    /\ x.ready \cap x.todo = {}
    /\ x.at \in Working => x.cur \in Due /\ x.cur \notin x.todo \cup x.ready
    /\ x.at = "next" => x.cur \notin x.todo
    /\ x.at \in {"acquire", "reconcile", "reopen"} => ~x.stale
    /\ x.at \in {"reopen", "reopened", "edit", "edited"} => x.plan # {}
    /\ x.at \in {"cover", "link", "records", "judge"} /\ x.stale => x.plan # {} /\ ~x.verified
    /\ x.at = "edit" => ~x.snap[x.cur].done
    /\ x.at = "next" /\ x.cur \in x.ready =>
          ~x.stale /\ \A r \in Governs[x.cur] : Prep!Agrees(x.snap[x.cur].item, r)

\* The fields of one step.
LEMMA Waits == Sound(Prep!NoAudit) /\ Prep!NoAudit.at = "idle" /\ ~Prep!NoAudit.saved
  BY DEF Prep!NoAudit, Sound, Formed, Working

\* An audit that starts, or that finds it cannot.
Asked(z) == /\ Sound(z) /\ z.at \in {"gone", "load"} /\ ~z.saved /\ z.todo \subseteq Due
            /\ \A o \in Due : z.snap[o] = None

(* An audit that is asked for has read none of its orders. *)
LEMMA Asks ==
    ASSUME NEW rows \in SUBSET Due, NEW at \in {"gone", "load"}, NEW z,
           z = [Prep!NoAudit EXCEPT !.todo = rows, !.at = at]
    PROVE  Asked(z)
<1>1. Sound(Prep!NoAudit) /\ Prep!NoAudit.ready = {} /\ ~Prep!NoAudit.saved
      /\ \A o \in Due : Prep!NoAudit.snap[o] = None
  BY Waits DEF Prep!NoAudit
<1>2. Formed(Prep!NoAudit)
  BY <1>1 DEF Sound
<1>3. Formed(z) /\ z.at = at /\ z.todo = rows /\ z.ready = {} /\ z.snap = Prep!NoAudit.snap /\ ~z.saved
  BY <1>1, <1>2 DEF Formed
<1> QED
  BY <1>1, <1>3 DEF Sound, Working, Asked

\* What a step leaves.
Loaded(x, o, s, z) ==
    /\ Sound(z) /\ z.at = "load" /\ z.saved = x.saved /\ z.todo = x.todo
    /\ z.snap = [x.snap EXCEPT ![o] = s]
TakenUp(x, o, at, z) ==
    /\ Sound(z) /\ z.at = at /\ z.saved = x.saved /\ z.snap = x.snap
    /\ z.todo = x.todo \ {o} /\ z.cur = o
Stays(x, z) == /\ z.todo = x.todo /\ z.cur = x.cur /\ z.ready = x.ready /\ z.gaps = x.gaps
               /\ z.saved = x.saved
Same(x, z) == Stays(x, z) /\ z.snap = x.snap
Went(x, at, z) == Sound(z) /\ Same(x, z) /\ z.at = at
Decided(x, z) ==
    Sound(z) /\ z.at = "next" /\ z.saved = x.saved /\ z.todo = x.todo /\ z.snap = x.snap
Closed(g, saved, z) == Sound(z) /\ z.at = "done" /\ z.gaps = g /\ z.saved = saved

(* An audit loads one order. *)
LEMMA Loads ==
    ASSUME NEW x, Sound(x), x.at = "load", NEW o \in Due, NEW s, NEW z,
           z = [x EXCEPT !.snap[o] = s]
    PROVE  Loaded(x, o, s, z)
<1>1. Formed(x)
  BY DEF Sound
<1> DEFINE t == [x.snap EXCEPT ![o] = s]
<1>2. t = [i \in Due |-> t[i]]
  BY DEF Sound
<1> HIDE DEF t
<1>3. z = [x EXCEPT !.snap = t]
  BY DEF t
<1>4. /\ Formed(z) /\ z.at = x.at /\ z.todo = x.todo /\ z.snap = t /\ z.ready = x.ready
      /\ z.saved = x.saved /\ z.gaps = x.gaps
  BY ONLY <1>1, <1>3 DEF Formed
<1> QED
  BY <1>2, <1>4 DEF Sound, Working, t, Loaded

(* An audit leaves out an order it could not load. *)
LEMMA Drops ==
    ASSUME NEW x, Sound(x), x.at = "load", NEW o, NEW z, z = [x EXCEPT !.todo = @ \ {o}]
    PROVE  /\ Sound(z) /\ z.at = "load" /\ z.saved = x.saved /\ z.snap = x.snap
           /\ z.todo = x.todo \ {o} /\ z.gaps = x.gaps
<1>1. Formed(x)
  BY DEF Sound
<1>4. /\ Formed(z) /\ z.at = x.at /\ z.todo = x.todo \ {o} /\ z.snap = x.snap /\ z.ready = x.ready
      /\ z.saved = x.saved /\ z.gaps = x.gaps
  BY ONLY <1>1, z = [x EXCEPT !.todo = @ \ {o}] DEF Formed
<1> QED
  BY <1>4 DEF Sound, Working

TakesUp(x, o, info, cov, at, z) ==
    z = [x EXCEPT !.cur = o, !.info = info, !.todo = @ \ {o}, !.plan = {},
                  !.verified = FALSE, !.stale = FALSE, !.link = FALSE, !.coverage = cov, !.at = at]

(* An audit takes up an order. *)
LEMMA Discovers ==
    ASSUME NEW x, Sound(x), x.at \in {"load", "next"}, NEW o \in x.todo, NEW info, NEW cov,
           NEW at \in {"acquire", "reconcile"}, NEW z, TakesUp(x, o, info, cov, at, z)
    PROVE  TakenUp(x, o, at, z)
<1>1. Formed(x)
  BY DEF Sound
<1>2. o \in Due
  BY DEF Sound, Formed
<1>4. /\ Formed(z) /\ z.at = at /\ z.todo = x.todo \ {o} /\ z.snap = x.snap /\ z.ready = x.ready
      /\ z.saved = x.saved /\ z.gaps = x.gaps /\ z.cur = o /\ z.stale = FALSE /\ z.info = info
  BY ONLY <1>1, TakesUp(x, o, info, cov, at, z) DEF Formed, TakesUp
<1> QED
  BY <1>2, <1>4 DEF Sound, Working, TakenUp
\* What an audit must know in each of its steps.
Fit(z) ==
    /\ z.at \in Working
    /\ z.at \in {"acquire", "reconcile", "reopen"} => ~z.stale
    /\ z.at \in {"reopen", "reopened", "edit", "edited"} => z.plan # {}
    /\ z.at \in {"cover", "link", "records", "judge"} /\ z.stale => z.plan # {} /\ ~z.verified
    /\ z.at = "edit" => ~z.snap[z.cur].done

(* A step on one order that leaves what an audit must know leaves it sound. *)
LEMMA StaysSound ==
    ASSUME NEW x, NEW z, Sound(x), x.at \in Working, Formed(z), Stays(x, z), Fit(z),
           z.snap = [o \in Due |-> z.snap[o]]
    PROVE  Sound(z)
  BY DEF Sound, Stays, Fit, Working

(* An audit acquires the ADAS Map of its order. *)
LEMMA Acquires ==
    ASSUME NEW x, Sound(x), x.at = "acquire", NEW info, NEW z,
           z = [x EXCEPT !.at = "reconcile", !.info = info]
    PROVE  Sound(z) /\ Same(x, z) /\ z.at = "reconcile"
<1>1. Formed(x)
  BY DEF Sound
<1>2. Formed(z) /\ Same(x, z) /\ z.at = "reconcile" /\ z.stale = x.stale
  BY ONLY <1>1, z = [x EXCEPT !.at = "reconcile", !.info = info] DEF Formed, Same, Stays
<1> QED
  BY <1>2, StaysSound DEF Sound, Fit, Working, Same

\* What an audit may do next with the actions it planned.
Allows(x, acts, at) == /\ at \in {"cover", "reopen", "edit"}
                       /\ acts = {} => at = "cover"
                       /\ at = "edit" => ~x.snap[x.cur].done
PlansAs(x, acts, at, z) == z = [x EXCEPT !.plan = acts, !.at = at]

(* An audit plans its actions. *)
LEMMA Plans ==
    ASSUME NEW x, Sound(x), x.at = "reconcile", NEW acts, NEW at,
           Allows(x, acts, at), NEW z, PlansAs(x, acts, at, z)
    PROVE  Sound(z) /\ Same(x, z) /\ z.at = at /\ z.plan = acts /\ z.info = x.info
<1>1. Formed(x)
  BY DEF Sound
<1>2. /\ Formed(z) /\ Same(x, z) /\ z.at = at /\ z.stale = x.stale /\ z.plan = acts
      /\ z.info = x.info
  BY ONLY <1>1, PlansAs(x, acts, at, z) DEF Formed, Same, Stays, PlansAs
<1> QED
  BY <1>2, StaysSound DEF Sound, Fit, Working, Same, Stays, Allows

(* An audit changes the order, and has not read it since. *)
LEMMA Changes ==
    ASSUME NEW x, Sound(x), NEW at \in {"reopened", "edited"},
           x.at = IF at = "reopened" THEN "reopen" ELSE "edit", NEW proved \in BOOLEAN,
           NEW z, z = [x EXCEPT !.at = at, !.stale = TRUE, !.verified = proved]
    PROVE  Went(x, at, z)
<1>1. Formed(x)
  BY DEF Sound
<1>2. Formed(z) /\ Same(x, z) /\ z.at = at /\ z.plan = x.plan /\ z.info = x.info
  BY ONLY <1>1, proved \in BOOLEAN, z = [x EXCEPT !.at = at, !.stale = TRUE,
     !.verified = proved]
     DEF Formed, Same, Stays
<1> QED
  BY <1>2, StaysSound DEF Sound, Fit, Working, Same, Went

\* The order is read again.
ReadAgain(x, s, y) ==
    /\ Formed(y) /\ Stays(x, y) /\ ~y.stale /\ y.plan = x.plan /\ y.info = x.info
    /\ y.snap = [o \in Due |-> y.snap[o]] /\ y.snap = [x.snap EXCEPT ![x.cur] = s]

(* An audit reads its order again. *)
LEMMA Rereads ==
    ASSUME NEW a \in Audits, Sound(audit[a]), NEW s
    PROVE  ReadAgain(audit[a], s, Prep!Reread(a, s))
<1> DEFINE x == audit[a]
<1> DEFINE t == [x.snap EXCEPT ![x.cur] = s]
<1>1. Formed(x)
  BY DEF Sound
<1>2. t = [i \in Due |-> t[i]]
  BY DEF Sound
<1> HIDE DEF t
<1>3. Prep!Reread(a, s) = [x EXCEPT !.snap = t, !.stale = FALSE]
  BY DEF t, Prep!Reread, Prep!Cur
<1>4. ASSUME NEW y, y = [x EXCEPT !.snap = t, !.stale = FALSE]
      PROVE  Formed(y) /\ Stays(x, y) /\ ~y.stale /\ y.snap = t /\ y.plan = x.plan /\ y.info = x.info
  BY ONLY <1>1, <1>4 DEF Formed, Stays
<1> QED
  BY <1>2, <1>3, <1>4 DEF t, ReadAgain

\* What is left once the order was read again as in y.
ReadOn(x, y, z) == Sound(z) /\ Stays(x, z) /\ z.snap = y.snap /\ z.at = "cover"

(* What was read again is what the audit goes on with. *)
LEMMA ReadFits ==
    ASSUME NEW x, Sound(x), x.at \in {"reopened", "edited"}, NEW s, NEW y, ReadAgain(x, s, y),
           NEW z, Formed(z), Stays(y, z), z.snap = y.snap, ~z.stale, z.at \in {"cover", "edit"},
           z.at = "edit" => z.plan # {} /\ ~s.done
    PROVE  Sound(z) /\ Stays(x, z)
<1>1. /\ Formed(y) /\ Stays(x, y) /\ ~y.stale /\ y.plan = x.plan /\ y.info = x.info
      /\ y.snap = [o \in Due |-> y.snap[o]]
      /\ y.snap = [x.snap EXCEPT ![x.cur] = s]
  BY DEF ReadAgain
<1>2. y.snap[x.cur] = s /\ x.cur \in Due /\ x.at \in Working
  BY <1>1 DEF Sound, Working
<1>3. Stays(x, z) /\ z.cur = x.cur
  BY <1>1 DEF Stays
<1>4. Fit(z)
  BY <1>2, <1>3 DEF Fit, Working
<1> QED
  BY <1>1, <1>2, <1>3, <1>4, StaysSound

(* After the reading, the audit goes on with the actions that are left. *)
LEMMA GoesOnAsRead ==
    ASSUME NEW x, Sound(x), x.at \in {"reopened", "edited"}, NEW s, NEW y, ReadAgain(x, s, y),
           NEW z, NEW acts, NEW at \in {"cover", "edit"}, at = "edit" => acts # {} /\ ~s.done,
           PlansAs(y, acts, at, z)
    PROVE  /\ Sound(z) /\ Stays(x, z) /\ z.snap = y.snap /\ z.at = at
           /\ z.plan = acts /\ z.info = x.info
<1>1. Formed(y) /\ ~y.stale /\ y.info = x.info
  BY DEF ReadAgain
<1>2. /\ Formed(z) /\ Stays(y, z) /\ z.snap = y.snap /\ z.stale = y.stale /\ z.at = at
      /\ z.plan = acts /\ z.info = y.info
  BY ONLY <1>1, PlansAs(y, acts, at, z) DEF Formed, Stays, PlansAs
<1> QED
  BY <1>1, <1>2, ReadFits

(* After the reading, it has no actions left. *)
LEMMA GoesOnCovered ==
    ASSUME NEW x, Sound(x), x.at \in {"reopened", "edited"}, NEW s, NEW y, ReadAgain(x, s, y),
           NEW z, z = [y EXCEPT !.at = "cover"]
    PROVE  ReadOn(x, y, z)
<1>1. Formed(y) /\ ~y.stale
  BY DEF ReadAgain
<1>2. Formed(z) /\ Stays(y, z) /\ z.snap = y.snap /\ z.stale = y.stale /\ z.at = "cover"
  BY ONLY <1>1, z = [y EXCEPT !.at = "cover"] DEF Formed, Stays
<1> QED
  BY <1>1, <1>2, ReadFits DEF ReadOn

(* After the reading, it finds its actions without effect. *)
LEMMA GoesOnUnverified ==
    ASSUME NEW x, Sound(x), x.at \in {"reopened", "edited"}, NEW s, NEW y, ReadAgain(x, s, y),
           NEW z, z = [y EXCEPT !.at = "cover", !.verified = FALSE]
    PROVE  ReadOn(x, y, z)
<1>1. Formed(y) /\ ~y.stale
  BY DEF ReadAgain
<1>2. Formed(z) /\ Stays(y, z) /\ z.snap = y.snap /\ z.stale = y.stale /\ z.at = "cover"
  BY ONLY <1>1, z = [y EXCEPT !.at = "cover", !.verified = FALSE] DEF Formed, Stays
<1> QED
  BY <1>1, <1>2, ReadFits DEF ReadOn

(* It could not read the order again, and goes on without having verified it. *)
LEMMA GoesOnUnread ==
    ASSUME NEW x, Sound(x), x.at \in {"reopened", "edited"}, NEW z,
           z = [x EXCEPT !.at = "cover", !.verified = FALSE]
    PROVE  Sound(z) /\ Same(x, z) /\ z.at = "cover"
<1>1. Formed(x)
  BY DEF Sound
<1>2. /\ Formed(z) /\ Same(x, z) /\ z.at = "cover" /\ z.stale = x.stale /\ ~z.verified
      /\ z.plan = x.plan
  BY ONLY <1>1, z = [x EXCEPT !.at = "cover", !.verified = FALSE] DEF Formed, Same, Stays
<1> QED
  BY <1>2, StaysSound DEF Sound, Fit, Working, Same

(* An audit looks up the coverage. *)
LEMMA Covers ==
    ASSUME NEW x, Sound(x), x.at = "cover", NEW cov, NEW at \in {"link", "records"}, NEW z,
           z = [x EXCEPT !.coverage = cov, !.at = at]
    PROVE  Went(x, at, z)
<1>1. Formed(x)
  BY DEF Sound
<1>2. /\ Formed(z) /\ Same(x, z) /\ z.at = at /\ z.stale = x.stale
      /\ z.plan = x.plan /\ z.verified = x.verified
  BY ONLY <1>1, z = [x EXCEPT !.coverage = cov, !.at = at] DEF Formed, Same, Stays
<1> QED
  BY <1>2, StaysSound DEF Sound, Fit, Working, Same, Went

(* An audit links the map. *)
LEMMA Links ==
    ASSUME NEW x, Sound(x), x.at = "link", NEW linked, NEW z,
           z = [x EXCEPT !.link = linked, !.at = "records"]
    PROVE  Sound(z) /\ Same(x, z) /\ z.at = "records"
<1>1. Formed(x)
  BY DEF Sound
<1>2. /\ Formed(z) /\ Same(x, z) /\ z.at = "records" /\ z.stale = x.stale
      /\ z.plan = x.plan /\ z.verified = x.verified
  BY ONLY <1>1, z = [x EXCEPT !.link = linked, !.at = "records"] DEF Formed, Same, Stays
<1> QED
  BY <1>2, StaysSound DEF Sound, Fit, Working, Same

(* An audit records what is missing. *)
LEMMA RecordsThem ==
    ASSUME NEW x, Sound(x), x.at = "records", NEW z, z = [x EXCEPT !.at = "judge"]
    PROVE  Sound(z) /\ Same(x, z) /\ z.at = "judge"
<1>1. Formed(x)
  BY DEF Sound
<1>2. /\ Formed(z) /\ Same(x, z) /\ z.at = "judge" /\ z.stale = x.stale
      /\ z.plan = x.plan /\ z.verified = x.verified
  BY ONLY <1>1, z = [x EXCEPT !.at = "judge"] DEF Formed, Same, Stays
<1> QED
  BY <1>2, StaysSound DEF Sound, Fit, Working, Same

(* An audit calls an order ready, or not, and takes the next. *)
LEMMA Judges ==
    ASSUME NEW x, Sound(x), x.at = "judge", NEW ok \in BOOLEAN, NEW g,
           ok => ~x.stale /\ \A r \in Governs[x.cur] : Prep!Agrees(x.snap[x.cur].item, r),
           NEW z, z = [x EXCEPT !.ready = IF ok THEN @ \cup {x.cur} ELSE @,
                                !.gaps[x.cur] = g, !.at = "next"]
    PROVE  Decided(x, z)
<1>1. Formed(x)
  BY DEF Sound
<1> DEFINE ready == IF ok THEN x.ready \cup {x.cur} ELSE x.ready
<1> DEFINE gaps == [x.gaps EXCEPT ![x.cur] = g]
<1> HIDE DEF ready, gaps
<1>2. z = [x EXCEPT !.ready = ready, !.gaps = gaps, !.at = "next"]
  BY DEF ready, gaps
<1>3. /\ Formed(z) /\ z.at = "next" /\ z.stale = x.stale /\ z.todo = x.todo /\ z.cur = x.cur
      /\ z.snap = x.snap /\ z.ready = ready /\ z.saved = x.saved
  BY ONLY <1>1, <1>2 DEF Formed
<1> QED
  BY <1>3 DEF Sound, Working, ready, Decided

(* An audit ends. *)
LEMMA Ends ==
    ASSUME NEW g, NEW saved \in BOOLEAN, NEW z,
           z = [Prep!NoAudit EXCEPT !.at = "done", !.gaps = g, !.saved = saved]
    PROVE  Closed(g, saved, z)
<1>1. Sound(Prep!NoAudit)
  BY Waits
<1>2. Formed(Prep!NoAudit)
  BY <1>1 DEF Sound
<1>3. /\ Formed(z) /\ z.at = "done" /\ z.todo = Prep!NoAudit.todo /\ z.ready = Prep!NoAudit.ready
      /\ z.snap = Prep!NoAudit.snap /\ z.saved = saved /\ z.gaps = g
  BY ONLY <1>2, saved \in BOOLEAN, z = [Prep!NoAudit EXCEPT !.at = "done", !.gaps = g,
     !.saved = saved]
     DEF Formed
<1> QED
  BY <1>1, <1>3 DEF Sound, Working, Closed

(* An audit stops without a result. *)
LEMMA Stops ==
    ASSUME NEW z, z = [Prep!NoAudit EXCEPT !.at = "gone"]
    PROVE  Sound(z) /\ z.at = "gone" /\ ~z.saved
<1>1. Sound(Prep!NoAudit) /\ ~Prep!NoAudit.saved
  BY Waits
<1>2. Formed(Prep!NoAudit)
  BY <1>1 DEF Sound
<1>3. /\ Formed(z) /\ z.at = "gone" /\ z.todo = Prep!NoAudit.todo /\ z.ready = Prep!NoAudit.ready
      /\ z.snap = Prep!NoAudit.snap /\ z.saved = Prep!NoAudit.saved
  BY ONLY <1>2, z = [Prep!NoAudit EXCEPT !.at = "gone"] DEF Formed
<1> QED
  BY <1>1, <1>3 DEF Sound, Working

\* An audit beside which another one of its conversation starts.
Beside(x, z) == /\ Sound(z) /\ z.at = x.at /\ z.todo = x.todo /\ z.cur = x.cur
                /\ z.snap = x.snap /\ z.gaps = x.gaps /\ z.plan = x.plan

(* A later audit of the conversation takes the place of what one has saved. *)
LEMMA Unsaves ==
    ASSUME NEW x, Sound(x), NEW z, z = [x EXCEPT !.saved = FALSE]
    PROVE  Beside(x, z) /\ ~z.saved
<1>1. Formed(x)
  BY DEF Sound
<1>2. /\ Formed(z) /\ z.at = x.at /\ z.todo = x.todo /\ z.cur = x.cur /\ z.snap = x.snap
      /\ z.ready = x.ready /\ z.gaps = x.gaps /\ z.plan = x.plan /\ z.stale = x.stale
      /\ z.verified = x.verified /\ ~z.saved
  BY ONLY <1>1, z = [x EXCEPT !.saved = FALSE] DEF Formed
<1> QED
  BY <1>2 DEF Sound, Beside

-----------------------------------------------------------------------------
Running(x) == x.at \notin {"idle", "done", "gone"}

\* What an audit reads and plans is what Calibration IQ has.
Current(x, items) ==
    /\ x.at \in {"acquire", "reconcile", "reopen", "reopened", "edit"} =>
          x.snap[x.cur].item = items[x.cur]
    /\ Running(x) => \A o \in x.todo : (x.at = "load" /\ x.snap[o] = None)
                                       \/ x.snap[o].item = items[o]
    /\ x.at = "edit" => x.plan = Prep!build_reconciliation_actions(x.cur, x.snap[x.cur])

\* A step of audit a leaves it sound, saves only at its end, and keeps its reading current.
Good(a, z) == /\ Sound(z)
              /\ z.saved => Prep!_save_weekly_queue(a)
              /\ Current(audit[a], item) => Current(z, item')

Reading == {"acquire", "reconcile", "reopen", "reopened", "edit"}

\* An audit goes on with what it read and took.
WorksOn(x, z) == /\ Same(x, z) /\ x.at \in Working /\ z.at \in Working
                 /\ z.at \in Reading => x.at \in Reading
                 /\ z.at = "edit" => z.plan = Prep!build_reconciliation_actions(z.cur, z.snap[z.cur])

(* What an audit on an order that changes nothing in Calibration IQ still knows. *)
LEMMA StaysCurrent ==
    ASSUME NEW x, NEW z, NEW items, Current(x, items), WorksOn(x, z)
    PROVE  Current(z, items)
  BY DEF Current, Same, Stays, Working, Running, Reading, WorksOn

(* What it knows of an order that it reads again. *)
LEMMA RereadCurrent ==
    ASSUME NEW x, NEW z, NEW y, Sound(x), Current(x, item), x.at \in {"reopened", "edited"},
           ReadAgain(x, Prep!Snapshot(x.cur), y), Stays(x, z), z.snap = y.snap,
           z.at \in {"cover", "edit"},
           z.at = "edit" => z.plan = Prep!build_reconciliation_actions(z.cur, z.snap[z.cur])
    PROVE  Current(z, item)
<1>1. /\ y.snap[x.cur] = Prep!Snapshot(x.cur)
      /\ \A o \in Due : o # x.cur => y.snap[o] = x.snap[o]
  BY DEF ReadAgain, Sound, Working
<1>2. Prep!Snapshot(x.cur).item = item[x.cur]
  BY DEF Prep!Snapshot
<1>3. z.cur = x.cur /\ z.todo = x.todo /\ x.todo \subseteq Due /\ x.cur \notin x.todo
  BY DEF Stays, Sound, Formed, Working
<1>4. \A o \in x.todo : x.snap[o].item = item[o]
  BY DEF Current, Running
<1> QED
  BY <1>1, <1>2, <1>3, <1>4 DEF Current

(* One step of one audit, its first apart. *)
LEMMA Moves ==
    ASSUME NEW a \in Audits, Sound(audit[a]), Prep!Step(a), ~Prep!Query(a), item = [o \in Due |-> item[o]]
    PROVE  /\ Running(audit[a])
           /\ \E z : audit' = [audit EXCEPT ![a] = z] /\ Good(a, z)
<1> DEFINE x == audit[a]
<1> DEFINE Advanced == Running(audit[a]) /\ \E z : audit' = [audit EXCEPT ![a] = z] /\ Good(a, z)
<1>0. Running(x) => ~x.saved
  BY DEF Sound, Running
<1>1. ASSUME NEW o \in Due, Prep!Load(a, o) PROVE Advanced
  <2>0. x.at = "load" /\ Running(x) /\ ~x.saved /\ item' = item
    BY <1>0, <1>1 DEF Prep!Load, Prep!Rest, Running
  <2>1. \/ audit' = [audit EXCEPT ![a] = [x EXCEPT !.snap[o] = Prep!Snapshot(o)]]
        \/ audit' = [audit EXCEPT ![a] = [x EXCEPT !.todo = @ \ {o}]]
    BY <1>1, Zenon DEF Prep!Load, Prep!Becomes
  <2>2. ASSUME NEW z, z = [x EXCEPT !.snap[o] = Prep!Snapshot(o)] PROVE Good(a, z)
    <3>1. /\ Sound(z) /\ z.at = "load" /\ z.saved = x.saved /\ z.todo = x.todo
          /\ z.snap = [x.snap EXCEPT ![o] = Prep!Snapshot(o)]
      <4>1. Loaded(x, o, Prep!Snapshot(o), z)
        BY <2>0, <2>2, Loads
      <4> QED
        BY <4>1 DEF Loaded
    <3>2. z.snap[o] = Prep!Snapshot(o) /\ \A p \in Due : p # o => z.snap[p] = x.snap[p]
      BY <3>1 DEF Sound
    <3>4. Prep!Snapshot(o).item = item[o] /\ x.todo \subseteq Due
      BY DEF Prep!Snapshot, Sound, Formed
    <3>3. Current(x, item) => Current(z, item)
      BY <2>0, <3>1, <3>2, <3>4 DEF Current, Running
    <3> QED
      BY <2>0, <3>1, <3>3 DEF Good
  <2>3. ASSUME NEW z, z = [x EXCEPT !.todo = @ \ {o}] PROVE Good(a, z)
    <3>1. /\ Sound(z) /\ z.at = "load" /\ z.saved = x.saved /\ z.todo = x.todo \ {o}
          /\ z.snap = x.snap
      BY <2>0, <2>3, Drops
    <3>2. Current(x, item) => Current(z, item)
      BY <2>0, <3>1 DEF Current, Running
    <3> QED
      BY <2>0, <3>1, <3>2 DEF Good
  <2> QED
    BY <2>0, <2>1, <2>2, <2>3, Zenon
<1>2. ASSUME Prep!Take(a) PROVE Advanced
  <2>5. PICK o \in x.todo : \E info : Prep!_discover_adas_map(a, o, info)
    BY <1>2, Zenon DEF Prep!Take
  <2>1. PICK info : Prep!_discover_adas_map(a, o, info)
    BY <2>5, Zenon
  <2>2. x.at \in {"load", "next"} /\ Running(x) /\ ~x.saved /\ item' = item
    BY <1>0, <1>2 DEF Prep!Take, Prep!Rest, Running
  <2>3. ASSUME NEW z, NEW at \in {"acquire", "reconcile"}, NEW cov,
               TakesUp(x, o, info, cov, at, z)
        PROVE Good(a, z)
    <3>1. /\ Sound(z) /\ z.at = at /\ z.saved = x.saved /\ z.snap = x.snap
          /\ z.todo = x.todo \ {o} /\ z.cur = o
      <4>1. TakenUp(x, o, at, z)
        BY <2>2, <2>3, Discovers
      <4> QED
        BY <4>1 DEF TakenUp
    <3>2. x.at = "load" => x.snap[o] # None
      BY <1>2 DEF Prep!Take
    <3>3. Current(x, item) => Current(z, item)
      BY <1>2, <2>2, <3>1, <3>2 DEF Current, Running, Prep!Take
    <3> QED
      BY <2>2, <3>1, <3>3 DEF Good
  <2>4. \E at \in {"acquire", "reconcile"} :
           \E z : /\ TakesUp(x, o, info, [c \in Cals |-> None], at, z)
                  /\ audit' = [audit EXCEPT ![a] = z]
    BY <2>1, Zenon DEF Prep!_discover_adas_map, Prep!Becomes, TakesUp
  <2> QED
    BY <2>2, <2>3, <2>4, Zenon
<1>3. ASSUME Prep!_acquire_adas_map_gap(a) PROVE Advanced
  <2>0. x.at = "acquire" /\ Running(x) /\ ~x.saved /\ item' = item
    BY <1>0, <1>3 DEF Prep!_acquire_adas_map_gap, Running
  <2>1. \E info : audit' = [audit EXCEPT ![a] = [x EXCEPT !.at = "reconcile", !.info = info]]
    BY <1>3, Zenon DEF Prep!_acquire_adas_map_gap, Prep!Becomes
  <2>2. ASSUME NEW z, NEW info, z = [x EXCEPT !.at = "reconcile", !.info = info]
        PROVE  Good(a, z)
    <3>1. Sound(z) /\ Same(x, z) /\ z.at = "reconcile"
      BY <2>0, <2>2, Acquires
    <3>2. WorksOn(x, z)
      BY <2>0, <3>1 DEF WorksOn, Working, Reading
    <3> QED
      BY <2>0, <3>1, <3>2, StaysCurrent DEF Good, Same, Stays
  <2> QED
    BY <2>0, <2>1, <2>2, Zenon
<1>4. ASSUME Prep!_reconcile_one(a) PROVE Advanced
  <2> DEFINE acts == Prep!Planned(a, Prep!Snap(a))
  <2> DEFINE at == IF acts = {} \/ a \in Unbound THEN "cover"
                   ELSE IF Prep!Snap(a).done THEN "reopen" ELSE "edit"
  <2>0. x.at = "reconcile" /\ Running(x) /\ ~x.saved /\ item' = item
    BY <1>0, <1>4 DEF Prep!_reconcile_one, Prep!Rest, Running
  <2>1. \E z : PlansAs(x, acts, at, z) /\ audit' = [audit EXCEPT ![a] = z]
    BY <1>4, Zenon DEF Prep!_reconcile_one, Prep!Becomes, PlansAs
  <2>2. Allows(x, acts, at)
    BY DEF Prep!Snap, Prep!Cur, Allows
  <2>3. acts # {} => acts = Prep!build_reconciliation_actions(x.cur, x.snap[x.cur])
    BY DEF Prep!Planned, Prep!Snap, Prep!Cur
  <2> HIDE DEF acts, at
  <2>4. ASSUME NEW z, PlansAs(x, acts, at, z)
        PROVE  Good(a, z)
    <3>1. Sound(z) /\ Same(x, z) /\ z.at = at /\ z.plan = acts
      BY <2>0, <2>2, <2>4, Plans
    <3>2. WorksOn(x, z)
      BY <2>0, <2>2, <2>3, <3>1 DEF WorksOn, Working, Reading, Allows, Same, Stays
    <3> QED
      BY <2>0, <3>1, <3>2, StaysCurrent DEF Good, Same, Stays
  <2> QED
    BY <2>0, <2>1, <2>4, Zenon
<1>5. ASSUME Prep!Reopen(a) PROVE Advanced
  <2>0. x.at = "reopen" /\ Running(x) /\ ~x.saved /\ item' = item
    BY <1>0, <1>5 DEF Prep!Reopen, Running
  <2>1. \E proved \in BOOLEAN :
           audit' = [audit EXCEPT ![a] = [x EXCEPT !.at = "reopened", !.stale = TRUE,
                                                   !.verified = proved]]
    BY <1>5, Zenon DEF Prep!Reopen, Prep!Becomes
  <2>2. ASSUME NEW z, NEW proved \in BOOLEAN,
               z = [x EXCEPT !.at = "reopened", !.stale = TRUE, !.verified = proved]
        PROVE  Good(a, z)
    <3>0. Went(x, "reopened", z)
      BY <2>0, <2>2, Changes
    <3>1. Sound(z) /\ Same(x, z) /\ z.at = "reopened"
      BY <3>0 DEF Went
    <3>2. WorksOn(x, z)
      BY <2>0, <3>1 DEF WorksOn, Working, Reading
    <3> QED
      BY <2>0, <3>1, <3>2, StaysCurrent DEF Good, Same, Stays
  <2> QED
    BY <2>0, <2>1, <2>2, Zenon
<1>6. ASSUME Prep!Reopened(a) PROVE Advanced
  <2> DEFINE s == Prep!Snapshot(Prep!Cur(a))
  <2> DEFINE acts == Prep!Planned(a, s)
  <2> DEFINE y == Prep!Reread(a, s)
  <2> DEFINE at == IF acts = {} THEN "cover" ELSE "edit"
  <2>0. x.at = "reopened" /\ Running(x) /\ ~x.saved /\ item' = item
    BY <1>0, <1>6 DEF Prep!Reopened, Prep!Rest, Running
  <2>1. \/ ~s.done /\ \E z : PlansAs(y, acts, at, z) /\ audit' = [audit EXCEPT ![a] = z]
        \/ audit' = [audit EXCEPT ![a] = [y EXCEPT !.at = "cover", !.verified = FALSE]]
        \/ audit' = [audit EXCEPT ![a] = [x EXCEPT !.at = "cover", !.verified = FALSE]]
    BY <1>6, Zenon DEF Prep!Reopened, Prep!Becomes, PlansAs
  <2>2. at \in {"cover", "edit"} /\ (at = "edit" => acts # {})
    OBVIOUS
  <2>3. acts # {} => acts = Prep!build_reconciliation_actions(x.cur, s)
    BY DEF Prep!Planned, Prep!Cur
  <2>4. s = Prep!Snapshot(x.cur)
    BY DEF Prep!Cur
  <2> HIDE DEF s, acts, at
  <2>5. ReadAgain(x, s, y)
    BY Rereads
  <2>12. y.snap[x.cur] = s
    BY <2>0, <2>5 DEF ReadAgain, Sound, Working
  <2> HIDE DEF y
  <2>6. ASSUME NEW z, z = [x EXCEPT !.at = "cover", !.verified = FALSE] PROVE Good(a, z)
    <3>1. Sound(z) /\ Same(x, z) /\ z.at = "cover"
      BY <2>0, <2>6, GoesOnUnread
    <3>2. WorksOn(x, z)
      BY <2>0, <3>1 DEF WorksOn, Working, Reading
    <3> QED
      BY <2>0, <3>1, <3>2, StaysCurrent DEF Good, Same, Stays
  <2>7. ASSUME NEW z, z = [y EXCEPT !.at = "cover", !.verified = FALSE] PROVE Good(a, z)
    <3>0. ReadOn(x, y, z)
      BY <2>0, <2>5, <2>7, GoesOnUnverified
    <3>1. Sound(z) /\ Stays(x, z) /\ z.snap = y.snap /\ z.at = "cover"
      BY <3>0 DEF ReadOn
    <3> QED
      BY <2>0, <2>4, <2>5, <3>1, RereadCurrent DEF Good, Stays
  <2>8. ASSUME NEW z, ~s.done, PlansAs(y, acts, at, z) PROVE Good(a, z)
    <3>1. /\ Sound(z) /\ Stays(x, z) /\ z.snap = y.snap /\ z.at = at /\ z.plan = acts
      BY <2>0, <2>2, <2>5, <2>8, GoesOnAsRead
    <3>2. z.at = "edit" => z.plan = Prep!build_reconciliation_actions(z.cur, z.snap[z.cur])
      BY <2>2, <2>3, <2>12, <3>1 DEF Stays
    <3> QED
      BY <2>0, <2>2, <2>4, <2>5, <3>1, <3>2, RereadCurrent DEF Good, Stays
  <2>9. CASE ~s.done /\ \E z : PlansAs(y, acts, at, z) /\ audit' = [audit EXCEPT ![a] = z]
    BY <2>0, <2>8, <2>9, Zenon
  <2>10. CASE audit' = [audit EXCEPT ![a] = [y EXCEPT !.at = "cover", !.verified = FALSE]]
    BY <2>0, <2>7, <2>10, Zenon
  <2>11. CASE audit' = [audit EXCEPT ![a] = [x EXCEPT !.at = "cover", !.verified = FALSE]]
    BY <2>0, <2>6, <2>11, Zenon
  <2> QED
    BY <2>1, <2>9, <2>10, <2>11, Zenon
<1>7. ASSUME Prep!Edit(a) PROVE Advanced
  <2>0. x.at = "edit" /\ Running(x) /\ ~x.saved
    BY <1>0, <1>7 DEF Prep!Edit, Running
  <2>1. \E proved \in BOOLEAN :
           audit' = [audit EXCEPT ![a] = [x EXCEPT !.at = "edited", !.stale = TRUE,
                                                   !.verified = proved]]
    BY <1>7, Zenon DEF Prep!Edit, Prep!Becomes
  <2>2. \E s : item' = [item EXCEPT ![x.cur] = s]
    BY <1>7, Zenon DEF Prep!Edit, Prep!Cur
  <2>3. ASSUME NEW z, NEW proved \in BOOLEAN,
               z = [x EXCEPT !.at = "edited", !.stale = TRUE, !.verified = proved]
        PROVE  Good(a, z)
    <3>0. Went(x, "edited", z)
      BY <2>0, <2>3, Changes
    <3>1. Sound(z) /\ Same(x, z) /\ z.at = "edited"
      BY <3>0 DEF Went
    <3>2. WorksOn(x, z)
      BY <2>0, <3>1 DEF WorksOn, Working, Reading
    <3>3. Current(x, item) => Current(z, item)
      BY <3>2, StaysCurrent
    <3>4. z.todo \subseteq Due /\ x.cur \notin z.todo
      BY <2>0, <3>1 DEF Sound, Formed, Working, Same, Stays
    <3>5. \A o \in z.todo : item'[o] = item[o]
      BY <2>2, <3>4
    <3>6. Current(z, item) => Current(z, item')
      BY <3>1, <3>5 DEF Current
    <3> QED
      BY <2>0, <3>1, <3>3, <3>6 DEF Good, Same, Stays
  <2> QED
    BY <2>0, <2>1, <2>3, Zenon
<1>8. ASSUME Prep!EditReread(a) PROVE Advanced
  <2> DEFINE s == Prep!Snapshot(Prep!Cur(a))
  <2> DEFINE y == Prep!Reread(a, s)
  <2>0. x.at = "edited" /\ Running(x) /\ ~x.saved /\ item' = item
    BY <1>0, <1>8 DEF Prep!EditReread, Prep!Rest, Running
  <2>1. \/ audit' = [audit EXCEPT ![a] = [y EXCEPT !.at = "cover"]]
        \/ audit' = [audit EXCEPT ![a] = [y EXCEPT !.at = "cover", !.verified = FALSE]]
        \/ audit' = [audit EXCEPT ![a] = [x EXCEPT !.at = "cover", !.verified = FALSE]]
    BY <1>8, Zenon DEF Prep!EditReread, Prep!Becomes
  <2>2. s = Prep!Snapshot(x.cur)
    BY DEF Prep!Cur
  <2> HIDE DEF s
  <2>3. ReadAgain(x, s, y)
    BY Rereads
  <2> HIDE DEF y
  <2>4. ASSUME NEW z, z = [x EXCEPT !.at = "cover", !.verified = FALSE] PROVE Good(a, z)
    <3>1. Sound(z) /\ Same(x, z) /\ z.at = "cover"
      BY <2>0, <2>4, GoesOnUnread
    <3>2. WorksOn(x, z)
      BY <2>0, <3>1 DEF WorksOn, Working, Reading
    <3> QED
      BY <2>0, <3>1, <3>2, StaysCurrent DEF Good, Same, Stays
  <2>5. ASSUME NEW z, z = [y EXCEPT !.at = "cover", !.verified = FALSE] PROVE Good(a, z)
    <3>0. ReadOn(x, y, z)
      BY <2>0, <2>3, <2>5, GoesOnUnverified
    <3>1. Sound(z) /\ Stays(x, z) /\ z.snap = y.snap /\ z.at = "cover"
      BY <3>0 DEF ReadOn
    <3> QED
      BY <2>0, <2>2, <2>3, <3>1, RereadCurrent DEF Good, Stays
  <2>6. ASSUME NEW z, z = [y EXCEPT !.at = "cover"] PROVE Good(a, z)
    <3>0. ReadOn(x, y, z)
      BY <2>0, <2>3, <2>6, GoesOnCovered
    <3>1. Sound(z) /\ Stays(x, z) /\ z.snap = y.snap /\ z.at = "cover"
      BY <3>0 DEF ReadOn
    <3> QED
      BY <2>0, <2>2, <2>3, <3>1, RereadCurrent DEF Good, Stays
  <2> QED
    BY <2>0, <2>1, <2>4, <2>5, <2>6, Zenon
<1>9. ASSUME Prep!_catalog_coverage(a) PROVE Advanced
  <2>0. x.at = "cover" /\ Running(x) /\ ~x.saved /\ item' = item
    BY <1>0, <1>9 DEF Prep!_catalog_coverage, Prep!Rest, Running
  <2>1. \E cov, at : /\ at \in {"link", "records"}
                     /\ audit' = [audit EXCEPT ![a] = [x EXCEPT !.coverage = cov, !.at = at]]
    BY <1>9, Zenon DEF Prep!_catalog_coverage, Prep!Becomes
  <2>2. ASSUME NEW z, NEW cov, NEW at \in {"link", "records"},
               z = [x EXCEPT !.coverage = cov, !.at = at]
        PROVE  Good(a, z)
    <3>0. Went(x, at, z)
      BY <2>0, <2>2, Covers
    <3>1. Sound(z) /\ Same(x, z) /\ z.at = at
      BY <3>0 DEF Went
    <3>2. WorksOn(x, z)
      BY <2>0, <3>1 DEF WorksOn, Working, Reading
    <3> QED
      BY <2>0, <3>1, <3>2, StaysCurrent DEF Good, Same, Stays
  <2> QED
    BY <2>0, <2>1, <2>2, Zenon
<1>10. ASSUME Prep!_link_ro_research_evidence(a) PROVE Advanced
  <2>0. x.at = "link" /\ Running(x) /\ ~x.saved /\ item' = item
    BY <1>0, <1>10 DEF Prep!_link_ro_research_evidence, Prep!Rest, Running
  <2>1. \E linked : audit' = [audit EXCEPT ![a] = [x EXCEPT !.link = linked, !.at = "records"]]
    BY <1>10, Zenon DEF Prep!_link_ro_research_evidence, Prep!Becomes
  <2>2. ASSUME NEW z, NEW linked, z = [x EXCEPT !.link = linked, !.at = "records"]
        PROVE  Good(a, z)
    <3>1. Sound(z) /\ Same(x, z) /\ z.at = "records"
      BY <2>0, <2>2, Links
    <3>2. WorksOn(x, z)
      BY <2>0, <3>1 DEF WorksOn, Working, Reading
    <3> QED
      BY <2>0, <3>1, <3>2, StaysCurrent DEF Good, Same, Stays
  <2> QED
    BY <2>0, <2>1, <2>2, Zenon
<1>11. ASSUME Prep!Records(a) PROVE Advanced
  <2>0. x.at = "records" /\ Running(x) /\ ~x.saved /\ item' = item
    BY <1>0, <1>11 DEF Prep!Records, Running
  <2>1. audit' = [audit EXCEPT ![a] = [x EXCEPT !.at = "judge"]]
    BY <1>11, Zenon DEF Prep!Records, Prep!Becomes
  <2>2. ASSUME NEW z, z = [x EXCEPT !.at = "judge"] PROVE Good(a, z)
    <3>1. Sound(z) /\ Same(x, z) /\ z.at = "judge"
      BY <2>0, <2>2, RecordsThem
    <3>2. WorksOn(x, z)
      BY <2>0, <3>1 DEF WorksOn, Working, Reading
    <3> QED
      BY <2>0, <3>1, <3>2, StaysCurrent DEF Good, Same, Stays
  <2> QED
    BY <2>0, <2>1, <2>2, Zenon
<1>12. ASSUME Prep!Judge(a) PROVE Advanced
  <2> DEFINE ok == Prep!Ready(a)
  <2> DEFINE g == {<<c, x.coverage[c]>> : c \in {k \in Cals : x.coverage[k] \in Prep!Gap}}
  <2>1. audit' = [audit EXCEPT ![a] = [x EXCEPT !.ready = IF ok THEN @ \cup {x.cur} ELSE @,
                                                !.gaps[x.cur] = g, !.at = "next"]]
    BY <1>12, Zenon DEF Prep!Judge, Prep!Becomes, Prep!Cur
  <2>2. x.at = "judge" /\ Running(x) /\ ~x.saved /\ item' = item
    BY <1>0, <1>12 DEF Prep!Judge, Prep!Rest, Running
  <2>3. ok => ~x.stale /\ \A r \in Governs[x.cur] : Prep!Agrees(x.snap[x.cur].item, r)
    <3>1. ASSUME Prep!reconcile_ok(a) PROVE ~x.stale
      BY <2>2, <3>1 DEF Prep!reconcile_ok, Sound
    <3>2. ASSUME Prep!reconcile_ok(a), NEW r \in Governs[x.cur]
          PROVE  Prep!Agrees(x.snap[x.cur].item, r)
      <4>1. Prep!_reconciliation_issues(x.cur, x.snap[x.cur]) = {} /\ Governs[x.cur] # {}
        BY <3>2 DEF Prep!reconcile_ok, Prep!Cur, Prep!Snap
      <4> QED
        BY <3>2, <4>1 DEF Prep!_reconciliation_issues
    <3> QED
      BY <3>1, <3>2 DEF Prep!Ready
  <2>4. ok \in BOOLEAN
    BY DEF Prep!Ready, Prep!reconcile_ok
  <2> HIDE DEF ok, g
  <2>5. ASSUME NEW z, z = [x EXCEPT !.ready = IF ok THEN @ \cup {x.cur} ELSE @,
                                    !.gaps[x.cur] = g, !.at = "next"]
        PROVE  Good(a, z)
    <3>0. Decided(x, z)
      BY <2>2, <2>3, <2>4, <2>5, Judges
    <3>1. Sound(z) /\ z.at = "next" /\ z.saved = x.saved /\ z.todo = x.todo /\ z.snap = x.snap
      BY <3>0 DEF Decided
    <3>2. Current(x, item) => Current(z, item)
      BY <2>2, <3>1 DEF Current, Running
    <3> QED
      BY <2>2, <3>1, <3>2 DEF Good
  <2> QED
    BY <2>1, <2>2, <2>5, Zenon
<1>13. ASSUME Prep!_save_weekly_queue(a) PROVE Advanced
  <2>0. Running(x) /\ item' = item
    BY <1>13 DEF Prep!_save_weekly_queue, Running
  <2>1. \E saved \in BOOLEAN :
           audit' = [audit EXCEPT ![a] = [Prep!NoAudit EXCEPT !.at = "done", !.gaps = x.gaps,
                                                         !.saved = saved]]
    BY <1>13, Zenon DEF Prep!_save_weekly_queue, Prep!Becomes, Prep!Ended
  <2>2. ASSUME NEW z, NEW saved \in BOOLEAN,
               z = [Prep!NoAudit EXCEPT !.at = "done", !.gaps = x.gaps, !.saved = saved]
        PROVE  Good(a, z)
    <3>1. Closed(x.gaps, saved, z)
      BY <2>2, Ends
    <3> QED
      BY <1>13, <3>1 DEF Good, Current, Running, Closed
  <2> QED
    BY <2>0, <2>1, <2>2, Zenon
<1>14. ASSUME Prep!Stop(a) PROVE Advanced
  <2>1. audit' = [audit EXCEPT ![a] = [Prep!NoAudit EXCEPT !.at = "gone"]] /\ Running(x)
    BY <1>14, Zenon DEF Prep!Stop, Prep!Becomes, Running
  <2>2. ASSUME NEW z, z = [Prep!NoAudit EXCEPT !.at = "gone"] PROVE Good(a, z)
    <3>1. Sound(z) /\ z.at = "gone" /\ ~z.saved
      BY <2>2, Stops
    <3> QED
      BY <3>1 DEF Good, Current, Running
  <2> QED
    BY <2>1, <2>2, Zenon
<1> QED
  BY <1>1, <1>2, <1>3, <1>4, <1>5, <1>6, <1>7, <1>8, <1>9, <1>10, <1>11, <1>12, <1>13,
     <1>14,
     Zenon DEF Prep!Step

-----------------------------------------------------------------------------
\* The audits of one conversation take turns, and the last one speaks for it.
Alternate == \A a, b \in Audits :
    a # b /\ Conversation[a] = Conversation[b] /\ Running(audit[a]) =>
        ~Running(audit[b]) /\ ~audit[b].saved

WeekTyped == /\ audit = [a \in Audits |-> audit[a]]
             /\ item = [o \in Due |-> item[o]]
             /\ record = [o \in Due |-> record[o]]
             /\ queue = [c \in {Conversation[a] : a \in Audits} |-> queue[c]]
             /\ others \in Nat

\* The queue of a conversation, told from the last audit it saved.
RowsOf(g) == [o \in {x \in Due : g[x] # {}} |-> g[o]]
Listed(x, rows) == x.saved => /\ rows \in {None, RowsOf(x.gaps)}
                              /\ DOMAIN RowsOf(x.gaps) = {} => rows = None
QueueKept == \A a \in Audits : Listed(audit[a], queue[Conversation[a]])

WeekInv == WeekTyped /\ Alternate /\ QueueKept /\ \A a \in Audits : Sound(audit[a])

(* Every start satisfies it: no audit has begun. *)
LEMMA WeekBegins == ASSUME Prep!Init PROVE WeekInv
<1>1. \A a \in Audits : audit[a] = Prep!NoAudit
  BY DEF Prep!Init
<1>2. Sound(Prep!NoAudit) /\ Prep!NoAudit.at = "idle" /\ ~Prep!NoAudit.saved
  BY Waits
<1>3. WeekTyped
  BY DEF Prep!Init, WeekTyped
<1>4. Alternate
  BY <1>1, <1>2 DEF Alternate, Running
<1>5. QueueKept
  BY <1>1, <1>2 DEF QueueKept, Listed
<1> QED
  BY <1>1, <1>2, <1>3, <1>4, <1>5 DEF WeekInv

(* What the first step of an audit leaves of its own and of the others. *)
LEMMA Queries ==
    ASSUME WeekInv, NEW a \in Audits, Prep!Query(a)
    PROVE  /\ audit' = [b \in Audits |-> audit'[b]]
           /\ Asked(audit'[a])
           /\ \A b \in Audits : Conversation[b] = Conversation[a] =>
                 ~Running(audit[b]) /\ ~audit'[b].saved
           /\ \A b \in Audits \ {a} :
                 /\ Beside(audit[b], audit'[b])
                 /\ audit'[b].saved => audit'[b] = audit[b]
<1>1. PICK rows \in SUBSET Due, failed \in BOOLEAN :
          audit' = [b \in Audits |->
              IF b = a THEN [Prep!NoAudit EXCEPT !.todo = rows,
                               !.at = IF failed \/ Prep!Cardinality(rows) > MAX_QUEUE_ITEMS
                                      THEN "gone" ELSE "load"]
              ELSE IF Conversation[b] = Conversation[a] THEN [audit[b] EXCEPT !.saved = FALSE]
              ELSE audit[b]]
  BY Zenon DEF Prep!Query
<1>2. \A b \in Audits : Sound(audit[b])
  BY DEF WeekInv
<1> DEFINE at == IF failed \/ Prep!Cardinality(rows) > MAX_QUEUE_ITEMS THEN "gone" ELSE "load"
<1>3. at \in {"gone", "load"}
  OBVIOUS
<1>4. audit'[a] = [Prep!NoAudit EXCEPT !.todo = rows, !.at = at]
  BY <1>1, Zenon
<1> HIDE DEF at
<1>5. ASSUME NEW z, z = [Prep!NoAudit EXCEPT !.todo = rows, !.at = at] PROVE Asked(z)
  BY <1>3, <1>5, Asks
<1>6. Asked(audit'[a])
  BY <1>4, <1>5, Zenon
<1>7. ASSUME NEW b \in Audits \ {a}, Conversation[b] = Conversation[a]
      PROVE  Beside(audit[b], audit'[b]) /\ ~audit'[b].saved
  <2>1. audit'[b] = [audit[b] EXCEPT !.saved = FALSE]
    BY <1>1, <1>7, Zenon
  <2>2. ASSUME NEW x, Sound(x), NEW z, z = [x EXCEPT !.saved = FALSE]
        PROVE  Beside(x, z) /\ ~z.saved
    BY <2>2, Unsaves
  <2> QED
    BY <1>2, <2>1, <2>2, Zenon
<1>8. ASSUME NEW b \in Audits \ {a}, Conversation[b] # Conversation[a]
      PROVE  Beside(audit[b], audit'[b]) /\ audit'[b] = audit[b]
  <2>1. audit'[b] = audit[b]
    BY <1>1, <1>8, Zenon
  <2> QED
    BY <1>2, <2>1 DEF Beside
<1>9. ASSUME NEW b \in Audits, Conversation[b] = Conversation[a] PROVE ~Running(audit[b])
  BY <1>9 DEF Prep!Query, Running
<1>10. audit' = [b \in Audits |-> audit'[b]]
  BY <1>1
<1>11. ~audit'[a].saved
  BY <1>6 DEF Asked
<1> QED
  BY <1>6, <1>7, <1>8, <1>9, <1>10, <1>11

(* What the steps of one audit leave alone. *)
LEMMA Spares ==
    ASSUME NEW a \in Audits, Prep!Step(a)
    PROVE  /\ ~Prep!_save_weekly_queue(a) => queue' = queue
           /\ ~Prep!Records(a) => record' = record
           /\ ~Prep!Edit(a) => item' = item
           /\ others' = others
<1> USE DEF Prep!Rest
<1>1. CASE Prep!Query(a)
  BY <1>1 DEF Prep!Query
<1>2. CASE \E o \in Due : Prep!Load(a, o)
  BY <1>2 DEF Prep!Load
<1>3. CASE Prep!Take(a)
  BY <1>3 DEF Prep!Take
<1>4. CASE Prep!_acquire_adas_map_gap(a)
  BY <1>4 DEF Prep!_acquire_adas_map_gap
<1>5. CASE Prep!_reconcile_one(a)
  BY <1>5 DEF Prep!_reconcile_one
<1>6. CASE Prep!Reopen(a)
  BY <1>6 DEF Prep!Reopen
<1>7. CASE Prep!Reopened(a)
  BY <1>7 DEF Prep!Reopened
<1>8. CASE Prep!Edit(a)
  BY <1>8 DEF Prep!Edit
<1>9. CASE Prep!EditReread(a)
  BY <1>9 DEF Prep!EditReread
<1>10. CASE Prep!_catalog_coverage(a)
  BY <1>10 DEF Prep!_catalog_coverage
<1>11. CASE Prep!_link_ro_research_evidence(a)
  BY <1>11 DEF Prep!_link_ro_research_evidence
<1>12. CASE Prep!Records(a)
  BY <1>12 DEF Prep!Records
<1>13. CASE Prep!Judge(a)
  BY <1>13 DEF Prep!Judge
<1>14. CASE Prep!_save_weekly_queue(a)
  BY <1>14 DEF Prep!_save_weekly_queue
<1>15. CASE Prep!Stop(a)
  BY <1>15 DEF Prep!Stop
<1> QED
  BY <1>1, <1>2, <1>3, <1>4, <1>5, <1>6, <1>7, <1>8, <1>9, <1>10, <1>11, <1>12, <1>13,
     <1>14,
     <1>15 DEF Prep!Step

(* What saving the queue leaves of it. *)
LEMMA Saves ==
    ASSUME WeekInv, NEW a \in Audits, Prep!_save_weekly_queue(a), NEW z,
           audit' = [audit EXCEPT ![a] = z]
    PROVE  QueueKept' /\ queue' = [c \in {Conversation[b] : b \in Audits} |-> queue'[c]]
<1> DEFINE c == Conversation[a]
<1>1. Running(audit[a]) /\ audit' = [audit EXCEPT ![a] = audit'[a]]
  BY DEF Prep!_save_weekly_queue, Running, WeekInv, WeekTyped
<1>2. queue = [x \in {Conversation[b] : b \in Audits} |-> queue[x]]
  BY DEF WeekInv, WeekTyped
<1>3. \A b \in Audits \ {a} : audit'[b] = audit[b]
  BY <1>1 DEF WeekInv, WeekTyped
<1>4. ASSUME NEW b \in Audits \ {a}, Conversation[b] = c PROVE ~audit'[b].saved
  BY <1>1, <1>3, <1>4 DEF WeekInv, Alternate
<1>5. ASSUME NEW saved \in BOOLEAN, audit'[a] = Prep!Ended(a, saved)
      PROVE  audit'[a].gaps = audit[a].gaps /\ audit'[a].saved = saved
  <2>1. ASSUME NEW x, x = [Prep!NoAudit EXCEPT !.at = "done", !.gaps = audit[a].gaps, !.saved = saved]
        PROVE  Closed(audit[a].gaps, saved, x)
    BY <2>1, Ends
  <2>2. Closed(audit[a].gaps, saved, audit'[a])
    BY <1>5, <2>1, Zenon DEF Prep!Ended
  <2> QED
    BY <2>2 DEF Closed
<1>6. \/ /\ \E dropped : queue' = [x \in DOMAIN queue |->
                               IF x = c THEN IF DOMAIN Prep!Rows(a) = {} THEN None ELSE Prep!Rows(a)
                               ELSE IF x \in dropped THEN None ELSE queue[x]]
         /\ audit' = [audit EXCEPT ![a] = Prep!Ended(a, TRUE)]
      \/ queue' = queue /\ audit' = [audit EXCEPT ![a] = Prep!Ended(a, FALSE)]
  BY Zenon DEF Prep!_save_weekly_queue, Prep!Becomes
<1>7. CASE queue' = queue /\ audit' = [audit EXCEPT ![a] = Prep!Ended(a, FALSE)]
  <2>1. ~audit'[a].saved
    BY <1>5, <1>7 DEF WeekInv, WeekTyped
  <2>2. \A b \in Audits : Listed(audit'[b], queue'[Conversation[b]])
    BY <1>3, <1>7, <2>1 DEF WeekInv, QueueKept, Listed
  <2> QED
    BY <1>2, <1>7, <2>2 DEF QueueKept
<1>8. CASE /\ \E dropped : queue' = [x \in DOMAIN queue |->
                               IF x = c THEN IF DOMAIN Prep!Rows(a) = {} THEN None ELSE Prep!Rows(a)
                               ELSE IF x \in dropped THEN None ELSE queue[x]]
           /\ audit' = [audit EXCEPT ![a] = Prep!Ended(a, TRUE)]
  <2>1. audit'[a].gaps = audit[a].gaps
    BY <1>5, <1>8 DEF WeekInv, WeekTyped
  <2>2. PICK dropped : queue' = [x \in DOMAIN queue |->
                               IF x = c THEN IF DOMAIN Prep!Rows(a) = {} THEN None ELSE Prep!Rows(a)
                               ELSE IF x \in dropped THEN None ELSE queue[x]]
    BY <1>8, Zenon
  <2>3. DOMAIN queue = {Conversation[b] : b \in Audits}
    BY <1>2
  <2>4. Prep!Rows(a) = RowsOf(audit[a].gaps)
    BY DEF Prep!Rows, RowsOf
  <2>5. c \in DOMAIN queue
    BY <2>3
  <2>6. queue'[c] = IF DOMAIN RowsOf(audit[a].gaps) = {} THEN None ELSE RowsOf(audit[a].gaps)
    BY <2>2, <2>4, <2>5, Zenon
  <2>7. Listed(audit'[a], queue'[c])
    BY <2>1, <2>6 DEF Listed
  <2>8. ASSUME NEW b \in Audits \ {a} PROVE Listed(audit'[b], queue'[Conversation[b]])
    <3>1. CASE Conversation[b] = c
      BY <1>4, <3>1 DEF Listed
    <3>2. CASE Conversation[b] # c
      <4>1. Conversation[b] \in DOMAIN queue
        BY <2>3
      <4>2. queue'[Conversation[b]] \in {None, queue[Conversation[b]]}
        BY <2>2, <3>2, <4>1
      <4>3. Listed(audit[b], queue[Conversation[b]])
        BY DEF WeekInv, QueueKept
      <4> QED
        BY <1>3, <4>2, <4>3 DEF Listed
    <3> QED
      BY <3>1, <3>2
  <2> QED
    BY <2>2, <2>3, <2>7, <2>8 DEF QueueKept
<1> QED
  BY <1>6, <1>7, <1>8

(* Every step keeps the audits sound, in turn, and their queues true. *)
LEMMA WeekContinues == ASSUME WeekInv, [Prep!Next]_Prep!vars PROVE WeekInv'
<1>1. ASSUME NEW a \in Audits, Prep!Query(a) PROVE WeekInv'
  <2>1. /\ audit' = [b \in Audits |-> audit'[b]]
        /\ Asked(audit'[a])
        /\ \A b \in Audits : Conversation[b] = Conversation[a] =>
              ~Running(audit[b]) /\ ~audit'[b].saved
        /\ \A b \in Audits \ {a} : /\ Beside(audit[b], audit'[b])
                                   /\ audit'[b].saved => audit'[b] = audit[b]
    BY <1>1, Queries
  <2>2. queue' = queue /\ item' = item /\ record' = record /\ others' = others
    BY <1>1 DEF Prep!Query, Prep!Rest
  <2>3. \A b \in Audits : Sound(audit'[b])
    BY <2>1 DEF Asked, Beside
  <2>4. \A b \in Audits \ {a} : Running(audit'[b]) = Running(audit[b])
    BY <2>1 DEF Beside, Running
  <2>5. Alternate'
    <3>1. ASSUME NEW b \in Audits, NEW d \in Audits, b # d, Conversation[b] = Conversation[d],
                 Running(audit'[b])
          PROVE  ~Running(audit'[d]) /\ ~audit'[d].saved
      <4>1. CASE b = a
        BY <2>1, <2>4, <3>1, <4>1
      <4>2. CASE d = a
        BY <2>1, <2>4, <3>1, <4>2
      <4>3. CASE b # a /\ d # a
        BY <2>1, <2>4, <3>1, <4>3 DEF WeekInv, Alternate, Beside
      <4> QED
        BY <4>1, <4>2, <4>3
    <3> QED
      BY <3>1 DEF Alternate, Running
  <2>6. QueueKept'
    <3>1. \A b \in Audits : audit'[b].saved => audit'[b] = audit[b]
      BY <2>1
    <3>2. \A b \in Audits : Listed(audit'[b], queue'[Conversation[b]])
      BY <2>2, <3>1 DEF WeekInv, QueueKept, Listed
    <3> QED
      BY <3>2 DEF QueueKept
  <2> QED
    BY <2>1, <2>2, <2>3, <2>5, <2>6 DEF WeekInv, WeekTyped
<1>2. ASSUME NEW a \in Audits, Prep!Step(a), ~Prep!Query(a) PROVE WeekInv'
  <2>1. item = [o \in Due |-> item[o]] /\ Sound(audit[a]) /\ audit = [b \in Audits |-> audit[b]]
    BY DEF WeekInv, WeekTyped
  <2>2. Running(audit[a])
    BY <1>2, <2>1, Moves
  <2>3. PICK z : audit' = [audit EXCEPT ![a] = z] /\ Good(a, z)
    BY <1>2, <2>1, Moves
  <2>4. Sound(z) /\ (z.saved => Prep!_save_weekly_queue(a))
    BY <2>3 DEF Good
  <2>5. /\ audit' = [b \in Audits |-> audit'[b]] /\ audit'[a] = z
        /\ \A b \in Audits \ {a} : audit'[b] = audit[b]
    BY <2>1, <2>3
  <2>6. Alternate'
    <3>1. ASSUME NEW b \in Audits, NEW d \in Audits, b # d, Conversation[b] = Conversation[d],
                 Running(audit'[b])
          PROVE  ~Running(audit'[d]) /\ ~audit'[d].saved
      <4>1. CASE b = a
        BY <2>2, <2>5, <3>1, <4>1 DEF WeekInv, Alternate
      <4>2. CASE d = a
        BY <2>2, <2>5, <3>1, <4>2 DEF WeekInv, Alternate
      <4>3. CASE b # a /\ d # a
        BY <2>5, <3>1, <4>3 DEF WeekInv, Alternate
      <4> QED
        BY <4>1, <4>2, <4>3
    <3> QED
      BY <3>1 DEF Alternate, Running
  <2>7. QueueKept' /\ queue' = [c \in {Conversation[b] : b \in Audits} |-> queue'[c]]
    <3>1. CASE Prep!_save_weekly_queue(a)
      BY <2>3, <3>1, Saves
    <3>2. CASE ~Prep!_save_weekly_queue(a)
      <4>1. queue' = queue
        BY <1>2, <3>2, Spares
      <4>2. \A b \in Audits : Listed(audit'[b], queue'[Conversation[b]])
        BY <2>4, <2>5, <3>2, <4>1 DEF WeekInv, QueueKept, Listed
      <4> QED
        BY <4>1, <4>2 DEF QueueKept, WeekInv, WeekTyped
    <3> QED
      BY <3>1, <3>2
  <2>8. item' = [o \in Due |-> item'[o]]
    <3>1. CASE Prep!Edit(a)
      <4>1. \E s : item' = [item EXCEPT ![Prep!Cur(a)] = s]
        BY <3>1, Zenon DEF Prep!Edit
      <4> QED
        BY <2>1, <4>1
    <3>2. CASE ~Prep!Edit(a)
      BY <1>2, <2>1, <3>2, Spares
    <3> QED
      BY <3>1, <3>2
  <2>9. record' = [o \in Due |-> record'[o]]
    <3>1. CASE Prep!Records(a)
      <4>1. \E s : record' = [record EXCEPT ![Prep!Cur(a)] = s]
        BY <3>1, Zenon DEF Prep!Records
      <4> QED
        BY <4>1 DEF WeekInv, WeekTyped
    <3>2. CASE ~Prep!Records(a)
      BY <1>2, <3>2, Spares DEF WeekInv, WeekTyped
    <3> QED
      BY <3>1, <3>2
  <2>10. others' \in Nat
    BY <1>2, Spares DEF WeekInv, WeekTyped
  <2>11. \A b \in Audits : Sound(audit'[b])
    BY <2>4, <2>5 DEF WeekInv
  <2> QED
    BY <2>5, <2>6, <2>7, <2>8, <2>9, <2>10, <2>11 DEF WeekInv, WeekTyped
<1>3. ASSUME NEW o \in Due, Prep!Others(o) PROVE WeekInv'
  <2>1. audit' = audit /\ queue' = queue /\ record' = record /\ others' = others + 1
    BY <1>3 DEF Prep!Others
  <2>2. item' = item \/ \E s : item' = [item EXCEPT ![o] = s]
    <3>1. CASE \E i \in Ids, d \in {"REQUIRED", "EXCLUDED"} :
                 item' = [item EXCEPT ![o][i].det = d, ![o][i].ver = @ + 1]
      BY <3>1
    <3>2. CASE \E i \in Ids, c \in Cals, m \in Methods :
                 item' = [item EXCEPT ![o][i] = [cal |-> c, det |-> "REQUIRED", method |-> m,
                                                  named |-> FALSE, ver |-> 1]]
      BY <3>2
    <3>3. CASE item' = item
      BY <3>3
    <3> QED
      BY <1>3, <3>1, <3>2, <3>3, Zenon DEF Prep!Others
  <2>3. item' = [x \in Due |-> item'[x]]
    BY <2>2 DEF WeekInv, WeekTyped
  <2> QED
    BY <2>1, <2>3 DEF WeekInv, WeekTyped, Alternate, QueueKept
<1>4. CASE UNCHANGED Prep!vars
  BY <1>4 DEF WeekInv, WeekTyped, Alternate, QueueKept, Prep!vars
<1> QED
  BY <1>1, <1>2, <1>3, <1>4 DEF Prep!Next

(* The invariant holds along every behaviour. *)
LEMMA WeekHolds == Prep!Spec => []WeekInv
<1>1. WeekInv /\ [Prep!Next]_Prep!vars => WeekInv'
  BY WeekContinues
<1>2. Prep!Init => WeekInv
  BY WeekBegins
<1> QED
  BY <1>1, <1>2, PTL DEF Prep!Spec

(* What the invariant says of an order that is ready, of one that is edited, and of the
   queue. *)
LEMMA Enough ==
    ASSUME WeekInv
    PROVE  Prep!ReadyIsTrue /\ Prep!EditsOpenResearch /\ Prep!QueueIsLastAudit
<1>1. Prep!ReadyIsTrue /\ Prep!EditsOpenResearch
  BY DEF WeekInv, Sound, Prep!ReadyIsTrue, Prep!EditsOpenResearch, Prep!Snap, Prep!Cur
<1>2. Prep!QueueIsLastAudit
  BY DEF WeekInv, QueueKept, Listed, Prep!QueueIsLastAudit, Prep!Rows, RowsOf
<1> QED
  BY <1>1, <1>2

(* Whoever works on the orders, and whatever answer is lost: an audit calls an order ready
   only on a reading younger than its own last change, in which Calibration IQ agrees with
   the map, and it edits the requirements of an order from a reading in which the research
   is open (calibration_iq_work_prep.py:1190-1422, 2663-2720). *)
THEOREM ReadyOnFreshReading == Prep!Spec => [](Prep!ReadyIsTrue /\ Prep!EditsOpenResearch)
  BY WeekHolds, Enough, PTL

(* A conversation's queue is what its last saved audit found, or it was pushed out
   (calibration_iq_weekly_queue.py, calibration_iq_work_prep.py:448-559). *)
THEOREM QueueFollowsAudit == Prep!Spec => []Prep!QueueIsLastAudit
  BY WeekHolds, Enough, PTL

-----------------------------------------------------------------------------
(* One step: the records change only as an audit's reading proves. *)
LEMMA RecordsStep == ASSUME WeekInv, [Prep!Next]_Prep!vars PROVE Prep!RecordsProven
<1>1. SUFFICES ASSUME NEW o \in Due, NEW i \in Ids, (i \in record'[o]) # (i \in record[o])
      PROVE  \E a \in Audits, c \in Cals :
                /\ audit[a].at = "records" /\ audit[a].cur = o /\ i \in Prep!ActiveItem(a, c)
                /\ audit[a].coverage[c] = IF i \in record'[o] THEN "MISSING" ELSE "COVERED"
  BY Zenon DEF Prep!RecordsProven
<1>2. PICK a \in Audits : Prep!Records(a)
  <2>1. record' # record
    BY <1>1
  <2>2. \A b \in Audits : Prep!Step(b) => Prep!Records(b)
    BY <2>1, Spares
  <2>3. \A x \in Due : ~Prep!Others(x)
    BY <2>1 DEF Prep!Others
  <2>4. ~UNCHANGED Prep!vars
    BY <2>1 DEF Prep!vars
  <2> QED
    BY <2>2, <2>3, <2>4 DEF Prep!Next
<1>3. PICK acts \in SUBSET Prep!build_missing_si_actions(a) :
          record' = [record EXCEPT ![Prep!Cur(a)] =
                       (record[Prep!Cur(a)] \ {x.id : x \in acts})
                          \cup {x.id : x \in {y \in acts : y.open}}]
  <2>1. \E acts \in IF a \in Unbound THEN {{}} ELSE SUBSET Prep!build_missing_si_actions(a) :
          record' = [record EXCEPT ![Prep!Cur(a)] =
                       (record[Prep!Cur(a)] \ {x.id : x \in acts})
                          \cup {x.id : x \in {y \in acts : y.open}}]
    BY <1>2, Zenon DEF Prep!Records
  <2> QED
    BY <2>1
<1>4. o = Prep!Cur(a) /\ audit[a].at = "records"
  BY <1>1, <1>2, <1>3 DEF Prep!Records, WeekInv, WeekTyped
<1>5. record'[o] = (record[o] \ {x.id : x \in acts}) \cup {x.id : x \in {y \in acts : y.open}}
  BY <1>3, <1>4 DEF WeekInv, WeekTyped
<1>6. ASSUME NEW x \in acts
      PROVE  \E c \in Cals : /\ x.id \in Prep!ActiveItem(a, c)
                            /\ x.open = (audit[a].coverage[c] = "MISSING")
                            /\ audit[a].coverage[c] \in {"MISSING", "COVERED"}
  <2>1. x \in Prep!build_missing_si_actions(a)
    OBVIOUS
  <2>2. PICK q \in Cals \X Ids : /\ q[2] \in Prep!ActiveItem(a, q[1])
                               /\ audit[a].coverage[q[1]] \in {"MISSING", "COVERED"}
                               /\ x = [open |-> audit[a].coverage[q[1]] = "MISSING", id |-> q[2]]
    BY <2>1 DEF Prep!build_missing_si_actions
  <2> QED
    BY <2>2
<1>7. PICK x \in acts : x.id = i /\ (i \in record'[o] <=> x.open)
  <2>1. CASE i \in record'[o]
    BY <1>1, <1>5, <2>1
  <2>2. CASE i \notin record'[o]
    BY <1>1, <1>5, <2>2
  <2> QED
    BY <2>1, <2>2
<1>8. PICK c \in Cals : /\ x.id \in Prep!ActiveItem(a, c)
                      /\ x.open = (audit[a].coverage[c] = "MISSING")
                      /\ audit[a].coverage[c] \in {"MISSING", "COVERED"}
  BY <1>6
<1> QED
  BY <1>4, <1>7, <1>8 DEF Prep!Cur

(* A record of missing information is opened only by an audit that found the library
   without it, and closed only by one that found it there
   (calibration_iq_work_prep.py:562-617). *)
THEOREM RecordsStayProven == Prep!Spec => Prep!RecordsAreProven
<1>1. WeekInv /\ [Prep!Next]_Prep!vars => Prep!RecordsProven
  BY RecordsStep
<1>2. Prep!RecordsProven => [Prep!RecordsProven]_Prep!vars
  OBVIOUS
<1> QED
  BY <1>1, <1>2, WeekHolds, PTL DEF Prep!Spec, Prep!RecordsAreProven

-----------------------------------------------------------------------------
(* One item for a calibration. *)

\* The map names a calibration once on an order; what is absent is no calibration and no id.
Distinctly == /\ None \notin Cals \cup Ids
              /\ \A o \in Due : \A r, q \in Governs[o] : r.cal \in Cals /\ (r.cal = q.cal => r = q)

\* The items of an order, at most one for a calibration.
Single(it) == \A i, j \in Ids : it[i].cal \in Cals /\ it[i].cal = it[j].cal => i = j
Versions(it) == it = [i \in Ids |-> it[i]] /\ \A i \in Ids : it[i].ver \in Nat

(* What the actions of a batch are about. *)
LEMMA ActionsFit ==
    ASSUME Distinctly, NEW o \in Due, NEW it, Single(it), Versions(it), NEW r \in Governs[o],
           NEW x \in Prep!ActionFor(it, r)
    PROVE  /\ x.cal = r.cal
           /\ \/ x.id \in Ids /\ it[x.id].cal = r.cal
              \/ /\ x = [id |-> None, ver |-> 0, cal |-> r.cal, method |-> r.method]
                 /\ \A i \in Ids : it[i].cal # r.cal
<1> DEFINE found == Prep!Matches(it, r.cal)
<1> DEFINE wanted == {i \in found : it[i].det = "REQUIRED"}
<1> DEFINE pool == IF Prep!ActiveFor(it, r.cal) # {} THEN Prep!ActiveFor(it, r.cal) ELSE found
<1>1. r.cal \in Cals
  BY DEF Distinctly
<1>2. \A i \in found : i \in Ids /\ it[i].cal = r.cal
  BY DEF Prep!Matches
<1>3. found # {} => Prep!Candidate(it, r.cal) \in found
  <2>1. pool \subseteq found
    BY DEF Prep!ActiveFor
  <2>2. \A i, k \in found : i = k /\ it[i].ver \in Nat
    BY <1>1, <1>2 DEF Single, Versions
  <2>3. ASSUME found # {} PROVE \E i \in pool : \A k \in pool : it[i].ver >= it[k].ver
    <3>1. pool # {}
      BY <2>3
    <3>2. PICK i \in pool : TRUE
      BY <3>1
    <3>3. \A k \in pool : it[i].ver >= it[k].ver
      BY <2>1, <2>2, <3>2
    <3> QED
      BY <3>2, <3>3
  <2>4. Prep!Candidate(it, r.cal) = CHOOSE i \in pool : \A k \in pool : it[i].ver >= it[k].ver
    BY DEF Prep!Candidate
  <2> HIDE DEF pool, found
  <2>5. found # {} => Prep!Candidate(it, r.cal) \in pool
    BY <2>3, <2>4
  <2> QED
    BY <2>1, <2>5
<1>4. \/ \E i \in wanted : x = Prep!Update(it, i, r)
      \/ found = {} /\ x = [id |-> None, ver |-> 0, cal |-> r.cal, method |-> r.method]
      \/ found # {} /\ x = Prep!Update(it, Prep!Candidate(it, r.cal), r)
  BY DEF Prep!ActionFor
<1>5. CASE \E i \in wanted : x = Prep!Update(it, i, r)
  BY <1>2, <1>5 DEF Prep!Update
<1>6. CASE found = {} /\ x = [id |-> None, ver |-> 0, cal |-> r.cal, method |-> r.method]
  BY <1>6 DEF Prep!Matches
<1>7. CASE found # {} /\ x = Prep!Update(it, Prep!Candidate(it, r.cal), r)
  BY <1>2, <1>3, <1>7 DEF Prep!Update
<1> QED
  BY <1>4, <1>5, <1>6, <1>7

\* The actions of a batch, where they go, and the items they leave.
OfMap(o, it, acts) == acts \subseteq UNION {Prep!ActionFor(it, r) : r \in Governs[o]}
Settles(acts, f) == \A x \in acts : x.id # None => f[x] = x.id
Leaves(it, acts, f, new) ==
    new = [i \in Ids |-> IF \E x \in acts : f[x] = i
                         THEN Prep!Edited(it[i], CHOOSE x \in acts : f[x] = i) ELSE it[i]]

(* An accepted part of a batch leaves one item for a calibration. *)
LEMMA EditsOnce ==
    ASSUME Distinctly, NEW o \in Due, NEW it, Single(it), Versions(it), NEW acts, OfMap(o, it, acts),
           NEW f, Settles(acts, f), NEW new, Leaves(it, acts, f, new)
    PROVE  Single(new) /\ Versions(new)
<1> DEFINE Adds(i, r) == /\ \A k \in Ids : it[k].cal # r.cal
                         /\ \E x \in acts : /\ f[x] = i
                                           /\ x = [id |-> None, ver |-> 0, cal |-> r.cal,
                                                   method |-> r.method]
<1>1. ASSUME NEW i \in Ids
      PROVE  /\ new[i].ver \in Nat
             /\ \/ new[i].cal = it[i].cal
                \/ \E r \in Governs[o] : new[i].cal = r.cal /\ Adds(i, r)
  <2>1. CASE ~\E x \in acts : f[x] = i
    BY <2>1 DEF Versions, Leaves
  <2>2. CASE \E x \in acts : f[x] = i
    <3>1. PICK x \in acts : f[x] = i /\ new[i] = Prep!Edited(it[i], x)
      <4>1. (CHOOSE x \in acts : f[x] = i) \in acts /\ f[CHOOSE x \in acts : f[x] = i] = i
        BY <2>2, Zenon
      <4> QED
        BY <2>2, <4>1 DEF Leaves
    <3>2. new[i].cal = x.cal /\ new[i].ver = it[i].ver + 1
      BY <3>1 DEF Prep!Edited
    <3>3. PICK r \in Governs[o] : x \in Prep!ActionFor(it, r)
      BY DEF OfMap
    <3>4. /\ x.cal = r.cal
          /\ \/ x.id \in Ids /\ it[x.id].cal = r.cal
             \/ /\ x = [id |-> None, ver |-> 0, cal |-> r.cal, method |-> r.method]
                /\ \A k \in Ids : it[k].cal # r.cal
      BY <3>3, ActionsFit
    <3>5. new[i].ver \in Nat
      BY <3>2 DEF Versions
    <3>6. CASE x.id \in Ids /\ it[x.id].cal = r.cal
      <4>1. x.id = i
        BY <3>1, <3>6 DEF Distinctly, Settles
      <4> QED
        BY <3>2, <3>4, <3>5, <3>6, <4>1
    <3>7. CASE /\ x = [id |-> None, ver |-> 0, cal |-> r.cal, method |-> r.method]
               /\ \A k \in Ids : it[k].cal # r.cal
      <4>1. Adds(i, r)
        BY <3>1, <3>7
      <4> QED
        BY <3>2, <3>4, <3>5, <4>1
    <3> QED
      BY <3>4, <3>6, <3>7
  <2> QED
    BY <2>1, <2>2
<1>2. ASSUME NEW i \in Ids, NEW j \in Ids, new[i].cal \in Cals, new[i].cal = new[j].cal
      PROVE  i = j
  <2>1. CASE new[i].cal = it[i].cal /\ new[j].cal = it[j].cal
    BY <1>2, <2>1 DEF Single
  <2>2. ASSUME NEW r \in Governs[o], new[i].cal = r.cal, Adds(i, r) PROVE i = j
    <3>1. PICK q \in Governs[o] : new[j].cal = q.cal /\ Adds(j, q)
      BY <1>1, <1>2, <2>2
    <3>2. q = r
      BY <1>2, <2>2, <3>1 DEF Distinctly
    <3> QED
      BY <2>2, <3>1, <3>2
  <2>3. ASSUME NEW r \in Governs[o], new[j].cal = r.cal, Adds(j, r) PROVE i = j
    <3>0. new[i].cal = r.cal /\ it[i].cal # r.cal
      BY <1>2, <2>3
    <3>1. PICK q \in Governs[o] : new[i].cal = q.cal /\ Adds(i, q)
      BY <1>1, <3>0
    <3>2. q = r
      BY <1>2, <2>3, <3>1 DEF Distinctly
    <3> QED
      BY <2>3, <3>1, <3>2
  <2> QED
    BY <1>1, <2>1, <2>2, <2>3
<1> HIDE DEF Adds
<1> QED
  BY <1>1, <1>2 DEF Single, Versions, Leaves

\* Audits of one conversation, with nobody else at work, know what they edit.
OnlyOnce == Prep!Alone =>
    /\ \A o \in Due : Single(item[o]) /\ Versions(item[o])
    /\ \A a \in Audits : Current(audit[a], item)

(* Every start has at most one item in all. *)
LEMMA OnlyOnceBegins == ASSUME Distinctly, Prep!Init PROVE OnlyOnce
<1>1. ASSUME NEW o \in Due PROVE Single(item[o]) /\ Versions(item[o])
  <2> DEFINE empty == [i \in Ids |-> Prep!Absent]
  <2>1. \A i \in Ids : empty[i].cal \notin Cals /\ empty[i].ver = 0
    BY DEF Distinctly, Prep!Absent
  <2>2. item[o] = empty \/ \E k \in Ids, c \in Cals, d \in {"POSSIBLE", "EXCLUDED"} :
           item[o] = [empty EXCEPT ![k] = [cal |-> c, det |-> d, method |-> Unknown,
                                           named |-> FALSE, ver |-> 1]]
    BY DEF Prep!Init
  <2>3. CASE item[o] = empty
    BY <2>1, <2>3 DEF Single, Versions
  <2>4. ASSUME NEW k \in Ids, NEW c \in Cals, NEW d \in {"POSSIBLE", "EXCLUDED"},
               item[o] = [empty EXCEPT ![k] = [cal |-> c, det |-> d, method |-> Unknown,
                                               named |-> FALSE, ver |-> 1]]
        PROVE  Single(item[o]) /\ Versions(item[o])
    <3>2. empty = [i \in Ids |-> empty[i]]
      OBVIOUS
    <3> HIDE DEF empty
    <3>1. /\ item[o] = [i \in Ids |-> item[o][i]] /\ item[o][k].ver = 1
          /\ \A i \in Ids \ {k} : item[o][i] = empty[i]
      <4>1. PICK rec : item[o] = [empty EXCEPT ![k] = rec] /\ rec.ver = 1
        <5>1. [cal |-> c, det |-> d, method |-> Unknown, named |-> FALSE, ver |-> 1].ver = 1
          OBVIOUS
        <5> QED
          BY <2>4, <5>1, Zenon
      <4> QED
        BY <3>2, <4>1
    <3> QED
      BY <2>1, <3>1 DEF Single, Versions
  <2> QED
    BY <2>2, <2>3, <2>4, Zenon
<1>2. ASSUME NEW a \in Audits PROVE Current(audit[a], item)
  <2>1. audit[a].at = "idle"
    BY Waits DEF Prep!Init
  <2> QED
    BY <2>1 DEF Current, Running
<1> QED
  BY <1>1, <1>2 DEF OnlyOnce

(* Every step keeps them. *)
LEMMA OnlyOnceStays ==
    ASSUME Distinctly, WeekInv, OnlyOnce, [Prep!Next]_Prep!vars
    PROVE  OnlyOnce'
<1>1. ASSUME NEW a \in Audits, Prep!Query(a) PROVE OnlyOnce'
  <2>1. item' = item /\ others' = others
    BY <1>1 DEF Prep!Query, Prep!Rest
  <2>2. /\ Asked(audit'[a])
        /\ \A b \in Audits \ {a} : Beside(audit[b], audit'[b])
    BY <1>1, Queries
  <2>3. Current(audit'[a], item)
    BY <2>2 DEF Asked, Current, Running
  <2>4. ASSUME NEW b \in Audits \ {a}, Current(audit[b], item)
        PROVE  Current(audit'[b], item)
    BY <2>2, <2>4 DEF Beside, Current, Running
  <2>5. Prep!Alone' = Prep!Alone
    BY <2>1 DEF Prep!Alone
  <2>6. Prep!Alone => \A b \in Audits : Current(audit'[b], item')
    BY <2>1, <2>3, <2>4 DEF OnlyOnce
  <2> QED
    BY <2>1, <2>5, <2>6 DEF OnlyOnce
<1>2. ASSUME NEW a \in Audits, Prep!Step(a), ~Prep!Query(a), Prep!Alone PROVE OnlyOnce'
  <2>1. item = [o \in Due |-> item[o]] /\ Sound(audit[a]) /\ audit = [b \in Audits |-> audit[b]]
    BY DEF WeekInv, WeekTyped
  <2>2. Running(audit[a])
    BY <1>2, <2>1, Moves
  <2>3. PICK z : audit' = [audit EXCEPT ![a] = z] /\ Good(a, z)
    BY <1>2, <2>1, Moves
  <2>4. audit'[a] = z /\ \A b \in Audits \ {a} : audit'[b] = audit[b]
    BY <2>1, <2>3
  <2>5. Current(audit[a], item) /\ \A o \in Due : Single(item[o]) /\ Versions(item[o])
    BY <1>2 DEF OnlyOnce
  <2>6. Current(audit'[a], item')
    BY <2>3, <2>4, <2>5 DEF Good
  <2>7. ASSUME NEW b \in Audits \ {a} PROVE Current(audit'[b], item')
    <3>1. ~Running(audit[b])
      BY <1>2, <2>2 DEF Prep!Alone, WeekInv, Alternate
    <3> QED
      BY <2>4, <3>1 DEF Current, Running
  <2>8. ASSUME NEW o \in Due PROVE Single(item'[o]) /\ Versions(item'[o])
    <3>1. CASE ~Prep!Edit(a)
      BY <1>2, <2>5, <3>1, Spares
    <3>2. CASE Prep!Edit(a)
      <4> DEFINE c == Prep!Cur(a)
      <4>0. PICK acts \in SUBSET {x \in audit[a].plan : Prep!Fits(c, x)} : \E f \in Prep!Places(c, acts) :
               item' = [item EXCEPT ![c] = [i \in Ids |->
                         IF \E x \in acts : f[x] = i
                         THEN Prep!Edited(item[c][i], CHOOSE x \in acts : f[x] = i) ELSE item[c][i]]]
        BY <3>2, Zenon DEF Prep!Edit
      <4>1. PICK f \in Prep!Places(c, acts) :
               item' = [item EXCEPT ![c] = [i \in Ids |->
                         IF \E x \in acts : f[x] = i
                         THEN Prep!Edited(item[c][i], CHOOSE x \in acts : f[x] = i) ELSE item[c][i]]]
        BY <4>0
      <4>2. c \in Due /\ audit[a].at = "edit"
        BY <2>1, <3>2 DEF Prep!Edit, Sound, Working, Prep!Cur
      <4>3. /\ audit[a].plan = Prep!build_reconciliation_actions(c, Prep!Snap(a))
            /\ Prep!Snap(a).item = item[c]
        BY <2>5, <4>2 DEF Current, Prep!Snap, Prep!Cur
      <4>4. acts \subseteq UNION {Prep!ActionFor(item[c], r) : r \in Governs[c]}
        BY <4>1, <4>3 DEF Prep!build_reconciliation_actions
      <4>5. \A x \in acts : x.id # None => f[x] = x.id
        BY <4>1 DEF Prep!Places
      <4> HIDE DEF c
      <4>6. ASSUME NEW new, new = [i \in Ids |->
                         IF \E x \in acts : f[x] = i
                         THEN Prep!Edited(item[c][i], CHOOSE x \in acts : f[x] = i) ELSE item[c][i]]
            PROVE  Single(new) /\ Versions(new)
        <5>1. Leaves(item[c], acts, f, new) /\ OfMap(c, item[c], acts) /\ Settles(acts, f)
          BY <4>4, <4>5, <4>6, Zenon DEF Leaves, OfMap, Settles
        <5> QED
          BY <2>5, <4>2, <5>1, EditsOnce
      <4>7. item'[c] = [i \in Ids |->
                         IF \E x \in acts : f[x] = i
                         THEN Prep!Edited(item[c][i], CHOOSE x \in acts : f[x] = i) ELSE item[c][i]]
        BY <2>1, <4>1, <4>2
      <4>8. Single(item'[c]) /\ Versions(item'[c])
        BY <4>6, <4>7, Zenon
      <4>9. o # c => item'[o] = item[o]
        BY <2>1, <4>1
      <4> QED
        BY <2>5, <4>8, <4>9
    <3> QED
      BY <3>1, <3>2
  <2> QED
    BY <2>4, <2>6, <2>7, <2>8 DEF OnlyOnce
<1>3. ASSUME NEW a \in Audits, Prep!Step(a), ~Prep!Alone PROVE OnlyOnce'
  <2>1. others' = others
    BY <1>3, Spares
  <2> QED
    BY <1>3, <2>1 DEF OnlyOnce, Prep!Alone
<1>4. ASSUME NEW o \in Due, Prep!Others(o) PROVE OnlyOnce'
  <2>1. others' # 0
    BY <1>4 DEF Prep!Others, WeekInv, WeekTyped
  <2> QED
    BY <2>1 DEF OnlyOnce, Prep!Alone
<1>5. CASE UNCHANGED Prep!vars
  BY <1>5 DEF OnlyOnce, Prep!Alone, Prep!vars
<1> QED
  BY <1>1, <1>2, <1>3, <1>4, <1>5 DEF Prep!Next

(* Single items are at most one. *)
LEMMA Counts == ASSUME OnlyOnce PROVE Prep!OneItemPerCalibration
<1>1. SUFFICES ASSUME Prep!Alone, NEW o \in Due, NEW c \in Cals
      PROVE  Prep!Cardinality(Prep!Matches(item[o], c)) <= 1
  BY Zenon DEF Prep!OneItemPerCalibration
<1>2. \A S : Prep!Cardinality(S) = Cardinality(S)
  BY Zenon DEF Prep!Cardinality, Cardinality
<1>3. \A i, j \in Prep!Matches(item[o], c) : i = j
  BY <1>1 DEF OnlyOnce, Single, Prep!Matches
<1>4. CASE Prep!Matches(item[o], c) = {}
  BY <1>2, <1>4, FS_EmptySet
<1>5. CASE Prep!Matches(item[o], c) # {}
  <2>1. PICK i \in Prep!Matches(item[o], c) : TRUE
    BY <1>5
  <2>2. Prep!Matches(item[o], c) = {i}
    BY <1>3, <2>1
  <2>3. Cardinality({i}) = 1
    BY FS_Singleton
  <2> QED
    BY <1>2, <2>2, <2>3
<1> QED
  BY <1>4, <1>5

(* When the map names a calibration once on an order: the audits of one conversation,
   wherever they are stopped and repeated and whatever answer is lost, leave at most one
   item for a calibration (calibration_iq_work_prep.py:1190-1422). *)
THEOREM OneItemEach == ASSUME Distinctly PROVE Prep!Spec => []Prep!OneItemPerCalibration
<1>1. Prep!Init => WeekInv /\ OnlyOnce
  BY WeekBegins, OnlyOnceBegins
<1>2. (WeekInv /\ OnlyOnce) /\ [Prep!Next]_Prep!vars => (WeekInv /\ OnlyOnce)'
  BY WeekContinues, OnlyOnceStays
<1>3. OnlyOnce => Prep!OneItemPerCalibration
  BY Counts
<1> QED
  BY <1>1, <1>2, <1>3, PTL DEF Prep!Spec
-----------------------------------------------------------------------------
(* Writes to a repair order.  What holds of every call is that its plan was made on its
   snapshot, that versions tell whatever happened since, and that each effect has a key. *)

(* The instance counts as the library does. *)
LEMMA CiqCounts == \A S : Ciq!Cardinality(S) = Cardinality(S)
  BY Zenon DEF Ciq!Cardinality, Cardinality

(* A finite set as a sequence has each of its elements once. *)
LEMMA AsSequence ==
    ASSUME NEW S, IsFiniteSet(S)
    PROVE  LET q == Ciq!SetToSeq(S) IN
           /\ q \in [1 .. Cardinality(S) -> S] /\ Cardinality(S) \in Nat
           /\ \A i, j \in 1 .. Cardinality(S) : q[i] = q[j] => i = j
           /\ \A x \in S : \E i \in 1 .. Cardinality(S) : q[i] = x
<1> DEFINE n == Cardinality(S)  q == Ciq!SetToSeq(S)
<1>1. n \in Nat /\ ExistsBijection(1 .. n, S)
  BY FS_CardinalityType
<1>2. \E f \in [1 .. n -> S] : Ciq!IsInjective(f)
  <2>1. PICK f \in Bijection(1 .. n, S) : TRUE
    BY <1>1 DEF ExistsBijection
  <2>2. f \in [1 .. n -> S] /\ \A a, b \in 1 .. n : f[a] = f[b] => a = b
    BY <2>1 DEF Bijection, Injection, IsInjective
  <2> QED
    BY <2>2 DEF Ciq!IsInjective
<1>3. q \in [1 .. n -> S] /\ Ciq!IsInjective(q)
  <2>1. q = CHOOSE f \in [1 .. n -> S] : Ciq!IsInjective(f)
    BY CiqCounts, Zenon DEF Ciq!SetToSeq
  <2> HIDE DEF q, n
  <2> QED
    BY <1>2, <2>1, Zenon
<1> HIDE DEF q
<1>4. \A i, j \in 1 .. n : q[i] = q[j] => i = j
  BY <1>3 DEF Ciq!IsInjective
<1>5. \A x \in S : \E i \in 1 .. n : q[i] = x
  <2>1. q \in Injection(1 .. n, S)
    BY <1>3, <1>4 DEF Injection, IsInjective
  <2>2. IsFiniteSet(1 .. n) /\ Cardinality(1 .. n) = n
    BY <1>1, FS_Interval
  <2>3. q \in Surjection(1 .. n, S)
    BY <2>1, <2>2, FS_Injection
  <2> QED
    BY <2>3 DEF Surjection
<1> QED
  BY <1>1, <1>3, <1>4, <1>5 DEF q

(* What research found is about calibrations and documents. *)
Searched == /\ IsFiniteSet(Docs) /\ None \notin Vins
            /\ \A f \in Findings : f.supports \in [Needed -> SUBSET Docs] /\ f.seen \in SUBSET Docs

Document == [source : Docs, links : SUBSET Needed, valid : BOOLEAN, version : Nat,
             archived : BOOLEAN]

\* What a call asks Calibration IQ to do.
Action == [op : {"workspace", "note"}]
     \cup [op : {"import"}, doc : Docs, links : SUBSET Needed, valid : BOOLEAN]
     \cup [op : {"update"}, target : Nat, version : Nat, links : SUBSET Needed, valid : BOOLEAN]
     \cup [op : {"link"}, target : Nat, version : Nat, links : SUBSET Needed]
     \cup [op : {"complete"}, version : Nat]
     \cup [op : {"vin"}, vin : Vins, version : Nat]

\* What a call has read.
Snapped(s) == /\ s.case.version \in Nat /\ s.required \in SUBSET Needed
              /\ s.docs \in Seq(Document) /\ s.ro.version \in Nat \ {0} /\ s.touched \in Nat

Targets(a, i) == a.op \in {"update", "link"} /\ a.target = i

\* A plan leaves a requirement with a document that shows it.
Prepared(s, p, cal) ==
    \/ \E k \in DOMAIN p : p[k].op \in {"import", "update"} /\ cal \in p[k].links /\ p[k].valid
    \/ \E k \in DOMAIN p : /\ p[k].op = "link" /\ s.docs[p[k].target].valid
                           /\ cal \in p[k].links \cup s.docs[p[k].target].links
    \/ \E i \in DOMAIN s.docs : /\ cal \in s.docs[i].links /\ s.docs[i].valid
                                /\ ~s.docs[i].archived /\ \A k \in DOMAIN p : ~Targets(p[k], i)

\* A plan of research takes each document once and completes the case last, at the version
\* that what comes before leads to.
Thorough(s, p, contested) ==
    /\ \A k \in DOMAIN p : p[k].op \in {"workspace", "import", "update", "link", "complete"}
    /\ \A k \in DOMAIN p : p[k].op \in {"update", "link"} => p[k].target \in DOMAIN s.docs
    /\ \A j, k \in DOMAIN p : \A i \in DOMAIN s.docs : Targets(p[j], i) /\ Targets(p[k], i) => j = k
    /\ \A k \in DOMAIN p : p[k].op = "complete" =>
          /\ k = Len(p) /\ p[k].version = s.case.version + k - 1
          /\ \A cal \in s.required \ contested : Prepared(s, p, cal)

(* The document that is taken is one that matches. *)
LEMMA MatchFact ==
    ASSUME NEW s, Snapped(s), NEW d
    PROVE  LET i == Ciq!_matching_existing_document(s, d) IN
           i # 0 => i \in DOMAIN s.docs /\ s.docs[i].source = d /\ ~s.docs[i].archived
<1> DEFINE M == Ciq!Matching(s, d)  i == Ciq!_matching_existing_document(s, d)
<1>1. CASE M = {}
  BY <1>1 DEF Ciq!_matching_existing_document
<1>2. CASE M # {}
  <2>1. M \subseteq Nat
    BY DEF Ciq!Matching, Snapped
  <2>2. PICK m \in M : \A k \in M : <<k, m>> \notin OpToRel(<, Nat)
    BY <1>2, <2>1, NatLessThanWellFounded, WFMin
  <2>3. \A k \in M : ~(k < m)
    BY <2>1, <2>2, Zenon DEF OpToRel
  <2>4. \A k \in M : m <= k
    BY <2>1, <2>3
  <2>5. i \in M
    BY <1>2, <2>4, Zenon DEF Ciq!_matching_existing_document
  <2> QED
    BY <2>5 DEF Ciq!Matching
<1> QED
  BY <1>1, <1>2

(* What is done about one document. *)
LEMMA ActionIs ==
    ASSUME Searched, NEW s, Snapped(s), NEW f \in Findings, NEW d \in Docs,
           NEW a \in Ciq!DocumentAction(s, f, d)
    PROVE  /\ a \in Action
           /\ \/ a.op = "import" /\ a.doc = d
              \/ /\ a.op \in {"update", "link"} /\ a.target \in DOMAIN s.docs
                 /\ s.docs[a.target].source = d
           /\ Ciq!DocumentAction(s, f, d) = {a}
<1> DEFINE i == Ciq!_matching_existing_document(s, d)
           missing == Ciq!Links(f, d) \ s.docs[i].links
           m == [op |-> "import", doc |-> d, links |-> Ciq!Links(f, d), valid |-> Ciq!Validated(f, d)]
           u == [op |-> "update", target |-> i, version |-> s.docs[i].version,
                 links |-> s.docs[i].links \cup Ciq!Links(f, d), valid |-> Ciq!Validated(f, d)]
           l == [op |-> "link", target |-> i, version |-> s.docs[i].version, links |-> missing]
<1>1. Ciq!Links(f, d) \in SUBSET Needed /\ Ciq!Validated(f, d) \in BOOLEAN
  BY DEF Ciq!Links, Ciq!Validated
<1>2. /\ i = 0 => Ciq!DocumentAction(s, f, d) = {m}
      /\ i # 0 => \/ Ciq!DocumentAction(s, f, d) = {u}
                  \/ Ciq!DocumentAction(s, f, d) = {l}
                  \/ Ciq!DocumentAction(s, f, d) = {}
  BY Zenon DEF Ciq!DocumentAction
<1>3. m \in Action /\ m.op = "import" /\ m.doc = d
  BY <1>1 DEF Action
<1>4. i # 0 => /\ i \in DOMAIN s.docs /\ s.docs[i].source = d /\ i \in Nat
               /\ s.docs[i] \in Document
  BY MatchFact DEF Snapped
<1>5. i # 0 => u \in Action /\ l \in Action /\ u.op = "update" /\ l.op = "link"
               /\ u.target = i /\ l.target = i
  BY <1>1, <1>4 DEF Action, Document
<1> HIDE DEF i, m, u, l
<1> QED
  BY <1>2, <1>3, <1>4, <1>5

(* A supported calibration with one source has its document: it is imported, or validated,
   or linked, or shows the calibration already and is left alone. *)
LEMMA Supports ==
    ASSUME Searched, NEW s, Snapped(s), NEW f \in Findings, NEW cal \in Needed,
           cal \in Ciq!Supported(f), cal \notin Ciq!Contested(f)
    PROVE  \E d \in Ciq!Found(f) :
              \/ \E a \in Ciq!DocumentAction(s, f, d) :
                    \/ a.op \in {"import", "update"} /\ cal \in a.links /\ a.valid
                    \/ /\ a.op = "link" /\ s.docs[a.target].valid
                       /\ cal \in a.links \cup s.docs[a.target].links
              \/ /\ Ciq!DocumentAction(s, f, d) = {}
                 /\ \E i \in DOMAIN s.docs : /\ s.docs[i].source = d /\ s.docs[i].valid
                                             /\ cal \in s.docs[i].links /\ ~s.docs[i].archived
<1>1. PICK d \in f.supports[cal] : d \in Docs
  BY DEF Ciq!Supported, Searched
<1>2. d \in Ciq!Found(f) /\ cal \in Ciq!Links(f, d) /\ Ciq!Validated(f, d)
  BY <1>1 DEF Ciq!Found, Ciq!Links, Ciq!Validated
<1> DEFINE i == Ciq!_matching_existing_document(s, d)
           missing == Ciq!Links(f, d) \ s.docs[i].links
           m == [op |-> "import", doc |-> d, links |-> Ciq!Links(f, d), valid |-> Ciq!Validated(f, d)]
           u == [op |-> "update", target |-> i, version |-> s.docs[i].version,
                 links |-> s.docs[i].links \cup Ciq!Links(f, d), valid |-> Ciq!Validated(f, d)]
           l == [op |-> "link", target |-> i, version |-> s.docs[i].version, links |-> missing]
<1>3. /\ i = 0 => Ciq!DocumentAction(s, f, d) = {m}
      /\ i # 0 => \/ Ciq!DocumentAction(s, f, d) = {u}
                  \/ s.docs[i].valid /\ missing # {} /\ Ciq!DocumentAction(s, f, d) = {l}
                  \/ s.docs[i].valid /\ missing = {} /\ Ciq!DocumentAction(s, f, d) = {}
  BY <1>2, Zenon DEF Ciq!DocumentAction
<1>4. i # 0 => i \in DOMAIN s.docs /\ s.docs[i].source = d /\ ~s.docs[i].archived
  BY MatchFact
<1>5. /\ m.op = "import" /\ cal \in m.links /\ m.valid
      /\ u.op = "update" /\ cal \in u.links /\ u.valid
      /\ l.op = "link" /\ l.target = i /\ cal \in l.links \cup s.docs[i].links
  BY <1>2
<1>6. missing = {} => cal \in s.docs[i].links
  BY <1>2
<1> HIDE DEF m, u, l, missing, i
<1> QED
  BY <1>2, <1>3, <1>4, <1>5, <1>6

\* What a plan is made of.
Made(A, v, before, p) ==
    /\ p \in Seq(Action) /\ Len(p) > 0 /\ before \in Seq(Action)
    /\ \A k \in 1 .. Len(p) :
          \/ p[k].op = "workspace" \/ p[k] \in A
          \/ k = Len(p) /\ k = Len(before) + 1 /\ p[k].op = "complete" /\ p[k].version = v
    /\ \A a \in A : \E k \in 1 .. Len(p) : p[k] = a
    /\ \A j, k \in 1 .. Len(p) :
          p[j] = p[k] /\ p[j] \in A /\ p[j].op \notin {"workspace", "complete"} => j = k

(* A plan is the workspace, what is done about each document, and perhaps the completion. *)
LEMMA PlanShape ==
    ASSUME NEW A \in SUBSET Action, IsFiniteSet(A), NEW v \in Nat,
           NEW before, before = <<[op |-> "workspace"]>> \o Ciq!SetToSeq(A),
           NEW p, p = before \/ p = Append(before, [op |-> "complete", version |-> v])
    PROVE  Made(A, v, before, p)
<1> DEFINE n == Cardinality(A)  q == Ciq!SetToSeq(A)  w == [op |-> "workspace"]
           e == [op |-> "complete", version |-> v]
<1>1. /\ q \in [1 .. n -> A] /\ n \in Nat
      /\ \A i, j \in 1 .. n : q[i] = q[j] => i = j
      /\ \A x \in A : \E i \in 1 .. n : q[i] = x
  BY AsSequence
<1>2. w \in Action /\ e \in Action /\ w.op = "workspace" /\ e.op = "complete" /\ e.version = v
  BY DEF Action
<1> HIDE DEF w, e, q, n
<1>3. q \in Seq(Action) /\ Len(q) = n
  BY <1>1
<1>4. /\ before \in Seq(Action) /\ Len(before) = n + 1 /\ before[1] = w
      /\ \A i \in 1 .. n : before[i + 1] = q[i]
  BY <1>1, <1>2, <1>3 DEF w, q
<1>5. \A k \in 1 .. n + 1 : k = 1 \/ (k - 1 \in 1 .. n /\ before[k] = q[k - 1])
  BY <1>1, <1>4
<1>6. /\ p \in Seq(Action) /\ Len(p) \in {n + 1, n + 2}
      /\ \A k \in 1 .. n + 1 : p[k] = before[k]
      /\ Len(p) = n + 2 => p[n + 2] = e
  <2>1. p = before \/ p = Append(before, e)
    BY DEF e
  <2>2. /\ Append(before, e) \in Seq(Action) /\ Len(Append(before, e)) = Len(before) + 1
        /\ \A k \in 1 .. Len(before) : Append(before, e)[k] = before[k]
        /\ Append(before, e)[Len(before) + 1] = e
    BY <1>2, <1>4
  <2>3. CASE p = before
    BY <1>1, <1>4, <2>3
  <2>4. CASE p = Append(before, e)
    <3>1. p \in Seq(Action) /\ Len(p) = n + 2 /\ p[n + 2] = e
      BY <1>1, <1>4, <2>2, <2>4
    <3>2. \A k \in 1 .. n + 1 : p[k] = before[k]
      BY <1>4, <2>2, <2>4
    <3> QED
      BY <3>1, <3>2
  <2> QED
    BY <2>1, <2>3, <2>4
<1>7. \A k \in 1 .. Len(p) :
                 \/ p[k] = w \/ (k - 1 \in 1 .. n /\ p[k] = q[k - 1])
                 \/ k = Len(p) /\ k = Len(before) + 1 /\ p[k] = e
  BY <1>1, <1>4, <1>5, <1>6
<1>8. \A a \in A : \E k \in 1 .. Len(p) : p[k] = a
  <2> TAKE a \in A
  <2>1. PICK i \in 1 .. n : q[i] = a
    BY <1>1
  <2>2. i + 1 \in 1 .. n + 1 /\ i + 1 \in 1 .. Len(p)
    BY <1>1, <1>6, <2>1
  <2>3. p[i + 1] = a
    BY <1>4, <1>6, <2>1, <2>2
  <2> QED
    BY <2>2, <2>3
<1>9. ASSUME NEW j \in 1 .. Len(p), NEW k \in 1 .. Len(p), p[j] = p[k],
             p[j].op \notin {"workspace", "complete"}
      PROVE  j = k
  <2>1. /\ j - 1 \in 1 .. n /\ p[j] = q[j - 1]
        /\ k - 1 \in 1 .. n /\ p[k] = q[k - 1]
    BY <1>2, <1>7, <1>9
  <2>2. j - 1 = k - 1
    BY <1>1, <1>9, <2>1
  <2> QED
    BY <2>2
<1>10. \A k \in 1 .. n : q[k] \in A
  BY <1>1
<1> QED
  BY <1>1, <1>2, <1>4, <1>6, <1>7, <1>8, <1>9, <1>10 DEF Made

(* What research plans takes each document once, and completes the case last. *)
LEMMA ResearchPlans ==
    ASSUME Searched, NEW s, Snapped(s), NEW f \in Findings, NEW requested \in BOOLEAN,
           NEW p, p = Ciq!_expand_research_action(s, f, requested)
    PROVE  p \in Seq(Action) /\ Len(p) > 0 /\ Thorough(s, p, Ciq!Contested(f))
<1> DEFINE D == Ciq!Found(f)  A == UNION {Ciq!DocumentAction(s, f, d) : d \in D}
           before == <<[op |-> "workspace"]>> \o Ciq!SetToSeq(A)
           v == Ciq!CompletionVersion(s, before)
           complete == [op |-> "complete", version |-> v]
           eligible == requested /\ Ciq!eligible_complete(s, f) /\ s.case.state # "complete"
<1>1. D \subseteq Docs
  BY DEF Searched, Ciq!Found
<1>2. ASSUME NEW a \in A
      PROVE  /\ a \in Action /\ a.op \in {"import", "update", "link"}
             /\ \E d \in D : /\ Ciq!DocumentAction(s, f, d) = {a}
                             /\ a.op \in {"update", "link"} =>
                                   a.target \in DOMAIN s.docs /\ s.docs[a.target].source = d
  <2>1. PICK d \in D : a \in Ciq!DocumentAction(s, f, d)
    OBVIOUS
  <2> QED
    BY <1>1, <2>1, ActionIs
<1>3. IsFiniteSet(A) /\ A \in SUBSET Action
  <2>1. IsFiniteSet(D)
    BY <1>1, FS_Subset DEF Searched
  <2> DEFINE T == {Ciq!DocumentAction(s, f, d) : d \in D}
  <2>2. IsFiniteSet(T)
    <3>1. \E g \in [D -> T] : \A t \in T : \E d \in D : g[d] = t
      <4> WITNESS [d \in D |-> Ciq!DocumentAction(s, f, d)] \in [D -> T]
      <4> QED
        OBVIOUS
    <3>2. PICK g \in [D -> T] : \A t \in T : \E d \in D : g[d] = t
      BY <3>1
    <3> HIDE DEF T
    <3>3. g \in Surjection(D, T)
      BY <3>2 DEF Surjection
    <3> QED
      BY <2>1, <3>3, FS_Surjection
  <2>3. \A t \in T : IsFiniteSet(t)
    <3> SUFFICES ASSUME NEW d \in D PROVE IsFiniteSet(Ciq!DocumentAction(s, f, d))
      OBVIOUS
    <3>1. CASE Ciq!DocumentAction(s, f, d) = {}
      BY <3>1, FS_EmptySet
    <3>2. ASSUME NEW a \in Ciq!DocumentAction(s, f, d)
          PROVE  IsFiniteSet(Ciq!DocumentAction(s, f, d))
      <4>1. Ciq!DocumentAction(s, f, d) = {a}
        BY <1>1, ActionIs
      <4> QED
        BY <4>1, FS_Singleton
    <3> QED
      BY <3>1, <3>2
  <2>4. IsFiniteSet(UNION T)
    <3> HIDE DEF T
    <3> QED
      BY <2>2, <2>3, FS_UNION
  <2> QED
    BY <1>2, <2>4
<1>4. p = IF eligible THEN Append(before, complete) ELSE before
  BY Zenon DEF Ciq!_expand_research_action
<1>5. \A d \in D : Ciq!DocumentAction(s, f, d) \subseteq A
  OBVIOUS
<1> HIDE DEF A, D
<1>6. before \in Seq(Action) /\ before = <<[op |-> "workspace"]>> \o Ciq!SetToSeq(A)
  <2>1. Made(A, 0, before, before)
    BY <1>3, PlanShape
  <2> QED
    BY <2>1 DEF Made
<1> HIDE DEF before
<1>7. v \in Nat /\ v = s.case.version + Len(before)
  BY <1>6 DEF Snapped, Ciq!CompletionVersion
<1> HIDE DEF v
<1>8. /\ p \in Seq(Action) /\ Len(p) > 0
      /\ \A k \in 1 .. Len(p) :
                 \/ p[k].op = "workspace" \/ p[k] \in A
                 \/ k = Len(p) /\ k = Len(before) + 1 /\ p[k].op = "complete" /\ p[k].version = v
      /\ \A a \in A : \E k \in 1 .. Len(p) : p[k] = a
      /\ \A j, k \in 1 .. Len(p) :
            p[j] = p[k] /\ p[j] \in A /\ p[j].op \notin {"workspace", "complete"} => j = k
  <2>1. p = before \/ p = Append(before, [op |-> "complete", version |-> v])
    BY <1>4
  <2>2. Made(A, v, before, p)
    BY <1>3, <1>6, <1>7, <2>1, PlanShape
  <2> QED
    BY <2>2 DEF Made
<1>9. \A k \in DOMAIN p : p[k].op = "complete" => eligible
  <2>1. CASE eligible
    BY <2>1
  <2>2. CASE ~eligible
    <3>1. p = before
      BY <1>4, <2>2
    <3>2. ASSUME NEW k \in DOMAIN p PROVE p[k].op # "complete"
      <4>1. k \in 1 .. Len(p) /\ k # Len(before) + 1
        BY <1>6, <1>8, <3>1
      <4>2. p[k].op = "workspace" \/ p[k] \in A
        BY <1>8, <4>1
      <4> QED
        BY <1>2, <4>2
    <3> QED
      BY <3>2
  <2> QED
    BY <2>1, <2>2
<1> HIDE DEF eligible, complete
<1>10. \A k \in DOMAIN p : p[k].op \in {"workspace", "import", "update", "link", "complete"}
  BY <1>2, <1>8
<1>11. \A k \in DOMAIN p : p[k].op \in {"update", "link"} => p[k].target \in DOMAIN s.docs
  BY <1>2, <1>8
<1>12. ASSUME NEW j \in DOMAIN p, NEW k \in DOMAIN p, NEW i \in DOMAIN s.docs,
              Targets(p[j], i), Targets(p[k], i)
       PROVE  j = k
  <2>1. p[j] \in A /\ p[k] \in A /\ p[j].op \in {"update", "link"} /\ p[k].op \in {"update", "link"}
    BY <1>8, <1>12 DEF Targets
  <2>2. PICK d \in D : Ciq!DocumentAction(s, f, d) = {p[j]} /\ s.docs[i].source = d
    BY <1>2, <1>12, <2>1 DEF Targets
  <2>3. PICK e \in D : Ciq!DocumentAction(s, f, e) = {p[k]} /\ s.docs[i].source = e
    BY <1>2, <1>12, <2>1 DEF Targets
  <2>4. p[j] = p[k]
    BY <2>2, <2>3
  <2> QED
    BY <1>8, <2>1, <2>4
<1>13. ASSUME NEW k \in DOMAIN p, p[k].op = "complete"
       PROVE  k = Len(p) /\ p[k].version = s.case.version + k - 1
  <2>1. k = Len(p) /\ k = Len(before) + 1 /\ p[k].version = v
    BY <1>2, <1>8, <1>13
  <2> QED
    BY <1>6, <1>7, <2>1 DEF Snapped
<1>14. ASSUME NEW k \in DOMAIN p, p[k].op = "complete",
              NEW cal \in s.required \ Ciq!Contested(f)
       PROVE  Prepared(s, p, cal)
  <2>1. cal \in Needed /\ cal \in Ciq!Supported(f) /\ cal \notin Ciq!Contested(f)
    BY <1>9, <1>14 DEF eligible, Ciq!eligible_complete, Snapped
  <2>2. PICK d \in D :
              \/ \E a \in Ciq!DocumentAction(s, f, d) :
                    \/ a.op \in {"import", "update"} /\ cal \in a.links /\ a.valid
                    \/ /\ a.op = "link" /\ s.docs[a.target].valid
                       /\ cal \in a.links \cup s.docs[a.target].links
              \/ /\ Ciq!DocumentAction(s, f, d) = {}
                 /\ \E i \in DOMAIN s.docs : /\ s.docs[i].source = d /\ s.docs[i].valid
                                             /\ cal \in s.docs[i].links /\ ~s.docs[i].archived
    BY <2>1, Supports DEF D
  <2>3. CASE \E a \in Ciq!DocumentAction(s, f, d) :
                    \/ a.op \in {"import", "update"} /\ cal \in a.links /\ a.valid
                    \/ /\ a.op = "link" /\ s.docs[a.target].valid
                       /\ cal \in a.links \cup s.docs[a.target].links
    BY <1>5, <1>8, <2>3 DEF Prepared
  <2>4. ASSUME Ciq!DocumentAction(s, f, d) = {}, NEW i \in DOMAIN s.docs,
               s.docs[i].source = d, s.docs[i].valid, cal \in s.docs[i].links,
               ~s.docs[i].archived
        PROVE  Prepared(s, p, cal)
    <3>1. ASSUME NEW m \in DOMAIN p, Targets(p[m], i) PROVE FALSE
      <4>1. p[m] \in A /\ p[m].op \in {"update", "link"} /\ p[m].target = i
        BY <1>8, <3>1 DEF Targets
      <4>2. PICK e \in D : Ciq!DocumentAction(s, f, e) = {p[m]} /\ s.docs[i].source = e
        BY <1>2, <4>1
      <4> QED
        BY <2>4, <4>2
    <3> QED
      BY <2>4, <3>1 DEF Prepared
  <2> QED
    BY <2>2, <2>3, <2>4
<1> QED
  BY <1>8, <1>10, <1>11, <1>12, <1>13, <1>14 DEF Thorough

StateTyped == /\ case \in [version : Nat, state : {"open", "complete"}] /\ required \in SUBSET Needed
              /\ docs \in Seq(Document) /\ ro \in [version : Nat \ {0}, vin : Vins \cup {None}]
              /\ touched \in Nat

\* What the case and its documents have become when the first actions of a plan were
\* performed on what was read, and nothing else happened.
After(s, p, n, D) ==
    /\ Len(s.docs) <= Len(D)
    /\ \A i \in 1 .. Len(s.docs) : (\A k \in 1 .. n : ~Targets(p[k], i)) => D[i] = s.docs[i]
    /\ \A k \in 1 .. n :
          /\ p[k].op = "import" => \E i \in Len(s.docs) + 1 .. Len(D) :
                /\ D[i].links = p[k].links /\ D[i].valid = p[k].valid /\ ~D[i].archived
          /\ \A i \in 1 .. Len(s.docs) : Targets(p[k], i) =>
                /\ ~D[i].archived
                /\ p[k].op = "update" => D[i].links = p[k].links /\ D[i].valid = p[k].valid
                /\ p[k].op = "link" => /\ D[i].links = s.docs[i].links \cup p[k].links
                                       /\ D[i].valid = s.docs[i].valid

\* What an action makes of the documents.
Wrote(a, D, E) ==
    /\ E \in Seq(Document) /\ Len(D) <= Len(E)
    /\ \A i \in 1 .. Len(D) : ~Targets(a, i) => E[i] = D[i]
    /\ a.op = "import" =>
          /\ Len(E) = Len(D) + 1 /\ E[Len(E)].links = a.links /\ E[Len(E)].valid = a.valid
          /\ ~E[Len(E)].archived
    /\ \A i \in 1 .. Len(D) : Targets(a, i) =>
          /\ E[i].archived = D[i].archived
          /\ a.op = "update" => E[i].links = a.links /\ E[i].valid = a.valid
          /\ a.op = "link" => E[i].links = D[i].links \cup a.links /\ E[i].valid = D[i].valid

(* An action fits the version it expects. *)
LEMMA FitsFact ==
    ASSUME NEW a, Ciq!Fits(a)
    PROVE  /\ a.op \in {"update", "link"} => ~docs[a.target].archived
           /\ a.op = "complete" => case.version = a.version
           /\ a.op = "vin" => a.version \in {0, ro.version}
<1>1. CASE a.op \in {"update", "link"}
  <2>1. docs[a.target].version = a.version /\ ~docs[a.target].archived
    BY <1>1, Zenon DEF Ciq!Fits
  <2> QED
    BY <1>1, <2>1
<1>2. CASE a.op = "complete"
  BY <1>2, Zenon DEF Ciq!Fits
<1>3. CASE a.op = "vin"
  BY <1>3, Zenon DEF Ciq!Fits
<1> QED
  BY <1>1, <1>2, <1>3

(* An action that is performed. *)
LEMMA PerformsFact ==
    ASSUME StateTyped, NEW a \in Action, Ciq!Performs(a)
    PROVE  /\ Wrote(a, docs, docs')
           /\ case' \in [version : Nat, state : {"open", "complete"}]
           /\ IF a.op \in {"vin", "note"} THEN case' = case /\ docs' = docs
              ELSE case'.version = case.version + 1
           /\ IF a.op = "vin" THEN ro' = [version |-> ro.version + 1, vin |-> a.vin] ELSE ro' = ro
           /\ ro' \in [version : Nat \ {0}, vin : Vins \cup {None}]
<1>1. a.op \in {"workspace", "note", "import", "update", "link", "complete", "vin"}
  BY DEF Action
<1>2. /\ a.op \in {"vin", "note"} => case' = case
      /\ a.op = "complete" => case' = [version |-> case.version + 1, state |-> "complete"]
      /\ a.op \notin {"vin", "note", "complete"} => case' = [case EXCEPT !.version = @ + 1]
  <2>1. CASE a.op \in {"vin", "note"}
    BY <2>1, Zenon DEF Ciq!Performs
  <2>2. CASE a.op = "complete"
    BY <2>2, Zenon DEF Ciq!Performs
  <2>3. CASE a.op \notin {"vin", "note", "complete"}
    BY <2>3, Zenon DEF Ciq!Performs
  <2> QED
    BY <2>1, <2>2, <2>3
<1>3. case' \in [version : Nat, state : {"open", "complete"}]
      /\ (a.op \notin {"vin", "note"} => case'.version = case.version + 1)
  BY <1>1, <1>2 DEF StateTyped
<1>4. ro' = IF a.op = "vin" THEN [version |-> ro.version + 1, vin |-> a.vin] ELSE ro
  BY Zenon DEF Ciq!Performs
<1>5. ro' \in [version : Nat \ {0}, vin : Vins \cup {None}]
  <2>1. a.op = "vin" => a.vin \in Vins
    BY DEF Action
  <2> QED
    BY <1>4, <2>1 DEF StateTyped
<1> DEFINE i == [source |-> a.doc, links |-> a.links, valid |-> a.valid, version |-> 1, archived |-> FALSE]
<1>6. /\ a.op = "import" => docs' = Append(docs, i)
      /\ a.op = "update" => docs' = [docs EXCEPT ![a.target].links = a.links,
                                   ![a.target].valid = a.valid, ![a.target].version = @ + 1]
      /\ a.op = "link" => docs' = [docs EXCEPT ![a.target].links = @ \cup a.links,
                                   ![a.target].version = @ + 1]
      /\ a.op \notin {"import", "update", "link"} => docs' = docs
  <2>1. CASE a.op = "import"
    BY <2>1, Zenon DEF Ciq!Performs
  <2>2. CASE a.op = "update"
    BY <2>2, Zenon DEF Ciq!Performs
  <2>3. CASE a.op = "link"
    BY <2>3, Zenon DEF Ciq!Performs
  <2>4. CASE a.op \notin {"import", "update", "link"}
    BY <2>4, Zenon DEF Ciq!Performs
  <2> QED
    BY <2>1, <2>2, <2>3, <2>4
<1>7. Wrote(a, docs, docs')
  <2>0. docs \in Seq(Document)
    BY DEF StateTyped
  <2>1. CASE a.op = "import"
    <3>1. i \in Document /\ i.links = a.links /\ i.valid = a.valid /\ ~i.archived
      BY <2>1 DEF Action, Document
    <3> HIDE DEF i
    <3> QED
      BY <1>6, <2>0, <2>1, <3>1 DEF Wrote, Targets
  <2>2. CASE a.op = "update"
    <3>1. a.links \in SUBSET Needed /\ a.valid \in BOOLEAN /\ a.target \in Nat
      BY <2>2 DEF Action
    <3> DEFINE o == docs[a.target]
               d == [source |-> o.source, links |-> a.links, valid |-> a.valid,
                     version |-> o.version + 1, archived |-> o.archived]
    <3>2. CASE a.target \in 1 .. Len(docs)
      <4>0. o \in Document
        BY <2>0, <3>2
      <4>1. docs' = [docs EXCEPT ![a.target] = d]
        <5>1. o = [source |-> o.source, links |-> o.links, valid |-> o.valid,
                   version |-> o.version, archived |-> o.archived]
          BY <4>0 DEF Document
        <5> QED
          BY <1>6, <2>2, <5>1
      <4>2. d \in Document /\ d.links = a.links /\ d.valid = a.valid /\ d.archived = o.archived
        BY <3>1, <4>0 DEF Document
      <4> HIDE DEF d
      <4> QED
        BY <2>0, <2>2, <3>2, <4>1, <4>2 DEF Wrote, Targets
    <3>3. CASE a.target \notin 1 .. Len(docs)
      <4>1. docs' = docs
        BY <1>6, <2>0, <2>2, <3>3
      <4> QED
        BY <2>0, <2>2, <3>3, <4>1 DEF Wrote, Targets
    <3> QED
      BY <3>2, <3>3
  <2>3. CASE a.op = "link"
    <3>1. a.links \in SUBSET Needed /\ a.target \in Nat
      BY <2>3 DEF Action
    <3> DEFINE o == docs[a.target]
               d == [source |-> o.source, links |-> o.links \cup a.links, valid |-> o.valid,
                     version |-> o.version + 1, archived |-> o.archived]
    <3>2. CASE a.target \in 1 .. Len(docs)
      <4>0. o \in Document
        BY <2>0, <3>2
      <4>1. docs' = [docs EXCEPT ![a.target] = d]
        <5>1. o = [source |-> o.source, links |-> o.links, valid |-> o.valid,
                   version |-> o.version, archived |-> o.archived]
          BY <4>0 DEF Document
        <5> QED
          BY <1>6, <2>3, <5>1
      <4>2. d \in Document /\ d.links = o.links \cup a.links /\ d.valid = o.valid
            /\ d.archived = o.archived
        BY <3>1, <4>0 DEF Document
      <4> HIDE DEF d
      <4> QED
        BY <2>0, <2>3, <3>2, <4>1, <4>2 DEF Wrote, Targets
    <3>3. CASE a.target \notin 1 .. Len(docs)
      <4>1. docs' = docs
        BY <1>6, <2>0, <2>3, <3>3
      <4> QED
        BY <2>0, <2>3, <3>3, <4>1 DEF Wrote, Targets
    <3> QED
      BY <3>2, <3>3
  <2>4. CASE a.op \notin {"import", "update", "link"}
    BY <1>6, <2>0, <2>4 DEF Wrote, Targets
  <2> QED
    BY <2>1, <2>2, <2>3, <2>4
<1> QED
  BY <1>1, <1>2, <1>3, <1>4, <1>5, <1>6, <1>7

(* One more action of a plan is performed. *)
LEMMA AfterNext ==
    ASSUME NEW s, Snapped(s), NEW p \in Seq(Action), NEW contested, Thorough(s, p, contested),
           NEW n \in 1 .. Len(p), NEW D \in Seq(Document), After(s, p, n - 1, D),
           NEW E, Wrote(p[n], D, E),
           p[n].op \in {"update", "link"} => ~D[p[n].target].archived
    PROVE  After(s, p, n, E)
<1>0. /\ Len(s.docs) \in Nat /\ Len(D) \in Nat /\ Len(E) \in Nat /\ DOMAIN s.docs = 1 .. Len(s.docs)
      /\ DOMAIN p = 1 .. Len(p) /\ Len(p) \in Nat /\ Len(s.docs) <= Len(D) /\ Len(D) <= Len(E)
      /\ n \in Nat
  BY DEF Wrote, After, Snapped
<1>1. ASSUME NEW i \in 1 .. Len(s.docs), \A k \in 1 .. n : ~Targets(p[k], i)
      PROVE  E[i] = s.docs[i]
  <2>1. i \in 1 .. Len(D) /\ ~Targets(p[n], i)
    BY <1>0, <1>1
  <2>2. E[i] = D[i]
    BY <2>1 DEF Wrote
  <2>3. \A k \in 1 .. n - 1 : ~Targets(p[k], i)
    BY <1>0, <1>1
  <2> QED
    BY <2>2, <2>3 DEF After
<1>2. ASSUME NEW k \in 1 .. n, p[k].op = "import"
      PROVE  \E i \in Len(s.docs) + 1 .. Len(E) :
                /\ E[i].links = p[k].links /\ E[i].valid = p[k].valid /\ ~E[i].archived
  <2>1. CASE k = n
    <3>1. Len(E) = Len(D) + 1 /\ Len(E) \in Len(s.docs) + 1 .. Len(E)
      BY <1>0, <1>2, <2>1 DEF Wrote
    <3> QED
      BY <1>2, <2>1, <3>1 DEF Wrote
  <2>2. CASE k # n
    <3>1. k \in 1 .. n - 1
      BY <1>0, <2>2
    <3>2. PICK i \in Len(s.docs) + 1 .. Len(D) :
                /\ D[i].links = p[k].links /\ D[i].valid = p[k].valid /\ ~D[i].archived
      BY <1>2, <3>1 DEF After
    <3>3. ~Targets(p[n], i) /\ i \in 1 .. Len(D) /\ i \in Len(s.docs) + 1 .. Len(E)
      BY <1>0, <3>2 DEF Thorough, Targets
    <3>4. E[i] = D[i]
      BY <3>3 DEF Wrote
    <3> QED
      BY <3>2, <3>3, <3>4
  <2> QED
    BY <2>1, <2>2
<1>3. ASSUME NEW k \in 1 .. n, NEW i \in 1 .. Len(s.docs), Targets(p[k], i)
      PROVE  /\ ~E[i].archived
             /\ p[k].op = "update" => E[i].links = p[k].links /\ E[i].valid = p[k].valid
             /\ p[k].op = "link" => /\ E[i].links = s.docs[i].links \cup p[k].links
                                    /\ E[i].valid = s.docs[i].valid
  <2>0. i \in 1 .. Len(D) /\ k \in DOMAIN p /\ n \in DOMAIN p /\ i \in DOMAIN s.docs
    BY <1>0
  <2>1. CASE k = n
    <3>1. \A j \in 1 .. n - 1 : ~Targets(p[j], i)
      <4>1. \A j \in 1 .. n - 1 : j \in DOMAIN p /\ j # n
        BY <1>0
      <4> QED
        BY <1>3, <2>0, <2>1, <4>1 DEF Thorough
    <3>2. D[i] = s.docs[i]
      BY <3>1 DEF After
    <3>3. ~D[i].archived
      BY <1>3, <2>1 DEF Targets
    <3> QED
      BY <1>3, <2>0, <2>1, <3>2, <3>3 DEF Wrote
  <2>2. CASE k # n
    <3>1. k \in 1 .. n - 1
      BY <1>0, <2>2
    <3>2. ~Targets(p[n], i)
      BY <1>3, <2>0, <2>2 DEF Thorough
    <3>3. E[i] = D[i]
      BY <2>0, <3>2 DEF Wrote
    <3> QED
      BY <1>3, <3>1, <3>3 DEF After
  <2> QED
    BY <2>1, <2>2
<1> QED
  BY <1>0, <1>1, <1>2, <1>3 DEF After

(* When everything before the completion was performed on what was read, each requirement
   that was read and has one source has its evidence. *)
LEMMA EvidenceThen ==
    ASSUME NEW s, Snapped(s), NEW p \in Seq(Action), NEW contested, Thorough(s, p, contested),
           Len(p) > 0, p[Len(p)].op = "complete", docs \in Seq(Document),
           After(s, p, Len(p) - 1, docs), NEW cal \in s.required \ contested
    PROVE  Ciq!Evidence(cal)
<1>0. /\ Len(s.docs) \in Nat /\ Len(docs) \in Nat /\ DOMAIN s.docs = 1 .. Len(s.docs)
      /\ DOMAIN docs = 1 .. Len(docs) /\ DOMAIN p = 1 .. Len(p) /\ Len(p) \in Nat
      /\ Len(s.docs) <= Len(docs)
  BY DEF After, Snapped
<1>1. Len(p) \in DOMAIN p /\ Prepared(s, p, cal)
  BY <1>0 DEF Thorough
<1>2. \A k \in DOMAIN p : p[k].op # "complete" => k \in 1 .. Len(p) - 1
  BY <1>0
<1>3. ASSUME NEW i \in 1 .. Len(docs), cal \in docs[i].links, docs[i].valid, ~docs[i].archived
      PROVE  Ciq!Evidence(cal)
  BY <1>0, <1>3 DEF Ciq!Evidence
<1>4. ASSUME NEW k \in DOMAIN p, p[k].op \in {"import", "update"}, cal \in p[k].links, p[k].valid
      PROVE  Ciq!Evidence(cal)
  <2>0. k \in 1 .. Len(p) - 1
    BY <1>2, <1>4
  <2>1. CASE p[k].op = "import"
    <3>1. PICK i \in Len(s.docs) + 1 .. Len(docs) :
             /\ docs[i].links = p[k].links /\ docs[i].valid = p[k].valid /\ ~docs[i].archived
      BY <2>0, <2>1 DEF After
    <3>2. i \in 1 .. Len(docs)
      BY <1>0
    <3> QED
      BY <1>3, <1>4, <3>1, <3>2
  <2>2. CASE p[k].op = "update"
    <3> DEFINE i == p[k].target
    <3>1. i \in 1 .. Len(s.docs) /\ Targets(p[k], i) /\ i \in 1 .. Len(docs)
      BY <1>0, <2>2 DEF Thorough, Targets
    <3>2. docs[i].links = p[k].links /\ docs[i].valid = p[k].valid /\ ~docs[i].archived
      BY <2>0, <2>2, <3>1 DEF After
    <3> QED
      BY <1>3, <1>4, <3>1, <3>2
  <2> QED
    BY <1>4, <2>1, <2>2
<1>5. ASSUME NEW k \in DOMAIN p, p[k].op = "link", s.docs[p[k].target].valid,
             cal \in p[k].links \cup s.docs[p[k].target].links
      PROVE  Ciq!Evidence(cal)
  <2> DEFINE i == p[k].target
  <2>1. i \in 1 .. Len(s.docs) /\ Targets(p[k], i) /\ i \in 1 .. Len(docs)
        /\ k \in 1 .. Len(p) - 1
    BY <1>0, <1>2, <1>5 DEF Thorough, Targets
  <2>2. /\ docs[i].links = s.docs[i].links \cup p[k].links /\ docs[i].valid = s.docs[i].valid
        /\ ~docs[i].archived
    BY <1>5, <2>1 DEF After
  <2> QED
    BY <1>3, <1>5, <2>1, <2>2
<1>6. ASSUME NEW i \in DOMAIN s.docs, cal \in s.docs[i].links, s.docs[i].valid,
             ~s.docs[i].archived, \A k \in DOMAIN p : ~Targets(p[k], i)
      PROVE  Ciq!Evidence(cal)
  <2>1. \A k \in 1 .. Len(p) - 1 : ~Targets(p[k], i)
    BY <1>0, <1>6
  <2>2. i \in 1 .. Len(s.docs) /\ i \in 1 .. Len(docs)
    BY <1>0
  <2>3. \A j \in 1 .. Len(s.docs) :
           (\A k \in 1 .. Len(p) - 1 : ~Targets(p[k], j)) => docs[j] = s.docs[j]
    BY Zenon DEF After
  <2>4. docs[i] = s.docs[i]
    BY <2>1, <2>2, <2>3
  <2> QED
    BY <1>3, <1>6, <2>2, <2>4
<1> QED
  BY <1>1, <1>4, <1>5, <1>6 DEF Prepared

Phases == {"idle", "plan", "post", "wait", "reread", "verify", "done"}
Sent == {"wait", "reread", "verify", "done"}
CaseForm == [version : Nat, state : {"open", "complete"}]
OrderForm == [version : Nat \ {0}, vin : Vins \cup {None}]

\* The snapshots, calls, batches and effects.
ReadForm == [case : CaseForm, required : SUBSET Needed, docs : Seq(Document), ro : OrderForm,
             touched : Nat]
CallForm == [at : Phases, snap : ReadForm \cup {None}, plan : Seq(Action),
             contested : SUBSET Needed, withheld : BOOLEAN, completes : BOOLEAN, oks : Nat,
             result : {"none", "error", "failed", "partial", "success", "indeterminate"},
             proved : BOOLEAN]
BatchForm == [call : Calls, next : Nat \ {0}, oks : Nat, replays : Nat, on : BOOLEAN,
              goes_on : BOOLEAN]
EffectForm == [of : {Message[c] : c \in Calls}, action : Action, touched : Nat, replays : Nat,
               overwrote : BOOLEAN, bare : SUBSET Needed, contested : SUBSET Needed]

\* The key of an action of a plan, and that the first ones took effect.
KeyOf(m, p, k) == [of |-> m, action |-> p[k],
                   ordinal |-> Cardinality({j \in 1 .. k : p[j] = p[k]})]
AllDone(m, p, n) == \A k \in 1 .. n : KeyOf(m, p, k) \in done

\* What has happened since a snapshot has raised the versions.
Since(s) ==
    /\ s \in ReadForm /\ s.touched <= touched
    /\ s.case.version + (touched - s.touched) <= case.version
    /\ s.case.version = case.version => s.docs = docs
    /\ s.ro.version <= ro.version /\ (s.ro.version = ro.version => s.ro.vin = ro.vin)

\* The first actions of a plan were performed, and others have raised the version too.
Followed(s, p, n) ==
    /\ s.case.version + n + (touched - s.touched) <= case.version
    /\ case.version = s.case.version + n => After(s, p, n, docs)

\* The plan is of the kind of its call.
Planned(kind, s, p, contested) ==
    /\ kind \in {"research", "vin", "note"}
    /\ kind = "research" => Thorough(s, p, contested)
    /\ kind = "vin" => /\ Len(p) = 1 /\ p[1].op = "vin" /\ p[1].version = s.ro.version
                       /\ s.ro.vin = None
    /\ kind = "note" => \A k \in DOMAIN p : p[k].op = "note"

\* A call: its plan is made on its snapshot, its success is that all took effect.
CallKept(c, x) ==
    /\ x.at \in {"idle", "plan"} => x.plan = <<>>
    /\ x.at \in {"post", "wait", "reread", "verify"} => x.plan # <<>>
    /\ x.at = "plan" \/ x.plan # <<>> => Since(x.snap)
    /\ x.plan # <<>> => Planned(Kind[c], x.snap, x.plan, x.contested)
    /\ x.at = "verify" => Kind[c] = "vin"
    /\ x.at = "reread" /\ x.oks = Len(x.plan) => AllDone(Message[c], x.plan, Len(x.plan))
    /\ x.at \in {"verify", "done"} /\ x.result = "success" =>
          AllDone(Message[c], x.plan, Len(x.plan))
    /\ x.at = "done" /\ x.result = "success" => x.proved

\* A batch: what was answered took effect; research without an earlier answer followed
\* its snapshot.
BatchKept(b, x) ==
    /\ x.at \in Sent /\ x.plan # <<>>
    /\ b.next <= Len(x.plan) + 1 /\ (b.on => b.next <= Len(x.plan))
    /\ b.oks <= b.next - 1
    /\ b.oks = b.next - 1 => AllDone(Message[b.call], x.plan, b.next - 1)
    /\ Kind[b.call] = "research" => ~b.goes_on
    /\ Kind[b.call] = "research" /\ b.on /\ b.replays = 0 => Followed(x.snap, x.plan, b.next - 1)

TookOf(m, a) == {k \in DOMAIN effects : effects[k].of = m /\ effects[k].action = a}
KeysOf(m, a) == {key \in done : key.of = m /\ key.action = a}

\* Each effect has a key, and each key an action that was planned.
Keyed ==
    /\ effects \in Seq(EffectForm) /\ IsFiniteSet(done)
    /\ \A m, a : Cardinality(TookOf(m, a)) = Cardinality(KeysOf(m, a))
    /\ \A key \in done : \E c \in Calls : \E k \in DOMAIN calls[c].plan :
          key = KeyOf(Message[c], calls[c].plan, k)

CallsKept == calls \in [Calls -> CallForm] /\ \A c \in Calls : CallKept(c, calls[c])
WireKept == wire \in SUBSET BatchForm /\ \A b \in wire : BatchKept(b, calls[b.call])

\* What holds of the calls of one repair order.
OInv == StateTyped /\ CallsKept /\ WireKept /\ Keyed /\ Ciq!OnWhatWasRead

(* The key that the code makes. *)
LEMMA KeyIs == \A c, k : Ciq!_stable_action_ids(c, k) = KeyOf(Message[c], calls[c].plan, k)
  BY CiqCounts, Zenon DEF Ciq!_stable_action_ids, KeyOf

\* The order moves on: whatever changes the case or the VIN raises their versions.
Onward ==
    /\ touched <= touched' /\ case.version + (touched' - touched) <= case'.version
    /\ case.version = case'.version => docs' = docs
    /\ ro.version <= ro'.version /\ (ro.version = ro'.version => ro'.vin = ro.vin)
    /\ done \subseteq done'

(* What has happened since a snapshot stays. *)
LEMMA SinceStays ==
    ASSUME StateTyped, StateTyped', Onward, NEW s, Since(s)
    PROVE  Since(s)'
<1>1. /\ s.touched \in Nat /\ s.case.version \in Nat /\ s.ro.version \in Nat
  BY DEF Since, ReadForm, CaseForm, OrderForm
<1>2. /\ touched \in Nat /\ touched' \in Nat /\ case.version \in Nat /\ case'.version \in Nat
      /\ ro.version \in Nat /\ ro'.version \in Nat
  BY DEF StateTyped
<1>3. /\ s.touched <= touched /\ s.case.version + (touched - s.touched) <= case.version
      /\ s.ro.version <= ro.version /\ s \in ReadForm
      /\ s.case.version = case.version => s.docs = docs
      /\ s.ro.version = ro.version => s.ro.vin = ro.vin
  BY DEF Since
<1>4. /\ touched <= touched' /\ case.version + (touched' - touched) <= case'.version
      /\ case.version = case'.version => docs' = docs
      /\ ro.version <= ro'.version /\ (ro.version = ro'.version => ro'.vin = ro.vin)
  BY DEF Onward
<1>5. s.touched <= touched' /\ s.case.version + (touched' - s.touched) <= case'.version
  BY <1>1, <1>2, <1>3, <1>4
<1>6. s.case.version = case'.version => s.case.version = case.version /\ case.version = case'.version
  BY <1>1, <1>2, <1>3, <1>4
<1>7. s.ro.version <= ro'.version
      /\ (s.ro.version = ro'.version => s.ro.version = ro.version /\ ro.version = ro'.version)
  BY <1>1, <1>2, <1>3, <1>4
<1> QED
  BY <1>3, <1>4, <1>5, <1>6, <1>7 DEF Since

(* A plan that was followed stays so, or the versions tell. *)
LEMMA FollowedStays ==
    ASSUME StateTyped, StateTyped', Onward, NEW s, Since(s), NEW p, NEW n \in Nat, Followed(s, p, n)
    PROVE  Followed(s, p, n)'
<1>1. /\ s.touched \in Nat /\ s.case.version \in Nat
  BY DEF Since, ReadForm, CaseForm
<1>2. /\ touched \in Nat /\ touched' \in Nat /\ case.version \in Nat /\ case'.version \in Nat
  BY DEF StateTyped
<1>3. s.case.version + n + (touched' - s.touched) <= case'.version
  BY <1>1, <1>2 DEF Followed, Onward
<1>4. case'.version = s.case.version + n => case.version = s.case.version + n /\ docs' = docs
  <2>1. s.case.version + n + (touched - s.touched) <= case.version /\ s.touched <= touched
    BY DEF Followed, Since
  <2>2. touched <= touched' /\ case.version + (touched' - touched) <= case'.version
    BY DEF Onward
  <2>3. case'.version = s.case.version + n => case.version = s.case.version + n
                                              /\ case.version = case'.version
    <3>1. n \in Nat
      OBVIOUS
    <3>2. s.case.version + n <= case.version /\ case.version <= case'.version
      BY ONLY <1>1, <1>2, <2>1, <2>2, <3>1
    <3> QED
      BY ONLY <1>1, <1>2, <3>1, <3>2
  <2> QED
    BY <2>3 DEF Onward
<1> QED
  BY <1>3, <1>4 DEF Followed

(* So does all that is known of a call. *)
LEMMA CallStays ==
    ASSUME StateTyped, StateTyped', Onward, NEW c, NEW x, CallKept(c, x)
    PROVE  CallKept(c, x)'
<1>1. Since(x.snap) => Since(x.snap)'
  BY SinceStays
<1>2. ASSUME NEW m, NEW p, NEW n, AllDone(m, p, n) PROVE AllDone(m, p, n)'
  BY <1>2 DEF AllDone, Onward
<1>3. AllDone(Message[c], x.plan, Len(x.plan)) => AllDone(Message[c], x.plan, Len(x.plan))'
  BY <1>2
<1> QED
  BY <1>1, <1>3 DEF CallKept

(* The same of a batch. *)
LEMMA BatchStays ==
    ASSUME StateTyped, StateTyped', Onward, NEW b \in BatchForm, NEW x, BatchKept(b, x),
           Since(x.snap)
    PROVE  BatchKept(b, x)'
<1>0. b.next - 1 \in Nat
  BY DEF BatchForm
<1>1. Followed(x.snap, x.plan, b.next - 1) => Followed(x.snap, x.plan, b.next - 1)'
  BY <1>0, FollowedStays
<1>2. AllDone(Message[b.call], x.plan, b.next - 1) => AllDone(Message[b.call], x.plan, b.next - 1)'
  BY DEF AllDone, Onward
<1> QED
  BY <1>1, <1>2 DEF BatchKept

(* A step of one call. *)
LEMMA CallMoves ==
    ASSUME OInv, NEW c \in Calls, NEW r \in CallForm, calls' = [calls EXCEPT ![c] = r],
           UNCHANGED <<Ciq!ciq, touched>>, CallKept(c, r),
           r.plan = calls[c].plan \/ calls[c].plan = <<>>,
           wire' \in SUBSET BatchForm,
           \A b \in wire' : \/ b \in wire /\ b.call # c
                            \/ b.call = c /\ BatchKept(b, r)
    PROVE  OInv'
<1>0. /\ case' = case /\ required' = required /\ docs' = docs /\ ro' = ro /\ done' = done
      /\ effects' = effects /\ touched' = touched
  BY DEF Ciq!ciq
<1>1. StateTyped'
  BY <1>0 DEF OInv, StateTyped
<1>2. Onward
  BY <1>0 DEF OInv, StateTyped, Onward
<1>3. calls \in [Calls -> CallForm] /\ calls' \in [Calls -> CallForm] /\ calls'[c] = r
      /\ \A d \in Calls : d # c => calls'[d] = calls[d]
  BY DEF OInv, CallsKept
<1>4. StateTyped /\ \A d \in Calls : CallKept(d, calls[d])
  BY DEF OInv, CallsKept
<1>5. CallsKept'
  <2>1. ASSUME NEW d \in Calls PROVE CallKept(d, calls[d])' 
    <3>1. CASE d = c
      <4>1. \A x : CallKept(c, x) => CallKept(c, x)'
        BY <1>1, <1>2, <1>4, CallStays
      <4>2. CallKept(c, calls[c])' = CallKept(c, r)'
        BY <1>3, Zenon DEF CallKept
      <4> QED
        BY <3>1, <4>1, <4>2
    <3>2. CASE d # c
      <4>1. \A x : CallKept(d, x) => CallKept(d, x)'
        BY <1>1, <1>2, <1>4, CallStays
      <4> QED
        BY <1>3, <1>4, <3>2, <4>1
    <3> QED
      BY <3>1, <3>2
  <2> QED
    BY <1>3, <2>1 DEF CallsKept
<1>6. WireKept'
  <2>1. ASSUME NEW b \in wire' PROVE BatchKept(b, calls[b.call])'
    <3>0. b \in BatchForm
      OBVIOUS
    <3>1. CASE b \in wire /\ b.call # c
      <4>1. BatchKept(b, calls[b.call]) /\ b.call \in Calls
        BY <3>0, <3>1 DEF OInv, WireKept, BatchForm
      <4>2. calls'[b.call] = calls[b.call] /\ CallKept(b.call, calls[b.call])
        BY <1>3, <1>4, <3>1, <4>1
      <4>3. Since(calls[b.call].snap)
        BY <4>1, <4>2 DEF BatchKept, CallKept
      <4>4. \A x : BatchKept(b, x) /\ Since(x.snap) => BatchKept(b, x)'
        BY <1>1, <1>2, <1>4, <3>0, BatchStays
      <4> QED
        BY <4>1, <4>2, <4>3, <4>4
    <3>2. CASE b.call = c /\ BatchKept(b, r)
      <4>1. Since(r.snap)
        BY <3>2 DEF BatchKept, CallKept
      <4>2. BatchKept(b, r)'
        BY <1>1, <1>2, <1>4, <3>0, <3>2, <4>1, BatchStays
      <4> QED
        BY <1>3, <3>2, <4>2
    <3> QED
      BY <3>1, <3>2
  <2> QED
    BY <2>1 DEF WireKept
<1>7. Keyed'
  <2>1. \A m, a : TookOf(m, a)' = TookOf(m, a) /\ KeysOf(m, a)' = KeysOf(m, a)
    BY <1>0 DEF TookOf, KeysOf
  <2>2. ASSUME NEW key \in done
        PROVE  \E d \in Calls : \E k \in DOMAIN calls'[d].plan :
                  key = KeyOf(Message[d], calls'[d].plan, k)
    <3>0. PICK d \in Calls : \E k \in DOMAIN calls[d].plan :
             key = KeyOf(Message[d], calls[d].plan, k)
      BY <2>2, Zenon DEF OInv, Keyed
    <3>1. PICK k \in DOMAIN calls[d].plan : key = KeyOf(Message[d], calls[d].plan, k)
      BY <3>0, Zenon
    <3>2. calls'[d].plan = calls[d].plan
      <4>1. CASE d = c
        <5>1. calls[c].plan # <<>>
          BY <3>1, <4>1
        <5> QED
          BY <1>3, <4>1, <5>1
      <4>2. CASE d # c
        BY <1>3, <4>2
      <4> QED
        BY <4>1, <4>2
    <3> QED
      BY <3>1, <3>2
  <2> QED
    BY <1>0, <2>1, <2>2 DEF OInv, Keyed
<1>8. Ciq!OnWhatWasRead'
  BY <1>0 DEF OInv, Ciq!OnWhatWasRead
<1> QED
  BY <1>1, <1>5, <1>6, <1>7, <1>8 DEF OInv

(* Nothing of a call is on its way before it is sent. *)
LEMMA NotSent ==
    ASSUME OInv, NEW c \in Calls, calls[c].at \notin Sent, wire' = wire
    PROVE  wire' \in SUBSET BatchForm /\ \A b \in wire' : b \in wire /\ b.call # c
  BY DEF OInv, WireKept, BatchKept

(* At first nobody has called. *)
LEMMA OInit ==
    ASSUME Ciq!Init
    PROVE  OInv
<1> DEFINE x == [at |-> "idle", snap |-> None, plan |-> <<>>, contested |-> {}, withheld |-> FALSE,
                 completes |-> FALSE, oks |-> 0, result |-> "none", proved |-> FALSE]
<1>1. /\ case = [version |-> 1, state |-> "open"] /\ required \in SUBSET Needed /\ docs = <<>>
      /\ ro = [version |-> 1, vin |-> None] /\ done = {} /\ effects = <<>> /\ wire = {}
      /\ touched = 0 /\ calls = [c \in Calls |-> x]
  BY DEF Ciq!Init, Ciq!Idle
<1>2. StateTyped
  BY <1>1 DEF StateTyped
<1>3. CallsKept
  <2>1. x \in CallForm
    BY DEF CallForm, Phases
  <2>2. \A c \in Calls : CallKept(c, x)
    BY DEF CallKept
  <2> HIDE DEF x
  <2> QED
    BY <1>1, <2>1, <2>2 DEF CallsKept
<1>4. WireKept
  BY <1>1 DEF WireKept
<1>5. Keyed
  <2>1. \A m, a : TookOf(m, a) = {} /\ KeysOf(m, a) = {}
    BY <1>1 DEF TookOf, KeysOf
  <2>2. effects \in Seq(EffectForm) /\ IsFiniteSet(done)
    BY <1>1, FS_EmptySet
  <2> QED
    BY <1>1, <2>1, <2>2 DEF Keyed
<1>6. Ciq!OnWhatWasRead
  BY <1>1 DEF Ciq!OnWhatWasRead
<1> QED
  BY <1>2, <1>3, <1>4, <1>5, <1>6 DEF OInv

(* A call begins. *)
LEMMA BeginKeeps ==
    ASSUME OInv, NEW c \in Calls, Ciq!Begin(c)
    PROVE  OInv'
<1> DEFINE s == [case |-> case, required |-> required, docs |-> docs, ro |-> ro, touched |-> touched]
           x == [at |-> "plan", snap |-> s, plan |-> <<>>, contested |-> {}, withheld |-> FALSE,
                 completes |-> FALSE, oks |-> 0, result |-> "none", proved |-> FALSE]
           y == [at |-> "done", snap |-> None, plan |-> <<>>, contested |-> {}, withheld |-> FALSE,
                 completes |-> FALSE, oks |-> 0, result |-> "error", proved |-> FALSE]
<1>1. /\ calls[c].at = "idle" /\ UNCHANGED <<Ciq!ciq, wire, touched>>
      /\ calls' = [calls EXCEPT ![c] = x] \/ calls' = [calls EXCEPT ![c] = y]
  BY DEF Ciq!Begin, Ciq!Set, Ciq!Idle, Ciq!Snapshot, Ciq!Unresolved
<1>2. s \in ReadForm /\ Since(s)
  <2>1. s \in ReadForm
    BY DEF OInv, StateTyped, ReadForm, CaseForm, OrderForm
  <2> QED
    BY <2>1 DEF OInv, StateTyped, Since
<1>3. x \in CallForm /\ CallKept(c, x) /\ x.plan = <<>>
  <2> HIDE DEF s
  <2> QED
    BY <1>2 DEF CallForm, CallKept, Phases
<1>4. y \in CallForm /\ CallKept(c, y) /\ y.plan = <<>>
  <2>1. AllDone(Message[c], <<>>, 0)
    BY DEF AllDone
  <2> QED
    BY <2>1 DEF CallForm, CallKept, Phases
<1>5. calls[c].plan = <<>>
  BY <1>1 DEF OInv, CallsKept, CallKept
<1>6. wire' \in SUBSET BatchForm /\ \A b \in wire' : b \in wire /\ b.call # c
  BY <1>1, NotSent DEF Sent
<1> HIDE DEF x, y
<1> QED
  BY <1>1, <1>3, <1>4, <1>5, <1>6, CallMoves

\* What a planning step does to a call.
Becomes(c, r) ==
    /\ calls' = [calls EXCEPT ![c] = r]
    /\ UNCHANGED <<Ciq!ciq, wire, touched>>

(* A planned batch is not yet sent. *)
LEMMA PlanKeeps ==
    ASSUME OInv, NEW c \in Calls, calls[c].at = "plan", NEW r \in CallForm, Becomes(c, r),
           CallKept(c, r)
    PROVE  OInv'
<1>1. calls[c].plan = <<>>
  BY DEF OInv, CallsKept, CallKept
<1>2. wire' \in SUBSET BatchForm /\ \A b \in wire' : b \in wire /\ b.call # c
  BY NotSent DEF Sent, Becomes
<1> QED
  BY <1>1, <1>2, CallMoves DEF Becomes

(* Research plans, or is not sent. *)
LEMMA ResearchKeeps ==
    ASSUME Searched, OInv, NEW c \in Calls, Ciq!Research(c)
    PROVE  OInv'
<1> DEFINE x == calls[c]
<1>1. /\ x \in CallForm /\ x.at = "plan" /\ x.plan = <<>> /\ Since(x.snap) /\ Kind[c] = "research"
      /\ x.snap \in ReadForm /\ UNCHANGED <<Ciq!ciq, wire, touched>>
  BY DEF OInv, CallsKept, CallKept, Ciq!Research, Since
<1>2. Snapped(x.snap)
  BY <1>1 DEF ReadForm, CaseForm, OrderForm, Snapped
<1>3. CASE \E f \in Findings, requested \in BOOLEAN :
             Ciq!Set(c, [x EXCEPT !.at = "post",
                           !.plan = Ciq!_expand_research_action(x.snap, f, requested),
                           !.contested = Ciq!Contested(f),
                           !.completes = requested /\ Ciq!eligible_complete(x.snap, f),
                           !.withheld = requested /\ ~Ciq!eligible_complete(x.snap, f)])
  <2>1. PICK f \in Findings, requested \in BOOLEAN :
             Ciq!Set(c, [x EXCEPT !.at = "post",
                           !.plan = Ciq!_expand_research_action(x.snap, f, requested),
                           !.contested = Ciq!Contested(f),
                           !.completes = requested /\ Ciq!eligible_complete(x.snap, f),
                           !.withheld = requested /\ ~Ciq!eligible_complete(x.snap, f)])
    BY <1>3, Zenon
  <2> DEFINE p == Ciq!_expand_research_action(x.snap, f, requested)
             q == Ciq!Contested(f)
             e == requested /\ Ciq!eligible_complete(x.snap, f)
             w == requested /\ ~Ciq!eligible_complete(x.snap, f)
             r == [x EXCEPT !.at = "post", !.plan = p, !.contested = q, !.completes = e,
                            !.withheld = w]
  <2>2. p \in Seq(Action) /\ Len(p) > 0 /\ Thorough(x.snap, p, q)
    BY <1>2, <2>1, ResearchPlans, Zenon
  <2>3. q \in SUBSET Needed /\ e \in BOOLEAN /\ w \in BOOLEAN
    BY DEF Ciq!Contested
  <2>4. calls' = [calls EXCEPT ![c] = r]
    BY <2>1 DEF Ciq!Set
  <2>5. r \in CallForm /\ CallKept(c, r)
    <3> HIDE DEF x, p, q, e, w
    <3>1. /\ r \in CallForm /\ r.at = "post" /\ r.snap = x.snap /\ r.plan = p /\ r.contested = q
      BY <1>1, <2>2, <2>3 DEF CallForm, Phases
    <3>2. p # <<>>
      BY <2>2
    <3> HIDE DEF r
    <3> QED
      BY <1>1, <2>2, <3>1, <3>2 DEF CallKept, Planned
  <2> QED
    <3> HIDE DEF r
    <3> QED
      BY <1>1, <2>4, <2>5, PlanKeeps DEF Becomes
<1>4. CASE Ciq!Set(c, [x EXCEPT !.at = "done", !.result = "error"])
  <2> DEFINE r == [x EXCEPT !.at = "done", !.result = "error"]
  <2>1. calls' = [calls EXCEPT ![c] = r]
    BY <1>4 DEF Ciq!Set
  <2>2. r \in CallForm /\ CallKept(c, r)
    <3> HIDE DEF x
    <3>1. r \in CallForm /\ r.at = "done" /\ r.plan = x.plan /\ r.result = "error"
      BY <1>1 DEF CallForm, Phases
    <3> HIDE DEF r
    <3> QED
      BY <1>1, <3>1 DEF CallKept
  <2> QED
    <3> HIDE DEF r
    <3> QED
      BY <1>1, <2>1, <2>2, PlanKeeps DEF Becomes
<1> QED
  BY <1>3, <1>4, Zenon DEF Ciq!Research

(* The VIN is repaired, was there, or is not known. *)
LEMMA RepairKeeps ==
    ASSUME OInv, NEW c \in Calls, Ciq!_repair_from_attached_adas_map(c)
    PROVE  OInv'
<1> DEFINE x == calls[c]
           vin(v) == <<[op |-> "vin", vin |-> v, version |-> x.snap.ro.version]>>
<1>1. /\ x \in CallForm /\ x.at = "plan" /\ x.plan = <<>> /\ Since(x.snap) /\ Kind[c] = "vin"
      /\ x.snap \in ReadForm /\ UNCHANGED <<Ciq!ciq, wire, touched>>
  BY DEF OInv, CallsKept, CallKept, Ciq!_repair_from_attached_adas_map, Since
<1>2. \/ calls' = [calls EXCEPT ![c] = [x EXCEPT !.at = "done", !.result = "success", !.proved = TRUE]]
      \/ calls' = [calls EXCEPT ![c] = [x EXCEPT !.at = "done", !.result = "failed"]]
      \/ /\ x.snap.ro.vin = None
         /\ \E v \in Vins : calls' = [calls EXCEPT ![c] = [x EXCEPT !.at = "post", !.plan = vin(v)]]
  <2>1. \A reads \in [1 .. 2 -> SUBSET Vins] : Ciq!_attached_map_vin(reads) \subseteq Vins
    <3> TAKE reads \in [1 .. 2 -> SUBSET Vins]
    <3> DEFINE U == UNION {reads[i] : i \in DOMAIN reads}
    <3>1. U \subseteq Vins
      OBVIOUS
    <3>2. Ciq!_attached_map_vin(reads) = U \/ Ciq!_attached_map_vin(reads) = {}
      BY Zenon DEF Ciq!_attached_map_vin
    <3> QED
      BY <3>1, <3>2
  <2>2. CASE x.snap.ro.vin # None
    BY <2>2 DEF Ciq!_repair_from_attached_adas_map, Ciq!Set
  <2>3. CASE x.snap.ro.vin = None
    <3>1. PICK reads \in [1 .. 2 -> SUBSET Vins] :
             IF Ciq!_attached_map_vin(reads) = {}
             THEN Ciq!Set(c, [calls[c] EXCEPT !.at = "done", !.result = "failed"])
             ELSE \E v \in Ciq!_attached_map_vin(reads) :
                    Ciq!Set(c, [calls[c] EXCEPT !.at = "post",
                                 !.plan = <<[op |-> "vin", vin |-> v,
                                             version |-> calls[c].snap.ro.version]>>])
      BY <2>3, Zenon DEF Ciq!_repair_from_attached_adas_map
    <3> QED
      BY <2>1, <2>3, <3>1 DEF Ciq!Set
  <2> QED
    BY <2>2, <2>3
<1>3. ASSUME NEW r, calls' = [calls EXCEPT ![c] = r],
             \/ r = [x EXCEPT !.at = "done", !.result = "success", !.proved = TRUE]
             \/ r = [x EXCEPT !.at = "done", !.result = "failed"]
      PROVE  OInv'
  <2>1. /\ r \in CallForm /\ r.at = "done" /\ r.plan = x.plan /\ r.snap = x.snap
        /\ r.result = "success" => r.proved
    <3> HIDE DEF x
    <3>1. CASE r = [x EXCEPT !.at = "done", !.result = "success", !.proved = TRUE]
      BY <1>1, <3>1 DEF CallForm, Phases
    <3>2. CASE r = [x EXCEPT !.at = "done", !.result = "failed"]
      BY <1>1, <3>2 DEF CallForm, Phases
    <3> QED
      BY <1>3, <3>1, <3>2
  <2>2. CallKept(c, r)
    <3> HIDE DEF x
    <3>1. AllDone(Message[c], <<>>, 0) /\ Len(<<>>) = 0
      BY DEF AllDone
    <3> QED
      BY <1>1, <2>1, <3>1 DEF CallKept
  <2> QED
    BY <1>1, <1>3, <2>1, <2>2, PlanKeeps DEF Becomes
<1>4. ASSUME NEW v \in Vins, x.snap.ro.vin = None, NEW r, calls' = [calls EXCEPT ![c] = r],
             r = [x EXCEPT !.at = "post", !.plan = vin(v)]
      PROVE  OInv'
  <2>1. /\ vin(v) \in Seq(Action) /\ Len(vin(v)) = 1 /\ vin(v)[1].op = "vin" /\ vin(v) # <<>>
        /\ vin(v)[1].version = x.snap.ro.version
    <3>1. x.snap.ro.version \in Nat
      BY <1>1 DEF ReadForm, OrderForm
    <3> DEFINE a == [op |-> "vin", vin |-> v, version |-> x.snap.ro.version]
    <3>2. a \in Action /\ a.op = "vin" /\ a.version = x.snap.ro.version
      BY <3>1 DEF Action
    <3> HIDE DEF a
    <3>3. <<a>> \in Seq(Action) /\ Len(<<a>>) = 1 /\ <<a>>[1] = a /\ <<a>> # <<>>
      BY <3>2
    <3> QED
      BY <3>2, <3>3 DEF a
  <2>2. r \in CallForm /\ CallKept(c, r)
    <3> HIDE DEF x, vin
    <3>1. r \in CallForm /\ r.at = "post" /\ r.plan = vin(v) /\ r.snap = x.snap
      BY <1>1, <1>4, <2>1 DEF CallForm, Phases
    <3> QED
      BY <1>1, <1>4, <2>1, <3>1 DEF CallKept, Planned
  <2> QED
    BY <1>1, <1>4, <2>2, PlanKeeps DEF Becomes
<1> QED
  BY <1>2, <1>3, <1>4

(* One note or two are asked for. *)
LEMMA NotesKeeps ==
    ASSUME OInv, NEW c \in Calls, Ciq!Notes(c)
    PROVE  OInv'
<1> DEFINE x == calls[c]  p(n) == [k \in 1 .. n |-> [op |-> "note"]]
<1>1. /\ x \in CallForm /\ x.at = "plan" /\ x.plan = <<>> /\ Since(x.snap) /\ Kind[c] = "note"
      /\ x.snap \in ReadForm /\ UNCHANGED <<Ciq!ciq, wire, touched>>
  BY DEF OInv, CallsKept, CallKept, Ciq!Notes, Since
<1>2. PICK n \in 1 .. 2 : calls' = [calls EXCEPT ![c] = [x EXCEPT !.at = "post", !.plan = p(n)]]
  BY DEF Ciq!Notes, Ciq!Set
<1> DEFINE r == [x EXCEPT !.at = "post", !.plan = p(n)]
<1>3. /\ p(n) \in Seq(Action) /\ p(n) # <<>> /\ \A k \in DOMAIN p(n) : p(n)[k].op = "note"
  BY DEF Action
<1>4. r \in CallForm /\ CallKept(c, r)
  <2> HIDE DEF x, p
  <2>1. r \in CallForm /\ r.at = "post" /\ r.plan = p(n) /\ r.snap = x.snap
    BY <1>1, <1>3 DEF CallForm, Phases
  <2> HIDE DEF r
  <2> QED
    BY <1>1, <1>3, <2>1 DEF CallKept, Planned
<1> QED
  <2> HIDE DEF p
  <2>1. calls' = [calls EXCEPT ![c] = r]
    BY <1>2
  <2> HIDE DEF r
  <2> QED
    BY <1>1, <1>4, <2>1, PlanKeeps DEF Becomes

(* The batch is sent. *)
LEMMA PostKeeps ==
    ASSUME OInv, NEW c \in Calls, Ciq!Post(c)
    PROVE  OInv'
<1> DEFINE x == calls[c]  r == [x EXCEPT !.at = "wait"]
<1>1. /\ x \in CallForm /\ x.at = "post" /\ x.plan # <<>> /\ Since(x.snap) /\ CallKept(c, x)
      /\ UNCHANGED <<Ciq!ciq, touched>> /\ calls' = [calls EXCEPT ![c] = r]
  BY DEF OInv, CallsKept, CallKept, Ciq!Post, Ciq!Set
<1>2. PICK goes_on \in BOOLEAN :
          /\ Kind[c] = "research" => ~goes_on
          /\ wire' = wire \cup {[call |-> c, next |-> 1, oks |-> 0, replays |-> 0,
                                 on |-> TRUE, goes_on |-> goes_on]}
  BY DEF Ciq!Post
<1> DEFINE b == [call |-> c, next |-> 1, oks |-> 0, replays |-> 0, on |-> TRUE, goes_on |-> goes_on]
<1>3. r \in CallForm /\ r.at = "wait" /\ r.plan = x.plan /\ r.snap = x.snap
      /\ r.contested = x.contested
  <2> HIDE DEF x
  <2> QED
    BY <1>1 DEF CallForm, Phases
<1> HIDE DEF r
<1>4. CallKept(c, r)
  <2> HIDE DEF x
  <2> QED
    BY <1>1, <1>3 DEF CallKept
<1>5. b \in BatchForm /\ b.call = c /\ BatchKept(b, r)
  <2>1. b \in BatchForm
    BY DEF BatchForm
  <2>2. /\ b.call = c /\ b.next = 1 /\ b.oks = 0 /\ b.on /\ (Kind[c] = "research" => ~b.goes_on)
    BY <1>2
  <2> HIDE DEF b, x
  <2>3. AllDone(Message[c], r.plan, 0)
    BY DEF AllDone
  <2>4. Len(r.plan) >= 1
    BY <1>1, <1>3 DEF CallForm
  <2>5. Followed(r.snap, r.plan, 0)
    <3>1. /\ x.snap.touched \in Nat /\ x.snap.case.version \in Nat /\ x.snap.docs \in Seq(Document)
          /\ touched \in Nat /\ case.version \in Nat /\ docs \in Seq(Document)
      BY <1>1 DEF Since, ReadForm, CaseForm, OInv, StateTyped
    <3>2. case.version = x.snap.case.version => docs = x.snap.docs
      BY <1>1 DEF Since
    <3>3. After(x.snap, x.plan, 0, x.snap.docs)
      BY <3>1 DEF After
    <3> QED
      BY <1>1, <1>3, <3>1, <3>2, <3>3 DEF Followed, Since
  <2> QED
    BY <1>1, <1>3, <2>1, <2>2, <2>3, <2>4, <2>5 DEF BatchKept, Sent
<1>6. wire' \in SUBSET BatchForm /\ \A d \in wire' : \/ d \in wire /\ d.call # c
                                                     \/ d.call = c /\ BatchKept(d, r)
  <2>1. \A d \in wire : d \in BatchForm /\ d.call # c
    <3>1. calls[c].at \notin Sent
      BY <1>1 DEF Sent
    <3> QED
      BY <3>1 DEF OInv, WireKept, BatchKept
  <2> HIDE DEF b
  <2>2. wire' = wire \cup {b}
    BY <1>2 DEF b
  <2> QED
    BY <1>5, <2>1, <2>2
<1> QED
  <2> HIDE DEF b
  <2> QED
    BY <1>1, <1>3, <1>4, <1>6, CallMoves

(* A call that was sent goes on. *)
LEMMA SentMoves ==
    ASSUME OInv, NEW c \in Calls, calls[c].at \in Sent, NEW r \in CallForm,
           calls' = [calls EXCEPT ![c] = r], CallKept(c, r), r.at \in Sent,
           r.plan = calls[c].plan, r.snap = calls[c].snap,
           UNCHANGED <<Ciq!ciq, touched>>, wire' \subseteq wire
    PROVE  OInv'
<1>1. wire' \in SUBSET BatchForm
  BY DEF OInv, WireKept
<1>2. \A b \in wire' : b \in wire /\ b.call = c => BatchKept(b, r)
  <2>1. \A b \in wire : BatchKept(b, calls[b.call])
    BY DEF OInv, WireKept
  <2> QED
    BY <2>1 DEF BatchKept
<1> QED
  BY <1>1, <1>2, CallMoves

(* No receipt comes back. *)
LEMMA NoReceiptKeeps ==
    ASSUME OInv, NEW c \in Calls, Ciq!NoReceipt(c)
    PROVE  OInv'
<1> DEFINE x == calls[c]  r == [x EXCEPT !.at = "done", !.result = "indeterminate"]
<1>1. /\ x \in CallForm /\ x.at = "wait" /\ CallKept(c, x)
      /\ UNCHANGED <<Ciq!ciq, touched>> /\ calls' = [calls EXCEPT ![c] = r]
  BY DEF OInv, CallsKept, Ciq!NoReceipt, Ciq!Set
<1>2. wire' \subseteq wire
  BY DEF Ciq!NoReceipt
<1>3. r \in CallForm /\ r.at = "done" /\ r.plan = x.plan /\ r.snap = x.snap
      /\ r.contested = x.contested /\ r.result = "indeterminate"
  <2> HIDE DEF x
  <2> QED
    BY <1>1 DEF CallForm, Phases
<1> HIDE DEF r
<1>4. CallKept(c, r)
  <2> HIDE DEF x
  <2> QED
    BY <1>1, <1>3 DEF CallKept
<1> QED
  BY <1>1, <1>2, <1>3, <1>4, SentMoves DEF Sent

(* The receipts come back: as many as there are actions only when all took effect. *)
LEMMA ReceiptsKeeps ==
    ASSUME OInv, NEW c \in Calls, Ciq!Receipts(c)
    PROVE  OInv'
<1> DEFINE x == calls[c]
<1>1. PICK b \in wire : b.call = c /\ ~b.on /\ wire' = wire \ {b}
                       /\ calls' = [calls EXCEPT ![c] = [x EXCEPT !.at = "reread", !.oks = b.oks]]
  BY DEF Ciq!Receipts, Ciq!Set
<1> DEFINE r == [x EXCEPT !.at = "reread", !.oks = b.oks]
<1>2. /\ x \in CallForm /\ x.at = "wait" /\ CallKept(c, x)
      /\ UNCHANGED <<Ciq!ciq, touched>> /\ calls' = [calls EXCEPT ![c] = r]
  BY <1>1 DEF OInv, CallsKept, Ciq!Receipts
<1>3. b \in BatchForm /\ BatchKept(b, x) /\ b.oks \in Nat /\ b.next \in Nat
  BY <1>1 DEF OInv, WireKept, BatchForm
<1>4. r \in CallForm /\ r.at = "reread" /\ r.plan = x.plan /\ r.snap = x.snap
      /\ r.contested = x.contested /\ r.oks = b.oks
  <2> HIDE DEF x
  <2> QED
    BY <1>2, <1>3 DEF CallForm, Phases
<1> HIDE DEF r
<1>5. b.oks = Len(x.plan) => AllDone(Message[c], x.plan, Len(x.plan))
  <2>1. Len(x.plan) \in Nat
    BY <1>2 DEF CallForm
  <2>2. /\ b.next <= Len(x.plan) + 1 /\ b.oks <= b.next - 1
        /\ b.oks = b.next - 1 => AllDone(Message[c], x.plan, b.next - 1)
    BY <1>1, <1>3 DEF BatchKept
  <2>3. b.oks = Len(x.plan) => b.oks = b.next - 1 /\ b.next - 1 = Len(x.plan)
    BY <1>3, <2>1, <2>2
  <2> QED
    BY <2>2, <2>3
<1>6. CallKept(c, r)
  <2> HIDE DEF x
  <2> QED
    BY <1>2, <1>4, <1>5 DEF CallKept
<1> QED
  BY <1>1, <1>2, <1>4, <1>6, SentMoves DEF Sent

(* The order is read again: a success is that everything took effect. *)
LEMMA RereadKeeps ==
    ASSUME OInv, NEW c \in Calls, Ciq!Reread(c)
    PROVE  OInv'
<1> DEFINE x == calls[c]
           all(readable) == /\ readable /\ x.oks = Len(x.plan)
                            /\ x.completes => Ciq!CompletionVerified
                            /\ ~x.withheld
           some == x.oks \in 1 .. (Len(x.plan) - 1)
           res(readable) == CASE all(readable) -> "success"
                              [] some -> "partial"
                              [] OTHER -> "failed"
           at == IF Kind[c] = "vin" THEN "verify" ELSE "done"
           proved == x.completes => Ciq!CompletionVerified
<1>0. \E readable \in BOOLEAN :
         Ciq!Set(c, [calls[c] EXCEPT !.at = IF Kind[c] = "vin" THEN "verify" ELSE "done",
             !.result = CASE /\ readable /\ calls[c].oks = Len(calls[c].plan)
                             /\ calls[c].completes => Ciq!CompletionVerified
                             /\ ~calls[c].withheld -> "success"
                          [] calls[c].oks \in 1 .. (Len(calls[c].plan) - 1) -> "partial"
                          [] OTHER -> "failed",
             !.proved = (calls[c].completes => Ciq!CompletionVerified)])
  BY Zenon DEF Ciq!Reread
<1>1. PICK readable \in BOOLEAN :
         calls' = [calls EXCEPT ![c] = [x EXCEPT !.at = at, !.result = res(readable), !.proved = proved]]
  BY <1>0, Zenon DEF Ciq!Set
<1> DEFINE outcome == res(readable)  r == [x EXCEPT !.at = at, !.result = outcome, !.proved = proved]
<1>2. /\ x \in CallForm /\ x.at = "reread" /\ CallKept(c, x)
      /\ UNCHANGED <<Ciq!ciq, wire, touched>>
  BY DEF OInv, CallsKept, Ciq!Reread
<1>3. /\ outcome \in {"success", "partial", "failed"}
      /\ outcome = "success" => x.oks = Len(x.plan) /\ proved
  <2>1. all(readable) => ~some
    BY <1>2 DEF CallForm
  <2>2. /\ all(readable) => outcome = "success"
        /\ some => outcome = "partial"
        /\ ~all(readable) /\ ~some => outcome = "failed"
    <3> HIDE DEF all, some
    <3>1. CASE all(readable)
      BY <2>1, <3>1, Zenon
    <3>2. CASE some
      <4>1. ~all(readable)
        BY <2>1, <3>2
      <4> QED
        BY <4>1, <3>2, Zenon
    <3>3. CASE ~all(readable) /\ ~some
      BY <3>3, Zenon
    <3> QED
      BY <2>1, <3>1, <3>2, <3>3, Zenon
  <2>3. all(readable) => x.oks = Len(x.plan) /\ proved
    OBVIOUS
  <2> HIDE DEF all, some, outcome, proved
  <2> QED
    BY <2>2, <2>3
<1>4. at \in {"verify", "done"} /\ (at = "verify" => Kind[c] = "vin") /\ proved \in BOOLEAN
  OBVIOUS
<1> HIDE DEF res, outcome, at, proved
<1>5. r \in CallForm /\ r.at = at /\ r.plan = x.plan /\ r.snap = x.snap
      /\ r.contested = x.contested /\ r.result = outcome /\ r.proved = proved
  <2> HIDE DEF x
  <2> QED
    BY <1>2, <1>3, <1>4 DEF CallForm, Phases
<1>6. calls' = [calls EXCEPT ![c] = r]
  BY <1>1 DEF outcome
<1> HIDE DEF r
<1>7. CallKept(c, r)
  <2> HIDE DEF x
  <2> QED
    BY <1>2, <1>3, <1>4, <1>5 DEF CallKept
<1> QED
  BY <1>2, <1>4, <1>5, <1>6, <1>7, SentMoves DEF Sent

(* The VIN is read once more. *)
LEMMA VerifyKeeps ==
    ASSUME Searched, OInv, NEW c \in Calls, Ciq!VerifyVin(c)
    PROVE  OInv'
<1> DEFINE x == calls[c]
           outcome == IF x.result = "success" /\ ro.vin = x.plan[1].vin THEN "success" ELSE "failed"
           proved == ro.vin # None
           r == [x EXCEPT !.at = "done", !.result = outcome, !.proved = proved]
<1>1. /\ x \in CallForm /\ x.at = "verify" /\ CallKept(c, x)
      /\ UNCHANGED <<Ciq!ciq, wire, touched>> /\ calls' = [calls EXCEPT ![c] = r]
  BY DEF OInv, CallsKept, Ciq!VerifyVin, Ciq!Set
<1>2. /\ outcome \in {"success", "failed"} /\ proved \in BOOLEAN
      /\ outcome = "success" => x.result = "success" /\ proved
  <2>1. x.plan[1].op = "vin" /\ Len(x.plan) = 1
    BY <1>1 DEF CallKept, Planned
  <2>2. x.plan[1] \in Action
    BY <1>1, <2>1 DEF CallForm
  <2>3. x.plan[1].vin \in Vins
    BY <2>1, <2>2 DEF Action
  <2> QED
    BY <2>3 DEF Searched
<1> HIDE DEF outcome, proved
<1>3. r \in CallForm /\ r.at = "done" /\ r.plan = x.plan /\ r.snap = x.snap
      /\ r.contested = x.contested /\ r.result = outcome /\ r.proved = proved
  <2> HIDE DEF x
  <2> QED
    BY <1>1, <1>2 DEF CallForm, Phases
<1> HIDE DEF r
<1>4. CallKept(c, r)
  <2> HIDE DEF x
  <2> QED
    BY <1>1, <1>2, <1>3 DEF CallKept
<1> QED
  BY <1>1, <1>3, <1>4, SentMoves DEF Sent

(* While the order moves on, what is known of the calls and batches stays. *)
LEMMA RestStays ==
    ASSUME OInv, StateTyped', Onward, calls' = calls
    PROVE  CallsKept' /\ \A d \in wire : BatchKept(d, calls[d.call])'
<1>0. StateTyped /\ CallsKept /\ WireKept
  BY DEF OInv
<1>1. CallsKept'
  <2>1. ASSUME NEW c \in Calls PROVE CallKept(c, calls[c])'
    <3>1. \A x : CallKept(c, x) => CallKept(c, x)'
      BY <1>0, CallStays
    <3> QED
      BY <1>0, <3>1 DEF CallsKept
  <2> QED
    BY <1>0, <2>1 DEF CallsKept
<1>2. ASSUME NEW d \in wire PROVE BatchKept(d, calls[d.call])'
  <2>1. d \in BatchForm /\ d.call \in Calls /\ BatchKept(d, calls[d.call])
    BY <1>0 DEF WireKept, BatchForm
  <2>2. Since(calls[d.call].snap)
    BY <1>0, <2>1 DEF CallsKept, CallKept, BatchKept
  <2>3. \A x : BatchKept(d, x) /\ Since(x.snap) => BatchKept(d, x)'
    BY <1>0, <2>1, BatchStays
  <2> QED
    BY <2>1, <2>2, <2>3
<1> QED
  BY <1>1, <1>2

(* One batch goes on. *)
LEMMA BatchMoves ==
    ASSUME OInv, StateTyped', Onward, calls' = calls, NEW b \in wire, NEW g \in BatchForm,
           wire' = (wire \ {b}) \cup {g}, NEW x, x = calls[g.call], BatchKept(g, x)'
    PROVE  CallsKept' /\ WireKept'
<1>1. CallsKept' /\ \A d \in wire : BatchKept(d, calls[d.call])'
  BY RestStays
<1>2. BatchKept(g, calls[g.call])'
  OBVIOUS
<1>3. wire' \in SUBSET BatchForm
  BY DEF OInv, WireKept
<1> QED
  BY <1>1, <1>2, <1>3 DEF WireKept

(* Other people work on the order. *)
LEMMA OthersKeeps ==
    ASSUME OInv, Ciq!Others
    PROVE  OInv'
<1>0. /\ case \in CaseForm /\ required \in SUBSET Needed /\ docs \in Seq(Document)
      /\ ro \in OrderForm /\ touched \in Nat
  BY DEF OInv, StateTyped, CaseForm, OrderForm
<1>1. done' = done /\ effects' = effects /\ calls' = calls /\ wire' = wire
  BY DEF Ciq!Others
<1>2. StateTyped' /\ Onward
  <2>1. CASE /\ \E i \in DOMAIN docs :
                  docs' = [docs EXCEPT ![i].archived = TRUE, ![i].version = @ + 1]
             /\ case' = [case EXCEPT !.version = @ + 1]
             /\ touched' = touched + 1 /\ UNCHANGED <<required, ro>>
    <3>1. PICK i \in DOMAIN docs : docs' = [docs EXCEPT ![i].archived = TRUE, ![i].version = @ + 1]
      BY <2>1
    <3>0. i \in 1 .. Len(docs)
      BY <1>0
    <3> DEFINE D == [docs EXCEPT ![i].archived = TRUE]
    <3>2. docs' = [D EXCEPT ![i].version = @ + 1]
      BY <3>1
    <3>3. \A E \in Seq(Document) : i \in 1 .. Len(E) =>
             \A d \in Document : [E EXCEPT ![i] = d] \in Seq(Document)
                                 /\ Len([E EXCEPT ![i] = d]) = Len(E)
      OBVIOUS
    <3>4. D \in Seq(Document) /\ Len(D) = Len(docs)
      <4>0. docs[i] \in Document
        BY <1>0, <3>0
      <4>1. [docs[i] EXCEPT !.archived = TRUE] \in Document
        BY <4>0 DEF Document
      <4>2. D = [docs EXCEPT ![i] = [docs[i] EXCEPT !.archived = TRUE]]
        BY Zenon
      <4> QED
        BY <1>0, <3>0, <3>3, <4>1, <4>2
    <3> HIDE DEF D
    <3>5. docs' \in Seq(Document)
      <4>0. D[i] \in Document
        BY <3>0, <3>4
      <4>1. [D[i] EXCEPT !.version = @ + 1] \in Document
        BY <4>0 DEF Document
      <4>2. docs' = [D EXCEPT ![i] = [D[i] EXCEPT !.version = @ + 1]]
        BY <3>2, Zenon
      <4> QED
        BY <3>0, <3>3, <3>4, <4>1, <4>2
    <3>6. case' \in CaseForm /\ case'.version = case.version + 1 /\ case.version \in Nat
          /\ touched' = touched + 1 /\ required' = required /\ ro' = ro
      BY <1>0, <2>1 DEF CaseForm
    <3> QED
      BY <1>0, <1>1, <3>5, <3>6 DEF StateTyped, Onward, CaseForm, OrderForm
  <2>2. CASE /\ case' = [version |-> case.version + 1, state |-> "open"]
             /\ touched' = touched + 1 /\ UNCHANGED <<required, docs, ro>>
    BY <1>0, <1>1, <2>2 DEF StateTyped, Onward, CaseForm, OrderForm
  <2>3. CASE \E cal \in Needed \ required :
                required' = required \cup {cal} /\ UNCHANGED <<case, docs, ro, touched>>
    <3>1. required' \in SUBSET Needed /\ case' = case /\ docs' = docs /\ ro' = ro
          /\ touched' = touched
      BY <1>0, <2>3
    <3>2. case.version \in Nat /\ ro.version \in Nat
      BY <1>0 DEF CaseForm, OrderForm
    <3> QED
      BY <1>0, <1>1, <3>1, <3>2 DEF StateTyped, Onward, CaseForm, OrderForm
  <2>4. CASE \E v \in Vins : /\ ro.vin = None /\ ro' = [version |-> ro.version + 1, vin |-> v]
                             /\ UNCHANGED <<case, required, docs, touched>>
    <3>1. PICK v \in Vins : ro' = [version |-> ro.version + 1, vin |-> v]
      BY <2>4
    <3>2. case' = case /\ required' = required /\ docs' = docs /\ touched' = touched
      BY <2>4
    <3>3. ro' \in OrderForm /\ ro'.version = ro.version + 1 /\ ro.version \in Nat
          /\ case.version \in Nat
      BY <1>0, <3>1 DEF OrderForm, CaseForm
    <3> QED
      BY <1>0, <1>1, <3>2, <3>3 DEF StateTyped, Onward, CaseForm, OrderForm
  <2> QED
    BY <2>1, <2>2, <2>3, <2>4, Zenon DEF Ciq!Others
<1>3. CallsKept' /\ \A d \in wire : BatchKept(d, calls[d.call])'
  BY <1>1, <1>2, RestStays
<1>4. WireKept'
  BY <1>1, <1>3 DEF OInv, WireKept
<1>5. Keyed'
  <2>1. \A m, a : TookOf(m, a)' = TookOf(m, a) /\ KeysOf(m, a)' = KeysOf(m, a)
    BY <1>1 DEF TookOf, KeysOf
  <2> QED
    BY <1>1, <2>1 DEF OInv, Keyed
<1>6. Ciq!OnWhatWasRead'
  BY <1>1 DEF OInv, Ciq!OnWhatWasRead
<1> QED
  BY <1>2, <1>3, <1>4, <1>5, <1>6 DEF OInv

(* A new key and a new effect are counted alike. *)
LEMMA KeyedMoves ==
    ASSUME OInv, calls' = calls, NEW c \in Calls, NEW n \in DOMAIN calls[c].plan,
           NEW e \in EffectForm, e.of = Message[c], e.action = calls[c].plan[n],
           NEW key, key = KeyOf(Message[c], calls[c].plan, n), key \notin done,
           done' = done \cup {key}, effects' = Append(effects, e)
    PROVE  Keyed'
<1>1. effects \in Seq(EffectForm) /\ IsFiniteSet(done) /\ Len(effects) \in Nat
  BY DEF OInv, Keyed
<1>2. /\ effects' \in Seq(EffectForm) /\ Len(effects') = Len(effects) + 1
      /\ \A k \in 1 .. Len(effects) : effects'[k] = effects[k]
      /\ effects'[Len(effects) + 1] = e
  BY <1>1
<1>3. IsFiniteSet(done')
  BY <1>1, FS_AddElement
<1>4. key.of = e.of /\ key.action = e.action
  BY DEF KeyOf
<1>5. ASSUME NEW m, NEW a PROVE Cardinality(TookOf(m, a)') = Cardinality(KeysOf(m, a)')
  <2>0. Cardinality(TookOf(m, a)) = Cardinality(KeysOf(m, a))
    BY DEF OInv, Keyed
  <2>1. IsFiniteSet(TookOf(m, a)) /\ IsFiniteSet(KeysOf(m, a))
    <3>0. IsFiniteSet(1 .. Len(effects))
      <4>1. \A k \in Nat : IsFiniteSet(1 .. k)
        BY FS_Interval
      <4> QED
        BY <1>1, <4>1
    <3>1. TookOf(m, a) \subseteq 1 .. Len(effects)
      BY <1>1 DEF TookOf
    <3>2. KeysOf(m, a) \subseteq done
      BY DEF KeysOf
    <3> QED
      BY <1>1, <3>0, <3>1, <3>2, FS_Subset
  <2>2. CASE e.of = m /\ e.action = a
    <3>1. TookOf(m, a)' = TookOf(m, a) \cup {Len(effects) + 1} /\ Len(effects) + 1 \notin TookOf(m, a)
      BY <1>1, <1>2, <2>2 DEF TookOf
    <3>2. KeysOf(m, a)' = KeysOf(m, a) \cup {key} /\ key \notin KeysOf(m, a)
      BY <1>4, <2>2 DEF KeysOf
    <3>3. Cardinality(TookOf(m, a) \cup {Len(effects) + 1}) = Cardinality(TookOf(m, a)) + 1
      BY <2>1, <3>1, FS_AddElement
    <3>4. Cardinality(KeysOf(m, a) \cup {key}) = Cardinality(KeysOf(m, a)) + 1
      BY <2>1, <3>2, FS_AddElement
    <3> QED
      BY <2>0, <3>1, <3>2, <3>3, <3>4
  <2>3. CASE ~(e.of = m /\ e.action = a)
    <3>1. TookOf(m, a)' = TookOf(m, a)
      BY <1>1, <1>2, <2>3 DEF TookOf
    <3>2. KeysOf(m, a)' = KeysOf(m, a)
      BY <1>4, <2>3 DEF KeysOf
    <3> QED
      BY <2>0, <3>1, <3>2
  <2> QED
    BY <2>2, <2>3
<1>6. \A d \in done' : \E f \in Calls : \E k \in DOMAIN calls[f].plan :
                           d = KeyOf(Message[f], calls[f].plan, k)
  BY DEF OInv, Keyed
<1>7. \A m, a : Cardinality(TookOf(m, a))' = Cardinality(KeysOf(m, a))'
  BY <1>5
<1> QED
  BY <1>2, <1>3, <1>6, <1>7 DEF Keyed

\* An answer to the next action of a batch.
Goes(b, x, ok, known) ==
    [b EXCEPT !.next = @ + 1, !.oks = IF ok THEN @ + 1 ELSE @,
              !.replays = IF known THEN @ + 1 ELSE @,
              !.on = b.next < Len(x.plan) /\ (ok \/ b.goes_on)]

\* What the answer makes of a batch.
Counted(b, x, ok, known, g) ==
    /\ g \in BatchForm /\ g.call = b.call /\ g.next = b.next + 1
    /\ g.oks = (IF ok THEN b.oks + 1 ELSE b.oks)
    /\ g.replays = (IF known THEN b.replays + 1 ELSE b.replays)
    /\ g.on <=> (b.next < Len(x.plan) /\ (ok \/ b.goes_on))
    /\ g.goes_on = b.goes_on

(* The answer is counted, and the batch goes on or stops. *)
LEMMA GoesFact ==
    ASSUME NEW b \in BatchForm, NEW x \in CallForm, NEW ok \in BOOLEAN, NEW known \in BOOLEAN,
           NEW g, g = Goes(b, x, ok, known)
    PROVE  Counted(b, x, ok, known, g)
<1> DEFINE next == b.next + 1
           oks == IF ok THEN b.oks + 1 ELSE b.oks
           replays == IF known THEN b.replays + 1 ELSE b.replays
           on == b.next < Len(x.plan) /\ (ok \/ b.goes_on)
<1>1. next \in Nat \ {0} /\ oks \in Nat /\ replays \in Nat /\ on \in BOOLEAN
  BY DEF BatchForm
<1>2. g = [b EXCEPT !.next = next, !.oks = oks, !.replays = replays, !.on = on]
  BY Zenon DEF Goes
<1> HIDE DEF next, oks, replays, on
<1>3. /\ g \in BatchForm /\ g.call = b.call /\ g.next = next /\ g.oks = oks
      /\ g.replays = replays /\ g.on = on /\ g.goes_on = b.goes_on
  BY <1>1, <1>2 DEF BatchForm
<1> QED
  BY <1>3 DEF next, oks, replays, on, Counted

(* What serves the next action of a batch. *)
LEMMA ServeIs ==
    ASSUME OInv, Ciq!Serve
    PROVE  \E b \in wire : LET x == calls[b.call]  a == x.plan[b.next]
                               key == KeyOf(Message[b.call], x.plan, b.next) IN
              /\ b.on /\ calls' = calls /\ touched' = touched
              /\ \/ /\ key \in done /\ wire' = (wire \ {b}) \cup {Goes(b, x, TRUE, TRUE)}
                    /\ UNCHANGED Ciq!ciq
                 \/ /\ key \notin done /\ Ciq!Fits(a) /\ Ciq!Performs(a)
                    /\ done' = done \cup {key} /\ effects' = Append(effects, Ciq!Effect(b, a))
                    /\ wire' = (wire \ {b}) \cup {Goes(b, x, TRUE, FALSE)}
                    /\ required' = required
                 \/ /\ key \notin done /\ wire' = (wire \ {b}) \cup {Goes(b, x, FALSE, FALSE)}
                    /\ UNCHANGED Ciq!ciq
<1>1. PICK b \in wire :
         LET c == b.call
             a == calls[c].plan[b.next]
             key == Ciq!_stable_action_ids(c, b.next)
             goes(ok) == [b EXCEPT !.next = @ + 1,
                             !.oks = IF ok THEN @ + 1 ELSE @,
                             !.replays = IF key \in done THEN @ + 1 ELSE @,
                             !.on = b.next < Len(calls[c].plan) /\ (ok \/ b.goes_on)]
         IN  /\ b.on
             /\ \/ /\ key \in done
                   /\ wire' = (wire \ {b}) \cup {goes(TRUE)}
                   /\ UNCHANGED Ciq!ciq
                \/ /\ key \notin done /\ Ciq!Fits(a)
                   /\ Ciq!Performs(a)
                   /\ done' = done \cup {key} /\ effects' = Append(effects, Ciq!Effect(b, a))
                   /\ wire' = (wire \ {b}) \cup {goes(TRUE)}
                   /\ UNCHANGED required
                \/ /\ key \notin done
                   /\ wire' = (wire \ {b}) \cup {goes(FALSE)}
                   /\ UNCHANGED Ciq!ciq
             /\ UNCHANGED <<calls, touched>>
  BY Zenon DEF Ciq!Serve
<1> DEFINE x == calls[b.call]  key == Ciq!_stable_action_ids(b.call, b.next)
<1>2. key = KeyOf(Message[b.call], x.plan, b.next)
  BY KeyIs
<1>3. \/ /\ key \in done /\ wire' = (wire \ {b}) \cup {Goes(b, x, TRUE, key \in done)}
         /\ UNCHANGED Ciq!ciq
      \/ /\ key \notin done /\ Ciq!Fits(x.plan[b.next]) /\ Ciq!Performs(x.plan[b.next])
         /\ done' = done \cup {key} /\ effects' = Append(effects, Ciq!Effect(b, x.plan[b.next]))
         /\ wire' = (wire \ {b}) \cup {Goes(b, x, TRUE, key \in done)}
         /\ UNCHANGED required
      \/ /\ key \notin done /\ wire' = (wire \ {b}) \cup {Goes(b, x, FALSE, key \in done)}
         /\ UNCHANGED Ciq!ciq
  BY <1>1, Zenon DEF Goes
<1>4. b.on /\ calls' = calls /\ touched' = touched
  BY <1>1
<1>5. (key \in done) = TRUE \/ (key \in done) = FALSE
  OBVIOUS
<1> HIDE DEF key
<1> QED
  BY <1>2, <1>3, <1>4, <1>5

(* What a batch under way is. *)
LEMMA UnderWay ==
    ASSUME OInv, NEW b \in wire, b.on
    PROVE  LET x == calls[b.call] IN
           /\ b \in BatchForm /\ b.call \in Calls /\ BatchKept(b, x) /\ CallKept(b.call, x)
           /\ x \in CallForm /\ b.next \in 1 .. Len(x.plan) /\ x.plan \in Seq(Action)
           /\ x.plan[b.next] \in Action /\ Since(x.snap) /\ Snapped(x.snap) /\ Len(x.plan) \in Nat
           /\ Planned(Kind[b.call], x.snap, x.plan, x.contested)
<1> DEFINE x == calls[b.call]
<1>1. b \in BatchForm /\ b.call \in Calls /\ BatchKept(b, x)
  BY DEF OInv, WireKept, BatchForm
<1>2. CallKept(b.call, x) /\ x \in CallForm
  BY <1>1 DEF OInv, CallsKept
<1>3. x.plan \in Seq(Action) /\ Len(x.plan) \in Nat
  BY <1>2 DEF CallForm
<1>4. b.next \in 1 .. Len(x.plan)
  BY <1>1, <1>3 DEF BatchForm, BatchKept
<1>5. x.plan # <<>>
  BY <1>1 DEF BatchKept
<1>6. Since(x.snap) /\ Planned(Kind[b.call], x.snap, x.plan, x.contested)
  BY <1>2, <1>5 DEF CallKept
<1>7. Snapped(x.snap)
  BY <1>6 DEF Since, ReadForm, CaseForm, OrderForm, Snapped
<1>8. x.plan[b.next] \in Action
  BY <1>3, <1>4
<1> QED
  BY <1>1, <1>2, <1>3, <1>4, <1>6, <1>7, <1>8

(* An action that took effect before, or fails, changes nothing. *)
LEMMA AnsweredKeeps ==
    ASSUME OInv, NEW b \in wire, b.on, calls' = calls, touched' = touched, UNCHANGED Ciq!ciq,
           NEW x, x = calls[b.call], NEW ok \in BOOLEAN, NEW g, g = Goes(b, x, ok, ok),
           wire' = (wire \ {b}) \cup {g},
           ok = (KeyOf(Message[b.call], x.plan, b.next) \in done)
    PROVE  OInv'
<1>0. /\ case' = case /\ required' = required /\ docs' = docs /\ ro' = ro /\ done' = done
      /\ effects' = effects
  BY DEF Ciq!ciq
<1>1. /\ b \in BatchForm /\ b.call \in Calls /\ BatchKept(b, x)
      /\ x \in CallForm /\ b.next \in 1 .. Len(x.plan) /\ Len(x.plan) \in Nat
  BY UnderWay
<1>2. Counted(b, x, ok, ok, g)
  BY <1>1, GoesFact
<1>3. StateTyped' /\ Onward
  BY <1>0 DEF OInv, StateTyped, Onward
<1>4. b.oks \in Nat /\ b.next \in Nat /\ b.replays \in Nat /\ b.goes_on \in BOOLEAN
  BY <1>1 DEF BatchForm
<1>5. BatchKept(g, x)
  <2>1. /\ x.at \in Sent /\ x.plan # <<>> /\ b.next <= Len(x.plan) + 1 /\ b.oks <= b.next - 1
    BY <1>1 DEF BatchKept
  <2>0. /\ g.next <= Len(x.plan) + 1 /\ (g.on => g.next <= Len(x.plan)) /\ g.oks <= g.next - 1
    <3>1. g.next = b.next + 1 /\ g.oks = (IF ok THEN b.oks + 1 ELSE b.oks)
          /\ (g.on => b.next < Len(x.plan))
      BY ONLY <1>2 DEF Counted
    <3>2. b.next \in 1 .. Len(x.plan) /\ Len(x.plan) \in Nat /\ b.oks \in Nat /\ b.next \in Nat
      BY <1>1, <1>4
    <3>3. g.next <= Len(x.plan) + 1 /\ (g.on => g.next <= Len(x.plan))
      BY ONLY <3>1, <3>2
    <3>4. g.oks <= g.next - 1
      BY ONLY <2>1, <3>1, <3>2
    <3> QED
      BY <3>3, <3>4
  <2>2. g.oks = g.next - 1 => AllDone(Message[g.call], x.plan, g.next - 1)
    <3>1. CASE ok
      <4>1. g.oks = g.next - 1 => b.oks = b.next - 1
        BY <1>2, <1>4, <3>1 DEF Counted
      <4>2. KeyOf(Message[b.call], x.plan, b.next) \in done
        BY <3>1
      <4>3. b.oks = b.next - 1 => AllDone(Message[b.call], x.plan, b.next - 1)
        BY <1>1 DEF BatchKept
      <4>4. \A k \in 1 .. b.next : k = b.next \/ k \in 1 .. b.next - 1
        BY <1>4
      <4> QED
        BY <1>2, <1>4, <4>1, <4>2, <4>3, <4>4 DEF AllDone, Counted
    <3>2. CASE ~ok
      <4>1. b.oks <= b.next - 1
        BY <1>1 DEF BatchKept
      <4>2. g.oks # g.next - 1
        BY <1>2, <1>4, <3>2, <4>1 DEF Counted
      <4> QED
        BY <4>2
    <3> QED
      BY <3>1, <3>2
  <2>3. Kind[g.call] = "research" => ~g.goes_on /\ ~(g.on /\ g.replays = 0)
    BY <1>1, <1>2, <1>4 DEF BatchKept, Counted
  <2> QED
    BY <2>0, <2>1, <2>2, <2>3 DEF BatchKept
<1>6. BatchKept(g, x)'
  <2>1. Since(x.snap)
    BY UnderWay
  <2>2. StateTyped
    BY DEF OInv
  <2>3. \A y : BatchKept(g, y) /\ Since(y.snap) => BatchKept(g, y)'
    BY <1>2, <1>3, <2>2, BatchStays DEF Counted
  <2> QED
    BY <1>5, <2>1, <2>3
<1>7. CallsKept' /\ WireKept'
  <2>1. x = calls[g.call] /\ g \in BatchForm
    BY <1>2 DEF Counted
  <2> QED
    BY <1>3, <1>6, <2>1, BatchMoves
<1>8. Keyed'
  <2>1. \A m, a : TookOf(m, a)' = TookOf(m, a) /\ KeysOf(m, a)' = KeysOf(m, a)
    BY <1>0 DEF TookOf, KeysOf
  <2> QED
    BY <1>0, <2>1 DEF OInv, Keyed
<1>9. Ciq!OnWhatWasRead'
  BY <1>0 DEF OInv, Ciq!OnWhatWasRead
<1> QED
  BY <1>3, <1>7, <1>8, <1>9 DEF OInv

\* What an effect tells.
Explained(b, a, e) ==
    /\ e \in EffectForm /\ e.of = Message[b.call] /\ e.action = a /\ ~e.overwrote
    /\ a.op = "complete" => (e.touched = 0 /\ e.bare = {}) \/ e.replays > 0

(* The effect of an action says what it was: the VIN was not set, and a completion was on
   the case that was read, with the evidence for it. *)
LEMMA EffectIs ==
    ASSUME OInv, NEW b \in wire, b.on, NEW a, a = calls[b.call].plan[b.next], Ciq!Fits(a)
    PROVE  Explained(b, a, Ciq!Effect(b, a))
<1> SUFFICES ASSUME NEW x, x = calls[b.call], NEW e, e = Ciq!Effect(b, a)
             PROVE  Explained(b, a, e)
  OBVIOUS
<1>1. /\ b \in BatchForm /\ b.call \in Calls /\ BatchKept(b, x)
      /\ x \in CallForm /\ b.next \in 1 .. Len(x.plan) /\ Len(x.plan) \in Nat
      /\ x.plan \in Seq(Action) /\ a \in Action /\ Since(x.snap) /\ Snapped(x.snap)
      /\ Planned(Kind[b.call], x.snap, x.plan, x.contested)
  BY UnderWay
<1> DEFINE t == touched - x.snap.touched
           over == a.op = "vin" /\ ro.vin # None
           bare == {cal \in x.snap.required : ~Ciq!Evidence(cal)} \ x.contested
           cont == {cal \in x.snap.required : ~Ciq!Evidence(cal)} \cap x.contested
<1>2. e = [of |-> Message[b.call], action |-> a, touched |-> t, replays |-> b.replays,
           overwrote |-> over, bare |-> bare, contested |-> cont]
  BY Zenon DEF Ciq!Effect
<1>3. x.snap.touched \in Nat /\ touched \in Nat /\ x.snap.touched <= touched
      /\ x.snap.required \in SUBSET Needed /\ x.snap.case.version \in Nat /\ case.version \in Nat
      /\ docs \in Seq(Document) /\ ro.version \in Nat \ {0}
  BY <1>1 DEF Since, ReadForm, CaseForm, OInv, StateTyped
<1>4. t \in Nat /\ over \in BOOLEAN /\ bare \in SUBSET Needed /\ cont \in SUBSET Needed
      /\ b.replays \in Nat
  <2>1. t \in Nat
    BY ONLY <1>3
  <2>2. over \in BOOLEAN
    BY Zenon
  <2>3. bare \in SUBSET Needed /\ cont \in SUBSET Needed
    BY ONLY <1>3
  <2>4. b.replays \in Nat
    BY <1>1 DEF BatchForm
  <2> QED
    BY ONLY <2>1, <2>2, <2>3, <2>4
<1>5. ~over
  <2>1. CASE Kind[b.call] = "research"
    <3>1. b.next \in DOMAIN x.plan /\ a = x.plan[b.next]
      BY <1>1
    <3>2. Thorough(x.snap, x.plan, x.contested)
      BY <1>1, <2>1 DEF Planned
    <3>3. a.op # "vin"
      BY ONLY <3>1, <3>2 DEF Thorough
    <3> QED
      BY <3>3
  <2>2. CASE Kind[b.call] = "note"
    BY <1>1, <2>2 DEF Planned
  <2>3. CASE Kind[b.call] = "vin"
    <3>1. Len(x.plan) = 1 /\ x.plan[1].op = "vin" /\ x.plan[1].version = x.snap.ro.version
          /\ x.snap.ro.vin = None
      BY <1>1, <2>3 DEF Planned
    <3>2. a = x.plan[1]
      BY <1>1, <3>1
    <3>3. a.version \in {0, ro.version}
      BY <3>1, <3>2, FitsFact
    <3>4. x.snap.ro.version \in Nat \ {0}
      BY <1>1 DEF Since, ReadForm, OrderForm
    <3>5. ro.version = x.snap.ro.version
      BY <3>1, <3>2, <3>3, <3>4
    <3> QED
      BY <1>1, <3>1, <3>5 DEF Since
  <2> QED
    BY <1>1, <2>1, <2>2, <2>3 DEF Planned
<1>6. ASSUME a.op = "complete", b.replays = 0
      PROVE  t = 0 /\ bare = {}
  <2>1. Kind[b.call] = "research"
    BY <1>1, <1>6 DEF Planned
  <2>2. Thorough(x.snap, x.plan, x.contested)
    BY <1>1, <2>1 DEF Planned
  <2>3. b.next = Len(x.plan) /\ a.version = x.snap.case.version + b.next - 1
    <3>1. b.next \in DOMAIN x.plan /\ x.plan[b.next] = a /\ a.op = "complete"
      BY <1>1, <1>6
    <3> QED
      BY ONLY <2>2, <3>1 DEF Thorough
  <2>4. case.version = a.version
    BY <1>6, FitsFact
  <2>5. /\ x.snap.case.version + (b.next - 1) + t <= case.version
        /\ case.version = x.snap.case.version + (b.next - 1) =>
              After(x.snap, x.plan, b.next - 1, docs)
    BY <1>1, <1>6, <2>1 DEF BatchKept, Followed
  <2>6. b.next \in Nat
    BY <1>1
  <2>7. t = 0 /\ case.version = x.snap.case.version + (b.next - 1)
    <3> HIDE DEF t
    <3> QED
      BY ONLY <1>3, <1>4, <2>3, <2>4, <2>5, <2>6
  <2>8. After(x.snap, x.plan, Len(x.plan) - 1, docs) /\ Len(x.plan) > 0
        /\ x.plan[Len(x.plan)].op = "complete"
    <3>1. b.next = Len(x.plan) /\ Len(x.plan) \in Nat /\ Len(x.plan) > 0
      BY <1>1, <2>3
    <3>2. x.plan[Len(x.plan)].op = "complete"
      BY <1>1, <1>6, <2>3
    <3>3. After(x.snap, x.plan, b.next - 1, docs)
      BY ONLY <2>5, <2>7
    <3> QED
      BY ONLY <3>1, <3>2, <3>3
  <2>9. \A cal \in x.snap.required \ x.contested : Ciq!Evidence(cal)
    BY <1>1, <1>3, <2>2, <2>8, EvidenceThen
  <2> QED
    BY <2>7, <2>9
<1> HIDE DEF t, over, bare, cont
<1>7. e \in EffectForm /\ e.of = Message[b.call] /\ e.action = a /\ (e.overwrote <=> over)
      /\ e.touched = t /\ e.bare = bare /\ e.replays = b.replays
  BY <1>1, <1>2, <1>4 DEF EffectForm
<1>8. a.op = "complete" => (t = 0 /\ bare = {}) \/ b.replays > 0
  BY <1>4, <1>6
<1> QED
  BY <1>5, <1>7, <1>8 DEF Explained

(* An action takes effect. *)
LEMMA PerformedKeeps ==
    ASSUME OInv, NEW b \in wire, b.on, calls' = calls, touched' = touched, required' = required,
           NEW x, x = calls[b.call], NEW a, a = x.plan[b.next],
           NEW key, key = KeyOf(Message[b.call], x.plan, b.next), key \notin done,
           Ciq!Fits(a), Ciq!Performs(a), done' = done \cup {key},
           NEW e, e = Ciq!Effect(b, a), effects' = Append(effects, e),
           NEW g, g = Goes(b, x, TRUE, FALSE), wire' = (wire \ {b}) \cup {g}
    PROVE  OInv'
<1>1. /\ b \in BatchForm /\ b.call \in Calls /\ BatchKept(b, x)
      /\ x \in CallForm /\ b.next \in 1 .. Len(x.plan) /\ Len(x.plan) \in Nat
      /\ x.plan \in Seq(Action) /\ a \in Action /\ Since(x.snap) /\ Snapped(x.snap)
      /\ Planned(Kind[b.call], x.snap, x.plan, x.contested)
  BY UnderWay
<1>2. /\ g \in BatchForm /\ g.call = b.call /\ g.next = b.next + 1 /\ g.oks = b.oks + 1
      /\ g.replays = b.replays /\ (g.on => b.next < Len(x.plan)) /\ g.goes_on = b.goes_on
  <2>1. Counted(b, x, TRUE, FALSE, g)
    BY <1>1, GoesFact
  <2> QED
    BY ONLY <2>1 DEF Counted
<1>0. a = x.plan[b.next] /\ touched' = touched /\ b.on
  OBVIOUS
<1>3. StateTyped
  BY DEF OInv
<1>4. /\ Wrote(a, docs, docs')
      /\ case' \in CaseForm
      /\ IF a.op \in {"vin", "note"} THEN case' = case /\ docs' = docs
         ELSE case'.version = case.version + 1
      /\ IF a.op = "vin" THEN ro' = [version |-> ro.version + 1, vin |-> a.vin] ELSE ro' = ro
      /\ ro' \in OrderForm
  BY <1>1, <1>3, PerformsFact DEF CaseForm, OrderForm
<1>5. StateTyped'
  BY <1>3, <1>4 DEF StateTyped, CaseForm, OrderForm, Wrote
<1>6. Onward
  <2>1. touched' = touched /\ touched \in Nat /\ case.version \in Nat /\ ro.version \in Nat
    BY <1>3 DEF StateTyped
  <2>2. case.version + (touched' - touched) <= case'.version
        /\ (case.version = case'.version => docs' = docs)
    BY ONLY <1>4, <2>1
  <2>3. ro.version <= ro'.version /\ (ro.version = ro'.version => ro'.vin = ro.vin)
    BY ONLY <1>4, <2>1
  <2> QED
    BY <2>1, <2>2, <2>3 DEF Onward
<1>7. /\ b.oks \in Nat /\ b.next \in Nat /\ b.replays \in Nat /\ b.goes_on \in BOOLEAN
      /\ b.next - 1 \in Nat
  BY <1>1 DEF BatchForm
<1>8. BatchKept(g, x)'
  <2>1. /\ x.at \in Sent /\ x.plan # <<>> /\ b.next <= Len(x.plan) + 1 /\ b.oks <= b.next - 1
    BY <1>1 DEF BatchKept
  <2>2. /\ g.next <= Len(x.plan) + 1 /\ (g.on => g.next <= Len(x.plan)) /\ g.oks <= g.next - 1
    BY ONLY <1>1, <1>2, <1>7, <2>1
  <2>3. g.oks = g.next - 1 => AllDone(Message[g.call], x.plan, g.next - 1)'
    <3>1. g.oks = g.next - 1 => b.oks = b.next - 1
      BY ONLY <1>2, <1>7
    <3>2. b.oks = b.next - 1 => AllDone(Message[b.call], x.plan, b.next - 1)
      BY <1>1 DEF BatchKept
    <3>3. \A k \in 1 .. b.next : k = b.next \/ k \in 1 .. b.next - 1
      BY <1>7
    <3>4. g.next - 1 = b.next /\ g.call = b.call
      BY ONLY <1>2, <1>7
    <3> QED
      BY <3>1, <3>2, <3>3, <3>4 DEF AllDone
  <2>4. Kind[g.call] = "research" => ~g.goes_on
    BY <1>1, <1>2 DEF BatchKept
  <2>5. ASSUME Kind[b.call] = "research", b.replays = 0
        PROVE  Followed(x.snap, x.plan, b.next)'
    <3>1. Followed(x.snap, x.plan, b.next - 1) /\ Thorough(x.snap, x.plan, x.contested)
      BY <1>1, <2>5 DEF BatchKept, Planned
    <3>2. a.op \notin {"vin", "note"}
      BY ONLY <1>0, <1>1, <3>1 DEF Thorough
    <3>3. case'.version = case.version + 1
      BY <1>4, <3>2
    <3>4. /\ x.snap.touched \in Nat /\ x.snap.case.version \in Nat /\ case.version \in Nat
          /\ touched \in Nat /\ docs \in Seq(Document)
      BY <1>1, <1>3 DEF Since, ReadForm, CaseForm, StateTyped
    <3>5. x.snap.case.version + (b.next - 1) + (touched - x.snap.touched) <= case.version
          /\ (case.version = x.snap.case.version + (b.next - 1) =>
                 After(x.snap, x.plan, b.next - 1, docs))
      BY <3>1 DEF Followed
    <3>6. x.snap.case.version + b.next + (touched' - x.snap.touched) <= case'.version
      <4>1. \A n, t, u, v, w \in Nat : v + (n - 1) + (t - u) <= w => v + n + (t - u) <= w + 1
        OBVIOUS
      <4>2. x.snap.case.version + (b.next - 1) + (touched - x.snap.touched) <= case.version
        BY ONLY <3>5
      <4>3. x.snap.case.version + b.next + (touched - x.snap.touched) <= case.version + 1
        BY ONLY <1>7, <3>4, <4>1, <4>2
      <4> QED
        BY ONLY <1>0, <3>3, <4>3
    <3>7. ASSUME case'.version = x.snap.case.version + b.next
          PROVE  After(x.snap, x.plan, b.next, docs')
      <4>0. case.version + 1 = x.snap.case.version + b.next
        BY ONLY <3>3, <3>7
      <4>1. case.version = x.snap.case.version + (b.next - 1)
        <5>1. \A n, v, w \in Nat : w + 1 = v + n => w = v + (n - 1)
          OBVIOUS
        <5>2. b.next \in Nat /\ x.snap.case.version \in Nat /\ case.version \in Nat
          BY ONLY <1>7, <3>4
        <5> QED
          BY ONLY <4>0, <5>1, <5>2, Zenon
      <4>2. After(x.snap, x.plan, b.next - 1, docs)
        BY <3>5, <4>1
      <4>3. a.op \in {"update", "link"} => ~docs[a.target].archived
        BY FitsFact
      <4> QED
        BY <1>1, <1>4, <3>1, <3>4, <4>2, <4>3, AfterNext
    <3> QED
      BY <3>6, <3>7 DEF Followed
  <2>6. Kind[g.call] = "research" /\ g.on /\ g.replays = 0 => Followed(x.snap, x.plan, g.next - 1)'
    <3>1. g.next - 1 = b.next /\ g.call = b.call /\ g.replays = b.replays
      BY ONLY <1>2, <1>7
    <3> QED
      BY <2>5, <3>1
  <2> QED
    BY <2>1, <2>2, <2>3, <2>4, <2>6 DEF BatchKept
<1>9. CallsKept' /\ WireKept'
  <2>1. x = calls[g.call] /\ g \in BatchForm
    BY <1>2
  <2> QED
    BY <1>5, <1>6, <1>8, <2>1, BatchMoves
<1>10. /\ e \in EffectForm /\ e.of = Message[b.call] /\ e.action = a /\ ~e.overwrote
       /\ a.op = "complete" => (e.touched = 0 /\ e.bare = {}) \/ e.replays > 0
  <2>1. OInv /\ b \in wire /\ b.on /\ a = calls[b.call].plan[b.next] /\ Ciq!Fits(a)
    OBVIOUS
  <2>2. Explained(b, a, Ciq!Effect(b, a))
    BY ONLY <2>1, EffectIs
  <2>3. Explained(b, a, e)
    BY <2>2
  <2> QED
    BY ONLY <2>3 DEF Explained
<1>11. Keyed'
  <2>1. b.next \in DOMAIN calls[b.call].plan
    BY <1>1
  <2> QED
    <3>1. /\ OInv /\ calls' = calls /\ b.call \in Calls /\ e \in EffectForm /\ e.of = Message[b.call]
          /\ e.action = calls[b.call].plan[b.next] /\ key \notin done
          /\ key = KeyOf(Message[b.call], calls[b.call].plan, b.next)
          /\ done' = done \cup {key} /\ effects' = Append(effects, e)
      BY <1>1, <1>10
    <3> QED
      BY ONLY <2>1, <3>1, KeyedMoves
<1>12. Ciq!OnWhatWasRead'
  <2>1. effects \in Seq(EffectForm) /\ Len(effects) \in Nat
    BY DEF OInv, Keyed
  <2>2. /\ DOMAIN effects' = 1 .. Len(effects) + 1 /\ DOMAIN effects = 1 .. Len(effects)
        /\ \A k \in 1 .. Len(effects) : effects'[k] = effects[k]
        /\ effects'[Len(effects) + 1] = e
    <3>1. effects' = Append(effects, e) /\ e \in EffectForm
      BY <1>10
    <3> QED
      BY ONLY <2>1, <3>1
  <2>3. \A k \in 1 .. Len(effects) + 1 : k \in 1 .. Len(effects) \/ k = Len(effects) + 1
    BY <2>1
  <2> QED
    <3>1. Ciq!OnWhatWasRead
      BY DEF OInv
    <3> QED
      BY ONLY <1>10, <2>2, <2>3, <3>1 DEF Ciq!OnWhatWasRead
<1> QED
  BY <1>5, <1>9, <1>11, <1>12 DEF OInv

(* Calibration IQ serves the next action of a batch. *)
LEMMA ServeKeeps ==
    ASSUME OInv, Ciq!Serve
    PROVE  OInv'
<1>1. PICK b \in wire : LET x == calls[b.call]  a == x.plan[b.next]
                            key == KeyOf(Message[b.call], x.plan, b.next) IN
              /\ b.on /\ calls' = calls /\ touched' = touched
              /\ \/ /\ key \in done /\ wire' = (wire \ {b}) \cup {Goes(b, x, TRUE, TRUE)}
                    /\ UNCHANGED Ciq!ciq
                 \/ /\ key \notin done /\ Ciq!Fits(a) /\ Ciq!Performs(a)
                    /\ done' = done \cup {key} /\ effects' = Append(effects, Ciq!Effect(b, a))
                    /\ wire' = (wire \ {b}) \cup {Goes(b, x, TRUE, FALSE)}
                    /\ required' = required
                 \/ /\ key \notin done /\ wire' = (wire \ {b}) \cup {Goes(b, x, FALSE, FALSE)}
                    /\ UNCHANGED Ciq!ciq
  BY ServeIs
<1> DEFINE key == KeyOf(Message[b.call], calls[b.call].plan, b.next)
<1>2. CASE key \in done
  <2>1. (key \in done) = TRUE
    BY <1>2
  <2> QED
    BY <1>1, <1>2, <2>1, AnsweredKeeps
<1>3. CASE key \notin done /\ wire' = (wire \ {b}) \cup {Goes(b, calls[b.call], FALSE, FALSE)}
           /\ UNCHANGED Ciq!ciq
  <2>1. (key \in done) = FALSE
    BY <1>3
  <2> QED
    BY <1>1, <1>3, <2>1, AnsweredKeeps
<1>4. CASE /\ key \notin done /\ Ciq!Fits(calls[b.call].plan[b.next])
           /\ Ciq!Performs(calls[b.call].plan[b.next])
           /\ done' = done \cup {key}
           /\ effects' = Append(effects, Ciq!Effect(b, calls[b.call].plan[b.next]))
           /\ wire' = (wire \ {b}) \cup {Goes(b, calls[b.call], TRUE, FALSE)}
           /\ required' = required
  BY <1>1, <1>4, PerformedKeeps
<1> QED
  BY <1>1, <1>2, <1>3, <1>4

(* Every step of the operator keeps what holds of its calls. *)
LEMMA OStep ==
    ASSUME Searched, OInv, Ciq!Next
    PROVE  OInv'
<1>1. CASE Ciq!Serve \/ Ciq!Others
  BY <1>1, ServeKeeps, OthersKeeps
<1>2. ASSUME NEW c \in Calls,
             \/ Ciq!Begin(c) \/ Ciq!Research(c) \/ Ciq!_repair_from_attached_adas_map(c)
             \/ Ciq!Notes(c) \/ Ciq!Post(c) \/ Ciq!NoReceipt(c) \/ Ciq!Receipts(c)
             \/ Ciq!Reread(c) \/ Ciq!VerifyVin(c)
      PROVE  OInv'
  BY <1>2, BeginKeeps, ResearchKeeps, RepairKeeps, NotesKeeps, PostKeeps, NoReceiptKeeps,
     ReceiptsKeeps, RereadKeeps, VerifyKeeps
<1> QED
  BY <1>1, <1>2, Zenon DEF Ciq!Next

(* Where nothing moves, it holds as well. *)
LEMMA OStutter ==
    ASSUME OInv, UNCHANGED Ciq!vars
    PROVE  OInv'
<1>1. /\ case' = case /\ required' = required /\ docs' = docs /\ ro' = ro /\ done' = done
      /\ calls' = calls /\ wire' = wire /\ effects' = effects /\ touched' = touched
  BY DEF Ciq!vars
<1>2. StateTyped' /\ Onward
  BY <1>1 DEF OInv, StateTyped, Onward
<1>3. CallsKept' /\ WireKept'
  BY <1>1, <1>2, RestStays DEF OInv, WireKept
<1>4. Keyed'
  <2>1. \A m, a : TookOf(m, a)' = TookOf(m, a) /\ KeysOf(m, a)' = KeysOf(m, a)
    BY <1>1 DEF TookOf, KeysOf
  <2> QED
    BY <1>1, <2>1 DEF OInv, Keyed
<1>5. Ciq!OnWhatWasRead'
  BY <1>1 DEF OInv, Ciq!OnWhatWasRead
<1> QED
  BY <1>2, <1>3, <1>4, <1>5 DEF OInv

(* What was taken is what was keyed. *)
LEMMA TookIs == \A m, a : Ciq!Took(m, a) = Cardinality(TookOf(m, a))
  BY CiqCounts, Zenon DEF Ciq!Took, TookOf

(* An ordinal is at most how often its action was asked for. *)
LEMMA OrdinalBound ==
    ASSUME OInv, NEW c \in Calls, NEW k \in DOMAIN calls[c].plan
    PROVE  LET p == calls[c].plan IN
           /\ KeyOf(Message[c], p, k).ordinal \in 1 .. Ciq!Asked(c, p[k])
           /\ Ciq!Asked(c, p[k]) \in Nat
<1> DEFINE p == calls[c].plan
           S == {j \in 1 .. k : p[j] = p[k]}
           T == {j \in DOMAIN p : p[j] = p[k]}
<1>1. p \in Seq(Action) /\ Len(p) \in Nat /\ k \in 1 .. Len(p) /\ DOMAIN p = 1 .. Len(p)
  BY DEF OInv, CallsKept, CallForm
<1>2. \A n \in Nat : IsFiniteSet(1 .. n)
  BY FS_Interval
<1>3. T \subseteq 1 .. Len(p) /\ IsFiniteSet(1 .. Len(p))
  BY <1>1, <1>2
<1>4. IsFiniteSet(T)
  BY <1>3, FS_Subset
<1>5. S \subseteq T /\ k \in S
  BY <1>1
<1>6. IsFiniteSet(S) /\ Cardinality(S) <= Cardinality(T) /\ Cardinality(S) \in Nat
      /\ Cardinality(T) \in Nat
  BY <1>4, <1>5, FS_Subset, FS_CardinalityType
<1>7. Cardinality(S) # 0
  BY <1>5, <1>6, FS_EmptySet
<1>8. KeyOf(Message[c], p, k).ordinal = Cardinality(S)
  BY DEF KeyOf
<1>9. Ciq!Asked(c, p[k]) = Cardinality(T)
  BY CiqCounts, Zenon DEF Ciq!Asked
<1> HIDE DEF S, T
<1> QED
  BY <1>6, <1>7, <1>8, <1>9

(* An intent takes effect no more often than one attempt asked for it. *)
LEMMA OIntent ==
    ASSUME OInv
    PROVE  Ciq!IntentOnce
<1> SUFFICES ASSUME NEW n \in DOMAIN effects
             PROVE  \E c \in Calls : /\ Message[c] = effects[n].of
                                     /\ Ciq!Took(effects[n].of, effects[n].action)
                                           <= Ciq!Asked(c, effects[n].action)
  BY DEF Ciq!IntentOnce
<1> DEFINE m == effects[n].of  a == effects[n].action  K == KeysOf(m, a)  N == Cardinality(K)
<1>1. IsFiniteSet(K) /\ N \in Nat /\ Ciq!Took(m, a) = N
  <2>1. K \subseteq done /\ IsFiniteSet(done)
    BY DEF KeysOf, OInv, Keyed
  <2>2. Cardinality(TookOf(m, a)) = N
    BY Zenon DEF OInv, Keyed
  <2> QED
    BY <2>1, <2>2, FS_Subset, FS_CardinalityType, TookIs
<1>2. N # 0
  <2>1. n \in TookOf(m, a)
    BY DEF TookOf
  <2>2. TookOf(m, a) \subseteq 1 .. Len(effects) /\ Len(effects) \in Nat
    BY DEF TookOf, OInv, Keyed
  <2>3. \A k \in Nat : IsFiniteSet(1 .. k)
    BY FS_Interval
  <2>4. IsFiniteSet(TookOf(m, a))
    BY <2>2, <2>3, FS_Subset
  <2>5. Cardinality(TookOf(m, a)) # 0
    BY <2>1, <2>4, FS_EmptySet
  <2> QED
    BY <2>5, Zenon DEF OInv, Keyed
<1> SUFFICES ASSUME \A c \in Calls : Message[c] = m => ~(N <= Ciq!Asked(c, a))
             PROVE  FALSE
  BY <1>1
<1>3. \A key \in K : /\ key.ordinal \in 1 .. N - 1
                     /\ key = [of |-> m, action |-> a, ordinal |-> key.ordinal]
  <2> TAKE key \in K
  <2>1. key \in done /\ key.of = m /\ key.action = a
    BY DEF KeysOf
  <2>2. PICK c \in Calls : \E k \in DOMAIN calls[c].plan : key = KeyOf(Message[c], calls[c].plan, k)
    BY <2>1, Zenon DEF OInv, Keyed
  <2>3. PICK k \in DOMAIN calls[c].plan : key = KeyOf(Message[c], calls[c].plan, k)
    BY <2>2, Zenon
  <2>4. Message[c] = m /\ calls[c].plan[k] = a
    BY <2>1, <2>3 DEF KeyOf
  <2>5. key.ordinal \in 1 .. Ciq!Asked(c, a) /\ Ciq!Asked(c, a) \in Nat
    BY <2>3, <2>4, OrdinalBound
  <2>6. ~(N <= Ciq!Asked(c, a))
    BY <2>4
  <2>7. key.ordinal \in 1 .. N - 1
    BY <1>1, <2>5, <2>6
  <2>8. key = [of |-> m, action |-> a, ordinal |-> key.ordinal]
    BY <2>3, <2>4 DEF KeyOf
  <2> QED
    BY <2>7, <2>8
<1>4. Cardinality(1 .. N - 1) = N - 1 /\ IsFiniteSet(1 .. N - 1)
  <2>1. \A k \in Nat : Cardinality(1 .. k) = k /\ IsFiniteSet(1 .. k)
    BY FS_Interval
  <2>2. N - 1 \in Nat
    BY <1>1, <1>2
  <2> QED
    BY <2>1, <2>2
<1> DEFINE f == [key \in K |-> key.ordinal]
<1>5. f \in Injection(K, 1 .. N - 1)
  <2>1. f \in [K -> 1 .. N - 1]
    BY <1>3
  <2>2. ASSUME NEW k1 \in K, NEW k2 \in K, f[k1] = f[k2] PROVE k1 = k2
    BY <1>3, <2>2
  <2> QED
    BY <2>1, <2>2 DEF Injection, IsInjective
<1> HIDE DEF K, f
<1>6. N <= N - 1
  BY <1>4, <1>5, FS_Injection DEF ExistsInjection
<1> QED
  BY <1>1, <1>6

(* A success is that everything took effect. *)
LEMMA OSuccess ==
    ASSUME OInv
    PROVE  Ciq!SuccessIsReal
<1> SUFFICES ASSUME NEW c \in Calls, calls[c].at = "done" /\ calls[c].result = "success"
             PROVE  /\ calls[c].proved
                    /\ \A k \in DOMAIN calls[c].plan :
                          Ciq!Took(Message[c], calls[c].plan[k]) > 0
  BY DEF Ciq!SuccessIsReal
<1>1. /\ calls[c].proved /\ AllDone(Message[c], calls[c].plan, Len(calls[c].plan))
      /\ calls[c].plan \in Seq(Action)
  BY DEF OInv, CallsKept, CallKept, CallForm
<1>2. ASSUME NEW k \in DOMAIN calls[c].plan
      PROVE  Ciq!Took(Message[c], calls[c].plan[k]) > 0
  <2> DEFINE m == Message[c]  a == calls[c].plan[k]  key == KeyOf(m, calls[c].plan, k)
  <2>0. k \in 1 .. Len(calls[c].plan)
    BY <1>1
  <2>1. key \in done /\ key.of = m /\ key.action = a
    <3>1. key \in done
      BY <1>1, <2>0, Zenon DEF AllDone
    <3> QED
      BY <3>1 DEF KeyOf
  <2>2. key \in KeysOf(m, a) /\ KeysOf(m, a) \subseteq done /\ IsFiniteSet(done)
    BY <2>1 DEF KeysOf, OInv, Keyed
  <2>3. IsFiniteSet(KeysOf(m, a))
    BY <2>2, FS_Subset
  <2>4. Cardinality(KeysOf(m, a)) \in Nat /\ Cardinality(KeysOf(m, a)) # 0
    BY <2>2, <2>3, FS_CardinalityType, FS_EmptySet
  <2>5. Ciq!Took(m, a) = Cardinality(KeysOf(m, a))
    BY TookIs, Zenon DEF OInv, Keyed
  <2> HIDE DEF m, a
  <2> QED
    BY <2>4, <2>5 DEF m, a
<1> QED
  BY <1>1, <1>2

(* Whatever is retried, an intent takes effect no more often than one attempt asked for it;
   the research is completed, and the VIN set, only on the case and the VIN that were read;
   and a success is that everything took effect (calibration_iq.py:2146-2182, 2566-2600,
   2723-2946, 3190-3393, adas_si_research_adas_map_vin_repair.py:330-345). *)
THEOREM OperatorKeeps ==
    ASSUME Searched
    PROVE  Ciq!Spec => [](Ciq!IntentOnce /\ Ciq!OnWhatWasRead /\ Ciq!SuccessIsReal)
<1>1. Ciq!Init => OInv
  BY OInit
<1>2. OInv /\ [Ciq!Next]_Ciq!vars => OInv'
  BY OStep, OStutter
<1>3. OInv => Ciq!IntentOnce /\ Ciq!OnWhatWasRead /\ Ciq!SuccessIsReal
  BY OIntent, OSuccess DEF OInv
<1> QED
  BY <1>1, <1>2, <1>3, PTL DEF Ciq!Spec
=============================================================================
