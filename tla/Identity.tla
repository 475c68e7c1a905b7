------------------------------- MODULE Identity -------------------------------
(***************************************************************************)
(* Who may use this X Omni (core/api/auth.py, core/services/google_auth.py,  *)
(* the owner, users, sessions and google_tokens tables of core/state/db.py). *)
(*                                                                         *)
(* A sign-in spans two requests and three calls to Google; anything may      *)
(* happen to the user meanwhile: another sign-in, a revocation, a restart.   *)
(* Every method of the store is one transaction.                             *)
(***************************************************************************)
EXTENDS Naturals, FiniteSets

CONSTANTS
    Accounts,   \* Google accounts; two accounts may share an address over time
    Email,      \* [Accounts -> addresses]
    Attempts,   \* bound: sign-ins under way at once
    None

VARIABLES
    setup,      \* "open", "saved" in config/.env.local, "active" after a restart
    owner,      \* the owner row: an account, for ever
    user,       \* the users rows by address: role, status and linked account
    attempt,    \* _pending_states and the callbacks that took one from it
    session,    \* the sessions rows: account, and the address it belongs to
    grant,      \* the google_tokens row: account and whether it has a refresh token
    refreshing  \* a calendar call that renews the access token

vars == <<setup, owner, user, attempt, session, grant, refreshing>>

Emails == {Email[a] : a \in Accounts}

User(role, status, sub) == [role |-> role, status |-> status, sub |-> sub]
NoUser == User("none", "none", None)

Attempt(st, kind, local, email, account) ==
    [st |-> st, kind |-> kind, local |-> local, email |-> email, account |-> account]
NoAttempt == Attempt("none", "owner", FALSE, None, None)

Init ==
    /\ setup = "open"
    /\ owner = None
    /\ user = [e \in Emails |-> NoUser]
    /\ attempt = [i \in Attempts |-> NoAttempt]
    /\ session = {}
    /\ grant = None
    /\ refreshing = FALSE

-----------------------------------------------------------------------------
\* From the machine itself, while nobody owns this X Omni and nothing was saved.
local_oauth_setup ==
    /\ setup = "open" /\ owner = None
    /\ setup' = "saved"
    /\ UNCHANGED <<owner, user, attempt, session, grant, refreshing>>

\* A restart reads the saved setup; pending sign-ins are in memory only.
Restart ==
    /\ setup # "open"
    /\ setup' = "active"
    /\ attempt' = [i \in Attempts |-> NoAttempt]
    /\ refreshing' = FALSE
    /\ UNCHANGED <<owner, user, session, grant>>

\* login: the first one only locally, a remote one only for an invited address.
Begin(i, value) ==
    /\ setup = "active" /\ attempt[i].st = "none"
    /\ attempt' = [attempt EXCEPT ![i] = value]
    /\ UNCHANGED <<setup, owner, user, session, grant, refreshing>>

LoginLocal(i) ==
    Begin(i, Attempt("pending", "owner", TRUE, None, None))

LoginRemote(i, e) ==
    /\ owner # None
    /\ user[e].role # "none" /\ user[e].status # "revoked"
    /\ Begin(i, Attempt("pending", user[e].role, FALSE, e, None))

\* Ten minutes pass, or the browser comes back with another state or binding.
_prune_pending_states(i) ==
    /\ attempt[i].st = "pending"
    /\ attempt' = [attempt EXCEPT ![i] = NoAttempt]
    /\ UNCHANGED <<setup, owner, user, session, grant, refreshing>>

\* The callback takes the attempt, so it works once; the first owner's must have begun
\* locally, and a remote one must still come from the same identity.  Then it asks
\* Google who this is.
Callback(i, a) ==
    /\ attempt[i].st = "pending"
    /\ owner # None \/ attempt[i].local
    /\ attempt' = [attempt EXCEPT ![i] =
                     Attempt("exchanging", @.kind, @.local, @.email, a)]
    /\ UNCHANGED <<setup, owner, user, session, grant, refreshing>>

\* Google answers with an error, an unverified or a different address.
CallbackFails(i) ==
    /\ attempt[i].st = "exchanging"
    /\ attempt' = [attempt EXCEPT ![i] = NoAttempt]
    /\ UNCHANGED <<setup, owner, user, session, grant, refreshing>>

create_session(a) == session' = session \cup {[account |-> a, email |-> Email[a]]}

\* COALESCE: a token without a refresh token keeps the stored one.
save_google_token(a, refresh) ==
    grant' = [account |-> a, refresh |-> refresh \/ (grant # None /\ grant.refresh)]

bind_owner(a) ==
    /\ owner \in {None, a}
    /\ owner' = a
    /\ user' = IF owner = None
               THEN [user EXCEPT ![Email[a]] = User("owner", "active", a)]
               ELSE user

provision_test_user(a) ==
    LET e == Email[a] IN
    /\ user[e].role = "test_user" /\ user[e].status # "revoked"
    /\ user[e].sub \in {None, a}
    /\ \A f \in Emails \ {e} : user[f].sub # a
    /\ user' = [user EXCEPT ![e] = User("test_user", "active", a)]

\* The rest of the callback, one step: the owner needs a durable grant, his own or
\* the stored one.
SignIn(i) ==
    LET a == attempt[i].account IN
    /\ attempt[i].st = "exchanging"
    /\ attempt[i].email \in {None, Email[a]}
    /\ attempt' = [attempt EXCEPT ![i] = NoAttempt]
    /\ create_session(a)
    /\ \/ /\ attempt[i].kind = "test_user"
          /\ provision_test_user(a)
          /\ UNCHANGED <<owner, grant>>
       \/ /\ attempt[i].kind = "owner"
          /\ \E refresh \in BOOLEAN :
                /\ refresh \/ (grant # None /\ grant.refresh)
                /\ save_google_token(a, refresh)
          /\ bind_owner(a)
    /\ UNCHANGED <<setup, refreshing>>

-----------------------------------------------------------------------------
(* The owner's administration of testers. *)

invite_test_user(e) ==
    /\ owner # None /\ user[e].role = "none"
    /\ user' = [user EXCEPT ![e] = User("test_user", "pending", None)]
    /\ UNCHANGED <<setup, owner, attempt, session, grant, refreshing>>

\* Mutant: only a revocation ends the sessions.
StatusKeepsSessions(e, status) ==
    /\ owner # None /\ user[e].role = "test_user"
    /\ status = "active" => user[e].sub # None
    /\ user' = [user EXCEPT ![e] = User("test_user", status,
                                        IF status = "pending" THEN None ELSE @.sub)]
    /\ session' = IF status = "revoked" THEN {s \in session : s.email # e} ELSE session
    /\ UNCHANGED <<setup, owner, attempt, grant, refreshing>>

\* Re-enrolment forgets the linked account; only "active" keeps the sessions.
set_test_user_status(e, status) ==
    /\ owner # None /\ user[e].role = "test_user"
    /\ status = "active" => user[e].sub # None
    /\ user' = [user EXCEPT ![e] = User("test_user", status,
                                        IF status = "pending" THEN None ELSE @.sub)]
    /\ session' = IF status = "active" THEN session ELSE {s \in session : s.email # e}
    /\ UNCHANGED <<setup, owner, attempt, grant, refreshing>>

\* Logout, or the end of its lifetime.
delete_session(s) ==
    /\ session' = session \ {s}
    /\ UNCHANGED <<setup, owner, user, attempt, grant, refreshing>>

-----------------------------------------------------------------------------
(* The calendar renews the access token when it is about to expire. *)

refresh_access_token ==
    /\ ~refreshing /\ grant # None /\ grant.refresh
    /\ refreshing' = TRUE
    /\ UNCHANGED <<setup, owner, user, attempt, session, grant>>

valid_access_token ==
    /\ refreshing /\ refreshing' = FALSE
    /\ \/ \E rotated \in BOOLEAN : save_google_token(grant.account, rotated)
       \/ UNCHANGED grant   \* Google refuses
    /\ UNCHANGED <<setup, owner, user, attempt, session>>

-----------------------------------------------------------------------------
Next ==
    \/ local_oauth_setup \/ Restart
    \/ \E i \in Attempts :
        \/ LoginLocal(i) \/ _prune_pending_states(i) \/ CallbackFails(i) \/ SignIn(i)
        \/ \E e \in Emails : LoginRemote(i, e)
        \/ \E a \in Accounts : Callback(i, a)
    \/ \E e \in Emails :
        \/ invite_test_user(e)
        \/ \E status \in {"pending", "active", "revoked"} : set_test_user_status(e, status)
    \/ \E s \in session : delete_session(s)
    \/ refresh_access_token \/ valid_access_token

Spec == Init /\ [][Next]_vars

-----------------------------------------------------------------------------
TypeOK ==
    /\ setup \in {"open", "saved", "active"}
    /\ owner \in Accounts \cup {None}
    /\ user \in [Emails -> [role : {"none", "owner", "test_user"},
                            status : {"none", "pending", "active", "revoked"},
                            sub : Accounts \cup {None}]]
    /\ session \subseteq [account : Accounts, email : Emails]
    /\ refreshing \in BOOLEAN

(* A session belongs to an active user and to the account that user is linked
   to: a sign-in that was under way during a revocation or a re-enrolment
   leaves none behind (auth.py:494-555, db.py:549-630). *)
SessionsAreCurrent ==
    \A s \in session : user[s.email].status = "active" /\ user[s.email].sub = s.account

(* The stored grant is the owner's and can be renewed, so the calendar does not
   go silent after an hour (auth.py:519-547, db.py:1872-1892). *)
GrantLasts == grant # None => grant.account = owner /\ grant.refresh

(* One owner for ever, and one user per account (db.py:450-478, 535-590). *)
OneIdentity ==
    /\ \A e, f \in Emails : user[e].sub # None /\ user[e].sub = user[f].sub => e = f
    /\ \A e \in Emails : user[e].role = "owner" => user[e].sub = owner
=============================================================================
