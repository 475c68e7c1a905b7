----------------------------- MODULE FrigateSession -----------------------------
(* The credential and the session with which Core asks Frigate, the recorder of   *)
(* the exterior camera on another machine (core/services/frigate_client.py,        *)
(* core/services/windows_secrets.py), and the script that registers a credential   *)
(* from its own process (scripts/configure_frigate.py).                            *)
(*                                                                               *)
(* A credential is sealed in one file that both processes share; a session token  *)
(* lives in the memory of each.  A registration puts the new credential in the    *)
(* place of the old one, tries it by asking for the health of the camera, and     *)
(* puts the old one back when that fails or is cancelled.  Meanwhile other calls   *)
(* of the same client go on, log in with what is stored, and share the token.      *)
(*                                                                               *)
(* Frigate is external: it accepts the credentials in Valid, honours the sessions  *)
(* of its current era (a restart ends them all), and may be out of reach at any    *)
(* time.  The endpoint and the camera name are taken as configured.                *)
EXTENDS Naturals

CONSTANTS
    Clients,        \* processes with a FrigateClient
    Script,         \* the one that is the configuration script
    Registrations,  \* calls of save_credential_verified
    Reads,          \* other calls that ask Frigate
    Home,           \* the client of each call
    Credentials, Valid, First,
    None,
    MAX_LOGIN_ATTEMPTS_PER_CALL,
    MaxLapses, MaxForgets, MaxDeaths   \* bounds

Calls == Registrations \cup Reads

VARIABLES
    secret,     \* the sealed document of SecretStore
    token,      \* _token of each client while _token_valid, with its era
    logging,    \* the call that holds _login_lock
    updating,   \* the registration that holds _credential_update_lock
    at,         \* where each call is
    call,       \* its locals
    era, forgets, deaths,
    touched,    \* registrations after whose save someone else wrote the document
    dirty       \* registrations that began while a login was under way

vars == <<secret, token, logging, updating, at, call, era, forgets, deaths, touched, dirty>>

Asking == {"ask", "login", "sent"}
Ended == {"answered", "authentication_required", "unavailable", "cancelled", "gone"}
Fresh == [tries |-> None, prev |-> None, health |-> None, attempts |-> 0, header |-> None,
          loaded |-> None, proof |-> None, refused |-> FALSE, stale |-> FALSE]

TypeOK ==
    /\ secret \in Credentials \cup {None}
    /\ \A k \in Clients : /\ logging[k] # None => at[logging[k]] = "login"
                          /\ updating[k] # None => at[updating[k]] \in Asking
    /\ \A c \in Calls : at[c] \in Asking \cup Ended \cup {"new", "waiting", "env"}

Init ==
    /\ secret = First /\ era = 0 /\ forgets = 0 /\ deaths = 0 /\ touched = {} /\ dirty = {}
    /\ token = [k \in Clients |-> None]
    /\ logging = [k \in Clients |-> None]
    /\ updating = [k \in Clients |-> None]
    /\ at = [c \in Calls |-> "new"]
    /\ call = [c \in Calls |-> Fresh]

-----------------------------------------------------------------------------
\* The document is replaced by client k, for call c or for nobody.
Wrote(k, c, document) ==
    /\ secret' = document
    /\ touched' = touched \cup {r \in Registrations \ {c} : at[r] \notin {"new", "waiting"}}

\* The logins and the sessions that a write of client k leaves behind.
Outdated(k) ==
    [c \in Calls |-> IF at[c] = "login" THEN [call[c] EXCEPT !.stale = TRUE] ELSE call[c]]
Elsewhere(k) ==
    [o \in Clients |-> IF token[o] # None THEN [token[o] EXCEPT !.old = TRUE] ELSE None]

Begin(c) ==
    /\ at[c] = "new"
    /\ \/ c \in Reads /\ at' = [at EXCEPT ![c] = "ask"] /\ UNCHANGED call
       \/ /\ c \in Registrations /\ at' = [at EXCEPT ![c] = "waiting"]
          /\ \E new \in Credentials : call' = [call EXCEPT ![c].tries = new]
    /\ UNCHANGED <<secret, token, logging, updating, era, forgets, deaths, touched, dirty>>

\* The update lock is free: the old document is kept, the new one is in force.
Save(c) ==
    LET k == Home[c] IN
    /\ at[c] = "waiting" /\ updating[k] = None
    /\ updating' = [updating EXCEPT ![k] = c]
    /\ Wrote(k, c, call[c].tries)
    /\ token' = [Elsewhere(k) EXCEPT ![k] = None]
    /\ call' = [Outdated(k) EXCEPT ![c].prev = secret, ![c].health = "config"]
    /\ dirty' = IF logging[k] # None THEN dirty \cup {c} ELSE dirty
    /\ at' = [at EXCEPT ![c] = "ask"]
    /\ UNCHANGED <<logging, era, forgets, deaths>>

-----------------------------------------------------------------------------
Freed(c) == [k \in Clients |-> IF logging[k] = c THEN None ELSE logging[k]]
Unlocked(c) == [k \in Clients |-> IF updating[k] = c THEN None ELSE updating[k]]

\* The locals of a request are gone with it.
Over(locals, c) ==
    [locals EXCEPT ![c].attempts = 0, ![c].header = None, ![c].loaded = None, ![c].stale = FALSE]

\* Mutant: the rollback drops the session and leaves the document that failed.
RollbackForgets(c, locals, how) ==
    /\ secret' = secret /\ UNCHANGED touched /\ call' = Over(locals, c)
    /\ token' = [token EXCEPT ![Home[c]] = None]
    /\ at' = [at EXCEPT ![c] = how] /\ updating' = Unlocked(c)

\* Mutant: the rollback keeps the session that the new credential opened.
RollbackKeepsSession(c, locals, how) ==
    /\ Wrote(Home[c], c, call[c].prev) /\ call' = Over(locals, c) /\ UNCHANGED token
    /\ at' = [at EXCEPT ![c] = how] /\ updating' = Unlocked(c)

\* The old document comes back, or the file is removed when there was none.
Rollback(c, locals, how) ==
    LET k == Home[c] IN
    /\ Wrote(k, c, call[c].prev)
    /\ token' = [Elsewhere(k) EXCEPT ![k] = None]
    /\ call' = [d \in Calls |-> IF d # c /\ at[d] = "login" THEN [locals[d] EXCEPT !.stale = TRUE]
                                                       ELSE Over(locals, c)[d]]
    /\ at' = [at EXCEPT ![c] = how]
    /\ updating' = Unlocked(c)

\* The health of the camera was read; the script has its configuration to write.
Verify(c, locals) ==
    /\ at' = [at EXCEPT ![c] = IF Home[c] = Script THEN "env" ELSE "answered"]
    /\ call' = Over(locals, c)
    /\ updating' = Unlocked(c)
    /\ UNCHANGED <<secret, token, touched>>

\* An error ends a read, undoes a registration, and is no gate for the statistics.
Fail(c, locals, how) ==
    IF c \in Reads
    THEN /\ at' = [at EXCEPT ![c] = how] /\ call' = Over(locals, c)
         /\ UNCHANGED <<secret, token, touched, updating>>
    ELSE IF call[c].health = "stats" THEN Verify(c, locals) ELSE Rollback(c, locals, how)

Use(c, t, locals) ==
    /\ at' = [at EXCEPT ![c] = "sent"]
    /\ call' = [locals EXCEPT ![c].header = t, ![c].loaded = None, ![c].stale = FALSE]

\* _authorized_headers with a valid token.
Authorize(c) ==
    /\ at[c] = "ask" /\ token[Home[c]] # None
    /\ Use(c, token[Home[c]], call)
    /\ UNCHANGED <<secret, token, logging, updating, era, forgets, deaths, touched, dirty>>

\* ... and without one: under the login lock the stored credential is read.
Login(c) ==
    LET k == Home[c] IN
    /\ at[c] = "ask" /\ token[k] = None /\ logging[k] = None
    /\ \/ /\ secret = None
          /\ Fail(c, [call EXCEPT ![c].refused = TRUE], "authentication_required")
          /\ UNCHANGED logging
       \/ /\ secret # None
          /\ logging' = [logging EXCEPT ![k] = c]
          /\ call' = [call EXCEPT ![c].loaded = secret, ![c].stale = FALSE]
          /\ at' = [at EXCEPT ![c] = "login"]
          /\ UNCHANGED <<secret, token, updating, touched>>
    /\ UNCHANGED <<era, forgets, deaths, dirty>>

LoginAnswer(c) ==
    LET k == Home[c]
        t == [of |-> call[c].loaded, era |-> era, old |-> call[c].stale]
    IN  /\ at[c] = "login" /\ logging' = Freed(c)
        /\ \/ /\ call[c].loaded \in Valid
              /\ token' = [token EXCEPT ![k] = t] /\ Use(c, t, call)
              /\ UNCHANGED <<secret, updating, touched>>
           \/ /\ call[c].loaded \notin Valid
              /\ Fail(c, [call EXCEPT ![c].refused = TRUE], "authentication_required")
           \/ Fail(c, call, "unavailable")
        /\ UNCHANGED <<era, forgets, deaths, dirty>>

\* Mutant: the retry goes out with the token that was refused.
LapsedKeepsToken(c) ==
    IF call[c].attempts >= MAX_LOGIN_ATTEMPTS_PER_CALL
    THEN Fail(c, call, "authentication_required")
    ELSE /\ at' = [at EXCEPT ![c] = "ask"] /\ call' = [call EXCEPT ![c].attempts = @ + 1, ![c].header = None]
         /\ UNCHANGED <<secret, token, updating, touched>>

\* A refused session is dropped, and the call logs in once more.
Lapsed(c) ==
    IF call[c].attempts >= MAX_LOGIN_ATTEMPTS_PER_CALL
    THEN Fail(c, call, "authentication_required")
    ELSE /\ at' = [at EXCEPT ![c] = "ask"]
         /\ call' = [call EXCEPT ![c].attempts = @ + 1, ![c].header = None]
         /\ token' = [token EXCEPT ![Home[c]] = None]
         /\ UNCHANGED <<secret, updating, touched>>

\* The health of the camera: its configuration, then its statistics.
Served(c) ==
    LET locals == Over([call EXCEPT ![c].proof = call[c].header.of], c)
    IN  CASE c \in Reads -> /\ at' = [at EXCEPT ![c] = "answered"] /\ call' = Over(call, c)
                            /\ UNCHANGED <<secret, token, touched, updating>>
          [] call[c].health = "config" ->
                \/ Rollback(c, locals, "unavailable")
                \/ /\ call' = [locals EXCEPT ![c].health = "stats"]
                   /\ at' = [at EXCEPT ![c] = "ask"]
                   /\ UNCHANGED <<secret, token, touched, updating>>
          [] call[c].health = "stats" -> Verify(c, call) \/ Rollback(c, call, "unavailable")

Answer(c) ==
    /\ at[c] = "sent"
    /\ \/ call[c].header.era # era /\ Lapsed(c)
       \/ call[c].header.era = era /\ Served(c)
       \/ Fail(c, call, "unavailable")
    /\ UNCHANGED <<logging, era, forgets, deaths, dirty>>

-----------------------------------------------------------------------------
\* The script writes the endpoint beside it, and restores the document if it cannot.
WriteEnv(c) ==
    /\ at[c] = "env"
    /\ \/ at' = [at EXCEPT ![c] = "answered"] /\ UNCHANGED <<secret, touched, token, call>>
       \/ /\ at' = [at EXCEPT ![c] = "unavailable"] /\ Wrote(Home[c], c, call[c].prev)
          /\ token' = Elsewhere(Home[c]) /\ call' = Outdated(Home[c])
    /\ UNCHANGED <<logging, updating, era, forgets, deaths, dirty>>

\* Mutant: only an error rolls a registration back.
CancelLeaves(c) ==
    /\ at[c] \in Asking \cup {"waiting"} /\ logging' = Freed(c) /\ updating' = Unlocked(c)
    /\ at' = [at EXCEPT ![c] = "cancelled"] /\ call' = Over(call, c)
    /\ UNCHANGED <<secret, token, era, forgets, deaths, touched, dirty>>

\* Core stops, or Ctrl-C reaches the script: the task is cancelled where it awaits.
Cancel(c) ==
    /\ at[c] \in Asking \cup {"waiting"}
    /\ logging' = Freed(c)
    /\ IF c \in Registrations /\ at[c] # "waiting"
       THEN Rollback(c, call, "cancelled")
       ELSE /\ at' = [at EXCEPT ![c] = "cancelled"]
            /\ call' = Over(call, c) /\ UNCHANGED <<secret, token, touched, updating>>
    /\ UNCHANGED <<era, forgets, deaths, dirty>>

\* Mutant: the file goes, the session stays.
ForgetKeepsSession(k) ==
    /\ forgets < MaxForgets /\ forgets' = forgets + 1
    /\ Wrote(k, None, None) /\ call' = Outdated(k)
    /\ UNCHANGED <<token, logging, updating, at, era, deaths, dirty>>

\* forget_credential takes no lock; the script only removes the file.
Forget(k) ==
    /\ forgets < MaxForgets /\ forgets' = forgets + 1
    /\ Wrote(k, None, None)
    /\ token' = [Elsewhere(k) EXCEPT ![k] = None]
    /\ call' = Outdated(k)
    /\ UNCHANGED <<logging, updating, at, era, deaths, dirty>>

\* The token reaches its refresh margin.
Expire(k) ==
    /\ token[k] # None /\ token' = [token EXCEPT ![k] = None]
    /\ UNCHANGED <<secret, logging, updating, at, call, era, forgets, deaths, touched, dirty>>

\* Frigate restarts, and honours no earlier session.
Lapse ==
    /\ era < MaxLapses /\ era' = era + 1
    /\ UNCHANGED <<secret, token, logging, updating, at, call, forgets, deaths, touched, dirty>>

\* A process dies where it is; only the document is left.
Die(k) ==
    /\ deaths < MaxDeaths /\ deaths' = deaths + 1
    /\ token' = [token EXCEPT ![k] = None]
    /\ logging' = [logging EXCEPT ![k] = None] /\ updating' = [updating EXCEPT ![k] = None]
    /\ at' = [c \in Calls |-> IF Home[c] = k /\ at[c] \in Asking \cup {"waiting", "env"}
                              THEN "gone" ELSE at[c]]
    /\ call' = [c \in Calls |-> IF Home[c] = k THEN Over(call, c)[c] ELSE call[c]]
    /\ UNCHANGED <<secret, era, forgets, touched, dirty>>

Next ==
    \/ \E c \in Calls : Begin(c) \/ Authorize(c) \/ Login(c) \/ LoginAnswer(c) \/ Answer(c) \/ Cancel(c)
    \/ \E c \in Registrations : Save(c) \/ WriteEnv(c)
    \/ \E k \in Clients : Forget(k) \/ Expire(k) \/ Die(k)
    \/ Lapse

-----------------------------------------------------------------------------
(* A registration that fails or is cancelled leaves the document as it found it,
   and one that is reported verified leaves its own, as long as nobody else wrote
   it since ("so an operator typo cannot destroy a working setup",
   frigate_client.py:344, 363-371; configure_frigate.py:85-101).  *)
TypoUndone ==
    \A c \in Registrations \ touched :
        /\ at[c] \in {"authentication_required", "unavailable"} => secret = call[c].prev
        /\ at[c] = "cancelled" /\ call[c].health # None => secret = call[c].prev
        /\ at[c] = "answered" => secret = call[c].tries

(* A credential that is reported verified opened a session that read the camera's
   configuration ("Replace the secret only if login and camera verification
   succeed", frigate_client.py:341), unless a login of an earlier credential was
   under way when it was stored, or someone else wrote the document.  *)
VerifiedIsProven ==
    \A c \in Registrations \ (touched \cup dirty) :
        at[c] \in {"answered", "env"} => call[c].proof = call[c].tries

(* The same without the exception: the session of a login that was under way
   verifies a credential nobody tried.  *)
VerifiedIsTried ==
    \A c \in Registrations \ touched : at[c] \in {"answered", "env"} => call[c].proof = call[c].tries

(* A client that holds a session holds one of the credential that is stored,
   unless the document was replaced by another process or while the login was
   under way (frigate_client.py:333-335, 364-366, 374-377).  *)
SessionFollowsSecret == \A k \in Clients : token[k] # None => token[k].of = secret \/ token[k].old

(* A call is told that authentication is required only when Frigate refused the
   credential or none was stored: a session that lapsed once is renewed, whoever
   else asks at that time (frigate_client.py:461-507).  *)
RefusedForReason ==
    MaxLapses <= MAX_LOGIN_ATTEMPTS_PER_CALL =>
        \A c \in Calls : at[c] = "authentication_required" => call[c].refused

SessionTruth == TypeOK /\ TypoUndone /\ VerifiedIsProven /\ SessionFollowsSecret /\ RefusedForReason
=============================================================================
