----------------------------- MODULE SweepProofs -----------------------------
(***************************************************************************)
(* Theorems about the ADAS Map sweep, for every set of repair orders and   *)
(* of callers, every limit, any number of sweeps and crashes and every     *)
(* answer of ScrapeX.                                                      *)
(*                                                                         *)
(* First its control (IInv): one sweep is active, it is driven, it ends    *)
(* once and its result is posted once.  Then its data (DInv): what a       *)
(* record, and every copy of one that a task holds across a remote call,   *)
(* says of the batches of ScrapeX.  From both follow the invariants of     *)
(* AdasMapSweep and the properties of the run "sweep".                     *)
(***************************************************************************)
EXTENDS MCSweeps, FiniteSetTheorems, SequenceTheorems, WellFoundedInduction, TLAPS

\* Where a driver works on a copy of an active record.
Busy == {"create", "launch", "start", "read", "stopped", "restart", "openSignIn",
         "signedIn", "recheck"}

\* A record, or a copy of one, in one of some states.
InState(r, states) == "state" \in DOMAIN r /\ r.state \in states

Types ==
    /\ phase \in {"down", "resuming", "serving"}
    /\ DOMAIN rec = Sweeps
    /\ \A s \in Sweeps : InState(rec[s], {"absent"} \cup Active \cup Terminal)
    /\ DOMAIN drv = Sweeps /\ \A s \in Sweeps : drv[s].pc \in {"none", "loop", "notify"} \cup Busy
    /\ DOMAIN call = Callers
    /\ \A c \in Callers : call[c].pc \in {"idle", "ask", "create", "launch"}
    /\ lock \in Callers \cup {NoCaller}
    /\ posts \in [Sweeps -> Nat] /\ crashes \in Nat
    /\ todo \subseteq Sweeps /\ posting \in {0} \cup Sweeps

\* A driver works on an active record, or notifies of one that it completed; a sweep
\* has none while its first batch is launched.
Driver(s) ==
    /\ drv[s].pc \in Busy => IsActive(s) /\ InState(drv[s].rec, Active)
    /\ drv[s].pc = "notify" => rec[s].state = "completed" /\ InState(drv[s].rec, {"completed"})
    /\ drv[s].pc # "none" => phase # "down" /\ rec[s].state # "absent" /\ ~Launching(s)

\* The lock is with the call that is under way; what that call found stays so.
Caller(c) ==
    /\ call[c].pc # "idle" <=> lock = c
    /\ call[c].pc # "idle" => phase = "serving"
    /\ call[c].pc = "ask" => \A s \in Sweeps : ~IsActive(s)
    /\ call[c].pc \in {"create", "launch"} =>
         /\ call[c].sweep \in Sweeps /\ rec[call[c].sweep].state = "running"
         /\ InState(call[c].rec, {"running"})

Alone == \A s, t \in Sweeps : IsActive(s) /\ IsActive(t) => s = t

\* resume() runs between a crash and the first request.
Resumes ==
    /\ phase # "resuming" => todo = {} /\ posting = 0
    /\ phase # "serving" => crashes > 0
    /\ posting # 0 => rec[posting].state = "completed"
    /\ phase = "resuming" =>
         \A s \in Sweeps : IsActive(s) => s \in todo \/ drv[s].pc # "none"

\* A completed sweep is posted by its driver, and once more by the resume after a crash.
Posted(s) ==
    /\ posts[s] > 0 => rec[s].state = "completed"
    /\ posts[s] <= crashes + 1
    /\ phase = "down" \/ s \in todo => posts[s] <= crashes

IInv ==
    /\ Types /\ Alone /\ Resumes
    /\ \A s \in Sweeps : Driver(s) /\ Posted(s)
    /\ \A c \in Callers : Caller(c)

-----------------------------------------------------------------------------
(* The operators on records change the state only where they say so. *)
LEMMA KeepsState ==
    ASSUME NEW r, "state" \in DOMAIN r
    PROVE  /\ \A c : InState(WithChunk(r, c), {r.state})
           /\ \A e : InState([r EXCEPT !.error = e], {r.state})
           /\ \A n : InState([r EXCEPT !.notified = n], {r.state})
           /\ \A v : InState([r EXCEPT !.state = v], {v})
           /\ \A b : InState(Applied(r, b), {r.state})
           /\ InState(Retry(r), {r.state})
  BY Zenon DEF InState, WithChunk, Applied, Retry

(* What a call makes of the answer of create_batch keeps the state of the record. *)
LEMMA AfterCreateState ==
    ASSUME NEW r, "state" \in DOMAIN r, NEW a PROVE InState(AfterCreate(r, a), {r.state})
  BY KeepsState, Zenon DEF AfterCreate, InState

(* The same of start_batch, which also counts a pass over its repair orders. *)
LEMMA AfterStartState ==
    ASSUME NEW r, "state" \in DOMAIN r, NEW a PROVE InState(AfterStart(r, a), {r.state})
  BY KeepsState, Zenon DEF AfterStart, InState

(* Saving one record leaves the others alone. *)
LEMMA SavedFact ==
    ASSUME Types, NEW s \in Sweeps, NEW r, Saved(s, r)
    PROVE  DOMAIN rec' = Sweeps /\ rec'[s] = r /\ \A t \in Sweeps \ {s} : rec'[t] = rec[t]
  BY DEF Saved, Types

(* A driver that goes on takes its copy along; the other drivers stay where they are. *)
LEMMA GotoFact ==
    ASSUME Types, NEW s \in Sweeps, NEW p, NEW r, Goto(s, p, r)
    PROVE  /\ DOMAIN drv' = Sweeps /\ drv'[s].pc = p /\ drv'[s].rec = r
           /\ \A t \in Sweeps \ {s} : drv'[t] = drv[t]
  BY DEF Goto, Types

(* A driver that ended is nowhere; the other drivers stay where they are. *)
LEMMA EndedFact ==
    ASSUME Types, NEW s \in Sweeps, Ended(s)
    PROVE  /\ DOMAIN drv' = Sweeps /\ drv'[s].pc = "none"
           /\ \A t \in Sweeps \ {s} : drv'[t] = drv[t]
  BY DEF Ended, NoDriver, Types

(* A message is added to one conversation, or none is. *)
LEMMA PostsFact ==
    ASSUME Types, NEW s \in Sweeps, PostsMessage(s)
    PROVE  /\ posts' \in [Sweeps -> Nat] /\ posts'[s] \in {posts[s], posts[s] + 1}
           /\ \A t \in Sweeps \ {s} : posts'[t] = posts[t]
  BY DEF PostsMessage, Types

-----------------------------------------------------------------------------
(* What a step of a driver does: it goes on with an active record, it completes it, or
   it ends beside a record that is not active. *)
GoesOn(s) ==
    /\ IsActive(s) /\ InState(rec'[s], Active) /\ UNCHANGED posts
    /\ \/ drv'[s].pc = "loop"
       \/ drv'[s].pc \in Busy /\ InState(drv'[s].rec, Active)
Finishes(s) ==
    /\ IsActive(s) /\ InState(rec'[s], {"completed"}) /\ PostsMessage(s)
    /\ drv'[s].pc = "notify" /\ InState(drv'[s].rec, {"completed"})
Ends(s) ==
    /\ ~IsActive(s) /\ InState(rec'[s], {rec[s].state}) /\ UNCHANGED posts
    /\ drv'[s].pc = "none"
Outcome(s) ==
    /\ UNCHANGED <<phase, lock, call, todo, posting, crashes>>
    /\ drv[s].pc # "none" /\ DOMAIN rec' = Sweeps /\ DOMAIN drv' = Sweeps
    /\ \A t \in Sweeps \ {s} : rec'[t] = rec[t] /\ drv'[t] = drv[t]
    /\ GoesOn(s) \/ Finishes(s) \/ Ends(s)

(* A driver that saves a record in an active state and loops goes on. *)
LEMMA SavesAndLoops ==
    ASSUME IInv, NEW s \in Sweeps, drv[s].pc \in Busy, NEW r, InState(r, Active),
           Saved(s, r), Loop(s), UNCHANGED <<phase, lock, call, todo, posting, crashes, posts>>
    PROVE  Outcome(s)
<1>1. Types /\ IsActive(s)
  BY DEF IInv, Driver
<1>2. Goto(s, "loop", NoRecord)
  BY DEF Loop
<1> QED
  BY <1>1, <1>2, SavedFact, GotoFact DEF Outcome, GoesOn, Busy

(* So does one that saves it and takes it to its next call. *)
LEMMA SavesAndGoes ==
    ASSUME IInv, NEW s \in Sweeps, drv[s].pc \in Busy, NEW r, InState(r, Active),
           NEW p \in Busy, Saved(s, r), Goto(s, p, r),
           UNCHANGED <<phase, lock, call, todo, posting, crashes, posts>>
    PROVE  Outcome(s)
<1>1. Types /\ IsActive(s)
  BY DEF IInv, Driver
<1> QED
  BY <1>1, SavedFact, GotoFact DEF Outcome, GoesOn, Busy

(* So does one that takes an active copy to its next call and saves nothing. *)
LEMMA Goes ==
    ASSUME IInv, NEW s \in Sweeps, drv[s].pc # "none", IsActive(s), NEW r, InState(r, Active),
           NEW p \in Busy, Goto(s, p, r),
           UNCHANGED <<phase, lock, call, todo, posting, crashes, posts, rec>>
    PROVE  Outcome(s)
<1>1. Types /\ DOMAIN rec = Sweeps /\ InState(rec[s], Active)
  BY DEF IInv, Types, IsActive, InState
<1>2. /\ DOMAIN drv' = Sweeps /\ drv'[s].pc = p /\ drv'[s].rec = r
      /\ \A t \in Sweeps \ {s} : drv'[t] = drv[t]
  BY <1>1, GotoFact
<1>3. GoesOn(s)
  BY <1>1, <1>2, Zenon DEF GoesOn
<1> QED
  BY <1>1, <1>2, <1>3 DEF Outcome

(* So does one that reads its record again. *)
LEMMA Loops ==
    ASSUME IInv, NEW s \in Sweeps, drv[s].pc \in Busy, Loop(s),
           UNCHANGED <<phase, lock, call, todo, posting, crashes, posts, rec>>
    PROVE  Outcome(s)
<1>1. Types /\ InState(rec[s], Active) /\ IsActive(s)
  BY DEF IInv, Types, IsActive, InState, Driver
<1>2. Goto(s, "loop", NoRecord)
  BY DEF Loop
<1> QED
  BY <1>1, <1>2, GotoFact DEF Outcome, GoesOn, Types, Busy

(* A driver that finds its record inactive ends. *)
LEMMA EndsBeside ==
    ASSUME IInv, NEW s \in Sweeps, drv[s].pc # "none", ~IsActive(s), Ended(s),
           UNCHANGED <<phase, lock, call, todo, posting, crashes, posts, rec>>
    PROVE  Outcome(s)
<1>1. Types /\ InState(rec[s], {rec[s].state})
  BY DEF IInv, Types, InState
<1> QED
  BY <1>1, EndedFact DEF Outcome, Ends, Types

(* A driver that waits for a sign-in has saved so. *)
LEMMA EntersOutcome ==
    ASSUME IInv, NEW s \in Sweeps, drv[s].pc \in Busy, NEW r, InState(r, Active),
           EnterSignInWait(s, r),
           UNCHANGED <<phase, lock, call, todo, posting, crashes, posts>>
    PROVE  Outcome(s)
<1> DEFINE w == [r EXCEPT !.state = "waiting"]
<1>1. InState(w, {"waiting"})
  BY KeepsState DEF InState
<1>2. InState(w, Active)
  BY <1>1 DEF InState, Active
<1>3. Saved(s, w) /\ Goto(s, "openSignIn", w)
  BY DEF EnterSignInWait
<1> HIDE DEF w
<1> QED
  BY <1>2, <1>3, SavesAndGoes DEF Busy

(* What the driver does with the outcome of a launch. *)
LEMMA LaunchedOutcome ==
    ASSUME IInv, NEW s \in Sweeps, drv[s].pc \in Busy, NEW r, InState(r, Active), NEW a,
           Launched(s, a, r), UNCHANGED <<phase, lock, call, todo, posting, crashes, posts>>
    PROVE  Outcome(s)
<1>1. CASE EnterSignInWait(s, r)
  BY <1>1, EntersOutcome
<1>2. CASE Saved(s, r) /\ Loop(s)
  BY <1>2, SavesAndLoops
<1>3. CASE Saved(s, WithChunk(r, GiveUp(Chunk1(r)))) /\ Loop(s)
  <2>1. InState(WithChunk(r, GiveUp(Chunk1(r))), Active)
    BY KeepsState DEF InState
  <2> QED
    BY <1>3, <2>1, SavesAndLoops
<1> QED
  BY <1>1, <1>2, <1>3 DEF Launched

(* create_batch answered: every branch has one of the outcomes. *)
LEMMA DriveCreateOutcome == ASSUME IInv, NEW s \in Sweeps, DriveCreate(s) PROVE Outcome(s)
<1> DEFINE r == drv[s].rec
<1>0. Types /\ Driver(s)
  BY DEF IInv
<1>1. drv[s].pc \in Busy /\ InState(r, Active)
  BY <1>0 DEF DriveCreate, At, Driver, Busy
<1>2. UNCHANGED <<phase, lock, call, todo, posting, crashes, posts>>
  BY DEF DriveCreate
<1>3. PICK a \in Answers :
        IF a = "ok" THEN Goto(s, "launch", AfterCreate(r, a)) /\ UNCHANGED rec
                    ELSE Launched(s, a, AfterCreate(r, a))
  BY DEF DriveCreate
<1>4. InState(AfterCreate(r, a), Active)
  BY <1>1, AfterCreateState DEF InState
<1>5. CASE a = "ok"
  <2>1. Goto(s, "launch", AfterCreate(r, a)) /\ UNCHANGED rec
    BY <1>3, <1>5
  <2> QED
    BY <1>0, <1>1, <1>2, <1>4, <2>1, Goes DEF Busy, Driver
<1>6. CASE a # "ok"
  BY <1>1, <1>2, <1>3, <1>4, <1>6, LaunchedOutcome
<1> QED
  BY <1>5, <1>6

(* start_batch answered, of a batch just created. *)
LEMMA DriveLaunchOutcome == ASSUME IInv, NEW s \in Sweeps, DriveLaunch(s) PROVE Outcome(s)
<1> DEFINE r == drv[s].rec
<1>0. Types /\ Driver(s)
  BY DEF IInv
<1>1. drv[s].pc \in Busy /\ InState(r, Active)
  BY <1>0 DEF DriveLaunch, At, Driver, Busy
<1>2. PICK a \in Answers : Launched(s, a, AfterStart(r, a))
  BY DEF DriveLaunch
<1>3. InState(AfterStart(r, a), Active)
  BY <1>1, AfterStartState DEF InState
<1> QED
  BY <1>1, <1>2, <1>3, LaunchedOutcome DEF DriveLaunch

(* A driver that saves its copy with another chunk, and loops, goes on. *)
LEMMA SavesChunk ==
    ASSUME IInv, NEW s \in Sweeps, drv[s].pc \in Busy, NEW r, InState(r, Active), NEW c,
           Saved(s, WithChunk(r, c)), Loop(s),
           UNCHANGED <<phase, lock, call, todo, posting, crashes, posts>>
    PROVE  Outcome(s)
<1>1. InState(WithChunk(r, c), Active)
  BY KeepsState DEF InState
<1> QED
  BY <1>1, SavesAndLoops

(* start_batch answered, of a batch created earlier: a refusal is counted. *)
LEMMA DriveStartOutcome == ASSUME IInv, NEW s \in Sweeps, DriveStart(s) PROVE Outcome(s)
<1> DEFINE r == drv[s].rec
<1>0. Types /\ Driver(s)
  BY DEF IInv
<1>1. drv[s].pc \in Busy /\ InState(r, Active)
  BY <1>0 DEF DriveStart, At, Driver, Busy
<1>2. UNCHANGED <<phase, lock, call, todo, posting, crashes, posts>>
  BY DEF DriveStart
<1>3. EnterSignInWait(s, r) \/ \E c : Saved(s, WithChunk(r, c)) /\ Loop(s)
  BY Zenon DEF DriveStart
<1> QED
  BY <1>1, <1>2, <1>3, EntersOutcome, SavesChunk

(* The batch was read: the copy with what it says is still active. *)
LEMMA DriveReadOutcome == ASSUME IInv, NEW s \in Sweeps, DriveRead(s) PROVE Outcome(s)
<1> DEFINE r == drv[s].rec
<1>0. Types /\ Driver(s)
  BY DEF IInv
<1>1. drv[s].pc \in Busy /\ InState(r, Active)
  BY <1>0 DEF DriveRead, At, Driver, Busy
<1>2. UNCHANGED <<phase, lock, call, todo, posting, crashes, posts>>
  BY DEF DriveRead
<1> DEFINE read == Applied(WithChunk(r, [Chunk1(r) EXCEPT !.reads = 0]),
                           batches[Chunk1(r).batch])
<1>3. \/ \E c : Saved(s, WithChunk(r, c)) /\ Loop(s)
      \/ \E c : Saved(s, WithChunk(read, c)) /\ Loop(s)
      \/ Saved(s, read) /\ Loop(s)
      \/ Goto(s, "stopped", read) /\ UNCHANGED rec
  BY Zenon DEF DriveRead
<1>4. InState(read, Active)
  <2>1. InState(WithChunk(r, [Chunk1(r) EXCEPT !.reads = 0]), Active)
    BY <1>1, KeepsState DEF InState
  <2> QED
    BY <2>1, KeepsState DEF InState
<1>5. IsActive(s)
  BY <1>0, <1>1 DEF Driver
<1> HIDE DEF read
<1>6. CASE \E c : Saved(s, WithChunk(r, c)) /\ Loop(s)
  BY <1>1, <1>2, <1>6, SavesChunk
<1>7. CASE \E c : Saved(s, WithChunk(read, c)) /\ Loop(s)
  BY <1>1, <1>2, <1>4, <1>7, SavesChunk
<1>8. CASE Saved(s, read) /\ Loop(s)
  BY <1>1, <1>2, <1>4, <1>8, SavesAndLoops
<1>9. CASE Goto(s, "stopped", read) /\ UNCHANGED rec
  BY <1>1, <1>2, <1>4, <1>5, <1>9, Goes DEF Busy
<1> QED
  BY <1>3, <1>6, <1>7, <1>8, <1>9

(* A stopped batch is waited for, given up or started again. *)
LEMMA DriveStoppedOutcome == ASSUME IInv, NEW s \in Sweeps, DriveStopped(s) PROVE Outcome(s)
<1> DEFINE r == drv[s].rec
<1>0. Types /\ Driver(s)
  BY DEF IInv
<1>1. drv[s].pc \in Busy /\ InState(r, Active)
  BY <1>0 DEF DriveStopped, At, Driver, Busy
<1>2. UNCHANGED <<phase, lock, call, todo, posting, crashes, posts>>
  BY DEF DriveStopped
<1>3. \/ EnterSignInWait(s, r)
      \/ \E c : Saved(s, WithChunk(r, c)) /\ Loop(s)
      \/ \E c : Goto(s, "restart", WithChunk(r, c)) /\ UNCHANGED rec
  BY Zenon DEF DriveStopped
<1>4. IsActive(s)
  BY <1>0, <1>1 DEF Driver
<1>5. CASE \E c : Goto(s, "restart", WithChunk(r, c)) /\ UNCHANGED rec
  <2>1. PICK c : Goto(s, "restart", WithChunk(r, c)) /\ UNCHANGED rec
    BY <1>5
  <2>2. InState(WithChunk(r, c), Active)
    BY <1>1, KeepsState DEF InState
  <2> QED
    BY <1>1, <1>2, <1>4, <2>1, <2>2, Goes DEF Busy
<1> QED
  BY <1>1, <1>2, <1>3, <1>5, EntersOutcome, SavesChunk

(* The repeated start_batch answered. *)
LEMMA DriveRestartOutcome == ASSUME IInv, NEW s \in Sweeps, DriveRestart(s) PROVE Outcome(s)
<1> DEFINE r == drv[s].rec
<1>0. Types /\ Driver(s)
  BY DEF IInv
<1>1. drv[s].pc \in Busy /\ InState(r, Active)
  BY <1>0 DEF DriveRestart, At, Driver, Busy
<1>2. PICK a \in Answers : IF a = "auth" THEN EnterSignInWait(s, r) ELSE Saved(s, r) /\ Loop(s)
  BY Zenon DEF DriveRestart
<1> QED
  BY <1>1, <1>2, EntersOutcome, SavesAndLoops DEF DriveRestart

(* The sign-in window was opened, or not. *)
LEMMA DriveOpenSignInOutcome == ASSUME IInv, NEW s \in Sweeps, DriveOpenSignIn(s) PROVE Outcome(s)
<1> DEFINE r == drv[s].rec
<1>0. Types /\ Driver(s)
  BY DEF IInv
<1>1. drv[s].pc \in Busy /\ InState(r, Active)
  BY <1>0 DEF DriveOpenSignIn, At, Driver, Busy
<1> QED
  BY <1>1, Loops DEF DriveOpenSignIn

(* A waiting driver goes on, waits or gives up. *)
LEMMA DriveSignedInOutcome == ASSUME IInv, NEW s \in Sweeps, DriveSignedIn(s) PROVE Outcome(s)
<1> DEFINE r == drv[s].rec
<1>0. Types /\ Driver(s)
  BY DEF IInv
<1>1. drv[s].pc \in Busy /\ InState(r, Active)
  BY <1>0 DEF DriveSignedIn, At, Driver, Busy
<1>2. UNCHANGED <<phase, lock, call, todo, posting, crashes, posts>>
  BY DEF DriveSignedIn
<1>3. IsActive(s)
  BY <1>0, <1>1 DEF Driver
<1>4. CASE Saved(s, [r EXCEPT !.state = "running"]) /\ Loop(s)
  <2>1. InState([r EXCEPT !.state = "running"], Active)
    BY <1>1, KeepsState DEF InState, Active
  <2> QED
    BY <1>1, <1>2, <1>4, <2>1, SavesAndLoops
<1>5. CASE Loop(s) /\ UNCHANGED rec
  BY <1>1, <1>2, <1>5, Loops
<1>6. CASE Goto(s, "recheck", [r EXCEPT !.error = "cut"]) /\ UNCHANGED rec
  <2>1. InState([r EXCEPT !.error = "cut"], Active)
    BY <1>1, KeepsState DEF InState
  <2> QED
    BY <1>1, <1>2, <1>3, <1>6, <2>1, Goes DEF Busy
<1> QED
  BY <1>4, <1>5, <1>6 DEF DriveSignedIn

(* An exception finalizes the record that is saved, when it is active. *)
LEMMA DriveErrorOutcome == ASSUME IInv, NEW s \in Sweeps, DriveError(s) PROVE Outcome(s)
<1> DEFINE r == drv[s].rec
<1>0. Types /\ Driver(s)
  BY DEF IInv
<1>1. drv[s].pc # "none" /\ UNCHANGED <<phase, lock, call, todo, posting, crashes, posts, rec>>
  BY DEF DriveError, At
<1>2. CASE IsActive(s)
  <2>1. InState([rec[s] EXCEPT !.error = "cut"], Active)
    BY <1>0, <1>2, KeepsState DEF InState, Types, IsActive
  <2>2. Goto(s, "recheck", [rec[s] EXCEPT !.error = "cut"])
    BY <1>2 DEF DriveError
  <2> QED
    BY <1>1, <1>2, <2>1, <2>2, Goes DEF Busy
<1>3. CASE ~IsActive(s)
  BY <1>1, <1>3, EndsBeside DEF DriveError
<1> QED
  BY <1>2, <1>3

(* The one step that completes a sweep, and posts its result. *)
LEMMA DriveRecheckOutcome == ASSUME IInv, NEW s \in Sweeps, DriveRecheck(s) PROVE Outcome(s)
<1> DEFINE r == drv[s].rec
<1>0. Types /\ Driver(s)
  BY DEF IInv
<1>1. drv[s].pc \in Busy /\ InState(r, Active)
  BY <1>0 DEF DriveRecheck, At, Driver, Busy
<1> DEFINE done == [r EXCEPT !.state = "completed"]
<1>2. InState(done, {"completed"})
  BY <1>1, KeepsState DEF InState
<1>3. Saved(s, done) /\ Goto(s, "notify", done)
  BY DEF DriveRecheck
<1> HIDE DEF done
<1>4. IsActive(s)
  BY <1>0, <1>1 DEF Driver
<1> QED
  BY <1>0, <1>1, <1>2, <1>3, <1>4, SavedFact, GotoFact DEF DriveRecheck, Outcome, Finishes, Busy

(* After the notification the driver ends. *)
LEMMA DriveNotifiedOutcome == ASSUME IInv, NEW s \in Sweeps, DriveNotified(s) PROVE Outcome(s)
<1> DEFINE r == drv[s].rec
<1>0. Types /\ Driver(s)
  BY DEF IInv
<1>1. drv[s].pc = "notify" /\ InState(r, {"completed"}) /\ rec[s].state = "completed"
  BY <1>0 DEF DriveNotified, At, Driver
<1> DEFINE told == [r EXCEPT !.notified = TRUE]
<1>2. InState(told, {"completed"})
  BY <1>1, KeepsState DEF InState
<1>3. Saved(s, told) /\ Ended(s)
  BY DEF DriveNotified
<1> HIDE DEF told
<1>4. ~IsActive(s)
  BY <1>1 DEF IsActive, Active
<1> QED
  BY <1>0, <1>1, <1>2, <1>3, <1>4, SavedFact, EndedFact DEF DriveNotified, Outcome, Ends

(* The top of the loop. *)
LEMMA DriveOutcome == ASSUME IInv, NEW s \in Sweeps, Drive(s) PROVE Outcome(s)
<1> DEFINE r == drv[s].rec
<1>0. Types /\ Driver(s)
  BY DEF IInv
<1> DEFINE R == rec[s]
<1>1. drv[s].pc = "loop" /\ UNCHANGED <<phase, lock, call, todo, posting, crashes, posts>>
  BY DEF Drive, At
<1>2. CASE ~IsActive(s) /\ Ended(s) /\ UNCHANGED rec
  BY <1>1, <1>2, EndsBeside
<1>3. CASE IsActive(s)
  <2>1. InState(R, Active)
    BY <1>0, <1>3 DEF InState, Types, IsActive
  <2>2. \/ \E p \in Busy : Goto(s, p, R) /\ UNCHANGED rec
        \/ Goto(s, "recheck", [R EXCEPT !.error = "cut"]) /\ UNCHANGED rec
        \/ Saved(s, Retry(R)) /\ UNCHANGED drv
    BY <1>3, Zenon DEF Drive, Busy
  <2>3. CASE \E p \in Busy : Goto(s, p, R) /\ UNCHANGED rec
    BY <1>1, <1>3, <2>1, <2>3, Goes
  <2>4. CASE Goto(s, "recheck", [R EXCEPT !.error = "cut"]) /\ UNCHANGED rec
    <3>1. InState([R EXCEPT !.error = "cut"], Active)
      BY <2>1, KeepsState DEF InState
    <3> QED
      BY <1>1, <1>3, <2>4, <3>1, Goes DEF Busy
  <2>5. CASE Saved(s, Retry(R)) /\ UNCHANGED drv
    <3>1. InState(Retry(R), Active)
      BY <2>1, KeepsState DEF InState
    <3> QED
      BY ZenonT(40), <1>0, <1>1, <1>3, <2>5, <3>1, SavedFact DEF Outcome, GoesOn, Types
  <2> QED
    BY <2>2, <2>3, <2>4, <2>5
<1>4. IsActive(s) \/ (Ended(s) /\ UNCHANGED rec)
  BY DEF Drive, IsActive, Active
<1> QED
  BY <1>2, <1>3, <1>4

-----------------------------------------------------------------------------
(* The invariant under an outcome of a driver: only the sweep of the driver changes, and
   it stays active or becomes inactive. *)
LEMMA OutcomeKeeps == ASSUME IInv, NEW s \in Sweeps, Outcome(s) PROVE IInv'
<1>0. /\ Types /\ Alone /\ Resumes
      /\ \A t \in Sweeps : Driver(t) /\ Posted(t)
      /\ \A c \in Callers : Caller(c)
  BY DEF IInv
<1>1. /\ UNCHANGED <<phase, lock, call, todo, posting, crashes>>
      /\ drv[s].pc # "none" /\ phase # "down" /\ ~Launching(s)
      /\ DOMAIN rec' = Sweeps /\ DOMAIN drv' = Sweeps
      /\ \A t \in Sweeps \ {s} : rec'[t] = rec[t] /\ drv'[t] = drv[t]
  BY <1>0 DEF Outcome, Driver
<1>2. /\ "state" \in DOMAIN rec'[s]
      /\ IsActive(s) => rec'[s].state \in Active \cup {"completed"}
      /\ ~IsActive(s) => rec'[s].state = rec[s].state /\ drv'[s].pc = "none"
  BY DEF Outcome, GoesOn, Finishes, Ends, InState
<1>3. /\ drv'[s].pc \in {"none", "loop", "notify"} \cup Busy
      /\ drv'[s].pc \in Busy => rec'[s].state \in Active /\ InState(drv'[s].rec, Active)
      /\ drv'[s].pc = "loop" => rec'[s].state \in Active
      /\ drv'[s].pc = "notify" => rec'[s].state = "completed" /\ InState(drv'[s].rec, {"completed"})
      /\ drv'[s].pc = "none" => ~IsActive(s)
  BY DEF Outcome, GoesOn, Finishes, Ends, InState, Busy
<1>4. /\ posts' \in [Sweeps -> Nat]
      /\ \A t \in Sweeps \ {s} : posts'[t] = posts[t]
      /\ \/ posts'[s] = posts[s]
         \/ rec'[s].state = "completed" /\ IsActive(s) /\ posts'[s] = posts[s] + 1
  <2>1. CASE Finishes(s)
    <3>1. PostsMessage(s) /\ IsActive(s) /\ rec'[s].state = "completed"
      BY <2>1 DEF Finishes, InState
    <3>2. /\ posts' \in [Sweeps -> Nat] /\ posts'[s] \in {posts[s], posts[s] + 1}
          /\ \A t \in Sweeps \ {s} : posts'[t] = posts[t]
      BY <1>0, <3>1, PostsFact
    <3> QED
      BY <3>1, <3>2, Zenon
  <2>2. CASE UNCHANGED posts
    <3>1. posts \in [Sweeps -> Nat]
      BY <1>0 DEF Types
    <3> QED
      BY <2>2, <3>1, Zenon
  <2> QED
    BY <2>1, <2>2 DEF Outcome, GoesOn, Ends
<1> HIDE DEF Outcome
<1>5. \A t \in Sweeps : IsActive(t)' => IsActive(t)
  BY <1>1, <1>2 DEF IsActive
<1>6. \A t \in Sweeps : Launching(t)' <=> Launching(t)
  BY <1>1 DEF Launching
<1>7. Types'
  BY <1>0, <1>1, <1>2, <1>3, <1>4 DEF Types, InState, IsActive, Terminal
<1>8. Alone'
  BY <1>0, <1>5 DEF Alone
<1>9. Resumes'
  <2>1. posting # 0 => rec'[posting].state = "completed"
    BY <1>0, <1>1, <1>2 DEF Resumes, Types, IsActive, Active
  <2>2. \A t \in Sweeps : IsActive(t)' => t \in todo \/ drv'[t].pc # "none" \/ phase # "resuming"
    <3>1. ASSUME NEW t \in Sweeps, IsActive(t)', phase = "resuming", t \notin todo
          PROVE  drv'[t].pc # "none"
      <4>1. drv[t].pc # "none"
        BY <1>0, <1>5, <3>1 DEF Resumes
      <4> QED
        BY <1>1, <1>3, <1>5, <3>1, <4>1
    <3> QED
      BY <3>1
  <2> QED
    BY <1>0, <1>1, <2>1, <2>2 DEF Resumes
<1>10. ASSUME NEW t \in Sweeps PROVE Driver(t)'
  <2>1. CASE t = s
    <3>1. drv'[s].pc # "none" => rec'[s].state # "absent"
      BY <1>3 DEF Active
    <3> QED
      BY <1>1, <1>3, <1>6, <2>1, <3>1 DEF Driver, IsActive
  <2>2. CASE t # s
    BY <1>0, <1>1, <1>6, <2>2 DEF Driver, IsActive
  <2> QED
    BY <2>1, <2>2
<1>11. ASSUME NEW t \in Sweeps PROVE Posted(t)'
  <2>1. CASE t = s
    <3>1. IsActive(s) => posts[s] = 0
      BY <1>0 DEF Posted, IsActive, Active, Types
    <3>2. s \in todo => crashes > 0
      BY <1>0 DEF Resumes
    <3>3. posts'[s] > 0 => rec'[s].state = "completed"
      BY <1>0, <1>2, <1>4, <3>1 DEF Posted, Types
    <3>4. posts'[s] <= crashes + 1
      BY <1>0, <1>4, <3>1 DEF Posted, Types
    <3>5. s \in todo => posts'[s] <= crashes
      BY <1>0, <1>4, <3>1, <3>2 DEF Posted, Types
    <3> QED
      BY <1>1, <2>1, <3>3, <3>4, <3>5 DEF Posted
  <2>2. CASE t # s
    BY <1>0, <1>1, <1>4, <2>2 DEF Posted
  <2> QED
    BY <2>1, <2>2
<1>12. ASSUME NEW c \in Callers PROVE Caller(c)'
  <2>1. call[c].pc \in {"create", "launch"} => call[c].sweep # s
    BY <1>0, <1>1 DEF Launching
  <2> QED
    BY <1>0, <1>1, <1>5, <2>1 DEF Caller
<1> QED
  BY <1>7, <1>8, <1>9, <1>10, <1>11, <1>12 DEF IInv

(* A step of a driver has one of the outcomes. *)
LEMMA DriverOutcome == ASSUME IInv, NEW s \in Sweeps, DriverStep(s) PROVE Outcome(s)
  BY DriveOutcome, DriveCreateOutcome, DriveLaunchOutcome, DriveStartOutcome, DriveReadOutcome,
     DriveStoppedOutcome, DriveRestartOutcome, DriveOpenSignInOutcome, DriveSignedInOutcome,
     DriveErrorOutcome, DriveRecheckOutcome, DriveNotifiedOutcome DEF DriverStep

(* A step that concerns only ScrapeX or the time leaves the invariant alone. *)
LEMMA Elsewhere ==
    ASSUME IInv, UNCHANGED <<phase, rec, posts, drv, lock, call, todo, posting, crashes>>
    PROVE  IInv'
<1>1. Types' /\ Alone' /\ Resumes'
  BY DEF IInv, Types, Alone, Resumes, IsActive
<1>2. ASSUME NEW s \in Sweeps PROVE Driver(s)' /\ Posted(s)'
  <2>1. Launching(s)' <=> Launching(s)
    BY DEF Launching
  <2>2. Driver(s) /\ Posted(s)
    BY DEF IInv
  <2> QED
    BY <2>1, <2>2, Zenon DEF Driver, Posted, IsActive
<1>3. ASSUME NEW c \in Callers PROVE Caller(c)'
  BY DEF IInv, Caller, IsActive
<1> QED
  BY <1>1, <1>2, <1>3 DEF IInv

(* _ensure_driver gives a sweep a driver when it has none. *)
LEMMA EnsureFact ==
    ASSUME Types, NEW s \in Sweeps, EnsureDriver(s)
    PROVE  /\ DOMAIN drv' = Sweeps
           /\ \A t \in Sweeps \ {s} : drv'[t] = drv[t]
           /\ IF drv[s].pc = "none" THEN drv'[s].pc = "loop" ELSE drv'[s] = drv[s]
<1>1. CASE drv[s].pc = "none"
  BY <1>1, GotoFact DEF EnsureDriver, Loop
<1>2. CASE drv[s].pc # "none"
  BY <1>2 DEF EnsureDriver, Types
<1> QED
  BY <1>1, <1>2

(* Giving an active sweep a driver, while nobody launches it, keeps the invariant. *)
LEMMA DriverEnsured ==
    ASSUME IInv, NEW s \in Sweeps, IsActive(s), ~Launching(s), phase # "down",
           EnsureDriver(s), UNCHANGED <<phase, rec, posts, lock, call, todo, posting, crashes>>
    PROVE  IInv'
<1>0. /\ Types /\ Alone /\ Resumes
      /\ \A t \in Sweeps : Driver(t) /\ Posted(t)
      /\ \A c \in Callers : Caller(c)
  BY DEF IInv
<1>1. /\ DOMAIN drv' = Sweeps
      /\ \A t \in Sweeps \ {s} : drv'[t] = drv[t]
      /\ IF drv[s].pc = "none" THEN drv'[s].pc = "loop" ELSE drv'[s] = drv[s]
  BY <1>0, EnsureFact
<1>2. \A t \in Sweeps : drv'[t].pc \in {drv[t].pc, "loop"}
  BY <1>1
<1>3. Types'
  BY <1>0, <1>1, <1>2 DEF Types
<1>4. Alone' /\ Resumes'
  BY <1>0, <1>2 DEF Alone, Resumes, IsActive
<1>5. ASSUME NEW t \in Sweeps PROVE Driver(t)' /\ Posted(t)'
  <2>1. Posted(t)'
    BY <1>0 DEF Posted
  <2>2. Launching(t)' <=> Launching(t)
    BY DEF Launching
  <2>3. CASE t = s /\ drv[s].pc = "none"
    <3>1. drv'[s].pc = "loop" /\ rec[s].state # "absent"
      BY <1>1, <2>3 DEF IsActive, Active
    <3>2. "loop" \notin Busy
      BY DEF Busy
    <3> QED
      BY <2>1, <2>2, <2>3, <3>1, <3>2 DEF Driver
  <2>4. CASE ~(t = s /\ drv[s].pc = "none")
    <3>1. drv'[t] = drv[t]
      BY <1>1, <2>4
    <3>2. Driver(t)
      BY <1>0
    <3> QED
      BY <2>1, <2>2, <3>1, <3>2, Zenon DEF Driver, IsActive
  <2> QED
    BY <2>1, <2>3, <2>4
<1>6. ASSUME NEW c \in Callers PROVE Caller(c)'
  BY <1>0 DEF Caller, IsActive
<1> QED
  BY <1>3, <1>4, <1>5, <1>6 DEF IInv

(* Nobody launches a sweep while its call does not hold the lock. *)
LEMMA NobodyLaunches ==
    ASSUME IInv, lock = NoCaller \/ phase # "serving", NEW s PROVE ~Launching(s)
<1>1. ASSUME NEW c \in Callers PROVE call[c].pc = "idle"
  BY SweepAssumption DEF IInv, Caller
<1> QED
  BY <1>1 DEF Launching

(* status() gives an active sweep its driver. *)
LEMMA StatusKeeps == ASSUME ~StatusInLaunch, IInv, NEW s \in Sweeps, Status(s) PROVE IInv'
  BY DriverEnsured DEF Status

(* start() finds an active sweep, or takes the lock. *)
LEMMA StartKeeps == ASSUME IInv, NEW c \in Callers, Start(c) PROVE IInv'
<1>1. lock = NoCaller /\ phase = "serving" /\ call[c].pc = "idle"
  BY DEF Start, In
<1>2. CASE \E s \in Sweeps : IsActive(s) /\ EnsureDriver(s)
  <2>1. PICK s \in Sweeps : IsActive(s) /\ EnsureDriver(s)
    BY <1>2
  <2>2. ~Launching(s)
    BY <1>1, NobodyLaunches
  <2>3. CASE UNCHANGED <<call, lock>>
    BY <1>1, <2>1, <2>2, <2>3, DriverEnsured DEF Start
  <2>4. CASE ~UNCHANGED <<call, lock>>
    BY <2>1, <2>4 DEF Start
  <2> QED
    BY <2>3, <2>4
<1>3. CASE /\ \A s \in Sweeps : ~IsActive(s)
           /\ lock' = c /\ Call(c, "ask", 0, NoRecord) /\ UNCHANGED drv
  <2>0. /\ Types /\ Alone /\ Resumes
        /\ \A t \in Sweeps : Driver(t) /\ Posted(t)
        /\ \A d \in Callers : Caller(d)
    BY DEF IInv
  <2>1. /\ DOMAIN call' = Callers /\ call'[c].pc = "ask"
        /\ \A d \in Callers \ {c} : call'[d] = call[d]
    BY <1>3, <2>0 DEF Call, Types
  <2>2. UNCHANGED <<phase, rec, posts, drv, todo, posting, crashes>> /\ lock' = c
    BY <1>3 DEF Start
  <2>3. Types'
    BY <2>0, <2>1, <2>2 DEF Types
  <2>4. Alone' /\ Resumes'
    BY <2>0, <2>2 DEF Alone, Resumes, IsActive
  <2>5. ASSUME NEW t \in Sweeps PROVE Driver(t)' /\ Posted(t)'
    BY <2>0, <2>1, <2>2 DEF Driver, Posted, IsActive, Launching
  <2>6. ASSUME NEW d \in Callers PROVE Caller(d)'
    BY <1>1, <1>3, <2>0, <2>1, <2>2, SweepAssumption DEF Caller, IsActive
  <2> QED
    BY <2>3, <2>4, <2>5, <2>6 DEF IInv
<1> QED
  BY <1>2, <1>3 DEF Start

(* A call that returns, with nothing saved, keeps the invariant. *)
LEMMA ReturnKeeps ==
    ASSUME IInv, NEW c \in Callers, call[c].pc # "idle", Return(c),
           UNCHANGED <<phase, rec, posts, drv, todo, posting, crashes>>
    PROVE  IInv'
<1>0. /\ Types /\ Alone /\ Resumes
      /\ \A t \in Sweeps : Driver(t) /\ Posted(t)
      /\ \A d \in Callers : Caller(d)
  BY DEF IInv
<1>1. /\ DOMAIN call' = Callers /\ call'[c].pc = "idle" /\ lock' = NoCaller
      /\ \A d \in Callers \ {c} : call'[d] = call[d]
  BY <1>0 DEF Return, Idle, Types
<1>2. lock = c
  BY <1>0 DEF Caller
<1>3. Types'
  BY <1>0, <1>1 DEF Types
<1>4. Alone' /\ Resumes'
  BY <1>0 DEF Alone, Resumes, IsActive
<1>5. ASSUME NEW t \in Sweeps PROVE Driver(t)' /\ Posted(t)'
  <2>1. Launching(t)' => Launching(t)
    BY <1>1 DEF Launching
  <2>2. Driver(t) /\ Posted(t)
    BY <1>0
  <2> QED
    BY <2>1, <2>2, Zenon DEF Driver, Posted, IsActive
<1>6. ASSUME NEW d \in Callers PROVE Caller(d)'
  BY <1>0, <1>1, <1>2, SweepAssumption DEF Caller, IsActive
<1> QED
  BY <1>3, <1>4, <1>5, <1>6 DEF IInv

(* A turn that is cancelled leaves a record for the next driver. *)
LEMMA StartCancelledKeeps == ASSUME IInv, NEW c \in Callers, StartCancelled(c) PROVE IInv'
  BY ReturnKeeps DEF StartCancelled

(* What start() learned still holds when it saves the record of a new sweep. *)
LEMMA StartAnsweredKeeps == ASSUME IInv, NEW c \in Callers, StartAnswered(c) PROVE IInv'
<1>0. /\ Types /\ Alone /\ Resumes
      /\ \A t \in Sweeps : Driver(t) /\ Posted(t)
      /\ \A d \in Callers : Caller(d)
  BY DEF IInv
<1>1. phase = "serving" /\ call[c].pc = "ask" /\ lock = c /\ \A t \in Sweeps : ~IsActive(t)
  BY <1>0 DEF StartAnswered, In, Caller
<1>2. UNCHANGED <<phase, posts, drv, todo, posting, crashes>>
  BY DEF StartAnswered
<1>3. CASE Return(c) /\ UNCHANGED rec
  BY <1>1, <1>2, <1>3, ReturnKeeps
<1>4. CASE \E s \in Sweeps, missing \in (SUBSET ROs) \ {{}} :
             /\ ~Exists(s) /\ Saved(s, NewRecord(missing))
             /\ Call(c, "create", s, NewRecord(missing)) /\ UNCHANGED lock
  <2>1. PICK s \in Sweeps, missing \in (SUBSET ROs) \ {{}} :
             /\ ~Exists(s) /\ Saved(s, NewRecord(missing))
             /\ Call(c, "create", s, NewRecord(missing)) /\ UNCHANGED lock
    BY <1>4
  <2> DEFINE new == NewRecord(missing)
  <2>2. InState(new, {"running"})
    BY DEF NewRecord, InState
  <2> HIDE DEF new
  <2>3. DOMAIN rec' = Sweeps /\ rec'[s] = new /\ \A t \in Sweeps \ {s} : rec'[t] = rec[t]
    BY <1>0, <2>1, SavedFact DEF new
  <2>4. /\ DOMAIN call' = Callers
        /\ call'[c].pc = "create" /\ call'[c].sweep = s /\ call'[c].rec = new
        /\ \A d \in Callers \ {c} : call'[d] = call[d]
    BY <1>0, <2>1 DEF Call, Types, new
  <2>5. rec[s].state = "absent" /\ drv[s].pc = "none"
    <3>1. rec[s].state = "absent"
      BY <2>1 DEF Exists, NoRecord
    <3> QED
      BY <1>0, <3>1 DEF Driver
  <2>6. /\ \A t \in Sweeps \ {s} : ~IsActive(t)'
        /\ rec'[s].state = "running" /\ UNCHANGED lock
    BY <1>1, <2>1, <2>2, <2>3 DEF IsActive, InState
  <2>7. Types'
    <3>1. InState(new, {"absent"} \cup Active \cup Terminal)
      BY <2>2 DEF InState, Active
    <3> QED
      BY <1>0, <1>2, <2>3, <2>4, <2>6, <3>1 DEF Types
  <2>8. Alone'
    BY <2>6 DEF Alone
  <2>9. Resumes'
    BY <1>0, <1>1, <1>2 DEF Resumes
  <2>10. ASSUME NEW t \in Sweeps PROVE Driver(t)'
    <3>1. CASE t = s
      BY <1>2, <2>5, <3>1 DEF Driver, Busy
    <3>2. CASE t # s
      <4>1. Launching(t)' => Launching(t)
        BY <2>4, <3>2 DEF Launching
      <4>2. Driver(t) /\ rec'[t] = rec[t]
        BY <1>0, <2>3, <3>2
      <4> QED
        BY <1>2, <4>1, <4>2, Zenon DEF Driver, IsActive
    <3> QED
      BY <3>1, <3>2
  <2>11. ASSUME NEW t \in Sweeps PROVE Posted(t)'
    <3>1. Posted(t) /\ posts[t] \in Nat /\ crashes \in Nat
      BY <1>0 DEF Types
    <3> QED
      BY <1>2, <2>3, <2>5, <3>1 DEF Posted
  <2>12. ASSUME NEW d \in Callers PROVE Caller(d)'
    <3>1. CASE d = c
      BY <1>1, <1>2, <2>2, <2>4, <2>6, <3>1 DEF Caller
    <3>2. CASE d # c
      <4>1. call'[d].pc = "idle"
        BY <1>0, <1>1, <2>4, <3>2 DEF Caller
      <4> QED
        BY <1>1, <2>6, <3>2, <4>1 DEF Caller
    <3> QED
      BY <3>1, <3>2
  <2> QED
    BY <2>7, <2>8, <2>9, <2>10, <2>11, <2>12 DEF IInv
<1> QED
  BY <1>3, <1>4 DEF StartAnswered

(* start() learns of its first batch: the sweep goes on with a driver, or has failed. *)
LEMMA StartLaunchedKeeps ==
    ASSUME IInv, NEW c \in Callers, call[c].pc \in {"create", "launch"}, NEW a, NEW r,
           InState(r, {"running"}), StartLaunched(c, a, r),
           UNCHANGED <<phase, posts, todo, posting, crashes>>
    PROVE  IInv'
<1>0. /\ Types /\ Alone /\ Resumes
      /\ \A t \in Sweeps : Driver(t) /\ Posted(t)
      /\ \A d \in Callers : Caller(d)
  BY DEF IInv
<1> DEFINE s == call[c].sweep
<1>1. /\ s \in Sweeps /\ rec[s].state = "running" /\ lock = c /\ phase = "serving"
      /\ drv[s].pc = "none" /\ IsActive(s)
  <2>1. s \in Sweeps /\ rec[s].state = "running" /\ lock = c /\ phase = "serving"
    BY <1>0 DEF Caller
  <2>2. Launching(s)
    BY DEF Launching
  <2> QED
    BY <1>0, <2>1, <2>2 DEF Driver, IsActive, Active
<1>2. /\ DOMAIN call' = Callers /\ call'[c].pc = "idle" /\ lock' = NoCaller
      /\ \A d \in Callers \ {c} : call'[d] = call[d]
  BY <1>0 DEF StartLaunched, Return, Idle, Types
<1>3. \A d \in Callers : call'[d].pc = "idle"
  BY <1>0, <1>1, <1>2 DEF Caller
<1>4. /\ DOMAIN rec' = Sweeps /\ DOMAIN drv' = Sweeps
      /\ \A t \in Sweeps \ {s} : rec'[t] = rec[t] /\ drv'[t] = drv[t]
      /\ InState(rec'[s], {"running", "failed"})
      /\ \/ drv'[s].pc = "loop" /\ rec'[s].state = "running"
         \/ drv'[s].pc = "none" /\ rec'[s].state = "failed"
  <2>1. CASE a = "ok"
    <3>1. Saved(s, r) /\ EnsureDriver(s)
      BY <2>1 DEF StartLaunched
    <3> QED
      BY <1>0, <1>1, <3>1, SavedFact, EnsureFact DEF InState
  <2>2. CASE a # "ok"
    <3>1. Saved(s, [r EXCEPT !.state = "failed"]) /\ UNCHANGED drv
      BY <2>2 DEF StartLaunched
    <3>2. InState([r EXCEPT !.state = "failed"], {"failed"})
      BY KeepsState DEF InState
    <3>3. /\ DOMAIN rec' = Sweeps /\ rec'[s] = [r EXCEPT !.state = "failed"]
          /\ \A t \in Sweeps \ {s} : rec'[t] = rec[t]
      BY <1>0, <1>1, <3>1, SavedFact
    <3> QED
      BY <1>0, <1>1, <3>1, <3>2, <3>3 DEF InState, Types
  <2> QED
    BY <2>1, <2>2
<1> HIDE DEF s
<1>5. \A t \in Sweeps : IsActive(t)' => t = s /\ drv'[s].pc = "loop"
  <2>1. ASSUME NEW t \in Sweeps, IsActive(t)' PROVE t = s
    BY <1>0, <1>1, <1>4, <2>1 DEF IsActive, Alone
  <2> QED
    BY <1>4, <2>1 DEF IsActive, Active
<1>6. Types'
  <2>1. InState(rec'[s], {"absent"} \cup Active \cup Terminal)
    BY <1>4 DEF InState, Active, Terminal
  <2>2. drv'[s].pc \in {"none", "loop"}
    BY <1>4
  <2> QED
    BY <1>0, <1>2, <1>4, <2>1, <2>2 DEF Types
<1>7. Alone' /\ Resumes'
  BY <1>0, <1>1, <1>5 DEF Alone, Resumes
<1>8. ASSUME NEW t \in Sweeps PROVE Driver(t)'
  <2>0. ~Launching(t)'
    BY <1>3 DEF Launching
  <2>1. CASE t = s
    BY <1>1, <1>4, <2>0, <2>1 DEF Driver, Busy
  <2>2. CASE t # s
    <3>1. Driver(t) /\ rec'[t] = rec[t] /\ drv'[t] = drv[t]
      BY <1>0, <1>4, <2>2
    <3> QED
      BY <2>0, <3>1, Zenon DEF Driver, IsActive
  <2> QED
    BY <2>1, <2>2
<1>9. ASSUME NEW t \in Sweeps PROVE Posted(t)'
  <2>1. Posted(t) /\ posts[t] \in Nat /\ crashes \in Nat
    BY <1>0 DEF Types
  <2> QED
    BY <1>1, <1>4, <2>1 DEF Posted
<1>10. ASSUME NEW d \in Callers PROVE Caller(d)'
  BY <1>2, <1>3, SweepAssumption DEF Caller
<1> QED
  BY <1>6, <1>7, <1>8, <1>9, <1>10 DEF IInv

(* start_batch answered, inside start(). *)
LEMMA StartLaunchKeeps == ASSUME IInv, NEW c \in Callers, StartLaunch(c) PROVE IInv'
<1>1. PICK a \in Answers : StartLaunched(c, a, AfterStart(call[c].rec, a))
  BY DEF StartLaunch
<1>2. call[c].pc = "launch" /\ InState(call[c].rec, {"running"})
  BY DEF StartLaunch, In, IInv, Caller
<1>3. InState(AfterStart(call[c].rec, a), {"running"})
  BY <1>2, AfterStartState DEF InState
<1> QED
  BY <1>1, <1>2, <1>3, StartLaunchedKeeps DEF StartLaunch

(* create_batch answered, inside start(): the call goes on, or has failed. *)
LEMMA StartCreateKeeps == ASSUME IInv, NEW c \in Callers, StartCreate(c) PROVE IInv'
<1>0. /\ Types /\ Alone /\ Resumes
      /\ \A t \in Sweeps : Driver(t) /\ Posted(t)
      /\ \A d \in Callers : Caller(d)
  BY DEF IInv
<1> DEFINE s == call[c].sweep
           r == call[c].rec
<1>1. /\ call[c].pc = "create" /\ InState(r, {"running"}) /\ s \in Sweeps /\ lock = c
      /\ rec[s].state = "running" /\ phase = "serving"
  BY <1>0 DEF StartCreate, In, Caller
<1>2. UNCHANGED <<phase, posts, todo, posting, crashes>>
  BY DEF StartCreate
<1>3. PICK a \in Answers :
        IF a = "ok" THEN /\ Call(c, "launch", s, AfterCreate(r, a))
                         /\ UNCHANGED <<rec, drv, lock>>
                    ELSE StartLaunched(c, a, AfterCreate(r, a))
  BY DEF StartCreate
<1> DEFINE q == AfterCreate(r, a)
<1>4. InState(q, {"running"})
  BY <1>1, AfterCreateState DEF InState
<1> HIDE DEF q
<1>5. CASE a # "ok"
  BY <1>1, <1>2, <1>3, <1>4, <1>5, StartLaunchedKeeps DEF q
<1>6. CASE a = "ok"
  <2>1. UNCHANGED <<rec, drv, lock>>
    BY <1>3, <1>6
  <2>2. /\ DOMAIN call' = Callers
        /\ call'[c].pc = "launch" /\ call'[c].sweep = s /\ call'[c].rec = q
        /\ \A d \in Callers \ {c} : call'[d] = call[d]
    BY <1>0, <1>3, <1>6 DEF Call, Types, q
  <2>3. Types'
    BY <1>0, <1>2, <2>1, <2>2 DEF Types
  <2>4. Alone' /\ Resumes'
    BY <1>0, <1>2, <2>1 DEF Alone, Resumes, IsActive
  <2>5. ASSUME NEW t \in Sweeps PROVE Driver(t)' /\ Posted(t)'
    <3>1. Launching(t)' => Launching(t)
      BY <1>1, <2>2 DEF Launching
    <3>2. Driver(t) /\ Posted(t)
      BY <1>0
    <3> QED
      BY <1>2, <2>1, <3>1, <3>2, Zenon DEF Driver, Posted, IsActive
  <2>6. ASSUME NEW d \in Callers PROVE Caller(d)'
    <3>1. CASE d = c
      BY <1>1, <1>2, <1>4, <2>1, <2>2, <3>1 DEF Caller
    <3>2. CASE d # c
      BY <1>0, <1>2, <2>1, <2>2, <3>2 DEF Caller, IsActive
    <3> QED
      BY <3>1, <3>2
  <2> QED
    BY <2>3, <2>4, <2>5, <2>6 DEF IInv
<1> QED
  BY <1>5, <1>6

-----------------------------------------------------------------------------
(* A crash stops every task and call: what is saved is left for resume(). *)
LEMMA CrashKeeps == ASSUME IInv, Crash PROVE IInv'
<1>0. /\ Types /\ Alone /\ Resumes
      /\ \A t \in Sweeps : Driver(t) /\ Posted(t)
      /\ \A d \in Callers : Caller(d)
  BY DEF IInv
<1>1. /\ phase' = "down" /\ crashes' = crashes + 1 /\ phase # "down"
      /\ lock' = NoCaller /\ todo' = {} /\ posting' = 0 /\ UNCHANGED <<rec, posts>>
  BY DEF Crash
<1>2. DOMAIN drv' = Sweeps /\ \A s \in Sweeps : drv'[s].pc = "none"
  BY DEF Crash, NoDriver
<1>3. DOMAIN call' = Callers /\ \A c \in Callers : call'[c].pc = "idle"
  BY DEF Crash, Idle
<1>4. Types'
  <2>1. crashes' \in Nat
    BY <1>0, <1>1 DEF Types
  <2>2. /\ \A s \in Sweeps : drv'[s].pc \in {"none", "loop", "notify"} \cup Busy
        /\ \A c \in Callers : call'[c].pc \in {"idle", "ask", "create", "launch"}
    BY <1>2, <1>3
  <2> QED
    BY <1>0, <1>1, <1>2, <1>3, <2>1, <2>2, Zenon DEF Types
<1>5. Alone'
  BY <1>0, <1>1 DEF Alone, IsActive
<1>6. Resumes'
  BY <1>0, <1>1 DEF Resumes, Types
<1>7. ASSUME NEW s \in Sweeps PROVE Driver(s)'
  BY <1>2 DEF Driver, Busy
<1>8. ASSUME NEW s \in Sweeps PROVE Posted(s)'
  BY <1>0, <1>1 DEF Posted, Types
<1>9. ASSUME NEW c \in Callers PROVE Caller(c)'
  BY <1>1, <1>3, SweepAssumption DEF Caller
<1> QED
  BY <1>4, <1>5, <1>6, <1>7, <1>8, <1>9 DEF IInv

(* resume() lists every record, the active ones among them. *)
LEMMA RestartKeeps == ASSUME IInv, Restart PROVE IInv'
<1>0. /\ Types /\ Alone /\ Resumes
      /\ \A t \in Sweeps : Driver(t) /\ Posted(t)
      /\ \A d \in Callers : Caller(d)
  BY DEF IInv
<1>1. /\ phase = "down" /\ phase' = "resuming" /\ todo' = {s \in Sweeps : Exists(s)}
      /\ UNCHANGED <<rec, posts, drv, lock, call, posting, crashes>>
  BY DEF Restart
<1>2. Types'
  BY <1>0, <1>1 DEF Types
<1>3. Alone'
  BY <1>0, <1>1 DEF Alone, IsActive
<1>4. Resumes'
  <2>1. \A s \in Sweeps : IsActive(s) => s \in todo'
    BY <1>1 DEF IsActive, Exists, NoRecord, Active
  <2> QED
    BY <1>0, <1>1, <2>1 DEF Resumes, IsActive
<1>5. ASSUME NEW s \in Sweeps PROVE Driver(s)' /\ Posted(s)'
  <2>1. drv[s].pc = "none"
    BY <1>0, <1>1 DEF Driver
  <2>2. Driver(s)'
    BY <1>1, <2>1 DEF Driver, Busy
  <2>3. Posted(s)'
    BY <1>0, <1>1 DEF Posted
  <2> QED
    BY <2>2, <2>3
<1>6. ASSUME NEW c \in Callers PROVE Caller(c)'
  <2>1. call[c].pc = "idle" /\ lock # c
    BY <1>0, <1>1 DEF Caller
  <2> QED
    BY <1>1, <2>1 DEF Caller
<1> QED
  BY <1>2, <1>3, <1>4, <1>5, <1>6 DEF IInv

(* A result that was posted again is marked as notified. *)
LEMMA ResumePostedKeeps == ASSUME IInv, ResumePosted PROVE IInv'
<1>0. /\ Types /\ Alone /\ Resumes
      /\ \A t \in Sweeps : Driver(t) /\ Posted(t)
      /\ \A d \in Callers : Caller(d)
  BY DEF IInv
<1>1. /\ phase = "resuming" /\ posting \in Sweeps /\ rec[posting].state = "completed"
      /\ posting' = 0 /\ UNCHANGED <<phase, posts, drv, lock, call, todo, crashes>>
  BY <1>0 DEF ResumePosted, Types, Resumes
<1> DEFINE told == [rec[posting] EXCEPT !.notified = TRUE]
<1>2. InState(told, {"completed"})
  BY <1>0, <1>1, KeepsState DEF Types, InState
<1>3. Saved(posting, told)
  BY DEF ResumePosted
<1> HIDE DEF told
<1>4. /\ DOMAIN rec' = Sweeps /\ rec'[posting] = told
      /\ \A t \in Sweeps \ {posting} : rec'[t] = rec[t]
  BY <1>0, <1>1, <1>3, SavedFact
<1>5. \A t \in Sweeps : rec'[t].state = rec[t].state /\ "state" \in DOMAIN rec'[t]
  BY <1>0, <1>1, <1>2, <1>4 DEF InState, Types
<1>6. Types'
  BY <1>0, <1>1, <1>4, <1>5 DEF Types, InState
<1>7. Alone' /\ Resumes'
  BY <1>0, <1>1, <1>5 DEF Alone, Resumes, IsActive
<1>8. ASSUME NEW t \in Sweeps PROVE Driver(t)' /\ Posted(t)'
  <2>1. Driver(t) /\ Posted(t) /\ rec'[t].state = rec[t].state
    BY <1>0, <1>5
  <2>2. Launching(t)' <=> Launching(t)
    BY <1>1 DEF Launching
  <2> QED
    BY <1>1, <2>1, <2>2, Zenon DEF Driver, Posted, IsActive
<1>9. ASSUME NEW c \in Callers PROVE Caller(c)'
  <2>1. call[c].pc = "idle" /\ lock # c
    BY <1>0, <1>1 DEF Caller
  <2> QED
    BY <1>1, <2>1 DEF Caller
<1> QED
  BY <1>6, <1>7, <1>8, <1>9 DEF IInv

(* Requests are served once every record was looked at. *)
LEMMA ServeKeeps == ASSUME IInv, Serve PROVE IInv'
<1>0. /\ Types /\ Alone /\ Resumes
      /\ \A t \in Sweeps : Driver(t) /\ Posted(t)
      /\ \A d \in Callers : Caller(d)
  BY DEF IInv
<1>1. /\ phase = "resuming" /\ phase' = "serving" /\ todo = {} /\ posting = 0
      /\ UNCHANGED <<rec, posts, drv, lock, call, todo, posting, crashes>>
  BY DEF Serve
<1>2. Types' /\ Alone' /\ Resumes'
  BY <1>0, <1>1 DEF Types, Alone, Resumes, IsActive
<1>3. ASSUME NEW t \in Sweeps PROVE Driver(t)' /\ Posted(t)'
  <2>1. Driver(t) /\ Posted(t)
    BY <1>0
  <2>2. Launching(t)' <=> Launching(t)
    BY <1>1 DEF Launching
  <2>3. Driver(t)'
    BY <1>1, <2>1, <2>2 DEF Driver, IsActive
  <2>4. Posted(t)'
    BY <1>1, <2>1 DEF Posted
  <2> QED
    BY <2>3, <2>4
<1>4. ASSUME NEW c \in Callers PROVE Caller(c)'
  <2>1. call[c].pc = "idle" /\ lock # c
    BY <1>0, <1>1 DEF Caller
  <2> QED
    BY <1>1, <2>1 DEF Caller
<1> QED
  BY <1>2, <1>3, <1>4 DEF IInv

(* Taking a record off the list keeps the invariant, once it is driven when it is active
   and its results are within what the crashes allow. *)
LEMMA ResumeKeeps == ASSUME IInv, NEW s \in Sweeps, Resume(s) PROVE IInv'
<1>0. /\ Types /\ Alone /\ Resumes
      /\ \A t \in Sweeps : Driver(t) /\ Posted(t)
      /\ \A d \in Callers : Caller(d)
  BY DEF IInv
<1>1. /\ phase = "resuming" /\ s \in todo /\ posting = 0 /\ todo' = todo \ {s}
      /\ UNCHANGED <<phase, rec, lock, call, crashes>>
  BY DEF Resume
<1>2. ~Launching(s)
  BY <1>1, NobodyLaunches
<1>3. \A t \in Sweeps : Launching(t)' <=> Launching(t)
  BY <1>1 DEF Launching
<1>4. /\ DOMAIN drv' = Sweeps /\ \A t \in Sweeps \ {s} : drv'[t] = drv[t]
      /\ drv'[s] = drv[s] \/ (IsActive(s) /\ drv'[s].pc = "loop")
      /\ IsActive(s) => drv'[s].pc # "none"
  <2>1. CASE IsActive(s) /\ EnsureDriver(s)
    BY <1>0, <2>1, EnsureFact
  <2>2. CASE ~IsActive(s) /\ UNCHANGED drv
    BY <1>0, <2>2 DEF Types
  <2> QED
    BY <2>1, <2>2 DEF Resume, IsActive, Active
<1>5. /\ posts' \in [Sweeps -> Nat] /\ \A t \in Sweeps \ {s} : posts'[t] = posts[t]
      /\ \/ posts'[s] = posts[s] /\ posting' = 0
         \/ /\ posting' = s /\ rec[s].state = "completed"
            /\ posts'[s] \in {posts[s], posts[s] + 1}
  <2>1. CASE UNCHANGED <<posts, posting>>
    BY <1>0, <1>1, <2>1 DEF Types
  <2>2. CASE PostsMessage(s) /\ posting' = s /\ rec[s].state = "completed"
    BY <1>0, <2>2, PostsFact
  <2> QED
    BY <2>1, <2>2 DEF Resume
<1>6. Types'
  <2>1. drv'[s].pc \in {"none", "loop", "notify"} \cup Busy
    BY <1>0, <1>4 DEF Types
  <2> QED
    BY <1>0, <1>1, <1>4, <1>5, <2>1 DEF Types
<1>7. Alone'
  BY <1>0, <1>1 DEF Alone, IsActive
<1>8. Resumes'
  BY <1>0, <1>1, <1>4, <1>5 DEF Resumes, IsActive
<1>9. ASSUME NEW t \in Sweeps PROVE Driver(t)'
  <2>1. Driver(t) /\ (Launching(t)' <=> Launching(t))
    BY <1>0, <1>3
  <2>2. CASE drv'[t] = drv[t]
    BY <1>1, <2>1, <2>2, Zenon DEF Driver, IsActive
  <2>3. CASE drv'[t] # drv[t]
    <3>1. t = s /\ drv'[t].pc = "loop" /\ rec[t].state # "absent"
      BY <1>4, <2>3 DEF IsActive, Active
    <3> QED
      BY <1>1, <1>2, <1>3, <3>1 DEF Driver, Busy
  <2> QED
    BY <2>2, <2>3
<1>10. ASSUME NEW t \in Sweeps PROVE Posted(t)'
  <2>1. Posted(t) /\ posts[t] \in Nat /\ crashes \in Nat /\ posts'[t] \in Nat
    BY <1>0, <1>5 DEF Types
  <2>2. CASE t = s
    BY <1>1, <1>5, <2>1, <2>2 DEF Posted
  <2>3. CASE t # s
    BY <1>1, <1>5, <2>1, <2>3 DEF Posted
  <2> QED
    BY <2>2, <2>3
<1>11. ASSUME NEW c \in Callers PROVE Caller(c)'
  <2>1. call[c].pc = "idle" /\ lock # c
    BY <1>0, <1>1 DEF Caller
  <2> QED
    BY <1>1, <2>1 DEF Caller
<1> QED
  BY <1>6, <1>7, <1>8, <1>9, <1>10, <1>11 DEF IInv

-----------------------------------------------------------------------------
(* A new installation has no record, driver or call. *)
LEMMA Begins == ASSUME Init PROVE IInv
<1>1. Types
  BY DEF Init, Types, InState, NoRecord, NoDriver, Idle
<1>2. Alone /\ Resumes
  BY DEF Init, Alone, Resumes, IsActive, Active, NoRecord
<1>3. ASSUME NEW s \in Sweeps PROVE Driver(s) /\ Posted(s)
  BY DEF Init, Driver, Posted, NoDriver, Busy
<1>4. ASSUME NEW c \in Callers PROVE Caller(c)
  BY SweepAssumption DEF Init, Caller, Idle
<1> QED
  BY <1>1, <1>2, <1>3, <1>4 DEF IInv

(* No step breaks the invariant. *)
LEMMA Continues == ASSUME ~StatusInLaunch, IInv, [Next]_vars PROVE IInv'
<1>1. CASE \E s \in Sweeps : DriverStep(s)
  BY <1>1, DriverOutcome, OutcomeKeeps
<1>2. CASE \E s \in Sweeps : Status(s) \/ Resume(s)
  BY <1>2, StatusKeeps, ResumeKeeps
<1>3. CASE \/ \E s \in Sweeps : TimeLimit(s)
           \/ \E id \in BatchIds : BatchWorks(id) \/ BatchStops(id)
           \/ UNCHANGED vars
  BY <1>3, Elsewhere DEF TimeLimit, BatchWorks, BatchStops, vars
<1>4. CASE \E c \in Callers : Start(c) \/ CallerStep(c) \/ StartCancelled(c)
  BY <1>4, StartKeeps, StartAnsweredKeeps, StartCreateKeeps, StartLaunchKeeps,
     StartCancelledKeeps DEF CallerStep
<1>5. CASE Crash \/ Restart \/ ResumePosted \/ Serve
  BY <1>5, CrashKeeps, RestartKeeps, ResumePostedKeeps, ServeKeeps
<1> QED
  BY <1>1, <1>2, <1>3, <1>4, <1>5 DEF Next

(* The invariant always holds, as long as nobody asks for the status of a sweep whose
   first batch is being launched. *)
LEMMA Invariance == ASSUME ~StatusInLaunch PROVE Spec => []IInv
<1>1. Init => IInv
  BY Begins
<1>2. IInv /\ [Next]_vars => IInv'
  BY Continues
<1> QED
  BY <1>1, <1>2, PTL DEF Spec

(* Of the sweeps at most one is active. *)
LEMMA OneActiveFact == ASSUME IInv PROVE OneActive
<1> DEFINE S == {s \in Sweeps : IsActive(s)}
<1>1. CASE S = {}
  BY <1>1, FS_EmptySet DEF OneActive
<1>2. CASE S # {}
  <2>1. PICK s \in S : TRUE
    BY <1>2
  <2>2. S = {s}
    BY <2>1 DEF IInv, Alone
  <2>3. Cardinality(S) = 1
    BY <2>2, FS_Singleton
  <2> QED
    BY <2>3 DEF OneActive
<1> QED
  BY <1>1, <1>2

(* Results are counted. *)
LEMMA PostsBoundedFact == ASSUME IInv PROVE PostsBounded
  BY DEF IInv, Posted, PostsBounded, Types

(* A user has one active sweep at a time, although start() awaits Calibration IQ and
   ScrapeX between its check and its record (adas_map_sweep.py:458-605). *)
THEOREM OneActiveProved == ASSUME ~StatusInLaunch PROVE Spec => []OneActive
<1>1. IInv => OneActive
  BY OneActiveFact
<1> QED
  BY <1>1, Invariance, PTL

(* A result is posted once, and once more at most for every crash or shutdown, and only
   of a completed sweep (adas_map_sweep.py:657-681, 1104-1134). *)
THEOREM PostsBoundedProved == ASSUME ~StatusInLaunch PROVE Spec => []PostsBounded
<1>1. IInv => PostsBounded
  BY PostsBoundedFact
<1> QED
  BY <1>1, Invariance, PTL

(* A call that asked for its first batch either asks ScrapeX to start it, or learns how
   the launch ended. *)
Learns(c) == \E a, r : /\ call[c].pc \in {"create", "launch"} /\ InState(r, {"running"})
                       /\ StartLaunched(c, a, r)
AsksOn(c) == /\ call[c].pc = "create" /\ UNCHANGED <<rec, drv>>
             /\ \E r : Call(c, "launch", call[c].sweep, r)
(* Each answer of ScrapeX leads to one of the two. *)
LEMMA LaunchGoesOn ==
    ASSUME IInv, NEW c \in Callers, StartCreate(c) \/ StartLaunch(c)
    PROVE  Learns(c) \/ AsksOn(c)
<1>1. call[c].pc \in {"create", "launch"} /\ InState(call[c].rec, {"running"})
  BY DEF StartCreate, StartLaunch, In, IInv, Caller
<1>2. CASE StartLaunch(c)
  <2>1. PICK a \in Answers : StartLaunched(c, a, AfterStart(call[c].rec, a))
    BY <1>2 DEF StartLaunch
  <2>2. InState(AfterStart(call[c].rec, a), {"running"})
    BY <1>1, AfterStartState DEF InState
  <2> QED
    BY <1>1, <2>1, <2>2, Zenon DEF Learns
<1>3. CASE StartCreate(c)
  <2>1. PICK a \in Answers :
          IF a = "ok" THEN /\ Call(c, "launch", call[c].sweep, AfterCreate(call[c].rec, a))
                           /\ UNCHANGED <<rec, drv, lock>>
                      ELSE StartLaunched(c, a, AfterCreate(call[c].rec, a))
    BY <1>3 DEF StartCreate
  <2>2. InState(AfterCreate(call[c].rec, a), {"running"})
    BY <1>1, AfterCreateState DEF InState
  <2>3. CASE a = "ok"
    <3>1. call[c].pc = "create"
      BY <1>3 DEF StartCreate, In
    <3> QED
      BY <2>1, <2>3, <3>1, Zenon DEF AsksOn
  <2>4. CASE a # "ok"
    <3>1. StartLaunched(c, a, AfterCreate(call[c].rec, a))
      BY <2>1, <2>4
    <3> QED
      BY <1>1, <2>2, <3>1, Zenon DEF Learns
  <2> QED
    BY <2>3, <2>4
<1> QED
  BY <1>2, <1>3

(* No step takes a sweep out of a terminal state. *)
LEMMA StaysEnded ==
    ASSUME ~StatusInLaunch, IInv, [Next]_vars, NEW s \in Sweeps, rec[s].state \in Terminal
    PROVE  rec'[s].state = rec[s].state
<1>0. Types /\ ~IsActive(s) /\ rec[s].state # "absent"
  BY DEF IInv, IsActive, Active, Terminal
<1>1. CASE \E t \in Sweeps : DriverStep(t)
  <2>1. PICK t \in Sweeps : Outcome(t)
    BY <1>1, DriverOutcome
  <2> QED
    BY <1>0, <2>1 DEF Outcome, GoesOn, Finishes, Ends, InState
<1>2. CASE UNCHANGED rec
  BY <1>2
<1>3. CASE \E c \in Callers : CallerStep(c)
  <2>1. PICK c \in Callers : CallerStep(c)
    BY <1>3
  <2>2. ASSUME NEW t \in Sweeps, NEW r, rec[t].state \in {"absent", "running"}, Saved(t, r)
        PROVE  UNCHANGED rec[s]
    BY <1>0, <2>2, SavedFact DEF Terminal
  <2>3. CASE StartAnswered(c)
    <3>1. CASE \E t \in Sweeps : ~Exists(t) /\ \E r : Saved(t, r)
      BY <2>2, <3>1 DEF Exists, NoRecord
    <3> QED
      BY <1>2, <2>3, <3>1 DEF StartAnswered
  <2>4. CASE Learns(c)
    <3>1. PICK a, r : call[c].pc \in {"create", "launch"} /\ StartLaunched(c, a, r)
      BY <2>4 DEF Learns
    <3>2. \E q : Saved(call[c].sweep, q)
      BY <3>1, Zenon DEF StartLaunched
    <3>3. call[c].sweep \in Sweeps /\ rec[call[c].sweep].state = "running"
      BY <3>1 DEF IInv, Caller
    <3> QED
      BY <2>2, <3>2, <3>3
  <2>5. CASE StartCreate(c) \/ StartLaunch(c)
    BY <1>2, <2>4, <2>5, LaunchGoesOn DEF AsksOn
  <2> QED
    BY <2>1, <2>3, <2>5 DEF CallerStep
<1>4. CASE ResumePosted
  <2>1. posting \in Sweeps /\ "state" \in DOMAIN rec[posting]
    BY <1>0, <1>4 DEF ResumePosted, Types, InState
  <2>2. Saved(posting, [rec[posting] EXCEPT !.notified = TRUE])
    BY <1>4 DEF ResumePosted
  <2>3. [rec[posting] EXCEPT !.notified = TRUE].state = rec[posting].state
    BY <2>1, KeepsState DEF InState
  <2> QED
    BY <1>0, <2>1, <2>2, <2>3, SavedFact
<1>5. CASE \/ \E t \in Sweeps : Status(t) \/ Resume(t) \/ TimeLimit(t)
           \/ \E c \in Callers : Start(c) \/ StartCancelled(c)
           \/ \E id \in BatchIds : BatchWorks(id) \/ BatchStops(id)
           \/ Crash \/ Restart \/ Serve \/ UNCHANGED vars
  <2>1. UNCHANGED rec
    BY <1>5 DEF Status, Resume, TimeLimit, Start, StartCancelled, BatchWorks, BatchStops, Crash,
       Restart, Serve, vars
  <2> QED
    BY <1>2, <2>1
<1> QED
  BY <1>1, <1>3, <1>4, <1>5 DEF Next, CallerStep

(* A sweep that completed or failed stays so: no task that read the record earlier saves
   it as running again (adas_map_sweep.py:587-605, 837). *)
THEOREM TerminalIsFinalProved == ASSUME ~StatusInLaunch PROVE Spec => TerminalIsFinal
<1>1. IInv /\ [Next]_vars =>
        [\A s \in Sweeps : rec[s].state \in Terminal => rec'[s].state = rec[s].state]_vars
  BY StaysEnded
<1> QED
  BY <1>1, Invariance, PTL DEF Spec, TerminalIsFinal

-----------------------------------------------------------------------------
(* While requests are served, an active sweep has a driver or the call that launches
   it; the list of resume() and the drivers hold the others. *)
LEMMA StaysDriven ==
    ASSUME ~StatusInLaunch, ~StopsInLaunch, IInv, ActiveIsDriven, [Next]_vars
    PROVE  ActiveIsDriven'
<1>0. Types /\ Resumes
  BY DEF IInv
<1> SUFFICES ASSUME phase' = "serving", NEW s \in Sweeps, IsActive(s)'
             PROVE  drv'[s].pc # "none" \/ Launching(s)'
  BY DEF ActiveIsDriven
<1>1. CASE \E t \in Sweeps : DriverStep(t)
  <2>1. PICK t \in Sweeps : Outcome(t)
    BY <1>1, DriverOutcome
  <2>2. CASE s = t
    BY <2>1, <2>2 DEF Outcome, GoesOn, Finishes, Ends, InState, IsActive, Busy
  <2>3. CASE s # t
    <3>1. rec'[s] = rec[s] /\ drv'[s] = drv[s] /\ UNCHANGED <<phase, call>>
      BY <2>1, <2>3 DEF Outcome
    <3> QED
      BY <3>1 DEF ActiveIsDriven, IsActive, Launching
  <2> QED
    BY <2>2, <2>3
<1>2. CASE \/ \E t \in Sweeps : TimeLimit(t)
           \/ \E id \in BatchIds : BatchWorks(id) \/ BatchStops(id)
           \/ UNCHANGED vars
  <2>1. UNCHANGED <<phase, rec, drv, call>>
    BY <1>2 DEF TimeLimit, BatchWorks, BatchStops, vars
  <2> QED
    BY <2>1 DEF ActiveIsDriven, IsActive, Launching
<1>3. CASE \E t \in Sweeps : Status(t)
  <2>1. PICK t \in Sweeps : Status(t)
    BY <1>3
  <2>2. UNCHANGED <<phase, rec, call>> /\ EnsureDriver(t)
    BY <2>1 DEF Status
  <2>3. drv'[s].pc # "none" \/ drv'[s] = drv[s]
    BY <1>0, <2>2, EnsureFact
  <2> QED
    BY <2>2, <2>3 DEF ActiveIsDriven, IsActive, Launching
<1>4. CASE Crash \/ Restart \/ ResumePosted \/ \E t \in Sweeps : Resume(t)
  BY <1>4 DEF Crash, Restart, ResumePosted, Resume
<1>5. CASE Serve
  BY <1>0, <1>5 DEF Serve, Resumes, IsActive
<1>6. ASSUME NEW c \in Callers, Start(c) PROVE drv'[s].pc # "none" \/ Launching(s)'
  <2>1. UNCHANGED <<phase, rec>> /\ call[c].pc = "idle"
    BY <1>6 DEF Start, In
  <2>2. CASE \E t \in Sweeps : EnsureDriver(t) /\ UNCHANGED call
    <3>1. drv'[s].pc # "none" \/ drv'[s] = drv[s]
      BY <1>0, <2>2, EnsureFact
    <3> QED
      BY <2>1, <2>2, <3>1 DEF ActiveIsDriven, IsActive, Launching
  <2>3. CASE \A t \in Sweeps : ~IsActive(t)
    BY <2>1, <2>3 DEF IsActive
  <2> QED
    BY <1>6, <2>2, <2>3 DEF Start
<1>7. ASSUME NEW c \in Callers, StartCancelled(c) PROVE drv'[s].pc # "none" \/ Launching(s)'
  <2>1. UNCHANGED <<phase, rec, drv>> /\ call[c].pc \notin {"create", "launch"}
    BY <1>7 DEF StartCancelled
  <2>2. \A d \in Callers \ {c} : call'[d] = call[d]
    BY <1>0, <1>7 DEF StartCancelled, Return, Types
  <2>3. Launching(s) => Launching(s)'
    BY <2>1, <2>2 DEF Launching
  <2> QED
    BY <2>1, <2>3 DEF ActiveIsDriven, IsActive
<1>8. ASSUME NEW c \in Callers, CallerStep(c) PROVE drv'[s].pc # "none" \/ Launching(s)'
  <2>1. Caller(c) /\ Alone /\ UNCHANGED phase
    BY <1>8 DEF IInv, CallerStep, StartAnswered, StartCreate, StartLaunch
  <2>2. CASE Learns(c)
    <3>1. PICK a, r : /\ call[c].pc \in {"create", "launch"} /\ InState(r, {"running"})
                      /\ StartLaunched(c, a, r)
      BY <2>2 DEF Learns
    <3> DEFINE t == call[c].sweep
    <3>2. t \in Sweeps /\ IsActive(t)
      BY <2>1, <3>1 DEF Caller, IsActive, Active
    <3>3. \E v : Saved(t, v)
      BY <3>1, Zenon DEF StartLaunched
    <3>4. \A u \in Sweeps \ {t} : rec'[u] = rec[u]
      BY <1>0, <3>2, <3>3, SavedFact
    <3>5. s = t
      BY <2>1, <3>2, <3>4 DEF Alone, IsActive
    <3>6. CASE a = "ok"
      <4>1. EnsureDriver(t)
        BY <3>1, <3>6 DEF StartLaunched
      <4> QED
        BY <1>0, <3>2, <3>5, <4>1, EnsureFact
    <3>7. CASE a # "ok"
      <4>1. Saved(t, [r EXCEPT !.state = "failed"])
        BY <3>1, <3>7 DEF StartLaunched
      <4>2. rec'[t] = [r EXCEPT !.state = "failed"]
        BY <1>0, <3>2, <4>1, SavedFact
      <4>3. [r EXCEPT !.state = "failed"].state \notin Active
        BY <3>1, KeepsState DEF InState, Active
      <4> QED
        BY <3>5, <4>2, <4>3 DEF IsActive
    <3> QED
      BY <3>6, <3>7
  <2>3. CASE StartAnswered(c)
    <3>1. call[c].pc = "ask" /\ UNCHANGED drv /\ \A t \in Sweeps : ~IsActive(t)
      BY <2>1, <2>3 DEF StartAnswered, In, Caller
    <3>2. CASE UNCHANGED rec
      BY <3>1, <3>2 DEF IsActive
    <3>3. CASE \E t \in Sweeps : \E r : Saved(t, r) /\ Call(c, "create", t, r)
      <4>0. PICK t \in Sweeps : \E r : Saved(t, r) /\ Call(c, "create", t, r)
        BY <3>3
      <4>1. PICK r : Saved(t, r) /\ Call(c, "create", t, r)
        BY <4>0
      <4>2. s = t
        BY <1>0, <3>1, <4>1, SavedFact DEF IsActive
      <4>3. call'[c].pc = "create" /\ call'[c].sweep = t
        BY <1>0, <4>1 DEF Call, Types
      <4> QED
        BY <4>2, <4>3 DEF Launching
    <3> QED
      BY <2>3, <3>2, <3>3 DEF StartAnswered
  <2>4. CASE AsksOn(c)
    <3>1. /\ call'[c].pc = "launch" /\ call'[c].sweep = call[c].sweep
          /\ \A d \in Callers \ {c} : call'[d] = call[d]
      BY <1>0, <2>4 DEF AsksOn, Call, Types
    <3>2. Launching(s) => Launching(s)'
      BY <2>4, <3>1 DEF AsksOn, Launching
    <3> QED
      BY <2>1, <2>4, <3>2 DEF AsksOn, ActiveIsDriven, IsActive
  <2>5. CASE StartCreate(c) \/ StartLaunch(c)
    BY <2>2, <2>4, <2>5, LaunchGoesOn
  <2> QED
    BY <1>8, <2>3, <2>5 DEF CallerStep
<1> QED
  BY <1>1, <1>2, <1>3, <1>4, <1>5, <1>6, <1>7, <1>8 DEF Next

(* While requests are served an active sweep has a driver, or the start() that is
   launching it, also after crashes at any moment, as long as no turn is cancelled while
   it launches (adas_map_sweep.py:657-681, 773-837). *)
THEOREM ActiveIsDrivenProved ==
    ASSUME ~StatusInLaunch, ~StopsInLaunch PROVE Spec => []ActiveIsDriven
<1>1. Init => ActiveIsDriven
  BY DEF Init, ActiveIsDriven, IsActive, Active, NoRecord
<1>2. IInv /\ ActiveIsDriven /\ [Next]_vars => ActiveIsDriven'
  BY StaysDriven
<1> QED
  BY <1>1, <1>2, Invariance, PTL DEF Spec

-----------------------------------------------------------------------------
(* What a record says, given the batches of ScrapeX. *)

\* A record as it is built; its batches are told apart below.
Shape(r) ==
    /\ DOMAIN r = {"state", "targets", "chunks", "items", "passes", "retried", "error",
                   "notified"}
    /\ r.state \in Active \cup Terminal /\ r.error \in {"none", "launch", "cut"}
    /\ r.targets \in (SUBSET ROs) \ {{}} /\ r.chunks \in Seq(ChunkType)
    /\ r.items \in [r.targets -> ItemStates] /\ r.passes \in [r.targets -> 0 .. 2]
    /\ {r.retried, r.notified} \subseteq BOOLEAN

\* A repair order is counted as attempted in a pass once its chunk of that pass was
\* launched.
Attempted(r, p, o) ==
    \E i \in DOMAIN r.chunks :
        r.chunks[i].pass = p /\ o \in r.chunks[i].ros /\ r.chunks[i].state # "pending"
Attempts(r, o) == (IF Attempted(r, 1, o) THEN 1 ELSE 0) + (IF Attempted(r, 2, o) THEN 1 ELSE 0)

\* The chunks behind one that is not done are untouched.
InOrder(r) ==
    \A i, j \in DOMAIN r.chunks : i < j /\ r.chunks[i].state # "done" =>
        r.chunks[j].state = "pending" /\ r.chunks[j].batch = 0

\* Every repair order is once in a pass; the second pass comes after the first one and has
\* the orders that need the operator.
InPasses(r) ==
    /\ \A i, j \in DOMAIN r.chunks : r.chunks[i].pass = r.chunks[j].pass /\ i # j =>
          r.chunks[i].ros \cap r.chunks[j].ros = {}
    /\ \A i \in DOMAIN r.chunks :
          /\ ~r.retried => r.chunks[i].pass = 1
          /\ r.retried /\ r.chunks[i].pass = 1 => r.chunks[i].state = "done"
    /\ r.retried => \A o \in r.targets : r.items[o] = "needs_operator" =>
          \E i \in DOMAIN r.chunks : r.chunks[i].pass = 2 /\ o \in r.chunks[i].ros
    /\ \A o \in r.targets : r.passes[o] <= Attempts(r, o)

\* What a batch that is processed said last of the repair orders of a chunk.
Told(B, r, i) ==
    LET c == r.chunks[i] IN
    /\ c.batch # 0 /\ Processed(B[c.batch])
    /\ \A o \in c.ros : \/ r.items[o] = B[c.batch].items[o]
                        \/ \E j \in DOMAIN r.chunks : j > i /\ o \in r.chunks[j].ros

\* A chunk has the batch that was created for it, and is done when that is processed, or
\* it was given up.
Backed(B, s, r) ==
    \A i \in DOMAIN r.chunks :
        /\ r.chunks[i].ros \subseteq r.targets
        /\ r.chunks[i].failed => r.chunks[i].state = "done"
        /\ r.chunks[i].state \in {"created", "running"} => r.chunks[i].batch # 0
        /\ r.chunks[i].batch # 0 =>
             /\ r.chunks[i].batch \in 1 .. Len(B) /\ B[r.chunks[i].batch].sweep = s
             /\ B[r.chunks[i].batch].chunk = i /\ B[r.chunks[i].batch].ros = r.chunks[i].ros
        /\ r.chunks[i].state = "done" /\ ~r.chunks[i].failed => Told(B, r, i)

Record(B, s, r) == Shape(r) /\ InOrder(r) /\ InPasses(r) /\ Backed(B, s, r)

\* No chunk that is still pending has a batch.
Unasked(r) == \A i \in DOMAIN r.chunks : r.chunks[i].state = "pending" => r.chunks[i].batch = 0

\* What may be reported: everything was worked through and tried again, or it was cut.
Reportable(r) == r.error = "cut" \/ (r.retried /\ Open(r) = {})

\* Two records whose chunks are as far.
Level(q, r) ==
    /\ DOMAIN q.chunks = DOMAIN r.chunks
    /\ \A i \in DOMAIN r.chunks : q.chunks[i].state = r.chunks[i].state

\* The chunks of one record, at least as far as in another one.
Further(q, r) ==
    /\ DOMAIN r.chunks \subseteq DOMAIN q.chunks
    /\ \A i \in DOMAIN r.chunks :
          /\ r.chunks[i].state = "done" => q.chunks[i].state = "done"
          /\ q.chunks[i].state = "pending" => r.chunks[i].state = "pending"

\* Batches that grow: none goes away, and what one said of a repair order it says still.
Grows(B, C) ==
    /\ Len(B) <= Len(C)
    /\ \A id \in 1 .. Len(B) :
          /\ C[id].sweep = B[id].sweep /\ C[id].chunk = B[id].chunk /\ C[id].ros = B[id].ros
          /\ \A o \in B[id].ros : B[id].items[o] # "none" => C[id].items[o] = B[id].items[o]

-----------------------------------------------------------------------------
(* The first chunk that is not done. *)
LEMMA CurrentFact ==
    ASSUME NEW r, Shape(r), Open(r) # {}
    PROVE  /\ Current(r) \in DOMAIN r.chunks /\ Chunk1(r).state # "done"
           /\ \A j \in DOMAIN r.chunks : j < Current(r) => r.chunks[j].state = "done"
<1>1. DOMAIN r.chunks = 1 .. Len(r.chunks) /\ Len(r.chunks) \in Nat
  BY DEF Shape
<1>2. Open(r) \subseteq Nat
  BY <1>1 DEF Open
<1>3. PICK i \in Open(r) : \A j \in Open(r) : <<j, i>> \notin OpToRel(<, Nat)
  BY <1>2, NatLessThanWellFounded, WFMin
<1>4. \A j \in Open(r) : ~(j < i)
  BY <1>2, <1>3, Zenon DEF OpToRel
<1>5. Current(r) \in Open(r) /\ \A j \in Open(r) : Current(r) <= j
  <2>1. \A j \in Open(r) : i <= j
    BY <1>2, <1>4
  <2> QED
    BY <2>1, Zenon DEF Current
<1> QED
  BY <1>1, <1>5 DEF Open, Chunk1

(* Records whose chunks are as far have the same open ones. *)
LEMMA LevelFact ==
    ASSUME NEW q, NEW r, Level(q, r) PROVE Open(q) = Open(r) /\ Current(q) = Current(r)
<1>1. Open(q) = Open(r)
  BY DEF Level, Open
<1> QED
  BY <1>1, Zenon DEF Current

(* What a record says stays true while batches grow. *)
LEMMA StillBacked ==
    ASSUME NEW B, NEW C, Grows(B, C), NEW s, NEW r, Record(B, s, r), Len(B) \in Nat, Len(C) \in Nat
    PROVE  Record(C, s, r)
<1> SUFFICES Backed(C, s, r)
  BY DEF Record
<1> SUFFICES ASSUME NEW i \in DOMAIN r.chunks
             PROVE  /\ r.chunks[i].ros \subseteq r.targets
                    /\ r.chunks[i].failed => r.chunks[i].state = "done"
                    /\ r.chunks[i].state \in {"created", "running"} => r.chunks[i].batch # 0
                    /\ r.chunks[i].batch # 0 =>
                         /\ r.chunks[i].batch \in 1 .. Len(C) /\ C[r.chunks[i].batch].sweep = s
                         /\ C[r.chunks[i].batch].chunk = i
                         /\ C[r.chunks[i].batch].ros = r.chunks[i].ros
                    /\ r.chunks[i].state = "done" /\ ~r.chunks[i].failed => Told(C, r, i)
  BY Zenon DEF Backed
<1> DEFINE k == r.chunks[i].batch
<1>1. Backed(B, s, r)
  BY DEF Record
<1>2. k # 0 => /\ k \in 1 .. Len(B) /\ B[k].sweep = s /\ B[k].chunk = i /\ B[k].ros = r.chunks[i].ros
  BY <1>1 DEF Backed
<1>3. k # 0 => /\ k \in 1 .. Len(C) /\ C[k].sweep = s /\ C[k].chunk = i /\ C[k].ros = r.chunks[i].ros
  BY <1>2 DEF Grows
<1>4. ASSUME Told(B, r, i) PROVE Told(C, r, i)
  <2>1. k # 0 /\ Processed(B[k])
    BY <1>4 DEF Told
  <2>2. \A o \in B[k].ros : B[k].items[o] # "none" /\ C[k].items[o] = B[k].items[o]
    BY <1>2, <2>1 DEF Grows, Processed
  <2>3. Processed(C[k])
    BY <1>2, <1>3, <2>1, <2>2 DEF Processed
  <2> QED
    BY <1>2, <1>4, <2>1, <2>2, <2>3 DEF Told
<1> QED
  BY <1>1, <1>3, <1>4 DEF Backed

(* A record with another current chunk. *)
LEMMA WithChunkFact ==
    ASSUME NEW r, Shape(r), NEW c
    PROVE  /\ DOMAIN WithChunk(r, c) = DOMAIN r
           /\ WithChunk(r, c).chunks = [r.chunks EXCEPT ![Current(r)] = c]
           /\ \A f \in DOMAIN r \ {"chunks"} : WithChunk(r, c)[f] = r[f]
<1> DEFINE k == Current(r)
<1> HIDE DEF k
<1>1. WithChunk(r, c) = [r EXCEPT !.chunks = [r.chunks EXCEPT ![k] = c]]
  BY Zenon DEF WithChunk, k
<1> QED
  BY <1>1 DEF Shape, k

\* What a driver may make of the current chunk of a record.
Next1(B, s, r, c) ==
    /\ c \in ChunkType /\ c.ros = Chunk1(r).ros /\ c.pass = Chunk1(r).pass
    /\ c.state = "pending" => Chunk1(r).state = "pending"
    /\ c.failed => c.state = "done"
    /\ c.state \in {"created", "running"} => c.batch # 0
    /\ c.batch # 0 => /\ c.batch \in 1 .. Len(B) /\ B[c.batch].sweep = s
                      /\ B[c.batch].chunk = Current(r) /\ B[c.batch].ros = c.ros
    /\ c.state = "done" /\ ~c.failed => c.batch # 0 /\ Processed(B[c.batch])

\* A record with that chunk, and what it was told of its repair orders.
Becomes(B, s, r, q, c) ==
    /\ Shape(q) /\ q.targets = r.targets /\ q.retried = r.retried
    /\ q.chunks = [r.chunks EXCEPT ![Current(r)] = c]
    /\ \A o \in r.targets \ c.ros : q.items[o] = r.items[o] /\ q.passes[o] = r.passes[o]
    /\ \/ \A o \in c.ros : q.items[o] = r.items[o]
       \/ c.batch # 0 /\ \A o \in c.ros : q.items[o] = B[c.batch].items[o]
    /\ c.state = "done" /\ ~c.failed => \A o \in c.ros : q.items[o] = B[c.batch].items[o]
    /\ \A o \in c.ros : \/ q.passes[o] = r.passes[o]
                         \/ /\ Chunk1(r).state = "pending" /\ c.state # "pending"
                            /\ q.passes[o] = r.passes[o] + 1

(* Then the record is as it should be. *)
LEMMA BecomesFact ==
    ASSUME NEW B, NEW s, NEW r, Record(B, s, r), Open(r) # {}, NEW c, Next1(B, s, r, c),
           NEW q, Becomes(B, s, r, q, c)
    PROVE  Record(B, s, q) /\ Further(q, r)
<1> DEFINE k == Current(r)
<1>0. Shape(r) /\ Shape(q) /\ InOrder(r) /\ InPasses(r) /\ Backed(B, s, r)
  BY DEF Record, Becomes
<1>1. /\ k \in DOMAIN r.chunks /\ Chunk1(r) = r.chunks[k] /\ r.chunks[k].state # "done"
      /\ \A j \in DOMAIN r.chunks : j < k => r.chunks[j].state = "done"
  BY <1>0, CurrentFact DEF Chunk1
<1>2. /\ DOMAIN q.chunks = DOMAIN r.chunks /\ q.chunks[k] = c
      /\ \A i \in DOMAIN r.chunks \ {k} : q.chunks[i] = r.chunks[i]
  BY <1>0, <1>1 DEF Becomes, Shape
<1>3. DOMAIN r.chunks \subseteq Nat
  BY <1>0 DEF Shape
<1> HIDE DEF k
<1>4. InOrder(q)
  <2> SUFFICES ASSUME NEW i \in DOMAIN r.chunks, NEW j \in DOMAIN r.chunks, i < j,
                      q.chunks[i].state # "done"
               PROVE  q.chunks[j].state = "pending" /\ q.chunks[j].batch = 0
    BY <1>2 DEF InOrder
  <2>1. k <= i
    BY <1>1, <1>2, <1>3
  <2>2. r.chunks[j].state = "pending" /\ r.chunks[j].batch = 0
    BY <1>0, <1>1, <1>2, <1>3, <2>1 DEF InOrder
  <2> QED
    BY <1>2, <1>3, <2>1, <2>2
<1>5. Further(q, r)
  BY <1>1, <1>2 DEF Further, Next1
<1>6. InPasses(q)
  <2>1. \A i \in DOMAIN r.chunks :
          q.chunks[i].ros = r.chunks[i].ros /\ q.chunks[i].pass = r.chunks[i].pass
    BY <1>1, <1>2 DEF Next1
  <2>2. \A i, j \in DOMAIN q.chunks : q.chunks[i].pass = q.chunks[j].pass /\ i # j =>
          q.chunks[i].ros \cap q.chunks[j].ros = {}
    BY <1>0, <1>2, <2>1 DEF InPasses
  <2>3. \A i \in DOMAIN q.chunks :
          /\ ~q.retried => q.chunks[i].pass = 1
          /\ q.retried /\ q.chunks[i].pass = 1 => q.chunks[i].state = "done"
    BY <1>0, <1>2, <1>5, <2>1 DEF InPasses, Further, Becomes
  <2>4. ASSUME q.retried, NEW o \in q.targets, q.items[o] = "needs_operator"
        PROVE  \E i \in DOMAIN q.chunks : q.chunks[i].pass = 2 /\ o \in q.chunks[i].ros
    <3>1. CASE o \in c.ros
      <4>1. c.pass = 2
        BY <1>0, <1>1, <2>4 DEF InPasses, Becomes, Next1, ChunkType
      <4> QED
        BY <1>1, <1>2, <3>1, <4>1
    <3>2. CASE o \notin c.ros
      <4>1. r.items[o] = "needs_operator" /\ o \in r.targets
        BY <2>4, <3>2 DEF Becomes
      <4> QED
        BY <1>0, <1>2, <2>1, <2>4, <4>1 DEF InPasses, Becomes
    <3> QED
      BY <3>1, <3>2
  <2>5. ASSUME NEW o \in q.targets PROVE q.passes[o] <= Attempts(q, o)
    <3>1. o \in r.targets /\ r.passes[o] <= Attempts(r, o) /\ r.passes[o] \in Int
          /\ q.passes[o] \in Int
      BY <1>0 DEF InPasses, Becomes, Shape
    <3>2. \A p \in {1, 2} : Attempted(r, p, o) => Attempted(q, p, o)
      BY <1>1, <1>2, <2>1 DEF Attempted, Next1
    <3>3. CASE q.passes[o] = r.passes[o]
      BY <3>1, <3>2, <3>3 DEF Attempts
    <3>4. CASE q.passes[o] # r.passes[o]
      <4>1. /\ o \in c.ros /\ r.chunks[k].state = "pending" /\ c.state # "pending"
            /\ q.passes[o] = r.passes[o] + 1
        BY <1>1, <3>1, <3>4 DEF Becomes
      <4>2. Attempted(q, c.pass, o)
        BY <1>1, <1>2, <4>1 DEF Attempted
      <4>3. ~Attempted(r, c.pass, o)
        <5> SUFFICES ASSUME NEW i \in DOMAIN r.chunks, r.chunks[i].pass = c.pass,
                            o \in r.chunks[i].ros, r.chunks[i].state # "pending"
                     PROVE  FALSE
          BY DEF Attempted
        <5>1. i # k
          BY <4>1
        <5> QED
          BY <1>0, <1>1, <4>1, <5>1 DEF InPasses, Next1
      <4>4. c.pass \in {1, 2}
        BY DEF Next1, ChunkType
      <4> QED
        BY <3>1, <3>2, <4>1, <4>2, <4>3, <4>4 DEF Attempts
    <3> QED
      BY <3>3, <3>4
  <2> QED
    BY <2>2, <2>3, <2>4, <2>5 DEF InPasses
<1>7. Backed(B, s, q)
  <2> SUFFICES ASSUME NEW i \in DOMAIN r.chunks
               PROVE  /\ q.chunks[i].ros \subseteq q.targets
                      /\ q.chunks[i].failed => q.chunks[i].state = "done"
                      /\ q.chunks[i].state \in {"created", "running"} => q.chunks[i].batch # 0
                      /\ q.chunks[i].batch # 0 =>
                           /\ q.chunks[i].batch \in 1 .. Len(B) /\ B[q.chunks[i].batch].sweep = s
                           /\ B[q.chunks[i].batch].chunk = i
                           /\ B[q.chunks[i].batch].ros = q.chunks[i].ros
                      /\ q.chunks[i].state = "done" /\ ~q.chunks[i].failed => Told(B, q, i)
    BY <1>2, Zenon DEF Backed
  <2>1. CASE i = k
    <3>1. c.ros \subseteq q.targets
      BY <1>0, <1>1 DEF Backed, Next1, Becomes
    <3>2. c.state = "done" /\ ~c.failed => Told(B, q, i)
      BY <1>2, <2>1 DEF Told, Next1, Becomes
    <3> QED
      BY <1>1, <1>2, <2>1, <3>1, <3>2 DEF Next1, k
  <2>2. CASE i # k
    <3>1. q.chunks[i] = r.chunks[i] /\ q.targets = r.targets
      BY <1>2, <2>2 DEF Becomes
    <3>2. ASSUME r.chunks[i].state = "done", Told(B, r, i) PROVE Told(B, q, i)
      <4>1. i < k
        BY <1>0, <1>1, <1>3, <2>2, <3>2 DEF InOrder
      <4>2. ASSUME NEW o \in r.chunks[i].ros
            PROVE  \/ q.items[o] = B[r.chunks[i].batch].items[o]
                   \/ \E j \in DOMAIN q.chunks : j > i /\ o \in q.chunks[j].ros
        <5>1. CASE o \in c.ros
          BY <1>1, <1>2, <1>3, <4>1, <5>1
        <5>2. CASE o \notin c.ros
          <6>1. q.items[o] = r.items[o]
            BY <1>0, <5>2 DEF Becomes, Backed
          <6> QED
            BY <1>1, <1>2, <3>2, <6>1 DEF Told, Next1
        <5> QED
          BY <5>1, <5>2
      <4> QED
        BY <3>1, <3>2, <4>2 DEF Told
    <3> QED
      BY <1>0, <3>1, <3>2 DEF Backed
  <2> QED
    BY <2>1, <2>2
<1> QED
  BY <1>0, <1>4, <1>5, <1>6, <1>7 DEF Record

-----------------------------------------------------------------------------
(* A set in an order has each of its members once. *)
LEMMA SetToSeqFact ==
    ASSUME NEW S, IsFiniteSet(S)
    PROVE  /\ Cardinality(S) \in Nat /\ SetToSeq(S) \in [1 .. Cardinality(S) -> S]
           /\ Len(SetToSeq(S)) = Cardinality(S)
           /\ \A i, j \in 1 .. Cardinality(S) : SetToSeq(S)[i] = SetToSeq(S)[j] => i = j
           /\ \A o \in S : \E j \in 1 .. Cardinality(S) : SetToSeq(S)[j] = o
<1> DEFINE n == Cardinality(S)  f == SetToSeq(S)
<1>1. n \in Nat /\ ExistsBijection(1 .. n, S)
  BY FS_CardinalityType
<1>2. \E g \in [1 .. n -> S] : IsInjective(g)
  BY <1>1, Zenon DEF ExistsBijection, Bijection, Injection
<1>3. f \in [1 .. n -> S] /\ IsInjective(f)
  BY <1>2, Zenon DEF SetToSeq
<1> HIDE DEF n, f
<1>4. f \in Seq(S) /\ Len(f) = n
  BY <1>1, <1>3
<1>5. f \in Injection(1 .. n, S)
  BY <1>3, Zenon DEF Injection
<1>6. Cardinality(1 .. n) = n /\ IsFiniteSet(1 .. n)
  BY <1>1, FS_Interval
<1>7. f \in Surjection(1 .. n, S)
  BY <1>5, <1>6, FS_Injection DEF n
<1>8. \A o \in S : \E j \in 1 .. n : f[j] = o
  BY <1>7, Zenon DEF Surjection
<1>9. \A i, j \in 1 .. n : f[i] = f[j] => i = j
  BY <1>3, Zenon DEF IsInjective
<1> QED
  BY <1>1, <1>3, <1>4, <1>8, <1>9 DEF n, f

(* The place of an element among chunks of a size. *)
LEMMA ChunkOf ==
    ASSUME NEW L \in Nat \ {0}, NEW n \in Nat
    PROVE  LET m == (n + L - 1) \div L IN
           /\ m \in Nat
           /\ \A j \in 1 .. n : (j - 1) \div L + 1 \in 1 .. m
           /\ \A k \in 1 .. m : (k - 1) * L + 1 \in 1 .. n /\ ((k - 1) * L) \div L = k - 1
<1> DEFINE m == (n + L - 1) \div L
<1>1. m \in Int /\ m * L <= n + L - 1 /\ n + L - 1 < m * L + L
  OBVIOUS
<1>2. m >= 0
  BY <1>1
<1>3. ASSUME NEW j \in 1 .. n PROVE (j - 1) \div L + 1 \in 1 .. m
  <2> DEFINE q == (j - 1) \div L
  <2>1. q \in Int /\ q * L <= j - 1 /\ j - 1 < q * L + L
    OBVIOUS
  <2> HIDE DEF q, m
  <2>2. q >= 0
    BY <2>1
  <2>3. q < m
    BY <1>1, <1>2, <2>1, <2>2
  <2> QED
    BY <1>2, <1>1, <2>1, <2>2, <2>3 DEF q
<1>4. ASSUME NEW k \in 1 .. m PROVE (k - 1) * L + 1 \in 1 .. n /\ ((k - 1) * L) \div L = k - 1
  <2> HIDE DEF m
  <2>1. k \in Int /\ 1 <= k /\ k <= m
    BY <1>1
  <2>2. k * L <= m * L
    BY <1>1, <2>1
  <2>3. (k - 1) * L = k * L - L /\ (k - 1) * L >= 0 /\ (k - 1) * L \in Int
    BY <2>1
  <2>4. ((k - 1) * L) \div L = k - 1
    BY <2>1, <2>3
  <2> QED
    BY <1>1, <2>2, <2>3, <2>4
<1> QED
  BY <1>1, <1>2, <1>3, <1>4

(* The batches of a set of repair orders: none is empty, and every order is in one. *)
LEMMA ChunksOfFact ==
    ASSUME NEW set \in SUBSET ROs, NEW pass \in {1, 2}
    PROVE  LET cs == ChunksOf(set, pass) IN
           /\ cs \in Seq(ChunkType)
           /\ \A i \in DOMAIN cs :
                 /\ cs[i].ros \subseteq set /\ cs[i].pass = pass /\ cs[i].batch = 0
                 /\ cs[i].state = "pending" /\ cs[i].failed = FALSE
           /\ \A i, j \in DOMAIN cs : i # j => cs[i].ros \cap cs[j].ros = {}
           /\ \A o \in set : \E i \in DOMAIN cs : o \in cs[i].ros
<1> DEFINE order == SetToSeq(set)  n == Cardinality(set)  L == ChunkLimit
           m == (n + L - 1) \div L
           ros(k) == {order[j] : j \in {j \in 1 .. n : (j - 1) \div L = k - 1}}
           cs == ChunksOf(set, pass)
<1>1. IsFiniteSet(set) /\ L \in Nat \ {0}
  BY SweepAssumption, FS_Subset
<1>2. /\ n \in Nat /\ order \in [1 .. n -> set] /\ Len(order) = n
      /\ \A i, j \in 1 .. n : order[i] = order[j] => i = j
      /\ \A o \in set : \E j \in 1 .. n : order[j] = o
  BY <1>1, SetToSeqFact
<1>3. cs = [k \in 1 .. m |-> Chunk(ros(k), pass)]
  BY <1>2 DEF ChunksOf
<1>4. /\ m \in Nat
      /\ \A j \in 1 .. n : (j - 1) \div L + 1 \in 1 .. m
      /\ \A k \in 1 .. m : (k - 1) * L + 1 \in 1 .. n /\ ((k - 1) * L) \div L = k - 1
  BY <1>1, <1>2, ChunkOf
<1>5. ASSUME NEW k \in 1 .. m PROVE ros(k) \in (SUBSET set) \ {{}}
  <2>1. (k - 1) * L + 1 \in 1 .. n /\ ((k - 1) * L) \div L = k - 1
    BY <1>4
  <2> DEFINE j == (k - 1) * L + 1
  <2>2. j - 1 = (k - 1) * L
    BY <1>1, <1>4
  <2>3. j \in 1 .. n /\ (j - 1) \div L = k - 1
    BY <2>1, <2>2
  <2> HIDE DEF j
  <2>4. order[j] \in ros(k)
    BY <2>3
  <2>5. \A o \in ros(k) : o \in set
    BY <1>2
  <2> HIDE DEF ros
  <2>6. ros(k) # {} /\ ros(k) \subseteq set
    BY <2>4, <2>5
  <2> QED
    BY <2>6, Zenon
<1>6. \A i, k \in 1 .. m : i # k => ros(i) \cap ros(k) = {}
  <2> SUFFICES ASSUME NEW i \in 1 .. m, NEW k \in 1 .. m, i # k, NEW o \in ros(i), o \in ros(k)
               PROVE  FALSE
    OBVIOUS
  <2>1. PICK a \in 1 .. n : order[a] = o /\ (a - 1) \div L = i - 1
    OBVIOUS
  <2>2. PICK b \in 1 .. n : order[b] = o /\ (b - 1) \div L = k - 1
    OBVIOUS
  <2>3. a = b
    BY <1>2, <2>1, <2>2
  <2> QED
    BY <1>4, <2>1, <2>2, <2>3
<1>7. ASSUME NEW o \in set PROVE \E k \in 1 .. m : o \in ros(k)
  <2>1. PICK j \in 1 .. n : order[j] = o
    BY <1>2
  <2> DEFINE k == (j - 1) \div L + 1
  <2>2. k \in 1 .. m /\ (j - 1) \div L \in Int
    BY <1>1, <1>4
  <2>3. (j - 1) \div L = k - 1
    BY <2>2
  <2> HIDE DEF k
  <2> QED
    BY <2>1, <2>2, <2>3
<1> HIDE DEF ros, m, order, n, L
<1>8. \A k \in 1 .. m : Chunk(ros(k), pass) \in ChunkType
  BY <1>5, SweepAssumption DEF Chunk, ChunkType
<1>9. cs \in Seq(ChunkType) /\ DOMAIN cs = 1 .. m
  BY <1>3, <1>4, <1>8
<1>10. \A k \in 1 .. m : /\ cs[k].ros = ros(k) /\ cs[k].pass = pass /\ cs[k].batch = 0
                          /\ cs[k].state = "pending" /\ cs[k].failed = FALSE
  BY <1>3 DEF Chunk
<1> HIDE DEF cs
<1> QED
  BY <1>5, <1>6, <1>7, <1>9, <1>10 DEF cs

(* A sweep begins with all its repair orders in the first pass. *)
LEMMA NewRecordFact ==
    ASSUME NEW missing \in (SUBSET ROs) \ {{}}, NEW B, NEW s
    PROVE  LET r == NewRecord(missing) IN
           /\ Record(B, s, r) /\ Unasked(r) /\ r.state = "running"
           /\ Open(r) # {} /\ Chunk1(r).state = "pending"
<1> DEFINE r == NewRecord(missing)  cs == ChunksOf(missing, 1)
<1>1. /\ cs \in Seq(ChunkType)
      /\ \A i \in DOMAIN cs :
            /\ cs[i].ros \subseteq missing /\ cs[i].pass = 1 /\ cs[i].batch = 0
            /\ cs[i].state = "pending" /\ cs[i].failed = FALSE
      /\ \A i, j \in DOMAIN cs : i # j => cs[i].ros \cap cs[j].ros = {}
      /\ \A o \in missing : \E i \in DOMAIN cs : o \in cs[i].ros
  BY ChunksOfFact
<1> HIDE DEF cs
<1>2. /\ r.chunks = cs /\ r.targets = missing /\ r.retried = FALSE /\ r.state = "running"
      /\ r.passes = [o \in missing |-> 0] /\ r.items = [o \in missing |-> "none"]
      /\ Shape(r)
  BY <1>1 DEF NewRecord, Shape, cs, Active, ItemStates
<1> HIDE DEF r
<1>3. InOrder(r) /\ Unasked(r)
  BY <1>1, <1>2 DEF InOrder, Unasked
<1>4. InPasses(r)
  <2>1. \A o \in missing : r.passes[o] = 0 /\ Attempts(r, o) >= 0
    BY <1>2 DEF Attempts
  <2> QED
    BY <1>1, <1>2, <2>1 DEF InPasses
<1>5. Backed(B, s, r)
  BY <1>1, <1>2 DEF Backed
<1>6. Open(r) # {}
  <2>1. missing # {}
    BY Zenon
  <2>2. PICK o \in missing : TRUE
    BY <2>1
  <2>3. PICK i \in DOMAIN cs : TRUE
    BY <1>1, <2>2
  <2> QED
    BY <1>1, <1>2, <2>3 DEF Open
<1>7. Chunk1(r).state = "pending"
  BY <1>1, <1>2, <1>6, CurrentFact DEF Chunk1
<1> QED
  BY <1>2, <1>3, <1>4, <1>5, <1>6, <1>7 DEF Record, r

(* The retry pass comes behind the first one. *)
LEMMA RetryFact ==
    ASSUME NEW B, NEW s, NEW r, Record(B, s, r), Unasked(r), Open(r) = {}, ~r.retried
    PROVE  Record(B, s, Retry(r)) /\ Unasked(Retry(r)) /\ Further(Retry(r), r)
<1> DEFINE q == Retry(r)
           set == {o \in r.targets : r.items[o] = "needs_operator"}
           cs == ChunksOf(set, 2)  old == r.chunks  n == Len(r.chunks)
<1>0. Shape(r) /\ InOrder(r) /\ InPasses(r) /\ Backed(B, s, r)
  BY DEF Record
<1>1. /\ cs \in Seq(ChunkType)
      /\ \A i \in DOMAIN cs :
            /\ cs[i].ros \subseteq set /\ cs[i].pass = 2 /\ cs[i].batch = 0
            /\ cs[i].state = "pending" /\ cs[i].failed = FALSE
      /\ \A i, j \in DOMAIN cs : i # j => cs[i].ros \cap cs[j].ros = {}
      /\ \A o \in set : \E i \in DOMAIN cs : o \in cs[i].ros
  BY <1>0, ChunksOfFact DEF Shape
<1>2. set \subseteq r.targets
  OBVIOUS
<1>3. q = [r EXCEPT !.retried = TRUE, !.chunks = old \o cs]
  BY Zenon DEF Retry
<1> HIDE DEF cs, q, old
<1>4. /\ Shape(q) /\ q.chunks = old \o cs /\ q.targets = r.targets /\ q.items = r.items
      /\ q.passes = r.passes /\ q.retried = TRUE
  BY <1>0, <1>1, <1>3 DEF Shape, old
<1>5. n \in Nat /\ DOMAIN old = 1 .. n /\ Len(cs) \in Nat /\ DOMAIN cs = 1 .. Len(cs)
  BY <1>0, <1>1 DEF Shape, old
<1>6. /\ DOMAIN q.chunks = 1 .. n + Len(cs)
      /\ \A i \in 1 .. n : q.chunks[i] = old[i]
      /\ \A i \in n + 1 .. n + Len(cs) : i - n \in DOMAIN cs /\ q.chunks[i] = cs[i - n]
      /\ \A i \in DOMAIN cs : i + n \in DOMAIN q.chunks /\ q.chunks[i + n] = cs[i]
  BY <1>0, <1>1, <1>4, <1>5 DEF Shape, old
<1>7. \A i \in 1 .. n : old[i].state = "done" /\ old[i].pass = 1
  BY <1>0, <1>5 DEF Open, InPasses, old
<1>12. \A i \in DOMAIN q.chunks : i \notin 1 .. n =>
         /\ i - n \in DOMAIN cs /\ q.chunks[i].ros = cs[i - n].ros /\ q.chunks[i].pass = 2
         /\ q.chunks[i].batch = 0 /\ q.chunks[i].state = "pending"
         /\ q.chunks[i].failed = FALSE
  <2> SUFFICES ASSUME NEW i \in DOMAIN q.chunks, i \notin 1 .. n
               PROVE  i - n \in DOMAIN cs /\ q.chunks[i] = cs[i - n]
    BY <1>1
  <2>1. i \in n + 1 .. n + Len(cs)
    BY <1>5, <1>6
  <2> QED
    BY <1>6, <2>1
<1>8. InOrder(q) /\ Unasked(q)
  <2>1. \A i \in DOMAIN q.chunks : i \in 1 .. n => q.chunks[i].state = "done"
    BY <1>6, <1>7
  <2>2. \A i, j \in DOMAIN q.chunks : i < j /\ i \notin 1 .. n => j \notin 1 .. n
    BY <1>5, <1>6
  <2> QED
    BY <1>12, <2>1, <2>2 DEF InOrder, Unasked
<1>9. Further(q, r)
  BY <1>5, <1>6 DEF Further, old
<1>10. InPasses(q)
  <2>0. \A i \in DOMAIN q.chunks : i \in 1 .. n => q.chunks[i].pass = 1
    BY <1>6, <1>7
  <2>1. ASSUME NEW i \in DOMAIN q.chunks, NEW j \in DOMAIN q.chunks, i # j,
               q.chunks[i].pass = q.chunks[j].pass
        PROVE  q.chunks[i].ros \cap q.chunks[j].ros = {}
    <3>1. CASE i \in 1 .. n /\ j \in 1 .. n
      BY <1>0, <1>5, <1>6, <2>1, <3>1 DEF InPasses, old
    <3>2. CASE i \notin 1 .. n /\ j \notin 1 .. n
      <4>1. i - n \in DOMAIN cs /\ j - n \in DOMAIN cs /\ i - n # j - n
        BY <1>5, <1>6, <1>12, <2>1, <3>2
      <4>2. cs[i - n].ros \cap cs[j - n].ros = {}
        BY <1>1, <4>1
      <4> QED
        BY <1>12, <3>2, <4>2
    <3>3. CASE ~(i \in 1 .. n <=> j \in 1 .. n)
      BY <1>12, <2>0, <2>1, <3>3
    <3> QED
      BY <3>1, <3>2, <3>3
  <2>2. \A i \in DOMAIN q.chunks :
          /\ ~q.retried => q.chunks[i].pass = 1
          /\ q.retried /\ q.chunks[i].pass = 1 => q.chunks[i].state = "done"
    BY <1>1, <1>4, <1>5, <1>6, <1>7
  <2>3. ASSUME NEW o \in q.targets, q.items[o] = "needs_operator"
        PROVE  \E i \in DOMAIN q.chunks : q.chunks[i].pass = 2 /\ o \in q.chunks[i].ros
    <3>1. PICK i \in DOMAIN cs : o \in cs[i].ros
      BY <1>1, <1>4, <2>3
    <3>2. i + n \in DOMAIN q.chunks /\ q.chunks[i + n] = cs[i]
      BY <1>6
    <3>3. q.chunks[i + n].pass = 2 /\ o \in q.chunks[i + n].ros
      BY <1>1, <3>1, <3>2
    <3> QED
      BY <3>2, <3>3
  <2>4. ASSUME NEW o \in q.targets PROVE q.passes[o] <= Attempts(q, o)
    <3>1. r.passes[o] <= Attempts(r, o) /\ r.passes[o] \in Int /\ q.passes[o] = r.passes[o]
      BY <1>0, <1>4 DEF InPasses, Shape
    <3>2. \A p \in {1, 2} : Attempted(r, p, o) => Attempted(q, p, o)
      BY <1>5, <1>6 DEF Attempted, old
    <3> QED
      BY <3>1, <3>2 DEF Attempts
  <2> QED
    BY <2>1, <2>2, <2>3, <2>4 DEF InPasses
<1>11. Backed(B, s, q)
  <2>1. ASSUME NEW i \in 1 .. n, Told(B, r, i) PROVE Told(B, q, i)
    <3>1. DOMAIN r.chunks = 1 .. n /\ DOMAIN r.chunks \subseteq DOMAIN q.chunks
      BY <1>5, <1>6 DEF old
    <3>2. \A j \in 1 .. n : q.chunks[j] = r.chunks[j]
      BY <1>6 DEF old
    <3> QED
      BY ONLY <1>4, <2>1, <3>1, <3>2 DEF Told
  <2>2. ASSUME NEW i \in 1 .. n
        PROVE  i \in DOMAIN r.chunks /\ q.chunks[i] = r.chunks[i]
    BY <1>5, <1>6 DEF old
  <2>3. \A i \in DOMAIN cs : cs[i].ros \subseteq q.targets
    BY <1>1, <1>2, <1>4
  <2>4. \A i \in 1 .. n : q.chunks[i].ros \subseteq q.targets
    BY <1>0, <1>4, <2>2 DEF Backed
  <2>5. \A i \in DOMAIN q.chunks : q.chunks[i].ros \subseteq q.targets
    BY <1>12, <2>3, <2>4
  <2>6. \A i \in 1 .. n :
          /\ q.chunks[i].failed => q.chunks[i].state = "done"
          /\ q.chunks[i].state \in {"created", "running"} => q.chunks[i].batch # 0
          /\ q.chunks[i].batch # 0 =>
               /\ q.chunks[i].batch \in 1 .. Len(B) /\ B[q.chunks[i].batch].sweep = s
               /\ B[q.chunks[i].batch].chunk = i /\ B[q.chunks[i].batch].ros = q.chunks[i].ros
          /\ q.chunks[i].state = "done" /\ ~q.chunks[i].failed => Told(B, q, i)
    BY <1>0, <2>1, <2>2 DEF Backed
  <2> QED
    BY <1>12, <2>5, <2>6, Zenon DEF Backed
<1> QED
  BY <1>4, <1>8, <1>9, <1>10, <1>11 DEF Record, q

\* Two records that say the same of their chunks and repair orders.
Alike(q, r) ==
    /\ Shape(q) /\ q.chunks = r.chunks /\ q.targets = r.targets /\ q.items = r.items
    /\ q.passes = r.passes /\ q.retried = r.retried

(* Then they are as good as each other. *)
LEMMA AlikeFact ==
    ASSUME NEW B, NEW s, NEW r, Record(B, s, r), NEW q, Alike(q, r)
    PROVE  /\ Record(B, s, q) /\ Level(q, r) /\ Level(r, q) /\ Further(q, r)
           /\ Unasked(r) => Unasked(q)
           /\ Open(q) = Open(r) /\ Chunk1(q) = Chunk1(r)
<1>0. Alike(q, r) /\ Shape(r) /\ InOrder(r) /\ InPasses(r) /\ Backed(B, s, r)
  BY DEF Record
<1>1. Level(q, r) /\ Level(r, q) /\ Further(q, r)
  BY <1>0 DEF Alike, Level, Further
<1>2. Open(q) = Open(r) /\ Current(q) = Current(r)
  BY <1>1, LevelFact
<1>3. Record(B, s, q)
  <2>1. InOrder(q) /\ (Unasked(r) => Unasked(q))
    BY <1>0 DEF Alike, InOrder, Unasked
  <2>2. InPasses(q)
    <3>1. \A o : Attempts(q, o) = Attempts(r, o)
      BY <1>0 DEF Alike, Attempts, Attempted
    <3> QED
      BY <1>0, <3>1 DEF Alike, InPasses
  <2>3. Backed(B, s, q)
    <3>1. \A i : Told(B, r, i) => Told(B, q, i)
      BY <1>0 DEF Alike, Told
    <3> QED
      BY <1>0, <3>1 DEF Alike, Backed
  <2> QED
    BY <1>0, <2>1, <2>2, <2>3 DEF Record, Alike
<1> QED
  BY <1>0, <1>1, <1>2, <1>3 DEF Alike, Unasked, Chunk1

(* The labels of a record say nothing of its chunks. *)
LEMMA Labels ==
    ASSUME NEW r, Shape(r)
    PROVE  /\ \A v \in Active \cup Terminal :
                Alike([r EXCEPT !.state = v], r) /\ [r EXCEPT !.state = v].state = v
                /\ [r EXCEPT !.state = v].error = r.error
           /\ \A e \in {"none", "launch", "cut"} :
                Alike([r EXCEPT !.error = e], r) /\ [r EXCEPT !.error = e].error = e
                /\ [r EXCEPT !.error = e].state = r.state
           /\ Alike([r EXCEPT !.notified = TRUE], r)
           /\ [r EXCEPT !.notified = TRUE].state = r.state
           /\ [r EXCEPT !.notified = TRUE].error = r.error
  BY DEF Shape, Alike

(* A record with another current chunk is as it should be. *)
LEMMA WithChunkGood ==
    ASSUME NEW B, NEW s, NEW r, Record(B, s, r), Open(r) # {}, NEW c, Next1(B, s, r, c),
           c.state = "done" /\ ~c.failed =>
              \A o \in c.ros : r.items[o] = B[c.batch].items[o]
    PROVE  LET q == WithChunk(r, c) IN
           /\ Record(B, s, q) /\ Further(q, r) /\ q.state = r.state /\ q.error = r.error
           /\ q.chunks = [r.chunks EXCEPT ![Current(r)] = c] /\ q.items = r.items
           /\ q.targets = r.targets /\ q.passes = r.passes /\ q.retried = r.retried
           /\ q.chunks[Current(r)] = c
           /\ \A i \in DOMAIN r.chunks \ {Current(r)} : q.chunks[i] = r.chunks[i]
           /\ DOMAIN q.chunks = DOMAIN r.chunks
<1> DEFINE q == WithChunk(r, c)
<1>0. Shape(r)
  BY DEF Record
<1>1. /\ DOMAIN q = DOMAIN r /\ q.chunks = [r.chunks EXCEPT ![Current(r)] = c]
      /\ \A f \in DOMAIN r \ {"chunks"} : q[f] = r[f]
  BY <1>0, WithChunkFact
<1> HIDE DEF q
<1>2. Current(r) \in DOMAIN r.chunks
  BY <1>0, CurrentFact
<1>3. /\ q.state = r.state /\ q.error = r.error /\ q.items = r.items /\ q.targets = r.targets
      /\ q.passes = r.passes /\ q.retried = r.retried /\ q.notified = r.notified
  BY <1>0, <1>1 DEF Shape
<1>4. /\ q.chunks[Current(r)] = c /\ DOMAIN q.chunks = DOMAIN r.chunks
      /\ \A i \in DOMAIN r.chunks \ {Current(r)} : q.chunks[i] = r.chunks[i]
  BY <1>0, <1>1, <1>2 DEF Shape
<1>5. Shape(q)
  <2>1. q.chunks \in Seq(ChunkType)
    BY <1>0, <1>1, <1>2 DEF Shape, Next1
  <2> QED
    BY <1>0, <1>1, <1>3, <2>1 DEF Shape
<1>6. Becomes(B, s, r, q, c)
  BY <1>1, <1>3, <1>5 DEF Becomes
<1>7. Record(B, s, q) /\ Further(q, r)
  BY <1>6, BecomesFact
<1> QED
  BY <1>1, <1>3, <1>4, <1>7 DEF q

(* What is read of a batch at work. *)
LEMMA AppliedFact ==
    ASSUME NEW B, NEW s, NEW r, Record(B, s, r), Open(r) # {}, Chunk1(r).state = "running",
           B[Chunk1(r).batch].items \in [B[Chunk1(r).batch].ros -> ItemStates]
    PROVE  LET q == Applied(r, B[Chunk1(r).batch]) IN
           /\ Record(B, s, q) /\ Further(q, r) /\ q.state = r.state /\ q.error = r.error
           /\ q.chunks = r.chunks /\ q.targets = r.targets /\ q.retried = r.retried
           /\ \A o \in Chunk1(r).ros : q.items[o] = B[Chunk1(r).batch].items[o]
<1> DEFINE b == B[Chunk1(r).batch]  q == Applied(r, b)  c == Chunk1(r)
<1>0. Shape(r) /\ Backed(B, s, r)
  BY DEF Record
<1>1. c = r.chunks[Current(r)] /\ Current(r) \in DOMAIN r.chunks
  BY <1>0, CurrentFact DEF Chunk1
<1>2. c \in ChunkType /\ c.ros \subseteq r.targets /\ ~c.failed /\ c.batch # 0
  <2>1. c \in ChunkType
    BY <1>0, <1>1 DEF Shape
  <2>2. c.ros \subseteq r.targets /\ (c.failed => c.state = "done") /\ c.batch # 0
    BY <1>0, <1>1 DEF Backed
  <2> QED
    BY <2>1, <2>2
<1>3. b.ros = c.ros /\ c.batch \in 1 .. Len(B) /\ b.sweep = s /\ b.chunk = Current(r)
  BY <1>0, <1>1, <1>2 DEF Backed
<1> DEFINE it == [o \in r.targets |-> IF o \in b.ros THEN b.items[o] ELSE r.items[o]]
<1>4. q = [r EXCEPT !.items = it]
  BY Zenon DEF Applied
<1>5. it \in [r.targets -> ItemStates]
  BY <1>0, <1>3 DEF Shape
<1>6. \A o \in r.targets : it[o] = IF o \in b.ros THEN b.items[o] ELSE r.items[o]
  OBVIOUS
<1> HIDE DEF q, it
<1>7. /\ Shape(q) /\ q.state = r.state /\ q.error = r.error /\ q.chunks = r.chunks
      /\ q.targets = r.targets /\ q.retried = r.retried /\ q.passes = r.passes /\ q.items = it
  BY <1>0, <1>4, <1>5 DEF Shape
<1>8. r.chunks = [r.chunks EXCEPT ![Current(r)] = c]
  BY <1>0, <1>1 DEF Shape
<1>9. Next1(B, s, r, c)
  BY <1>2, <1>3 DEF Next1
<1>10. Becomes(B, s, r, q, c)
  BY <1>2, <1>3, <1>6, <1>7, <1>8 DEF Becomes
<1>11. Record(B, s, q) /\ Further(q, r)
  BY <1>9, <1>10, BecomesFact
<1> QED
  BY <1>2, <1>3, <1>6, <1>7, <1>11 DEF q

(* A chunk that is pending was not attempted yet. *)
LEMMA NotYet ==
    ASSUME NEW B, NEW s, NEW r, Record(B, s, r), Open(r) # {}, Chunk1(r).state = "pending",
           NEW o \in Chunk1(r).ros
    PROVE  o \in r.targets /\ r.passes[o] \in 0 .. 1
<1> DEFINE c == Chunk1(r)
<1>0. Shape(r) /\ InPasses(r) /\ Backed(B, s, r)
  BY DEF Record
<1>1. c = r.chunks[Current(r)] /\ Current(r) \in DOMAIN r.chunks
  BY <1>0, CurrentFact DEF Chunk1
<1>2. o \in r.targets /\ c.pass \in {1, 2}
  <2>1. c \in ChunkType
    BY <1>0, <1>1 DEF Shape
  <2>2. c.ros \subseteq r.targets
    BY <1>0, <1>1 DEF Backed
  <2> QED
    BY <2>1, <2>2 DEF ChunkType
<1>3. ~Attempted(r, c.pass, o)
  BY <1>0, <1>1 DEF Attempted, InPasses
<1>4. r.passes[o] <= Attempts(r, o) /\ r.passes[o] \in 0 .. 2
  BY <1>0, <1>2 DEF InPasses, Shape
<1> QED
  BY <1>2, <1>3, <1>4 DEF Attempts

\* The state of the chunk that a driver, or a call, works on.
Stage(at) == CASE at \in {"create", "launch"} -> "pending"
               [] at = "start" -> "created"
               [] OTHER -> "running"

\* A copy of the record of a sweep, where a driver or a call waits for an answer.
Copy(B, saved, s, at, r) ==
    /\ Record(B, s, r) /\ Level(saved, r)
    /\ at \in {"create", "launch", "start", "read", "stopped", "restart"} =>
         Open(r) # {} /\ Chunk1(r).state = Stage(at)
    /\ IF at = "launch" THEN Chunk1(r).batch # 0 ELSE Unasked(r)
    /\ at \in {"recheck", "notify"} => Reportable(r)

Known(s) == Exists(s) => /\ Record(batches, s, rec[s]) /\ Unasked(rec[s])
                         /\ rec[s].state = "completed" => Reportable(rec[s])

Copies(s) == /\ drv[s].pc \in {"none", "loop"} => drv[s].rec = NoRecord
             /\ drv[s].pc \notin {"none", "loop"} => Copy(batches, rec[s], s, drv[s].pc, drv[s].rec)

Called(c) == LET s == call[c].sweep IN
    call[c].pc \in {"create", "launch"} => Copy(batches, rec[s], s, call[c].pc, call[c].rec)

\* The batches of ScrapeX.
Parts == UNION {[ros -> ItemStates] : ros \in SUBSET ROs}
Batch == [sweep : Sweeps, chunk : Nat, ros : SUBSET ROs,
          state : {"created", "running", "stopped"}, items : Parts]
Typed(B) == B \in Seq(Batch) /\ \A id \in 1 .. Len(B) : B[id].items \in [B[id].ros -> ItemStates]

\* A batch was created for the chunk that was the current one then.
Placed(s, k) ==
    /\ Exists(s) /\ k \in DOMAIN rec[s].chunks
    /\ \A j \in DOMAIN rec[s].chunks : j < k => rec[s].chunks[j].state = "done"

\* The batches of a chunk.
Of(s, k) == {j \in BatchIds : batches[j].sweep = s /\ batches[j].chunk = k}

\* The launch of the current chunk of a sweep got as far as its batch.
Asked(s) ==
    \/ drv[s].pc = "launch"
    \/ \E c \in Callers : call[c].pc = "launch" /\ call[c].sweep = s

\* A batch may still be created for this chunk.
Fresh(s, k) ==
    /\ IsActive(s) /\ drv[s].pc # "recheck"
    /\ k \in DOMAIN rec[s].chunks => rec[s].chunks[k].state = "pending"
    /\ Asked(s) => k # Current(rec[s])

Counted(s, k) ==
    /\ Cardinality(Of(s, k)) <= 1 + crashes
    /\ Fresh(s, k) => Cardinality(Of(s, k)) <= crashes

DInv ==
    /\ late \in [Sweeps -> BOOLEAN] /\ crashes \in 0 .. MaxCrashes
    /\ Typed(batches) /\ \A id \in BatchIds : Placed(batches[id].sweep, batches[id].chunk)
    /\ \A s \in Sweeps : Known(s) /\ Copies(s)
    /\ \A c \in Callers : Called(c)
    /\ \A s \in Sweeps, k \in Nat : Counted(s, k)

-----------------------------------------------------------------------------
(* A batch is created for the current chunk of a record. *)
LEMMA CreatedFact ==
    ASSUME Typed(batches), NEW s \in Sweeps, NEW r, Record(batches, s, r), Open(r) # {},
           Created(s, r)
    PROVE  /\ Typed(batches') /\ Grows(batches, batches')
           /\ Len(batches') = Len(batches) + 1 /\ Len(batches) \in Nat
           /\ batches'[Len(batches) + 1].sweep = s
           /\ batches'[Len(batches) + 1].chunk = Current(r)
           /\ batches'[Len(batches) + 1].ros = Chunk1(r).ros
           /\ Current(r) \in Nat
           /\ batches'[Len(batches) + 1].state = "created"
           /\ \A id \in 1 .. Len(batches) : batches'[id] = batches[id]
<1> DEFINE b == [sweep |-> s, chunk |-> Current(r), ros |-> Chunk1(r).ros,
                 state |-> "created", items |-> [o \in Chunk1(r).ros |-> "none"]]
<1>1. batches' = Append(batches, b)
  BY DEF Created
<1>2. Shape(r) /\ Current(r) \in DOMAIN r.chunks /\ Chunk1(r) = r.chunks[Current(r)]
  BY CurrentFact DEF Record, Chunk1
<1>3. Current(r) \in Nat /\ Chunk1(r).ros \in SUBSET ROs
  <2>1. Chunk1(r) \in ChunkType /\ Current(r) \in Nat
    BY <1>2 DEF Shape
  <2> QED
    BY <2>1 DEF ChunkType
<1>4. b.items \in [b.ros -> ItemStates]
  BY DEF ItemStates
<1>5. b \in Batch
  <2>1. b.items \in Parts
    BY <1>3, <1>4 DEF Parts
  <2> QED
    BY <1>3, <2>1 DEF Batch
<1>6. /\ b.sweep = s /\ b.chunk = Current(r) /\ b.ros = Chunk1(r).ros
      /\ b.state = "created"
  OBVIOUS
<1> HIDE DEF b
<1>7. /\ batches \in Seq(Batch) /\ batches' \in Seq(Batch) /\ Len(batches') = Len(batches) + 1
      /\ \A id \in 1 .. Len(batches) : batches'[id] = batches[id]
      /\ batches'[Len(batches) + 1] = b /\ Len(batches) \in Nat
  BY <1>1, <1>5 DEF Typed
<1>8. \A id \in 1 .. Len(batches') : batches'[id].items \in [batches'[id].ros -> ItemStates]
  BY <1>4, <1>7 DEF Typed
<1>9. Typed(batches')
  BY <1>7, <1>8 DEF Typed
<1>10. Grows(batches, batches')
  BY <1>7 DEF Grows
<1> QED
  BY <1>3, <1>6, <1>7, <1>9, <1>10

(* A batch is started. *)
LEMMA StartedFact ==
    ASSUME Typed(batches), NEW id \in BatchIds, Started(id)
    PROVE  Typed(batches') /\ Grows(batches, batches') /\ Len(batches') = Len(batches)
<1>1. batches' = [batches EXCEPT ![id] = [batches[id] EXCEPT !.state = "running"]]
  BY Zenon DEF Started
<1> DEFINE b == [batches[id] EXCEPT !.state = "running"]
<1>2. batches[id] \in Batch
  BY DEF Typed, BatchIds
<1>3. /\ b \in Batch /\ b.sweep = batches[id].sweep /\ b.chunk = batches[id].chunk
      /\ b.ros = batches[id].ros /\ b.items = batches[id].items
  BY <1>2 DEF Batch
<1> HIDE DEF b
<1>4. /\ batches' \in Seq(Batch) /\ Len(batches') = Len(batches) /\ batches'[id] = b
      /\ \A j \in 1 .. Len(batches) : j # id => batches'[j] = batches[j]
  BY <1>1, <1>3 DEF Typed, BatchIds, b
<1>5. Typed(batches')
  BY <1>3, <1>4 DEF Typed
<1>6. Grows(batches, batches')
  <2>1. Len(batches) \in Nat
    BY DEF Typed
  <2> QED
    BY <1>3, <1>4, <2>1 DEF Grows
<1> QED
  BY <1>4, <1>5, <1>6

(* Nothing happens to the batches. *)
LEMMA SameBatches ==
    ASSUME Typed(batches), UNCHANGED batches
    PROVE  Typed(batches') /\ Grows(batches, batches') /\ Len(batches') = Len(batches)
  BY DEF Typed, Grows

-----------------------------------------------------------------------------
(* How the batches of a chunk are counted. *)
LEMMA OfSame ==
    ASSUME Grows(batches, batches'), Len(batches') = Len(batches), NEW s, NEW k
    PROVE  Of(s, k)' = Of(s, k)
  BY DEF Of, Grows, BatchIds

(* They can be counted. *)
LEMMA OfFinite == ASSUME Typed(batches), NEW s, NEW k
                  PROVE  IsFiniteSet(Of(s, k)) /\ Cardinality(Of(s, k)) \in Nat
<1>1. Len(batches) \in Nat
  BY DEF Typed
<1>2. IsFiniteSet(1 .. Len(batches))
  BY <1>1, FS_Interval
<1>3. Of(s, k) \in SUBSET (1 .. Len(batches))
  BY DEF Of, BatchIds
<1> QED
  BY <1>2, <1>3, FS_Subset, FS_CardinalityType

(* A batch is counted for its own chunk. *)
LEMMA OfMore ==
    ASSUME Typed(batches), Grows(batches, batches'), Len(batches') = Len(batches) + 1,
           NEW s, NEW k
    PROVE  LET b == batches'[Len(batches) + 1] IN
           Cardinality(Of(s, k)') = IF b.sweep = s /\ b.chunk = k THEN Cardinality(Of(s, k)) + 1
                                    ELSE Cardinality(Of(s, k))
<1> DEFINE n == Len(batches) + 1  b == batches'[n]
<1>1. n \in Nat /\ 1 .. n = (1 .. Len(batches)) \cup {n} /\ n \notin 1 .. Len(batches)
  BY DEF Typed
<1>2. Of(s, k)' = IF b.sweep = s /\ b.chunk = k THEN Of(s, k) \cup {n} ELSE Of(s, k)
  BY <1>1 DEF Of, BatchIds, Grows
<1>3. IsFiniteSet(Of(s, k))
  BY OfFinite
<1>4. n \notin Of(s, k)
  BY <1>1 DEF Of, BatchIds
<1> QED
  BY <1>2, <1>3, <1>4, FS_AddElement

-----------------------------------------------------------------------------
(* A step about one sweep, which creates at most the batch of one chunk, keeps what the
   records and copies of the others say. *)
LEMMA DataKept ==
    ASSUME DInv, Types, NEW s \in Sweeps,
           \A t \in Sweeps \ {s} : rec'[t] = rec[t] /\ drv'[t] = drv[t] /\ (Asked(t)' => Asked(t))
                                   /\ (Asked(t) => Asked(t)'),
           UNCHANGED crashes, late' \in [Sweeps -> BOOLEAN],
           Typed(batches'), Grows(batches, batches'),
           Known(s)', Copies(s)', \A c \in Callers : Called(c)',
           Exists(s) => Exists(s)' /\ Further(rec'[s], rec[s]),
           \/ Len(batches') = Len(batches)
           \/ \E k \in Nat :
                    /\ Len(batches') = Len(batches) + 1 /\ batches'[Len(batches) + 1].sweep = s
                    /\ batches'[Len(batches) + 1].chunk = k
                    /\ Placed(s, k)' /\ Fresh(s, k) /\ ~Fresh(s, k)',
           \A k \in Nat : Fresh(s, k)' => Fresh(s, k) \/ ~Exists(s)
    PROVE  DInv'
<1>0. /\ Len(batches) \in Nat /\ Len(batches') \in Nat /\ crashes \in Nat
  BY DEF Typed, Types
<1>1. ASSUME NEW t \in Sweeps PROVE Known(t)' /\ Copies(t)'
  <2>1. CASE t = s
    BY <2>1
  <2>2. CASE t # s
    <3>1. rec'[t] = rec[t] /\ drv'[t] = drv[t] /\ Known(t) /\ Copies(t)
      BY <2>2 DEF DInv
    <3>2. \A r : Record(batches, t, r) => Record(batches', t, r)
      BY <1>0, StillBacked
    <3>3. Known(t)'
      BY <3>1, <3>2 DEF Known, Exists
    <3>4. \A p, r : Copy(batches, rec[t], t, p, r) => Copy(batches', rec'[t], t, p, r)
      BY <3>1, <3>2 DEF Copy
    <3>5. Copies(t)'
      BY <3>1, <3>4 DEF Copies
    <3> QED
      BY <3>3, <3>5
  <2> QED
    BY <2>1, <2>2
<1>2. ASSUME NEW t \in Sweeps, NEW k, Placed(t, k) PROVE Placed(t, k)'
  <2>1. CASE t = s
    <3>1. Exists(s)' /\ Further(rec'[s], rec[s]) /\ Shape(rec[s]) /\ Shape(rec'[s])
      BY <1>1, <1>2, <2>1 DEF Placed, DInv, Known, Record, Exists
    <3>2. \A j \in DOMAIN rec'[s].chunks : j < k => j \in DOMAIN rec[s].chunks
      BY <1>2, <2>1, <3>1 DEF Placed, Shape
    <3> QED
      BY <1>2, <2>1, <3>1, <3>2 DEF Placed, Further
  <2>2. CASE t # s
    BY <1>2, <2>2 DEF Placed, Exists
  <2> QED
    BY <2>1, <2>2
<1>3. (\A id \in BatchIds : Placed(batches[id].sweep, batches[id].chunk))'
  <2> SUFFICES ASSUME NEW id \in 1 .. Len(batches')
               PROVE  (Placed(batches[id].sweep, batches[id].chunk))'
    BY DEF BatchIds
  <2>1. CASE id \in 1 .. Len(batches)
    <3>1. batches'[id].sweep = batches[id].sweep /\ batches'[id].chunk = batches[id].chunk
      BY <2>1 DEF Grows
    <3>2. batches[id].sweep \in Sweeps
      <4>1. batches[id] \in Batch
        BY <2>1 DEF DInv, Typed
      <4> QED
        BY <4>1 DEF Batch
    <3>3. Placed(batches[id].sweep, batches[id].chunk)
      BY <2>1 DEF DInv, BatchIds
    <3>4. PICK t \in Sweeps, k \in {batches[id].chunk} : t = batches[id].sweep
      BY <3>2
    <3>5. Placed(t, k)'
      BY <1>2, <3>3, <3>4
    <3> QED
      BY <3>1, <3>4, <3>5 DEF Placed, Exists
  <2>2. CASE id \notin 1 .. Len(batches)
    BY <1>0, <2>2 DEF Placed
  <2> QED
    BY <2>1, <2>2
<1>4. ASSUME NEW t \in Sweeps, NEW k \in Nat PROVE Counted(t, k)'
  <2>0. Counted(t, k) /\ Cardinality(Of(t, k)) \in Nat
    BY OfFinite DEF DInv
  <2>1. Fresh(t, k)' => Fresh(t, k) \/ (t = s /\ ~Exists(s))
    <3>1. CASE t = s
      BY <3>1
    <3>2. CASE t # s
      BY <3>2 DEF Fresh, IsActive
    <3> QED
      BY <3>1, <3>2
  <2>2. ~Exists(s) => Of(s, k) = {}
    BY DEF DInv, Of, Placed
  <2>3. ~Exists(s) => Cardinality(Of(s, k)) = 0
    BY <2>2, FS_EmptySet
  <2>4. CASE Len(batches') = Len(batches)
    <3>1. Of(t, k)' = Of(t, k)
      BY <2>4, OfSame
    <3> QED
      BY <1>0, <2>0, <2>1, <2>3, <3>1 DEF Counted
  <2>5. CASE \E n \in Nat :
                /\ Len(batches') = Len(batches) + 1 /\ batches'[Len(batches) + 1].sweep = s
                /\ batches'[Len(batches) + 1].chunk = n /\ Fresh(s, n) /\ ~Fresh(s, n)'
    <3>0. PICK n \in Nat :
                /\ Len(batches') = Len(batches) + 1 /\ batches'[Len(batches) + 1].sweep = s
                /\ batches'[Len(batches) + 1].chunk = n /\ Fresh(s, n) /\ ~Fresh(s, n)'
      BY <2>5
    <3>1. Cardinality(Of(t, k)') = IF t = s /\ n = k
                                   THEN Cardinality(Of(t, k)) + 1 ELSE Cardinality(Of(t, k))
      BY <3>0, OfMore DEF DInv
    <3> QED
      BY <1>0, <2>0, <2>1, <2>3, <3>0, <3>1 DEF Counted
  <2> QED
    BY <2>4, <2>5
<1>5. crashes' \in 0 .. MaxCrashes
  BY DEF DInv
<1> QED
  BY <1>1, <1>3, <1>4, <1>5 DEF DInv

(* A step of a driver keeps what is known when it keeps it of its own sweep. *)
LEMMA DriverData ==
    ASSUME IInv, DInv, NEW s \in Sweeps, Outcome(s), UNCHANGED late,
           Typed(batches'), Grows(batches, batches'),
           Known(s)', Copies(s)', Further(rec'[s], rec[s]),
           drv[s].pc = "recheck" => Finishes(s),
           \A k : drv[s].pc = "launch" /\ k = Current(rec[s]) => ~Fresh(s, k)',
           \/ Len(batches') = Len(batches)
           \/ /\ Len(batches') = Len(batches) + 1
              /\ batches'[Len(batches) + 1].sweep = s
              /\ batches'[Len(batches) + 1].chunk = Current(rec[s])
              /\ drv[s].pc = "create" /\ \A k : k = Current(rec[s]) => ~Fresh(s, k)'
    PROVE  DInv'
<1>0. /\ Types /\ Driver(s) /\ ~Launching(s) /\ Len(batches) \in Nat /\ Len(batches') \in Nat
      /\ Exists(s) /\ rec'[s] # NoRecord
  <2>1. Types /\ Driver(s) /\ ~Launching(s) /\ rec[s].state # "absent"
    BY DEF IInv, Driver, Outcome
  <2>2. rec'[s].state # "absent"
    BY <2>1 DEF Outcome, GoesOn, Finishes, Ends, InState, Active
  <2> QED
    BY <2>1, <2>2 DEF Typed, Exists, NoRecord
<1>1. \A t \in Sweeps \ {s} : rec'[t] = rec[t] /\ drv'[t] = drv[t] /\ (Asked(t)' <=> Asked(t))
  BY DEF Outcome, Asked
<1>2. \A c \in Callers : Called(c)'
  <2> SUFFICES ASSUME NEW c \in Callers, call[c].pc \in {"create", "launch"} PROVE Called(c)'
    BY DEF Called, Outcome
  <2>1. call[c].sweep \in Sweeps /\ call[c].sweep # s
    BY <1>0 DEF IInv, Caller, Launching
  <2>2. rec'[call[c].sweep] = rec[call[c].sweep] /\ call' = call
    BY <2>1 DEF Outcome
  <2>3. Copy(batches, rec[call[c].sweep], call[c].sweep, call[c].pc, call[c].rec)
    BY DEF DInv, Called
  <2>4. Copy(batches', rec'[call[c].sweep], call[c].sweep, call[c].pc, call[c].rec)
    BY <1>0, <2>2, <2>3, StillBacked DEF Copy
  <2> QED
    BY <2>2, <2>4 DEF Called
<1>3. ~Launching(s)' /\ (Asked(s) => drv[s].pc = "launch")
  BY <1>0 DEF Launching, Outcome, Asked
<1>4. ASSUME NEW k \in Nat, Fresh(s, k)' PROVE Fresh(s, k)
  <2>1. IsActive(s) /\ drv[s].pc # "recheck"
    BY <1>4 DEF Fresh, Outcome, GoesOn, Finishes, Ends, IsActive, InState, Active
  <2>2. k \in DOMAIN rec[s].chunks => rec[s].chunks[k].state = "pending"
    BY <1>4 DEF Fresh, Further
  <2>3. Asked(s) => k # Current(rec[s])
    BY <1>3, <1>4
  <2> QED
    BY <2>1, <2>2, <2>3 DEF Fresh
<1>5. CASE Len(batches') = Len(batches)
  BY <1>0, <1>1, <1>2, <1>4, <1>5, DataKept DEF Outcome, DInv, Exists
<1>6. CASE /\ Len(batches') = Len(batches) + 1
           /\ batches'[Len(batches) + 1].sweep = s
           /\ batches'[Len(batches) + 1].chunk = Current(rec[s])
           /\ drv[s].pc = "create" /\ \A k : k = Current(rec[s]) => ~Fresh(s, k)'
  <2> DEFINE k == Current(rec[s])  r == drv[s].rec
  <2>1. Copy(batches, rec[s], s, "create", r) /\ Record(batches, s, rec[s])
    BY <1>0, <1>6 DEF DInv, Copies, Known
  <2>2. /\ Open(r) # {} /\ Chunk1(r).state = "pending" /\ Open(rec[s]) = Open(r) /\ k = Current(r)
        /\ Level(rec[s], r) /\ Shape(r) /\ Shape(rec[s])
    <3>1. Level(rec[s], r) /\ Open(r) # {} /\ Chunk1(r).state = "pending" /\ Shape(r) /\ Shape(rec[s])
      BY <2>1 DEF Copy, Record, Stage
    <3> QED
      BY <3>1, LevelFact
  <2>3. /\ k \in DOMAIN rec[s].chunks /\ rec[s].chunks[k].state = "pending"
        /\ \A j \in DOMAIN rec[s].chunks : j < k => rec[s].chunks[j].state = "done"
        /\ DOMAIN rec[s].chunks \subseteq Nat
    <3>1. /\ k \in DOMAIN rec[s].chunks
          /\ \A j \in DOMAIN rec[s].chunks : j < k => rec[s].chunks[j].state = "done"
      BY <2>2, CurrentFact
    <3> QED
      BY <2>2, <3>1 DEF Level, Chunk1, Shape
  <2>4. Fresh(s, k)
    BY <1>0, <1>3, <1>6, <2>3 DEF Fresh, Driver, Busy
  <2>5. /\ k \in DOMAIN rec'[s].chunks
        /\ \A j \in DOMAIN rec'[s].chunks : j < k => rec'[s].chunks[j].state = "done"
    <3>1. k \in DOMAIN rec'[s].chunks
      BY <2>3 DEF Further
    <3>2. \A j \in DOMAIN rec'[s].chunks : j < k => rec'[s].chunks[j].state = "done"
      <4>1. Shape(rec'[s])
        BY <1>0 DEF Known, Exists, Record
      <4>2. \A j \in DOMAIN rec'[s].chunks : j < k => j \in DOMAIN rec[s].chunks
        BY <2>2, <2>3, <4>1 DEF Shape
      <4> QED
        BY <2>3, <4>2 DEF Further
    <3> QED
      BY <3>1, <3>2
  <2>6. PICK n \in Nat : n = k
    BY <2>3
  <2>7. /\ Placed(s, n)' /\ Fresh(s, n) /\ ~Fresh(s, n)'
    BY <1>0, <1>6, <2>4, <2>5, <2>6 DEF Placed, Exists
  <2>8. \E m \in Nat :
           /\ Len(batches') = Len(batches) + 1 /\ batches'[Len(batches) + 1].sweep = s
           /\ batches'[Len(batches) + 1].chunk = m
           /\ Placed(s, m)' /\ Fresh(s, m) /\ ~Fresh(s, m)'
    BY <1>6, <2>6, <2>7
  <2> QED
    BY <1>0, <1>1, <1>2, <1>4, <2>8, DataKept DEF Outcome, DInv, Exists
<1> QED
  BY <1>5, <1>6

-----------------------------------------------------------------------------
(* A record that is saved is known, a driver that loops has no copy, and one that goes on
   has a copy. *)
LEMMA SavedKnown ==
    ASSUME Types, NEW s \in Sweeps, NEW q, Saved(s, q), Record(batches', s, q), Unasked(q),
           q.state = "completed" => Reportable(q)
    PROVE  Known(s)' /\ rec'[s] = q
<1>1. rec'[s] = q
  BY SavedFact
<1> QED
  BY <1>1 DEF Known

(* A driver that loops has no copy. *)
LEMMA LoopCopies ==
    ASSUME Types, NEW s \in Sweeps, Loop(s) \/ Ended(s)
    PROVE  Copies(s)' /\ drv'[s].pc \in {"none", "loop"}
  BY DEF Loop, Goto, Ended, NoDriver, Types, Copies

(* A driver that goes on has the copy it goes on with. *)
LEMMA GoesCopies ==
    ASSUME Types, NEW s \in Sweeps, NEW p, p \notin {"none", "loop"}, NEW q, Goto(s, p, q),
           Copy(batches', rec'[s], s, p, q)
    PROVE  Copies(s)' /\ drv'[s].pc = p
<1>1. drv'[s].pc = p /\ drv'[s].rec = q
  BY GotoFact
<1> QED
  BY <1>1 DEF Copies

(* What a driver knows of its copy. *)
LEMMA HasCopy ==
    ASSUME DInv, NEW s \in Sweeps, drv[s].pc \notin {"none", "loop"}, Exists(s)
    PROVE  LET r == drv[s].rec IN
           /\ Copy(batches, rec[s], s, drv[s].pc, r) /\ Record(batches, s, r) /\ Shape(r) /\ Level(rec[s], r)
           /\ Open(rec[s]) = Open(r) /\ Current(rec[s]) = Current(r)
           /\ Record(batches, s, rec[s]) /\ Unasked(rec[s])
<1>1. Copy(batches, rec[s], s, drv[s].pc, drv[s].rec) /\ Known(s)
  BY DEF DInv, Copies
<1> QED
  BY <1>1, LevelFact DEF Copy, Known, Record

(* A record that is further than a copy is further than what was saved, and the other way
   around for one as far. *)
LEMMA FurtherFact ==
    ASSUME NEW p, NEW q, NEW r
    PROVE  /\ Further(q, q)
           /\ Further(q, r) /\ Level(p, r) => Further(q, p)
           /\ Level(q, q) /\ (Level(q, r) => Level(r, q) /\ Further(q, r))
  BY DEF Further, Level

-----------------------------------------------------------------------------
(* The chunk that a driver or a call works on. *)
LEMMA Chunk1Fact ==
    ASSUME NEW B, NEW s, NEW r, Record(B, s, r), Open(r) # {}
    PROVE  LET c == Chunk1(r) IN
           /\ c \in ChunkType /\ Current(r) \in Nat /\ Current(r) \in DOMAIN r.chunks
           /\ c = r.chunks[Current(r)] /\ ~c.failed /\ c.state # "done"
           /\ c.state \in {"created", "running"} => c.batch # 0
           /\ c.batch # 0 => /\ c.batch \in 1 .. Len(B) /\ B[c.batch].sweep = s
                             /\ B[c.batch].chunk = Current(r) /\ B[c.batch].ros = c.ros
<1>1. /\ Current(r) \in DOMAIN r.chunks /\ Chunk1(r) = r.chunks[Current(r)]
      /\ Chunk1(r).state # "done" /\ r.chunks \in Seq(ChunkType)
  BY CurrentFact DEF Record, Shape, Chunk1
<1>2. Chunk1(r) \in ChunkType /\ Current(r) \in Nat
  BY <1>1
<1>3. Backed(B, s, r)
  BY DEF Record
<1> QED
  BY <1>1, <1>2, <1>3 DEF Backed

\* A chunk that is counted once more, or again from nothing.
Counting(d, c) ==
    /\ d.ros = c.ros /\ d.pass = c.pass /\ d.batch = c.batch /\ d.state = c.state
    /\ d.failed = c.failed

(* What is done with a chunk. *)
LEMMA ChunkFields ==
    ASSUME NEW c \in ChunkType
    PROVE  /\ GiveUp(c) \in ChunkType /\ GiveUp(c).ros = c.ros /\ GiveUp(c).pass = c.pass
           /\ GiveUp(c).batch = c.batch /\ GiveUp(c).state = "done" /\ GiveUp(c).failed
           /\ GiveUp([c EXCEPT !.restarts = @ + 1]) = GiveUp(c)
           /\ GiveUp([c EXCEPT !.reads = @ + 1]) = GiveUp(c)
           /\ LET d == [c EXCEPT !.restarts = @ + 1] IN
              /\ Counting(d, c) /\ d.restarts = c.restarts + 1
              /\ d.restarts <= MaxRestarts => d \in ChunkType
           /\ LET d == [c EXCEPT !.reads = @ + 1] IN
              /\ Counting(d, c) /\ d.reads = c.reads + 1
              /\ d.reads < MaxReadFailures => d \in ChunkType
           /\ LET d == [c EXCEPT !.reads = 0] IN Counting(d, c) /\ d \in ChunkType
<1>0. 0 \in 0 .. MaxRestarts /\ 0 \in 0 .. MaxReadFailures - 1
  BY SweepAssumption
<1>1. /\ GiveUp(c) \in ChunkType /\ GiveUp(c).ros = c.ros /\ GiveUp(c).pass = c.pass
      /\ GiveUp(c).batch = c.batch /\ GiveUp(c).state = "done" /\ GiveUp(c).failed
  BY <1>0 DEF ChunkType, GiveUp
<1>3. /\ GiveUp([c EXCEPT !.restarts = @ + 1]) = GiveUp(c)
      /\ GiveUp([c EXCEPT !.reads = @ + 1]) = GiveUp(c)
  BY DEF ChunkType, GiveUp
<1>4. LET d == [c EXCEPT !.restarts = @ + 1] IN
      /\ Counting(d, c) /\ d.restarts = c.restarts + 1
      /\ d.restarts <= MaxRestarts => d \in ChunkType
  BY SweepAssumption DEF ChunkType, Counting
<1>5. LET d == [c EXCEPT !.reads = @ + 1] IN
      /\ Counting(d, c) /\ d.reads = c.reads + 1
      /\ d.reads < MaxReadFailures => d \in ChunkType
  BY SweepAssumption DEF ChunkType, Counting
<1>6. LET d == [c EXCEPT !.reads = 0] IN Counting(d, c) /\ d \in ChunkType
  BY <1>0 DEF ChunkType, Counting
<1> QED
  BY <1>1, <1>3, <1>4, <1>5, <1>6

\* A record whose current chunk came into some state.
Moves(B, s, r, q, v) ==
    /\ Record(B, s, q) /\ Further(q, r) /\ q.state = r.state /\ q.error = r.error
    /\ q.chunks[Current(r)].state = v /\ Current(r) \in DOMAIN q.chunks
    /\ v = Chunk1(r).state => Level(q, r)
    /\ v # "pending" => Unasked(q)

(* A record moves with its current chunk. *)
LEMMA ChunkMoves ==
    ASSUME NEW B, NEW s, NEW r, Record(B, s, r), Open(r) # {}, NEW c, Next1(B, s, r, c),
           c.state = "done" /\ ~c.failed =>
              \A o \in c.ros : r.items[o] = B[c.batch].items[o]
    PROVE  LET q == WithChunk(r, c) IN
           /\ Moves(B, s, r, q, c.state)
           /\ c.state = "pending" /\ c.batch = 0 => Unasked(q)
           /\ q.chunks = [r.chunks EXCEPT ![Current(r)] = c] /\ q.items = r.items
           /\ q.targets = r.targets /\ q.passes = r.passes /\ q.retried = r.retried
<1> DEFINE q == WithChunk(r, c)  k == Current(r)
<1>1. /\ Record(B, s, q) /\ Further(q, r) /\ q.state = r.state /\ q.error = r.error
      /\ q.chunks = [r.chunks EXCEPT ![k] = c] /\ q.items = r.items
      /\ q.targets = r.targets /\ q.passes = r.passes /\ q.retried = r.retried
      /\ q.chunks[k] = c /\ DOMAIN q.chunks = DOMAIN r.chunks
      /\ \A i \in DOMAIN r.chunks \ {k} : q.chunks[i] = r.chunks[i]
  BY WithChunkGood
<1> HIDE DEF q
<1>2. /\ k \in DOMAIN r.chunks /\ r.chunks[k].state # "done" /\ Chunk1(r) = r.chunks[k]
      /\ \A j \in DOMAIN r.chunks : j < k => r.chunks[j].state = "done"
  BY CurrentFact DEF Record, Chunk1
<1>3. c.state = Chunk1(r).state => Level(q, r)
  BY <1>1, <1>2 DEF Level
<1>4. c.state # "pending" \/ c.batch = 0 => Unasked(q)
  <2>1. DOMAIN r.chunks \subseteq Nat
    BY DEF Record, Shape
  <2>2. \A i \in DOMAIN r.chunks \ {k} : r.chunks[i].state = "pending" => r.chunks[i].batch = 0
    <3>1. \A i \in DOMAIN r.chunks \ {k} : i < k \/ k < i
      BY <1>2, <2>1
    <3> QED
      BY <1>2, <3>1 DEF Record, InOrder
  <2> QED
    BY <1>1, <2>2 DEF Unasked
<1> QED
  BY <1>1, <1>2, <1>3, <1>4 DEF Moves, q

(* A record whose current chunk is not done goes on with that one. *)
LEMMA StaysOpen ==
    ASSUME NEW r, Shape(r), Open(r) # {}, NEW c, c.state # "done"
    PROVE  LET q == WithChunk(r, c) IN
           Open(q) # {} /\ Current(q) = Current(r) /\ Chunk1(q) = c
<1> DEFINE q == WithChunk(r, c)  k == Current(r)
<1>1. q.chunks = [r.chunks EXCEPT ![k] = c]
  BY WithChunkFact
<1> HIDE DEF q
<1>2. k \in DOMAIN r.chunks /\ r.chunks[k].state # "done"
  BY CurrentFact DEF Chunk1
<1>3. /\ q.chunks[k] = c /\ DOMAIN q.chunks = DOMAIN r.chunks
      /\ \A i \in DOMAIN r.chunks \ {k} : q.chunks[i] = r.chunks[i]
  BY <1>1, <1>2 DEF Shape
<1>4. Open(q) = Open(r)
  BY <1>2, <1>3 DEF Open
<1>5. Current(q) = k
  BY <1>4, Zenon DEF Current
<1>6. Open(q) # {} /\ Current(q) = Current(r) /\ Chunk1(q) = c
  BY <1>3, <1>4, <1>5 DEF Chunk1
<1> QED
  BY <1>6 DEF q

(* The current chunk moves, and is not done. *)
LEMMA ChunkMovesOn ==
    ASSUME NEW B, NEW s, NEW r, Record(B, s, r), Open(r) # {}, NEW c, Next1(B, s, r, c),
           c.state # "done"
    PROVE  LET q == WithChunk(r, c) IN
           /\ Moves(B, s, r, q, c.state)
           /\ c.state = "pending" /\ c.batch = 0 => Unasked(q)
           /\ Open(q) # {} /\ Current(q) = Current(r) /\ Chunk1(q) = c
           /\ q.chunks = [r.chunks EXCEPT ![Current(r)] = c] /\ q.items = r.items
           /\ q.targets = r.targets /\ q.passes = r.passes /\ q.retried = r.retried
<1> DEFINE q == WithChunk(r, c)
<1>1. c.state = "done" /\ ~c.failed => \A o \in c.ros : r.items[o] = B[c.batch].items[o]
  OBVIOUS
<1>2. /\ Moves(B, s, r, q, c.state)
      /\ c.state = "pending" /\ c.batch = 0 => Unasked(q)
      /\ q.chunks = [r.chunks EXCEPT ![Current(r)] = c] /\ q.items = r.items
      /\ q.targets = r.targets /\ q.passes = r.passes /\ q.retried = r.retried
  BY <1>1, ChunkMoves
<1>3. Shape(r)
  BY DEF Record
<1>4. Open(q) # {} /\ Current(q) = Current(r) /\ Chunk1(q) = c
  BY <1>3, StaysOpen
<1> QED
  BY <1>2, <1>4

(* A chunk is given up. *)
LEMMA GivesUp ==
    ASSUME NEW B, NEW s, NEW r, Record(B, s, r), Open(r) # {}
    PROVE  Moves(B, s, r, WithChunk(r, GiveUp(Chunk1(r))), "done")
<1> DEFINE c == GiveUp(Chunk1(r))
<1>1. /\ c \in ChunkType /\ c.ros = Chunk1(r).ros /\ c.pass = Chunk1(r).pass
      /\ c.batch = Chunk1(r).batch /\ c.state = "done" /\ c.failed
  BY Chunk1Fact, ChunkFields
<1> HIDE DEF c
<1>2. Next1(B, s, r, c)
  BY <1>1, Chunk1Fact DEF Next1
<1>3. Moves(B, s, r, WithChunk(r, c), c.state)
  BY <1>1, <1>2, ChunkMoves
<1> QED
  BY <1>1, <1>3 DEF c

(* What a record becomes when its current chunk comes into another state. *)
StepsTo(B, s, r, v) ==
    LET c == [Chunk1(r) EXCEPT !.state = v]  q == WithChunk(r, c) IN
    /\ Moves(B, s, r, q, v) /\ Open(q) # {} /\ Current(q) = Current(r) /\ Chunk1(q) = c
    /\ q.chunks = [r.chunks EXCEPT ![Current(r)] = c] /\ q.items = r.items
    /\ q.targets = r.targets /\ q.passes = r.passes /\ q.retried = r.retried
    /\ Next1(B, s, r, c) /\ c.ros = Chunk1(r).ros

(* The current chunk comes into another state. *)
LEMMA StateMoves ==
    ASSUME NEW B, NEW s, NEW r, Record(B, s, r), Open(r) # {}, NEW v \in {"created", "running"},
           Chunk1(r).batch # 0
    PROVE  StepsTo(B, s, r, v)
<1> DEFINE c == [Chunk1(r) EXCEPT !.state = v]
<1>1. Chunk1(r) \in ChunkType /\ ~Chunk1(r).failed
  BY Chunk1Fact
<1>2. /\ c \in ChunkType /\ c.ros = Chunk1(r).ros /\ c.pass = Chunk1(r).pass
      /\ c.batch = Chunk1(r).batch /\ c.state = v /\ ~c.failed
  BY <1>1 DEF ChunkType
<1> HIDE DEF c
<1>3. Next1(B, s, r, c)
  BY <1>2, Chunk1Fact DEF Next1
<1>4. LET q == WithChunk(r, c) IN
      /\ Moves(B, s, r, q, v) /\ Open(q) # {} /\ Current(q) = Current(r) /\ Chunk1(q) = c
      /\ q.chunks = [r.chunks EXCEPT ![Current(r)] = c] /\ q.items = r.items
      /\ q.targets = r.targets /\ q.passes = r.passes /\ q.retried = r.retried
  BY <1>2, <1>3, ChunkMovesOn
<1> QED
  BY <1>2, <1>3, <1>4 DEF c, StepsTo

(* A chunk that is only counted leaves the record as far as it was. *)
LEMMA CountMoves ==
    ASSUME NEW B, NEW s, NEW r, Record(B, s, r), Open(r) # {}, Chunk1(r).batch # 0,
           Chunk1(r).state # "pending", NEW c \in ChunkType, Counting(c, Chunk1(r))
    PROVE  LET q == WithChunk(r, c) IN
           /\ Moves(B, s, r, q, Chunk1(r).state) /\ Open(q) # {} /\ Current(q) = Current(r)
           /\ Chunk1(q) = c /\ c.state = Chunk1(r).state /\ c.ros = Chunk1(r).ros
           /\ c.batch = Chunk1(r).batch
<1>1. Chunk1(r) \in ChunkType /\ ~Chunk1(r).failed
  BY Chunk1Fact
<1>2. /\ c.ros = Chunk1(r).ros /\ c.pass = Chunk1(r).pass
      /\ c.batch = Chunk1(r).batch /\ c.state = Chunk1(r).state /\ ~c.failed
  BY <1>1 DEF Counting
<1>3. Next1(B, s, r, c)
  BY <1>2, Chunk1Fact DEF Next1
<1>4. c.state # "done"
  BY <1>2, Chunk1Fact
<1>5. LET q == WithChunk(r, c) IN
      /\ Moves(B, s, r, q, c.state)
      /\ c.state = "pending" /\ c.batch = 0 => Unasked(q)
      /\ Open(q) # {} /\ Current(q) = Current(r) /\ Chunk1(q) = c
      /\ q.chunks = [r.chunks EXCEPT ![Current(r)] = c] /\ q.items = r.items
      /\ q.targets = r.targets /\ q.passes = r.passes /\ q.retried = r.retried
  BY <1>3, <1>4, ChunkMovesOn
<1> QED
  BY <1>2, <1>5

-----------------------------------------------------------------------------
(* What the remote calls do to the batches of ScrapeX. *)
LEMMA StartEffectFact ==
    ASSUME Typed(batches), NEW s, NEW r, Record(batches, s, r), Open(r) # {}, Chunk1(r).batch # 0,
           NEW a, StartEffect(r, a)
    PROVE  /\ Typed(batches') /\ Grows(batches, batches') /\ Len(batches') = Len(batches)
           /\ Len(batches) \in Nat /\ Record(batches', s, r)
<1>1. Typed(batches') /\ Grows(batches, batches') /\ Len(batches') = Len(batches)
  <2>1. Chunk1(r).batch \in BatchIds
    BY Chunk1Fact DEF BatchIds
  <2> QED
    BY <2>1, StartedFact, SameBatches DEF StartEffect
<1>2. Len(batches) \in Nat /\ Len(batches') \in Nat
  BY <1>1 DEF Typed
<1> QED
  BY <1>1, <1>2, StillBacked

(* create_batch leaves one more batch, for the current chunk, or none. *)
LEMMA CreateEffectFact ==
    ASSUME Typed(batches), NEW s \in Sweeps, NEW r, Record(batches, s, r), Open(r) # {},
           NEW a, CreateEffect(s, r, a)
    PROVE  /\ Typed(batches') /\ Grows(batches, batches') /\ Len(batches) \in Nat
           /\ Record(batches', s, r)
           /\ IF a \in {"ok", "lost"}
              THEN /\ Len(batches') = Len(batches) + 1
                   /\ batches'[Len(batches) + 1].sweep = s
                   /\ batches'[Len(batches) + 1].chunk = Current(r)
                   /\ batches'[Len(batches) + 1].ros = Chunk1(r).ros
              ELSE Len(batches') = Len(batches)
<1>1. /\ Typed(batches') /\ Grows(batches, batches')
      /\ IF a \in {"ok", "lost"}
         THEN /\ Len(batches') = Len(batches) + 1
              /\ batches'[Len(batches) + 1].sweep = s
              /\ batches'[Len(batches) + 1].chunk = Current(r)
              /\ batches'[Len(batches) + 1].ros = Chunk1(r).ros
         ELSE Len(batches') = Len(batches)
  <2>1. CASE a \in {"ok", "lost"}
    BY <2>1, CreatedFact DEF CreateEffect
  <2>2. CASE a \notin {"ok", "lost"}
    BY <2>2, SameBatches DEF CreateEffect
  <2> QED
    BY <2>1, <2>2
<1>2. Len(batches) \in Nat /\ Len(batches') \in Nat
  BY <1>1 DEF Typed
<1> QED
  BY <1>1, <1>2, StillBacked

(* What a call makes of the answers, by what each one is. *)
LEMMA AfterCreateIs ==
    ASSUME NEW r
    PROVE  /\ AfterCreate(r, "ok") = WithChunk(r, [Chunk1(r) EXCEPT !.batch = Len(batches) + 1])
           /\ AfterCreate(r, "auth") = r
           /\ \A a : a \notin {"ok", "auth"} => AfterCreate(r, a) = [r EXCEPT !.error = "launch"]
  BY Zenon DEF AfterCreate

-----------------------------------------------------------------------------
(* Two records as far as a third are as far as each other. *)
LEMMA LevelOn == ASSUME NEW p, NEW q, NEW r, Level(p, r), Level(q, r) PROVE Level(p, q)
  BY DEF Level

(* The states of the chunks that calls are about. *)
LEMMA StageIs == /\ Stage("create") = "pending" /\ Stage("launch") = "pending"
                 /\ Stage("start") = "created" /\ Stage("read") = "running"
                 /\ Stage("stopped") = "running" /\ Stage("restart") = "running"
  BY DEF Stage

(* A driver that saves what it made of its copy keeps what is known. *)
LEMMA Saves ==
    ASSUME IInv, DInv, NEW s \in Sweeps, Outcome(s), UNCHANGED late,
           drv[s].pc \in Busy \ {"recheck"}, NEW q, Saved(s, q),
           Loop(s) \/ Goto(s, "openSignIn", q),
           Typed(batches'), Grows(batches, batches'),
           Record(batches', s, q), Unasked(q), q.state # "completed", Further(q, rec[s]),
           \/ Len(batches') = Len(batches) /\ drv[s].pc # "launch"
           \/ /\ Len(batches') = Len(batches)
              /\ Current(rec[s]) \in DOMAIN q.chunks /\ q.chunks[Current(rec[s])].state # "pending"
           \/ /\ Len(batches') = Len(batches) + 1 /\ drv[s].pc = "create"
              /\ batches'[Len(batches) + 1].sweep = s
              /\ batches'[Len(batches) + 1].chunk = Current(rec[s])
              /\ Current(rec[s]) \in DOMAIN q.chunks /\ q.chunks[Current(rec[s])].state # "pending"
    PROVE  DInv'
<1>0. Types
  BY DEF IInv
<1>1. Known(s)' /\ rec'[s] = q
  BY <1>0, SavedKnown
<1>2. Copies(s)'
  <2>1. CASE Loop(s)
    BY <1>0, <2>1, LoopCopies
  <2>2. CASE Goto(s, "openSignIn", q)
    <3>1. Copy(batches', rec'[s], s, "openSignIn", q)
      BY <1>1, FurtherFact DEF Copy
    <3> QED
      BY <1>0, <2>2, <3>1, GoesCopies
  <2> QED
    BY <2>1, <2>2
<1>3. ASSUME NEW k, k = Current(rec[s]), k \in DOMAIN q.chunks, q.chunks[k].state # "pending"
      PROVE  ~Fresh(s, k)'
  BY <1>1, <1>3 DEF Fresh
<1>4. \A k : drv[s].pc = "launch" /\ k = Current(rec[s]) => ~Fresh(s, k)'
  BY <1>3
<1>5. \/ Len(batches') = Len(batches)
      \/ /\ Len(batches') = Len(batches) + 1
         /\ batches'[Len(batches) + 1].sweep = s
         /\ batches'[Len(batches) + 1].chunk = Current(rec[s])
         /\ drv[s].pc = "create" /\ \A k : k = Current(rec[s]) => ~Fresh(s, k)'
  BY <1>3
<1>6. Further(rec'[s], rec[s])
  BY <1>1
<1> QED
  BY <1>1, <1>2, <1>4, <1>5, <1>6, DriverData

(* So does one that takes its copy to the next call. *)
LEMMA GoesData ==
    ASSUME IInv, DInv, NEW s \in Sweeps, Outcome(s), UNCHANGED <<late, rec>>,
           drv[s].pc \notin {"none", "recheck"},
           NEW p, p \notin {"none", "loop"}, NEW q, Goto(s, p, q), 
           Copy(batches', rec'[s], s, p, q),
           drv[s].pc = "launch" => p = "recheck",
           Typed(batches'), Grows(batches, batches'),
           \/ Len(batches') = Len(batches)
           \/ /\ Len(batches') = Len(batches) + 1 /\ drv[s].pc = "create" /\ p = "launch"
              /\ batches'[Len(batches) + 1].sweep = s
              /\ batches'[Len(batches) + 1].chunk = Current(rec[s])
    PROVE  DInv'
<1>0. Types /\ rec' = rec
  BY DEF IInv
<1>1. Copies(s)' /\ drv'[s].pc = p
  BY <1>0, GoesCopies
<1>2. Known(s)'
  <2>1. Known(s) /\ Len(batches) \in Nat /\ Len(batches') \in Nat
    BY DEF DInv, Typed
  <2> QED
    BY <1>0, <2>1, StillBacked DEF Known, Exists
<1>3. Further(rec'[s], rec[s])
  BY <1>0, FurtherFact
<1>4. \A k : drv[s].pc = "launch" /\ k = Current(rec[s]) => ~Fresh(s, k)'
  BY <1>1 DEF Fresh
<1>5. p = "launch" => \A k : k = Current(rec[s]) => ~Fresh(s, k)'
  BY <1>0, <1>1 DEF Fresh, Asked
<1> QED
  BY <1>1, <1>2, <1>3, <1>4, <1>5, DriverData

(* So does one that only reads its record again, or ends. *)
LEMMA LoopsData ==
    ASSUME IInv, DInv, NEW s \in Sweeps, Outcome(s), UNCHANGED <<late, rec, batches>>,
           drv[s].pc \notin {"launch", "recheck"} \/ ~IsActive(s), Loop(s) \/ Ended(s)
    PROVE  DInv'
<1>0. Types /\ rec' = rec /\ Typed(batches)
  BY DEF IInv, DInv
<1>1. Copies(s)'
  BY <1>0, LoopCopies
<1>2. Known(s)'
  BY <1>0 DEF DInv, Known, Exists
<1>3. Further(rec'[s], rec[s])
  BY <1>0, FurtherFact
<1>4. Typed(batches') /\ Grows(batches, batches') /\ Len(batches') = Len(batches)
  BY <1>0, SameBatches
<1>5. drv[s].pc \notin {"launch", "recheck"}
  BY DEF IInv, Driver, Busy
<1> QED
  BY <1>1, <1>2, <1>3, <1>4, <1>5, DriverData

(* What a driver that works on a copy knows. *)
LEMMA AtWork ==
    ASSUME IInv, DInv, NEW s \in Sweeps, drv[s].pc \in Busy
    PROVE  LET r == drv[s].rec IN
           /\ Types /\ Exists(s) /\ IsActive(s) /\ r.state \in Active
           /\ Typed(batches) /\ Len(batches) \in Nat
           /\ Copy(batches, rec[s], s, drv[s].pc, r) /\ Record(batches, s, r) /\ Shape(r) /\ Level(rec[s], r)
           /\ Open(rec[s]) = Open(r) /\ Current(rec[s]) = Current(r)
           /\ Record(batches, s, rec[s]) /\ Unasked(rec[s])
<1>1. Types /\ IsActive(s) /\ drv[s].rec.state \in Active /\ Typed(batches)
  BY DEF IInv, Driver, InState, DInv
<1>2. Exists(s) /\ Len(batches) \in Nat
  BY <1>1 DEF Exists, IsActive, NoRecord, Active, Typed
<1> QED
  BY <1>1, <1>2, HasCopy DEF Busy

(* A driver that waits for a sign-in saves its copy so. *)
LEMMA WaitsData ==
    ASSUME IInv, DInv, NEW s \in Sweeps, Outcome(s), UNCHANGED late,
           drv[s].pc \in Busy \ {"recheck"}, NEW q, EnterSignInWait(s, q),
           Typed(batches'), Grows(batches, batches'), Len(batches') = Len(batches),
           Record(batches', s, q), Unasked(q), Further(q, rec[s]),
           \/ drv[s].pc # "launch"
           \/ Current(rec[s]) \in DOMAIN q.chunks /\ q.chunks[Current(rec[s])].state # "pending"
    PROVE  DInv'
<1> DEFINE w == [q EXCEPT !.state = "waiting"]
<1>0. Shape(q) /\ "waiting" \in Active \cup Terminal
  BY DEF Record, Active
<1>1. Alike(w, q) /\ w.state = "waiting"
  BY <1>0 DEF Shape, Alike, Active
<1>2. Saved(s, w) /\ Goto(s, "openSignIn", w)
  BY DEF EnterSignInWait
<1> HIDE DEF w
<1>3. Record(batches', s, w) /\ Unasked(w) /\ w.chunks = q.chunks
  BY <1>1, AlikeFact DEF Alike
<1>4. Further(w, rec[s])
  BY <1>3 DEF Further
<1> QED
  BY <1>1, <1>2, <1>3, <1>4, Saves

(* create_batch answered. *)
LEMMA DriveCreateData == ASSUME IInv, DInv, NEW s \in Sweeps, DriveCreate(s) PROVE DInv'
<1> DEFINE r == drv[s].rec  c == Chunk1(r)
<1>1. drv[s].pc = "create" /\ UNCHANGED late /\ Outcome(s)
  BY DriveCreateOutcome DEF DriveCreate, At
<1>2. /\ Types /\ r.state \in Active /\ Typed(batches) /\ Len(batches) \in Nat
      /\ Copy(batches, rec[s], s, "create", r) /\ Record(batches, s, r) /\ Shape(r) /\ Level(rec[s], r)
      /\ Current(rec[s]) = Current(r)
  BY <1>1, AtWork DEF Busy
<1>3. Open(r) # {} /\ c.state = "pending" /\ Unasked(r)
  BY <1>2 DEF Copy, Stage
<1>4. c \in ChunkType /\ c = r.chunks[Current(r)] /\ Current(r) \in DOMAIN r.chunks /\ ~c.failed
  BY <1>2, <1>3, Chunk1Fact
<1>5. PICK a \in Answers :
        /\ CreateEffect(s, r, a)
        /\ IF a = "ok" THEN Goto(s, "launch", AfterCreate(r, a)) /\ UNCHANGED rec
                       ELSE Launched(s, a, AfterCreate(r, a))
  BY DEF DriveCreate
<1>6. /\ Typed(batches') /\ Grows(batches, batches') /\ Record(batches', s, r)
      /\ IF a \in {"ok", "lost"}
         THEN /\ Len(batches') = Len(batches) + 1
              /\ batches'[Len(batches) + 1].sweep = s
              /\ batches'[Len(batches) + 1].chunk = Current(r)
              /\ batches'[Len(batches) + 1].ros = Chunk1(r).ros
         ELSE Len(batches') = Len(batches)
  BY <1>2, <1>3, <1>5, CreateEffectFact
<1>7. CASE a = "ok"
  <2> DEFINE d == [c EXCEPT !.batch = Len(batches) + 1]  q == WithChunk(r, d)
  <2>1. /\ d \in ChunkType /\ d.ros = c.ros /\ d.pass = c.pass /\ d.state = "pending" /\ ~d.failed
        /\ d.batch = Len(batches) + 1
    BY <1>2, <1>3, <1>4 DEF ChunkType
  <2>2. Goto(s, "launch", q) /\ UNCHANGED rec
    BY <1>5, <1>7, AfterCreateIs
  <2> HIDE DEF d
  <2>3. Next1(batches', s, r, d)
    BY <1>2, <1>3, <1>6, <1>7, <2>1 DEF Next1
  <2>4. /\ Moves(batches', s, r, q, d.state)
        /\ d.state = "pending" /\ d.batch = 0 => Unasked(q)
        /\ Open(q) # {} /\ Current(q) = Current(r) /\ Chunk1(q) = d
        /\ q.chunks = [r.chunks EXCEPT ![Current(r)] = d] /\ q.items = r.items
        /\ q.targets = r.targets /\ q.passes = r.passes /\ q.retried = r.retried
    BY <1>3, <1>6, <2>1, <2>3, ChunkMovesOn
  <2> HIDE DEF q
  <2>5. Level(q, r) /\ Record(batches', s, q)
    BY <1>3, <2>1, <2>4 DEF Moves
  <2>6. Level(rec'[s], q)
    BY <1>2, <2>2, <2>5, LevelOn
  <2>7. Copy(batches', rec'[s], s, "launch", q)
    BY <1>2, <2>1, <2>4, <2>5, <2>6, StageIs DEF Copy
  <2>8. /\ Len(batches') = Len(batches) + 1 /\ batches'[Len(batches) + 1].sweep = s
        /\ batches'[Len(batches) + 1].chunk = Current(rec[s])
    BY <1>2, <1>6, <1>7
  <2> QED
    BY <1>1, <1>6, <2>2, <2>7, <2>8, GoesData
<1>8. CASE a = "auth"
  <2>1. EnterSignInWait(s, r)
    BY <1>5, <1>8, AfterCreateIs DEF Launched
  <2>2. Further(r, rec[s])
    BY <1>2, FurtherFact
  <2> QED
    BY <1>1, <1>3, <1>6, <1>8, <2>1, <2>2, WaitsData DEF Busy
<1>9. CASE a \notin {"ok", "auth"}
  <2> DEFINE e == [r EXCEPT !.error = "launch"]  q == WithChunk(e, GiveUp(Chunk1(e)))
  <2>1. Saved(s, q) /\ Loop(s)
    BY <1>5, <1>9, AfterCreateIs DEF Launched, Answers
  <2>2. Alike(e, r) /\ e.state = r.state
    BY <1>2, Labels
  <2> HIDE DEF e
  <2>3. Record(batches', s, e) /\ Open(e) = Open(r) /\ Level(e, r)
    BY <1>6, <2>2, AlikeFact
  <2>4. Moves(batches', s, e, q, "done") /\ Current(e) = Current(r)
    BY <1>3, <2>3, GivesUp, LevelFact
  <2> HIDE DEF q
  <2>5. Further(q, rec[s])
    <3>1. Level(rec[s], e)
      BY <1>2, <2>3, FurtherFact, LevelOn
    <3> QED
      BY <2>4, <3>1, FurtherFact DEF Moves
  <2>6. q.state # "completed" /\ Unasked(q) /\ Record(batches', s, q)
    BY <1>2, <2>2, <2>4 DEF Moves, Active
  <2>7. Current(rec[s]) \in DOMAIN q.chunks /\ q.chunks[Current(rec[s])].state # "pending"
    BY <1>2, <2>4 DEF Moves
  <2> QED
    BY <1>1, <1>2, <1>6, <1>9, <2>1, <2>5, <2>6, <2>7, Saves DEF Busy
<1> QED
  BY <1>7, <1>8, <1>9

-----------------------------------------------------------------------------
(* What a call makes of the answers of start_batch, by what each one is. *)
LEMMA AfterStartIs ==
    ASSUME NEW r
    PROVE  LET c == Chunk1(r)
               called(v) == WithChunk(r, [c EXCEPT !.state = v])
           IN  /\ AfterStart(r, "ok") = [called("running") EXCEPT !.passes =
                     [o \in r.targets |-> IF o \in c.ros THEN called("running").passes[o] + 1
                                          ELSE called("running").passes[o]]]
               /\ AfterStart(r, "auth") = called("created")
               /\ \A a : a \notin {"ok", "auth"} =>
                     AfterStart(r, a) = [called("created") EXCEPT !.error = "launch"]
  BY Zenon DEF AfterStart

(* A chunk whose batch was started runs, and its repair orders were attempted once more. *)
LEMMA StartMoves ==
    ASSUME NEW B, NEW s, NEW r, Record(B, s, r), Open(r) # {}, Chunk1(r).state = "pending",
           Chunk1(r).batch # 0
    PROVE  Moves(B, s, r, AfterStart(r, "ok"), "running")
<1> DEFINE c == Chunk1(r)  d == [c EXCEPT !.state = "running"]  m == WithChunk(r, d)
           p == [o \in r.targets |-> IF o \in c.ros THEN m.passes[o] + 1 ELSE m.passes[o]]
           q == [m EXCEPT !.passes = p]
<1>1. /\ Moves(B, s, r, m, "running") /\ Open(m) # {} /\ Current(m) = Current(r) /\ Chunk1(m) = d
      /\ m.chunks = [r.chunks EXCEPT ![Current(r)] = d] /\ m.items = r.items
      /\ m.targets = r.targets /\ m.passes = r.passes /\ m.retried = r.retried
      /\ Next1(B, s, r, d) /\ d.ros = c.ros
  <2>1. StepsTo(B, s, r, "running")
    BY StateMoves
  <2> QED
    BY <2>1 DEF StepsTo
<1>2. AfterStart(r, "ok") = q
  BY AfterStartIs
<1>3. c \in ChunkType
  BY Chunk1Fact
<1>4. d.state = "running"
  BY <1>3 DEF ChunkType
<1> HIDE DEF d, m
<1>5. \A o \in c.ros : o \in r.targets /\ r.passes[o] \in 0 .. 1
  BY NotYet
<1>6. Shape(m) /\ m.state = r.state /\ m.error = r.error
  BY <1>1 DEF Moves, Record
<1>7. p \in [r.targets -> 0 .. 2]
  BY <1>1, <1>5, <1>6 DEF Shape
<1>8. /\ \A o \in c.ros : p[o] = r.passes[o] + 1
      /\ \A o \in r.targets \ c.ros : p[o] = r.passes[o]
  BY <1>1, <1>5
<1> HIDE DEF p
<1>9. /\ Shape(q) /\ q.chunks = m.chunks /\ q.targets = m.targets /\ q.items = m.items
      /\ q.passes = p /\ q.retried = m.retried /\ q.state = m.state /\ q.error = m.error
  BY <1>1, <1>6, <1>7 DEF Shape
<1> HIDE DEF q
<1>10. Becomes(B, s, r, q, d)
  BY <1>1, <1>4, <1>8, <1>9 DEF Becomes
<1>11. Record(B, s, q) /\ Further(q, r)
  BY <1>1, <1>10, BecomesFact
<1>12. Moves(B, s, r, q, "running")
  BY <1>1, <1>6, <1>9, <1>11 DEF Moves, Unasked, Level
<1> QED
  BY <1>2, <1>12

(* A chunk whose start was refused has its batch still. *)
LEMMA CreatedMoves ==
    ASSUME NEW B, NEW s, NEW r, Record(B, s, r), Open(r) # {}, Chunk1(r).batch # 0
    PROVE  LET m == WithChunk(r, [Chunk1(r) EXCEPT !.state = "created"]) IN
           Moves(B, s, r, m, "created") /\ Open(m) # {} /\ Current(m) = Current(r)
<1>1. StepsTo(B, s, r, "created")
  BY StateMoves
<1> QED
  BY <1>1 DEF StepsTo

(* Or it runs. *)
LEMMA RunningMoves ==
    ASSUME NEW B, NEW s, NEW r, Record(B, s, r), Open(r) # {}, Chunk1(r).batch # 0
    PROVE  LET m == WithChunk(r, [Chunk1(r) EXCEPT !.state = "running"]) IN
           Moves(B, s, r, m, "running") /\ Open(m) # {} /\ Current(m) = Current(r)
<1>1. StepsTo(B, s, r, "running")
  BY StateMoves
<1> QED
  BY <1>1 DEF StepsTo

(* A driver that saves its copy with a chunk that moved keeps what is known. *)
LEMMA SavesMoved ==
    ASSUME IInv, DInv, NEW s \in Sweeps, Outcome(s), UNCHANGED late,
           drv[s].pc \in Busy \ {"recheck"}, NEW e, Level(rec[s], e), e.state \in Active,
           NEW q, NEW v, v # "pending", Moves(batches', s, e, q, v), Saved(s, q), Loop(s),
           Typed(batches'), Grows(batches, batches'), Len(batches') = Len(batches)
    PROVE  DInv'
<1>1. Current(rec[s]) = Current(e)
  BY LevelFact
<1>2. Further(q, rec[s])
  BY FurtherFact DEF Moves
<1>3. /\ Record(batches', s, q) /\ Unasked(q) /\ q.state # "completed"
      /\ Current(rec[s]) \in DOMAIN q.chunks /\ q.chunks[Current(rec[s])].state # "pending"
  BY <1>1 DEF Moves, Active
<1> QED
  BY <1>2, <1>3, Saves

(* start_batch answered, of a batch just created. *)
LEMMA DriveLaunchData == ASSUME IInv, DInv, NEW s \in Sweeps, DriveLaunch(s) PROVE DInv'
<1> DEFINE r == drv[s].rec  c == Chunk1(r)  m == WithChunk(r, [c EXCEPT !.state = "created"])
<1>1. drv[s].pc = "launch" /\ UNCHANGED late /\ Outcome(s)
  BY DriveLaunchOutcome DEF DriveLaunch, At
<1>2. /\ Types /\ r.state \in Active /\ Typed(batches) /\ Len(batches) \in Nat
      /\ Copy(batches, rec[s], s, "launch", r) /\ Record(batches, s, r) /\ Shape(r)
      /\ Level(rec[s], r) /\ Current(rec[s]) = Current(r)
  BY <1>1, AtWork DEF Busy
<1>3. Open(r) # {} /\ c.state = "pending" /\ c.batch # 0
  BY <1>2, StageIs DEF Copy
<1>4. PICK a \in Answers : StartEffect(r, a) /\ Launched(s, a, AfterStart(r, a))
  BY DEF DriveLaunch
<1>5. /\ Typed(batches') /\ Grows(batches, batches') /\ Len(batches') = Len(batches)
      /\ Record(batches', s, r)
  BY <1>2, <1>3, <1>4, StartEffectFact
<1>6. Moves(batches', s, r, m, "created") /\ Open(m) # {} /\ Current(m) = Current(r)
  BY <1>3, <1>5, CreatedMoves
<1>7. CASE a = "ok"
  <2>1. Saved(s, AfterStart(r, "ok")) /\ Loop(s)
    BY <1>4, <1>7 DEF Launched
  <2>2. Moves(batches', s, r, AfterStart(r, "ok"), "running")
    BY <1>3, <1>5, StartMoves
  <2> QED
    BY <1>1, <1>2, <1>5, <2>1, <2>2, SavesMoved DEF Busy
<1>8. CASE a = "auth"
  <2>1. EnterSignInWait(s, m)
    BY <1>4, <1>8, AfterStartIs DEF Launched
  <2>2. Further(m, rec[s])
    BY <1>2, <1>6, FurtherFact DEF Moves
  <2>3. /\ Record(batches', s, m) /\ Unasked(m) /\ Current(rec[s]) \in DOMAIN m.chunks
        /\ m.chunks[Current(rec[s])].state # "pending"
    BY <1>2, <1>6 DEF Moves
  <2> QED
    BY <1>1, <1>5, <2>1, <2>2, <2>3, WaitsData DEF Busy
<1>9. CASE a \notin {"ok", "auth"}
  <2> DEFINE e == [m EXCEPT !.error = "launch"]  q == WithChunk(e, GiveUp(Chunk1(e)))
  <2>1. Saved(s, q) /\ Loop(s)
    BY <1>4, <1>9, AfterStartIs DEF Launched, Answers
  <2> HIDE DEF m
  <2>2. Alike(e, m) /\ e.state = m.state
    BY <1>6, Labels DEF Moves, Record
  <2> HIDE DEF e
  <2>3. Record(batches', s, e) /\ Open(e) = Open(m) /\ Level(e, m)
    BY <1>6, <2>2, AlikeFact DEF Moves
  <2>4. Moves(batches', s, e, q, "done") /\ Current(e) = Current(r)
    BY <1>6, <2>3, GivesUp, LevelFact
  <2> HIDE DEF q
  <2>5. Further(q, rec[s])
    <3>1. Further(q, m) /\ Further(m, r)
      BY <1>6, <2>3, <2>4, FurtherFact DEF Moves
    <3>2. Further(q, r)
      BY <3>1 DEF Further
    <3> QED
      BY <1>2, <3>2, FurtherFact
  <2>6. q.state # "completed" /\ Unasked(q) /\ Record(batches', s, q)
    BY <1>2, <1>6, <2>2, <2>4 DEF Moves, Active
  <2>7. Current(rec[s]) \in DOMAIN q.chunks /\ q.chunks[Current(rec[s])].state # "pending"
    BY <1>2, <2>4 DEF Moves
  <2> QED
    BY <1>1, <1>2, <1>5, <2>1, <2>5, <2>6, <2>7, Saves DEF Busy
<1> QED
  BY <1>7, <1>8, <1>9

(* A chunk that is counted stays where it is. *)
LEMMA CountedMoves ==
    ASSUME NEW B, NEW s, NEW r, Record(B, s, r), Open(r) # {},
           Chunk1(r).state \in {"created", "running"}
    PROVE  LET c == Chunk1(r) IN
           /\ c.restarts < MaxRestarts =>
                 Moves(B, s, r, WithChunk(r, [c EXCEPT !.restarts = @ + 1]), c.state)
           /\ c.reads + 1 < MaxReadFailures =>
                 Moves(B, s, r, WithChunk(r, [c EXCEPT !.reads = @ + 1]), c.state)
           /\ Moves(B, s, r, WithChunk(r, GiveUp([c EXCEPT !.restarts = @ + 1])), "done")
           /\ Moves(B, s, r, WithChunk(r, GiveUp([c EXCEPT !.reads = @ + 1])), "done")
           /\ c.restarts \in Nat /\ c.reads \in Nat
           /\ [c EXCEPT !.restarts = @ + 1].restarts = c.restarts + 1
           /\ [c EXCEPT !.reads = @ + 1].reads = c.reads + 1
<1> DEFINE c == Chunk1(r)
<1>1. c \in ChunkType /\ c.batch # 0 /\ c.state # "pending" /\ c.state # "done"
  BY Chunk1Fact
<1>2. c.restarts \in Nat /\ c.reads \in Nat
  BY <1>1, SweepAssumption DEF ChunkType
<1> DEFINE d == [c EXCEPT !.restarts = @ + 1]  e == [c EXCEPT !.reads = @ + 1]
<1>3. /\ GiveUp(d) = GiveUp(c) /\ GiveUp(e) = GiveUp(c) /\ Counting(d, c) /\ Counting(e, c)
      /\ d.restarts = c.restarts + 1 /\ e.reads = c.reads + 1
      /\ d.restarts <= MaxRestarts => d \in ChunkType
      /\ e.reads < MaxReadFailures => e \in ChunkType
  BY <1>1, ChunkFields
<1>4. Moves(B, s, r, WithChunk(r, GiveUp(c)), "done")
  BY GivesUp
<1>5. ASSUME NEW f \in ChunkType, Counting(f, c) PROVE Moves(B, s, r, WithChunk(r, f), c.state)
  <2>1. LET q == WithChunk(r, f) IN
        /\ Moves(B, s, r, q, Chunk1(r).state) /\ Open(q) # {} /\ Current(q) = Current(r)
        /\ Chunk1(q) = f /\ f.state = Chunk1(r).state /\ f.ros = Chunk1(r).ros
        /\ f.batch = Chunk1(r).batch
    BY <1>1, <1>5, CountMoves
  <2> QED
    BY <2>1
<1> HIDE DEF d, e, c
<1>6. c.restarts < MaxRestarts => Moves(B, s, r, WithChunk(r, d), c.state)
  BY <1>2, <1>3, <1>5, SweepAssumption
<1>7. c.reads + 1 < MaxReadFailures => Moves(B, s, r, WithChunk(r, e), c.state)
  BY <1>2, <1>3, <1>5, SweepAssumption
<1>8. Moves(B, s, r, WithChunk(r, GiveUp(d)), "done") /\ Moves(B, s, r, WithChunk(r, GiveUp(e)), "done")
  BY <1>3, <1>4
<1> QED
  BY <1>2, <1>3, <1>6, <1>7, <1>8 DEF d, e, c

(* start_batch answered, of a batch created earlier. *)
LEMMA DriveStartData == ASSUME IInv, DInv, NEW s \in Sweeps, DriveStart(s) PROVE DInv'
<1> DEFINE r == drv[s].rec  c == Chunk1(r)  again == [c EXCEPT !.restarts = @ + 1]
<1>1. drv[s].pc = "start" /\ UNCHANGED late /\ Outcome(s)
  BY DriveStartOutcome DEF DriveStart, At
<1>2. /\ Types /\ r.state \in Active /\ Typed(batches) /\ Len(batches) \in Nat
      /\ Copy(batches, rec[s], s, "start", r) /\ Record(batches, s, r) /\ Shape(r)
      /\ Level(rec[s], r) /\ Current(rec[s]) = Current(r)
  BY <1>1, AtWork DEF Busy
<1>3. Open(r) # {} /\ c.state = "created" /\ Unasked(r)
  BY <1>2, StageIs DEF Copy
<1>4. c.batch # 0
  BY <1>2, <1>3, Chunk1Fact
<1>5. PICK a \in Answers :
        /\ StartEffect(r, a)
        /\ \/ EnterSignInWait(s, r)
           \/ Saved(s, WithChunk(r, [c EXCEPT !.state = "running"])) /\ Loop(s)
           \/ /\ Saved(s, WithChunk(r, IF again.restarts > MaxRestarts
                                       THEN GiveUp(again) ELSE again))
              /\ Loop(s)
  BY DEF DriveStart
<1>6. /\ Typed(batches') /\ Grows(batches, batches') /\ Len(batches') = Len(batches)
      /\ Record(batches', s, r)
  BY <1>2, <1>3, <1>4, <1>5, StartEffectFact
<1>7. CASE EnterSignInWait(s, r)
  <2>1. Further(r, rec[s])
    BY <1>2, FurtherFact
  <2> QED
    BY <1>1, <1>3, <1>6, <1>7, <2>1, WaitsData DEF Busy
<1>8. CASE Saved(s, WithChunk(r, [c EXCEPT !.state = "running"])) /\ Loop(s)
  <2>2. Moves(batches', s, r, WithChunk(r, [c EXCEPT !.state = "running"]), "running")
    BY <1>3, <1>4, <1>6, RunningMoves
  <2> QED
    BY <1>1, <1>2, <1>6, <1>8, <2>2, SavesMoved DEF Busy
<1>9. CASE /\ Saved(s, WithChunk(r, IF again.restarts > MaxRestarts THEN GiveUp(again) ELSE again))
           /\ Loop(s)
  <2>1. /\ c.restarts < MaxRestarts => Moves(batches', s, r, WithChunk(r, again), c.state)
        /\ Moves(batches', s, r, WithChunk(r, GiveUp(again)), "done")
        /\ c.restarts \in Nat /\ again.restarts = c.restarts + 1
    BY <1>3, <1>6, CountedMoves
  <2> HIDE DEF again
  <2>2. CASE again.restarts > MaxRestarts
    BY <1>1, <1>2, <1>6, <1>9, <2>1, <2>2, SavesMoved DEF Busy
  <2>3. CASE ~(again.restarts > MaxRestarts)
    <3>1. c.restarts < MaxRestarts
      BY <2>1, <2>3, SweepAssumption
    <3>2. Saved(s, WithChunk(r, again)) /\ Moves(batches', s, r, WithChunk(r, again), "created")
      BY <1>3, <1>9, <2>1, <2>3, <3>1
    <3> QED
      BY <1>1, <1>2, <1>6, <1>9, <3>2, SavesMoved DEF Busy
  <2> QED
    BY <2>2, <2>3
<1> QED
  BY <1>5, <1>7, <1>8, <1>9

(* What is made of the answer of a batch at work. *)
LEMMA ReadFact ==
    ASSUME Typed(batches), NEW s, NEW r, Record(batches, s, r), Open(r) # {},
           Chunk1(r).state = "running"
    PROVE  LET c == Chunk1(r)  b == batches[c.batch]
               q == Applied(WithChunk(r, [c EXCEPT !.reads = 0]), b) IN
           /\ Record(batches, s, q) /\ Unasked(q) /\ Level(q, r) /\ Further(q, r)
           /\ q.state = r.state /\ q.error = r.error
           /\ Open(q) # {} /\ Current(q) = Current(r) /\ Chunk1(q) = [c EXCEPT !.reads = 0]
           /\ \A o \in c.ros : q.items[o] = b.items[o]
<1> DEFINE c == Chunk1(r)  b == batches[c.batch]  d == [c EXCEPT !.reads = 0]
           e == WithChunk(r, d)  q == Applied(e, b)
<1>1. /\ c \in ChunkType /\ c.batch # 0 /\ c.state # "pending" /\ c.batch \in 1 .. Len(batches)
  BY Chunk1Fact
<1>2. Counting(d, c) /\ d \in ChunkType
  BY <1>1, ChunkFields
<1> HIDE DEF d
<1>3. /\ Moves(batches, s, r, e, Chunk1(r).state) /\ Open(e) # {} /\ Current(e) = Current(r)
      /\ Chunk1(e) = d /\ d.state = Chunk1(r).state /\ d.ros = Chunk1(r).ros
      /\ d.batch = Chunk1(r).batch
  BY <1>1, <1>2, CountMoves
<1> HIDE DEF e
<1>4. b.items \in [b.ros -> ItemStates]
  BY <1>1 DEF Typed
<1>5. /\ Record(batches, s, e) /\ Chunk1(e).state = "running" /\ Chunk1(e).batch = c.batch
      /\ Level(e, r) /\ e.state = r.state /\ e.error = r.error /\ Unasked(e)
  BY <1>3 DEF Moves
<1>6. /\ Record(batches, s, q) /\ Further(q, e) /\ q.state = e.state /\ q.error = e.error
      /\ q.chunks = e.chunks /\ q.targets = e.targets /\ q.retried = e.retried
      /\ \A o \in Chunk1(e).ros : q.items[o] = b.items[o]
  <2>1. batches[Chunk1(e).batch] = b
    BY <1>5
  <2>2. LET p == Applied(e, batches[Chunk1(e).batch]) IN
        /\ Record(batches, s, p) /\ Further(p, e) /\ p.state = e.state /\ p.error = e.error
        /\ p.chunks = e.chunks /\ p.targets = e.targets /\ p.retried = e.retried
        /\ \A o \in Chunk1(e).ros : p.items[o] = batches[Chunk1(e).batch].items[o]
    BY <1>3, <1>4, <1>5, <2>1, AppliedFact
  <2> QED
    BY <2>1, <2>2
<1> HIDE DEF q
<1>7. Level(q, r) /\ Further(q, r) /\ Unasked(q) /\ Level(q, e)
  BY <1>5, <1>6, FurtherFact DEF Level, Unasked
<1>8. Open(q) = Open(e) /\ Current(q) = Current(e) /\ Chunk1(q) = d
  BY <1>3, <1>6, <1>7, LevelFact DEF Chunk1
<1> QED
  BY <1>3, <1>5, <1>6, <1>7, <1>8 DEF q, e, d

(* A chunk whose batch was processed is done. *)
LEMMA DoneMoves ==
    ASSUME NEW B, NEW s, NEW r, Record(B, s, r), Open(r) # {}, NEW d \in ChunkType,
           d.ros = Chunk1(r).ros, d.pass = Chunk1(r).pass, d.batch = Chunk1(r).batch,
           d.state = "done", ~d.failed, d.batch # 0, Processed(B[d.batch]),
           \A o \in d.ros : r.items[o] = B[d.batch].items[o]
    PROVE  Moves(B, s, r, WithChunk(r, d), "done")
<1>1. Next1(B, s, r, d)
  BY Chunk1Fact DEF Next1
<1>2. Moves(B, s, r, WithChunk(r, d), d.state)
  BY <1>1, ChunkMoves
<1> QED
  BY <1>2

(* batch() answered. *)
LEMMA DriveReadData == ASSUME IInv, DInv, NEW s \in Sweeps, DriveRead(s) PROVE DInv'
<1> DEFINE r == drv[s].rec  c == Chunk1(r)  b == batches[c.batch]
           missed == [c EXCEPT !.reads = @ + 1]
           read == Applied(WithChunk(r, [c EXCEPT !.reads = 0]), b)
           d == [c EXCEPT !.reads = 0, !.state = "done"]
<1>1. drv[s].pc = "read" /\ UNCHANGED <<late, batches>> /\ Outcome(s)
  BY DriveReadOutcome DEF DriveRead, At
<1>2. /\ Types /\ r.state \in Active /\ Typed(batches) /\ Len(batches) \in Nat
      /\ Copy(batches, rec[s], s, "read", r) /\ Record(batches, s, r) /\ Shape(r)
      /\ Level(rec[s], r) /\ Current(rec[s]) = Current(r)
  BY <1>1, AtWork DEF Busy
<1>3. Open(r) # {} /\ c.state = "running" /\ Unasked(r)
  BY <1>2, StageIs DEF Copy
<1>4. c \in ChunkType /\ c.batch # 0 /\ ~c.failed
  BY <1>2, <1>3, Chunk1Fact
<1>5. \/ /\ Saved(s, WithChunk(r, IF missed.reads >= MaxReadFailures THEN GiveUp(missed) ELSE missed))
         /\ Loop(s)
      \/ Processed(b) /\ Saved(s, WithChunk(read, d)) /\ Loop(s)
      \/ Saved(s, read) /\ Loop(s)
      \/ Goto(s, "stopped", read) /\ UNCHANGED rec
  BY Zenon DEF DriveRead
<1>6. Typed(batches') /\ Grows(batches, batches') /\ Len(batches') = Len(batches) /\ batches' = batches
  BY <1>1, <1>2, SameBatches
<1>7. /\ Record(batches, s, read) /\ Unasked(read) /\ Level(read, r) /\ Further(read, r)
      /\ read.state = r.state /\ read.error = r.error
      /\ Open(read) # {} /\ Current(read) = Current(r) /\ Chunk1(read) = [c EXCEPT !.reads = 0]
      /\ \A o \in c.ros : read.items[o] = b.items[o]
  BY <1>2, <1>3, ReadFact
<1>8. CASE /\ Saved(s, WithChunk(r, IF missed.reads >= MaxReadFailures THEN GiveUp(missed) ELSE missed))
           /\ Loop(s)
  <2>1. /\ c.reads + 1 < MaxReadFailures => Moves(batches, s, r, WithChunk(r, missed), c.state)
        /\ Moves(batches, s, r, WithChunk(r, GiveUp(missed)), "done")
        /\ c.reads \in Nat /\ missed.reads = c.reads + 1
    BY <1>2, <1>3, CountedMoves
  <2> HIDE DEF missed
  <2>2. CASE missed.reads >= MaxReadFailures
    BY <1>1, <1>2, <1>6, <1>8, <2>1, <2>2, SavesMoved DEF Busy
  <2>3. CASE ~(missed.reads >= MaxReadFailures)
    <3>1. c.reads + 1 < MaxReadFailures
      BY <2>1, <2>3, SweepAssumption
    <3>2. Saved(s, WithChunk(r, missed)) /\ Moves(batches, s, r, WithChunk(r, missed), "running")
      BY <1>3, <1>8, <2>1, <2>3, <3>1
    <3> QED
      BY <1>1, <1>2, <1>6, <1>8, <3>2, SavesMoved DEF Busy
  <2> QED
    BY <2>2, <2>3
<1>9. CASE Processed(b) /\ Saved(s, WithChunk(read, d)) /\ Loop(s)
  <2>0. 0 \in 0 .. MaxReadFailures - 1
    BY SweepAssumption
  <2>1. /\ d \in ChunkType /\ d.ros = c.ros /\ d.pass = c.pass /\ d.batch = c.batch
        /\ d.state = "done" /\ ~d.failed
    BY <1>4, <2>0 DEF ChunkType
  <2>2. LET f == [c EXCEPT !.reads = 0] IN f.ros = c.ros /\ f.pass = c.pass /\ f.batch = c.batch
    BY <1>4 DEF ChunkType
  <2> HIDE DEF d, read
  <2>3. Moves(batches, s, read, WithChunk(read, d), "done")
    BY <1>4, <1>7, <1>9, <2>1, <2>2, DoneMoves
  <2>4. Level(rec[s], read)
    BY <1>2, <1>7, LevelOn
  <2> QED
    BY <1>1, <1>2, <1>6, <1>7, <1>9, <2>3, <2>4, SavesMoved DEF Busy
<1>10. CASE Saved(s, read) /\ Loop(s)
  <2> HIDE DEF read
  <2>1. Further(read, rec[s])
    BY <1>2, <1>7, FurtherFact
  <2>2. read.state # "completed" /\ Record(batches', s, read)
    BY <1>2, <1>6, <1>7 DEF Active
  <2> QED
    BY <1>1, <1>6, <1>7, <1>10, <2>1, <2>2, Saves DEF Busy
<1>11. CASE Goto(s, "stopped", read) /\ UNCHANGED rec
  <2>1. Chunk1(read).state = "running"
    BY <1>3, <1>4, <1>7 DEF ChunkType
  <2> HIDE DEF read
  <2>2. Level(rec[s], read)
    BY <1>2, <1>7, LevelOn
  <2>3. Copy(batches', rec'[s], s, "stopped", read)
    BY <1>6, <1>7, <1>11, <2>1, <2>2, StageIs DEF Copy
  <2> QED
    BY <1>1, <1>6, <1>11, <2>3, GoesData
<1> QED
  BY <1>5, <1>8, <1>9, <1>10, <1>11

(* signed_in() answered after the worker stopped. *)
LEMMA DriveStoppedData == ASSUME IInv, DInv, NEW s \in Sweeps, DriveStopped(s) PROVE DInv'
<1> DEFINE r == drv[s].rec  c == Chunk1(r)  again == [c EXCEPT !.restarts = @ + 1]
<1>1. drv[s].pc = "stopped" /\ UNCHANGED <<late, batches>> /\ Outcome(s)
  BY DriveStoppedOutcome DEF DriveStopped, At
<1>2. /\ Types /\ r.state \in Active /\ Typed(batches) /\ Len(batches) \in Nat
      /\ Copy(batches, rec[s], s, "stopped", r) /\ Record(batches, s, r) /\ Shape(r)
      /\ Level(rec[s], r) /\ Current(rec[s]) = Current(r)
  BY <1>1, AtWork DEF Busy
<1>3. Open(r) # {} /\ c.state = "running" /\ Unasked(r)
  BY <1>2, StageIs DEF Copy
<1>4. Typed(batches') /\ Grows(batches, batches') /\ Len(batches') = Len(batches) /\ batches' = batches
  BY <1>1, <1>2, SameBatches
<1>5. /\ c.restarts < MaxRestarts => Moves(batches, s, r, WithChunk(r, again), c.state)
      /\ Moves(batches, s, r, WithChunk(r, GiveUp(again)), "done")
      /\ c.restarts \in Nat /\ again.restarts = c.restarts + 1
  BY <1>2, <1>3, CountedMoves
<1>6. \/ EnterSignInWait(s, r)
      \/ Saved(s, WithChunk(r, GiveUp(again))) /\ Loop(s)
      \/ again.restarts <= MaxRestarts /\ Goto(s, "restart", WithChunk(r, again)) /\ UNCHANGED rec
  BY DEF DriveStopped
<1>7. CASE EnterSignInWait(s, r)
  <2>1. Further(r, rec[s])
    BY <1>2, FurtherFact
  <2> QED
    BY <1>1, <1>2, <1>3, <1>4, <1>7, <2>1, WaitsData DEF Busy
<1>8. CASE Saved(s, WithChunk(r, GiveUp(again))) /\ Loop(s)
  <2> HIDE DEF again
  <2> QED
    BY <1>1, <1>2, <1>4, <1>5, <1>8, SavesMoved DEF Busy
<1>9. CASE again.restarts <= MaxRestarts /\ Goto(s, "restart", WithChunk(r, again)) /\ UNCHANGED rec
  <2>1. c \in ChunkType /\ c.batch # 0
    BY <1>2, <1>3, Chunk1Fact
  <2>2. Counting(again, c) /\ again \in ChunkType
    BY <1>9, <2>1, ChunkFields
  <2> DEFINE q == WithChunk(r, again)
  <2> HIDE DEF again
  <2>3. /\ Moves(batches, s, r, q, Chunk1(r).state) /\ Open(q) # {} /\ Current(q) = Current(r)
        /\ Chunk1(q) = again /\ again.state = Chunk1(r).state /\ again.ros = Chunk1(r).ros
        /\ again.batch = Chunk1(r).batch
    BY <1>2, <1>3, <2>1, <2>2, CountMoves
  <2> HIDE DEF q
  <2>4. Record(batches, s, q) /\ Level(q, r) /\ Unasked(q) /\ Chunk1(q).state = "running"
    BY <1>3, <2>3 DEF Moves
  <2>5. Level(rec[s], q)
    BY <1>2, <2>4, LevelOn
  <2>6. Copy(batches', rec'[s], s, "restart", q)
    BY <1>4, <1>9, <2>3, <2>4, <2>5, StageIs DEF Copy
  <2>7. Goto(s, "restart", q) /\ UNCHANGED rec
    BY <1>9 DEF q
  <2> QED
    BY <1>1, <1>4, <2>6, <2>7, GoesData
<1> QED
  BY <1>6, <1>7, <1>8, <1>9

(* The repeated start_batch answered. *)
LEMMA DriveRestartData == ASSUME IInv, DInv, NEW s \in Sweeps, DriveRestart(s) PROVE DInv'
<1> DEFINE r == drv[s].rec  c == Chunk1(r)
<1>1. drv[s].pc = "restart" /\ UNCHANGED late /\ Outcome(s)
  BY DriveRestartOutcome DEF DriveRestart, At
<1>2. /\ Types /\ r.state \in Active /\ Typed(batches) /\ Len(batches) \in Nat
      /\ Copy(batches, rec[s], s, "restart", r) /\ Record(batches, s, r) /\ Shape(r)
      /\ Level(rec[s], r) /\ Current(rec[s]) = Current(r)
  BY <1>1, AtWork DEF Busy
<1>3. Open(r) # {} /\ c.state = "running" /\ Unasked(r)
  BY <1>2, StageIs DEF Copy
<1>4. c.batch # 0
  BY <1>2, <1>3, Chunk1Fact
<1>5. PICK a \in Answers :
        StartEffect(r, a) /\ (EnterSignInWait(s, r) \/ (Saved(s, r) /\ Loop(s)))
  BY DEF DriveRestart
<1>6. /\ Typed(batches') /\ Grows(batches, batches') /\ Len(batches') = Len(batches)
      /\ Record(batches', s, r)
  BY <1>2, <1>3, <1>4, <1>5, StartEffectFact
<1>7. Further(r, rec[s])
  BY <1>2, FurtherFact
<1>8. CASE EnterSignInWait(s, r)
  BY <1>1, <1>3, <1>6, <1>7, <1>8, WaitsData DEF Busy
<1>9. CASE Saved(s, r) /\ Loop(s)
  <2>1. r.state # "completed"
    BY <1>2 DEF Active
  <2> QED
    BY <1>1, <1>3, <1>6, <1>7, <1>9, <2>1, Saves DEF Busy
<1> QED
  BY <1>5, <1>8, <1>9

(* The sign-in page was opened, as far as that went. *)
LEMMA DriveOpenSignInData == ASSUME IInv, DInv, NEW s \in Sweeps, DriveOpenSignIn(s) PROVE DInv'
<1>1. drv[s].pc = "openSignIn" /\ UNCHANGED <<late, rec, batches>> /\ Loop(s) /\ Outcome(s)
  BY DriveOpenSignInOutcome DEF DriveOpenSignIn, At
<1> QED
  BY <1>1, LoopsData

(* A driver that gives up what is left of its sweep, and asks Calibration IQ again. *)
LEMMA CutsData ==
    ASSUME IInv, DInv, NEW s \in Sweeps, Outcome(s), UNCHANGED <<late, rec, batches>>,
           drv[s].pc \notin {"none", "recheck"}, NEW r, Record(batches, s, r), Unasked(r),
           Level(rec[s], r), Goto(s, "recheck", [r EXCEPT !.error = "cut"])
    PROVE  DInv'
<1> DEFINE q == [r EXCEPT !.error = "cut"]
<1>1. Alike(q, r) /\ q.error = "cut"
  BY DEF Record, Shape, Alike
<1>2. Goto(s, "recheck", q)
  OBVIOUS
<1> HIDE DEF q
<1>3. Record(batches, s, q) /\ Level(q, r) /\ Unasked(q)
  BY <1>1, AlikeFact
<1>4. Level(rec[s], q) /\ Reportable(q)
  BY <1>1, <1>3, LevelOn DEF Reportable
<1>5. Typed(batches') /\ Grows(batches, batches') /\ Len(batches') = Len(batches) /\ batches' = batches
  BY SameBatches DEF DInv
<1>6. Copy(batches', rec'[s], s, "recheck", q)
  BY <1>3, <1>4, <1>5 DEF Copy
<1> QED
  BY <1>2, <1>5, <1>6, GoesData

(* signed_in() answered while waiting. *)
LEMMA DriveSignedInData == ASSUME IInv, DInv, NEW s \in Sweeps, DriveSignedIn(s) PROVE DInv'
<1> DEFINE r == drv[s].rec  q == [r EXCEPT !.state = "running"]
<1>1. drv[s].pc = "signedIn" /\ UNCHANGED <<late, batches>> /\ Outcome(s)
  BY DriveSignedInOutcome DEF DriveSignedIn, At
<1>2. /\ Types /\ r.state \in Active /\ Typed(batches) /\ Len(batches) \in Nat
      /\ Copy(batches, rec[s], s, "signedIn", r) /\ Record(batches, s, r) /\ Shape(r)
      /\ Level(rec[s], r) /\ Current(rec[s]) = Current(r)
  BY <1>1, AtWork DEF Busy
<1>3. Unasked(r)
  BY <1>2 DEF Copy
<1>4. Typed(batches') /\ Grows(batches, batches') /\ Len(batches') = Len(batches) /\ batches' = batches
  BY <1>1, <1>2, SameBatches
<1>5. \/ Saved(s, q) /\ Loop(s)
      \/ Loop(s) /\ UNCHANGED rec
      \/ Goto(s, "recheck", [r EXCEPT !.error = "cut"]) /\ UNCHANGED rec
  BY DEF DriveSignedIn
<1>6. CASE Saved(s, q) /\ Loop(s)
  <2>1. Alike(q, r) /\ q.state = "running"
    BY <1>2 DEF Shape, Alike, Active
  <2> HIDE DEF q
  <2>2. Record(batches, s, q) /\ Level(q, r) /\ Unasked(q) /\ Further(q, r)
    BY <1>2, <1>3, <2>1, AlikeFact
  <2>3. Further(q, rec[s])
    BY <1>2, <2>2, FurtherFact
  <2> QED
    BY <1>1, <1>4, <1>6, <2>1, <2>2, <2>3, Saves DEF Busy
<1>7. CASE Loop(s) /\ UNCHANGED rec
  BY <1>1, <1>7, LoopsData
<1>8. CASE Goto(s, "recheck", [r EXCEPT !.error = "cut"]) /\ UNCHANGED rec
  BY <1>1, <1>2, <1>3, <1>8, CutsData
<1> QED
  BY <1>5, <1>6, <1>7, <1>8

(* Any other exception. *)
LEMMA DriveErrorData == ASSUME IInv, DInv, NEW s \in Sweeps, DriveError(s) PROVE DInv'
<1>1. /\ drv[s].pc \in Busy \ {"recheck", "openSignIn"} /\ UNCHANGED <<late, rec, batches>>
      /\ Outcome(s)
  BY DriveErrorOutcome DEF DriveError, At, Busy
<1>2. Record(batches, s, rec[s]) /\ Unasked(rec[s]) /\ Level(rec[s], rec[s]) /\ IsActive(s)
  BY <1>1, AtWork, FurtherFact
<1>3. Goto(s, "recheck", [rec[s] EXCEPT !.error = "cut"])
  BY <1>2 DEF DriveError
<1>4. PICK r : r = rec[s]
  OBVIOUS
<1> QED
  BY <1>1, <1>2, <1>3, <1>4, CutsData DEF Busy

(* A sweep is completed with what may be reported. *)
LEMMA DriveRecheckData == ASSUME IInv, DInv, NEW s \in Sweeps, DriveRecheck(s) PROVE DInv'
<1> DEFINE r == drv[s].rec  q == [r EXCEPT !.state = "completed"]
<1>1. drv[s].pc = "recheck" /\ UNCHANGED <<late, batches>> /\ Outcome(s)
  BY DriveRecheckOutcome DEF DriveRecheck, At
<1>2. /\ Types /\ r.state \in Active /\ Typed(batches) /\ Len(batches) \in Nat
      /\ Copy(batches, rec[s], s, "recheck", r) /\ Record(batches, s, r) /\ Shape(r)
      /\ Level(rec[s], r) /\ Current(rec[s]) = Current(r)
  BY <1>1, AtWork DEF Busy
<1>3. Unasked(r) /\ Reportable(r)
  BY <1>2 DEF Copy
<1>4. Typed(batches') /\ Grows(batches, batches') /\ Len(batches') = Len(batches) /\ batches' = batches
  BY <1>1, <1>2, SameBatches
<1>5. Saved(s, q) /\ Goto(s, "notify", q)
  BY DEF DriveRecheck
<1>6. Alike(q, r) /\ q.state = "completed" /\ q.error = r.error
  BY <1>2 DEF Shape, Alike, Terminal
<1> HIDE DEF q
<1>7. Record(batches, s, q) /\ Level(q, r) /\ Unasked(q) /\ Further(q, r) /\ Open(q) = Open(r)
  BY <1>2, <1>3, <1>6, AlikeFact
<1>8. Reportable(q)
  BY <1>3, <1>6, <1>7 DEF Reportable, Alike
<1>9. Known(s)' /\ rec'[s] = q
  BY <1>2, <1>4, <1>5, <1>7, <1>8, SavedKnown
<1>10. Copy(batches', rec'[s], s, "notify", q)
  BY <1>4, <1>7, <1>8, <1>9, FurtherFact DEF Copy
<1>11. Copies(s)'
  BY <1>2, <1>5, <1>10, GoesCopies
<1>12. Further(rec'[s], rec[s])
  BY <1>2, <1>7, <1>9, FurtherFact
<1>13. Finishes(s)
  <2>1. rec'[s].state = "completed" /\ IsActive(s)
    BY <1>1, <1>6, <1>9, AtWork DEF Busy
  <2> QED
    BY <1>1, <2>1 DEF Outcome, GoesOn, Ends, InState, Active, IsActive
<1> QED
  BY <1>1, <1>4, <1>9, <1>11, <1>12, <1>13, DriverData

(* The record of a sweep that was notified of. *)
LEMMA DriveNotifiedData == ASSUME IInv, DInv, NEW s \in Sweeps, DriveNotified(s) PROVE DInv'
<1> DEFINE r == drv[s].rec  q == [r EXCEPT !.notified = TRUE]
<1>1. drv[s].pc = "notify" /\ UNCHANGED <<late, batches>> /\ Outcome(s)
  BY DriveNotifiedOutcome DEF DriveNotified, At
<1>2. /\ Types /\ rec[s].state = "completed" /\ Exists(s) /\ Typed(batches)
  <2>1. Types /\ rec[s].state = "completed" /\ Typed(batches)
    BY <1>1 DEF IInv, Driver, DInv
  <2> QED
    BY <2>1 DEF Exists, NoRecord
<1>3. Copy(batches, rec[s], s, "notify", r) /\ Record(batches, s, r) /\ Level(rec[s], r) /\ Shape(r)
  BY <1>1, <1>2, HasCopy
<1>4. Unasked(r) /\ Reportable(r)
  BY <1>3 DEF Copy
<1>5. Typed(batches') /\ Grows(batches, batches') /\ Len(batches') = Len(batches) /\ batches' = batches
  BY <1>1, <1>2, SameBatches
<1>6. Saved(s, q) /\ Ended(s)
  BY DEF DriveNotified
<1>7. Alike(q, r) /\ q.error = r.error
  BY <1>3 DEF Shape, Alike
<1> HIDE DEF q
<1>8. Record(batches, s, q) /\ Level(q, r) /\ Unasked(q) /\ Further(q, r) /\ Open(q) = Open(r)
  BY <1>3, <1>4, <1>7, AlikeFact
<1>9. Reportable(q)
  BY <1>4, <1>7, <1>8 DEF Reportable, Alike
<1>10. Known(s)' /\ rec'[s] = q
  BY <1>2, <1>5, <1>6, <1>8, <1>9, SavedKnown
<1>11. Copies(s)'
  BY <1>2, <1>6, LoopCopies
<1>12. Further(rec'[s], rec[s])
  BY <1>3, <1>8, <1>10, FurtherFact
<1> QED
  BY <1>1, <1>5, <1>10, <1>11, <1>12, DriverData

(* The top of the driver's loop. *)
LEMMA DriveData == ASSUME IInv, DInv, NEW s \in Sweeps, Drive(s) PROVE DInv'
<1> DEFINE r == rec[s]  at == CASE Chunk1(r).state = "pending" \/ Chunk1(r).batch = 0 -> "create"
                                [] Chunk1(r).state = "created" -> "start"
                                [] OTHER                       -> "read"
<1>1. drv[s].pc = "loop" /\ UNCHANGED <<late, batches>> /\ Outcome(s)
  BY DriveOutcome DEF Drive, At
<1>2. Types /\ Exists(s) /\ Typed(batches) /\ Len(batches) \in Nat
  BY <1>1 DEF IInv, Driver, DInv, Exists, NoRecord, Typed
<1>3. /\ Record(batches, s, r) /\ Unasked(r) /\ Level(r, r) /\ Shape(r)
      /\ r.state = "completed" => Reportable(r)
  BY <1>2, FurtherFact DEF DInv, Known, Record
<1>4. Typed(batches') /\ Grows(batches, batches') /\ Len(batches') = Len(batches) /\ batches' = batches
  BY <1>1, <1>2, SameBatches
<1>5. \/ Ended(s) /\ UNCHANGED rec
      \/ Goto(s, "recheck", [r EXCEPT !.error = "cut"]) /\ UNCHANGED rec
      \/ Goto(s, "signedIn", r) /\ UNCHANGED rec
      \/ Open(r) = {} /\ r.retried /\ Goto(s, "recheck", r) /\ UNCHANGED rec
      \/ Open(r) = {} /\ ~r.retried /\ r.state = "running" /\ Saved(s, Retry(r)) /\ UNCHANGED drv
      \/ Open(r) # {} /\ UNCHANGED rec /\ Goto(s, at, r)
  BY Zenon DEF Drive
<1>6. CASE Ended(s) /\ UNCHANGED rec
  BY <1>1, <1>6, LoopsData
<1>7. PICK q : q = r
  OBVIOUS
<1>8. CASE Goto(s, "recheck", [r EXCEPT !.error = "cut"]) /\ UNCHANGED rec
  BY <1>1, <1>3, <1>7, <1>8, CutsData
<1>9. CASE Goto(s, "signedIn", r) /\ UNCHANGED rec
  <2>1. Copy(batches', rec'[s], s, "signedIn", q)
    BY <1>3, <1>4, <1>7, <1>9 DEF Copy
  <2> QED
    BY <1>1, <1>4, <1>7, <1>9, <2>1, GoesData
<1>10. CASE Open(r) = {} /\ r.retried /\ Goto(s, "recheck", r) /\ UNCHANGED rec
  <2>1. Copy(batches', rec'[s], s, "recheck", q)
    BY <1>3, <1>4, <1>7, <1>10 DEF Copy, Reportable
  <2> QED
    BY <1>1, <1>4, <1>7, <1>10, <2>1, GoesData
<1>11. CASE /\ Open(r) = {} /\ ~r.retried /\ r.state = "running" /\ Saved(s, Retry(r))
            /\ UNCHANGED drv
  <2>1. Record(batches, s, Retry(q)) /\ Unasked(Retry(q)) /\ Further(Retry(q), q)
    BY <1>3, <1>7, <1>11, RetryFact
  <2>2. Retry(q).state = "running"
    BY <1>3, <1>7, <1>11, KeepsState DEF Shape, InState
  <2>3. PICK w : w = Retry(q)
    OBVIOUS
  <2>4. Known(s)' /\ rec'[s] = w
    BY <1>2, <1>4, <1>7, <1>11, <2>1, <2>2, <2>3, SavedKnown
  <2>5. Copies(s)'
    BY <1>1, <1>11 DEF Copies, DInv
  <2> QED
    BY <1>1, <1>4, <1>7, <2>1, <2>3, <2>4, <2>5, DriverData
<1>12. CASE Open(r) # {} /\ UNCHANGED rec /\ Goto(s, at, r)
  <2>1. /\ Chunk1(r).state \in {"pending", "created", "running"}
        /\ Chunk1(r).state # "pending" => Chunk1(r).batch # 0
    <3>1. Chunk1(r) \in ChunkType /\ Chunk1(r).state # "done"
          /\ (Chunk1(r).state \in {"created", "running"} => Chunk1(r).batch # 0)
      BY <1>3, <1>12, Chunk1Fact
    <3> QED
      BY <3>1 DEF ChunkType
  <2>2. /\ at \in {"create", "start", "read"} /\ Chunk1(r).state = Stage(at)
    BY <2>1, StageIs, Zenon
  <2>3. PICK p \in {"create", "start", "read"} : p = at
    BY <2>2
  <2> HIDE DEF at
  <2>4. Copy(batches', rec'[s], s, p, q)
    BY <1>3, <1>4, <1>7, <1>12, <2>2, <2>3 DEF Copy
  <2> QED
    BY <1>1, <1>4, <1>7, <1>12, <2>3, <2>4, GoesData
<1> QED
  BY <1>5, <1>6, <1>8, <1>9, <1>10, <1>11, <1>12

(* What is known is kept by every step of a driver. *)
LEMMA DriverKeepsData == ASSUME IInv, DInv, NEW s \in Sweeps, DriverStep(s) PROVE DInv'
  BY DriveData, DriveCreateData, DriveLaunchData, DriveStartData, DriveReadData,
     DriveStoppedData, DriveRestartData, DriveOpenSignInData, DriveSignedInData,
     DriveErrorData, DriveRecheckData, DriveNotifiedData DEF DriverStep

-----------------------------------------------------------------------------
(* A step that saves no record keeps what is known, when drivers and calls go on with the
   copies they have or with none. *)
LEMMA QuietData ==
    ASSUME DInv, UNCHANGED <<rec, crashes>>, late' \in [Sweeps -> BOOLEAN],
           Typed(batches'), Grows(batches, batches'), Len(batches') = Len(batches),
           \A s \in Sweeps : \/ drv'[s] = drv[s]
                             \/ drv'[s].pc \in {"none", "loop"} /\ drv'[s].rec = NoRecord,
           \A c \in Callers : call'[c] = call[c] \/ call'[c].pc \in {"idle", "ask"},
           \A s \in Sweeps, k \in Nat : Fresh(s, k)' => Fresh(s, k)
    PROVE  DInv'
<1>0. Len(batches) \in Nat /\ Len(batches') \in Nat
  BY DEF DInv, Typed
<1>1. ASSUME NEW s, NEW r, Record(batches, s, r) PROVE Record(batches', s, r)
  BY <1>0, <1>1, StillBacked
<1>2. \A s, p, r : Copy(batches, rec[s], s, p, r) => Copy(batches', rec'[s], s, p, r)
  BY <1>1 DEF Copy
<1>3. ASSUME NEW s \in Sweeps PROVE Known(s)' /\ Copies(s)'
  <2>1. Known(s) /\ Copies(s)
    BY DEF DInv
  <2>2. Known(s)'
    BY <1>1, <2>1 DEF Known, Exists
  <2>3. Copies(s)'
    BY <1>2, <2>1 DEF Copies
  <2> QED
    BY <2>2, <2>3
<1>4. ASSUME NEW c \in Callers PROVE Called(c)'
  <2>1. Called(c)
    BY DEF DInv
  <2>2. CASE call'[c] = call[c]
    BY <1>2, <2>1, <2>2 DEF Called
  <2>3. CASE call'[c].pc \in {"idle", "ask"}
    BY <2>3 DEF Called
  <2> QED
    BY <2>2, <2>3
<1>5. (\A id \in BatchIds : Placed(batches[id].sweep, batches[id].chunk))'
  <2> SUFFICES ASSUME NEW id \in 1 .. Len(batches)
               PROVE  (Placed(batches[id].sweep, batches[id].chunk))'
    BY DEF BatchIds
  <2>1. Placed(batches[id].sweep, batches[id].chunk)
    BY DEF DInv, BatchIds
  <2>2. batches'[id].sweep = batches[id].sweep /\ batches'[id].chunk = batches[id].chunk
    BY DEF Grows
  <2> QED
    BY <2>1, <2>2 DEF Placed, Exists
<1>6. ASSUME NEW s \in Sweeps, NEW k \in Nat PROVE Counted(s, k)'
  <2>1. Of(s, k)' = Of(s, k) /\ Counted(s, k)
    BY OfSame DEF DInv
  <2> QED
    BY <2>1 DEF Counted
<1> QED
  BY <1>3, <1>4, <1>5, <1>6 DEF DInv

(* A driver is given to a sweep, or the drivers are left alone. *)
LEMMA EnsureData ==
    ASSUME Types, DInv, UNCHANGED <<rec, crashes, late, batches>>,
           UNCHANGED drv \/ \E s \in Sweeps : EnsureDriver(s),
           \A c \in Callers : call'[c] = call[c] \/ (call'[c].pc \in {"idle", "ask"} /\ call[c].pc # "launch")
    PROVE  DInv'
<1>1. \A s \in Sweeps : \/ drv'[s] = drv[s]
                        \/ drv'[s].pc = "loop" /\ drv[s].pc = "none" /\ drv'[s].rec = NoRecord
  <2>1. CASE UNCHANGED drv
    BY <2>1
  <2>2. ASSUME NEW s \in Sweeps, EnsureDriver(s)
        PROVE  \A t \in Sweeps : \/ drv'[t] = drv[t]
                                 \/ drv'[t].pc = "loop" /\ drv[t].pc = "none" /\ drv'[t].rec = NoRecord
    <3>1. CASE drv[s].pc = "none"
      <4>1. Goto(s, "loop", NoRecord)
        BY <2>2, <3>1 DEF EnsureDriver, Loop
      <4> QED
        BY <3>1, <4>1, GotoFact
    <3>2. CASE drv[s].pc # "none"
      BY <2>2, <3>2 DEF EnsureDriver
    <3> QED
      BY <3>1, <3>2
  <2> QED
    BY <2>1, <2>2
<1>2. \A s \in Sweeps : Asked(s) => Asked(s)'
  BY <1>1 DEF Asked
<1>3. ASSUME NEW s \in Sweeps, NEW k \in Nat, Fresh(s, k)' PROVE Fresh(s, k)
  BY <1>1, <1>2, <1>3 DEF Fresh, IsActive
<1>4. Typed(batches') /\ Grows(batches, batches') /\ Len(batches') = Len(batches)
  BY SameBatches DEF DInv
<1> QED
  BY <1>1, <1>3, <1>4, QuietData DEF DInv

(* start(), when it finds an active sweep or takes the lock. *)
LEMMA StartData == ASSUME IInv, DInv, NEW c \in Callers, Start(c) PROVE DInv'
<1>1. Types /\ UNCHANGED <<rec, crashes, late, batches>> /\ call[c].pc = "idle"
  BY DEF IInv, Start, In
<1>2. UNCHANGED drv \/ \E s \in Sweeps : EnsureDriver(s)
  BY DEF Start
<1>3. UNCHANGED call \/ Call(c, "ask", 0, NoRecord)
  BY DEF Start
<1>4. \A d \in Callers : call'[d] = call[d] \/ (call'[d].pc \in {"idle", "ask"} /\ call[d].pc # "launch")
  BY <1>1, <1>3 DEF Call, Types
<1> QED
  BY <1>1, <1>2, <1>4, EnsureData

(* A turn that is cancelled before it launches anything. *)
LEMMA StartCancelledData ==
    ASSUME ~StopsInLaunch, IInv, DInv, NEW c \in Callers, StartCancelled(c) PROVE DInv'
<1>1. Types /\ UNCHANGED <<rec, crashes, late, batches, drv>> /\ call[c].pc # "launch"
  BY DEF IInv, StartCancelled
<1>2. \A d \in Callers : call'[d] = call[d] \/ (call'[d].pc \in {"idle", "ask"} /\ call[d].pc # "launch")
  BY <1>1 DEF StartCancelled, Return, Idle, Types
<1> QED
  BY <1>1, <1>2, EnsureData

(* status(), and resume() for one record. *)
LEMMA StatusData == ASSUME IInv, DInv, NEW s \in Sweeps, Status(s) \/ Resume(s) PROVE DInv'
<1>1. Types /\ UNCHANGED <<rec, crashes, late, batches, call>>
  BY DEF IInv, Status, Resume
<1>2. UNCHANGED drv \/ EnsureDriver(s)
  BY DEF Status, Resume
<1> QED
  BY <1>1, <1>2, EnsureData

(* The service starts, serves, or a sweep has been running for too long. *)
LEMMA ServiceData ==
    ASSUME IInv, DInv, Restart \/ Serve \/ UNCHANGED vars \/ \E s \in Sweeps : TimeLimit(s)
    PROVE  DInv'
<1>1. Types /\ UNCHANGED <<rec, crashes, batches, call, drv>>
  BY DEF IInv, Restart, Serve, TimeLimit, vars
<1>2. late' \in [Sweeps -> BOOLEAN]
  BY DEF DInv, Restart, Serve, TimeLimit, vars
<1>3. Typed(batches') /\ Grows(batches, batches') /\ Len(batches') = Len(batches)
  BY <1>1, SameBatches DEF DInv
<1>4. ASSUME NEW s \in Sweeps, NEW k \in Nat, Fresh(s, k)' PROVE Fresh(s, k)
  BY <1>1, <1>4 DEF Fresh, IsActive, Asked
<1> QED
  BY <1>1, <1>2, <1>3, <1>4, QuietData

(* The service goes down: a batch may be created once more. *)
LEMMA CrashData == ASSUME IInv, DInv, Crash PROVE DInv'
<1>1. UNCHANGED <<rec, batches, late>> /\ crashes' = crashes + 1 /\ crashes < MaxCrashes
  BY DEF Crash
<1>2. crashes \in Nat
  BY DEF IInv, Types
<1>3. ASSUME NEW s \in Sweeps PROVE Known(s)' /\ Copies(s)'
  <2>1. drv'[s].pc = "none" /\ drv'[s].rec = NoRecord /\ Known(s)
    BY DEF Crash, NoDriver, DInv
  <2> QED
    BY <1>1, <2>1 DEF Known, Exists, Copies
<1>4. ASSUME NEW c \in Callers PROVE Called(c)'
  BY DEF Crash, Idle, Called
<1>5. (\A id \in BatchIds : Placed(batches[id].sweep, batches[id].chunk))'
  BY <1>1 DEF DInv, BatchIds, Placed, Exists
<1>6. ASSUME NEW s \in Sweeps, NEW k \in Nat PROVE Counted(s, k)'
  <2>1. Of(s, k)' = Of(s, k)
    BY <1>1 DEF Of, BatchIds
  <2>2. Counted(s, k) /\ Typed(batches)
    BY DEF DInv
  <2>3. Cardinality(Of(s, k)) \in Nat
    BY <2>2, OfFinite
  <2> QED
    BY <1>1, <1>2, <2>1, <2>2, <2>3 DEF Counted
<1>7. Typed(batches)' /\ late' \in [Sweeps -> BOOLEAN] /\ crashes' \in 0 .. MaxCrashes
  BY <1>1, <1>2, SweepAssumption DEF DInv
<1> QED
  BY <1>3, <1>4, <1>5, <1>6, <1>7 DEF DInv

(* ScrapeX finishes a repair order of a batch, or its worker stops. *)
LEMMA BatchFact ==
    ASSUME Typed(batches), NEW id \in BatchIds, NEW b \in Batch,
           batches' = [batches EXCEPT ![id] = b],
           b.sweep = batches[id].sweep, b.chunk = batches[id].chunk, b.ros = batches[id].ros,
           b.items \in [b.ros -> ItemStates],
           \A o \in b.ros : batches[id].items[o] # "none" => b.items[o] = batches[id].items[o]
    PROVE  Typed(batches') /\ Grows(batches, batches') /\ Len(batches') = Len(batches)
<1>1. /\ batches' \in Seq(Batch) /\ Len(batches') = Len(batches) /\ batches'[id] = b
      /\ \A j \in 1 .. Len(batches) : j # id => batches'[j] = batches[j]
      /\ Len(batches) \in Nat
  BY DEF Typed, BatchIds
<1>2. Typed(batches')
  BY <1>1 DEF Typed
<1>3. Grows(batches, batches')
  BY <1>1 DEF Grows
<1> QED
  BY <1>1, <1>2, <1>3

(* A step of ScrapeX itself keeps what is known. *)
LEMMA BatchData ==
    ASSUME IInv, DInv, NEW id \in BatchIds, BatchWorks(id) \/ BatchStops(id) PROVE DInv'
<1> DEFINE old == batches[id]
<1>0. Types /\ UNCHANGED <<rec, crashes, call, drv, late>> /\ Typed(batches)
  BY DEF IInv, BatchWorks, BatchStops, DInv
<1>1. old \in Batch /\ old.items \in [old.ros -> ItemStates]
  BY <1>0 DEF Typed, BatchIds
<1>2. Typed(batches') /\ Grows(batches, batches') /\ Len(batches') = Len(batches)
  <2>1. CASE BatchWorks(id)
    <3>1. PICK o \in old.ros, result \in ItemStates \ {"none"} :
            old.items[o] = "none" /\ batches' = [batches EXCEPT ![id].items[o] = result]
      BY <2>1 DEF BatchWorks
    <3> DEFINE it == [old.items EXCEPT ![o] = result]  b == [old EXCEPT !.items = it]
    <3>2. batches' = [batches EXCEPT ![id] = b]
      BY <3>1, Zenon
    <3>3. /\ it \in [old.ros -> ItemStates]
          /\ \A p \in old.ros : old.items[p] # "none" => it[p] = old.items[p]
      BY <1>1, <3>1
    <3> HIDE DEF it
    <3>4. it \in Parts
      <4>1. old.ros \in SUBSET ROs
        BY <1>1 DEF Batch
      <4> QED
        BY <3>3, <4>1 DEF Parts
    <3>5. /\ b \in Batch /\ b.sweep = old.sweep /\ b.chunk = old.chunk /\ b.ros = old.ros
          /\ b.items = it
      BY <1>1, <3>4 DEF Batch
    <3> HIDE DEF b
    <3>6. /\ b.items \in [b.ros -> ItemStates]
          /\ \A p \in b.ros : batches[id].items[p] # "none" => b.items[p] = batches[id].items[p]
      BY <3>3, <3>5
    <3>7. b.sweep = batches[id].sweep /\ b.chunk = batches[id].chunk /\ b.ros = batches[id].ros
      BY <3>5
    <3> QED
      BY <1>0, <3>2, <3>5, <3>6, <3>7, BatchFact
  <2>2. CASE BatchStops(id)
    <3> DEFINE b == [old EXCEPT !.state = "stopped"]
    <3>1. batches' = [batches EXCEPT ![id] = b]
      BY <2>2, Zenon DEF BatchStops
    <3>2. /\ b \in Batch /\ b.sweep = old.sweep /\ b.chunk = old.chunk /\ b.ros = old.ros
          /\ b.items = old.items
      BY <1>1 DEF Batch
    <3> HIDE DEF b
    <3> QED
      BY <1>0, <1>1, <3>1, <3>2, BatchFact
  <2> QED
    BY <2>1, <2>2
<1>3. ASSUME NEW s \in Sweeps, NEW k \in Nat, Fresh(s, k)' PROVE Fresh(s, k)
  BY <1>0, <1>3 DEF Fresh, IsActive, Asked
<1>4. late' \in [Sweeps -> BOOLEAN]
  BY <1>0 DEF DInv
<1> QED
  BY <1>0, <1>2, <1>3, <1>4, QuietData

-----------------------------------------------------------------------------
(* The call that holds the lock is the only one. *)
LEMMA OneCaller ==
    ASSUME IInv, NEW c \in Callers, call[c].pc # "idle"
    PROVE  /\ Types /\ lock = c /\ DOMAIN call = Callers /\ DOMAIN drv = Sweeps
           /\ \A d \in Callers \ {c} : call[d].pc = "idle"
           /\ call[c].pc \in {"create", "launch"} =>
                /\ call[c].sweep \in Sweeps /\ rec[call[c].sweep].state = "running"
                /\ IsActive(call[c].sweep) /\ Exists(call[c].sweep)
                /\ drv[call[c].sweep].pc = "none" /\ call[c].rec.state = "running"
<1>1. Types /\ Caller(c) /\ \A d \in Callers : Caller(d)
  BY DEF IInv
<1>2. lock = c /\ \A d \in Callers \ {c} : call[d].pc = "idle"
  BY <1>1 DEF Caller
<1>3. ASSUME call[c].pc \in {"create", "launch"}
      PROVE  /\ call[c].sweep \in Sweeps /\ rec[call[c].sweep].state = "running"
             /\ IsActive(call[c].sweep) /\ Exists(call[c].sweep)
             /\ drv[call[c].sweep].pc = "none" /\ call[c].rec.state = "running"
  <2>1. /\ call[c].sweep \in Sweeps /\ rec[call[c].sweep].state = "running"
        /\ call[c].rec.state = "running"
    BY <1>1, <1>3 DEF Caller, InState
  <2>2. Launching(call[c].sweep) /\ Driver(call[c].sweep)
    BY <1>3, <2>1 DEF Launching, IInv
  <2>3. drv[call[c].sweep].pc = "none"
    BY <2>2 DEF Driver
  <2> QED
    BY <2>1, <2>3 DEF IsActive, Active, Exists, NoRecord
<1> QED
  BY <1>1, <1>2, <1>3 DEF Types

(* What is known when the record of a new sweep is saved. *)
LEMMA StartAnsweredData == ASSUME IInv, DInv, NEW c \in Callers, StartAnswered(c) PROVE DInv'
<1>0. /\ Types /\ UNCHANGED <<crashes, late, batches, drv>> /\ call[c].pc = "ask"
      /\ \A d \in Callers \ {c} : call[d].pc = "idle"
  BY OneCaller DEF StartAnswered, In
<1>1. CASE Return(c) /\ UNCHANGED rec
  <2>1. \A d \in Callers : call'[d] = call[d] \/ (call'[d].pc \in {"idle", "ask"} /\ call[d].pc # "launch")
    BY <1>0, <1>1 DEF Return, Idle, Types
  <2> QED
    BY <1>0, <1>1, <2>1, EnsureData
<1>2. ASSUME NEW s \in Sweeps, NEW missing \in (SUBSET ROs) \ {{}}, ~Exists(s),
             Saved(s, NewRecord(missing)), Call(c, "create", s, NewRecord(missing))
      PROVE  DInv'
  <2> DEFINE q == NewRecord(missing)
  <2>1. /\ Record(batches, s, q) /\ Unasked(q) /\ q.state = "running"
        /\ Open(q) # {} /\ Chunk1(q).state = "pending"
    BY NewRecordFact
  <2>2. Saved(s, q) /\ Call(c, "create", s, q)
    BY <1>2
  <2> HIDE DEF q
  <2>3. Typed(batches') /\ Grows(batches, batches') /\ Len(batches') = Len(batches) /\ batches' = batches
    BY <1>0, SameBatches DEF DInv
  <2>4. Known(s)' /\ rec'[s] = q
    BY <1>0, <2>1, <2>2, <2>3, SavedKnown
  <2>5. \A t \in Sweeps \ {s} : rec'[t] = rec[t]
    BY <1>0, <2>2, SavedFact
  <2>6. /\ call'[c].pc = "create" /\ call'[c].sweep = s /\ call'[c].rec = q
        /\ \A d \in Callers \ {c} : call'[d] = call[d]
    BY <1>0, <2>2 DEF Call, Types
  <2>7. Copies(s)'
    <3>1. drv[s].pc = "none"
      BY <1>2 DEF IInv, Driver, Exists, NoRecord
    <3>2. Copies(s)
      BY DEF DInv
    <3> QED
      BY <1>0, <3>1, <3>2 DEF Copies
  <2>8. \A d \in Callers : Called(d)'
    <3>1. Copy(batches', rec'[s], s, "create", q)
      BY <2>1, <2>3, <2>4, FurtherFact, StageIs DEF Copy
    <3> QED
      BY <1>0, <2>6, <3>1 DEF Called
  <2>9. \A t \in Sweeps \ {s} : Asked(t)' <=> Asked(t)
    BY <1>0, <2>6 DEF Asked
  <2>10. late' \in [Sweeps -> BOOLEAN]
    BY <1>0 DEF DInv
  <2> QED
    BY <1>0, <1>2, <2>3, <2>4, <2>5, <2>7, <2>8, <2>9, <2>10, DataKept
<1> QED
  BY <1>1, <1>2 DEF StartAnswered

(* A call that works on a copy. *)
LEMMA CallHas ==
    ASSUME IInv, DInv, NEW c \in Callers, call[c].pc \in {"create", "launch"},
           NEW s \in Sweeps, s = call[c].sweep
    PROVE  LET r == call[c].rec IN
           /\ Copy(batches, rec[s], s, call[c].pc, r) /\ Record(batches, s, r) /\ Shape(r)
           /\ Level(rec[s], r) /\ Open(rec[s]) = Open(r) /\ Current(rec[s]) = Current(r)
           /\ Open(r) # {} /\ Chunk1(r).state = "pending" /\ r.state = "running"
           /\ Record(batches, s, rec[s]) /\ Unasked(rec[s])
           /\ Typed(batches) /\ Len(batches) \in Nat
<1> DEFINE r == call[c].rec
<1>1. Called(c) /\ Known(s) /\ Typed(batches) /\ Len(batches) \in Nat
  BY DEF DInv, Typed
<1>2. Exists(s) /\ r.state = "running"
  BY OneCaller
<1>3. Copy(batches, rec[s], s, call[c].pc, r)
  BY <1>1 DEF Called
<1>4. /\ Record(batches, s, r) /\ Level(rec[s], r) /\ Open(r) # {} /\ Chunk1(r).state = "pending"
      /\ Shape(r)
  BY <1>3, StageIs DEF Copy, Record
<1>5. Open(rec[s]) = Open(r) /\ Current(rec[s]) = Current(r)
  BY <1>4, LevelFact
<1>6. Record(batches, s, rec[s]) /\ Unasked(rec[s])
  BY <1>1, <1>2 DEF Known
<1> QED
  BY <1>1, <1>2, <1>3, <1>4, <1>5, <1>6

(* A batch that a call has created stands for the current chunk of its sweep, which had
   none before. *)
LEMMA CallPlaces ==
    ASSUME IInv, DInv, NEW c \in Callers, call[c].pc = "create",
           NEW s \in Sweeps, s = call[c].sweep,
           Exists(s)', Shape(rec'[s]), Further(rec'[s], rec[s]),
           NEW k, k = Current(rec[s])
    PROVE  k \in Nat /\ Fresh(s, k) /\ Placed(s, k)'
<1> DEFINE r == call[c].rec
<1>1. /\ Shape(r) /\ Level(rec[s], r) /\ k = Current(r) /\ Open(r) # {} /\ Open(rec[s]) = Open(r)
      /\ Chunk1(r).state = "pending" /\ Shape(rec[s])
  BY CallHas DEF Record
<1>2. /\ k \in DOMAIN rec[s].chunks
      /\ \A j \in DOMAIN rec[s].chunks : j < k => rec[s].chunks[j].state = "done"
  BY <1>1, CurrentFact
<1>3. k \in Nat /\ rec[s].chunks[k].state = "pending"
  <2>1. rec[s].chunks \in Seq(ChunkType)
    BY <1>1 DEF Shape
  <2>2. k \in Nat
    BY ONLY <1>2, <2>1
  <2>3. DOMAIN rec[s].chunks = DOMAIN r.chunks
        /\ \A i \in DOMAIN r.chunks : rec[s].chunks[i].state = r.chunks[i].state
    BY <1>1, Zenon DEF Level
  <2>4. r.chunks[k].state = "pending"
    BY <1>1, Zenon DEF Chunk1
  <2> QED
    BY <1>2, <2>2, <2>3, <2>4
<1>4. /\ IsActive(s) /\ drv[s].pc = "none" /\ DOMAIN call = Callers
      /\ \A d \in Callers \ {c} : call[d].pc = "idle"
  BY OneCaller
<1>5. Fresh(s, k)
  BY <1>3, <1>4 DEF Fresh, Asked
<1>6. /\ k \in DOMAIN rec'[s].chunks
      /\ \A j \in DOMAIN rec'[s].chunks : j < k => rec'[s].chunks[j].state = "done"
  <2>1. k \in DOMAIN rec'[s].chunks
    BY <1>2 DEF Further
  <2>2. \A j \in DOMAIN rec'[s].chunks : j < k => j \in DOMAIN rec[s].chunks
    <3>1. rec[s].chunks \in Seq(ChunkType) /\ rec'[s].chunks \in Seq(ChunkType)
      BY <1>1 DEF Shape
    <3> QED
      BY ONLY <1>2, <3>1
  <2> QED
    BY <1>2, <2>1, <2>2 DEF Further
<1>7. Placed(s, k)'
  BY <1>6 DEF Placed, Exists
<1> QED
  BY <1>3, <1>5, <1>7

(* A call that saves what it made of its copy, and returns. *)
LEMMA ReturnsData ==
    ASSUME IInv, DInv, NEW c \in Callers, call[c].pc \in {"create", "launch"},
           NEW s \in Sweeps, s = call[c].sweep, Return(c), NEW q, Saved(s, q),
           q.state \in {"running", "failed"}, Record(batches', s, q), Unasked(q),
           Further(q, rec[s]), UNCHANGED drv \/ EnsureDriver(s), UNCHANGED <<crashes, late>>,
           Typed(batches'), Grows(batches, batches'),
           \/ q.state = "failed"
           \/ Current(rec[s]) \in DOMAIN q.chunks /\ q.chunks[Current(rec[s])].state # "pending",
           \/ Len(batches') = Len(batches)
           \/ /\ Len(batches') = Len(batches) + 1 /\ call[c].pc = "create"
              /\ batches'[Len(batches) + 1].sweep = s
              /\ batches'[Len(batches) + 1].chunk = Current(rec[s])
    PROVE  DInv'
<1>0. /\ Types /\ DOMAIN call = Callers /\ DOMAIN drv = Sweeps
      /\ \A d \in Callers \ {c} : call[d].pc = "idle"
      /\ IsActive(s) /\ Exists(s) /\ drv[s].pc = "none"
  BY OneCaller
<1>1. Known(s)' /\ rec'[s] = q
  BY <1>0, SavedKnown
<1>2. \A t \in Sweeps \ {s} : rec'[t] = rec[t]
  BY <1>0, SavedFact
<1>3. \A d \in Callers : call'[d].pc = "idle"
  BY <1>0 DEF Return, Idle
<1>4. /\ \A t \in Sweeps \ {s} : drv'[t] = drv[t]
      /\ drv'[s].pc \in {"none", "loop"} /\ drv'[s].rec = NoRecord
  <2>1. CASE UNCHANGED drv
    BY <1>0, <2>1 DEF DInv, Copies
  <2>2. CASE EnsureDriver(s)
    <3>1. Goto(s, "loop", NoRecord)
      BY <1>0, <2>2 DEF EnsureDriver, Loop
    <3> QED
      BY <1>0, <3>1, GotoFact
  <2> QED
    BY <2>1, <2>2
<1>5. Copies(s)' /\ ~Asked(s)' /\ \A d \in Callers : Called(d)'
  BY <1>3, <1>4 DEF Copies, Asked, Called
<1>6. \A t \in Sweeps \ {s} : Asked(t)' <=> Asked(t)
  BY <1>0, <1>3, <1>4 DEF Asked
<1>7. ASSUME NEW k, k = Current(rec[s]) PROVE ~Fresh(s, k)'
  BY <1>1, <1>7 DEF Fresh, IsActive, Active
<1>8. ASSUME NEW k \in Nat, Fresh(s, k)' PROVE Fresh(s, k)
  <2>1. k \in DOMAIN rec[s].chunks => rec[s].chunks[k].state = "pending"
    BY <1>1, <1>8 DEF Fresh, Further
  <2>2. k # Current(rec[s])
    BY <1>7, <1>8
  <2> QED
    BY <1>0, <2>1, <2>2 DEF Fresh
<1>9. Exists(s)' /\ Further(rec'[s], rec[s]) /\ late' \in [Sweeps -> BOOLEAN] /\ Shape(rec'[s])
  BY <1>1 DEF Exists, NoRecord, DInv, Record
<1>10. CASE Len(batches') = Len(batches)
  BY <1>0, <1>1, <1>2, <1>4, <1>5, <1>6, <1>8, <1>9, <1>10, DataKept
<1>11. CASE /\ Len(batches') = Len(batches) + 1 /\ call[c].pc = "create"
            /\ batches'[Len(batches) + 1].sweep = s
            /\ batches'[Len(batches) + 1].chunk = Current(rec[s])
  <2>1. PICK k : k = Current(rec[s])
    OBVIOUS
  <2>2. k \in Nat /\ Fresh(s, k) /\ Placed(s, k)'
    BY <1>9, <1>11, <2>1, CallPlaces
  <2>3. \E m \in Nat :
           /\ Len(batches') = Len(batches) + 1 /\ batches'[Len(batches) + 1].sweep = s
           /\ batches'[Len(batches) + 1].chunk = m
           /\ Placed(s, m)' /\ Fresh(s, m) /\ ~Fresh(s, m)'
    BY <1>7, <1>11, <2>1, <2>2
  <2> QED
    BY <1>0, <1>1, <1>2, <1>4, <1>5, <1>6, <1>8, <1>9, <2>3, DataKept
<1> QED
  BY <1>10, <1>11

(* A call reports that its sweep has failed. *)
LEMMA FailsData ==
    ASSUME IInv, DInv, NEW c \in Callers, call[c].pc \in {"create", "launch"},
           NEW s \in Sweeps, s = call[c].sweep, Return(c), NEW r, r.state = "running",
           Record(batches', s, r), Unasked(r), Further(r, rec[s]),
           Saved(s, [r EXCEPT !.state = "failed"]), UNCHANGED <<drv, crashes, late>>,
           Typed(batches'), Grows(batches, batches'),
           \/ Len(batches') = Len(batches)
           \/ /\ Len(batches') = Len(batches) + 1 /\ call[c].pc = "create"
              /\ batches'[Len(batches) + 1].sweep = s
              /\ batches'[Len(batches) + 1].chunk = Current(rec[s])
    PROVE  DInv'
<1> DEFINE q == [r EXCEPT !.state = "failed"]
<1>1. Alike(q, r) /\ q.state = "failed"
  BY DEF Record, Shape, Alike, Terminal
<1>2. Saved(s, q)
  OBVIOUS
<1> HIDE DEF q
<1>3. Record(batches', s, q) /\ Unasked(q) /\ Further(q, rec[s])
  <2>1. Record(batches', s, q) /\ Unasked(q) /\ q.chunks = r.chunks
    BY <1>1, AlikeFact DEF Alike
  <2> QED
    BY <2>1 DEF Further
<1> QED
  BY <1>1, <1>2, <1>3, ReturnsData

(* create_batch answered, inside start(). *)
LEMMA StartCreateData == ASSUME IInv, DInv, NEW c \in Callers, StartCreate(c) PROVE DInv'
<1> DEFINE r == call[c].rec  b == Chunk1(r)
<1>1. call[c].pc = "create" /\ UNCHANGED <<crashes, late>>
  BY DEF StartCreate, In
<1>2. PICK s \in Sweeps : s = call[c].sweep
  BY <1>1, OneCaller
<1>3. /\ Types /\ DOMAIN call = Callers /\ DOMAIN drv = Sweeps
      /\ \A d \in Callers \ {c} : call[d].pc = "idle"
      /\ IsActive(s) /\ Exists(s) /\ drv[s].pc = "none"
  BY <1>1, <1>2, OneCaller
<1>4. /\ Copy(batches, rec[s], s, "create", r) /\ Record(batches, s, r) /\ Shape(r)
      /\ Level(rec[s], r) /\ Current(rec[s]) = Current(r)
      /\ Open(r) # {} /\ b.state = "pending" /\ r.state = "running"
      /\ Record(batches, s, rec[s]) /\ Unasked(rec[s])
      /\ Typed(batches) /\ Len(batches) \in Nat
  BY <1>1, <1>2, CallHas
<1>5. PICK a \in Answers :
        /\ CreateEffect(s, r, a)
        /\ IF a = "ok" THEN /\ Call(c, "launch", s, AfterCreate(r, a))
                            /\ UNCHANGED <<rec, drv, lock>>
                       ELSE StartLaunched(c, a, AfterCreate(r, a))
  BY <1>2 DEF StartCreate
<1>6. /\ Typed(batches') /\ Grows(batches, batches') /\ Record(batches', s, r)
      /\ IF a \in {"ok", "lost"}
         THEN /\ Len(batches') = Len(batches) + 1
              /\ batches'[Len(batches) + 1].sweep = s
              /\ batches'[Len(batches) + 1].chunk = Current(r)
              /\ batches'[Len(batches) + 1].ros = Chunk1(r).ros
         ELSE Len(batches') = Len(batches)
  BY <1>4, <1>5, CreateEffectFact
<1>7. Unasked(r) /\ Further(r, rec[s])
  BY <1>4, StageIs, FurtherFact DEF Copy
<1>8. b \in ChunkType /\ b = r.chunks[Current(r)] /\ Current(r) \in DOMAIN r.chunks /\ ~b.failed
  BY <1>4, Chunk1Fact
<1>9. CASE a = "ok"
  <2> DEFINE d == [b EXCEPT !.batch = Len(batches) + 1]  q == WithChunk(r, d)
  <2>1. /\ d \in ChunkType /\ d.ros = b.ros /\ d.pass = b.pass /\ d.state = "pending" /\ ~d.failed
        /\ d.batch = Len(batches) + 1
    BY <1>4, <1>8 DEF ChunkType
  <2>2. Call(c, "launch", s, q) /\ UNCHANGED <<rec, drv>>
    BY <1>5, <1>9, AfterCreateIs
  <2> HIDE DEF d
  <2>3. Next1(batches', s, r, d)
    BY <1>4, <1>6, <1>9, <2>1 DEF Next1
  <2>4. /\ Moves(batches', s, r, q, d.state)
        /\ d.state = "pending" /\ d.batch = 0 => Unasked(q)
        /\ Open(q) # {} /\ Current(q) = Current(r) /\ Chunk1(q) = d
        /\ q.chunks = [r.chunks EXCEPT ![Current(r)] = d] /\ q.items = r.items
        /\ q.targets = r.targets /\ q.passes = r.passes /\ q.retried = r.retried
    BY <1>4, <1>6, <2>1, <2>3, ChunkMovesOn
  <2> HIDE DEF q
  <2>5. Level(q, r) /\ Record(batches', s, q)
    BY <1>4, <2>1, <2>4 DEF Moves
  <2>6. Level(rec'[s], q)
    BY <1>4, <2>2, <2>5, LevelOn
  <2>7. Copy(batches', rec'[s], s, "launch", q)
    BY <1>4, <2>1, <2>4, <2>5, <2>6, StageIs DEF Copy
  <2>8. /\ call'[c].pc = "launch" /\ call'[c].sweep = s /\ call'[c].rec = q
        /\ \A e \in Callers \ {c} : call'[e] = call[e]
    BY <1>3, <2>2 DEF Call
  <2>9. \A e \in Callers : Called(e)'
    BY <1>3, <2>7, <2>8 DEF Called
  <2>10. Known(s)' /\ Copies(s)'
    <3>1. Len(batches') \in Nat
      BY <1>6 DEF Typed
    <3>2. Record(batches', s, rec[s])
      BY <1>4, <1>6, <3>1, StillBacked
    <3>3. Known(s)'
      BY <2>2, <3>2 DEF DInv, Known, Exists
    <3>4. Copies(s)'
      BY <1>3, <2>2 DEF DInv, Copies
    <3> QED
      BY <3>3, <3>4
  <2>11. /\ \A t \in Sweeps \ {s} : /\ rec'[t] = rec[t] /\ drv'[t] = drv[t]
                                    /\ Asked(t)' <=> Asked(t)
         /\ Asked(s)' /\ ~Asked(s)
    BY <1>1, <1>2, <1>3, <2>2, <2>8 DEF Asked
  <2>12. Exists(s)' /\ Further(rec'[s], rec[s]) /\ Shape(rec'[s]) /\ late' \in [Sweeps -> BOOLEAN]
    BY <1>1, <1>3, <1>4, <2>2, FurtherFact DEF Exists, DInv, Record
  <2>13. \A k \in Nat : Fresh(s, k)' => Fresh(s, k)
    BY <2>2, <2>11 DEF Fresh, IsActive
  <2>14. PICK k : k = Current(rec[s])
    OBVIOUS
  <2>15. k \in Nat /\ Fresh(s, k) /\ Placed(s, k)'
    BY <1>1, <1>2, <2>12, <2>14, CallPlaces
  <2>16. ~Fresh(s, k)'
    BY <2>2, <2>11, <2>14 DEF Fresh
  <2>17. \E m \in Nat :
           /\ Len(batches') = Len(batches) + 1 /\ batches'[Len(batches) + 1].sweep = s
           /\ batches'[Len(batches) + 1].chunk = m
           /\ Placed(s, m)' /\ Fresh(s, m) /\ ~Fresh(s, m)'
    BY <1>4, <1>6, <1>9, <2>14, <2>15, <2>16
  <2> QED
    BY <1>1, <1>3, <1>6, <2>9, <2>10, <2>11, <2>12, <2>13, <2>17, DataKept
<1>10. \/ Len(batches') = Len(batches)
       \/ /\ Len(batches') = Len(batches) + 1 /\ call[c].pc = "create"
          /\ batches'[Len(batches) + 1].sweep = s
          /\ batches'[Len(batches) + 1].chunk = Current(rec[s])
  BY <1>1, <1>4, <1>6
<1>11. CASE a = "auth"
  <2>1. Return(c) /\ Saved(s, [r EXCEPT !.state = "failed"]) /\ UNCHANGED drv
    BY <1>2, <1>5, <1>11, AfterCreateIs DEF StartLaunched
  <2> QED
    BY <1>1, <1>2, <1>4, <1>6, <1>7, <1>10, <2>1, FailsData
<1>12. CASE a \notin {"ok", "auth"}
  <2> DEFINE e == [r EXCEPT !.error = "launch"]
  <2>1. Return(c) /\ Saved(s, [e EXCEPT !.state = "failed"]) /\ UNCHANGED drv
    BY <1>2, <1>5, <1>12, AfterCreateIs DEF StartLaunched
  <2>2. Alike(e, r) /\ e.state = r.state
    BY <1>4, Labels
  <2> HIDE DEF e
  <2>3. Record(batches', s, e) /\ Unasked(e) /\ e.state = "running" /\ e.chunks = r.chunks
    BY <1>4, <1>6, <1>7, <2>2, AlikeFact DEF Alike
  <2>4. Further(e, rec[s])
    BY <1>7, <2>3 DEF Further
  <2> QED
    BY <1>1, <1>2, <1>6, <1>10, <2>1, <2>3, <2>4, FailsData
<1> QED
  BY <1>9, <1>11, <1>12

(* start_batch answered, inside start(). *)
LEMMA StartLaunchData == ASSUME IInv, DInv, NEW c \in Callers, StartLaunch(c) PROVE DInv'
<1> DEFINE r == call[c].rec  b == Chunk1(r)  m == WithChunk(r, [b EXCEPT !.state = "created"])
<1>1. call[c].pc = "launch" /\ UNCHANGED <<crashes, late>>
  BY DEF StartLaunch, In
<1>2. PICK s \in Sweeps : s = call[c].sweep
  BY <1>1, OneCaller
<1>3. /\ Copy(batches, rec[s], s, "launch", r) /\ Record(batches, s, r) /\ Shape(r)
      /\ Level(rec[s], r) /\ Current(rec[s]) = Current(r)
      /\ Open(r) # {} /\ b.state = "pending" /\ r.state = "running"
      /\ Typed(batches) /\ Len(batches) \in Nat
  BY <1>1, <1>2, CallHas
<1>4. b.batch # 0
  BY <1>3 DEF Copy
<1>5. PICK a \in Answers : StartEffect(r, a) /\ StartLaunched(c, a, AfterStart(r, a))
  BY DEF StartLaunch
<1>6. /\ Typed(batches') /\ Grows(batches, batches') /\ Len(batches') = Len(batches)
      /\ Record(batches', s, r)
  BY <1>3, <1>4, <1>5, StartEffectFact
<1>7. Moves(batches', s, r, m, "created")
  BY <1>3, <1>4, <1>6, CreatedMoves
<1>8. /\ Record(batches', s, m) /\ Unasked(m) /\ m.state = "running" /\ Further(m, rec[s])
  <2>1. Record(batches', s, m) /\ Unasked(m) /\ m.state = "running" /\ Further(m, r)
    BY <1>3, <1>7 DEF Moves
  <2> QED
    BY <1>3, <2>1, FurtherFact
<1>9. CASE a = "ok"
  <2>1. PICK q : q = AfterStart(r, "ok")
    OBVIOUS
  <2>2. Return(c) /\ Saved(s, q) /\ EnsureDriver(s)
    BY <1>2, <1>5, <1>9, <2>1 DEF StartLaunched
  <2>3. Moves(batches', s, r, q, "running")
    BY <1>3, <1>4, <1>6, <2>1, StartMoves
  <2>4. /\ Record(batches', s, q) /\ Unasked(q) /\ q.state = "running" /\ Further(q, rec[s])
        /\ Current(rec[s]) \in DOMAIN q.chunks /\ q.chunks[Current(rec[s])].state # "pending"
    <3>1. /\ Record(batches', s, q) /\ Unasked(q) /\ q.state = "running" /\ Further(q, r)
          /\ Current(rec[s]) \in DOMAIN q.chunks /\ q.chunks[Current(rec[s])].state # "pending"
      BY <1>3, <2>3 DEF Moves
    <3> QED
      BY <1>3, <3>1, FurtherFact
  <2> QED
    BY <1>1, <1>2, <1>6, <2>2, <2>4, ReturnsData
<1>10. CASE a = "auth"
  <2>1. Return(c) /\ Saved(s, [m EXCEPT !.state = "failed"]) /\ UNCHANGED drv
    BY <1>2, <1>5, <1>10, AfterStartIs DEF StartLaunched
  <2> HIDE DEF m
  <2> QED
    BY <1>1, <1>2, <1>6, <1>8, <2>1, FailsData
<1>11. CASE a \notin {"ok", "auth"}
  <2> DEFINE e == [m EXCEPT !.error = "launch"]
  <2>1. Return(c) /\ Saved(s, [e EXCEPT !.state = "failed"]) /\ UNCHANGED drv
    BY <1>2, <1>5, <1>11, AfterStartIs DEF StartLaunched
  <2> HIDE DEF m
  <2>2. Alike(e, m) /\ e.state = m.state
    BY <1>8, Labels DEF Record
  <2> HIDE DEF e
  <2>3. Record(batches', s, e) /\ Unasked(e) /\ e.state = "running" /\ e.chunks = m.chunks
    BY <1>8, <2>2, AlikeFact DEF Alike
  <2>4. Further(e, rec[s])
    BY <1>8, <2>3 DEF Further
  <2> QED
    BY <1>1, <1>2, <1>6, <2>1, <2>3, <2>4, FailsData
<1> QED
  BY <1>9, <1>10, <1>11

(* resume() has posted a result. *)
LEMMA ResumePostedData == ASSUME IInv, DInv, ResumePosted PROVE DInv'
<1>1. /\ Types /\ UNCHANGED <<drv, call, batches, late, crashes>> /\ posting \in Sweeps
      /\ rec[posting].state = "completed" /\ Typed(batches)
  BY DEF IInv, Types, Resumes, ResumePosted, DInv
<1>2. PICK s \in Sweeps : s = posting
  BY <1>1
<1> DEFINE r == rec[s]  q == [r EXCEPT !.notified = TRUE]
<1>3. Record(batches, s, r) /\ Unasked(r) /\ Reportable(r) /\ Exists(s) /\ Shape(r)
  BY <1>1, <1>2 DEF DInv, Known, Exists, NoRecord, Record
<1>4. Saved(s, q)
  BY <1>2 DEF ResumePosted
<1>5. Alike(q, r) /\ q.error = r.error
  BY <1>3, Labels
<1> HIDE DEF q
<1>6. Record(batches, s, q) /\ Level(q, r) /\ Unasked(q) /\ Further(q, r) /\ Open(q) = Open(r)
  BY <1>3, <1>5, AlikeFact
<1>7. Reportable(q)
  BY <1>3, <1>5, <1>6 DEF Reportable, Alike
<1>8. Typed(batches') /\ Grows(batches, batches') /\ Len(batches') = Len(batches) /\ batches' = batches
  BY <1>1, SameBatches
<1>9. Known(s)' /\ rec'[s] = q /\ \A t \in Sweeps \ {s} : rec'[t] = rec[t]
  BY <1>1, <1>4, <1>6, <1>7, <1>8, SavedKnown, SavedFact
<1>10. drv[s].pc \in {"none", "loop", "notify"} \cup Busy
  BY <1>1 DEF Types
<1>11. Copies(s)'
  <2>1. Copies(s)
    BY DEF DInv
  <2>2. \A p, v : Copy(batches, rec[s], s, p, v) => Copy(batches', rec'[s], s, p, v)
    BY <1>6, <1>8, <1>9 DEF Copy, Level
  <2> QED
    BY <1>1, <2>1, <2>2 DEF Copies
<1>12. \A c \in Callers : Called(c)'
  <2> SUFFICES ASSUME NEW c \in Callers, call[c].pc \in {"create", "launch"}
               PROVE  Called(c)'
    BY <1>1 DEF Called
  <2>1. call[c].sweep \in Sweeps /\ call[c].sweep # s
    BY <1>1, <1>2 DEF IInv, Caller
  <2>2. Copy(batches, rec[call[c].sweep], call[c].sweep, call[c].pc, call[c].rec)
    BY DEF DInv, Called
  <2>3. Copy(batches', rec'[call[c].sweep], call[c].sweep, call[c].pc, call[c].rec)
    BY <1>8, <1>9, <2>1, <2>2
  <2> QED
    BY <1>1, <2>3 DEF Called
<1>13. /\ Exists(s)' /\ Further(rec'[s], rec[s]) /\ late' \in [Sweeps -> BOOLEAN]
       /\ q.state = "completed"
  <2>1. q.state = "completed"
    BY <1>1, <1>2, <1>3, Labels DEF q
  <2> QED
    BY <1>1, <1>6, <1>9, <2>1 DEF Exists, NoRecord, DInv
<1>14. \A k \in Nat : ~Fresh(s, k)'
  BY <1>9, <1>13 DEF Fresh, IsActive, Active
<1>15. \A t \in Sweeps : Asked(t)' <=> Asked(t)
  BY <1>1 DEF Asked
<1> QED
  BY <1>1, <1>8, <1>9, <1>11, <1>12, <1>13, <1>14, <1>15, DataKept

-----------------------------------------------------------------------------
(* Nothing is known at first, and nothing wrong. *)
LEMMA DBegins == ASSUME Init PROVE DInv
<1>1. /\ batches = <<>> /\ crashes = 0 /\ late = [s \in Sweeps |-> FALSE]
      /\ rec = [s \in Sweeps |-> NoRecord] /\ drv = [s \in Sweeps |-> NoDriver]
      /\ call = [c \in Callers |-> Idle]
  BY DEF Init
<1>2. Len(batches) = 0 /\ batches \in Seq(Batch)
  BY <1>1
<1>3. Typed(batches)
  BY <1>2 DEF Typed
<1>4. \A id \in BatchIds : Placed(batches[id].sweep, batches[id].chunk)
  BY <1>2 DEF BatchIds
<1>5. ASSUME NEW s \in Sweeps PROVE Known(s) /\ Copies(s)
  BY <1>1 DEF Known, Exists, Copies, NoDriver
<1>6. \A c \in Callers : Called(c)
  BY <1>1 DEF Called, Idle
<1>7. ASSUME NEW s \in Sweeps, NEW k \in Nat PROVE Counted(s, k)
  <2>1. Of(s, k) = {}
    BY <1>2 DEF Of, BatchIds
  <2>2. Cardinality(Of(s, k)) = 0
    BY <2>1, FS_EmptySet
  <2> QED
    BY <1>1, <2>2 DEF Counted
<1>8. late \in [Sweeps -> BOOLEAN] /\ crashes \in 0 .. MaxCrashes
  BY <1>1, SweepAssumption
<1> QED
  BY <1>3, <1>4, <1>5, <1>6, <1>7, <1>8 DEF DInv

(* Every step keeps what is known. *)
LEMMA DContinues == ASSUME ~StopsInLaunch, IInv, DInv, [Next]_vars PROVE DInv'
<1>1. CASE \E s \in Sweeps : DriverStep(s) \/ Status(s) \/ Resume(s)
  BY <1>1, DriverKeepsData, StatusData
<1>2. CASE \E c \in Callers : Start(c) \/ CallerStep(c) \/ StartCancelled(c)
  BY <1>2, StartData, StartCancelledData, StartAnsweredData, StartCreateData, StartLaunchData
     DEF CallerStep
<1>3. CASE \E id \in BatchIds : BatchWorks(id) \/ BatchStops(id)
  BY <1>3, BatchData
<1>4. CASE Crash \/ ResumePosted
  BY <1>4, CrashData, ResumePostedData
<1>5. CASE Restart \/ Serve \/ UNCHANGED vars \/ \E s \in Sweeps : TimeLimit(s)
  BY <1>5, ServiceData
<1> QED
  BY <1>1, <1>2, <1>3, <1>4, <1>5 DEF Next

(* What is known is an invariant, as long as no turn is stopped while it launches. *)
LEMMA DataInvariance == ASSUME ~StatusInLaunch, ~StopsInLaunch PROVE Spec => [](IInv /\ DInv)
<1>1. Init => IInv /\ DInv
  BY Begins, DBegins
<1>2. IInv /\ DInv /\ [Next]_vars => IInv' /\ DInv'
  BY Continues, DContinues
<1> QED
  BY <1>1, <1>2, PTL DEF Spec

-----------------------------------------------------------------------------
(* What is known makes the records what the invariants of the module say. *)
LEMMA RecordIs ==
    ASSUME NEW s, NEW r, Record(batches, s, r)
    PROVE  IsRecord(r)
<1>1. Shape(r) /\ Backed(batches, s, r)
  BY DEF Record
<1>2. \A i \in DOMAIN r.chunks : r.chunks[i].batch \in {0} \cup BatchIds
  BY <1>1 DEF Backed, BatchIds
<1> QED
  BY <1>1, <1>2 DEF Shape, IsRecord

(* Every variable has its type. *)
LEMMA TypeFact == ASSUME IInv, DInv PROVE TypeOK
<1>1. Types /\ Typed(batches)
  BY DEF IInv, DInv
<1>2. \A s \in Sweeps : rec[s] = NoRecord \/ IsRecord(rec[s])
  BY RecordIs DEF DInv, Known, Exists
<1>3. ASSUME NEW s \in Sweeps
      PROVE  IF drv[s].pc \in {"none", "loop"} THEN drv[s].rec = NoRecord ELSE IsRecord(drv[s].rec)
  BY RecordIs DEF DInv, Copies, Copy
<1>4. ASSUME NEW c \in Callers, call[c].pc \in {"create", "launch"} PROVE IsRecord(call[c].rec)
  BY <1>4, RecordIs DEF DInv, Called, Copy
<1>5. \A id \in BatchIds : batches[id].state \in {"created", "running", "stopped"}
  <2> SUFFICES ASSUME NEW id \in 1 .. Len(batches)
               PROVE  batches[id].state \in {"created", "running", "stopped"}
    BY DEF BatchIds
  <2>1. batches[id] \in Batch
    BY <1>1 DEF Typed
  <2> QED
    BY <2>1 DEF Batch
<1>6. \A s \in Sweeps : drv[s].pc \in {"none", "loop", "create", "launch", "start", "read",
                "stopped", "restart", "openSignIn", "signedIn", "recheck", "notify"}
  BY <1>1 DEF Types, Busy
<1>7. late \in [Sweeps -> BOOLEAN] /\ crashes \in 0 .. MaxCrashes
  BY DEF DInv
<1> QED
  BY <1>1, <1>2, <1>3, <1>4, <1>5, <1>6, <1>7 DEF TypeOK, Types

(* A chunk is sent once, and once more at most for every crash. *)
LEMMA OnceFact == ASSUME DInv PROVE OneBatchPerChunk
<1> SUFFICES ASSUME NEW id \in BatchIds
             PROVE  Cardinality(Of(batches[id].sweep, batches[id].chunk)) <= 1 + crashes
  BY DEF OneBatchPerChunk, Of
<1>1. batches[id].sweep \in Sweeps /\ batches[id].chunk \in Nat
  <2>1. batches[id] \in Batch
    BY DEF DInv, Typed, BatchIds
  <2> QED
    BY <2>1 DEF Batch
<1> QED
  BY <1>1 DEF DInv, Counted

(* Two members of a set of at most one are the same. *)
LEMMA AtMostOne ==
    ASSUME NEW S, IsFiniteSet(S), Cardinality(S) <= 1, NEW x \in S, NEW y \in S PROVE x = y
<1> SUFFICES ASSUME x # y PROVE FALSE
  OBVIOUS
<1>1. IsFiniteSet({x}) /\ Cardinality({x}) = 1
  BY FS_Singleton
<1>2. IsFiniteSet({x} \cup {y}) /\ Cardinality({x} \cup {y}) = 2
  <2>1. y \notin {x}
    OBVIOUS
  <2>2. PICK X : X = {x}
    OBVIOUS
  <2>3. IsFiniteSet(X \cup {y}) /\ Cardinality(X \cup {y}) = Cardinality(X) + 1
    BY <1>1, <2>1, <2>2, FS_AddElement
  <2> QED
    BY <1>1, <2>2, <2>3
<1>3. {x} \cup {y} \subseteq S
  OBVIOUS
<1>4. Cardinality({x} \cup {y}) <= Cardinality(S) /\ Cardinality(S) \in Nat
  BY <1>3, FS_Subset, FS_CardinalityType
<1> QED
  BY <1>2, <1>4

(* Batches run one after another. *)
LEMMA InTurn == ASSUME IInv, DInv PROVE OneAtATime
<1> SUFFICES ASSUME NEW s \in Sweeps, ~GaveUp(s), ~(crashes > 0)
             PROVE  ~(Cardinality(Working(s)) > 1)
  BY DEF OneAtATime
<1>1. crashes = 0 /\ Typed(batches)
  BY DEF IInv, Types, DInv
<1>2. ASSUME NEW k \in Nat, NEW i \in Of(s, k), NEW j \in Of(s, k) PROVE i = j
  <2>1. IsFiniteSet(Of(s, k)) /\ Cardinality(Of(s, k)) <= 1
    BY <1>1, OfFinite DEF DInv, Counted
  <2> QED
    BY <2>1, AtMostOne
<1>3. ASSUME NEW i \in Working(s)
      PROVE  /\ batches[i].chunk \in Nat /\ i \in Of(s, batches[i].chunk)
             /\ Placed(s, batches[i].chunk) /\ ~Processed(batches[i])
  <2>1. i \in BatchIds /\ batches[i].sweep = s /\ ~Processed(batches[i])
    BY DEF Working
  <2>2. batches[i] \in Batch /\ Placed(s, batches[i].chunk)
    BY <2>1 DEF DInv, Typed, BatchIds
  <2> QED
    BY <2>1, <2>2 DEF Batch, Of
<1>4. ASSUME NEW i \in Working(s), NEW j \in Working(s), batches[i].chunk < batches[j].chunk
      PROVE  FALSE
  <2> DEFINE k == batches[i].chunk  c == rec[s].chunks[k]
  <2>1. /\ Exists(s) /\ k \in DOMAIN rec[s].chunks /\ c.state = "done"
    BY <1>3, <1>4 DEF Placed
  <2>2. ~c.failed /\ Record(batches, s, rec[s])
    BY <2>1 DEF GaveUp, DInv, Known
  <2>3. /\ c.batch # 0 /\ Processed(batches[c.batch])
        /\ c.batch \in 1 .. Len(batches) /\ batches[c.batch].sweep = s /\ batches[c.batch].chunk = k
    BY <2>1, <2>2 DEF Record, Backed, Told
  <2>4. c.batch \in Of(s, k)
    BY <2>3 DEF Of, BatchIds
  <2>5. c.batch = i
    BY <1>2, <1>3, <2>4
  <2> QED
    BY <1>3, <2>3, <2>5
<1>5. ASSUME NEW i \in Working(s), NEW j \in Working(s) PROVE i = j
  <2>1. batches[i].chunk = batches[j].chunk
    BY <1>3, <1>4
  <2> QED
    BY <1>2, <1>3, <2>1
<1>6. CASE Working(s) = {}
  BY <1>6, FS_EmptySet
<1>7. CASE Working(s) # {}
  <2>1. PICK i \in Working(s) : Working(s) = {i}
    BY <1>5, <1>7
  <2>2. Cardinality(Working(s)) = 1
    BY <2>1, FS_Singleton
  <2> QED
    BY <2>2
<1> QED
  BY <1>6, <1>7

(* A sweep is reported of what was worked through. *)
LEMMA WorkedFact == ASSUME DInv PROVE WorkedBeforeDone
<1> SUFFICES ASSUME NEW s \in Sweeps, rec[s].state = "completed", rec[s].error # "cut"
             PROVE  LET cs == rec[s].chunks IN
                    /\ rec[s].retried /\ Open(rec[s]) = {}
                    /\ \A i \in DOMAIN cs : ~cs[i].failed =>
                           \A o \in cs[i].ros :
                               /\ batches[cs[i].batch].items[o] # "none"
                               /\ \/ rec[s].items[o] = batches[cs[i].batch].items[o]
                                  \/ \E j \in DOMAIN cs : j > i /\ o \in cs[j].ros
                    /\ \A o \in rec[s].targets : rec[s].items[o] = "needs_operator" =>
                           \E i \in DOMAIN cs : cs[i].pass = 2 /\ o \in cs[i].ros
  BY DEF WorkedBeforeDone
<1>1. Exists(s) /\ Known(s)
  BY DEF Exists, NoRecord, DInv
<1>2. Record(batches, s, rec[s]) /\ rec[s].retried /\ Open(rec[s]) = {}
  BY <1>1 DEF Known, Reportable
<1>3. ASSUME NEW i \in DOMAIN rec[s].chunks, ~rec[s].chunks[i].failed, NEW o \in rec[s].chunks[i].ros
      PROVE  /\ batches[rec[s].chunks[i].batch].items[o] # "none"
             /\ \/ rec[s].items[o] = batches[rec[s].chunks[i].batch].items[o]
                \/ \E j \in DOMAIN rec[s].chunks : j > i /\ o \in rec[s].chunks[j].ros
  <2>1. rec[s].chunks[i].state = "done"
    BY <1>2 DEF Open
  <2>2. Told(batches, rec[s], i)
    BY <1>2, <1>3, <2>1 DEF Record, Backed
  <2>3. batches[rec[s].chunks[i].batch].ros = rec[s].chunks[i].ros
    BY <1>2, <2>2 DEF Record, Backed, Told
  <2> QED
    BY <2>2, <2>3 DEF Told, Processed
<1>4. \A o \in rec[s].targets : rec[s].items[o] = "needs_operator" =>
        \E i \in DOMAIN rec[s].chunks : rec[s].chunks[i].pass = 2 /\ o \in rec[s].chunks[i].ros
  BY <1>2 DEF Record, InPasses
<1> QED
  BY <1>2, <1>3, <1>4

-----------------------------------------------------------------------------
\* A sweep that failed, or whose first batch is being launched, has only batches that were
\* created.
Unstarted ==
    \A id \in BatchIds :
        rec[batches[id].sweep].state = "failed" \/ Launching(batches[id].sweep) =>
            batches[id].state = "created"

(* The remote calls of a sweep are about its own batches. *)
LEMMA CreateTouches ==
    ASSUME Typed(batches), NEW s \in Sweeps, NEW r, Record(batches, s, r), Open(r) # {},
           NEW a, CreateEffect(s, r, a)
    PROVE  \A id \in 1 .. Len(batches') :
              \/ batches'[id].state = "created" /\ batches'[id].sweep = s
              \/ id \in 1 .. Len(batches) /\ batches'[id] = batches[id]
<1>1. CASE Created(s, r)
  BY <1>1, CreatedFact
<1>2. CASE UNCHANGED batches
  BY <1>2
<1> QED
  BY <1>1, <1>2 DEF CreateEffect

(* A batch that is started is one of the sweep. *)
LEMMA StartTouches ==
    ASSUME Typed(batches), NEW s, NEW r, Record(batches, s, r), Open(r) # {}, Chunk1(r).batch # 0,
           NEW a, StartEffect(r, a)
    PROVE  \A id \in 1 .. Len(batches') :
              \/ batches'[id].sweep = s
              \/ id \in 1 .. Len(batches) /\ batches'[id] = batches[id]
<1> DEFINE k == Chunk1(r).batch
<1>1. k \in 1 .. Len(batches) /\ batches[k].sweep = s
  BY Chunk1Fact
<1>2. /\ Grows(batches, batches') /\ Len(batches') = Len(batches) /\ Len(batches) \in Nat
  BY StartEffectFact
<1>3. batches'[k].sweep = s
  BY <1>1, <1>2 DEF Grows
<1>4. \A id \in 1 .. Len(batches) : id # k => batches'[id] = batches[id]
  <2>1. CASE Started(k)
    BY <1>1, <2>1 DEF Started, Typed
  <2>2. CASE UNCHANGED batches
    BY <2>2
  <2> QED
    BY <2>1, <2>2 DEF StartEffect
<1> QED
  BY <1>2, <1>3, <1>4

(* A step that leaves the records of other sweeps alone keeps what is said of them. *)
LEMMA OthersUnstarted ==
    ASSUME DInv, Unstarted, NEW s \in Sweeps,
           \A t \in Sweeps \ {s} : /\ rec'[t].state = "failed" => rec[t].state = "failed"
                                   /\ Launching(t)' => Launching(t),
           \A id \in 1 .. Len(batches') :
              \/ batches'[id].sweep = s
              \/ id \in 1 .. Len(batches) /\ batches'[id] = batches[id],
           \A id \in 1 .. Len(batches') : batches'[id].sweep = s =>
              \/ batches'[id].state = "created"
              \/ rec'[s].state # "failed" /\ ~Launching(s)'
    PROVE  Unstarted'
<1> SUFFICES ASSUME NEW id \in 1 .. Len(batches'),
                    \/ rec'[batches'[id].sweep].state = "failed"
                    \/ (Launching(batches[id].sweep))'
             PROVE  batches'[id].state = "created"
  BY DEF Unstarted, BatchIds
<1>1. CASE batches'[id].sweep = s
  BY <1>1 DEF Launching
<1>2. CASE batches'[id].sweep # s
  <2>1. id \in 1 .. Len(batches) /\ batches'[id] = batches[id]
    BY <1>2
  <2>2. batches[id].sweep \in Sweeps
    <3>1. batches[id] \in Batch
      BY <2>1 DEF DInv, Typed
    <3> QED
      BY <3>1 DEF Batch
  <2>3. PICK t \in Sweeps : t = batches[id].sweep
    BY <2>2
  <2>4. rec'[t].state = "failed" \/ Launching(t)'
    BY <2>1, <2>3 DEF Launching
  <2>5. rec[t].state = "failed" \/ Launching(t)
    BY <1>2, <2>1, <2>3, <2>4
  <2> QED
    BY <2>1, <2>3, <2>5 DEF Unstarted, BatchIds
<1> QED
  BY <1>1, <1>2

(* The steps of a driver. *)
LEMMA DriverUnstarted ==
    ASSUME IInv, DInv, Unstarted, NEW s \in Sweeps, DriverStep(s) PROVE Unstarted'
<1>0. Outcome(s) /\ Types /\ Driver(s) /\ Typed(batches)
  BY DriverOutcome DEF IInv, DInv
<1>1. \A t \in Sweeps \ {s} : rec'[t] = rec[t] /\ (Launching(t)' => Launching(t))
  BY <1>0 DEF Outcome, Launching
<1>2. ~Launching(s)'
  BY <1>0 DEF Outcome, Driver, Launching
<1>3. CASE UNCHANGED batches
  <2>1. rec'[s].state = "failed" => rec[s].state = "failed"
    BY <1>0 DEF Outcome, GoesOn, Finishes, Ends, InState, Active
  <2>2. \A id \in 1 .. Len(batches) : batches[id].sweep = s =>
              \/ batches[id].state = "created"
              \/ rec'[s].state # "failed" /\ ~Launching(s)'
    BY <1>2, <2>1 DEF Unstarted, BatchIds
  <2> QED
    BY <1>1, <1>3, <2>2, OthersUnstarted
<1>4. ASSUME drv[s].pc \in Busy,
             \A id \in 1 .. Len(batches') :
                \/ batches'[id].sweep = s
                \/ id \in 1 .. Len(batches) /\ batches'[id] = batches[id]
      PROVE  Unstarted'
  <2>1. rec'[s].state # "failed"
    BY <1>0, <1>4 DEF Outcome, GoesOn, Finishes, Ends, InState, Active, Driver
  <2> QED
    BY <1>1, <1>2, <1>4, <2>1, OthersUnstarted
<1>5. CASE DriveCreate(s)
  <2>1. drv[s].pc = "create" /\ \E a \in Answers : CreateEffect(s, drv[s].rec, a)
    BY <1>5 DEF DriveCreate, At
  <2>2. Copy(batches, rec[s], s, "create", drv[s].rec)
    BY <2>1, AtWork DEF Busy
  <2>3. Record(batches, s, drv[s].rec) /\ Open(drv[s].rec) # {}
    BY <2>2 DEF Copy
  <2> QED
    BY <1>0, <1>4, <2>1, <2>3, CreateTouches DEF Busy
<1>6. CASE DriveLaunch(s) \/ DriveStart(s) \/ DriveRestart(s)
  <2>1. /\ drv[s].pc \in {"launch", "start", "restart"}
        /\ \E a \in Answers : StartEffect(drv[s].rec, a)
    BY <1>6 DEF DriveLaunch, DriveStart, DriveRestart, At
  <2>2. Copy(batches, rec[s], s, drv[s].pc, drv[s].rec)
    BY <2>1, AtWork DEF Busy
  <2>3. /\ Record(batches, s, drv[s].rec) /\ Open(drv[s].rec) # {}
        /\ Chunk1(drv[s].rec).state = Stage(drv[s].pc)
        /\ drv[s].pc = "launch" => Chunk1(drv[s].rec).batch # 0
    BY <2>1, <2>2 DEF Copy
  <2>4. Chunk1(drv[s].rec).batch # 0
    BY <2>1, <2>3, StageIs, Chunk1Fact
  <2> QED
    BY <1>0, <1>4, <2>1, <2>3, <2>4, StartTouches DEF Busy
<1>7. CASE \/ Drive(s) \/ DriveRead(s) \/ DriveStopped(s) \/ DriveOpenSignIn(s)
           \/ DriveSignedIn(s) \/ DriveError(s) \/ DriveRecheck(s) \/ DriveNotified(s)
  BY <1>3, <1>7 DEF Drive, DriveRead, DriveStopped, DriveOpenSignIn, DriveSignedIn, DriveError,
     DriveRecheck, DriveNotified
<1> QED
  BY <1>5, <1>6, <1>7 DEF DriverStep

(* A step in which no sweep fails, no call launches and no batch starts. *)
LEMMA QuietUnstarted ==
    ASSUME Unstarted, DInv,
           \A s \in Sweeps : /\ rec'[s].state = "failed" => rec[s].state = "failed"
                             /\ Launching(s)' => Launching(s),
           Len(batches') = Len(batches),
           \A id \in 1 .. Len(batches) :
              /\ batches'[id].sweep = batches[id].sweep
              /\ batches[id].state = "created" => batches'[id].state = "created"
    PROVE  Unstarted'
<1> SUFFICES ASSUME NEW id \in 1 .. Len(batches),
                    \/ rec'[batches'[id].sweep].state = "failed"
                    \/ (Launching(batches[id].sweep))'
             PROVE  batches'[id].state = "created"
  BY DEF Unstarted, BatchIds
<1>1. batches[id].sweep \in Sweeps
  <2>1. batches[id] \in Batch
    BY DEF DInv, Typed
  <2> QED
    BY <2>1 DEF Batch
<1>2. PICK s \in Sweeps : s = batches[id].sweep
  BY <1>1
<1>3. rec'[s].state = "failed" \/ Launching(s)'
  BY <1>2 DEF Launching
<1>4. rec[s].state = "failed" \/ Launching(s)
  BY <1>3
<1> QED
  BY <1>2, <1>4 DEF Unstarted, BatchIds

(* A call launches the first batch of its sweep, or says that this failed. *)
LEMMA CallUnstarted ==
    ASSUME IInv, DInv, Unstarted, NEW c \in Callers, StartCreate(c) \/ StartLaunch(c),
           \A s \in Sweeps : rec[s].state # "failed" /\ rec'[s].state = "failed" => UNCHANGED batches
    PROVE  Unstarted'
<1>1. call[c].pc \in {"create", "launch"}
  BY DEF StartCreate, StartLaunch, In
<1>2. PICK s \in Sweeps : s = call[c].sweep
  BY <1>1, OneCaller
<1> DEFINE r == call[c].rec
<1>3. /\ Types /\ DOMAIN call = Callers /\ rec[s].state = "running"
      /\ \A d \in Callers \ {c} : call[d].pc = "idle"
  BY <1>1, <1>2, OneCaller
<1>4. /\ Copy(batches, rec[s], s, call[c].pc, r) /\ Record(batches, s, r)
      /\ Open(r) # {} /\ Typed(batches) /\ r.state = "running" /\ Shape(r)
  BY <1>1, <1>2, CallHas
<1>5. Launching(s)
  BY <1>1, <1>2 DEF Launching
<1>6. \A id \in 1 .. Len(batches) : batches[id].sweep = s => batches[id].state = "created"
  BY <1>5 DEF Unstarted, BatchIds
<1>7. \A t \in Sweeps \ {s} : rec'[t] = rec[t]
  <2>1. UNCHANGED rec \/ \E v : Saved(s, v)
    BY <1>2, Zenon DEF StartCreate, StartLaunch, StartLaunched
  <2> QED
    BY <1>3, <2>1, SavedFact
<1>8. \A t \in Sweeps \ {s} : ~Launching(t)'
  <2>1. Return(c) \/ \E v : Call(c, "launch", s, v)
    BY <1>2, Zenon DEF StartCreate, StartLaunch, StartLaunched
  <2>2. \A d \in Callers \ {c} : call'[d].pc = "idle"
    BY <1>3, <2>1 DEF Return, Call
  <2>3. call'[c].pc = "idle" \/ call'[c].sweep = s
    BY <1>3, <2>1 DEF Return, Call, Idle
  <2> QED
    BY <2>2, <2>3 DEF Launching
<1>9. CASE StartCreate(c)
  <2>1. \E a \in Answers : CreateEffect(s, r, a)
    BY <1>2, <1>9 DEF StartCreate
  <2>2. \A id \in 1 .. Len(batches') :
           \/ batches'[id].state = "created" /\ batches'[id].sweep = s
           \/ id \in 1 .. Len(batches) /\ batches'[id] = batches[id]
    BY <1>4, <2>1, CreateTouches
  <2>3. \A id \in 1 .. Len(batches') : batches'[id].sweep = s => batches'[id].state = "created"
    BY <1>6, <2>2
  <2> QED
    BY <1>7, <1>8, <2>2, <2>3, OthersUnstarted
<1>10. CASE StartLaunch(c)
  <2>0. call[c].pc = "launch"
    BY <1>10 DEF StartLaunch, In
  <2>1. PICK a \in Answers : StartEffect(r, a) /\ StartLaunched(c, a, AfterStart(r, a))
    BY <1>10 DEF StartLaunch
  <2>2. Chunk1(r).batch # 0
    BY <1>4, <2>0 DEF Copy
  <2>3. \A id \in 1 .. Len(batches') :
           \/ batches'[id].sweep = s
           \/ id \in 1 .. Len(batches) /\ batches'[id] = batches[id]
    BY <1>4, <2>1, <2>2, StartTouches
  <2>4. ~Launching(s)'
    BY <1>3, <2>1 DEF StartLaunched, Return, Idle, Launching
  <2>5. CASE rec'[s].state = "failed"
    <3>1. batches' = batches
      BY <1>3, <2>5
    <3> QED
      BY <1>6, <1>7, <1>8, <2>3, <3>1, OthersUnstarted
  <2>6. CASE rec'[s].state # "failed"
    BY <1>7, <1>8, <2>3, <2>4, <2>6, OthersUnstarted
  <2> QED
    BY <2>5, <2>6
<1> QED
  BY <1>9, <1>10

(* No step starts a batch of a sweep that failed, or whose first batch is being launched,
   when no call that fails has changed a batch. *)
LEMMA StaysUnstarted ==
    ASSUME IInv, DInv, Unstarted, [Next]_vars,
           \A s \in Sweeps : rec[s].state # "failed" /\ rec'[s].state = "failed" => UNCHANGED batches
    PROVE  Unstarted'
<1>0. Types /\ Typed(batches) /\ Len(batches) \in Nat
  BY DEF IInv, DInv, Typed
<1>1. CASE \E s \in Sweeps : DriverStep(s)
  BY <1>1, DriverUnstarted
<1>2. CASE \E c \in Callers : StartCreate(c) \/ StartLaunch(c)
  BY <1>2, CallUnstarted
<1>3. CASE \/ \E s \in Sweeps : Status(s) \/ Resume(s) \/ TimeLimit(s)
           \/ Restart \/ Serve \/ UNCHANGED vars
  <2>1. UNCHANGED <<rec, call, batches>>
    BY <1>3 DEF Status, Resume, TimeLimit, Restart, Serve, vars
  <2> QED
    BY <2>1, QuietUnstarted DEF Launching
<1>4. CASE Crash
  <2>1. UNCHANGED <<rec, batches>> /\ call' = [c \in Callers |-> Idle]
    BY <1>4 DEF Crash
  <2> QED
    BY <2>1, QuietUnstarted DEF Launching, Idle
<1>5. CASE ResumePosted
  <2>1. /\ UNCHANGED <<call, batches>> /\ posting \in Sweeps
        /\ rec[posting].state = "completed"
        /\ Saved(posting, [rec[posting] EXCEPT !.notified = TRUE])
    BY <1>0, <1>5 DEF ResumePosted, IInv, Types, Resumes
  <2>2. PICK s \in Sweeps : s = posting
    BY <2>1
  <2>3. /\ \A t \in Sweeps \ {s} : rec'[t] = rec[t]
        /\ rec'[s] = [rec[s] EXCEPT !.notified = TRUE]
    BY <1>0, <2>1, <2>2, SavedFact
  <2>4. Shape(rec[s])
    BY <2>1, <2>2 DEF DInv, Known, Exists, NoRecord, Record
  <2>5. rec'[s].state = rec[s].state
    BY <2>3, <2>4, Labels
  <2> QED
    BY <2>1, <2>3, <2>5, QuietUnstarted DEF Launching
<1>6. CASE \E c \in Callers : Start(c) \/ StartCancelled(c)
  <2>1. PICK c \in Callers : Start(c) \/ StartCancelled(c)
    BY <1>6
  <2>2. UNCHANGED <<rec, batches>>
    BY <2>1 DEF Start, StartCancelled
  <2>3. /\ \A d \in Callers \ {c} : call'[d] = call[d]
        /\ call'[c] = call[c] \/ call'[c].pc \in {"idle", "ask"}
    BY <1>0, <2>1 DEF Start, StartCancelled, Return, Idle, Call, Types
  <2>4. \A s \in Sweeps : Launching(s)' => Launching(s)
    BY <2>3 DEF Launching
  <2> QED
    BY <2>2, <2>4, QuietUnstarted
<1>7. ASSUME NEW c \in Callers, StartAnswered(c) PROVE Unstarted'
  <2>1. UNCHANGED batches
    BY <1>7 DEF StartAnswered
  <2>2. CASE Return(c) /\ UNCHANGED rec
    <3>1. \A d \in Callers : call'[d] = call[d] \/ call'[d].pc = "idle"
      BY <1>0, <2>2 DEF Return, Idle, Types
    <3> QED
      BY <2>1, <2>2, <3>1, QuietUnstarted DEF Launching
  <2>3. ASSUME NEW s \in Sweeps, NEW missing \in (SUBSET ROs) \ {{}}, ~Exists(s),
               Saved(s, NewRecord(missing)), Call(c, "create", s, NewRecord(missing))
        PROVE  Unstarted'
    <3>1. \A t \in Sweeps \ {s} : rec'[t] = rec[t]
      BY <1>0, <2>3, SavedFact
    <3>2. /\ \A d \in Callers \ {c} : call'[d] = call[d]
          /\ call'[c].sweep = s
      BY <1>0, <2>3 DEF Call, Types
    <3>3. \A t \in Sweeps \ {s} : Launching(t)' => Launching(t)
      BY <3>2 DEF Launching
    <3>4. \A id \in 1 .. Len(batches) : batches[id].sweep # s
      BY <2>3 DEF DInv, BatchIds, Placed
    <3> QED
      BY <2>1, <3>1, <3>3, <3>4, OthersUnstarted
  <2> QED
    BY <1>7, <2>2, <2>3 DEF StartAnswered
<1>8. ASSUME NEW id \in BatchIds, BatchWorks(id) \/ BatchStops(id) PROVE Unstarted'
  <2>1. UNCHANGED <<rec, call>> /\ batches[id].state = "running" /\ id \in 1 .. Len(batches)
    BY <1>8 DEF BatchWorks, BatchStops, BatchIds
  <2>2. \E b : batches' = [batches EXCEPT ![id] = b] /\ b.sweep = batches[id].sweep
    <3>0. batches[id] \in Batch
      BY <1>0, <2>1 DEF Typed
    <3>1. CASE BatchWorks(id)
      <4>1. PICK o, result : batches' = [batches EXCEPT ![id].items[o] = result]
        BY <3>1 DEF BatchWorks
      <4> DEFINE b == [batches[id] EXCEPT !.items = [batches[id].items EXCEPT ![o] = result]]
      <4>2. batches' = [batches EXCEPT ![id] = b]
        BY <4>1, Zenon
      <4>3. b.sweep = batches[id].sweep
        BY <3>0 DEF Batch
      <4> QED
        BY <4>2, <4>3
    <3>2. CASE BatchStops(id)
      <4> DEFINE b == [batches[id] EXCEPT !.state = "stopped"]
      <4>1. batches' = [batches EXCEPT ![id] = b]
        BY <3>2, Zenon DEF BatchStops
      <4>2. b.sweep = batches[id].sweep
        BY <3>0 DEF Batch
      <4> QED
        BY <4>1, <4>2
    <3> QED
      BY <1>8, <3>1, <3>2
  <2>3. /\ \A j \in 1 .. Len(batches) : batches'[j].sweep = batches[j].sweep
        /\ \A j \in 1 .. Len(batches) : batches[j].state = "created" => batches'[j] = batches[j]
    BY <1>0, <2>1, <2>2 DEF Typed
  <2>4. Len(batches') = Len(batches)
    BY <1>0, <2>2 DEF Typed
  <2> QED
    BY <2>1, <2>3, <2>4, QuietUnstarted DEF Launching
<1> QED
  BY <1>1, <1>2, <1>3, <1>4, <1>5, <1>6, <1>7, <1>8 DEF Next, CallerStep

(* A call that says that its launch failed has changed no batch, when no answer is lost. *)
LEMMA FailsWithout ==
    ASSUME ~LostAnswers, IInv, DInv, [Next]_vars, NEW s \in Sweeps,
           rec[s].state # "failed", rec'[s].state = "failed"
    PROVE  UNCHANGED batches
<1>0. Types
  BY DEF IInv
<1>1. CASE \E t \in Sweeps : DriverStep(t)
  <2>1. PICK t \in Sweeps : Outcome(t)
    BY <1>1, DriverOutcome
  <2> QED
    BY <2>1 DEF Outcome, GoesOn, Finishes, Ends, InState, Active
<1>2. ASSUME NEW c \in Callers, StartCreate(c) \/ StartLaunch(c) PROVE UNCHANGED batches
  <2>1. call[c].pc \in {"create", "launch"}
    BY <1>2 DEF StartCreate, StartLaunch, In
  <2>2. PICK t \in Sweeps : t = call[c].sweep
    BY <2>1, OneCaller
  <2>3. call[c].rec.state = "running" /\ rec[t].state = "running" /\ Shape(call[c].rec)
    BY <2>1, <2>2, OneCaller, CallHas
  <2>4. CASE StartCreate(c)
    <3>1. PICK a \in Answers :
            /\ CreateEffect(t, call[c].rec, a)
            /\ IF a = "ok" THEN UNCHANGED rec
                           ELSE StartLaunched(c, a, AfterCreate(call[c].rec, a))
      BY <2>2, <2>4 DEF StartCreate
    <3>2. a # "ok"
      BY <3>1
    <3> QED
      BY <3>1, <3>2 DEF CreateEffect, Answers
  <2>5. CASE StartLaunch(c)
    <3>1. PICK a \in Answers : /\ StartEffect(call[c].rec, a)
                               /\ StartLaunched(c, a, AfterStart(call[c].rec, a))
      BY <2>5 DEF StartLaunch
    <3>2. CASE a = "ok"
      <4>1. Saved(t, AfterStart(call[c].rec, a))
        BY <2>2, <3>1, <3>2 DEF StartLaunched
      <4>2. InState(AfterStart(call[c].rec, a), {"running"})
        BY <2>3, AfterStartState DEF InState, Shape
      <4>3. PICK v : v = AfterStart(call[c].rec, a)
        OBVIOUS
      <4>4. rec'[t] = v /\ \A u \in Sweeps \ {t} : rec'[u] = rec[u]
        BY <1>0, <4>1, <4>3, SavedFact
      <4> QED
        BY <4>2, <4>3, <4>4 DEF InState
    <3>3. CASE a # "ok"
      BY <3>1, <3>3 DEF StartEffect, Answers
    <3> QED
      BY <3>2, <3>3
  <2> QED
    BY <1>2, <2>4, <2>5
<1>3. CASE \E c \in Callers : StartAnswered(c)
  BY <1>3 DEF StartAnswered
<1>4. CASE ResumePosted
  BY <1>4 DEF ResumePosted
<1>5. CASE \/ \E t \in Sweeps : Status(t) \/ Resume(t) \/ TimeLimit(t)
           \/ \E c \in Callers : Start(c) \/ StartCancelled(c)
           \/ \E id \in BatchIds : BatchWorks(id) \/ BatchStops(id)
           \/ Crash \/ Restart \/ Serve \/ UNCHANGED vars
  BY <1>5 DEF Status, Resume, TimeLimit, Start, StartCancelled, BatchWorks, BatchStops, Crash,
     Restart, Serve, vars
<1> QED
  BY <1>1, <1>2, <1>3, <1>4, <1>5 DEF Next, CallerStep

(* Nothing is started before anything is recorded. *)
LEMMA UBegins == ASSUME Init PROVE Unstarted
<1>1. Len(batches) = 0
  BY DEF Init
<1> QED
  BY <1>1 DEF Unstarted, BatchIds

(* Then a sweep that failed has nothing at work. *)
LEMMA NeverStartedFact == ASSUME Unstarted PROVE FailedNeverStarted
  BY DEF Unstarted, FailedNeverStarted

-----------------------------------------------------------------------------
(* Every variable keeps its type; no repair order is attempted by more than the first and
   the one retry pass of _drive, however many crashes, refusals and lost answers there are
   (adas_map_sweep.py:773-958). *)
THEOREM TypeOKProved == ASSUME ~StatusInLaunch, ~StopsInLaunch PROVE Spec => []TypeOK
<1>1. IInv /\ DInv => TypeOK
  BY TypeFact
<1> QED
  BY <1>1, DataInvariance, PTL

(* No repair orders are sent to ScrapeX twice in one pass, except that a crash may lose the
   id of a batch that was just created (adas_map_sweep.py:661-733, 861-873). *)
THEOREM OneBatchPerChunkProved ==
    ASSUME ~StatusInLaunch, ~StopsInLaunch PROVE Spec => []OneBatchPerChunk
<1>1. IInv /\ DInv => OneBatchPerChunk
  BY OnceFact
<1> QED
  BY <1>1, DataInvariance, PTL

(* Two batches of a sweep are at work together only when the driver gave a chunk up, or a
   crash lost a batch (adas_map_sweep.py:839-958). *)
THEOREM OneAtATimeProved == ASSUME ~StatusInLaunch, ~StopsInLaunch PROVE Spec => []OneAtATime
<1>1. IInv /\ DInv => OneAtATime
  BY InTurn
<1> QED
  BY <1>1, DataInvariance, PTL

(* A sweep that was not cut short is reported only when every chunk was worked through or
   given up and every repair order that needed the operator was tried again, and what is
   reported of it is what ScrapeX said last (adas_map_sweep.py:839-1022). *)
THEOREM WorkedBeforeDoneProved ==
    ASSUME ~StatusInLaunch, ~StopsInLaunch PROVE Spec => []WorkedBeforeDone
<1>1. IInv /\ DInv => WorkedBeforeDone
  BY WorkedFact
<1> QED
  BY <1>1, DataInvariance, PTL

(* A sweep whose start() was answered as failed has no batch at work, as long as no answer
   of ScrapeX is lost (adas_map_sweep.py:562-605, 683-733). *)
THEOREM FailedNeverStartedProved ==
    ASSUME ~LostAnswers, ~StatusInLaunch, ~StopsInLaunch PROVE Spec => []FailedNeverStarted
<1> DEFINE Inv == IInv /\ DInv /\ Unstarted
<1>1. Init => Inv
  BY Begins, DBegins, UBegins
<1>2. Inv /\ [Next]_vars => Inv'
  <2> SUFFICES ASSUME Inv, [Next]_vars PROVE Inv'
    OBVIOUS
  <2>1. IInv' /\ DInv'
    BY Continues, DContinues
  <2>2. \A s \in Sweeps : rec[s].state # "failed" /\ rec'[s].state = "failed" => UNCHANGED batches
    BY FailsWithout
  <2> QED
    BY <2>1, <2>2, StaysUnstarted
<1>3. Inv => FailedNeverStarted
  BY NeverStartedFact
<1> QED
  BY <1>1, <1>2, <1>3, PTL DEF Spec

-----------------------------------------------------------------------------
(* What holds in the run, beside everything else that runs there. *)
InRun ==
    scenario \in {"one", "two"} =>
        IInv /\ DInv /\ ActiveIsDriven /\ (scenario = "two" => Unstarted)

(* It holds at first. *)
LEMMA RunBegins == ASSUME MCInit PROVE InRun
<1> SUFFICES ASSUME scenario \in {"one", "two"}
             PROVE  IInv /\ DInv /\ ActiveIsDriven /\ Unstarted
  BY DEF InRun
<1>1. Init
  BY DEF MCInit
<1>2. ActiveIsDriven
  BY <1>1 DEF Init, ActiveIsDriven, IsActive, Active, NoRecord
<1> QED
  BY <1>1, <1>2, Begins, DBegins, UBegins

(* A step of the run is one of the sweep, or leaves it alone. *)
LEMMA RunSteps ==
    ASSUME [MCNext]_allVars
    PROVE  /\ scenario' = scenario
           /\ scenario \in {"one", "two"} => [Next]_vars
           /\ scenario = "two" => Pair \/ UNCHANGED vars
<1>1. scenario' = scenario
  BY DEF MCNext, allVars
<1>2. CASE UNCHANGED allVars
  BY <1>1, <1>2 DEF allVars, sweepVars
<1>3. CASE MCNext
  BY <1>1, <1>3 DEF MCNext
<1> QED
  BY <1>2, <1>3

(* And stays so. *)
LEMMA RunContinues ==
    ASSUME ~StatusInLaunch, ~StopsInLaunch, InRun, [MCNext]_allVars PROVE InRun'
<1>1. /\ scenario' = scenario
      /\ scenario \in {"one", "two"} => [Next]_vars
      /\ scenario = "two" => Pair \/ UNCHANGED vars
  BY RunSteps
<1> SUFFICES ASSUME scenario \in {"one", "two"}
             PROVE  /\ IInv' /\ DInv' /\ ActiveIsDriven'
                    /\ scenario = "two" => Unstarted'
  BY <1>1 DEF InRun
<1>2. IInv /\ DInv /\ ActiveIsDriven /\ [Next]_vars
  BY <1>1 DEF InRun
<1>3. IInv' /\ DInv' /\ ActiveIsDriven'
  BY <1>2, Continues, DContinues, StaysDriven
<1>4. ASSUME scenario = "two" PROVE Unstarted'
  <2>1. Unstarted
    BY <1>4 DEF InRun
  <2>2. \A s \in Sweeps : rec[s].state # "failed" /\ rec'[s].state = "failed" => UNCHANGED batches
    BY <1>1, <1>4 DEF Pair, vars
  <2> QED
    BY <1>2, <2>1, <2>2, StaysUnstarted
<1> QED
  BY <1>3, <1>4

(* In the run: the batches of a sweep run in turn, none is sent twice, a result is posted
   once and only of work that was done; one sweep is active at a time and has its driver,
   and a start that failed started nothing (adas_map_sweep.py:458-605, 661-733, 773-958,
   1104-1134). *)
THEOREM SweepTruthOfRun ==
    ASSUME ~StatusInLaunch, ~StopsInLaunch PROVE MCSpec => []SweepTruth
<1>1. MCInit => InRun
  BY RunBegins
<1>2. InRun /\ [MCNext]_allVars => InRun'
  BY RunContinues
<1>3. InRun => SweepTruth
  BY TypeFact, OnceFact, InTurn, WorkedFact, PostsBoundedFact, OneActiveFact, NeverStartedFact
     DEF InRun, SweepTruth
<1> QED
  BY <1>1, <1>2, <1>3, PTL DEF MCSpec

(* In the run, an ended sweep stays ended beside everything else that runs
   (adas_map_sweep.py:587-605, 837). *)
THEOREM FinalOfRun == ASSUME ~StatusInLaunch PROVE MCSpec => Final
<1> DEFINE Inv == scenario \in {"one", "two"} => IInv
           Stays == scenario = "one" \/ scenario = "two" =>
              \A s \in Sweeps : rec[s].state \in Terminal => rec'[s].state = rec[s].state
<1>1. MCInit => Inv
  BY Begins DEF MCInit
<1>2. Inv /\ [MCNext]_allVars => Inv' /\ Stays
  <2> SUFFICES ASSUME Inv, [MCNext]_allVars PROVE Inv' /\ Stays
    OBVIOUS
  <2>1. scenario' = scenario /\ (scenario \in {"one", "two"} => [Next]_vars)
    BY RunSteps
  <2> QED
    BY <2>1, Continues, StaysEnded
<1> QED
  BY <1>1, <1>2, PTL DEF MCSpec, Final
=============================================================================
