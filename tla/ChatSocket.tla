------------------------------ MODULE ChatSocket ------------------------------
(***************************************************************************)
(* The chat sockets of one user (core/api/chat.py) and the uploads their    *)
(* messages carry (core/api/routes.py, core/services/attachments.py,        *)
(* core/state/db.py).                                                       *)
(*                                                                         *)
(* Each socket has one receive loop, which owns at most one active task.    *)
(* The loop handles no frame while it awaits a send, a worker swap, or a    *)
(* task it has cancelled; the tasks, the other sockets and the uploads go   *)
(* on meanwhile.  A task that has ended clears the loop's reference only    *)
(* one turn of the event loop later, in a callback.                         *)
(***************************************************************************)
EXTENDS Naturals, Sequences, FiniteSets

CONSTANTS
    Sockets,      \* the windows the user has open
    Owners,       \* those of Sockets whose session may switch models
    Slots,        \* bound: tasks of one socket alive at a time (one running, others ended)
    Uploads,      \* rows of the attachments table
    Files,        \* the distinct contents that are uploaded
    MaxMessages,  \* bound: messages stored
    None

VARIABLES
    up,         \* Core is running
    at,         \* where each receive loop is
    held,       \* the attachment ids of the frame being handled
    active,     \* active_task of each socket
    task,       \* the tasks of each socket and the stage of each
    upload,     \* the attachments rows, with the requests that will make them
    blobs,      \* the stored files
    messages    \* the stored user messages: the rows each one names

vars == <<up, at, held, active, task, upload, blobs, messages>>

NoUpload == [st |-> "none", file |-> None, message |-> 0, old |-> FALSE]

\* Stages of a task, in order of its life; "doomed" was cancelled before its
\* first step, "failing" sends the error of a turn that raised.
Stages   == {"free", "new", "doomed", "running", "failing", "cancelled",
             "telling", "ended"}
Running  == Stages \ {"free", "ended"}
Places   == {"gone", "receive", "before", "thinking", "swapping", "stopping", "closing"}

_task_running(s) == active[s] # None /\ task[s][active[s]] \in Running

Init ==
    /\ up = TRUE
    /\ at = [s \in Sockets |-> "gone"]
    /\ held = [s \in Sockets |-> {}]
    /\ active = [s \in Sockets |-> None]
    /\ task = [s \in Sockets |-> [k \in Slots |-> "free"]]
    /\ upload = [u \in Uploads |-> NoUpload]
    /\ blobs = {}
    /\ messages = <<>>

-----------------------------------------------------------------------------
(* The receive loop. *)

\* A socket is accepted; without a session it is refused at once and never listens.
chat_socket(s) ==
    /\ up /\ at[s] = "gone"
    /\ at' = [at EXCEPT ![s] = "receive"]
    /\ UNCHANGED <<up, held, active, task, upload, blobs, messages>>

_start_active(s) ==
    \E k \in Slots :
        /\ task[s][k] = "free"
        /\ task' = [task EXCEPT ![s][k] = "new"]
        /\ active' = [active EXCEPT ![s] = k]

\* Cancelling a task: one that has not run yet never enters its body, one that
\* sends its error is past the handler that would report the cancellation.
Cancelled(stage) ==
    CASE stage = "new"     -> "doomed"
      [] stage = "running" -> "cancelled"
      [] stage = "failing" -> "ended"
      [] OTHER             -> stage

\* Mutant: Stop waits for the task and does not cancel it.
StopOnlyWaits(s) ==
    /\ up /\ at[s] = "receive" /\ _task_running(s)
    /\ at' = [at EXCEPT ![s] = "stopping"]
    /\ UNCHANGED <<up, held, active, task, upload, blobs, messages>>

\* The stop frame.  With nothing running it only sends "cancelled".
_cancel_active(s) ==
    /\ up /\ at[s] = "receive" /\ _task_running(s)
    /\ task' = [task EXCEPT ![s][active[s]] = Cancelled(@)]
    /\ at' = [at EXCEPT ![s] = "stopping"]
    /\ UNCHANGED <<up, held, active, upload, blobs, messages>>

\* The awaited task has ended; its callback may have run or not.
Stopped(s) ==
    /\ up /\ at[s] = "stopping" /\ ~_task_running(s)
    /\ at' = [at EXCEPT ![s] = "receive"]
    /\ UNCHANGED <<up, held, active, task, upload, blobs, messages>>

\* The swap frame, refused during a task; the loop awaits the router.
_handle_swap(s) ==
    /\ up /\ at[s] = "receive" /\ ~_task_running(s) /\ s \in Owners
    /\ at' = [at EXCEPT ![s] = "swapping"]
    /\ UNCHANGED <<up, held, active, task, upload, blobs, messages>>

\* Also the end of a message that was a slash command without text.
SwapAnswered(s) ==
    /\ up /\ \/ at[s] = "swapping"
             \/ at[s] = "before" /\ held[s] = {} /\ s \in Owners
    /\ at' = [at EXCEPT ![s] = "receive"]
    /\ UNCHANGED <<up, held, active, task, upload, blobs, messages>>

Approve(s) ==
    /\ up /\ at[s] = "receive" /\ ~_task_running(s)
    /\ _start_active(s)
    /\ UNCHANGED <<up, at, held, upload, blobs, messages>>

\* The message frame, refused during a task.  The loop then awaits the send of a
\* new conversation, or the swap a slash command asks for.
Message(s, ids) ==
    /\ up /\ at[s] = "receive" /\ ~_task_running(s)
    /\ Len(messages) < MaxMessages
    /\ held' = [held EXCEPT ![s] = ids]
    /\ at' = [at EXCEPT ![s] = "before"]
    /\ UNCHANGED <<up, active, task, upload, blobs, messages>>

\* Mutant: only the existence of the row is checked.
PrepareSentAgain(ids) == \A u \in ids : upload[u].st \in {"row", "sent"}

\* Ownership and single use of every row; the rows are the user's own.
_prepare_attachments(ids) == \A u \in ids : upload[u].st = "row"

bind_attachments(ids, message) ==
    [u \in Uploads |->
        IF u \in ids /\ upload[u].st = "row"
        THEN [upload[u] EXCEPT !.st = "sent", !.message = message]
        ELSE upload[u]]

\* Check, store and bind without an await between them: the branch that reports
\* rows claimed meanwhile is not reachable and not modelled.
Store(s) ==
    /\ up /\ at[s] = "before"
    /\ IF _prepare_attachments(held[s]) /\ Len(messages) < MaxMessages
       THEN /\ messages' = Append(messages, held[s])
            /\ upload' = bind_attachments(held[s], Len(messages) + 1)
            /\ at' = [at EXCEPT ![s] = "thinking"]
       ELSE /\ at' = [at EXCEPT ![s] = "receive"]
            /\ UNCHANGED <<messages, upload>>
    /\ held' = [held EXCEPT ![s] = {}]
    /\ UNCHANGED <<up, active, task, blobs>>

\* "thinking" was sent: the turn becomes the active task.
Think(s) ==
    /\ up /\ at[s] = "thinking"
    /\ _start_active(s)
    /\ at' = [at EXCEPT ![s] = "receive"]
    /\ UNCHANGED <<up, held, upload, blobs, messages>>

\* The client is gone: the loop sees it at its next receive.
Disconnect(s) ==
    /\ up /\ at[s] = "receive"
    /\ IF _task_running(s)
       THEN /\ task' = [task EXCEPT ![s][active[s]] = Cancelled(@)]
            /\ at' = [at EXCEPT ![s] = "closing"]
       ELSE /\ at' = [at EXCEPT ![s] = "gone"]
            /\ UNCHANGED task
    /\ UNCHANGED <<up, held, active, upload, blobs, messages>>

Closed(s) ==
    /\ up /\ at[s] = "closing" /\ ~_task_running(s)
    /\ at' = [at EXCEPT ![s] = "gone"]
    /\ UNCHANGED <<up, held, active, task, upload, blobs, messages>>

-----------------------------------------------------------------------------
(* The tasks. *)

Becomes(s, k, from, to) ==
    /\ up /\ task[s][k] \in from
    /\ task' = [task EXCEPT ![s][k] = to]
    /\ UNCHANGED <<up, at, held, active, upload, blobs, messages>>

Enter(s, k)      == Becomes(s, k, {"new"}, "running")
NeverRuns(s, k)  == Becomes(s, k, {"doomed"}, "ended")
Returns(s, k)    == Becomes(s, k, {"running", "failing"}, "ended")
Raises(s, k)     == Becomes(s, k, {"running"}, "failing")
\* The handler of the cancellation: the partial text of a response is stored, then
\* "cancelled" is sent, then the exception goes on.
SavesPartial(s, k) == Becomes(s, k, {"cancelled"}, "telling")
Told(s, k)       == Becomes(s, k, {"telling"}, "ended")

\* Mutant: the callback clears whatever task is active.
ClearWhatever(s, k) ==
    /\ up /\ task[s][k] = "ended"
    /\ active' = [active EXCEPT ![s] = None]
    /\ task' = [task EXCEPT ![s][k] = "free"]
    /\ UNCHANGED <<up, at, held, upload, blobs, messages>>

\* The done callback clears the reference only if it is still this task's.
_clear_active(s, k) ==
    /\ up /\ task[s][k] = "ended"
    /\ active' = [active EXCEPT ![s] = IF @ = k THEN None ELSE @]
    /\ task' = [task EXCEPT ![s][k] = "free"]
    /\ UNCHANGED <<up, at, held, upload, blobs, messages>>

-----------------------------------------------------------------------------
(* Uploads: read the file, write it under its digest, record the row. *)

Changed(u, value) ==
    /\ upload' = [upload EXCEPT ![u] = value]
    /\ UNCHANGED <<up, at, held, active, task, messages>>

_store_attachment(u, f) ==
    /\ up /\ upload[u].st = "none"
    /\ Changed(u, [NoUpload EXCEPT !.st = "reading", !.file = f])
    /\ UNCHANGED blobs

\* Unreadable content, no vision worker, a client that left.
Unreadable(u) ==
    /\ up /\ upload[u].st = "reading"
    /\ Changed(u, NoUpload)
    /\ UNCHANGED blobs

\* A full disk after a part was written, a client that left.
LostUpload(u) ==
    /\ up /\ upload[u].st = "written"
    /\ Changed(u, NoUpload)
    /\ UNCHANGED blobs

write_attachment(u) ==
    /\ up /\ upload[u].st = "reading"
    /\ Changed(u, [upload[u] EXCEPT !.st = "written"])
    /\ blobs' = blobs \cup {upload[u].file}

add_attachment(u) ==
    /\ up /\ upload[u].st = "written"
    /\ Changed(u, [upload[u] EXCEPT !.st = "row"])
    /\ UNCHANGED blobs

\* A day passes for a row that no message has sent.
Age(u) ==
    /\ upload[u].st = "row" /\ ~upload[u].old
    /\ Changed(u, [upload[u] EXCEPT !.old = TRUE])
    /\ UNCHANGED blobs

-----------------------------------------------------------------------------
Crash ==
    /\ up /\ up' = FALSE
    /\ at' = [s \in Sockets |-> "gone"]
    /\ held' = [s \in Sockets |-> {}]
    /\ active' = [s \in Sockets |-> None]
    /\ task' = [s \in Sockets |-> [k \in Slots |-> "free"]]
    /\ upload' = [u \in Uploads |->
                    IF upload[u].st \in {"reading", "written"} THEN NoUpload ELSE upload[u]]
    /\ UNCHANGED <<blobs, messages>>

delete_unbound_attachments == {u \in Uploads : upload[u].st = "row" /\ upload[u].old}

attachment_sha_in_use(f, gone) ==
    \E u \in Uploads \ gone : upload[u].st \in {"row", "sent"} /\ upload[u].file = f

\* Before Core serves a request, the uploads nobody sent are removed, and those of
\* their files that no other row names.
_sweep_abandoned_attachments ==
    LET stale == delete_unbound_attachments
    IN  /\ ~up /\ up' = TRUE
        /\ upload' = [u \in Uploads |-> IF u \in stale THEN NoUpload ELSE upload[u]]
        /\ blobs' = blobs \ {f \in {upload[u].file : u \in stale} :
                                ~attachment_sha_in_use(f, stale)}
        /\ UNCHANGED <<at, held, active, task, messages>>

-----------------------------------------------------------------------------
Loop(s) ==
    \/ Stopped(s) \/ SwapAnswered(s) \/ Store(s) \/ Think(s) \/ Closed(s)

Frame(s) ==
    \/ chat_socket(s) \/ _cancel_active(s) \/ _handle_swap(s) \/ Approve(s)
    \/ Disconnect(s)
    \/ \E ids \in SUBSET {u \in Uploads : upload[u].st \in {"row", "sent"}} : Message(s, ids)

\* What the event loop does for a task without waiting for anything remote.
Step(s, k) ==
    \/ Enter(s, k) \/ NeverRuns(s, k) \/ SavesPartial(s, k) \/ Told(s, k)
    \/ _clear_active(s, k)

Turn(s, k) == Returns(s, k) \/ Raises(s, k)

Upload(u) ==
    \/ Unreadable(u) \/ LostUpload(u) \/ write_attachment(u) \/ add_attachment(u) \/ Age(u)
    \/ \E f \in Files : _store_attachment(u, f)

Next ==
    \/ \E s \in Sockets : Frame(s) \/ Loop(s)
    \/ \E s \in Sockets, k \in Slots : Step(s, k) \/ Turn(s, k)
    \/ \E u \in Uploads : Upload(u)
    \/ Crash \/ _sweep_abandoned_attachments

\* The event loop runs what is ready; a turn may take for ever, a client may not.
Fairness ==
    /\ \A s \in Sockets : WF_vars(Loop(s))
    /\ \A s \in Sockets, k \in Slots : WF_vars(Step(s, k))

Spec == Init /\ [][Next]_vars /\ Fairness

-----------------------------------------------------------------------------
TypeOK ==
    /\ up \in BOOLEAN
    /\ at \in [Sockets -> Places]
    /\ held \in [Sockets -> SUBSET Uploads]
    /\ active \in [Sockets -> Slots \cup {None}]
    /\ task \in [Sockets -> [Slots -> Stages]]
    /\ upload \in [Uploads -> [st : {"none", "reading", "written", "row", "sent"},
                               file : Files \cup {None}, message : 0 .. MaxMessages,
                               old : BOOLEAN]]
    /\ blobs \subseteq Files
    /\ messages \in Seq(SUBSET Uploads) /\ Len(messages) <= MaxMessages

(* A task that runs is the active task of its socket, so Stop and the end of
   the socket reach it; a socket that is gone has none (chat.py:145-170,
   500-508).  The callback of an earlier task must not clear the later one. *)
OneWorker ==
    \A s \in Sockets, k \in Slots :
        task[s][k] \in Running => active[s] = k /\ at[s] # "gone"

(* A stored message names only rows bound to it: a file is sent once, whatever
   the user's other window sent while this one awaited (chat.py:63-84, 440-466). *)
SentOnce ==
    \A i \in 1 .. Len(messages) : \A u \in messages[i] :
        upload[u].st = "sent" /\ upload[u].message = i

(* Every recorded upload still has its file: removing the abandoned ones at
   startup never takes a file that another row names (main.py:89-112). *)
FilesKept ==
    \A u \in Uploads : upload[u].st \in {"row", "sent"} => upload[u].file \in blobs

(* Stop, and the end of a socket, come back whatever the task was doing: the
   loop listens again or is gone (chat.py:172-188, 500-508). *)
StopReturns ==
    \A s \in Sockets : at[s] \in {"stopping", "closing"} ~> at[s] \in {"receive", "gone"}
=============================================================================
