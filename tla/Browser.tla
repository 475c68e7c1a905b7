-------------------------------- MODULE Browser --------------------------------
(***************************************************************************)
(* The timeline of the chat page (ui/src/App.jsx, hooks/useChatSocket.js,     *)
(* hooks/useConversationContinuity.js, lib/conversationTimeline.js).  What it  *)
(* shows is put together from the events of the socket, from what the user     *)
(* just sent, and from histories that were asked for earlier and come back in   *)
(* any order.                                                              *)
(*                                                                         *)
(* Core is here only what the timeline meets of it: the whole of its socket    *)
(* is in ChatSocket.  Cards (artifacts, approvals, receipts) are left out.      *)
(***************************************************************************)
EXTENDS Naturals, Sequences, FiniteSets, SequencesExt

CONSTANTS
    Conversations,
    Texts,         \* what a user types; the same text may be sent again
    Budgets,       \* bounds: how often each thing of the environment may happen
    None

VARIABLES
    stored,        \* Core: the messages rows of each conversation
    known,         \* Core: the conversations rows
    turn, orphan,  \* Core: the task of the socket, and the one of the socket before
    uplink, wire,  \* the socket's frames under way
    up,            \* connected
    active,        \* conversationIdRef
    items,         \* the timeline, without its order
    thinking, streaming,
    request,       \* requestRef
    fetches,       \* histories asked for: what was read, once Core has answered
    left           \* what remains of the budget

vars == <<stored, known, turn, orphan, uplink, wire, up, active, items, thinking,
          streaming, request, fetches, left>>
coreVars == <<stored, known, turn, orphan>>
viewVars == <<active, items, thinking, streaming>>

\* A message: who, what, whether files came with it, and its number in this run.
Message(role, text, files, n) == [role |-> role, text |-> text, files |-> files, n |-> n]
Does(what) == left[what] > 0 /\ left' = [left EXCEPT ![what] = @ - 1]

\* The page has read the latest conversation, if there is one (which, is all the same),
\* and may connect.
Init ==
    /\ stored = [c \in Conversations |-> <<>>]
    /\ known \in {{}, Conversations}
    /\ active = IF known = {} THEN None ELSE CHOOSE c \in known : TRUE
    /\ turn = None /\ orphan = None
    /\ uplink = <<>> /\ wire = <<>> /\ up = FALSE
    /\ items = {} /\ thinking = FALSE /\ streaming = None
    /\ request = 0 /\ fetches = {} /\ left \in Budgets

-----------------------------------------------------------------------------
(* The timeline: its entries have the key of their message or one of the page.    *)

Entry(key, kind, text, n) == [key |-> key, kind |-> kind, text |-> text, n |-> n]

\* A key of the page that is not in use.
clientKey(set) == <<"client", CHOOSE n \in 1 .. Cardinality(set) + 1 :
                                  \A i \in set : i.key # <<"client", n>>>>

upsertTimelineItem(set, item) == {i \in set : i.key # item.key} \cup {item}
push(set, kind, text, n) == upsertTimelineItem(set, Entry(clientKey(set), kind, text, n))

\* Who said what: entries of one signature are taken for one message.  A stored message
\* with files has the text of the files in it; the entry of the page has not.
signature(i) == <<i.kind, i.text>>

\* Mutant: only keys are compared.
MergeByKey(read, live) == read \cup {i \in live : \A j \in read : i.key # j.key}

\* Mutant: what the page alone has is dropped.
MergeAsOpened(read, live) == read

\* What the page has and the history has not stays, the first of a signature only.  The
\* numbers of what a user sends count down.
mergeTimelines(read, live) ==
    LET Stays(i) == \A j \in read : i.key # j.key /\ (i.kind = "error" \/ signature(i) # signature(j))
    IN  read \cup {i \in live : Stays(i) /\ \A j \in live :
                      Stays(j) /\ signature(i) = signature(j) /\ i.kind # "error" => j.n <= i.n}

\* The rows as entries.
timelineFromHistory(c) ==
    {Entry(<<"message", m.n>>, m.role, <<m.text, m.files>>, m.n) : m \in ToSet(stored[c])}

-----------------------------------------------------------------------------
(* Requests to Core: the rows of a conversation, the list, a new conversation.     *)

Fresh == CHOOSE n \in 1 .. Cardinality(fetches) + 1 : \A f \in fetches : f.n # n
Ask(kind, c, merge, r) ==
    fetches \cup {[kind |-> kind, conv |-> c, merge |-> merge, request |-> r,
                   read |-> None, n |-> Fresh]}

\* reconcile: the active conversation, or the latest when there is none.
reconcile(c) ==
    IF c = None
    THEN request' = request + 1 /\ fetches' = Ask("list", None, TRUE, request + 1)
    ELSE UNCHANGED request /\ fetches' = Ask("messages", c, TRUE, request)

\* Core reads the rows or the list, or makes the row.
Answer(f) ==
    /\ f.read = None
    /\ \/ f.kind = "messages" /\ UNCHANGED known
          /\ fetches' = (fetches \ {f}) \cup {[f EXCEPT !.read = timelineFromHistory(f.conv)]}
       \/ f.kind = "list" /\ UNCHANGED known
          /\ \E c \in IF known = {} THEN {None} ELSE known :
              fetches' = (fetches \ {f}) \cup {[f EXCEPT !.read = {c}]}
       \/ f.kind = "create"
          /\ \E c \in Conversations \ known :
              /\ known' = known \cup {c}
              /\ fetches' = (fetches \ {f}) \cup {[f EXCEPT !.read = {c}]}
    /\ UNCHANGED <<stored, turn, orphan, uplink, wire, up, viewVars, request, left>>

\* loadMessages sets the timeline, whatever was opened meanwhile.
loadMessages(f) ==
    /\ f.kind = "messages" /\ f.read # None
    /\ fetches' = fetches \ {f}
    /\ IF f.merge
       THEN items' = mergeTimelines(f.read, items) /\ UNCHANGED <<thinking, streaming>>
       ELSE items' = f.read /\ thinking' = FALSE /\ streaming' = None
    /\ UNCHANGED <<coreVars, uplink, wire, up, active, request, left>>

\* Only the newest request for the list is used; its conversation is read next.
restoreLatest(f) ==
    /\ f.kind = "list" /\ f.read # None
    /\ LET c == CHOOSE c \in f.read : TRUE IN
       /\ active' = (IF f.request = request THEN c ELSE active)
       /\ fetches' = IF f.request # request \/ c = None THEN fetches \ {f}
                     ELSE (fetches \ {f}) \cup
                            {[f EXCEPT !.kind = "messages", !.conv = c, !.read = None]}
    /\ UNCHANGED <<coreVars, uplink, wire, up, items, thinking, streaming, request, left>>

createConversation(f) ==
    /\ f.kind = "create" /\ f.read # None
    /\ fetches' = fetches \ {f} /\ request' = request + 1
    /\ active' = (CHOOSE c \in f.read : TRUE)
    /\ items' = {} /\ thinking' = FALSE /\ streaming' = None
    /\ UNCHANGED <<coreVars, uplink, wire, up, left>>

\* The request fails, and the page says so.
FetchFails(f) ==
    /\ Does("fails")
    /\ items' = push(items, "error", None, 0)
    /\ fetches' = fetches \ {f}
    /\ UNCHANGED <<coreVars, uplink, wire, up, active, thinking, streaming, request>>

\* The current thread is left: its entries go, the stored history is fetched.
openConversation(c) ==
    /\ ~thinking /\ c \in known /\ c # active /\ Does("opens")
    /\ active' = c /\ items' = {}
    /\ request' = request + 1 /\ fetches' = Ask("messages", c, FALSE, request + 1)
    /\ UNCHANGED <<coreVars, uplink, wire, up, thinking, streaming>>

newConversation ==
    /\ ~thinking /\ known # Conversations /\ (\A f \in fetches : f.kind # "create")
    /\ Does("opens")
    /\ fetches' = Ask("create", None, FALSE, request)
    /\ UNCHANGED <<coreVars, uplink, wire, up, viewVars, request>>

-----------------------------------------------------------------------------
(* The socket.                                                              *)

\* Mutant: a new connection reads nothing again.
ConnectOnly ==
    /\ ~up /\ orphan = None
    /\ up' = TRUE
    /\ UNCHANGED <<coreVars, uplink, wire, viewVars, request, fetches, left>>

\* connect, and the history that is read again on every connection.
connect ==
    /\ ~up /\ orphan = None
    /\ up' = TRUE /\ reconcile(active)
    /\ UNCHANGED <<coreVars, uplink, wire, viewVars, left>>

\* The transport is lost with every frame under way; the page stops waiting.
onclose ==
    /\ up /\ Does("drops")
    /\ up' = FALSE /\ uplink' = <<>> /\ wire' = <<>>
    /\ orphan' = turn /\ turn' = None
    /\ thinking' = FALSE /\ streaming' = None
    /\ UNCHANGED <<stored, known, active, items, request, fetches>>

\* With Enter, also while a history is being read.
sendMessage(t, files) ==
    /\ up /\ ~thinking /\ Does("sends")
    /\ uplink' = Append(uplink, [type |-> "message", conv |-> active,
                                 message |-> Message("user", t, files, left.sends)])
    /\ items' = push(items, "user", <<t, FALSE>>, left.sends)
    /\ thinking' = TRUE
    /\ UNCHANGED <<coreVars, wire, up, active, streaming, request, fetches>>

stopResponse ==
    /\ up /\ thinking /\ Does("stops")
    /\ uplink' = Append(uplink, [type |-> "stop"])
    /\ UNCHANGED <<coreVars, wire, up, viewVars, request, fetches>>

\* What was streamed becomes an entry.
Streamed(key) == IF streaming = None THEN items
                 ELSE upsertTimelineItem(items, Entry(key, "assistant", <<streaming, FALSE>>, streaming))

\* handleEvent, one disjunct for each event of the socket.
handleEvent ==
    /\ up /\ wire # <<>> /\ wire' = Tail(wire)
    /\ LET e == Head(wire) IN
       \/ e.type = "conversation" /\ active' = e.conv
          /\ UNCHANGED <<items, thinking, streaming, request, fetches>>
       \/ e.type = "thinking" /\ thinking' = TRUE /\ streaming' = None
          /\ UNCHANGED <<active, items, request, fetches>>
       \/ e.type = "token" /\ streaming' = e.text
          /\ UNCHANGED <<active, items, thinking, request, fetches>>
       \/ e.type \in {"done", "cancelled"} /\ thinking' = FALSE /\ streaming' = None
          /\ items' = Streamed(IF e.id = None THEN clientKey(items) ELSE <<"message", e.id>>)
          /\ reconcile(active) /\ UNCHANGED active
       \/ e.type = "conversation_updated" /\ reconcile(active) /\ UNCHANGED viewVars
       \/ e.type = "error" /\ thinking' = FALSE /\ streaming' = None
          /\ items' = push(Streamed(clientKey(items)), "error", None, 0)
          /\ UNCHANGED <<active, request, fetches>>
    /\ UNCHANGED <<coreVars, uplink, up, left>>

-----------------------------------------------------------------------------
(* Core.  The answer to message n is message n + 10 in this run's numbering.     *)

Tell(events) == wire' = wire \o events
Row(c, m)    == stored' = [stored EXCEPT ![c] = Append(@, m)]
Answered(t)  == Row(t.conv, Message("assistant", t.n, FALSE, t.n))

receive_message ==
    /\ uplink # <<>> /\ Head(uplink).type = "message" /\ uplink' = Tail(uplink)
    /\ LET f == Head(uplink) IN
       \/ turn # None /\ Tell(<<[type |-> "error"]>>) /\ UNCHANGED coreVars
       \/ /\ turn = None
          /\ \E c \in IF f.conv # None THEN {f.conv} ELSE Conversations \ known :
              /\ known' = known \cup {c} /\ Row(c, f.message)
              /\ turn' = [conv |-> c, n |-> f.message.n + 10, said |-> FALSE]
              /\ Tell((IF f.conv = None THEN <<[type |-> "conversation", conv |-> c]>> ELSE <<>>)
                      \o <<[type |-> "thinking"]>>)
          /\ UNCHANGED orphan
    /\ UNCHANGED <<up, viewVars, request, fetches, left>>

\* Stop keeps what was said.
receive_stop ==
    /\ uplink # <<>> /\ Head(uplink).type = "stop" /\ uplink' = Tail(uplink)
    /\ turn' = None
    /\ IF turn # None /\ turn.said
       THEN Answered(turn) /\ Tell(<<[type |-> "cancelled", id |-> turn.n]>>)
       ELSE UNCHANGED stored /\ Tell(<<[type |-> "cancelled", id |-> None]>>)
    /\ UNCHANGED <<known, orphan, up, viewVars, request, fetches, left>>

Say ==
    /\ turn # None /\ ~turn.said
    /\ turn' = [turn EXCEPT !.said = TRUE]
    /\ Tell(<<[type |-> "token", text |-> turn.n]>>)
    /\ UNCHANGED <<stored, known, orphan, uplink, up, viewVars, request, fetches, left>>

Finish ==
    /\ turn # None /\ turn.said
    /\ Answered(turn) /\ turn' = None
    /\ Tell(<<[type |-> "done", id |-> turn.n]>>)
    /\ UNCHANGED <<known, orphan, uplink, up, viewVars, request, fetches, left>>

Raise ==
    /\ turn # None /\ Does("fails")
    /\ turn' = None /\ Tell(<<[type |-> "error"]>>)
    /\ UNCHANGED <<stored, known, orphan, uplink, up, viewVars, request, fetches>>

\* Core finds the old socket closed and cancels its task; what was said is kept.  Until
\* then the task went on, and it may have said what nobody heard.
EndOrphan ==
    /\ orphan # None /\ orphan' = None
    /\ Answered(orphan) \/ (~orphan.said /\ UNCHANGED stored)
    /\ UNCHANGED <<known, turn, uplink, wire, up, viewVars, request, fetches, left>>

\* Background work adds a message and tells the sockets of its user.
publish(c) ==
    /\ c \in known /\ Does("news")
    /\ Row(c, Message("assistant", 20 + left.news, FALSE, 20 + left.news))
    /\ IF up THEN Tell(<<[type |-> "conversation_updated"]>>) ELSE UNCHANGED wire
    /\ UNCHANGED <<known, turn, orphan, uplink, up, viewVars, request, fetches>>

Next ==
    \/ \E f \in fetches : Answer(f) \/ loadMessages(f) \/ restoreLatest(f)
                          \/ createConversation(f) \/ FetchFails(f)
    \/ \E c \in Conversations : openConversation(c) \/ publish(c)
    \/ newConversation \/ connect \/ onclose \/ handleEvent
    \/ \E t \in Texts, files \in BOOLEAN : sendMessage(t, files)
    \/ stopResponse \/ receive_message \/ receive_stop
    \/ Say \/ Finish \/ Raise \/ EndOrphan

-----------------------------------------------------------------------------
Spoken == {i \in items : i.kind \in {"user", "assistant"}}
Quiet  == /\ up /\ uplink = <<>> /\ wire = <<>> /\ fetches = {} /\ turn = None /\ orphan = None
          /\ \A i \in items : i.kind # "error"

\* "Semantic matching removes optimistic user/artifact duplicates"
\* (conversationTimeline.js:448-450): when nothing is under way and nothing failed, a
\* message without files is not shown twice, as sent and as stored.
NothingTwice ==
    Quiet => \A i, j \in Spoken : i # j /\ i.kind = j.kind /\ i.n = j.n => i.text # j.text

\* When nothing is under way and nothing failed, every message that Core keeps in the
\* active conversation, and whose words the user has not sent twice, is shown.
Rows == UNION {ToSet(stored[c]) : c \in Conversations}
NothingMissing ==
    Quiet /\ active # None => \A m \in ToSet(stored[active]) :
        (\A o \in Rows : (o.role = m.role /\ o.text = m.text) => o.n = m.n) => \E i \in Spoken : i.n = m.n

\* "The stored history of the requested conversation is the whole truth about it"
\* (useConversationContinuity.js:170-176): nothing that was said elsewhere is shown.
ShownIsActive ==
    \A i \in Spoken, c \in Conversations \ {active} :
        \A k \in DOMAIN stored[c] : stored[c][k].n # i.n

\* A message with files is shown once, too.
FilesOnce == Quiet => \A i, j \in Spoken : i # j /\ i.kind = j.kind => i.n # j.n
=============================================================================
