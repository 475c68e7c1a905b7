-------------------------- MODULE ConversationMemory --------------------------
(***************************************************************************)
(* What a conversation remembers between turns: the website previews in its  *)
(* messages (core/services/website.py, Store.add_website_revision_message),  *)
(* and the subject it is about (core/services/conversation_subjects.py,      *)
(* conversation_working_context.py).                                         *)
(*                                                                         *)
(* A turn reads something -- the latest preview, a repair order -- awaits a  *)
(* model or a service, and writes what it made of it.  Several turns of one  *)
(* conversation run at once in different windows.  A page stands for its     *)
(* SHA-256 digest, and a site for the digest of its first page.              *)
(***************************************************************************)
EXTENDS Naturals, Sequences

CONSTANTS
    Turns,        \* turns that run at once
    Pages,        \* contents of a website preview
    MaxPreviews,  \* bound: messages with a preview (the code looks at 500 messages)
    Orders,       \* repair orders at Calibration IQ
    MaxVersion,   \* bound: changes to a repair order by others
    None

VARIABLES
    previews,   \* the successful previews of the conversation, oldest first
    edit,       \* the website result each turn is about to store
    version,    \* the version of each repair order at Calibration IQ
    result,     \* the tool result each turn is about to digest
    subject     \* the conversation_subjects row

vars == <<previews, edit, version, result, subject>>

Init ==
    /\ previews = <<>>
    /\ edit = [t \in Turns |-> None]
    /\ version = [o \in Orders |-> 1]
    /\ result = [t \in Turns |-> None]
    /\ subject = None

-----------------------------------------------------------------------------
(* Website previews. *)

\* A first page names its own site.
website_preview_generate(t, page) ==
    /\ edit[t] = None
    /\ edit' = [edit EXCEPT ![t] = [site |-> page, page |-> page, parent |-> None]]
    /\ UNCHANGED <<previews, version, result, subject>>

_latest_website_preview == previews[Len(previews)]

\* The edit is made from the latest preview, whatever its site, and takes as long as
\* the model takes; a failed edit stores no preview.  An edit that changes nothing
\* is stored as well.
_revision_result(t, page) ==
    /\ edit[t] = None /\ previews # <<>>
    /\ edit' = [edit EXCEPT ![t] = [site |-> _latest_website_preview.site, page |-> page,
                                    parent |-> _latest_website_preview.page]]
    /\ UNCHANGED <<previews, version, result, subject>>

Head_(site, n) ==
    LET of == {i \in 1 .. n : previews[i].site = site}
    IN  IF of = {} THEN None ELSE previews[CHOOSE i \in of : \A j \in of : j <= i].page

\* Mutant: the head of the site is not read again.
AppendUnchecked(t) ==
    /\ edit[t] # None /\ edit[t].parent # None
    /\ previews' = Append(previews, edit[t])
    /\ edit' = [edit EXCEPT ![t] = None]
    /\ UNCHANGED <<version, result, subject>>

\* One transaction: the parent must still be the head of its site; otherwise the
\* message says so and carries no successful preview.
add_website_revision_message(t) ==
    /\ edit[t] # None /\ edit[t].parent # None
    /\ previews' = IF Head_(edit[t].site, Len(previews)) = edit[t].parent
                   THEN Append(previews, edit[t]) ELSE previews
    /\ edit' = [edit EXCEPT ![t] = None]
    /\ UNCHANGED <<version, result, subject>>

add_message(t) ==
    /\ edit[t] # None /\ edit[t].parent = None
    /\ previews' = Append(previews, edit[t])
    /\ edit' = [edit EXCEPT ![t] = None]
    /\ UNCHANGED <<version, result, subject>>

_persist_website_turn(t) ==
    /\ Len(previews) < MaxPreviews
    /\ add_website_revision_message(t) \/ add_message(t)

-----------------------------------------------------------------------------
(* The subject.  "ciq" is a verified read or a single verified operator result,  *)
(* "map" and "prep" name a repair order without its version, "list" is a weekly  *)
(* or work list, "research" a delegated research, "evidence" documents or        *)
(* knowledge that match the vehicle of one repair order.                         *)

Carried == {"weekly", "technical_research"}   \* CARRIED_SECTIONS

SectionsOf(tool) ==
    CASE tool = "ciq"      -> {"calibrations"}
      [] tool = "prep"     -> {"calibrations", "weekly"}
      [] tool = "list"     -> {"weekly"}
      [] tool = "research" -> {"technical_research"}
      [] tool \in {"map", "evidence"} -> {"evidence"}

\* A tool answers; version 0 is a result that carries none.
Answer(t, tool, o) ==
    /\ result[t] = None
    /\ result' = [result EXCEPT ![t] =
                    [tool |-> tool,
                     order |-> IF tool \in {"list", "research"} THEN None ELSE o,
                     version |-> IF tool = "ciq" THEN version[o] ELSE 0]]
    /\ UNCHANGED <<previews, edit, version, subject>>

\* Someone works on the repair order.
OthersChange(o) ==
    /\ version[o] < MaxVersion
    /\ version' = [version EXCEPT ![o] = @ + 1]
    /\ UNCHANGED <<previews, edit, result, subject>>

\* "from" tags each section with the repair order it was read from.
subject_from_tool_result(r) ==
    [order |-> r.order, version |-> r.version,
     sections |-> [k \in SectionsOf(r.tool) |-> IF k \in Carried THEN None ELSE r.order]]

_merge_context(base, update) ==
    [k \in DOMAIN base \cup DOMAIN update |->
        IF k \in DOMAIN update THEN update[k] ELSE base[k]]

_same_ro(left, right) == left.order # None /\ left.order = right.order

_enrichment(r) ==
    [subject EXCEPT !.sections = _merge_context(@, subject_from_tool_result(r).sections)]

\* Mutant: the last answer wins, whatever its version.
MergeLatest(current, incoming, tool) ==
    IF tool # "list" /\ _same_ro(current, incoming)
    THEN [incoming EXCEPT !.sections = _merge_context(current.sections, @)]
    ELSE incoming

_merge_subject(current, incoming, tool) ==
    CASE tool = "list" /\ current.order # None ->
            [current EXCEPT !.sections = _merge_context(@, incoming.sections)]
      [] tool = "list" /\ current.order = None ->
            [incoming EXCEPT !.sections = _merge_context(current.sections, @)]
      [] tool # "list" /\ _same_ro(current, incoming) ->
            IF tool = "ciq" /\ current.version > incoming.version
            THEN current
            ELSE [current EXCEPT
                    !.version = IF incoming.version = 0 THEN @ ELSE incoming.version,
                    !.sections = _merge_context(@, incoming.sections)]
      [] OTHER ->
            [incoming EXCEPT
                !.sections = _merge_context(
                    [k \in DOMAIN current.sections \cap Carried |-> current.sections[k]], @)]

\* The row is replaced.  Reading it, merging and writing share one step of the event
\* loop, so the version it expects is the one it read; finalize keeps the subject below
\* the size that is refused here.
set_conversation_subject(row) == subject' = row

persist_update(t) ==
    LET r == result[t] IN
    /\ r # None
    /\ set_conversation_subject(
        CASE r.tool \in {"evidence", "research"} /\ subject # None ->
                IF r.tool = "research" \/ _same_ro(subject, r)
                THEN _enrichment(r) ELSE subject
          [] r.tool = "evidence" /\ subject = None -> None
          [] subject = None /\ r.tool # "evidence" -> subject_from_tool_result(r)
          [] OTHER -> _merge_subject(subject, subject_from_tool_result(r), r.tool))
    /\ result' = [result EXCEPT ![t] = None]
    /\ UNCHANGED <<previews, edit, version>>

Website(t) ==
    \/ \E page \in Pages : website_preview_generate(t, page) \/ _revision_result(t, page)
    \/ _persist_website_turn(t)

Subject(t) ==
    \/ \E tool \in {"ciq", "map", "prep", "list", "research", "evidence"}, o \in Orders :
          Answer(t, tool, o)
    \/ persist_update(t)

Next ==
    \/ \E t \in Turns : Website(t) \/ Subject(t)
    \/ \E o \in Orders : OthersChange(o)

Spec == Init /\ [][Next]_vars

-----------------------------------------------------------------------------
Sections == {"calibrations", "evidence"} \cup Carried

TypeOK ==
    /\ previews \in Seq([site : Pages, page : Pages, parent : Pages \cup {None}])
    /\ Len(previews) <= MaxPreviews
    /\ version \in [Orders -> 1 .. MaxVersion]
    /\ subject # None =>
        /\ subject.order \in Orders \cup {None}
        /\ subject.version \in 0 .. MaxVersion
        /\ DOMAIN subject.sections \subseteq Sections

(* Every revision was made from the page that was the head of its site when it
   was stored: two turns that edit the same preview do not both succeed
   (db.py:784-884, loop.py:1861-1929). *)
Lineage ==
    \A i \in 1 .. Len(previews) :
        previews[i].parent # None => Head_(previews[i].site, i - 1) = previews[i].parent

(* What the subject holds of a repair order was read from that repair order,
   not from the one that was active before (conversation_working_context.py
   1253-1318). *)
OwnEvidence ==
    subject # None =>
        \A k \in DOMAIN subject.sections :
            k \notin Carried => subject.sections[k] = subject.order

(* A late answer never sets the active repair order back to an older version,
   and weekly and research context, once there, survive every change of the
   subject (conversation_working_context.py:1253-1318, 1321-1383). *)
SubjectAdvances ==
    [][subject # None =>
        /\ subject' # None
        /\ _same_ro(subject, subject') => subject'.version >= subject.version
        /\ DOMAIN subject.sections \cap Carried \subseteq DOMAIN subject'.sections]_vars
=============================================================================
