------------------------------ MODULE ChatTurn ------------------------------
(***************************************************************************)
(* One assistant turn: the bounded loop in which the model asks for tools, *)
(* gets their results and finally answers, and what of it the user sees    *)
(* and the conversation keeps.                                             *)
(*                                                                         *)
(* Code: core/orchestrator/loop.py (_run, _execute), the turn's task in    *)
(* core/api/chat.py, and the write binding of core/tools/registry.py.      *)
(*                                                                         *)
(* A turn is cut at its awaits: the model's streams and reviews, the tool  *)
(* handlers, and the delivery of an event to the socket. There it may be   *)
(* stopped, and others may change the repair order. A text is only what    *)
(* it is: a draft of the model, a reviewed text, a fixed sentence of Core. *)
(* There is one repair order, and one call of each kind per argument.      *)
(***************************************************************************)
EXTENDS Integers, SequencesExt

CONSTANTS
    MAX_TOOL_ROUNDS,
    MAX_TOOL_CALLS_PER_ROUND,
    MaxVersion      \* bound: changes of the repair order

ASSUME ChatTurnAssumption ==
    {MAX_TOOL_ROUNDS, MAX_TOOL_CALLS_PER_ROUND, MaxVersion} \subseteq Nat \ {0}

VARIABLES
    ro,         \* version of the repair order at Calibration IQ
    origin,     \* "message", or the approved tool whose result opens the turn
    phase, round,
    batch,      \* calls of this round that are still to run
    deferred,   \* the model asked for more than a round may run
    open,       \* calls in the model's history that have no answer yet
    draft,      \* what the model wrote: "none", "draft", or "cap" (boundary)
    repeated,   \* every call of the round so far was answered from the cache
    repeat_only_round,
    cache,      \* read_only_call_cache: kind -> result (0: none)
    reads,      \* version each exact read of the repair order returned
    usable,     \* call_calibration_iq_evidence
    next,       \* next_calibration_iq_evidence
    searched, post_tool_review_done,   \* ADAS SI was searched; and reviewed
    operator,   \* an operator result exists: this is a mutation turn
    started,    \* background work was started
    truth_emitted, paused, sealed,
    out,        \* texts to deliver
    full_text,
    seen,       \* texts the client may have received
    partial,    \* what the socket's task has collected
    saved,      \* assistant messages of this turn
    outcome,    \* how the turn ended
    own,        \* observed: version after this turn's last write
    shown,      \* observed: version the last read of it showed, 0 after a write
    writes      \* observed: direct writes that were admitted

evidence == <<usable, next, reads, cache>>
result   == <<operator, started, searched>>
text     == <<out, full_text, seen, partial, saved>>
round_   == <<round, repeat_only_round, post_tool_review_done, truth_emitted, draft>>
observed == <<own, shown, writes>>
vars == <<ro, origin, phase, batch, deferred, open, repeated, evidence, result,
          paused, sealed, round_, text, outcome, observed>>

Kinds == {"read",        \* calibration_iq_ro, also as query_ciq
          "search",      \* adas_si_search, adas_si_open
          "write",       \* calibration_iq_operator
          "research",    \* the same, all its actions research_ro
          "destructive", \* calibration_iq_destructive
          "stage",       \* stage_action
          "website",     \* website_preview_generate
          "malformed"}   \* a call that is refused before it runs
Dedupeable == {"read", "search", "research"}

\* A batch as the model authors it, cut to what one round may run.
Batches == UNION {[1..n -> Kinds] : n \in 1..MAX_TOOL_CALLS_PER_ROUND}

Texts     == {"draft", "fixed", "truth", "started"}
NoUnlock  == [read |-> 0, at |-> 0]
NothingCached == [k \in Dedupeable |-> 0]
Ended     == phase = "ended"
Self      == origin = "message"   \* self-check and staging are enabled

Unlocks == [read : 0..Len(reads), at : 0..MAX_TOOL_ROUNDS]

TypeOK ==
    /\ ro \in 1..MaxVersion
    /\ origin \in {"message", "media", "operator", "other"}
    /\ phase \in {"media", "ask", "check", "release", "calls", "send",
                  "finish", "done", "ended"}
    /\ round \in 0..MAX_TOOL_ROUNDS
    /\ batch \in {<<>>} \cup Batches
    /\ open \in 0..MAX_TOOL_CALLS_PER_ROUND + 1
    /\ draft \in {"none", "draft", "cap"}
    /\ reads \in Seq(1..MaxVersion)
    /\ cache["read"] \in 0..Len(reads)
    /\ cache["search"] \in 0..1 /\ cache["research"] \in 0..1
    /\ {usable, next} \subseteq Unlocks
    /\ {deferred, repeated, repeat_only_round, searched, post_tool_review_done,
        operator, started, truth_emitted, paused, sealed} \subseteq BOOLEAN
    /\ {out, full_text, seen, partial} \subseteq Seq(Texts)
    /\ saved \in Seq(Seq(Texts)) /\ Len(saved) <= 2
    /\ outcome \in {"none", "done", "stopped", "error"}

\* The user's message was stored, or an approved tool was run.
Init ==
    /\ ro = 1
    /\ origin \in {"message", "media", "operator", "other"}
    /\ phase = IF origin = "media" THEN "media" ELSE "ask"
    /\ round = 0 /\ batch = <<>> /\ deferred = FALSE /\ open = 0 /\ draft = "none"
    /\ repeated = TRUE /\ repeat_only_round = FALSE
    /\ cache = NothingCached /\ reads = <<>> /\ usable = NoUnlock /\ next = NoUnlock
    /\ searched = FALSE /\ post_tool_review_done = FALSE
    /\ operator = (origin = "operator")
    /\ started = FALSE /\ truth_emitted = FALSE /\ paused = FALSE /\ sealed = FALSE
    /\ out = <<>> /\ full_text = <<>> /\ seen = <<>> /\ partial = <<>> /\ saved = <<>>
    /\ outcome = "none" /\ own = 1 /\ shown = 0 /\ writes = <<>>

-----------------------------------------------------------------------------
(* The model is asked.                                                     *)

synthesis_only == round = MAX_TOOL_ROUNDS \/ repeat_only_round

\* The round's calls join the history and will be run one after the other.
Author(calls, more) ==
    /\ phase' = "calls"
    /\ batch' = calls /\ deferred' = more
    /\ open' = Len(calls) + (IF more THEN 1 ELSE 0)
    /\ repeated' = TRUE
    /\ more => Len(calls) = MAX_TOOL_CALLS_PER_ROUND

\* The model asks for tools; prose beside them is dropped.
AskTools ==
    /\ phase = "ask" /\ ~synthesis_only
    /\ \E calls \in Batches, more \in BOOLEAN : Author(calls, more)
    /\ draft' = "none"
    /\ UNCHANGED <<ro, origin, evidence, result, paused, sealed, round,
                   repeat_only_round, post_tool_review_done, truth_emitted, text,
                   outcome, observed>>

\* One more look at a draft that rests on an ADAS SI search, unless the inventory
\* was read too.
PostToolReview == Self /\ searched /\ ~post_tool_review_done

\* The model answers. In the synthesis round a call or an empty answer is
\* replaced by the boundary sentence.
AskText ==
    /\ phase = "ask"
    /\ draft' \in IF synthesis_only THEN {"draft", "cap"} ELSE {"draft", "none"}
    /\ phase' \in IF Self /\ round = 0 THEN {"check"}
                 ELSE IF PostToolReview THEN {"check", "release"} ELSE {"release"}
    /\ UNCHANGED <<ro, origin, batch, deferred, open, repeated, evidence, result,
                   paused, sealed, round, repeat_only_round, post_tool_review_done,
                   truth_emitted, text, outcome, observed>>

\* Texts are yielded to the socket's task and become part of the answer.
Yield(ts) ==
    /\ out' = ts
    /\ full_text' = full_text \o ts
    /\ phase' = "send"
    /\ UNCHANGED <<seen, partial, saved>>

Checked == post_tool_review_done' = (post_tool_review_done \/ PostToolReview)

\* model_owned_no_tool_self_check: the draft is dropped for tools, ...
CheckTools ==
    /\ phase = "check" /\ Checked
    /\ \E calls \in Batches, more \in BOOLEAN : Author(calls, more)
    /\ draft' = "none"
    /\ UNCHANGED <<ro, origin, evidence, result, paused, sealed, round,
                   repeat_only_round, truth_emitted, text, outcome, observed>>

\* ... accepted (an evidence review may reword it), or rejected.
CheckText ==
    /\ phase = "check" /\ Checked
    /\ \/ draft = "draft" /\ Yield(<<"draft">>)
       \/ Yield(<<"fixed">>)
    /\ UNCHANGED <<ro, origin, batch, deferred, open, repeated, evidence, result,
                   paused, sealed, round, repeat_only_round, truth_emitted, draft,
                   outcome, observed>>

\* The answer of the last round: the truth review of a mutation turn, the review
\* of a turn that started background work, the boundary sentence, or the draft,
\* which a web guard may replace.
Release ==
    /\ phase = "release"
    /\ truth_emitted' = operator
    /\ \/ operator /\ Yield(<<"truth">>)
       \/ ~operator /\ started /\ Yield(<<"started">>)
       \/ ~operator /\ ~started /\ draft \in {"none", "cap"} /\ Yield(<<"fixed">>)
       \/ ~operator /\ ~started /\ draft = "none" /\ Yield(<<>>)
       \/ ~operator /\ ~started /\ draft = "draft"
             /\ (Yield(<<"draft">>) \/ Yield(<<"fixed">>))
    /\ UNCHANGED <<ro, origin, batch, deferred, open, repeated, evidence, result,
                   paused, sealed, round, repeat_only_round, post_tool_review_done,
                   draft, outcome, observed>>

-----------------------------------------------------------------------------
(* Tools run.                                                              *)

Calls(k) == phase = "calls" /\ ~paused /\ batch # <<>> /\ Head(batch) = k

\* The call was answered and is over. A repeat was answered from the cache.
Answered(repeat) ==
    /\ batch' = Tail(batch) /\ open' = open - 1
    /\ repeated' = (repeated /\ repeat)

same == <<origin, phase, deferred, round_, sealed, text, outcome>>

\* calibration_iq_evidence_from_result; an approval continuation mints nothing.
Mint(read) == next' = IF Self THEN [read |-> read, at |-> round] ELSE next

Malformed ==
    /\ Calls("malformed")
    /\ Answered(FALSE)
    /\ UNCHANGED <<same, ro, evidence, result, paused, observed>>

\* An exact read: from the cache, fresh, or failed.
Read ==
    /\ Calls("read")
    /\ \/ /\ cache["read"] # 0
          /\ Answered(TRUE)
          /\ Mint(cache["read"])
          /\ shown' = reads[cache["read"]]
          /\ UNCHANGED <<reads, cache>>
       \/ /\ cache["read"] = 0
          /\ Answered(FALSE)
          /\ reads' = Append(reads, ro)
          /\ cache' = [cache EXCEPT !["read"] = Len(reads')]
          /\ Mint(Len(reads'))
          /\ shown' = ro
       \/ /\ cache["read"] = 0
          /\ Answered(FALSE)
          /\ UNCHANGED <<next, reads, cache, shown>>
    /\ UNCHANGED <<same, ro, usable, result, paused, own, writes>>

Search ==
    /\ Calls("search")
    /\ searched' = TRUE
    /\ \/ cache["search"] = 1 /\ Answered(TRUE) /\ UNCHANGED cache
       \/ cache["search"] = 0 /\ Answered(FALSE) /\ cache' = [cache EXCEPT !["search"] = 1]
       \/ cache["search"] = 0 /\ Answered(FALSE) /\ UNCHANGED cache
    /\ UNCHANGED <<same, ro, usable, next, reads, operator, started, paused, observed>>

\* Every operator call uses the unlock up, whatever comes of it.
Consume == usable' = NoUnlock /\ next' = NoUnlock

\* Calibration IQ's own version check decides; a write makes a new version.
Changes(expected) ==
    \/ expected = ro /\ ro < MaxVersion
       /\ ro' = ro + 1 /\ own' = ro + 1 /\ shown' = 0
    \/ UNCHANGED <<ro, own, shown>>

Admitted == writes' = Append(writes, [read |-> usable.read, at |-> usable.at,
                                      used |-> round])

\* Mutants: the unlock serves the rest of the batch; reads stay cached.
WriteKeepsUnlock ==
    /\ Calls("write")
    /\ next' = NoUnlock /\ operator' = TRUE /\ cache' = NothingCached /\ Answered(FALSE)
    /\ IF usable = NoUnlock THEN UNCHANGED <<ro, own, shown, writes>>
                            ELSE Admitted /\ Changes(reads[usable.read])
    /\ UNCHANGED <<same, usable, reads, started, searched, paused>>

WriteKeepsCache ==
    /\ Calls("write")
    /\ Consume /\ operator' = TRUE /\ Answered(FALSE)
    /\ IF usable = NoUnlock THEN UNCHANGED <<ro, own, shown, writes>>
                            ELSE Admitted /\ Changes(reads[usable.read])
    /\ UNCHANGED <<same, cache, reads, started, searched, paused>>

\* A routine write with the version of an exact read of an earlier round;
\* without one it is blocked. Either way it has an operator result.
Write ==
    /\ Calls("write")
    /\ Consume /\ operator' = TRUE /\ cache' = NothingCached /\ Answered(FALSE)
    /\ IF usable = NoUnlock THEN UNCHANGED <<ro, own, shown, writes>>
                            ELSE Admitted /\ Changes(reads[usable.read])
    /\ UNCHANGED <<same, reads, started, searched, paused>>

\* research_ro needs the unlock too, imports documents into the repair order,
\* and is cached like a read.
Research ==
    /\ Calls("research")
    /\ Consume /\ operator' = TRUE
    /\ \/ cache["research"] = 1 /\ Answered(TRUE) /\ UNCHANGED <<ro, cache>>
       \/ /\ cache["research"] = 0 /\ Answered(FALSE)
          /\ \/ UNCHANGED <<ro, cache>>
             \/ /\ usable # NoUnlock
                /\ cache' = [cache EXCEPT !["research"] = 1]
                /\ ro' \in {ro, ro + 1} /\ ro' <= MaxVersion
    /\ UNCHANGED <<same, reads, started, searched, paused, observed>>

\* A protected write: blocked without an unlock, answered from its receipt if
\* this very action was decided before, else an approval is asked for.
Destructive ==
    /\ Calls("destructive")
    /\ Consume /\ cache' = NothingCached
    /\ \/ /\ usable = NoUnlock
          /\ Answered(FALSE) /\ operator' = TRUE /\ UNCHANGED <<paused, writes>>
       \/ /\ usable # NoUnlock /\ Admitted
          /\ Answered(FALSE) /\ operator' = TRUE /\ UNCHANGED paused
       \/ /\ usable # NoUnlock /\ Admitted
          /\ Answered(FALSE) /\ paused' = TRUE /\ UNCHANGED operator
    /\ UNCHANGED <<same, ro, reads, started, searched, own, shown>>

\* stage_action reads the repair order itself. It fails, returns the contract
\* with the read, writes what was staged, asks for an approval, or starts
\* background work.
Stage ==
    /\ Calls("stage")
    /\ cache' = NothingCached /\ Answered(FALSE)
    /\ \/ UNCHANGED <<ro, next, reads, operator, started, paused, own, shown>>
       \/ /\ reads' = Append(reads, ro) /\ Mint(Len(reads')) /\ shown' = ro
          /\ UNCHANGED <<ro, operator, started, paused, own>>
       \/ /\ Changes(ro) /\ operator' = TRUE
          /\ UNCHANGED <<next, reads, started, paused>>
       \/ paused' = TRUE /\ UNCHANGED <<ro, next, reads, operator, started, own, shown>>
       \/ started' = TRUE /\ UNCHANGED <<ro, next, reads, operator, paused, own, shown>>
    /\ UNCHANGED <<same, usable, searched, writes>>

\* The answer is Core's own sentence, saved before any of it is delivered.
Seal ==
    /\ sealed' = TRUE /\ full_text' = <<"fixed">>
    /\ saved' = Append(saved, <<"fixed">>)
    /\ out' = <<"fixed">> /\ phase' = "send"
    /\ UNCHANGED <<seen, partial>>

\* A website call ends the turn, and what is left of its batch.
Website ==
    /\ Calls("website")
    /\ cache' = NothingCached /\ Answered(FALSE)
    /\ Seal
    /\ UNCHANGED <<ro, origin, deferred, usable, next, reads, result, paused, round_,
                   outcome, observed>>

\* So does the result of an approved image or video.
Media ==
    /\ phase = "media"
    /\ Seal
    /\ UNCHANGED <<ro, origin, batch, deferred, open, repeated, evidence, result,
                   paused, round_, outcome, observed>>

\* Mutants: rounds are counted on after the last one; deferred calls get no answer.
EndRoundEndless ==
    /\ phase = "calls" /\ (paused \/ batch = <<>>)
    /\ open' = IF deferred /\ ~paused THEN open - 1 ELSE open
    /\ repeat_only_round' = (repeated /\ ~deferred /\ ~paused)
    /\ usable' = next
    /\ phase' = IF paused THEN "finish" ELSE "ask"
    /\ round' = IF phase' = "ask" THEN round + 1 ELSE round
    /\ UNCHANGED <<ro, origin, batch, deferred, repeated, draft, cache, reads, next,
                   result, paused, sealed, post_tool_review_done, truth_emitted, text,
                   outcome, observed>>

EndRoundUnanswered ==
    /\ phase = "calls" /\ ~paused /\ batch = <<>>
    /\ repeat_only_round' = (repeated /\ ~deferred)
    /\ usable' = next
    /\ phase' = IF round = MAX_TOOL_ROUNDS THEN "finish" ELSE "ask"
    /\ round' = IF round = MAX_TOOL_ROUNDS THEN round ELSE round + 1
    /\ UNCHANGED <<ro, origin, batch, deferred, open, repeated, draft, cache, reads, next,
                   result, paused, sealed, post_tool_review_done, truth_emitted, text,
                   outcome, observed>>

\* An approval is a hard turn boundary; otherwise the calls that were not run
\* are answered so, what was read becomes usable, and the model is asked again.
EndRound ==
    /\ phase = "calls" /\ (paused \/ batch = <<>>)
    /\ open' = IF deferred /\ ~paused THEN open - 1 ELSE open
    /\ repeat_only_round' = (repeated /\ ~deferred /\ ~paused)
    /\ usable' = next
    /\ phase' = IF paused \/ round = MAX_TOOL_ROUNDS THEN "finish" ELSE "ask"
    /\ round' = IF phase' = "ask" THEN round + 1 ELSE round
    /\ UNCHANGED <<ro, origin, batch, deferred, repeated, draft, cache, reads, next,
                   result, paused, sealed, post_tool_review_done, truth_emitted, text,
                   outcome, observed>>

Tool == Malformed \/ Read \/ Search \/ Write \/ Research \/ Destructive \/ Stage
        \/ Website \/ EndRound

-----------------------------------------------------------------------------
(* The answer.                                                             *)

still == <<ro, origin, batch, deferred, open, repeated, evidence, result, paused,
           sealed, round, repeat_only_round, post_tool_review_done, draft, observed>>

\* Mutant: the task collects a text when its delivery is over.
SendThenCollect ==
    /\ phase = "send" /\ out # <<>>
    /\ seen' = Append(seen, Head(out)) /\ partial' = seen
    /\ out' = Tail(out)
    /\ UNCHANGED <<still, phase, truth_emitted, full_text, saved, outcome>>

\* The socket's task collects a text and delivers it; a Stop may come before the
\* delivery is over.
Send ==
    /\ phase = "send" /\ out # <<>>
    /\ partial' = Append(partial, Head(out))
    /\ seen' = Append(seen, Head(out))
    /\ out' = Tail(out)
    /\ UNCHANGED <<still, phase, truth_emitted, full_text, saved, outcome>>

Sent ==
    /\ phase = "send" /\ out = <<>>
    /\ phase' = IF sealed THEN "done" ELSE "finish"
    /\ UNCHANGED <<still, truth_emitted, text, outcome>>

\* A mutation turn that has no reviewed answer yet gets one.
ReviewLate ==
    /\ phase = "finish" /\ operator /\ ~truth_emitted
    /\ truth_emitted' = TRUE
    /\ Yield(<<"truth">>)
    /\ UNCHANGED <<still, outcome>>

\* Mutant: the answer is stored without the late review.
PersistUnreviewed ==
    /\ phase = "finish"
    /\ saved' = Append(saved, full_text)
    /\ phase' = "done"
    /\ UNCHANGED <<still, truth_emitted, out, full_text, seen, partial, outcome>>

Persist ==
    /\ phase = "finish" /\ (operator => truth_emitted)
    /\ saved' = Append(saved, full_text)
    /\ phase' = "done"
    /\ UNCHANGED <<still, truth_emitted, out, full_text, seen, partial, outcome>>

Done ==
    /\ phase = "done"
    /\ phase' = "ended" /\ outcome' = "done"
    /\ UNCHANGED <<still, truth_emitted, text>>

\* Stop, or the socket is gone: the task saves what it collected, unless it is
\* the continuation of an approval, which it does not collect.
Stop ==
    /\ ~Ended
    /\ phase' = "ended" /\ outcome' = "stopped"
    /\ saved' = IF Self /\ partial # <<>> THEN Append(saved, partial) ELSE saved
    /\ UNCHANGED <<still, truth_emitted, out, full_text, seen, partial>>

\* A model call fails: run_turn reports it and nothing more is said or saved.
ModelFails ==
    /\ \/ phase \in {"ask", "check", "release"}
       \/ phase = "finish" /\ operator /\ ~truth_emitted
    /\ phase' = "ended" /\ outcome' = "error"
    /\ UNCHANGED <<still, truth_emitted, text>>

\* Somebody else changes the repair order.
OthersWrite ==
    /\ ~Ended /\ ro < MaxVersion
    /\ ro' = ro + 1
    /\ UNCHANGED <<same, batch, open, repeated, evidence, result, paused, observed>>

Next ==
    \/ AskTools \/ AskText \/ CheckTools \/ CheckText \/ Release
    \/ Tool \/ Media
    \/ Send \/ Sent \/ ReviewLate \/ Persist \/ Done
    \/ Stop \/ ModelFails
    \/ OthersWrite

Spec == Init /\ [][Next]_vars

-----------------------------------------------------------------------------
(* Properties.                                                             *)

\* What the user saw of a turn is what the conversation keeps: the one message
\* of a turn that is done, and, when a turn is stopped, everything delivered
\* (an approval's continuation, which says "partial_saved": False, excepted).
SeenIsSaved ==
    /\ outcome = "done" => saved = <<seen>>
    /\ outcome = "stopped" /\ Self =>
         seen = <<>> \/ \E m \in DOMAIN saved : IsPrefix(seen, saved[m])

\* A turn that attempted a Calibration IQ mutation is not done before exactly
\* one text reviewed against its receipts was delivered, however it ended:
\* answered, paused for an approval, or out of rounds (website turns end early).
MutationReviewed ==
    outcome = "done" /\ operator /\ ~sealed =>
        Cardinality({i \in DOMAIN seen : seen[i] = "truth"}) = 1

\* "every write target is bound to prior-round exact detail": an admitted direct
\* write has an exact read of an earlier round, and no read admits two.
OneReadOneWrite ==
    /\ \A i \in DOMAIN writes : writes[i].at < writes[i].used
    /\ \A i, j \in DOMAIN writes : writes[i].read = writes[j].read => i = j

\* A read of the repair order after the turn's own write shows that write,
\* never the cached state before it.
FreshReads == shown # 0 => shown >= own

\* When the model is asked again, every call it made was answered, those a round
\* would not run included, and no approval waits for the user.
ModelSeesAnswers == phase = "ask" => open = 0 /\ ~paused

\* The transcript is true to both readers: SeenIsSaved for the user and
\* ModelSeesAnswers for the model (loop.py:2866-2868, 3062-3123, chat.py:182-203).
TranscriptTruth == TypeOK /\ SeenIsSaved /\ ModelSeesAnswers

\* "no seventh tool request can reach the gateway": after the last tool round
\* the model only answers.
NoSeventhRound == phase = "calls" => round < MAX_TOOL_ROUNDS

\* "the model's candidate is withheld until the bounded truth review validates
\* it": in a mutation turn no draft is delivered.
CandidateWithheld == operator => "draft" \notin ToSet(seen)
=============================================================================
