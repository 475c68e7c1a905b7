------------------------------- MODULE Prompt -------------------------------
(***************************************************************************)
(* What is put before the model (core/orchestrator/prompt.py; loop.py:        *)
(* 1356-1431, 1719-1799, 2191-2222, 2534).  A turn starts with the system      *)
(* prompt, the clock, what the conversation is about, cards of earlier turns   *)
(* and the newest messages, packed under a budget of estimated tokens.         *)
(* Results of calls are cut to size when they arrive, and again, with another   *)
(* estimate, before every request.                                          *)
(*                                                                         *)
(* A text is its number of characters; what rendering leaves out of it is a    *)
(* shorter length.                                                          *)
(***************************************************************************)
EXTENDS Integers, SequencesExt

CONSTANTS
    Turns,     \* the turns to look at: the window (context_tokens less the reserve for the
               \* answer), system prompt, subject, research, history, catalogs
    Results,   \* results a call may return
    MaxRequests, MaxCalls,            \* bounds
    Overhead,                       \* PER_MESSAGE_OVERHEAD_TOKENS
    SubjectMax, ResearchMax, CardsMax, CardMax, MaxCards, ResultMax,   \* in characters
    ShrinkSteps,                    \* _GUARD_SHRINK_STEPS
    Heading, Envelope,   \* around a section; around the list of cards
    Notice, Wrapper, Room,          \* of a system prompt, and of a result, that was cut
    None

VARIABLES given, msgs, catalog, requests, fitted, limit, at

vars == <<given, msgs, catalog, requests, fitted, limit, at>>

estimate_tokens(chars) == (2 * chars) \div 7 + 1
estimate_tool_catalog_tokens(chars) == IF chars = 0 THEN 0 ELSE estimate_tokens(chars)
\* int(tokens * CHARS_PER_TOKEN)
Chars(tokens) == IF tokens <= 0 THEN 0 ELSE (7 * tokens) \div 2
AtMost(x, y) == IF x < y THEN x ELSE y
AtLeast(x, y) == IF x > y THEN x ELSE y
LargestOr(default, S) == IF S = {} THEN default ELSE Max(S)
Total(s) == FoldSeq(+, 0, s)

-----------------------------------------------------------------------------
(* The system prompt; paragraphs are joined by two characters. *)

Joined(paragraphs) == Total(paragraphs) + 2 * (Len(paragraphs) - 1)

\* The paragraphs that are whole, or as much as there is room for.
WholeParagraphs(paragraphs, body_limit) ==
    LargestOr(body_limit, {n \in {Joined(SubSeq(paragraphs, 1, k)) : k \in 1..(Len(paragraphs) - 1)} :
                              n + 2 <= body_limit + 1})

FitTo(paragraphs, size, budget, max_chars) ==
    IF estimate_tokens(size) <= budget THEN size
    ELSE IF max_chars <= Notice THEN max_chars
    ELSE Notice + WholeParagraphs(paragraphs, max_chars - Notice)

_fit_system_prompt_to_budget(paragraphs, budget) ==
    FitTo(paragraphs, Joined(paragraphs), budget, AtLeast(1, Chars(budget) - 1))

-----------------------------------------------------------------------------
(* Sections: the length that is rendered, 0 for none. *)

Titled(section) == IF section = 0 THEN 0 ELSE Heading + section

\* Whole, or only its identity.
_active_subject_context(subject, max_chars) ==
    IF subject.whole = 0 \/ max_chars <= Heading THEN 0
    ELSE Titled(LargestOr(0, {n \in {subject.whole, subject.identity} : n <= max_chars - Heading}))

\* Its parts go one by one, the last ones first.
_technical_research_context(research, max_chars) ==
    IF research.core = 0 \/ max_chars <= Heading THEN 0
    ELSE Titled(LargestOr(0,
             {n \in {research.core + Total(SubSeq(research.parts, 1, k)) : k \in 0..Len(research.parts)} :
                 n <= max_chars - Heading}))

\* A card that is too long is previewed; receipts and the like are left out.
_artifact_summary(card) == IF card.whole <= CardMax THEN card.whole ELSE card.preview

Cards(history) ==
    FlattenSeq([i \in 1..Len(history) |->
        SelectSeq(Reverse(history[Len(history) + 1 - i].cards), LAMBDA c : ~c.excluded)])

Encoded(cards, n) == Envelope + Total([i \in 1..n |-> _artifact_summary(cards[i])]) + n

\* How many of the newest cards fit.
Fitting(cards, max_chars) ==
    LargestOr(0, {n \in 1..AtMost(MaxCards, Len(cards)) : Encoded(cards, n) <= max_chars})

Packed(cards, n, told) ==
    IF n = 0 THEN [chars |-> 0, shown |-> 0, told |-> FALSE]
    ELSE [chars |-> Encoded(cards, n), shown |-> n, told |-> told]

\* Mutant: only the number of cards makes an omission.
StoredSilently(cards, n) == Packed(cards, n, Len(cards) > MaxCards)

\* The cards that fit, and whether there are others.
_stored_artifact_json(cards, n) == Packed(cards, n, n < Len(cards))

TitledCards(packed) == IF packed.shown = 0 THEN packed ELSE [packed EXCEPT !.chars = @ + Heading]

CardsWithin(cards, max_chars) ==
    TitledCards(_stored_artifact_json(cards, Fitting(cards, max_chars - Heading)))

_stored_artifact_context(history, max_chars) == CardsWithin(Cards(history), max_chars)

-----------------------------------------------------------------------------
(* The messages a turn starts with. *)

Cost(chars) == estimate_tokens(chars + 2)

\* What a section takes of the budget, in the order of sections.
After(section, left) == IF section = 0 THEN left ELSE left - Cost(section)
UpTo(max, left) == AtMost(max, Chars(left - 1))

WithCards(turn, subject, research, left) ==
    [subject |-> subject, research |-> research,
     cards |-> _stored_artifact_context(turn.history, AtMost(CardsMax, (7 * left) \div 10))]

WithResearch(turn, subject, research, left) == WithCards(turn, subject, research, After(research, left))

\* Mutant: research is a part of the subject.
ResearchShared(turn, subject, left) ==
    WithResearch(turn, subject,
                 _technical_research_context(turn.research, UpTo(SubjectMax - subject, left)), left)

ResearchNext(turn, subject, left) ==
    WithResearch(turn, subject,
                 _technical_research_context(turn.research, UpTo(ResearchMax, left)), left)

WithSubject(turn, subject, available) == ResearchNext(turn, subject, After(subject, available))

Sections(turn, available) ==
    WithSubject(turn, _active_subject_context(turn.subject, UpTo(SubjectMax, available)), available)

Rendered(section) == IF section = 0 THEN 0 ELSE section + 2

\* Messages from the newest on, until one does not fit.
Kept(history, budget) ==
    Max({n \in 0..Len(history) :
            Total([i \in 1..n |-> estimate_tokens(history[Len(history) + 1 - i].chars) + Overhead])
                <= AtLeast(budget, 0)})

\* Mutant: the catalog that is advertised first is.
BudgetAdvertised(turn) == turn.window - turn.extra - estimate_tool_catalog_tokens(turn.tools)

\* The catalog that is budgeted is the largest the turn may unlock.
Budget(turn) == turn.window - turn.extra - estimate_tool_catalog_tokens(turn.reserve)

\* Mutant: the two messages that are always there have no frame.
NoFraming == 0

Framing == 2 * Overhead

Available(turn) ==
    Budget(turn) - estimate_tokens(_fit_system_prompt_to_budget(turn.system, Budget(turn)))
        - estimate_tokens(turn.clock) - Framing

Text(role, chars) ==
    [role |-> role, chars |-> chars, calls |-> 0, form |-> "text", base |-> 0, lists |-> <<>>,
     omitted |-> <<>>, of |-> <<>>]

\* The newest message stays last.
place_turn_context(system, older, context) ==
    IF older # <<>> /\ Last(older).role = "user"
    THEN <<system>> \o Front(older) \o <<context, Last(older)>>
    ELSE <<system>> \o older \o <<context>>

Context(turn, parts) ==
    turn.clock + Rendered(parts.subject) + Rendered(parts.research) + Rendered(parts.cards.chars)

Newest(history, n) ==
    [i \in 1..n |-> LET m == history[Len(history) - n + i] IN Text(m.role, m.chars)]

Placed(turn, system, context) ==
    place_turn_context(
        Text("system", system),
        Newest(turn.history, Kept(turn.history, Budget(turn) - estimate_tokens(system)
                                                - estimate_tokens(context) - Framing)),
        Text("system", context))

build_messages(turn) ==
    Placed(turn, _fit_system_prompt_to_budget(turn.system, Budget(turn)),
           Context(turn, Sections(turn, AtLeast(0, Available(turn)))))

-----------------------------------------------------------------------------
(* Results of calls. *)

Items(r) == Total([i \in DOMAIN r.lists |-> r.lists[i] * r.of[i]])
Marks(r) == Cardinality({i \in DOMAIN r.lists : r.omitted[i] > 0})
Length(r) == IF r.form = "json" THEN r.base + Items(r) + Marks(r) ELSE r.chars

\* Mutant: the count is of this cut only.
ShorterForgetful(r) ==
    LET key == CHOOSE i \in DOMAIN r.lists : \A j \in DOMAIN r.lists :
                   \/ r.lists[i] * r.of[i] > r.lists[j] * r.of[j]
                   \/ r.lists[i] * r.of[i] = r.lists[j] * r.of[j] /\ i <= j
        removed == AtLeast(1, r.lists[key] \div 4)
    IN [r EXCEPT !.lists[key] = @ - removed, !.omitted[key] = removed]

Shorter(r) ==
    LET key == CHOOSE i \in DOMAIN r.lists : \A j \in DOMAIN r.lists :
                   \/ r.lists[i] * r.of[i] > r.lists[j] * r.of[j]
                   \/ r.lists[i] * r.of[i] = r.lists[j] * r.of[j] /\ i <= j
        removed == AtLeast(1, r.lists[key] \div 4)
    IN [r EXCEPT !.lists[key] = @ - removed, !.omitted[key] = @ + removed]

\* The largest list loses a quarter, until the rest fits.  When that empties the last list
\* the text that was too long is cut, though the rest may fit by now; a list that was empty
\* before prevents it.
RECURSIVE Trimmed(_, _, _)
Trimmed(r, max_chars, spare) ==
    IF Length(r) <= max_chars THEN [r EXCEPT !.chars = Length(r)]
    ELSE IF r.form # "json" \/ Items(r) = 0 \/ (~spare /\ Items(Shorter(r)) = 0)
    THEN [r EXCEPT !.form = "cut", !.chars = max_chars]
    ELSE Trimmed(Shorter(r), max_chars, spare)

_bounded_tool_result_json(r, max_chars) ==
    Trimmed(r, max_chars, \E i \in DOMAIN r.lists : r.lists[i] = 0)

\* A preview in an object of its own; what must be escaped in it makes it longer.
Preview(r, chars) ==
    LET shown == AtMost(r.chars, AtLeast(0, chars - Room))
    IN [r EXCEPT !.form = "preview", !.chars = Wrapper + shown + (shown * given.escapes) \div 2]

WholeOrPreview(bounded, cap) == IF bounded.form = "json" THEN bounded ELSE Preview(bounded, cap)

_shrink_tool_content(r, cap) ==
    IF r.form = "cut" THEN Preview(r, cap)
    ELSE WholeOrPreview(_bounded_tool_result_json(r, cap), cap)

-----------------------------------------------------------------------------
(* The guard in front of every request. *)

_guard_message_tokens(m) ==
    (IF m.role = "tool" THEN (10 * m.chars) \div 29 ELSE (2 * m.chars) \div 7) + 8
    + (10 * m.calls) \div 29

Guarded(ms) == Total([i \in 1..Len(ms) |-> _guard_message_tokens(ms[i])])

\* The results that are too long for a step, the longest first.
Longest(ms, cap) ==
    SetToSortSeq({i \in 1..Len(ms) : ms[i].role = "tool"},
                 LAMBDA i, j : ms[i].chars > ms[j].chars \/ (ms[i].chars = ms[j].chars /\ i < j))

Shrunk(ms, i, cap) == [ms EXCEPT ![i] = _shrink_tool_content(ms[i], cap)]

Summed(ms) == [ms |-> ms, total |-> Guarded(ms)]

\* Mutant: what is left of a message is not counted.
ShrinkUncounted(ms, cap, budget) ==
    FoldLeft(LAMBDA acc, i : IF acc.total <= budget \/ ms[i].chars <= cap THEN acc
                            ELSE [ms |-> Shrunk(acc.ms, i, cap),
                                  total |-> acc.total - _guard_message_tokens(ms[i])],
            Summed(ms), Longest(ms, cap))

ShrinkStep(ms, cap, budget) ==
    FoldLeft(LAMBDA acc, i : IF acc.total <= budget \/ ms[i].chars <= cap THEN acc
                            ELSE Summed(Shrunk(acc.ms, i, cap)),
            Summed(ms), Longest(ms, cap))

fit_messages_to_window(ms, budget) ==
    FoldLeft(LAMBDA acc, cap : IF acc.total <= budget THEN acc
                              ELSE ShrinkStep(acc.ms, cap, budget),
            Summed(ms), ShrinkSteps)

-----------------------------------------------------------------------------
Init ==
    /\ given \in Turns /\ msgs = <<>> /\ catalog = given.tools /\ requests = 0
    /\ fitted = None /\ limit = 0 /\ at = "new"

Build ==
    /\ at = "new" /\ Budget(given) >= 1
    /\ msgs' = build_messages(given) /\ at' = "ask"
    /\ UNCHANGED <<given, catalog, requests, fitted, limit>>

\* The request is fitted in place: what was cut stays so.
Send ==
    /\ at = "ask" /\ requests < MaxRequests
    /\ limit' = given.window - 64 - estimate_tool_catalog_tokens(catalog)
    /\ \E fit \in {fit_messages_to_window(msgs, limit')} : fitted' = fit.total /\ msgs' = fit.ms
    /\ requests' = requests + 1 /\ at' = "answered"
    /\ UNCHANGED <<given, catalog>>

\* Calls and their results; a search for a capability adds tools to the catalog.
Answer(results, unlocks) ==
    /\ at = "answered" /\ requests < MaxRequests
    /\ msgs' = msgs \o <<[Text("assistant", 0) EXCEPT !.calls = 3 * Len(results)]>>
                    \o [i \in 1..Len(results) |-> _bounded_tool_result_json(results[i], ResultMax)]
    /\ catalog' = IF unlocks THEN given.reserve ELSE catalog
    /\ at' = "ask" /\ fitted' = None /\ UNCHANGED <<given, requests, limit>>

\* A review has no tools, and a larger reserve.
Review ==
    /\ at = "answered" /\ at' = "reviewed" /\ limit' = given.window - given.review
    /\ \E fit \in {fit_messages_to_window(msgs, limit')} : fitted' = fit.total /\ msgs' = fit.ms
    /\ UNCHANGED <<given, catalog, requests>>

Next ==
    \/ Build \/ Send \/ Review
    \/ /\ at = "answered"
       /\ \E n \in 1..MaxCalls, unlocks \in BOOLEAN :
              \E results \in [1..n -> Results] : Answer(results, unlocks)

Spec == Init /\ [][Next]_vars

-----------------------------------------------------------------------------
Built == at # "new"
Starts == IF Built THEN SelectSeq(msgs, LAMBDA m : m.role # "tool" /\ m.calls = 0) ELSE <<>>

(* What the turn started with leaves room for the answer beside every catalog it may
   unlock, whatever was packed (prompt.py:774-888; loop.py:2188-2191). *)
StartFits ==
    Built /\ Available(given) >= 0 =>
        Guarded(Starts) + estimate_tool_catalog_tokens(catalog) <= given.window

(* A request that was fitted does fit, unless every result has come to the last of the
   steps (loop.py:1750-1799). *)
FitsOrNothingLeft ==
    fitted # None =>
        \/ Guarded(msgs) <= limit
        \/ \A i \in 1..Len(msgs) : msgs[i].role = "tool" =>
               msgs[i].form = "preview" \/ msgs[i].chars <= Last(ShrinkSteps)

(* Of a result that is still whole in form, what was left out is told, over all the times
   it was cut (loop.py:1356-1398, 1735-1747). *)
OmissionsCounted ==
    \A i \in 1..Len(msgs) : msgs[i].form = "json" =>
        \E r \in Results : /\ r.base = msgs[i].base
                           /\ \A k \in DOMAIN r.lists :
                                  msgs[i].lists[k] + msgs[i].omitted[k] = r.lists[k]

(* Cards that are not shown are told of, when any is (prompt.py:361-411). *)
CardsTold ==
    \A parts \in {Sections(given, AtLeast(0, Available(given)))} :
        parts.cards.shown > 0 /\ ~parts.cards.told =>
            parts.cards.shown = Len(Cards(given.history))

(* A large subject does not crowd out the research that was done (prompt.py:135-138). *)
ResearchStays ==
    /\ given.research.core > 0 /\ given.research.core + Heading <= ResearchMax
    /\ Available(given) >= Cost(SubjectMax) + Cost(ResearchMax) + 2
    => Sections(given, AtLeast(0, Available(given))).research > 0

(* As prompt.py:786 says it: the newest message is there. *)
NewestIsAsked ==
    Built /\ Available(given) >= estimate_tokens(Last(given.history).chars) + Overhead =>
        \E i \in 1..Len(msgs) : msgs[i].role = "user" /\ msgs[i].chars = Last(given.history).chars

(* As loop.py:1401 says it: whatever is kept of a result is complete. *)
AlwaysWhole ==
    \A i \in 1..Len(msgs) : msgs[i].role = "tool" /\ msgs[i].base + 1 <= ResultMax =>
        msgs[i].form # "cut"
=============================================================================
