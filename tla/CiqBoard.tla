------------------------------- MODULE CiqBoard -------------------------------
(***************************************************************************)
(* Reading the board of Calibration IQ page by page while others change it    *)
(* (core/services/calibration_iq.py): the list and its counts (_collect,      *)
(* query_repair_orders), the one repair order a write is meant for            *)
(* (_resolve_operator_repair_order), and the one a question is about          *)
(* (get_repair_order).  A row is the internal id of a repair order.           *)
(***************************************************************************)
EXTENDS Naturals, Sequences, FiniteSets

CONSTANTS
    Rows,               \* internal ids
    Number,             \* [Rows -> business numbers], "" where a row names none
    Wanted,             \* the number that is asked for
    Digits, Ending,     \* five digits that are asked for with a shop, and the rows of
                        \* that shop whose number ends with them
    InPhase,            \* the rows in the phase that is asked for
    PAGE_SIZE, MAX_COLLECT, MAX_PAGE_REQUESTS,
    Limit,              \* rows a search by number returns at most
    MaxChanges          \* bound

VARIABLES
    board,     \* the rows, in the order of the service
    read,      \* the read under way
    moments,   \* the contents of the board since the read began
    gained, lost, changes

vars == <<board, read, moments, gained, lost, changes>>

Content(s) == {s[i] : i \in DOMAIN s}
Boards == {s \in UNION {[1 .. n -> Rows] : n \in 0 .. Cardinality(Rows)} :
              \A i, k \in DOMAIN s : i # k => s[i] # s[k]}

NoRead == [at |-> "idle", number |-> Wanted, short |-> FALSE, offset |-> 0, total |-> 0, got |-> {}, pages |-> 0,
           counts |-> {}, filtered |-> FALSE, answer |-> {}, outcome |-> "none", probe |-> "none"]

Init ==
    /\ board \in Boards
    /\ read = NoRead /\ moments = {}
    /\ gained = FALSE /\ lost = FALSE /\ changes = 0

-----------------------------------------------------------------------------
(* The service. *)

Matching(s, filtered) == IF filtered THEN SelectSeq(s, LAMBDA r : r \in InPhase) ELSE s

\* A page of at most n rows; the service may return fewer than it is asked for.
Page(s, offset, n) == SubSeq(s, offset + 1, IF offset + n < Len(s) THEN offset + n ELSE Len(s))

Changed(s) ==
    /\ changes < MaxChanges /\ changes' = changes + 1
    /\ board' = s
    /\ moments' = moments \cup {Content(s)}
    /\ UNCHANGED read

Arrives ==
    /\ \E r \in Rows \ Content(board) : \E i \in 0 .. Len(board) :
          Changed(SubSeq(board, 1, i) \o <<r>> \o SubSeq(board, i + 1, Len(board)))
    /\ gained' = TRUE /\ UNCHANGED lost

Leaves ==
    /\ \E i \in DOMAIN board :
          Changed(SubSeq(board, 1, i - 1) \o SubSeq(board, i + 1, Len(board)))
    /\ lost' = TRUE /\ UNCHANGED gained

-----------------------------------------------------------------------------
(* The reader. *)

Start(at, filtered) ==
    /\ read.at = "idle"
    /\ read' = [NoRead EXCEPT !.at = at, !.filtered = filtered, !.short = (at = "short"),
                              !.number = IF at = "short" THEN Digits ELSE Wanted]
    /\ moments' = {Content(board)} /\ gained' = FALSE /\ lost' = FALSE
    /\ UNCHANGED <<board, changes>>

Steps(r) == read' = r /\ UNCHANGED <<board, moments, gained, lost, changes>>

Ends(outcome, answer) == Steps([read EXCEPT !.at = "done", !.outcome = outcome, !.answer = answer])

\* A read that is not complete; a second read only fails to explain the zero.
Stops(outcome) ==
    IF read.probe = "none" THEN Ends(outcome, {})
    ELSE Steps([read EXCEPT !.at = "done", !.probe = "incomplete"])

\* Any failure of the transport, or an answer that is not understood.
Fails == read.at \notin {"idle", "done", "collected", "zero", "short"} /\ Stops("error")

\* Mutant: the total of the last page counts.
TotalOfPage(total, page) == page

TotalSeen(total, page) == IF page > total THEN page ELSE total

\* The business number, and the internal id of a row without one.
_record_identity(r) == IF Number[r] = "" THEN r ELSE Number[r]

Identities(S) == {_record_identity(r) : r \in S}

\* The first row of each identity that was not collected yet.
NewRecords(page, got) ==
    {page[i] : i \in {i \in DOMAIN page :
        _record_identity(page[i]) \notin
            Identities(got \cup {page[k] : k \in 1 .. i - 1})}}

\* Mutant: an empty page always proves the end.
EndsOnEmpty(total, known, rows, got) ==
    rows = <<>> \/ (known /\ Cardinality(got) >= total)

\* With a total, the unique records must reach the largest that was reported; until one
\* is, an empty page proves the end.
Complete(total, known, rows, got) ==
    IF known THEN Cardinality(got) >= total
    ELSE rows = <<>> /\ Cardinality(got) < MAX_COLLECT

\* A page, with or without a total; without one the service returns an empty page at the
\* end only.
_collect ==
    /\ read.at = "collect"
    /\ \E n \in 0 .. PAGE_SIZE, counted \in BOOLEAN :
          LET s == Matching(board, read.filtered)
              room == MAX_COLLECT - Cardinality(read.got)
              rows == Page(s, read.offset, IF n < room THEN n ELSE room)
              total == IF counted THEN TotalSeen(read.total, Len(s)) ELSE read.total
              got == read.got \cup NewRecords(rows, read.got)
              counts == read.counts \cup {counted}
              known == TRUE \in counts
              complete == Complete(total, known, rows, got)
              next == [read EXCEPT !.total = total, !.got = got, !.pages = @ + 1,
                                   !.counts = counts, !.offset = @ + Len(rows)]
          IN  /\ ~known /\ rows = <<>> => read.offset >= Len(s)
              /\ CASE complete -> Steps([next EXCEPT !.at = "collected"])
                   [] ~complete /\ \/ Cardinality(got) = MAX_COLLECT \/ rows = <<>>
                                   \/ next.pages = MAX_PAGE_REQUESTS -> Stops("incomplete")
                   [] OTHER -> Steps(next)

\* Rows outside the phase: the service did not honour the filter.
query_repair_orders ==
    /\ read.at = "collected"
    /\ CASE read.probe = "reading" ->
               Steps([read EXCEPT !.at = "done",
                                  !.probe = IF read.got = {} THEN "empty" ELSE "explained"])
         [] read.probe = "none" /\ ~(read.got \subseteq InPhase) -> Ends("mismatch", {})
         [] read.probe = "none" /\ read.got = {} ->
               Steps([NoRead EXCEPT !.at = "zero", !.outcome = "verified"])
         [] OTHER -> Ends("verified", read.got)

\* Mutant: the second read keeps the filter.
ProbeFiltered ==
    /\ read.at = "zero"
    /\ read' = [read EXCEPT !.at = "collect", !.probe = "reading", !.filtered = TRUE]
    /\ moments' = {Content(board)} /\ gained' = FALSE /\ lost' = FALSE
    /\ UNCHANGED <<board, changes>>

\* A zero is read once more without its filter.
_eliminating_filters ==
    /\ read.at = "zero"
    /\ read' = [read EXCEPT !.at = "collect", !.probe = "reading", !.filtered = FALSE]
    /\ moments' = {Content(board)} /\ gained' = FALSE /\ lost' = FALSE
    /\ UNCHANGED <<board, changes>>

Exact(rows) == {r \in rows : Number[r] = read.number}

\* Mutant: the collection may change while it is read.
ResolveChanging ==
    /\ read.at = "resolve"
    /\ \E n \in 0 .. PAGE_SIZE :
          LET rows == Page(board, read.offset, n)
              next == [read EXCEPT !.got = @ \cup Exact(Content(rows)), !.pages = @ + 1,
                                   !.offset = @ + Len(rows), !.total = Len(board)]
          IN  CASE Len(board) > MAX_COLLECT -> Ends("incomplete", {})
                [] Len(board) <= MAX_COLLECT /\ next.offset >= Len(board) ->
                     Steps([next EXCEPT !.at = "matched"])
                [] OTHER ->
                     IF rows = <<>> \/ next.pages = MAX_PAGE_REQUESTS
                     THEN Ends("incomplete", {}) ELSE Steps(next)

\* Every page, of a collection whose total stays the same.
_resolve_operator_repair_order ==
    /\ read.at = "resolve"
    /\ \E n \in 0 .. PAGE_SIZE :
          LET rows == Page(board, read.offset, n)
              next == [read EXCEPT !.got = @ \cup Exact(Content(rows)), !.pages = @ + 1,
                                   !.offset = @ + Len(rows), !.total = Len(board)]
          IN  CASE read.pages > 0 /\ Len(board) # read.total -> Ends("conflict", {})
                [] Len(board) > MAX_COLLECT -> Ends("incomplete", {})
                [] OTHER ->
                     CASE next.offset >= Len(board) -> Steps([next EXCEPT !.at = "matched"])
                       [] next.offset < Len(board) ->
                            IF rows = <<>> \/ next.pages = MAX_PAGE_REQUESTS
                            THEN Ends("incomplete", {}) ELSE Steps(next)

\* One match, whose snapshot is there and names it.
Resolved ==
    /\ read.at = "matched"
    /\ CASE read.got = {} -> Ends("not_found", {})
         [] Cardinality(read.got) > 1 -> Ends("ambiguous", {})
         [] OTHER -> IF read.got \subseteq Content(board)
                     THEN Ends("resolved", read.got) ELSE Ends("error", {})

\* Mutant: the search looks at the first match only.
SearchFirst ==
    /\ read.at = "search"
    /\ \E s \in {SelectSeq(board, LAMBDA r : Number[r] = read.number)} :
          IF s = <<>> THEN Ends("not_found", {})
          ELSE Steps([read EXCEPT !.at = "found", !.got = {s[1]}])

\* Mutant: any row that ends with the digits says the whole number.
ShortFirst ==
    /\ read.at = "short"
    /\ LET exact == Content(Page(board, 0, Limit)) \cap Ending
       IN  \/ exact = {} /\ Ends("conflict", {})
           \/ \E r \in exact : Steps([read EXCEPT !.at = "search", !.number = Number[r]])

\* Five digits and a shop: the only row of the shop that ends with them says the whole
\* number.  A search that fails leaves the digits as they are.
ShortForm ==
    /\ read.at = "short"
    /\ LET exact == Content(Page(board, 0, Limit)) \cap Ending
       IN  \/ Steps([read EXCEPT !.at = "search"])
           \/ Cardinality(exact) # 1 /\ Ends("conflict", {})
           \/ \E r \in exact : /\ exact = {r}
                                /\ Steps([read EXCEPT !.at = "search", !.number = Number[r]])

\* Neither route knows the number: a search by number, of one page.
get_repair_order ==
    /\ read.at = "search"
    /\ LET exact == Exact(Content(Page(board, 0, Limit)))
       IN  CASE exact = {} -> Ends("not_found", {})
             [] Cardinality(exact) > 1 -> Ends("conflict", {})
             [] OTHER -> Steps([read EXCEPT !.at = "found", !.got = exact])

\* The thin row of the search is never the answer.
_try_snapshot ==
    /\ read.at = "found"
    /\ IF read.got \subseteq Content(board) THEN Ends("detail", read.got)
       ELSE Ends("conflict", {})

Next ==
    \/ Arrives \/ Leaves \/ Fails
    \/ \E at \in {"collect", "resolve", "search", "short"}, filtered \in BOOLEAN :
          (filtered => at = "collect") /\ Start(at, filtered)
    \/ _collect \/ query_repair_orders \/ _eliminating_filters
    \/ _resolve_operator_repair_order \/ Resolved \/ ShortForm \/ get_repair_order
    \/ _try_snapshot

Spec == Init /\ [][Next]_vars

-----------------------------------------------------------------------------
\* The rows in the phase that were on the board through the whole read.
Stayed == {r \in InPhase : \A m \in moments : r \in m}

\* A list that is reported as complete.
Listed == read.outcome = "verified" /\ read.at = "done" /\ read.answer # {}

(* What is read as complete was the board, filtered, at a moment of the read, record by
   record; a write is resolved to a repair order that was the only one of its number; and
   so is a question, as far as its search reaches; five digits and a shop stand for the
   number of the only row of the shop that ends with them.  Rows that come and rows that
   go during one read may cancel out: there the reader cannot tell.  Where a page came
   without a total it cannot tell either that a row left: what is read as complete then
   has every record that stayed through the read unless one left meanwhile
   (calibration_iq.py:645-658, 758-929, 1121-1343, 1864-2030). *)
ReadIsTrue ==
    LET one(S) == \E m \in moments : Exact(m) = S
        said == \E m \in moments, r \in Ending : m \cap Ending = {r} /\ Number[r] = read.number
        same(S) == Identities(S) = Identities(read.answer)
    IN  /\ Listed /\ read.counts = {TRUE} =>
              (\E m \in moments : same(m \cap InPhase)) \/ (gained /\ lost)
        /\ Listed /\ FALSE \in read.counts =>
              Identities(Stayed) \subseteq Identities(read.answer) \/ lost
        /\ read.outcome = "resolved" => one(read.answer) \/ (gained /\ lost)
        /\ read.outcome = "detail" =>
              \/ one(read.answer) /\ (read.short => said)
              \/ (\E m \in moments : Cardinality(m) > Limit)

(* A zero that a filter made is explained: when the second read finds nothing
   either, the board was empty at a moment of it (calibration_iq.py:661-724,
   1045-1078). *)
ZeroExplained ==
    read.probe = "empty" => {} \in moments

(* "A partial or changing collection can never authorize a mutation because it
   cannot disprove an ambiguous same-number RO" (calibration_iq.py:1893): the
   repair order a write is resolved to was the only one of its number at a moment
   of the read. *)
ChangingNeverAuthorizes ==
    read.outcome = "resolved" => \E m \in moments : Exact(m) = read.answer

(* "A result is complete only when the unique collection reaches the upstream total (or
   an empty response proves the end when no total is supplied)" (calibration_iq.py
   770-773): a list that is complete on an empty response has every record that stayed on
   the board through the read. *)
EmptyProvesTheEnd ==
    Listed /\ read.counts = {FALSE} => Identities(Stayed) \subseteq Identities(read.answer)
=============================================================================
