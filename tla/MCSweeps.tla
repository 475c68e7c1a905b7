------------------------------- MODULE MCSweeps -------------------------------
(* The maps of ADAS Map: the sweep that has them captured (AdasMapSweep), of two   *)
(* repair orders with a crash and the time limit, and two callers that start       *)
(* sweeps one after another; and what an audit then discovers in the library       *)
(* (Discovery).                                                                    *)
EXTENDS AdasMapSweep, TLC

CONSTANTS r1, r2, c1, c2, None

VARIABLES scenario, lib, index, needs, scrapes, moves, ask, tally, look

sweepVars == vars
discoveryVars == <<lib, index, needs, scrapes, moves, ask, tally, look>>
allVars == <<scenario, sweepVars, discoveryVars>>

\* One sweep.
Single == \A s \in Sweeps \ {1} : rec'[s] = NoRecord
\* Sweeps of one repair order within the time limit, and no crash; a call that reports a
\* failure lost no answer of ScrapeX.
Pair ==
    /\ crashes' = 0 /\ UNCHANGED late
    /\ \E o \in ROs : \A s \in Sweeps : rec'[s] # NoRecord => rec'[s].targets = {o}
    /\ \A s \in Sweeps : rec[s].state # "failed" /\ rec'[s].state = "failed" => UNCHANGED batches

\* Two orders for cars of one model; what five documents print of them.
Ident(n, vin, insp, trim) == [ro |-> n, vin |-> vin, insp |-> insp, car |-> "k", trim |-> trim]
IsTrue == ("A" :> Ident("A", "va", "ia", "t1") @@ "B" :> Ident("B", "vb", "ib", "t2"))
IsKnown == ("A" :> Ident("A", "va", None, "t1"))
IsCut == ("A" :> Ident("A", None, None, "t1.."))
Leaf(named, report, folder, shown, oe, steps) ==
    [named |-> named, report |-> report # None, folder |-> folder, readable |-> shown,
     ro |-> report, vin |-> CASE report = "A" -> "va" [] report = "B" -> "vb" [] OTHER -> None,
     insp |-> CASE report = "A" -> "ia" [] report = "B" -> "ib" [] OTHER -> None,
     car |-> IF report = None THEN None ELSE "k", trim |-> None,
     needs |-> IF named = None THEN {} ELSE {"cam", "belt"}, none |-> FALSE,
     oe |-> oe, steps |-> steps]
Leaves ==
    ("map" :> Leaf("A", "A", None, TRUE, {"cam", "belt"}, {})
     @@ "book" :> Leaf(None, None, "k", TRUE, {}, {"cam"})
     @@ "other" :> Leaf(None, "B", "k", TRUE, {}, {"cam"})
     @@ "wrong" :> Leaf("A", "B", None, TRUE, {}, {"cam"})
     @@ "scanned" :> Leaf("A", None, None, FALSE, {}, {}))
IsAbout == ("map" :> {"A"} @@ "book" :> {"A", "B"} @@ "other" :> {"B"} @@ "wrong" :> {"B"}
            @@ "scanned" :> {"A"})
\* Papers that are not of the order, with one map.
Folder == INSTANCE Discovery WITH Orders <- {"A"}, Asked <- {"A"}, Truth <- IsTrue,
            Known <- IsKnown, CutOf <- <<>>, Papers <- {"book", "other", "wrong", "scanned"},
            Sheet <- Leaves, About <- IsAbout, Families <- {"cam"}, Settled <- {},
            Written <- {"cam"}, Faults <- {"none", "legacy", "failed", "partial"},
            Uses <- {"audit"}, Quiet <- TRUE, MaxScrapes <- 1, MaxMoves <- 1
\* Three captures, of this order or with the page of another.
Captures == INSTANCE Discovery WITH Orders <- {"A", "B"}, Asked <- {"A"}, Truth <- IsTrue,
            Known <- IsKnown, CutOf <- <<>>, Papers <- {"map"},
            Sheet <- Leaves, About <- IsAbout, Families <- {"cam"}, Settled <- {},
            Written <- {"cam"}, Faults <- {"none", "other", "unbound"},
            Uses <- {"audit"}, Quiet <- TRUE, MaxScrapes <- 3, MaxMoves <- 0
\* An order without a VIN, its trim cut short, while files are moved.
Moving == INSTANCE Discovery WITH Orders <- {"A"}, Asked <- {"A"}, Truth <- IsTrue,
            Known <- IsCut, CutOf <- ("t1.." :> "t1"), Papers <- {"map", "book", "other"},
            Sheet <- Leaves, About <- IsAbout, Families <- {"cam", "belt"},
            Settled <- {"belt"}, Written <- {"cam", "belt"}, Faults <- {"none"},
            Uses <- {"audit"}, Quiet <- FALSE, MaxScrapes <- 1, MaxMoves <- 1
\* A count and a search.
Counts == INSTANCE Discovery WITH Orders <- {"A"}, Asked <- {"A"}, Truth <- IsTrue,
            Known <- IsCut, CutOf <- <<>>, Papers <- {"book", "scanned"},
            Sheet <- Leaves, About <- IsAbout, Families <- {"cam"},
            Settled <- {}, Written <- {"cam"}, Faults <- {"none"},
            Uses <- {"count", "search"}, Quiet <- FALSE, MaxScrapes <- 0, MaxMoves <- 1

NoSweep == /\ phase = None /\ rec = None /\ posts = None /\ drv = None /\ lock = None
           /\ call = None /\ todo = None /\ posting = None /\ batches = None /\ late = None
           /\ crashes = None
NoDiscovery == /\ lib = None /\ index = None /\ needs = None /\ scrapes = None
               /\ moves = None /\ ask = None /\ tally = None /\ look = None

MCInit == \/ scenario \in {"one", "two"} /\ Init /\ NoDiscovery
          \/ /\ \/ scenario = "papers" /\ Folder!Init
                \/ scenario = "captures" /\ Captures!Init
                \/ scenario = "moving" /\ Moving!Init
                \/ scenario = "counts" /\ Counts!Init
             /\ NoSweep

MCNext == /\ UNCHANGED scenario
          /\ \/ /\ \/ scenario = "one" /\ Next /\ Single
                   \/ scenario = "two" /\ Next /\ Pair
                /\ UNCHANGED discoveryVars
             \/ /\ \/ scenario = "papers" /\ Folder!Next
                   \/ scenario = "captures" /\ Captures!Next
                   \/ scenario = "moving" /\ Moving!Next
                   \/ scenario = "counts" /\ Counts!Next
                /\ UNCHANGED sweepVars

MCSpec == MCInit /\ [][MCNext]_allVars

Symmetry == Permutations({r1, r2}) \cup Permutations({c1, c2})

(* TypeOK, OneBatchPerChunk, OneAtATime, WorkedBeforeDone, PostsBounded, ActiveIsDriven,
   OneActive, FailedNeverStarted: the batches of a sweep run in turn, none is sent twice,
   a result is posted once and only of work that was done; one sweep is active at a time
   and has its driver, and a start that failed started nothing
   (adas_map_sweep.py:458-605, 661-733, 773-958, 1104-1134). *)
SweepTruth ==
    scenario \in {"one", "two"} =>
        /\ TypeOK /\ OneBatchPerChunk /\ OneAtATime /\ WorkedBeforeDone /\ PostsBounded
        /\ ActiveIsDriven /\ OneActive /\ (scenario = "two" => FailedNeverStarted)

(* Discovery!CoveredIsReal, MissingIsReal, GovernsItself, FinalIsWhole, NotAbsent: a map
   governs its own order; a calibration is covered by a document that is for the order,
   and missing when there is none; counts and searches hide nothing
   (adas_artifact_catalog.py:1101-2076, adas_si.py:1130-1262). *)
CoverageTruth ==
    /\ scenario = "papers" => /\ Folder!CoveredIsReal /\ Folder!MissingIsReal
                              /\ Folder!GovernsItself
    /\ scenario = "captures" => /\ Captures!CoveredIsReal /\ Captures!MissingIsReal
                                /\ Captures!GovernsItself
    /\ scenario = "moving" => Moving!CoveredIsReal /\ Moving!GovernsItself
    /\ scenario = "counts" => Counts!FinalIsWhole /\ Counts!NotAbsent

(* Discovery!NotFoundIsReal, UnverifiedDoNotCount, as adas_artifact_catalog.py:1904 and
   1646 say it; no run checks them. *)
NotFoundIsReal == scenario = "moving" => Moving!NotFoundIsReal
UnverifiedDoNotCount == scenario = "captures" => Captures!UnverifiedDoNotCount

(* TerminalIsFinal: an ended sweep stays ended (adas_map_sweep.py:587-605, 837). *)
Final == [][scenario = "one" \/ scenario = "two" =>
    \A s \in Sweeps : rec[s].state \in Terminal => rec'[s].state = rec[s].state]_allVars
=============================================================================
