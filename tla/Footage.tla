--------------------------------- MODULE Footage ---------------------------------
(* The camera tools that answer from what the recorder holds: a question about a  *)
(* range of footage, a playable clip, a still and the history of detections        *)
(* (core/services/camera_security.py over frigate_surveillance.py,                 *)
(* footage_frames.py and the requests of frigate_client.py).                       *)
(*                                                                               *)
(* Time is cut into the cells 0 .. Length - 1; the recorder holds some of them,    *)
(* gives up old ones, and may be out of reach at every request.  Its clip of a     *)
(* range is what it holds of it, end to end.  What the vision model says of the     *)
(* frames is nondeterministic: this module is about what may be said from it.       *)
EXTENDS Integers, SequencesExt

CONSTANTS
    Length, MaxAnalysis, MaxPlayback, MaxSeek,
    MIN_SAMPLES, MAX_SAMPLES,   \* of the frames of a contact sheet
    OPEN_EVENT,                 \* what is taken as the length of an open event
    MaxLost,                    \* bound on the cells given up
    None

Cells == 0 .. Length - 1
Times == 0 .. Length
Kinds == {"analyze", "clip", "still", "history"}

VARIABLES
    recorded,   \* the cells the recorder holds
    review,     \* its review record, or None
    ask,        \* the arguments of the call
    step, range,
    frames,     \* the clip, then the labelled frames
    answer,     \* the result
    lost

vars == <<recorded, review, ask, step, range, frames, answer, lost>>

NoAnswer == [ok |-> FALSE, status |-> None, movement |-> None, person |-> None, link |-> None,
             partial |-> FALSE, held |-> {}, sufficient |-> FALSE]

Reviews == {None} \cup [start : Cells, end : Times \cup {None}, object : BOOLEAN]
Asked == [kind : Kinds, by : {"event", "latest", "half"}, since : {0}, until : {0}]
         \cup [kind : Kinds, by : {"range"}, since : Cells, until : Times]

Init ==
    /\ recorded \in SUBSET Cells /\ review \in Reviews /\ ask \in Asked
    /\ ask.kind = "still" => ask.by \in {"event", "latest"}
    /\ ask.kind = "history" => ask.by = "latest"
    /\ ask.by \in {"range", "half"} => review = None
    /\ ask.by \in {"event", "latest"} /\ review = None => recorded = {}
    /\ step = "resolve" /\ range = None /\ frames = <<>> /\ answer = NoAnswer /\ lost = 0

TypeOK ==
    /\ recorded \subseteq Cells /\ review \in Reviews
    /\ step \in {"resolve", "window", "clip", "frames", "vision", "caption", "playback", "done"}
    /\ range # None => range.since \in Cells /\ range.until \in range.since + 1 .. Length + OPEN_EVENT

-----------------------------------------------------------------------------
\* _temporal_error and error_result: a status, and no conclusion.
Refuse(status) ==
    /\ answer' = [NoAnswer EXCEPT !.status = status] /\ step' = "done"
    /\ UNCHANGED <<range, frames>>

Held(since, until) == {c \in recorded : since <= c /\ c < until}

\* event_window: a record without a usable span is no window.
Window(record) ==
    IF record = None \/ (record.end # None /\ record.end <= record.start) THEN None
    ELSE [since |-> record.start,
          until |-> IF record.end = None THEN record.start + OPEN_EVENT ELSE record.end]

\* The window of a range is checked against the limit of its tool.
Admit(w) ==
    LET limit == IF ask.kind = "clip" THEN MaxPlayback ELSE MaxAnalysis
    IN  \/ w.until <= w.since /\ Refuse("invalid_request")
        \/ w.until > w.since /\ w.until - w.since > limit
           /\ Refuse(IF ask.kind = "clip" THEN "invalid_request" ELSE "range_too_broad")
        \/ /\ w.until > w.since /\ w.until - w.since <= limit
           /\ range' = w /\ step' = IF ask.kind = "clip" THEN "playback" ELSE "clip"
           /\ UNCHANGED <<frames, answer>>

\* The arguments: a range, a named event, or the latest one, which costs a first request.
Resolve ==
    /\ step = "resolve" /\ ask.kind \in {"analyze", "clip"}
    /\ \/ ask.by = "half" /\ Refuse("invalid_request")
       \/ ask.by = "range" /\ Admit([since |-> ask.since, until |-> ask.until])
       \/ ask.by = "event" /\ step' = "window" /\ UNCHANGED <<range, frames, answer>>
       \/ /\ ask.by = "latest"
          /\ \/ Refuse("unavailable")
             \/ review = None /\ Refuse("no_event_data")
             \/ review # None /\ step' = "window" /\ UNCHANGED <<range, frames, answer>>
    /\ UNCHANGED <<recorded, review, ask, lost>>

EventWindow ==
    /\ step = "window"
    /\ \/ Refuse("unavailable")
       \/ Window(review) = None /\ Refuse("no_recording")
       \/ Window(review) # None /\ Admit(Window(review))
    /\ UNCHANGED <<recorded, review, ask, lost>>

-----------------------------------------------------------------------------
\* clip_bytes: what is held of the range, as one file.
Clip ==
    /\ step = "clip"
    /\ \/ Refuse("unavailable")
       \/ Refuse("frame_extraction_failed")     \* no FFmpeg
       \/ Held(range.since, range.until) = {} /\ Refuse("no_recording")
       \/ /\ Held(range.since, range.until) # {}
          /\ frames' = SetToSortSeq(Held(range.since, range.until), <) /\ step' = "frames"
          /\ UNCHANGED <<range, answer>>
    /\ UNCHANGED <<recorded, review, ask, lost>>

\* sample_times: both ends of the range, and times between them, one for each cell.
Samples ==
    LET span == range.until - range.since
        count == CHOOSE n \in MIN_SAMPLES .. MAX_SAMPLES :
                    n = span + 1 \/ (n = MAX_SAMPLES /\ span >= n) \/ (n = MIN_SAMPLES /\ span + 1 < n)
    IN  [i \in 1 .. count |-> range.since + (span * (i - 1)) \div (count - 1)]

\* Mutant: a frame that cannot be read is looked for later in the clip.
FrameForward(t) ==
    {clip \in 1 .. Len(frames) : clip >= t - range.since + 1 /\ clip <= t - range.since + 1 + MaxSeek}

\* A frame is sought at the offset of its time in the clip, then a little earlier: at
\* the offset of its end there is none.
Frame(t) ==
    {clip \in 1 .. Len(frames) :
        \E back \in 0 .. MaxSeek :
            clip = 1 + (IF t - range.since >= back THEN t - range.since - back ELSE 0)}

\* Mutant: two frames of one side are enough.
EnoughOne(sheet) == Len(sheet) >= 1

Enough(sheet) == Len(sheet) >= MIN_SAMPLES

\* extract_frames: some of the samples yield a frame, each with its time as its label.
Extract ==
    /\ step = "frames"
    /\ \E got \in SUBSET DOMAIN Samples :
         /\ \A i \in got : Frame(Samples[i]) # {}
         /\ \E pick \in [got -> 1 .. Len(frames)] :
              /\ \A i \in got : pick[i] \in Frame(Samples[i])
              /\ LET order == SetToSortSeq(got, <)
                     sheet == [n \in 1 .. Len(order) |->
                                 [label |-> Samples[order[n]], shows |-> frames[pick[order[n]]]]]
                 IN  IF Enough(sheet)
                     THEN frames' = sheet /\ step' = "vision" /\ UNCHANGED <<range, answer>>
                     ELSE Refuse("frame_extraction_failed")
    /\ UNCHANGED <<recorded, review, ask, lost>>

\* camera_snapshot_analyze: the picture of a detection, or the current view.
Still ==
    /\ step = "resolve" /\ ask.kind = "still"
    /\ \/ Refuse("unavailable")
       \/ ask.by = "event" /\ Window(review) = None /\ Refuse("no_recording")
       \/ ask.by = "event" /\ Window(review) # None /\ ~review.object /\ Refuse("invalid_request")
       \/ /\ ask.by = "event" => Window(review) # None /\ review.object
          /\ step' = "vision" /\ UNCHANGED <<range, frames, answer>>
    /\ UNCHANGED <<recorded, review, ask, lost>>

\* The frames are valid, the question is bounded, and a worker can see.
Vision ==
    /\ step = "vision"
    /\ \/ Refuse("frame_validation_failed")
       \/ Refuse("invalid_request")
       \/ Refuse("vision_unavailable")
       \/ step' = "caption" /\ UNCHANGED <<range, frames, answer>>
    /\ UNCHANGED <<recorded, review, ask, lost>>

\* Mutant: what is not observed in a sparse sample is told as it was said.
ParsedAsSaid(said) == said

\* _parse_footage_analysis_caption: an insufficient sample supports no conclusion.
Parsed(said) == IF said.sufficient THEN said ELSE [said EXCEPT !.movement = "uncertain"]

\* The answer of the model keeps its contract, or nothing is concluded from it.
Caption ==
    /\ step = "caption" /\ ask.kind = "analyze"
    /\ \/ Refuse("vision_failed")
       \/ Refuse("unstructured_vision_result")
       \/ \E said \in [movement : {"observed", "not_observed", "uncertain"}, sufficient : BOOLEAN] :
            /\ answer' = [NoAnswer EXCEPT !.movement = Parsed(said).movement,
                                          !.sufficient = said.sufficient]
            /\ step' = "playback" /\ UNCHANGED <<range, frames>>
    /\ UNCHANGED <<recorded, review, ask, lost>>

\* The answer about a still is told; a person in it only when the answer was complete.
CaptionStill ==
    /\ step = "caption" /\ ask.kind = "still"
    /\ \/ Refuse("vision_failed")
       \/ /\ \E person \in {TRUE, FALSE, None} :
               answer' = [NoAnswer EXCEPT !.ok = TRUE, !.status = "available", !.person = person]
          /\ step' = "done" /\ UNCHANGED <<range, frames>>
    /\ UNCHANGED <<recorded, review, ask, lost>>

-----------------------------------------------------------------------------
\* Mutant: the link goes to what was asked for.
LinkAsAsked(held) == [from |-> range.since, to |-> range.until]

\* playback: from the first to the last that is held of the range.
Link(held) ==
    [from |-> CHOOSE c \in held : \A d \in held : c <= d,
     to |-> 1 + CHOOSE c \in held : \A d \in held : c >= d]

Found(held) ==
    [answer EXCEPT !.ok = TRUE, !.link = Link(held), !.held = held,
        !.partial = Link(held).from > range.since \/ Link(held).to < range.until,
        !.status = IF ask.kind = "clip" THEN "available"
                   ELSE IF answer.sufficient THEN "sufficient" ELSE "insufficient_evidence"]

\* An analysis is kept without a link; a clip is not.
NoLink(status) ==
    IF ask.kind = "clip" THEN Refuse(status)
    ELSE /\ answer' = [answer EXCEPT !.ok = TRUE,
                          !.status = IF answer.sufficient THEN "sufficient" ELSE "insufficient_evidence"]
         /\ step' = "done" /\ UNCHANGED <<range, frames>>

Playback ==
    /\ step = "playback"
    /\ LET held == Held(range.since, range.until)
       IN  \/ NoLink("unavailable")
           \/ held = {} /\ NoLink("no_recording")
           \/ /\ held # {}
              /\ answer' = Found(held) /\ step' = "done" /\ UNCHANGED <<range, frames>>
    /\ UNCHANGED <<recorded, review, ask, lost>>

\* Mutant: a recorder that cannot be read is told as a quiet one.
HistoryQuiet ==
    /\ step = "resolve" /\ ask.kind = "history"
    /\ \/ answer' = [NoAnswer EXCEPT !.ok = TRUE, !.status = "no_event_data"]
       \/ answer' = [NoAnswer EXCEPT !.ok = TRUE, !.status = IF review = None THEN "no_event_data" ELSE "available"]
    /\ step' = "done" /\ UNCHANGED <<recorded, review, ask, range, frames, lost>>

\* camera_event_history: detections, or none, or no answer of the recorder.
History ==
    /\ step = "resolve" /\ ask.kind = "history"
    /\ \/ Refuse("unavailable")
       \/ /\ answer' = [NoAnswer EXCEPT !.ok = TRUE,
                            !.status = IF review = None THEN "no_event_data" ELSE "available"]
          /\ step' = "done" /\ UNCHANGED <<range, frames>>
    /\ UNCHANGED <<recorded, review, ask, lost>>

\* The recorder gives up what is oldest; a review record goes with it.
Retention ==
    /\ step # "done" /\ lost < MaxLost /\ recorded # {} /\ lost' = lost + 1
    /\ \E c \in recorded : (\A d \in recorded : c <= d) /\ recorded' = recorded \ {c}
    /\ review' \in {review, None}
    /\ UNCHANGED <<ask, step, range, frames, answer>>

Next ==
    \/ Resolve \/ EventWindow \/ Clip \/ Extract \/ Still \/ Vision \/ Caption
    \/ CaptionStill \/ Playback \/ History \/ Retention

-----------------------------------------------------------------------------
Whole == Held(range.since, range.until) = range.since .. (range.until - 1)

(* Nothing is concluded from a call that failed, nor from a sample that was called
   insufficient: "Never turn sparse samples into a negative action conclusion"
   (camera_security.py:245; _temporal_error 251-274).  *)
ConclusionIsSupported ==
    step = "done" =>
        /\ answer.movement = "not_observed" => answer.ok /\ answer.sufficient
        /\ ~answer.ok => answer.movement = None /\ answer.person = None /\ answer.link = None

(* "Returning a link to footage that does not exist would put a broken player in
   the chat" (frigate_surveillance.py:245-272): both ends of the link were held when
   it was made, and a range whose ends were not is told to be partial.  *)
LinkHasFootage ==
    answer.link # None =>
        /\ answer.link.from \in answer.held /\ answer.link.to - 1 \in answer.held
        /\ answer.link.from >= range.since /\ answer.link.to <= range.until
        /\ ~answer.partial => {range.since, range.until - 1} \subseteq answer.held

(* A frame of a range that is held without a gap shows the time it is labelled with,
   or a moment before (footage_frames.py:88-117); the frames are in order, and there
   are enough of them.  *)
LabelsAreTrue ==
    step = "vision" /\ ask.kind = "analyze" =>
        /\ Len(frames) >= MIN_SAMPLES
        /\ \A i \in 1 .. Len(frames) - 1 : frames[i].label < frames[i + 1].label
        /\ Whole => \A i \in DOMAIN frames : frames[i].label - frames[i].shows \in 0 .. MaxSeek

(* "Frigate detected nothing" and "there is no answer" are different facts
   (camera_security.py:347-352).  *)
QuietIsReal ==
    step = "done" /\ ask.kind = "history" => (answer.status = "no_event_data" => review = None /\ answer.ok)

FootageTruth == TypeOK /\ ConclusionIsSupported /\ LinkHasFootage /\ LabelsAreTrue /\ QuietIsReal

(* LabelsAreTrue also for a range with a gap: the labels count from the start of the
   range, the clip begins with what is held.  *)
LabelsAlwaysTrue ==
    step = "vision" /\ ask.kind = "analyze" =>
        \A i \in DOMAIN frames : frames[i].label - frames[i].shows \in 0 .. MaxSeek

(* A link that is not called partial has everything between its ends.  *)
PartialIsTold ==
    answer.link # None /\ ~answer.partial => range.since .. (range.until - 1) \subseteq answer.held
=============================================================================
