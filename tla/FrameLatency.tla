---------------------------- MODULE FrameLatency ----------------------------
(***************************************************************************)
(* FrameLatencySubmission, FrameLatencyHistory and PresentedFrameHistory:  *)
(* what the GPU completion and the presentation callback of a frame leave  *)
(* about its timing and its outcome.  Times are host times, 0 is "unknown".*)
(***************************************************************************)
EXTENDS Naturals, Sequences, FiniteSets, SequencesExt

NoSample == [sequence |-> 0, presented |-> 0, total |-> FALSE, components |-> FALSE]

NewSubmission(sequence, callback) ==
    [sequence |-> sequence, callback |-> callback, cpuReady |-> 0, gpu |-> 0,
     presented |-> 0, events |-> {}, outcome |-> "unknown", sample |-> NoSample]

(***************************************************************************)
(* The timing of one frame.                                                *)
(***************************************************************************)
\* Published by one callback: its own timestamp, then its event.
WithGpuCompletion(s, time) == [s EXCEPT !.gpu = time, !.events = @ \cup {"gpu"}]
WithPresentation(s, time) == [s EXCEPT !.presented = time, !.events = @ \cup {"presented"}]

\* Mutant: the presentation publishes the sample without waiting for the GPU.
MayEmitPresented(s) == "presented" \in s.events /\ "emitted" \notin s.events

\* The callback that published second, and no other, derives the sample.
MayEmit(s) == {"gpu", "presented"} \subseteq s.events /\ "emitted" \notin s.events

classifyFrameLatency(s) ==
    LET total == /\ s.sequence # 0 /\ s.callback # 0
                 /\ s.presented # 0 /\ s.presented >= s.callback
    IN  [sequence   |-> s.sequence,
         presented  |-> s.presented,
         total      |-> total,
         components |-> /\ total
                        /\ s.cpuReady # 0 /\ s.gpu # 0
                        /\ s.callback <= s.cpuReady
                        /\ s.cpuReady <= s.gpu
                        /\ s.gpu <= s.presented]

Emitted(s) ==
    [s EXCEPT !.events = @ \cup {"emitted"}, !.sample = classifyFrameLatency(s)]

(***************************************************************************)
(* The outcome of one frame: skipped is provisional, presented is final.   *)
(***************************************************************************)
NewlySkipped(s) == s.outcome = "unknown"
Skipped(s) == IF NewlySkipped(s) THEN [s EXCEPT !.outcome = "skipped"] ELSE s

UpgradedSkipped(s) == s.outcome = "skipped"
Presented(s) == [s EXCEPT !.outcome = "presented"]

(***************************************************************************)
(* The histories: sorted by presentation time, the newest Capacity kept.   *)
(***************************************************************************)
WithRoom(history, capacity) == IF Len(history) = capacity THEN Tail(history) ELSE history

LatencyEarlier(a, b) ==
    \/ a.presented < b.presented
    \/ a.presented = b.presented /\ a.sequence < b.sequence

RefusesSample(history, sample, capacity) ==
    \/ sample.sequence = 0 \/ sample.presented = 0
    \/ \E i \in DOMAIN history : history[i].sequence = sample.sequence
    \/ Len(history) = capacity /\ ~LatencyEarlier(history[1], sample)

\* std::lower_bound: behind everything earlier.
LatencyPlace(history, sample) ==
    CHOOSE k \in 1 .. Len(history) + 1 :
        \A i \in DOMAIN history : LatencyEarlier(history[i], sample) <=> i < k

\* FrameLatencyHistory::record
WithSample(history, sample, capacity) ==
    LET room == WithRoom(history, capacity)
    IN  IF RefusesSample(history, sample, capacity) THEN history
        ELSE InsertAt(room, LatencyPlace(room, sample), sample)

PresentedPlace(history, time) ==
    CHOOSE k \in 1 .. Len(history) + 1 :
        \A i \in DOMAIN history : history[i].time < time <=> i < k

\* Mutant: a late presentation displaces a newer one of a full history.
RefusesDuplicates(history, sequence, time, capacity) ==
    \/ sequence = 0 \/ time = 0
    \/ \E i \in DOMAIN history : history[i].time = time

RefusesPresentation(history, sequence, time, capacity) ==
    \/ sequence = 0 \/ time = 0
    \/ \E i \in DOMAIN history : history[i].time = time
    \/ Len(history) = capacity /\ time <= history[1].time

\* PresentedFrameHistory::recordPresentation
WithPresentedFrame(history, sequence, time, capacity) ==
    LET room == WithRoom(history, capacity)
    IN  IF RefusesPresentation(history, sequence, time, capacity) THEN history
        ELSE InsertAt(room, PresentedPlace(room, time), [sequence |-> sequence, time |-> time])

\* snapshotIntervals: the time between neighbours, under the later one's number.
Intervals(history) ==
    [i \in 1 .. Len(history) - 1 |->
        [sequence |-> history[i + 1].sequence, time |-> history[i + 1].time - history[i].time]]
=============================================================================
