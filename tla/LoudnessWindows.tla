--------------------------- MODULE LoudnessWindows ---------------------------
(***************************************************************************)
(* The windows of LoudnessAnalyzer: a 400 ms momentary and a 3 s short     *)
(* term loudness every 100 ms, and the 400 ms blocks that feed the         *)
(* integrated loudness.  Frames are collected in hops of a tenth of a      *)
(* second; at most sample rates a tenth is not a whole number of frames,   *)
(* so hops differ by a frame and the hops of a window rarely add up to its *)
(* length.  A window then gives back the first samples of its oldest hop,  *)
(* or takes the last ones of the hop before, of which each hop keeps two.  *)
(*                                                                         *)
(* Measurement and integration run on schedulers of their own: a reset of  *)
(* the integration, possibly inside a chunk, restarts one and must not     *)
(* disturb the other; clearing the live meters restarts both and keeps the *)
(* integrated loudness.                                                    *)
(*                                                                         *)
(* A frame is its position in the capture and an energy sum the set of the *)
(* frames in it, so a window that misses a frame or takes one twice shows. *)
(* The K-weighting filter and the state sequence are left out; what is     *)
(* added to the integrated loudness is modelled by IntegratedLoudness.     *)
(* A chunk is entered, taken frame by frame, cut where a reset falls inside *)
(* it, and left; the properties hold behind every frame.                   *)
(***************************************************************************)
EXTENDS Integers, FiniteSets, Sequences

CONSTANTS
    Rates,           \* sample rates, in frames per second
    MomentaryHops,   \* momentaryHopCount, 4 in the code
    ShortTermHops,   \* shortTermHopCount, 30 in the code
    EdgeSamples,     \* hopEdgeSampleCapacity, 2 in the code
    ChunkLengths,    \* the lengths a chunk may have
    LastFrame        \* bound of the model: the last captured frame

ASSUME HopCounts ==
    /\ MomentaryHops \in Nat /\ ShortTermHops \in Nat
    /\ 1 < MomentaryHops /\ MomentaryHops < ShortTermHops
    /\ EdgeSamples \in Nat \ {0}
ASSUME RatesSupported == Rates \subseteq Nat /\ \A r \in Rates : r >= 10
ASSUME ChunkBounds == ChunkLengths \subseteq Nat \ {0} /\ LastFrame \in Nat

VARIABLES
    analyzer,     \* initialized_, the format and the last chunk processed
    measurement,  \* hops, partial hop and scheduler of the measurement
    integration,  \* hops, partial hop and scheduler of the integration
    live,         \* the live windows of output_
    programme,    \* the integrated loudness of output_, and its last block
    input,        \* the chunk given to process, and the last frame taken of it
    since         \* history: the frames after which each of them began

windowVars == <<analyzer, measurement, integration, live, programme, input, since>>

(* measurementBoundaryFrameForTesting: n tenths of a second, rounded half up.*)
BoundaryFrame(rate, n) == (rate * n + 5) \div 10

FirstPeriod(rate) ==
    [completions |-> 1, boundary |-> BoundaryFrame(rate, 1), left |-> BoundaryFrame(rate, 1)]

(* A scheduler that adds the rounded tenth again and again.                *)
NextPeriodOfSameLength(scheduler, rate) ==
    [completions |-> scheduler.completions + 1,
     boundary |-> scheduler.boundary + BoundaryFrame(rate, 1),
     left |-> BoundaryFrame(rate, 1)]

(* advancePeriodScheduler                                                  *)
NextPeriod(scheduler, rate) ==
    LET n == scheduler.completions + 1
        boundary == BoundaryFrame(rate, n)
    IN  [completions |-> n, boundary |-> boundary,
         left |-> IF boundary > scheduler.boundary THEN boundary - scheduler.boundary ELSE 1]

(* Of an analyzer that is not initialized, and after a reset of one that is.*)
NoTrack ==
    [hops |-> <<>>, partial |-> {}, scheduler |-> [completions |-> 0, boundary |-> 0, left |-> 0]]
EmptyTrack(rate) == [hops |-> <<>>, partial |-> {}, scheduler |-> FirstPeriod(rate)]

NoWindow == {}
ClearedLive == [momentary |-> NoWindow, shortTerm |-> NoWindow, end |-> 0]
ClearedProgramme == [frames |-> {}, block |-> NoWindow, end |-> 0]

Uninitialized == [initialized |-> FALSE, rate |-> 0, generation |-> 0, end |-> 0]

EarliestFrames(frames, n) == {f \in frames : Cardinality({g \in frames : g < f}) < n}
LatestFrames(frames, n) == {f \in frames : Cardinality({g \in frames : g > f}) < n}

(* sumLatest*Hops and the two window functions, which differ only in the   *)
(* hops they read.  NoWindow is the answer false.                          *)
Window(hops, count, length) ==
    LET oldest == Len(hops) - count + 1
        latest == UNION {hops[i] : i \in oldest..Len(hops)}
        trim == Cardinality(latest) - length
    IN  IF oldest < 1 THEN NoWindow
        ELSE IF trim = 0 THEN latest
        ELSE IF trim > 0
        THEN IF trim > EdgeSamples THEN NoWindow
             ELSE latest \ EarliestFrames(hops[oldest], trim)
        ELSE IF -trim > EdgeSamples \/ oldest = 1 THEN NoWindow
             ELSE latest \cup LatestFrames(hops[oldest - 1], -trim)

(* The complete hop joins the ring of the capacity + 1 latest hops.        *)
WithHop(hops, hop, capacity) ==
    LET all == Append(hops, hop)
    IN  IF Len(all) > capacity + 1 THEN Tail(all) ELSE all

HopCompletes(track) == track.scheduler.left = 1

(* The frame joins the partial hop; a hop that is complete joins the ring  *)
(* and another begins.                                                     *)
Advanced(track, frame, capacity, rate) ==
    LET partial == track.partial \cup {frame}
    IN  IF HopCompletes(track)
        THEN [hops |-> WithHop(track.hops, partial, capacity), partial |-> {},
              scheduler |-> NextPeriod(track.scheduler, rate)]
        ELSE [track EXCEPT !.partial = partial, !.scheduler.left = @ - 1]

(* appendMeasurementHop where the frame completes the hop                  *)
Measure(frame) ==
    LET rate == analyzer.rate
        track == Advanced(measurement, frame, ShortTermHops, rate)
    IN  /\ measurement' = track
        /\ live' = IF ~HopCompletes(measurement) THEN live
                   ELSE [momentary |-> Window(track.hops, MomentaryHops,
                                              BoundaryFrame(rate, MomentaryHops)),
                         shortTerm |-> Window(track.hops, ShortTermHops,
                                              BoundaryFrame(rate, ShortTermHops)),
                         end |-> frame]

(* appendIntegrationHop where the frame completes the hop                  *)
Integrate(frame) ==
    LET rate == analyzer.rate
        track == Advanced(integration, frame, MomentaryHops, rate)
        block == Window(track.hops, MomentaryHops, BoundaryFrame(rate, MomentaryHops))
    IN  /\ integration' = track
        /\ programme' = IF ~HopCompletes(integration) \/ block = NoWindow THEN programme
                        ELSE [frames |-> programme.frames \cup block, block |-> block,
                              end |-> frame]

-----------------------------------------------------------------------------
(* Resets; each also tells the history where the next frame is.            *)

(* A reset that keeps the frames collected since the last hop.             *)
IntegrationClearedKeepingPartial(position) ==
    /\ integration' = [EmptyTrack(analyzer.rate) EXCEPT !.partial = integration.partial]
    /\ programme' = ClearedProgramme
    /\ since' = [since EXCEPT !.integration = position, !.programme = position]

(* clearIntegrationState                                                   *)
IntegrationCleared(position) ==
    /\ integration' = EmptyTrack(analyzer.rate)
    /\ programme' = ClearedProgramme
    /\ since' = [since EXCEPT !.integration = position, !.programme = position]

(* applyFullReset, then configure                                          *)
Configured(chunk) ==
    /\ analyzer' = [initialized |-> TRUE, rate |-> chunk.rate,
                    generation |-> chunk.generation, end |-> chunk.start]
    /\ measurement' = EmptyTrack(chunk.rate) /\ live' = ClearedLive
    /\ integration' = EmptyTrack(chunk.rate) /\ programme' = ClearedProgramme
    /\ since' = [measurement |-> chunk.start, integration |-> chunk.start,
                 programme |-> chunk.start]

(* A chunk that does not continue what the analyzer has.  sequence is the  *)
(* chunk's number less the previous one.                                   *)
BreaksOff(chunk) ==
    \/ chunk.rate # analyzer.rate
    \/ chunk.generation # analyzer.generation
    \/ chunk.followsDiscontinuity
    \/ chunk.sequence # 1
    \/ chunk.start # analyzer.end

(* process up to its first frame; resetAt is the frame a request asks the  *)
(* integration to restart behind, and counts only strictly inside the chunk.*)
Process(chunk, resetAt) ==
    LET end == chunk.start + chunk.length
        inside == resetAt > chunk.start /\ resetAt < end
    IN  /\ input' = [processing |-> TRUE, frame |-> chunk.start,
                     cut |-> IF inside THEN resetAt ELSE end, end |-> end]
        /\ IF analyzer.initialized /\ ~BreaksOff(chunk)
           THEN UNCHANGED <<analyzer, measurement, integration, live, programme, since>>
           ELSE Configured(chunk)

-----------------------------------------------------------------------------

WindowsInit ==
    /\ analyzer = Uninitialized
    /\ measurement = NoTrack /\ live = ClearedLive
    /\ integration = NoTrack /\ programme = ClearedProgramme
    /\ input = [processing |-> FALSE, frame |-> 0, cut |-> 0, end |-> 0]
    /\ since = [measurement |-> 0, integration |-> 0, programme |-> 0]

Fits(length) == input.end + length <= LastFrame

NextChunk(length, rate, generation) ==
    [start |-> input.end, length |-> length, rate |-> rate, generation |-> generation,
     sequence |-> 1, followsDiscontinuity |-> FALSE]

Present(length) == NextChunk(length, analyzer.rate, analyzer.generation)

ProcessFirst(length, rate, resetAt) ==
    /\ ~analyzer.initialized /\ Fits(length)
    /\ Process(NextChunk(length, rate, 1), resetAt)

ProcessNext(length, resetAt) ==
    /\ analyzer.initialized /\ Fits(length)
    /\ Process(Present(length), resetAt)

(* A chunk of another rate, of another generation, behind a marked         *)
(* discontinuity, or behind a chunk this analyzer never saw.               *)
ProcessBroken(length, rate, resetAt) ==
    /\ analyzer.initialized /\ Fits(length)
    /\ LET next == Present(length)
       IN  \/ rate # analyzer.rate /\ Process([next EXCEPT !.rate = rate], resetAt)
           \/ Process([next EXCEPT !.generation = 3 - @], resetAt)
           \/ Process([next EXCEPT !.followsDiscontinuity = TRUE], resetAt)
           \/ /\ Fits(length + 1)
              /\ Process([next EXCEPT !.sequence = 2, !.start = @ + 1], resetAt)

(* processFrames: one turn of its loop                                     *)
TakeFrame ==
    /\ input.processing /\ input.frame < input.cut
    /\ Measure(input.frame + 1) /\ Integrate(input.frame + 1)
    /\ input' = [input EXCEPT !.frame = @ + 1]
    /\ UNCHANGED <<analyzer, since>>

ResetInsideChunk ==
    /\ input.processing /\ input.frame = input.cut /\ input.cut < input.end
    /\ IntegrationCleared(input.frame)
    /\ input' = [input EXCEPT !.cut = input.end]
    /\ UNCHANGED <<analyzer, measurement, live>>

ChunkProcessed ==
    /\ input.processing /\ input.frame = input.end
    /\ input' = [input EXCEPT !.processing = FALSE]
    /\ analyzer' = [analyzer EXCEPT !.end = input.end]
    /\ UNCHANGED <<measurement, integration, live, programme, since>>

(* applyFullReset: a chunk with invalid metadata, or one of the four resets *)
(* of the coordinator.                                                     *)
ApplyFullReset ==
    /\ analyzer' = Uninitialized
    /\ measurement' = NoTrack /\ live' = ClearedLive
    /\ integration' = NoTrack /\ programme' = ClearedProgramme
    /\ UNCHANGED <<input, since>>

ResetIntegration ==
    /\ analyzer.initialized
    /\ IntegrationCleared(analyzer.end)
    /\ UNCHANGED <<analyzer, measurement, live, input>>

(* clearFiltersAndPartialHops                                              *)
ClearLiveMeasurementsPreservingIntegration ==
    /\ analyzer.initialized
    /\ measurement' = EmptyTrack(analyzer.rate) /\ live' = ClearedLive
    /\ integration' = EmptyTrack(analyzer.rate)
    /\ since' = [since EXCEPT !.measurement = analyzer.end, !.integration = analyzer.end]
    /\ UNCHANGED <<analyzer, programme, input>>

Idle == ~input.processing

WindowsNext ==
    \/ TakeFrame \/ ResetInsideChunk \/ ChunkProcessed
    \/ /\ Idle
       /\ \/ \E length \in ChunkLengths : \E offset \in 1..length :
                \/ ProcessNext(length, input.end + offset)
                \/ \E rate \in Rates : \/ ProcessFirst(length, rate, input.end + offset)
                                       \/ ProcessBroken(length, rate, input.end + offset)
          \/ ApplyFullReset
          \/ ResetIntegration
          \/ ClearLiveMeasurementsPreservingIntegration

WindowsSpec == WindowsInit /\ [][WindowsNext]_windowVars

-----------------------------------------------------------------------------
(* Properties                                                              *)

HopsBetween(start, end, rate) ==
    Cardinality({n \in 1..(end - start) : start + BoundaryFrame(rate, n) <= end})

WholeWindow(end, hops, rate) == (end - BoundaryFrame(rate, hops) + 1)..end

(* However long it runs and wherever chunks are cut, the live windows end  *)
(* on the tenth of a second they belong to, counted without drift from the *)
(* first measured frame, cover exactly the frames of the last 4 and 30     *)
(* tenths, and none is ever missing (LoudnessAnalyzer.cpp:564-652,698-729).*)
LiveWindowsExact ==
    analyzer.initialized =>
        LET rate == analyzer.rate
            hops == HopsBetween(since.measurement, input.frame, rate)
            expected(count) == IF hops < count THEN NoWindow
                               ELSE WholeWindow(live.end, count, rate)
        IN  /\ hops > 0 => live.end = since.measurement + BoundaryFrame(rate, hops)
            /\ live.momentary = expected(MomentaryHops)
            /\ live.shortTerm = expected(ShortTermHops)

(* The integrated loudness is made of whole 400 ms blocks that begin at or *)
(* behind the frame of the last reset, even when it fell inside a chunk,   *)
(* and of every block since: no frame before the reset leaks into it and   *)
(* no block is skipped (LoudnessAnalyzer.cpp:59-116,496-527,654-670).      *)
ProgrammeStartsAtReset ==
    analyzer.initialized =>
        LET rate == analyzer.rate
            hops == HopsBetween(since.integration, input.frame, rate)
        IN  /\ \A f \in programme.frames : f > since.programme
            /\ hops >= MomentaryHops =>
                  /\ programme.end = since.integration + BoundaryFrame(rate, hops)
                  /\ programme.block = WholeWindow(programme.end, MomentaryHops, rate)
                  /\ (since.integration + 1)..programme.end \subseteq programme.frames
=============================================================================
