--------------------------- MODULE CaptureBoundary ---------------------------
(***************************************************************************)
(* Capture lifecycles and capture boundaries of one plug-in instance         *)
(* (src/src/analysis/AnalysisCoordinator.cpp): how a gap in the captured     *)
(* audio ends one capture generation and begins another, how the boundary is *)
(* delivered to the renderer before anything measured after it, and how that *)
(* interleaves with activation, format changes and reconfiguration.          *)
(*                                                                         *)
(* Threads: the audio thread captures blocks; the worker executes jobs; the  *)
(* message thread requests jobs, copies frames and markers and may discard   *)
(* pending columns; activation changes run on the message thread, format     *)
(* changes and reconfigurations on the host's.  The parts they meet in are   *)
(* abstracted to what their own modules establish: the chunks ready in       *)
(* StereoSampleCapture (module SampleCapture), the snapshot exchange as the  *)
(* mailbox of module LatestMailbox, the column queue by the boundary markers *)
(* in it (module ColumnQueue), the scheduler by its client's generation and  *)
(* requested flag (module SharedAnalysisScheduler).                          *)
(***************************************************************************)
EXTENDS Integers, Sequences, SequencesExt

CONSTANTS
    SlotCount,      \* StereoSampleCapture::slotCount
    MaxBlocks,      \* bound: audio blocks captured
    MaxChanges,     \* bound: lifecycle changes and reconfigurations
    MaxFailures,    \* bound: boundary markers the full queue refuses
    MaxDiscards     \* bound: discards by the user interface

ASSUME BoundaryAssumption ==
    /\ SlotCount \in Nat \ {0}
    /\ {MaxBlocks, MaxChanges, MaxFailures, MaxDiscards} \subseteq Nat

VARIABLES
    active,     \* activeCaptureGeneration, activeCaptureLifecycleGeneration
    current,    \* currentCaptureGeneration, ...LifecycleGeneration, currentJobGeneration
    counter,    \* captureGenerationCounter
    captured,   \* captureRevision
    analyzed,   \* lastAnalyzedCaptureRevision
    requested,  \* lastRequestedCaptureRevision_
    block,      \* captureAudioBlock(): control point and locals
    loss,       \* the discontinuity revision of the samples, its lifecycle and
                \* the revision acknowledged
    raw,        \* the chunks ready in the sample capture
    meter,      \* the latest meter reading not yet consumed
    job,        \* the scheduler client's generation and requested flag
    worker,     \* execute(): control point and locals
    episode,    \* the capture-boundary state that is the worker's own
    applied,    \* appliedCaptureDiscontinuityRevision
    awaiting,   \* frame- and spectrogramBoundaryAwaitingGeneration
    frame,      \* the newest frame not yet copied
    markers,    \* the generations of the boundary markers in the column queue
    message,    \* control point of the message thread, what it holds
    change,     \* the operation that holds lifecycleMutex_, its control point
    counts,     \* bounds: changes, failures, discards so far
    content,    \* history: the input analysed since the last reset
    seen        \* history: boundary frames and markers the renderer accepted in
                \* this lifecycle, and whether a discard retired a marker awaited

captureVars == <<captured, block, loss, meter>>
workVars    == <<worker, episode, applied, analyzed, content>>
vars == <<active, current, counter, captured, analyzed, requested, block, loss, raw,
          meter, job, worker, episode, applied, awaiting, frame, markers, message,
          change, counts, content, seen>>

Inputs == [life : Nat, revision : Nat]
NoInput == [life |-> 0, revision |-> 0]
NoFrame == [generation |-> 0, boundary |-> FALSE]
NoBlock == [pc |-> "idle", life |-> 0, input |-> NoInput, dropped |-> FALSE]
Steady == [phase |-> "steady", revision |-> 0, generation |-> 0, marker |-> FALSE,
           dirty |-> FALSE, pending |-> FALSE, covered |-> 0,
           raw |-> NoInput, meter |-> NoInput]
IdleWorker == [pc |-> "idle", job |-> 0, capture |-> 0, life |-> 0, atStart |-> 0,
               resume |-> FALSE, use |-> "result", input |-> NoInput, turn |-> 0,
               changed |-> FALSE, processed |-> FALSE]

NothingSeen == [frames |-> {}, markers |-> {}, lost |-> FALSE]
Changes == {"activate", "deactivate", "format", "reconfigure"}

\* The types of the state
TypeOK ==
    /\ active \in [capture : Nat, life : Nat]
    /\ current \in [capture : Nat, life : Nat, job : Nat]
    /\ {counter, captured, analyzed, requested, applied} \subseteq Nat
    /\ block \in [pc : {"idle", "publish", "store", "count"}, life : Nat,
                  input : Inputs, dropped : BOOLEAN]
    /\ loss \in [revision : Nat, life : Nat, acknowledged : Nat]
    /\ raw \in Seq(Inputs) /\ Len(raw) <= SlotCount
    /\ meter \in Inputs
    /\ job \in [generation : Nat, requested : BOOLEAN]
    /\ worker \in [pc : {"idle", "start", "marker", "putMarker", "check", "put",
                         "await", "advance", "acquire", "chunk", "meters", "meter",
                         "reading", "finish"},
                   job : Nat, capture : Nat, life : Nat, atStart : Nat,
                   resume : BOOLEAN, use : {"boundary", "republish", "result"},
                   input : Inputs, turn : 0..(SlotCount - 1),
                   changed : BOOLEAN, processed : BOOLEAN]
    /\ episode \in [phase : {"steady", "publishing", "awaiting", "recovering"},
                    revision : Nat, generation : Nat, marker : BOOLEAN,
                    dirty : BOOLEAN, pending : BOOLEAN, covered : Nat,
                    raw : Inputs, meter : Inputs]
    /\ awaiting \in [frame : Nat, marker : Nat]
    /\ frame \in [generation : Nat, boundary : BOOLEAN]
    /\ markers \subseteq Nat
    /\ message \in [pc : {"idle", "checkFrame", "ackFrame", "checkMarker",
                          "ackMarker", "discard"},
                    held : [generation : Nat, boundary : BOOLEAN]]
    /\ change \in [op : Changes \cup {"none"},
                   pc : {"none", "close", "cancel", "wait", "open"}]
    /\ counts \in [changes : 0..MaxChanges, failures : 0..MaxFailures,
                   discards : 0..MaxDiscards]
    /\ content \subseteq Inputs
    /\ seen \in [frames : SUBSET Nat, markers : SUBSET Nat, lost : BOOLEAN]

Init ==
    /\ active = [capture |-> 0, life |-> 0]
    /\ current = [capture |-> 0, life |-> 0, job |-> 0]
    /\ counter = 0 /\ captured = 0 /\ analyzed = 0 /\ requested = 0
    /\ block = NoBlock
    /\ loss = [revision |-> 0, life |-> 0, acknowledged |-> 0]
    /\ raw = << >> /\ meter = NoInput
    /\ job = [generation |-> 1, requested |-> FALSE]
    /\ worker = IdleWorker /\ episode = Steady /\ applied = 0
    /\ awaiting = [frame |-> 0, marker |-> 0]
    /\ frame = NoFrame /\ markers = {}
    /\ message = [pc |-> "idle", held |-> NoFrame]
    /\ change = [op |-> "none", pc |-> "none"]
    /\ counts = [changes |-> 0, failures |-> 0, discards |-> 0]
    /\ content = {}
    /\ seen = NothingSeen

CaptureActive == active.life # 0 /\ active.capture # 0
Later(a, b) == IF a > b THEN a ELSE b

-----------------------------------------------------------------------------
(***************************************************************************)
(* captureAudioBlock() on the audio thread.  A block is one chunk.           *)
(***************************************************************************)
BlockAdmits ==
    /\ block.pc = "idle"
    /\ CaptureActive
    /\ change.op # "format"     \* the host sets a format while audio is stopped
    /\ captured < MaxBlocks
    /\ block' = [NoBlock EXCEPT !.pc = "publish", !.life = active.life]
    /\ UNCHANGED <<active, current, counter, captured, requested, loss, raw, meter, job,
                   workVars, awaiting, frame, markers, message, change, counts, seen>>

\* Slots the worker holds through read handles
HoldsChunk == worker.pc \in {"chunk", "marker", "putMarker", "check", "put"}
              /\ worker.input # NoInput
Held == (IF HoldsChunk THEN 1 ELSE 0) + (IF episode.raw # NoInput THEN 1 ELSE 0)

\* The producer enters the block's lifecycle, retiring what it had captured
Entered(life) ==
    IF loss.life = life THEN [revision |-> loss.revision, raw |-> raw]
    ELSE [revision |-> 0, raw |-> << >>]

\* A loss opens a revision unless the one before is not yet acknowledged
LossRevision(revision) ==
    IF revision = 0 \/ revision = loss.acknowledged THEN captured + 1 ELSE revision

\* samples.publishBlock(): a free slot; else the oldest ready chunk is
\* reclaimed; else the block is dropped.  The revision is announced before the
\* chunk stamped with it is stored.  (Module SampleCapture has the reclaim and
\* the announcement as the two steps they are.)
BlockPublishes ==
    /\ block.pc = "publish"
    /\ LET entered  == Entered(block.life)
           full     == Len(entered.raw) + Held >= SlotCount
           dropped  == full /\ entered.raw = << >>
           revision == IF full THEN LossRevision(entered.revision) ELSE entered.revision
       IN  /\ raw' = IF full /\ ~dropped THEN Tail(entered.raw) ELSE entered.raw
           /\ loss' = [loss EXCEPT !.life = block.life, !.revision = revision]
           /\ block' = [block EXCEPT !.pc = "store", !.dropped = dropped,
                                     !.input = [life |-> block.life, revision |-> revision]]
    /\ UNCHANGED <<active, current, counter, captured, requested, meter, job, workVars,
                   awaiting, frame, markers, message, change, counts, seen>>

\* The end of samples.publishBlock(), and meters.publishBlock()
BlockStores ==
    /\ block.pc = "store"
    /\ raw' = IF block.dropped THEN raw ELSE Append(raw, block.input)
    /\ meter' = block.input
    /\ block' = [block EXCEPT !.pc = "count"]
    /\ UNCHANGED <<active, current, counter, captured, requested, loss, job, workVars,
                   awaiting, frame, markers, message, change, counts, seen>>

BlockCounts ==
    /\ block.pc = "count"
    /\ captured' = captured + 1
    /\ block' = NoBlock
    /\ UNCHANGED <<active, current, counter, requested, loss, raw, meter, job, workVars,
                   awaiting, frame, markers, message, change, counts, seen>>

-----------------------------------------------------------------------------
(***************************************************************************)
(* execute() on the worker.                                                  *)
(***************************************************************************)
\* samples.captureDiscontinuityRevision(lifecycle)
Published(life) == IF loss.life = life THEN loss.revision ELSE 0

Stopped == worker.job # job.generation \/ worker.job # current.job
LifeHolds == worker.life = current.life /\ worker.life = active.life
CaptureHolds == worker.capture = current.capture /\ worker.capture = active.capture
JobValid == ~Stopped /\ LifeHolds /\ CaptureHolds

Go(pc) == [worker EXCEPT !.pc = pc]

JobStarts ==
    /\ worker.pc = "idle"
    /\ job.requested
    /\ job' = [job EXCEPT !.requested = FALSE]
    /\ worker' = [IdleWorker EXCEPT
           !.pc = "start", !.job = job.generation, !.capture = current.capture,
           !.life = current.life, !.atStart = captured]
    /\ UNCHANGED <<active, current, counter, captureVars, raw, requested, episode,
                   applied, analyzed, content, awaiting, frame, markers, message,
                   change, counts, seen>>

\* The retained input of a recovery comes first; a recovery that has analysed
\* all of it but could not publish the result only publishes
DirtyRecovery ==
    /\ episode.phase = "recovering"
    /\ episode.pending \/ (episode.dirty /\ episode.raw = NoInput /\ episode.meter = NoInput)

\* It awaits the delivery of its boundary without holding the worker
AwaitedFrame == awaiting.frame # 0
Awaited == awaiting.frame # 0 \/ awaiting.marker # 0
JobAwaits ==
    /\ worker.pc = "await"
    /\ worker' = IF Awaited THEN IdleWorker ELSE Go("advance")
    /\ episode' = IF Awaited THEN episode ELSE [episode EXCEPT !.phase = "recovering"]
    /\ UNCHANGED <<active, current, counter, captureVars, raw, requested, job,
                   applied, analyzed, content, awaiting, frame, markers, message,
                   change, counts, seen>>

JobEnters ==
    /\ worker.pc = "start"
    /\ worker' =
           IF ~(JobValid /\ CaptureActive) THEN IdleWorker
           ELSE CASE episode.phase = "publishing" ->
                       [worker EXCEPT !.resume = TRUE,
                                      !.use = "boundary",
                                      !.pc = IF episode.marker THEN "check" ELSE "marker"]
                  [] episode.phase = "awaiting" -> Go("await")
                  [] DirtyRecovery -> [worker EXCEPT !.pc = "check", !.use = "republish"]
                  [] OTHER -> Go("advance")
    /\ episode' = IF JobValid /\ CaptureActive /\ DirtyRecovery
                  THEN [episode EXCEPT !.pending = TRUE] ELSE episode
    /\ UNCHANGED <<active, current, counter, captureVars, raw, requested, job,
                   applied, analyzed, content, awaiting, frame, markers, message,
                   change, counts, seen>>

\* The compare-exchange of activeCaptureGeneration, after the checks before it
MayBegin == ~Stopped /\ LifeHolds
BlindStore == TRUE
WinsGeneration == active.capture = worker.capture

\* A new capture generation for the audio after revision r; the analysis state
\* is reset and what is pending in the column queue is discarded.  Otherwise the
\* job ends, and drops the input it holds
BeginsEpisode(r, chunk, reading) ==
    IF MayBegin /\ WinsGeneration
    THEN /\ counter' = counter + 1
         /\ active' = [active EXCEPT !.capture = counter + 1]
         /\ current' = [current EXCEPT !.capture = counter + 1]
         /\ applied' = r
         /\ episode' = [Steady EXCEPT !.phase = "publishing", !.revision = r,
                                      !.generation = counter + 1, !.meter = reading]
         /\ content' = {}
         /\ markers' = markers \cap {awaiting.marker}
         /\ worker' = [worker EXCEPT !.pc = "marker", !.use = "boundary",
                                     !.capture = counter + 1, !.input = chunk]
    ELSE /\ worker' = IdleWorker
         /\ episode' = [episode EXCEPT !.meter = reading]
         /\ UNCHANGED <<active, current, counter, applied, content, markers>>

\* advanceToLatestCaptureDiscontinuity(), before every acquisition and before
\* the meter reading is consumed
JobAdvances ==
    /\ worker.pc \in {"advance", "meters"}
    /\ IF Published(worker.life) > applied /\ episode.phase = "steady"
       THEN BeginsEpisode(Published(worker.life), NoInput, NoInput)
       ELSE /\ worker' = Go(IF worker.pc = "meters" THEN "meter" ELSE "acquire")
            /\ episode' = IF episode.phase = "steady" THEN episode ELSE
                   [episode EXCEPT !.revision = Later(@, Published(worker.life))]
            /\ UNCHANGED <<active, current, counter, applied, content, markers>>
    /\ UNCHANGED <<captureVars, raw, requested, job, analyzed, awaiting, frame,
                   message, change, counts, seen>>

\* publishCaptureBoundaryArtifacts(): the marker is awaited before it is in the
\* queue, and no longer when the queue refuses it
JobAwaitsMarker ==
    /\ worker.pc = "marker"
    /\ IF JobValid /\ awaiting.marker \in {0, worker.capture}
       THEN /\ awaiting' = [awaiting EXCEPT !.marker = worker.capture]
            /\ worker' = Go("putMarker")
       ELSE UNCHANGED awaiting /\ worker' = IdleWorker
    /\ UNCHANGED <<active, current, counter, captureVars, raw, requested, job, episode,
                   applied, analyzed, content, frame, markers, message, change, counts,
                   seen>>

JobPutsMarker ==
    /\ worker.pc = "putMarker"
    /\ markers' = markers \cup {worker.capture}
    /\ episode' = [episode EXCEPT !.marker = TRUE]
    /\ worker' = Go("check")
    /\ UNCHANGED <<active, current, counter, captureVars, raw, requested, job, applied,
                   analyzed, content, awaiting, frame, message, change, counts, seen>>

\* Every slot of the queue is being read or holds a boundary marker
MarkerRefused ==
    /\ worker.pc = "putMarker"
    /\ counts.failures < MaxFailures
    /\ counts' = [counts EXCEPT !.failures = @ + 1]
    /\ awaiting' = [awaiting EXCEPT !.marker = 0]
    /\ worker' = IdleWorker
    /\ UNCHANGED <<active, current, counter, captureVars, raw, requested, job, episode,
                   applied, analyzed, content, frame, markers, message, change, seen>>

\* publishWorkingFrame(): the checks, ...
JobChecksFrame ==
    /\ worker.pc = "check"
    /\ IF JobValid
       THEN /\ worker' = Go("put")
            /\ awaiting' = IF worker.use = "boundary"
                           THEN [awaiting EXCEPT !.frame = worker.capture] ELSE awaiting
            /\ UNCHANGED analyzed
       ELSE /\ worker' = IdleWorker
            /\ analyzed' = IF worker.use = "result" /\ episode.phase = "steady"
                           THEN worker.atStart ELSE analyzed
            /\ UNCHANGED awaiting
    /\ UNCHANGED <<active, current, counter, captureVars, raw, requested, job, episode,
                   applied, content, frame, markers, message, change, counts, seen>>

\* ... the publication, and what the callers do next: await the delivery of the
\* boundary, retaining input from after the gap; complete the recovery
Completes == worker.use = "republish" \/ (episode.phase = "recovering" /\ worker.processed)
LatestRevision == captured
CoveredRevision == IF Completes THEN episode.covered ELSE worker.atStart
RetainedChunk ==
    IF worker.input.revision >= episode.revision THEN worker.input ELSE NoInput

JobPutsFrame ==
    /\ worker.pc = "put"
    /\ frame' = [generation |-> worker.capture, boundary |-> worker.use = "boundary"]
    /\ IF worker.use = "boundary"
       THEN /\ episode' = [episode EXCEPT !.phase = "awaiting",
                               !.raw = IF worker.resume THEN @ ELSE RetainedChunk]
            /\ worker' = IF worker.resume THEN Go("await") ELSE IdleWorker
            /\ UNCHANGED <<applied, analyzed, loss>>
       ELSE /\ worker' = IdleWorker
            /\ IF Completes
               THEN /\ applied' = episode.revision
                    /\ loss' = [loss EXCEPT !.acknowledged = episode.revision]
                    /\ episode' = Steady
               ELSE UNCHANGED <<applied, loss, episode>>
            /\ analyzed' = CoveredRevision
    /\ UNCHANGED <<active, current, counter, captured, block, raw, meter, requested, job,
                   content, awaiting, markers, message, change, counts, seen>>

\* The chunk retained for the recovery (one retained for a loudness reset is with
\* module LoudnessReset), else any chunk that is ready, as the sample capture can
\* hand out a newer one first.  None when there is none, or when the one picked has
\* been reclaimed by a block since: tryAcquireOldest()'s compare-exchange fails
JustReclaimed == block.pc = "store" /\ ~block.dropped /\ block.input.revision # 0
NothingAcquired == raw = << >> \/ JustReclaimed
JobAcquires ==
    /\ worker.pc = "acquire"
    /\ \/ /\ episode.phase = "recovering" /\ episode.raw # NoInput
          /\ worker' = [worker EXCEPT !.pc = "chunk", !.input = episode.raw]
          /\ episode' = [episode EXCEPT !.raw = NoInput]
          /\ UNCHANGED raw
       \/ /\ ~(episode.phase = "recovering" /\ episode.raw # NoInput)
          /\ \/ NothingAcquired /\ worker' = [Go("meters") EXCEPT !.turn = 0] /\ UNCHANGED raw
             \/ \E i \in DOMAIN raw :
                    /\ worker' = [worker EXCEPT !.pc = "chunk", !.input = raw[i]]
                    /\ raw' = RemoveAt(raw, i)
          /\ UNCHANGED episode
    /\ UNCHANGED <<active, current, counter, captureVars, requested, job, applied,
                   analyzed, content, awaiting, frame, markers, message, change,
                   counts, seen>>

\* The revision below which input is from before the gap
Minimum == IF episode.phase = "recovering" THEN episode.revision ELSE applied
Observed == Later(worker.input.revision, Published(worker.life))
Unstamped == FALSE
BeforeGap == worker.input.revision < Minimum

\* At most SlotCount chunks in a job
NextTurn ==
    LET again == worker.turn + 1 < SlotCount
    IN  [worker EXCEPT !.input = NoInput, !.turn = IF again THEN @ + 1 ELSE 0,
                       !.pc = IF again THEN "advance" ELSE "meters"]

\* Input analysed: it belongs to the next frame, and makes a recovery dirty
Analysed(next) ==
    /\ content' = content \cup {worker.input}
    /\ worker' = [next EXCEPT !.changed = TRUE,
                              !.processed = @ \/ episode.phase = "recovering"]
    /\ episode' = IF episode.phase # "recovering" THEN episode
                  ELSE [episode EXCEPT !.dirty = TRUE,
                           !.covered = IF @ = 0 THEN worker.atStart ELSE @]

Ignored(next) == worker' = next /\ UNCHANGED <<content, episode>>

\* A chunk of another lifecycle is dropped.  One that shows a gap begins an
\* episode, and is kept for the recovery if it is from after the gap.  One from
\* before the gap is dropped
JobTakesChunk ==
    /\ worker.pc = "chunk"
    /\ IF worker.input.life # worker.life
       THEN Ignored(NextTurn) /\ UNCHANGED <<active, current, counter, applied, markers>>
       ELSE IF Observed > Minimum /\ episode.phase = "steady"
       THEN BeginsEpisode(Observed, worker.input, NoInput)
       ELSE /\ IF BeforeGap THEN Ignored(NextTurn) ELSE Analysed(NextTurn)
            /\ UNCHANGED <<active, current, counter, applied, markers>>
    /\ UNCHANGED <<captureVars, raw, requested, job, analyzed, awaiting, frame,
                   message, change, counts, seen>>

JobTakesReading ==
    /\ worker.pc = "meter"
    /\ IF episode.phase = "recovering" /\ episode.meter # NoInput
       THEN /\ worker' = [worker EXCEPT !.pc = "reading", !.input = episode.meter]
            /\ episode' = [episode EXCEPT !.meter = NoInput]
            /\ UNCHANGED meter
       ELSE /\ worker' = [worker EXCEPT !.pc = "reading", !.input = meter]
            /\ meter' = NoInput
            /\ UNCHANGED episode
    /\ UNCHANGED <<active, current, counter, captured, block, loss, raw, requested, job,
                   applied, analyzed, content, awaiting, frame, markers, message,
                   change, counts, seen>>

\* The reading is treated like a chunk, except that it is retained before the
\* episode begins
WithoutReading == [worker EXCEPT !.pc = "finish", !.input = NoInput]
JobUsesReading ==
    /\ worker.pc = "reading"
    /\ IF worker.input.life # worker.life
       THEN Ignored(WithoutReading) /\ UNCHANGED <<active, current, counter, applied, markers>>
       ELSE IF Observed > Minimum /\ episode.phase = "steady"
       THEN BeginsEpisode(Observed, NoInput,
                IF worker.input.revision >= Observed THEN worker.input ELSE NoInput)
       ELSE /\ IF BeforeGap THEN Ignored(WithoutReading) ELSE Analysed(WithoutReading)
            /\ UNCHANGED <<active, current, counter, applied, markers>>
    /\ UNCHANGED <<captureVars, raw, requested, job, analyzed, awaiting, frame,
                   message, change, counts, seen>>

\* The last checks; without new input there is no frame to publish
JobFinishes ==
    /\ worker.pc = "finish"
    /\ worker' = IF JobValid /\ worker.changed
                 THEN [worker EXCEPT !.pc = "check", !.use = "result"] ELSE IdleWorker
    /\ episode' = IF JobValid /\ worker.changed /\ worker.processed
                  THEN [episode EXCEPT !.pending = TRUE] ELSE episode
    /\ analyzed' = IF JobValid /\ ~worker.changed THEN worker.atStart ELSE analyzed
    /\ UNCHANGED <<active, current, counter, captureVars, raw, requested, job, applied,
                   content, awaiting, frame, markers, message, change, counts, seen>>

-----------------------------------------------------------------------------
(***************************************************************************)
(* The message thread.  Its display-link callback requests a job, copies the *)
(* latest frame and copies the columns, again and again; the model lets the  *)
(* three calls come in any order, and leaves out those that find nothing to  *)
(* do.  The user interface discards columns between callbacks.               *)
(***************************************************************************)
NewBlock == captured > Later(requested, analyzed)
NewCapture == captured > Later(requested, analyzed) \/ episode.phase # "steady"

\* requestAnalysis(), when it is due, under lifecycleMutex_
Tick ==
    /\ message.pc = "idle"
    /\ change.op = "none"
    /\ CaptureActive /\ ~Awaited /\ NewCapture
    /\ job' = [job EXCEPT !.requested = TRUE]
    /\ requested' = IF episode.phase = "steady" THEN captured ELSE requested
    /\ UNCHANGED <<active, current, counter, captureVars, raw, workVars, awaiting, frame,
                   markers, message, change, counts, seen>>

\* Activation and deactivation occupy the message thread
MayCopy == CaptureActive /\ change.op \notin {"activate", "deactivate"}

\* copyLatestVisualizationFrame(): a destructive copy, ...
TakeFrame ==
    /\ message.pc = "idle"
    /\ MayCopy
    /\ frame # NoFrame
    /\ message' = [pc |-> "checkFrame", held |-> frame]
    /\ frame' = NoFrame
    /\ UNCHANGED <<active, current, counter, captureVars, raw, requested, job, workVars,
                   awaiting, markers, change, counts, seen>>

\* ... accepted when it is of the generation active now, ...
HeldIsCurrent == active.life # 0 /\ message.held.generation = active.capture
IdleMessage == [pc |-> "idle", held |-> NoFrame]

CheckFrame ==
    /\ message.pc = "checkFrame"
    /\ message' = IF HeldIsCurrent /\ message.held.boundary
                  THEN [message EXCEPT !.pc = "ackFrame"] ELSE IdleMessage
    /\ seen' = IF HeldIsCurrent /\ message.held.boundary
               THEN [seen EXCEPT !.frames = @ \cup {message.held.generation}] ELSE seen
    /\ UNCHANGED <<active, current, counter, captureVars, raw, requested, job, workVars,
                   awaiting, frame, markers, change, counts>>

\* ... and acknowledged if it is the boundary the worker awaits
AckOf(awaited) == IF awaited = message.held.generation THEN 0 ELSE awaited

AckFrame ==
    /\ message.pc = "ackFrame"
    /\ awaiting' = [awaiting EXCEPT !.frame = AckOf(@)]
    /\ message' = IdleMessage
    /\ UNCHANGED <<active, current, counter, captureVars, raw, requested, job, workVars,
                   frame, markers, change, counts, seen>>

\* copyNextSpectrogramColumn(), the same with the oldest boundary marker
TakeMarker ==
    /\ message.pc = "idle"
    /\ MayCopy
    /\ \E g \in markers :
           /\ \A h \in markers : g <= h
           /\ message' = [pc |-> "checkMarker", held |-> [generation |-> g, boundary |-> TRUE]]
           /\ markers' = markers \ {g}
    /\ UNCHANGED <<active, current, counter, captureVars, raw, requested, job, workVars,
                   awaiting, frame, change, counts, seen>>

CheckMarker ==
    /\ message.pc = "checkMarker"
    /\ message' = IF HeldIsCurrent THEN [message EXCEPT !.pc = "ackMarker"]
                  ELSE IdleMessage
    /\ seen' = IF HeldIsCurrent
               THEN [seen EXCEPT !.markers = @ \cup {message.held.generation}] ELSE seen
    /\ UNCHANGED <<active, current, counter, captureVars, raw, requested, job, workVars,
                   awaiting, frame, markers, change, counts>>

AckMarker ==
    /\ message.pc = "ackMarker"
    /\ awaiting' = [awaiting EXCEPT !.marker = AckOf(@)]
    /\ message' = IdleMessage
    /\ UNCHANGED <<active, current, counter, captureVars, raw, requested, job, workVars,
                   frame, markers, change, counts, seen>>

\* discardPendingSpectrogramColumns(): the generation awaited is read, ...
Discard ==
    /\ message.pc = "idle"
    /\ change.op \notin {"activate", "deactivate"}
    /\ counts.discards < MaxDiscards
    /\ counts' = [counts EXCEPT !.discards = @ + 1]
    /\ message' = [pc |-> "discard", held |-> [generation |-> awaiting.marker,
                                               boundary |-> FALSE]]
    /\ UNCHANGED <<active, current, counter, captureVars, raw, requested, job, workVars,
                   awaiting, frame, markers, change, seen>>

\* ... then every column but its boundary marker is retired
DiscardColumns ==
    /\ message.pc = "discard"
    /\ markers' = markers \cap {message.held.generation}
    /\ seen' = [seen EXCEPT !.lost = @ \/ awaiting.marker \in markers \ markers']
    /\ message' = IdleMessage
    /\ UNCHANGED <<active, current, counter, captureVars, raw, requested, job, workVars,
                   awaiting, frame, change, counts>>

-----------------------------------------------------------------------------
(***************************************************************************)
(* setVisualizationActive() on the message thread, setCaptureFormat() and    *)
(* the spectrum configuration on a host's thread, under lifecycleMutex_.     *)
(***************************************************************************)
Starts(op) ==
    /\ change.op = "none"
    /\ counts.changes < MaxChanges
    /\ counts' = [counts EXCEPT !.changes = @ + 1]
    /\ op \in {"activate", "deactivate"} => message.pc = "idle"
    /\ CaptureActive <=> op # "activate"
    /\ op = "format" => block.pc = "idle"

\* closeCapture(): the capture generation first ...
CloseGeneration(op) ==
    /\ op # "reconfigure"
    /\ Starts(op)
    /\ active' = [active EXCEPT !.capture = 0]
    /\ change' = [op |-> op, pc |-> "close"]
    /\ UNCHANGED <<current, counter, captureVars, raw, requested, job, workVars, awaiting,
                   frame, markers, message, seen>>

\* ... then the lifecycle
CloseLifecycle ==
    /\ change.pc = "close"
    /\ active' = [active EXCEPT !.life = 0]
    /\ change' = [change EXCEPT !.pc = "cancel"]
    /\ UNCHANGED <<current, counter, captureVars, raw, requested, job, workVars, awaiting,
                   frame, markers, message, counts, seen>>

Reconfigure ==
    /\ Starts("reconfigure")
    /\ change' = [op |-> "reconfigure", pc |-> "cancel"]
    /\ UNCHANGED <<active, current, counter, captureVars, raw, requested, job, workVars,
                   awaiting, frame, markers, message, seen>>

\* cancelAndAdvanceGeneration(); waitUntilIdle() returns when the worker is idle
CancelJobs ==
    /\ change.pc = "cancel"
    /\ job' = [generation |-> job.generation + 1, requested |-> FALSE]
    /\ change' = [change EXCEPT !.pc = "wait"]
    /\ UNCHANGED <<active, current, counter, captureVars, raw, requested, workVars,
                   awaiting, frame, markers, message, counts, seen>>

Waited(op) == change = [op |-> op, pc |-> "wait"] /\ worker.pc = "idle"
Done == change' = [op |-> "none", pc |-> "none"]
NothingAwaited == [frame |-> 0, marker |-> 0]

\* endGeneration()
Deactivates ==
    /\ Waited("deactivate")
    /\ current' = [current EXCEPT !.capture = 0, !.life = 0]
    /\ episode' = Steady
    /\ awaiting' = NothingAwaited
    /\ markers' = markers \cap {awaiting'.marker}
    /\ content' = {}
    /\ seen' = NothingSeen
    /\ Done
    /\ UNCHANGED <<active, counter, captureVars, raw, requested, job, worker, applied,
                   analyzed, frame, message, counts>>

\* beginGeneration() up to the first frame; a format change first discards what
\* had been captured
Begins ==
    /\ change.pc = "wait" /\ change.op \in {"activate", "format"} /\ worker.pc = "idle"
    /\ counter' = counter + 1
    /\ raw' = IF change.op = "format" THEN << >> ELSE raw
    /\ meter' = IF change.op = "format" THEN NoInput ELSE meter
    /\ episode' = Steady
    /\ awaiting' = NothingAwaited
    /\ markers' = markers \cap {IF change.op = "format" THEN 0 ELSE awaiting.marker}
    /\ content' = {}
    /\ applied' = Published(counter + 1)
    /\ loss' = [loss EXCEPT !.acknowledged = applied']
    /\ analyzed' = captured
    /\ frame' = [generation |-> counter + 1, boundary |-> FALSE]
    /\ change' = [change EXCEPT !.pc = "open"]
    /\ seen' = NothingSeen
    /\ UNCHANGED <<active, current, captured, block, requested, job, worker, message,
                   counts>>

\* Its generations are published last
Opens ==
    /\ change.pc = "open"
    /\ current' = [capture |-> counter, life |-> counter, job |-> job.generation]
    /\ active' = [capture |-> counter, life |-> counter]
    /\ requested' = captured
    /\ Done
    /\ UNCHANGED <<counter, captureVars, raw, job, workVars, awaiting, frame, markers,
                   message, counts, seen>>

FrameAfterReconfiguration ==
    IF episode.phase # "steady" THEN frame
    ELSE [generation |-> current.capture, boundary |-> FALSE]

\* reconfigureSpectrum(): the columns are retired and the invalidated frame is
\* published unless a boundary is pending, and the next job requested
Reconfigured ==
    /\ Waited("reconfigure")
    /\ markers' = markers \cap {awaiting.marker}
    /\ frame' = FrameAfterReconfiguration
    /\ current' = [current EXCEPT !.job = job.generation]
    /\ job' = [job EXCEPT !.requested = TRUE]
    /\ Done
    /\ UNCHANGED <<active, counter, captureVars, raw, requested, workVars, awaiting,
                   message, counts, seen>>

-----------------------------------------------------------------------------
AudioSteps == BlockPublishes \/ BlockStores \/ BlockCounts

WorkerSteps ==
    \/ JobStarts \/ JobEnters \/ JobAwaits \/ JobAdvances
    \/ JobAwaitsMarker \/ JobPutsMarker \/ JobChecksFrame \/ JobPutsFrame
    \/ JobAcquires \/ JobTakesChunk \/ JobTakesReading \/ JobUsesReading
    \/ JobFinishes

MessageSteps ==
    \/ Tick \/ TakeFrame \/ CheckFrame \/ AckFrame
    \/ TakeMarker \/ CheckMarker \/ AckMarker \/ DiscardColumns

ChangeSteps == CloseLifecycle \/ CancelJobs \/ Deactivates \/ Begins \/ Opens \/ Reconfigured

Next ==
    \/ BlockAdmits \/ AudioSteps
    \/ WorkerSteps \/ MarkerRefused
    \/ MessageSteps \/ Discard
    \/ \E op \in Changes : CloseGeneration(op)
    \/ Reconfigure \/ ChangeSteps

Spec == Init /\ [][Next]_vars

\* The display link keeps calling, the scheduler runs a requested job (module
\* SharedAnalysisScheduler), and every operation that has begun goes on; audio
\* need not arrive and nothing need change
FairSpec ==
    /\ Spec
    /\ WF_vars(AudioSteps)
    /\ WF_vars(WorkerSteps)
    /\ WF_vars(MessageSteps)
    /\ WF_vars(ChangeSteps)

-----------------------------------------------------------------------------
(***************************************************************************)
(* Properties.                                                             *)
(***************************************************************************)
\* What the analysers hold was captured in the current lifecycle and on one
\* side of every gap: audio from before a gap and from after it never meet
OneSideOfGap ==
    \A i \in content : i = [life |-> current.life,
        revision |-> IF episode.phase = "recovering" THEN episode.revision ELSE applied]

\* Recovery begins only after the renderer has accepted the boundary frame and
\* the boundary marker of this very episode
RecoveryAfterDelivery ==
    episode.phase = "recovering" =>
        episode.generation \in seen.frames \cap seen.markers

\* closeCapture(): a concurrent worker "cannot resurrect capture after the
\* lifecycle boundary"
CaptureNotResurrected ==
    change.op \in {"activate", "deactivate", "format"} => active.capture = 0

\* Every episode ends, by recovery or with its lifecycle, unless a discard
\* retired its marker
EpisodeEnds == episode.phase # "steady" ~> episode.phase = "steady" \/ seen.lost

\* Audio captured in the current lifecycle does not stay unread
Waiting == \E i \in DOMAIN raw : raw[i].life = active.life
CapturedIsAnalysed == Waiting ~> ~Waiting \/ seen.lost

\* "Implementations preserve an undelivered capture-boundary marker"
\* (VisualizationDataSource.h): a boundary marker awaited is in the queue or in
\* the renderer's hands
UndeliveredMarkerKept ==
    awaiting.marker # 0 /\ episode.marker /\ active.capture # 0 =>
        \/ awaiting.marker \in markers
        \/ message.held = [generation |-> awaiting.marker, boundary |-> TRUE]
==============================================================================
