------------------------------ MODULE Renderer ------------------------------
(***************************************************************************)
(* The Metal renderer's frames.  The display link calls back on the        *)
(* message thread, which builds a frame in a render buffer slot, drains    *)
(* spectrogram columns into the history ring and commits one command       *)
(* buffer that uploads them and draws.  The GPU runs the command buffers   *)
(* in order; a completion and a presentation callback of each frame follow *)
(* on threads of their own, in either order, frames mixed.                 *)
(*                                                                         *)
(* A callback of the message thread is cut where the GPU's callbacks can   *)
(* be seen: the gate, the slots and the commit.  A scan for a free slot is *)
(* one step: slots only become free behind its back, so what a longer scan *)
(* finds is what an earlier one would have found.                          *)
(*                                                                         *)
(* External to the code: the drawable, the command queue, how it copies to *)
(* textures, and when and whether a callback of a frame comes.             *)
(***************************************************************************)
EXTENDS SpectrogramHistory, FrameLatency

CONSTANTS
    BufferCount,     \* renderBufferCount
    ColumnCounts,    \* history columns the two history durations give
    MaxDrain,        \* maximumSpectrogramColumnsDrainedPerFrame
    Budgets          \* bounds of a behaviour, see "budget"

ASSUME RendererAssumption ==
    /\ BufferCount \in Nat \ {0}
    /\ ColumnCounts \subseteq Nat \ {0} /\ ColumnCounts # {}
    /\ MaxDrain \in Nat
    /\ Budgets \subseteq [frames : Nat, columns : Nat, changes : Nat, advances : SUBSET Nat,
                         times : SUBSET Nat, untimed : SUBSET BOOLEAN, start : ColumnCounts,
                         capacity : Nat \ {0}]

VARIABLES
    active,        \* effectiveActive
    callback,      \* displayLinkUpdate: where it is, and what it found
    history,       \* ring, signature, revisions and texture of the message thread
    pending,       \* pendingSpectrogramUpload, nextSpectrogramUploadTransaction
    settings,      \* history columns wanted, spectrogramConfigurationClearPending
    slots,         \* sharedState->slots
    gate,          \* sharedState->spectrogramUploadGate
    frames,        \* every frame begun: its submission, its command buffer, its callbacks
    queue,         \* command buffers committed and not run
    texels,        \* the history textures, by textureRevision
    screen,        \* the history drawn by the last command buffer that succeeded
    telemetry,     \* AtomicRenderTelemetry, by epoch
    resets,        \* epochs requested: the last one is pending unless it is in force
    stream,        \* the columns the analysis has published
    changes,       \* telemetry resets, activations, duration changes: bound only
    budget         \* bounds only: the callbacks, the columns of the source, the changes, the
                   \* timeline slots from one column to the next, the times a drawable may
                   \* report (0: not shown), whether the GPU's are unknown, the columns of the
                   \* history duration saved, and the samples a history keeps
                   \* (frameLatencyHistoryCapacity)

shared == <<slots, gate>>
gpu == <<queue, texels, screen>>
owner == <<active, history, pending, settings, stream, changes, budget>>
vars == <<active, callback, history, pending, settings, slots, gate, frames, queue,
          texels, screen, telemetry, resets, stream, changes, budget>>

Idle == [step |-> "idle", deferred |-> FALSE, sequence |-> 0, drained |-> 0]
BlankTexel == [generation |-> 0, slot |-> 0]
BlankTexture(count) == [c \in 0 .. count - 1 |-> BlankTexel]
FreshTelemetry ==
    [callbacks |-> 0, skipped |-> 0, presented |-> 0, samples |-> 0,
     latency |-> <<>>, shown |-> <<>>]
FreshSlot ==
    [admission |-> 0, staging |-> <<>>, valid |-> {}, columns |-> 0, next |-> 0, span |-> 0]

epoch == Len(telemetry)
building == Len(frames)

Init ==
    /\ budget \in Budgets
    /\ active = TRUE
    /\ callback = Idle
    /\ history = [ring |-> EmptyRing(0), signature |-> NoSignature, revision |-> 1,
                  texture |-> 0, textureRevision |-> 1]
    /\ pending = [upload |-> NoUpload, transaction |-> 0]
    /\ settings = [columns |-> budget.start, clear |-> FALSE]
    /\ slots = [b \in 1 .. BufferCount |-> FreshSlot]
    /\ gate = ClosedGate
    /\ frames = <<>>
    /\ queue = <<>>
    /\ texels = <<BlankTexture(0)>>
    /\ screen = {}
    /\ telemetry = <<FreshTelemetry>>
    /\ resets = 1
    /\ stream = [sequence |-> 0, slot |-> 0, generation |-> 1]
    /\ changes = 0

ClearedHistory(h) ==
    [h EXCEPT !.revision = @ + 1, !.ring = ClearedRing(@), !.signature = NoSignature]

(***************************************************************************)
(* displayLinkUpdate                                                       *)
(***************************************************************************)
\* applyPendingTelemetryAtSafeBoundary.  Requests and boundaries are all on
\* the message thread, so the pending telemetry is the newest requested.
AppliedTelemetry ==
    IF resets > epoch THEN Append(telemetry, FreshTelemetry) ELSE telemetry

\* Up to and including resolvePendingSpectrogramUpload.
BeginCallback ==
    /\ callback = Idle /\ active
    /\ building < budget.frames
    /\ LET applied  == AppliedTelemetry
           now      == Len(applied)
           sequence == applied[now].callbacks + 1
           answer   == Resolution(pending.upload, gate, history.revision, history.textureRevision)
       IN  /\ telemetry' = [applied EXCEPT ![now].callbacks = sequence]
           /\ resets' = now
           /\ callback' = [step |-> "resolved", deferred |-> gate.inFlight, sequence |-> sequence,
                          drained |-> 0]
           /\ IF gate.inFlight
              THEN UNCHANGED <<gate, pending, history>>
              ELSE /\ gate' = [gate EXCEPT !.completed = 0]
                   /\ pending' = [pending EXCEPT !.upload = NoUpload]
                   /\ history' = IF answer = "clearHistory"
                                 THEN ClearedHistory(history) ELSE history
    /\ UNCHANGED <<active, settings, slots, frames, gpu, stream, changes, budget>>

Free(b) == slots[b].admission % 2 = 0

NewFrame(b) ==
    [submission |-> NewSubmission(callback.sequence, building + 1),
     slot |-> b, admission |-> slots[b].admission + 1, epoch |-> epoch,
     texture |-> 0, uploads |-> <<>>, transaction |-> 0,
     succeeded |-> FALSE, completion |-> "none", presentation |-> "none"]

\* Rows are prepared anew for each frame.
AcquireSlot ==
    /\ callback.step = "resolved"
    /\ \E b \in 1 .. BufferCount :
          /\ Free(b) /\ \A lower \in 1 .. b - 1 : ~Free(lower)
          /\ slots' = [slots EXCEPT ![b].admission = @ + 1, ![b].staging = <<>>]
          /\ frames' = Append(frames, NewFrame(b))
    /\ callback' = [callback EXCEPT !.step = "acquired"]
    /\ UNCHANGED <<owner, gate, gpu, telemetry, resets>>

\* No slot: the callback ends with a skipped presentation of no submission.
DropFrame ==
    /\ callback.step = "resolved"
    /\ \A b \in 1 .. BufferCount : ~Free(b)
    /\ telemetry' = [telemetry EXCEPT ![epoch].skipped = @ + 1]
    /\ frames' = Append(frames, [NewFrame(1) EXCEPT !.slot = 0, !.submission.outcome = "skipped"])
    /\ callback' = Idle
    /\ UNCHANGED <<owner, shared, gpu, resets>>

Released(frame) ==
    IF slots[frame.slot].admission = frame.admission
    THEN [slots EXCEPT ![frame.slot].admission = frame.admission + 1]
    ELSE slots

\* recordSkippedPresentation, under the telemetry's lock.
RecordSkipped(f) ==
    /\ frames[f].submission.outcome = "unknown"
       => telemetry' = [telemetry EXCEPT ![frames[f].epoch].skipped = @ + 1]
    /\ frames[f].submission.outcome # "unknown" => UNCHANGED telemetry

\* The callback ends without a command buffer: no submission or no drawable
\* before the drain, or no command buffer or encoder after it.
AbandonFrame ==
    /\ callback.step \in {"acquired", "prepared"}
    /\ slots' = Released(frames[building])
    /\ RecordSkipped(building)
    /\ frames' = [frames EXCEPT ![building].submission = Skipped(@)]
    /\ history' = IF frames[building].uploads # <<>> THEN ClearedHistory(history) ELSE history
    /\ callback' = Idle
    /\ UNCHANGED <<active, pending, settings, gate, gpu, resets, stream, changes, budget>>

(***************************************************************************)
(* The drawable is there: prepareSpectrogramUploads, then the slot's state *)
(* for the shader.                                                         *)
(***************************************************************************)
BeginDrain ==
    /\ callback.step = "acquired" /\ ~callback.deferred
    /\ callback' = [callback EXCEPT !.step = "draining"]
    /\ history' = IF settings.clear THEN ClearedHistory(history) ELSE history
    /\ settings' = [settings EXCEPT !.clear = FALSE]
    /\ UNCHANGED <<active, pending, shared, frames, gpu, telemetry, resets, stream, changes,
                   budget>>

\* One turn of the loop: the source has a column, which leaves these uploads
\* prepared and their rows in the staging buffer.
Draining(column) ==
    /\ callback.step = "draining" /\ callback.drained < MaxDrain
    /\ stream.sequence < budget.columns
    /\ stream' = column
    /\ UNCHANGED <<active, pending, settings, gate, queue, screen, telemetry, resets, changes,
                   budget>>

Prepared(uploads, staging) ==
    /\ frames' = [frames EXCEPT ![building].uploads = uploads]
    /\ slots' = [slots EXCEPT ![frames[building].slot].staging = staging]

NextTurn == callback' = [callback EXCEPT !.drained = @ + 1]

\* The next column of the source, consumeSpectrumTransform in the coordinator:
\* it is numbered, moves on in the timeline and is of another generation when
\* the capture, the transform or the mapping has been configured anew.
NextColumn(s, advance, change) ==
    [sequence   |-> s.sequence + 1,
     slot       |-> IF s.slot + advance = 0 THEN s.slot + 1 ELSE s.slot + advance,
     generation |-> IF change THEN s.generation + 1 ELSE s.generation]

DrainMarker ==
    /\ Draining(NextColumn(stream, 1, FALSE))
    /\ history' = ClearedHistory(history)
    /\ Prepared(<<>>, <<>>)
    /\ NextTurn
    /\ UNCHANGED texels

\* ensureSpectrogramHistoryTexture for "count" columns; a failed allocation
\* leaves no texture and a ring of no columns.
EnsuredTexture(h, count, allocates) ==
    IF h.texture = count
    THEN [h EXCEPT !.ring = Configured(@, count)]
    ELSE [h EXCEPT !.revision = @ + 1, !.textureRevision = @ + 1,
                   !.texture = IF allocates THEN count ELSE 0,
                   !.ring = Configured(@, IF allocates THEN count ELSE 0)]

\* The loop ends without a texture, and goes on behind a refused column.
DrainColumn ==
    \E advance \in budget.advances, change, allocates \in BOOLEAN :
        LET column    == NextColumn(stream, advance, change)
            signature == [generation |-> column.generation, columns |-> settings.columns]
            clears    == MustClear(history.signature, signature)
            h         == EnsuredTexture(IF clears THEN ClearedHistory(history) ELSE history,
                                        settings.columns, allocates)
            signed    == [h EXCEPT !.signature = signature]
            uploads   == IF clears THEN <<>> ELSE frames[building].uploads
            staging   == IF clears THEN <<>> ELSE slots[frames[building].slot].staging
            appended  == AppendColumn(h.ring, column.slot, column.sequence)
            texel     == [generation |-> column.generation, slot |-> column.slot]
        IN  /\ Draining(column)
            /\ texels' = IF h.textureRevision = history.textureRevision THEN texels
                         ELSE Append(texels, BlankTexture(h.texture))
            /\ \/ /\ h.texture = 0
                  /\ history' = h
                  /\ Prepared(uploads, staging)
                  /\ callback' = [callback EXCEPT !.step = "drained"]
               \/ /\ h.texture # 0 /\ RefusedColumn(h.ring, column.slot, column.sequence)
                  /\ history' = signed
                  /\ Prepared(uploads, staging)
                  /\ NextTurn
               \/ /\ h.texture # 0 /\ ~RefusedColumn(h.ring, column.slot, column.sequence)
                  /\ history' = [signed EXCEPT !.ring = appended.ring]
                  /\ Prepared(Append(uploads, appended.column), Append(staging, texel))
                  /\ NextTurn

\* writeSpectrogramGpuState
Written(slot, ring, valid) ==
    [slot EXCEPT !.valid = valid, !.columns = ring.columns,
                 !.next = ring.next, !.span = ring.span]

\* While an upload is in flight nothing is drained and its columns are masked.
PrepareFrame ==
    /\ \/ callback.step = "acquired" /\ callback.deferred
       \/ callback.step \in {"draining", "drained"}
    /\ LET masked == IF callback.deferred THEN pending.upload.columns ELSE {}
           black  == callback.deferred /\ pending.upload = NoUpload
       IN  slots' = [slots EXCEPT ![frames[building].slot] =
                        Written(@, history.ring, RenderValidity(history.ring, masked, black))]
    /\ frames' = [frames EXCEPT ![building].texture = history.textureRevision]
    /\ callback' = [callback EXCEPT !.step = "prepared"]
    /\ UNCHANGED <<owner, gate, gpu, telemetry, resets>>

ColumnsOf(uploads) == {uploads[i] : i \in DOMAIN uploads}

\* From encodeSpectrogramUploads to the commit.  Uploads that cannot be
\* encoded clear the history and the slot is written again without a mask.
CommitFrame ==
    /\ callback.step = "prepared"
    /\ \E encoded \in BOOLEAN :
          LET frame       == frames[building]
              uploads     == encoded /\ frame.uploads # <<>>
              transaction == pending.transaction + 1
              h           == IF encoded THEN history ELSE ClearedHistory(history)
          IN  /\ frame.uploads = <<>> => encoded
              /\ history' = h
              /\ slots' = IF encoded THEN slots
                          ELSE [slots EXCEPT ![frame.slot] =
                                    Written(@, h.ring, RenderValidity(h.ring, {}, FALSE))]
              /\ pending' = IF uploads
                            THEN [upload |-> [transaction |-> transaction,
                                              history |-> history.revision,
                                              texture |-> history.textureRevision,
                                              columns |-> ColumnsOf(frame.uploads)],
                                  transaction |-> transaction]
                            ELSE pending
              /\ gate' = IF uploads THEN Begun(gate, transaction) ELSE gate
              /\ frames' = [frames EXCEPT
                              ![building].submission.cpuReady = building,
                              ![building].uploads = IF encoded THEN @ ELSE <<>>,
                              ![building].transaction = IF uploads THEN transaction ELSE 0,
                              ![building].completion = "queued"]
    /\ queue' = Append(queue, building)
    /\ callback' = Idle
    /\ UNCHANGED <<active, settings, texels, screen, telemetry, resets, stream, changes, budget>>

(***************************************************************************)
(* The GPU: one command buffer at a time, uploads before the drawing.  One *)
(* that fails leaves no telling what it wrote.  Only the shader is the     *)
(* code's.                                                                 *)
(***************************************************************************)
LastOf(uploads, c) ==
    CHOOSE i \in DOMAIN uploads :
        uploads[i] = c /\ \A j \in DOMAIN uploads : uploads[j] = c => j <= i

UploadedTexture(frame, ok) ==
    LET before  == texels[frame.texture]
        staging == slots[frame.slot].staging
    IN  [c \in DOMAIN before |->
            IF c \notin ColumnsOf(frame.uploads) THEN before[c]
            ELSE IF ok THEN staging[LastOf(frame.uploads, c)] ELSE BlankTexel]

\* audioInsightSpectrogramFragment, in Scroll mode between two columns: pairs of
\* a place on the screen and the texel drawn there.
Drawn(slot, texture) ==
    UNION {{<<place, texture[c]>> : c \in PhysicalColumn(slot, place) \cap slot.valid} :
              place \in 0 .. slot.columns - 1}

GpuRuns ==
    /\ queue # <<>>
    /\ \E ok \in BOOLEAN :
          LET f        == Head(queue)
              uploaded == UploadedTexture(frames[f], ok)
          IN  /\ texels' = [texels EXCEPT ![frames[f].texture] = uploaded]
              /\ screen' = IF ok THEN Drawn(slots[frames[f].slot], uploaded) ELSE screen
              /\ frames' = [frames EXCEPT ![f].succeeded = ok, ![f].completion = "ran",
                                           ![f].uploads = <<>>]
    /\ queue' = Tail(queue)
    /\ UNCHANGED <<owner, callback, shared, telemetry, resets>>

(***************************************************************************)
(* The completed handler of a command buffer.                              *)
(***************************************************************************)
CompletionAt(f, here) == frames[f].completion = here

PublishUpload(f) ==
    /\ CompletionAt(f, "ran") /\ frames[f].transaction # 0
    /\ gate' = ResultPublished(gate, frames[f].transaction, frames[f].succeeded)
    /\ frames' = [frames EXCEPT ![f].completion = "published"]
    /\ UNCHANGED <<owner, callback, slots, gpu, telemetry, resets>>

OpenGate(f) ==
    /\ CompletionAt(f, "published")
    /\ gate' = Opened(gate)
    /\ frames' = [frames EXCEPT ![f].completion = "opened"]
    /\ UNCHANGED <<owner, callback, slots, gpu, telemetry, resets>>

\* releaseRenderBuffer
ReleaseSlot(f) ==
    /\ \/ CompletionAt(f, "opened")
       \/ CompletionAt(f, "ran") /\ frames[f].transaction = 0
    /\ slots' = Released(frames[f])
    /\ frames' = [frames EXCEPT ![f].completion = "released"]
    /\ UNCHANGED <<owner, callback, gate, gpu, telemetry, resets>>

\* A failure is still to be classified.
AfterTiming(f) == IF frames[f].succeeded THEN "done" ELSE "failed"

\* recordGpuCompletion up to the fetch_or; only a success has GPU times.
RecordGpuCompletion(f) ==
    /\ CompletionAt(f, "released")
    /\ \E untimed \in budget.untimed :
          /\ ~frames[f].succeeded => untimed
          /\ LET s == WithGpuCompletion(frames[f].submission, IF untimed THEN 0 ELSE f + 1)
             IN  frames' = [frames EXCEPT ![f].submission = s,
                                          ![f].completion =
                                             IF MayEmit(s) THEN "emits" ELSE AfterTiming(f)]
    /\ UNCHANGED <<owner, callback, shared, gpu, telemetry, resets>>

\* The compare-and-swap of publishTimingEvent and recordFrameLatencySample.
SampleRecorded(f, sample) ==
    telemetry' = [telemetry EXCEPT
        ![frames[f].epoch].samples = @ + 1,
        ![frames[f].epoch].latency = WithSample(@, sample, budget.capacity)]

EmitFromCompletion(f) ==
    /\ CompletionAt(f, "emits")
    /\ LET s == Emitted(frames[f].submission)
       IN  /\ frames' = [frames EXCEPT ![f].submission = s, ![f].completion = AfterTiming(f)]
           /\ SampleRecorded(f, s.sample)
    /\ UNCHANGED <<owner, callback, shared, gpu, resets>>

FailedFrame(f) ==
    /\ CompletionAt(f, "failed")
    /\ RecordSkipped(f)
    /\ frames' = [frames EXCEPT ![f].completion = "done", ![f].submission = Skipped(@)]
    /\ UNCHANGED <<owner, callback, shared, gpu, resets>>

(***************************************************************************)
(* The presented handler of a drawable: recordPresentedDrawable.           *)
(***************************************************************************)
PresentationAt(f, here) == frames[f].presentation = here

RecordPresentation(f) ==
    /\ PresentationAt(f, "none")
    /\ ~CompletionAt(f, "none") /\ ~CompletionAt(f, "queued")
    /\ \E time \in budget.times :
          LET s == WithPresentation(frames[f].submission, time)
          IN  frames' = [frames EXCEPT ![f].submission = s,
                                       ![f].presentation = IF MayEmit(s) THEN "emits" ELSE "timed"]
    /\ UNCHANGED <<owner, callback, shared, gpu, telemetry, resets>>

EmitFromPresentation(f) ==
    /\ PresentationAt(f, "emits")
    /\ LET s == Emitted(frames[f].submission)
       IN  /\ frames' = [frames EXCEPT ![f].submission = s, ![f].presentation = "timed"]
           /\ SampleRecorded(f, s.sample)
    /\ UNCHANGED <<owner, callback, shared, gpu, resets>>

\* Mutant: a late presentation is counted beside the skip.
PresentedAdded(t, s) ==
    [t EXCEPT !.presented = @ + 1,
              !.shown = WithPresentedFrame(@, s.sequence, s.presented, budget.capacity)]

\* Under the telemetry's lock: an upgrade takes the skip back.
PresentedRecorded(t, s) ==
    [t EXCEPT !.skipped = IF UpgradedSkipped(s) THEN @ - 1 ELSE @,
              !.presented = @ + 1,
              !.shown = WithPresentedFrame(@, s.sequence, s.presented, budget.capacity)]

\* A drawable calls its presented handlers once, so the frame is not presented
\* yet.
FinishPresentation(f) ==
    /\ PresentationAt(f, "timed")
    /\ LET s == frames[f].submission
       IN  IF s.presented = 0
           THEN /\ RecordSkipped(f)
                /\ frames' = [frames EXCEPT ![f].presentation = "done",
                                            ![f].submission = Skipped(@)]
           ELSE /\ telemetry' = [telemetry EXCEPT ![frames[f].epoch] = PresentedRecorded(@, s)]
                /\ frames' = [frames EXCEPT ![f].presentation = "done",
                                            ![f].submission = Presented(@)]
    /\ UNCHANGED <<owner, callback, shared, gpu, resets>>

(***************************************************************************)
(* The message thread between two display callbacks.                       *)
(***************************************************************************)
Between == callback = Idle /\ changes < budget.changes /\ changes' = changes + 1 /\ UNCHANGED budget

\* resetTelemetry: installed at the next callback, or here without one.
ResetTelemetry ==
    /\ Between
    /\ resets' = epoch + 1
    /\ telemetry' = IF active THEN telemetry ELSE Append(telemetry, FreshTelemetry)
    /\ UNCHANGED <<active, callback, history, pending, settings, shared, frames, gpu, stream>>

\* setEffectiveActive(false)
Deactivate ==
    /\ Between /\ active
    /\ active' = FALSE
    /\ telemetry' = AppliedTelemetry
    /\ resets' = Len(AppliedTelemetry)
    /\ history' = ClearedHistory(history)
    /\ UNCHANGED <<callback, pending, settings, shared, frames, gpu, stream>>

\* setEffectiveActive(true)
Activate ==
    /\ Between /\ ~active
    /\ active' = TRUE
    /\ history' = ClearedHistory(history)
    /\ settings' = [settings EXCEPT !.clear = FALSE]
    /\ resets' = epoch + 1
    /\ telemetry' = Append(telemetry, FreshTelemetry)
    /\ UNCHANGED <<callback, pending, shared, frames, gpu, stream>>

\* setSpectrogramSettings with another history duration.
ChangeDuration ==
    /\ Between
    /\ \E count \in ColumnCounts \ {settings.columns} :
          settings' = [columns |-> count, clear |-> TRUE]
    /\ UNCHANGED <<active, callback, history, pending, shared, frames, gpu, telemetry, resets,
                   stream>>

Finished ==
    /\ callback = Idle /\ queue = <<>>
    /\ building = budget.frames \/ ~active
    /\ \A f \in 1 .. building : frames[f].completion \in {"none", "done"}
    /\ UNCHANGED vars

Next ==
    \/ BeginCallback \/ AcquireSlot \/ DropFrame \/ AbandonFrame
    \/ BeginDrain \/ DrainMarker \/ DrainColumn \/ PrepareFrame
    \/ CommitFrame \/ GpuRuns
    \/ \E f \in DOMAIN frames :
          \/ PublishUpload(f) \/ OpenGate(f) \/ ReleaseSlot(f)
          \/ RecordGpuCompletion(f) \/ EmitFromCompletion(f) \/ FailedFrame(f)
          \/ RecordPresentation(f) \/ EmitFromPresentation(f) \/ FinishPresentation(f)
    \/ ResetTelemetry \/ Deactivate \/ Activate \/ ChangeDuration
    \/ Finished

Spec == Init /\ [][Next]_vars

(***************************************************************************)
(* Properties                                                              *)
(***************************************************************************)
\* What is on the screen is the spectrogram: every column drawn holds audio
\* that was really uploaded, all of one signature, each at its own distance
\* in time from the others.  No column of an upload that failed, that is
\* still in flight, or that belongs to a replaced texture is ever drawn
\* (copySpectrogramRenderValidity, resolvePendingSpectrogramUpload).
ShownHistoryIsTrue ==
    \A a, b \in screen :
        /\ a[2] # BlankTexel
        /\ a[2].generation = b[2].generation
        /\ a[2].slot + b[1] = b[2].slot + a[1]

\* The message thread never throws a history away because of an upload that
\* the GPU had finished (SpectrogramUploadGate: the result is published
\* before the gate opens).
SuccessfulUploadIsKept ==
    [][BeginCallback /\ history'.revision # history.revision
        => \E f \in DOMAIN frames :
              /\ frames[f].transaction = pending.upload.transaction
              /\ ~frames[f].succeeded]_vars

\* Every frame is counted as skipped or as presented once, in the telemetry
\* it began with, whichever of its callbacks comes first and however late: a
\* presentation after a failure takes the skip back.
OutcomesCountedOnce ==
    \A e \in DOMAIN telemetry :
        LET With(outcome) == {f \in DOMAIN frames :
                                frames[f].epoch = e /\ frames[f].submission.outcome = outcome}
        IN  /\ telemetry[e].skipped = Cardinality(With("skipped"))
            /\ telemetry[e].presented = Cardinality(With("presented"))

Samples(e) ==
    {frames[f].submission.sample : f \in {g \in DOMAIN frames :
        frames[g].epoch = e /\ "emitted" \in frames[g].submission.events}}

\* The two callbacks of a frame publish its timing together once: after both,
\* there is one sample, made of both timestamps, and the history holds the
\* newest samples by presentation time, however the frames' callbacks mix.
TimingPublishedOnce ==
    /\ \A f \in DOMAIN frames :
          LET s == frames[f].submission
          IN  frames[f].completion = "done" /\ frames[f].presentation = "done"
              => "emitted" \in s.events /\ s.sample = classifyFrameLatency(s)
    /\ \A e \in DOMAIN telemetry :
          LET kept   == Range(telemetry[e].latency)
              timed  == {s \in Samples(e) : s.presented # 0}
          IN  /\ telemetry[e].samples = Cardinality(Samples(e))
              /\ kept \subseteq timed
              /\ Cardinality(kept) = SmallerOf(Cardinality(timed), budget.capacity)
              /\ \A k \in kept, s \in timed \ kept : LatencyEarlier(s, k)

\* The presented frames kept are the newest ones, oldest first, one for each
\* presentation time: an interval is never zero or of frames out of order.
IntervalsArePacing ==
    \A e \in DOMAIN telemetry :
        LET shown == telemetry[e].shown
            times == {frames[f].submission.presented : f \in {g \in DOMAIN frames :
                        frames[g].epoch = e /\ frames[g].submission.outcome = "presented"}}
        IN  /\ \A i \in 1 .. Len(shown) - 1 : Intervals(shown)[i].time > 0
            /\ Len(shown) = SmallerOf(Cardinality(times), budget.capacity)
            /\ \A t \in times : t \in {shown[i].time : i \in DOMAIN shown} \/ t < shown[1].time
=============================================================================
