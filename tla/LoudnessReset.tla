---------------------------- MODULE LoudnessReset ----------------------------
(***************************************************************************)
(* How a user's reset of the integrated loudness reaches the display.      *)
(*                                                                         *)
(* The message thread publishes an epoch and the frame count at which the  *)
(* reset applies, under a revision that is odd while it writes.  Analysis  *)
(* worker and render thread read the pair with a bounded number of         *)
(* attempts.  The worker applies the reset at exactly that frame, inside a *)
(* chunk if need be, and keeps the chunk for a later job when it cannot    *)
(* read the request.  The render thread marks the integrated loudness of a *)
(* published frame invalid unless the frame applied the latest request.    *)
(*                                                                         *)
(* Frames are counted from 1.  A chunk holds ChunkFrames of them and is    *)
(* ready when the last one is captured; a full queue loses its oldest.     *)
(* The integrated loudness is the range of frames it is made of (the       *)
(* blocks inside that range are the subject of LoudnessWindows); the       *)
(* published frame is one variable (SnapshotExchange).  Capture boundaries *)
(* are left out: a lost chunk resets the analyzer through its own          *)
(* continuity check.                                                       *)
(***************************************************************************)
EXTENDS Integers, Sequences, FiniteSets

CONSTANTS
    ChunkFrames,   \* frames of a chunk (framesPerSlot)
    QueueLength,   \* ready chunks the capture can hold
    Attempts,      \* loudnessResetSnapshotAttempts, 3 in the code
    MaxFrames,     \* bound of the model: captured frames
    MaxRequests,   \* bound of the model: reset requests
    MaxLifecycles  \* bound of the model: times the capture starts

ASSUME ChunkShape == ChunkFrames \in Nat \ {0} /\ QueueLength \in Nat \ {0}
ASSUME AttemptsGiven == Attempts \in Nat \ {0}
ASSUME RunBounds ==
    MaxFrames \in Nat /\ MaxRequests \in Nat /\ MaxLifecycles \in Nat \ {0}

VARIABLES
    captured,   \* capturedFrames
    packed,     \* packedFrameCount_, frames of the chunk being filled
    chunks,     \* the last frames of the ready chunks, oldest first
    request,    \* loudnessResetPublicationRevision, RequestEpoch, CapturedFrameEnd
    writer,     \* message thread in requestLoudnessReset
    look,       \* each reader's attempt in tryCopyLoudnessResetRequest
    worker,     \* the job, its chunk and the chunk kept for a later job
    loudness,   \* integrated part of the analyzer
    applied,    \* appliedLoudnessResetEpoch
    mirrored,   \* what workingFrame last showed of them
    frame,      \* integrated part of workingFrame
    published,  \* the frame the render thread would copy
    render,     \* the render thread and the frame it copied
    history     \* boundaries committed, lifecycles, start of the unbroken input

vars == <<captured, packed, chunks, request, writer, look, worker, loudness, applied,
          mirrored, frame, published, render, history>>

Readers == {"worker", "render"}

Off == [at |-> "off", attempt |-> 0, revision |-> 0, epoch |-> 0, end |-> 0]
Begun == [Off EXCEPT !.at = "revision", !.attempt = 1]

NoLoudness == [from |-> 0, to |-> 0]
NoFrame == [from |-> 0, to |-> 0, valid |-> FALSE, applied |-> 0]

Init ==
    /\ captured = 0
    /\ packed = 0
    /\ chunks = <<>>
    /\ request = [revision |-> 0, epoch |-> 0, end |-> 0]
    /\ writer = [at |-> "idle", frames |-> 0]
    /\ look = [r \in Readers |-> Off]
    /\ worker = [at |-> "idle", after |-> "idle", chunk |-> 0, kept |-> 0]
    /\ loudness = NoLoudness
    /\ applied = 0
    /\ mirrored = [loudness |-> NoLoudness, epoch |-> 0]
    /\ frame = NoFrame
    /\ published = NoFrame
    /\ render = [at |-> "idle", frame |-> NoFrame, known |-> 0]
    /\ history = [boundaries |-> <<>>, lifecycles |-> 1, start |-> 0]

-----------------------------------------------------------------------------
(* Audio callback: one frame at a time, the count before the chunk.        *)

Capture ==
    LET completes == packed + 1 = ChunkFrames
        queued == Append(chunks, captured + 1)
    IN  /\ captured < MaxFrames
        /\ captured' = captured + 1
        /\ packed' = IF completes THEN 0 ELSE packed + 1
        /\ chunks' = IF ~completes THEN chunks
                     ELSE IF Len(chunks) = QueueLength THEN Tail(queued)
                     ELSE queued
        /\ UNCHANGED <<request, writer, look, worker, loudness, applied, mirrored,
                       frame, published, render, history>>

-----------------------------------------------------------------------------
(* Message thread: requestLoudnessReset, one step per shared access.       *)

WriterOnly == UNCHANGED <<captured, packed, chunks, look, worker, loudness, applied, mirrored,
                          frame, published, render>>

BeginRequest ==
    /\ writer.at = "idle" /\ request.epoch < MaxRequests
    /\ request' = [request EXCEPT !.revision = @ + 1]
    /\ writer' = [writer EXCEPT !.at = "load"]
    /\ UNCHANGED history /\ WriterOnly

LoadCaptured ==
    /\ writer.at = "load"
    /\ writer' = [at |-> "store", frames |-> captured]
    /\ UNCHANGED <<request, history>> /\ WriterOnly

StoreBoundary ==
    /\ writer.at = "store"
    /\ request' = [request EXCEPT !.end = writer.frames]
    /\ writer' = [writer EXCEPT !.at = "epoch"]
    /\ UNCHANGED history /\ WriterOnly

AdvanceEpoch ==
    /\ writer.at = "epoch"
    /\ request' = [request EXCEPT !.epoch = @ + 1]
    /\ writer' = [writer EXCEPT !.at = "commit"]
    /\ UNCHANGED history /\ WriterOnly

CommitRequest ==
    /\ writer.at = "commit"
    /\ request' = [request EXCEPT !.revision = @ + 1]
    /\ writer' = [at |-> "idle", frames |-> 0]
    /\ history' = [history EXCEPT !.boundaries = Append(@, request.end)]
    /\ WriterOnly

-----------------------------------------------------------------------------
(* tryCopyLoudnessResetRequest, one step per load; the render thread makes *)
(* no use of the frame count, so its load of it is left out.               *)

AfterEpoch(r) == IF r = "render" THEN "recheck" ELSE "end"

Retried(r) ==
    IF look[r].attempt < Attempts
    THEN [Begun EXCEPT !.attempt = look[r].attempt + 1]
    ELSE [Off EXCEPT !.at = "failed"]

(* A reader that does not mind an odd revision.                            *)
LookedWhileWritten(r) ==
    CASE look[r].at = "revision" ->
            [look[r] EXCEPT !.at = "epoch", !.revision = request.revision]
      [] look[r].at = "epoch" -> [look[r] EXCEPT !.at = AfterEpoch(r), !.epoch = request.epoch]
      [] look[r].at = "end" -> [look[r] EXCEPT !.at = "recheck", !.end = request.end]
      [] look[r].at = "recheck" ->
            IF request.revision # look[r].revision THEN Retried(r)
            ELSE [Off EXCEPT !.at = "copied", !.epoch = look[r].epoch, !.end = look[r].end]

Looked(r) ==
    CASE look[r].at = "revision" ->
            IF request.revision % 2 = 1 THEN Retried(r)
            ELSE [look[r] EXCEPT !.at = "epoch", !.revision = request.revision]
      [] look[r].at = "epoch" -> [look[r] EXCEPT !.at = AfterEpoch(r), !.epoch = request.epoch]
      [] look[r].at = "end" -> [look[r] EXCEPT !.at = "recheck", !.end = request.end]
      [] look[r].at = "recheck" ->
            IF request.revision # look[r].revision THEN Retried(r)
            ELSE [Off EXCEPT !.at = "copied", !.epoch = look[r].epoch, !.end = look[r].end]

Look(r) ==
    /\ look[r].at \in {"revision", "epoch", "end", "recheck"}
    /\ look' = [look EXCEPT ![r] = Looked(r)]
    /\ UNCHANGED <<captured, packed, chunks, request, writer, worker, loudness, applied,
                   mirrored, frame, published, render, history>>

Coherent(r) == look[r].at = "copied"
Answered(r) == look[r].at \in {"copied", "failed"}

-----------------------------------------------------------------------------
(* Worker.  A job may begin whenever none runs: the reset, the audio and   *)
(* the analysis timer all ask for one.                                     *)

WorkerOnly == UNCHANGED <<captured, packed, request, writer, render>>

StartJob ==
    /\ worker.at = "idle"
    /\ worker' = [worker EXCEPT !.at = "initial"]
    /\ look' = [look EXCEPT !["worker"] = Begun]
    /\ UNCHANGED <<chunks, loudness, applied, mirrored, frame, published, history>>
    /\ WorkerOnly

(* applyLoudnessResetAtFrameBoundary on the worker's own state             *)
AtBoundary(state, position) ==
    IF look["worker"].epoch # state.applied /\ position >= look["worker"].end
    THEN [loudness |-> [from |-> state.loudness.to, to |-> state.loudness.to],
          applied |-> look["worker"].epoch]
    ELSE state

(* process with the interior boundary the coordinator computed: the chunk  *)
(* of the frames after start up to end, entered at the analyzer's          *)
(* position or, when it does not continue it, behind a full reset.         *)
Analysed(state, start, end) ==
    LET entered == IF state.loudness.to = start THEN state
                   ELSE [state EXCEPT !.loudness = [from |-> start, to |-> start]]
        boundary == look["worker"].end
        inside == /\ look["worker"].epoch # state.applied
                  /\ boundary > start /\ boundary < end
    IN  IF inside
        THEN [loudness |-> [from |-> boundary, to |-> end], applied |-> look["worker"].epoch]
        ELSE [entered EXCEPT !.loudness.to = end]

Refresh(after) ==
    /\ worker' = [worker EXCEPT !.at = "refresh", !.after = after, !.chunk = 0]
    /\ look' = [look EXCEPT !["worker"] = Begun]

ApplyInitial ==
    /\ worker.at = "initial" /\ Coherent("worker")
    /\ LET state == AtBoundary([loudness |-> loudness, applied |-> applied], loudness.to)
       IN  /\ loudness' = state.loudness
           /\ applied' = state.applied
    /\ Refresh("acquire")
    /\ UNCHANGED <<chunks, mirrored, frame, published, history>>
    /\ WorkerOnly

InitialUnreadable ==
    /\ worker.at = "initial" /\ look["worker"].at = "failed"
    /\ Refresh("idle")
    /\ UNCHANGED <<chunks, loudness, applied, mirrored, frame, published, history>>
    /\ WorkerOnly

(* refreshLoudnessFrameState: nothing to do when neither the analyzer nor  *)
(* the request changed since the last time.                                *)
Refreshed(copy) ==
    LET coherent == copy.at = "copied"
        pending == ~coherent \/ copy.epoch # applied
    IN  IF coherent /\ mirrored = [loudness |-> loudness, epoch |-> copy.epoch]
        THEN frame
        ELSE [from |-> loudness.from, to |-> loudness.to,
              valid |-> loudness.to > loudness.from /\ ~pending, applied |-> applied]

FinishRefresh ==
    /\ worker.at = "refresh" /\ Answered("worker")
    /\ frame' = Refreshed(look["worker"])
    /\ mirrored' = [loudness |-> loudness,
                    epoch |-> IF Coherent("worker") THEN look["worker"].epoch
                              ELSE mirrored.epoch]
    /\ worker' = [worker EXCEPT !.at = worker.after, !.after = "idle"]
    /\ look' = [look EXCEPT !["worker"] = Off]
    /\ UNCHANGED <<chunks, loudness, applied, published, history>>
    /\ WorkerOnly

(* The kept chunk first, else the oldest ready one.                        *)
Acquire ==
    /\ worker.at = "acquire"
    /\ \/ /\ worker.kept # 0
          /\ worker' = [worker EXCEPT !.at = "chunk", !.chunk = worker.kept, !.kept = 0]
          /\ UNCHANGED chunks
       \/ /\ worker.kept = 0 /\ chunks # <<>>
          /\ worker' = [worker EXCEPT !.at = "chunk", !.chunk = Head(chunks)]
          /\ chunks' = Tail(chunks)
    /\ look' = [look EXCEPT !["worker"] = Begun]
    /\ UNCHANGED <<loudness, applied, mirrored, frame, published, history>>
    /\ WorkerOnly

NothingToAcquire ==
    /\ worker.at = "acquire" /\ worker.kept = 0 /\ chunks = <<>>
    /\ Refresh("publish")
    /\ UNCHANGED <<chunks, loudness, applied, mirrored, frame, published, history>>
    /\ WorkerOnly

(* The request cannot be read: the chunk waits for another job.            *)
KeepChunk ==
    /\ worker.at = "chunk" /\ look["worker"].at = "failed"
    /\ worker' = [worker EXCEPT !.at = "idle", !.chunk = 0, !.kept = worker.chunk]
    /\ look' = [look EXCEPT !["worker"] = Off]
    /\ UNCHANGED <<chunks, loudness, applied, mirrored, frame, published, history>>
    /\ WorkerOnly

ProcessChunk ==
    LET end == worker.chunk
        start == end - ChunkFrames
        current == [loudness |-> loudness, applied |-> applied]
        processed == AtBoundary(Analysed(AtBoundary(current, start), start, end), end)
    IN  /\ worker.at = "chunk" /\ Coherent("worker")
        /\ loudness' = processed.loudness
        /\ applied' = processed.applied
        /\ history' = IF loudness.to = start THEN history
                      ELSE [history EXCEPT !.start = start]
        /\ Refresh("acquire")
        /\ UNCHANGED <<chunks, mirrored, frame, published>>
        /\ WorkerOnly

Publish ==
    /\ worker.at = "publish"
    /\ published' = frame
    /\ worker' = [worker EXCEPT !.at = "idle"]
    /\ UNCHANGED <<chunks, look, loudness, applied, mirrored, frame, history>>
    /\ WorkerOnly

(* beginGeneration: neither a job nor a request can run beside it.  The    *)
(* chunks of the old lifecycle are retired and the one being filled        *)
(* abandoned.                                                              *)
BeginGeneration ==
    /\ worker.at = "idle" /\ writer.at = "idle"
    /\ history.lifecycles < MaxLifecycles
    /\ chunks' = <<>>
    /\ packed' = 0
    /\ loudness' = NoLoudness
    /\ applied' = request.epoch
    /\ mirrored' = [loudness |-> NoLoudness, epoch |-> request.epoch]
    /\ frame' = [NoFrame EXCEPT !.applied = request.epoch]
    /\ published' = frame'
    /\ worker' = [worker EXCEPT !.kept = 0]
    /\ history' = [history EXCEPT !.lifecycles = @ + 1, !.start = 0]
    /\ UNCHANGED <<captured, request, writer, look, render>>

-----------------------------------------------------------------------------
(* Render thread: copyLatestVisualizationFrame                             *)

RenderOnly == UNCHANGED <<captured, packed, chunks, request, writer, worker, loudness,
                          applied, mirrored, frame, published, history>>

CopyFrame ==
    /\ render.at # "copied"
    /\ render' = [at |-> "copied", frame |-> published, known |-> Len(history.boundaries)]
    /\ look' = [look EXCEPT !["render"] = Begun]
    /\ RenderOnly

(* The copy is shown although a later request is known.                    *)
ShownIfReadable(shown, copy) == [shown EXCEPT !.valid = @ /\ copy.at = "copied"]

(* suppressUnpublishedLoudnessReset                                        *)
Shown(shown, copy) ==
    [shown EXCEPT !.valid = @ /\ copy.at = "copied" /\ copy.epoch = shown.applied]

ShowFrame ==
    /\ render.at = "copied" /\ Answered("render")
    /\ render' = [render EXCEPT !.at = "shown", !.frame = Shown(render.frame, look["render"])]
    /\ look' = [look EXCEPT !["render"] = Off]
    /\ RenderOnly

-----------------------------------------------------------------------------

WriterSteps ==
    \/ BeginRequest \/ LoadCaptured \/ StoreBoundary \/ AdvanceEpoch \/ CommitRequest

WorkerSteps ==
    \/ Look("worker") \/ StartJob \/ ApplyInitial \/ InitialUnreadable \/ FinishRefresh
    \/ Acquire \/ NothingToAcquire \/ KeepChunk \/ ProcessChunk \/ Publish

RenderSteps == Look("render") \/ CopyFrame \/ ShowFrame

Next ==
    \/ Capture \/ WriterSteps
    \/ WorkerSteps \/ BeginGeneration \/ RenderSteps

Spec == Init /\ [][Next]_vars

-----------------------------------------------------------------------------
(* Properties                                                              *)

Latest(a, b) == IF a > b THEN a ELSE b

(* Once a reset is committed, a copy that begins afterwards never shows an *)
(* integrated loudness that contains a frame from before the reset,        *)
(* whatever job is still running (AnalysisCoordinator.cpp:1166-1173).      *)
ResetIsNeverUndone ==
    render.at = "shown" /\ render.frame.valid =>
        \A e \in 1..render.known : render.frame.from >= history.boundaries[e]

(* The integration that follows a reset starts at exactly the frame the    *)
(* reset was requested at, or at the start of the unbroken input if that   *)
(* is later: no frame captured behind it is swallowed and no earlier one   *)
(* kept, wherever the worker was when the request came                     *)
(* (AnalysisCoordinator.cpp:1286-1402).                                    *)
ResetIsExact ==
    loudness.to > loudness.from =>
        /\ applied <= Len(history.boundaries)
        /\ loudness.from = Latest(history.start,
                                  IF applied = 0 THEN 0 ELSE history.boundaries[applied])
=============================================================================
