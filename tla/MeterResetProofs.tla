-------------------------- MODULE MeterResetProofs --------------------------
(***************************************************************************)
(* What holds of the meters and their resets, for any number of requests.  *)
(*                                                                         *)
(* LoudnessReset, for any number of lifecycles, captured frames and        *)
(* attempts and any chunk and queue size: the integration restarts at      *)
(* exactly the requested frame, and no frame shown undoes a committed      *)
(* reset.                                                                  *)
(*                                                                         *)
(* LevelDisplay, for any number of blocks, resets and changes: what the    *)
(* worker has cleared is never shown again.                                *)
(*                                                                         *)
(* LoudnessWindows, for any sample rates, hop counts and chunks: the live  *)
(* windows are exactly the last tenths of a second, and the integrated     *)
(* loudness is that of every block since its reset.                        *)
(***************************************************************************)
EXTENDS LoudnessReset, LevelDisplay, LoudnessWindows, FiniteSetTheorems, NaturalsInduction,
        WellFoundedInduction, TLAPS

USE ChunkShape

-----------------------------------------------------------------------------
(***************************************************************************)
(* Types.                                                                  *)
(***************************************************************************)
LookPoints == {"off", "revision", "epoch", "end", "recheck", "failed", "copied"}
Looks == [at : LookPoints, attempt : Nat, revision : Nat, epoch : Nat, end : Nat]
WorkerPoints == {"idle", "initial", "refresh", "acquire", "chunk", "publish"}
Workers == [at : WorkerPoints, after : {"idle", "acquire", "publish"}, chunk : Nat,
            kept : Nat]
Loudnesses == [from : Nat, to : Nat]
Frames == [from : Nat, to : Nat, valid : BOOLEAN, applied : Nat]

MessageTypes ==
    /\ captured \in Nat /\ packed \in 0..(ChunkFrames - 1) /\ packed <= captured
    /\ chunks \in Seq(Nat)
    /\ request \in [revision : Nat, epoch : Nat, end : Nat]
    /\ writer \in [at : {"idle", "load", "store", "epoch", "commit"}, frames : Nat]
    /\ history \in [boundaries : Seq(Nat), lifecycles : Nat, start : Nat]

ReaderTypes ==
    /\ look \in [Readers -> Looks]
    /\ worker \in Workers
    /\ loudness \in Loudnesses /\ applied \in Nat
    /\ frame \in Frames /\ published \in Frames
    /\ render \in [at : {"idle", "copied", "shown"}, frame : Frames, known : Nat]

Types == MessageTypes /\ ReaderTypes

\* The initial state has the types
LEMMA InitTypes == Init => Types
BY DEF Init, Types, MessageTypes, ReaderTypes, Readers, Looks, LookPoints, Off, Workers, WorkerPoints,
       Loudnesses, Frames, NoLoudness, NoFrame

\* The audio callback and the message thread keep the types
LEMMA TypesMessage ==
    ASSUME Types, Capture \/ WriterSteps
    PROVE  Types'
<1>1. ReaderTypes'
  BY DEF Types, ReaderTypes, Capture, WriterSteps, BeginRequest, LoadCaptured, StoreBoundary,
         AdvanceEpoch, CommitRequest, WriterOnly
<1>2. CASE Capture
  <2>1. captured' \in Nat /\ packed' \in 0..(ChunkFrames - 1) /\ packed' <= captured'
    BY <1>2 DEF Capture, Types, MessageTypes
  <2>2. chunks' \in Seq(Nat)
    <3>1. captured + 1 \in Nat /\ chunks \in Seq(Nat)
      BY DEF Types, MessageTypes
    <3>2. Append(chunks, captured + 1) \in Seq(Nat) /\ Append(chunks, captured + 1) # <<>>
      BY <3>1
    <3>3. Tail(Append(chunks, captured + 1)) \in Seq(Nat)
      BY <3>2
    <3>. QED  BY <1>2, <3>1, <3>2, <3>3 DEF Capture
  <2>. QED  BY <1>1, <1>2, <2>1, <2>2 DEF Capture, Types, MessageTypes
<1>3. CASE WriterSteps
  <2>1. request' \in [revision : Nat, epoch : Nat, end : Nat]
    <3>1. request \in [revision : Nat, epoch : Nat, end : Nat] /\ writer.frames \in Nat
      BY DEF Types, MessageTypes
    <3>2. CASE BeginRequest \/ LoadCaptured \/ StoreBoundary
      BY <3>1, <3>2 DEF BeginRequest, LoadCaptured, StoreBoundary
    <3>3. CASE AdvanceEpoch \/ CommitRequest
      BY <3>1, <3>3 DEF AdvanceEpoch, CommitRequest
    <3>. QED  BY <1>3, <3>2, <3>3 DEF WriterSteps
  <2>2. writer' \in [at : {"idle", "load", "store", "epoch", "commit"}, frames : Nat]
    BY SMTT(30), <1>3 DEF WriterSteps, BeginRequest, LoadCaptured, StoreBoundary, AdvanceEpoch,
                CommitRequest, Types, MessageTypes
  <2>3. history' \in [boundaries : Seq(Nat), lifecycles : Nat, start : Nat]
    <3>1. CASE CommitRequest
      <4>1. Append(history.boundaries, request.end) \in Seq(Nat)
        BY DEF Types, MessageTypes
      <4>. QED  BY <3>1, <4>1 DEF CommitRequest, Types, MessageTypes
    <3>. QED  BY <1>3, <3>1 DEF WriterSteps, BeginRequest, LoadCaptured, StoreBoundary,
                                AdvanceEpoch, Types, MessageTypes
  <2>. QED  BY <1>1, <1>3, <2>1, <2>2, <2>3
            DEF WriterSteps, BeginRequest, LoadCaptured, StoreBoundary, AdvanceEpoch,
                CommitRequest, WriterOnly, Types, MessageTypes
<1>. QED  BY <1>2, <1>3

\* A lookup that has not ended
Looking == {"revision", "epoch", "end", "recheck"}

\* One load of a lookup keeps it a lookup
LEMMA LookTypes ==
    /\ Off \in Looks /\ Begun \in Looks
    /\ Types => \A r \in Readers : look[r].at \in Looking => Looked(r) \in Looks
<1>1. Off \in Looks /\ Begun \in Looks
  BY DEF Off, Begun, Looks, LookPoints
<1>2. ASSUME Types, NEW r \in Readers, look[r].at \in Looking
      PROVE  Looked(r) \in Looks
  <2>1. look[r] \in Looks /\ request \in [revision : Nat, epoch : Nat, end : Nat]
    BY <1>2 DEF Types, MessageTypes, ReaderTypes
  <2>2. Retried(r) \in Looks
    <3>1. look[r].attempt + 1 \in Nat
      BY <2>1 DEF Looks
    <3>2. [Begun EXCEPT !.attempt = look[r].attempt + 1] \in Looks
      BY <3>1 DEF Begun, Off, Looks, LookPoints
    <3>3. [Off EXCEPT !.at = "failed"] \in Looks
      BY DEF Off, Looks, LookPoints
    <3>. QED  BY <3>2, <3>3 DEF Retried
  <2>3. CASE look[r].at = "revision"
    BY <2>1, <2>2, <2>3 DEF Looked, Looks, LookPoints
  <2>4. CASE look[r].at = "epoch"
    <3>1. Looked(r) = [look[r] EXCEPT !.at = AfterEpoch(r), !.epoch = request.epoch]
      BY <2>4 DEF Looked
    <3>. QED  BY <2>1, <3>1 DEF AfterEpoch, Looks, LookPoints
  <2>5. CASE look[r].at = "end"
    <3>1. Looked(r) = [look[r] EXCEPT !.at = "recheck", !.end = request.end]
      BY <2>5 DEF Looked
    <3>. QED  BY <2>1, <3>1 DEF Looks, LookPoints
  <2>6. CASE look[r].at = "recheck"
    BY <1>1, <2>1, <2>2, <2>6 DEF Looked, Looks, LookPoints, Off
  <2>. QED  BY <1>2, <2>3, <2>4, <2>5, <2>6 DEF Looking
<1>. QED  BY <1>1, <1>2

\* What the analyzer is left with after a step of a job
LEMMA AnalysedTypes ==
    ASSUME Types, NEW state \in [loudness : Loudnesses, applied : Nat],
           NEW start \in Nat, NEW end \in Nat
    PROVE  /\ AtBoundary(state, start) \in [loudness : Loudnesses, applied : Nat]
           /\ Analysed(state, start, end) \in [loudness : Loudnesses, applied : Nat]
<1>1. look["worker"] \in Looks
  BY DEF Types, ReaderTypes, Readers
<1>2. AtBoundary(state, start) \in [loudness : Loudnesses, applied : Nat]
  BY <1>1 DEF AtBoundary, Looks, Loudnesses
<1>3. Analysed(state, start, end) \in [loudness : Loudnesses, applied : Nat]
  BY <1>1 DEF Analysed, Looks, Loudnesses
<1>. QED  BY <1>2, <1>3

\* The three parts of a step of the worker
LEMMA TypesWorker ==
    ASSUME Types, WorkerSteps \/ BeginGeneration \/ RenderSteps,
           worker.at = "chunk" => worker.chunk >= ChunkFrames
    PROVE  Types'
<1>0. /\ look \in [Readers -> Looks] /\ loudness \in Loudnesses /\ applied \in Nat
      /\ worker \in Workers
      /\ frame \in Frames /\ published \in Frames /\ "worker" \in Readers /\ "render" \in Readers
      /\ render \in [at : {"idle", "copied", "shown"}, frame : Frames, known : Nat]
      /\ history \in [boundaries : Seq(Nat), lifecycles : Nat, start : Nat]
      /\ request \in [revision : Nat, epoch : Nat, end : Nat]
      /\ captured \in Nat /\ chunks \in Seq(Nat)
  BY DEF Types, MessageTypes, ReaderTypes, Readers
<1>1. ASSUME NEW r \in Readers, Look(r) PROVE Types'
  <2>1. look' \in [Readers -> Looks]
    BY <1>0, <1>1, LookTypes DEF Look, Looking
  <2>. QED  BY <1>1, <2>1 DEF Look, Types, MessageTypes, ReaderTypes
<1>2. ASSUME NEW after \in {"idle", "acquire", "publish"}, Refresh(after)
      PROVE  /\ look' \in [Readers -> Looks]
             /\ worker' \in Workers
  BY <1>0, <1>2, LookTypes DEF Refresh, Workers, WorkerPoints
<1>3. CASE StartJob \/ KeepChunk \/ Publish
  <2>1. worker' \in Workers
    <3>1. CASE StartJob
      BY <1>0, <3>1 DEF StartJob, Workers, WorkerPoints
    <3>2. CASE KeepChunk
      BY <1>0, <3>2 DEF KeepChunk, Workers, WorkerPoints
    <3>3. CASE Publish
      BY <1>0, <3>3 DEF Publish, Workers, WorkerPoints
    <3>. QED  BY <1>3, <3>1, <3>2, <3>3
  <2>2. look' \in [Readers -> Looks]
    BY <1>0, <1>3, LookTypes DEF StartJob, KeepChunk, Publish
  <2>. QED  BY <1>0, <1>3, <2>1, <2>2
            DEF StartJob, KeepChunk, Publish, WorkerOnly, Types, MessageTypes, ReaderTypes
<1>4. CASE ApplyInitial
  <2>1. [loudness |-> loudness, applied |-> applied] \in [loudness : Loudnesses, applied : Nat]
        /\ loudness.to \in Nat
    BY <1>0 DEF Loudnesses
  <2>2. AtBoundary([loudness |-> loudness, applied |-> applied], loudness.to)
          \in [loudness : Loudnesses, applied : Nat]
    BY <2>1, AnalysedTypes
  <2>3. loudness' \in Loudnesses /\ applied' \in Nat
    BY <1>4, <2>2 DEF ApplyInitial
  <2>. QED  BY <1>2, <1>4, <2>3
            DEF ApplyInitial, WorkerOnly, WorkerPoints, Types, MessageTypes, ReaderTypes
<1>5. CASE InitialUnreadable \/ NothingToAcquire
  BY <1>2, <1>5 DEF InitialUnreadable, NothingToAcquire, WorkerOnly, WorkerPoints, Types,
                    MessageTypes, ReaderTypes
<1>6. CASE FinishRefresh
  <2>1. frame' \in Frames
    BY <1>0, <1>6 DEF FinishRefresh, Refreshed, Frames, Loudnesses
  <2>2. worker' \in Workers
    BY <1>0, <1>6 DEF FinishRefresh, Workers, WorkerPoints
  <2>3. look' \in [Readers -> Looks]
    BY <1>0, <1>6, LookTypes DEF FinishRefresh
  <2>. QED  BY <1>6, <2>1, <2>2, <2>3
            DEF FinishRefresh, WorkerOnly, Types, MessageTypes, ReaderTypes
<1>7. CASE Acquire
  <2>1. worker' \in Workers
        /\ chunks' \in Seq(Nat)
    <3>1. CASE worker' = [worker EXCEPT !.at = "chunk", !.chunk = worker.kept, !.kept = 0]
               /\ chunks' = chunks
      BY <1>0, <3>1 DEF Workers, WorkerPoints
    <3>2. CASE /\ chunks # <<>> /\ chunks' = Tail(chunks)
               /\ worker' = [worker EXCEPT !.at = "chunk", !.chunk = Head(chunks)]
      <4>1. Head(chunks) \in Nat /\ Tail(chunks) \in Seq(Nat)
        BY SMTT(30), <1>0, <3>2
      <4>. QED  BY <1>0, <3>2, <4>1 DEF Workers, WorkerPoints
    <3>. QED  BY <1>7, <3>1, <3>2 DEF Acquire
  <2>2. look' \in [Readers -> Looks]
    BY <1>0, <1>7, LookTypes DEF Acquire
  <2>. QED  BY <1>7, <2>1, <2>2 DEF Acquire, WorkerOnly, Types, MessageTypes, ReaderTypes
<1>8. CASE ProcessChunk
  <2> DEFINE current == [loudness |-> loudness, applied |-> applied]
             start == worker.chunk - ChunkFrames
             processed == AtBoundary(Analysed(AtBoundary(current, start), start,
                                              worker.chunk), worker.chunk)
  <2>1. start \in Nat /\ worker.chunk \in Nat
    BY SMTT(30), <1>0, <1>8 DEF ProcessChunk, Workers
  <2>2. current \in [loudness : Loudnesses, applied : Nat]
    BY <1>0
  <2>3. processed \in [loudness : Loudnesses, applied : Nat]
    <3> HIDE DEF current, start
    <3>. QED  BY <2>1, <2>2, AnalysedTypes
  <2>4. /\ loudness' = processed.loudness /\ applied' = processed.applied
        /\ history' \in {history, [history EXCEPT !.start = start]}
        /\ Refresh("acquire") /\ UNCHANGED <<chunks, frame, published>> /\ WorkerOnly
    BY <1>8 DEF ProcessChunk
  <2> HIDE DEF current, start, processed
  <2>5. history' \in [boundaries : Seq(Nat), lifecycles : Nat, start : Nat]
    BY <1>0, <2>1, <2>4
  <2>6. loudness' \in Loudnesses /\ applied' \in Nat
    BY <2>3, <2>4
  <2>7. look' \in [Readers -> Looks] /\ worker' \in Workers
    BY <1>2, <2>4, <2>6
  <2>. QED  BY <2>4, <2>5, <2>6, <2>7 DEF WorkerOnly, Types, MessageTypes, ReaderTypes
<1>9. CASE BeginGeneration
  <2>1. chunks' = <<>> /\ packed' = 0 /\ captured' = captured
        /\ loudness' = NoLoudness /\ applied' = request.epoch /\ published' = frame'
        /\ frame' = [NoFrame EXCEPT !.applied = request.epoch]
        /\ history' = [history EXCEPT !.lifecycles = @ + 1, !.start = 0]
        /\ UNCHANGED <<request, writer, look, render>>
        /\ worker' = [worker EXCEPT !.kept = 0]
    BY <1>9 DEF BeginGeneration
  <2>2. NoLoudness \in Loudnesses /\ frame' \in Frames
    BY <1>0, <2>1 DEF NoLoudness, Loudnesses, NoFrame, Frames
  <2>3. worker' \in Workers
    BY <1>0, <2>1 DEF Workers, WorkerPoints
  <2>4. history' \in [boundaries : Seq(Nat), lifecycles : Nat, start : Nat] /\ applied' \in Nat
    <3>1. history.lifecycles + 1 \in Nat
      BY <1>0
    <3>2. applied' \in Nat
      BY <1>0, <2>1
    <3>. QED  BY <1>0, <2>1, <3>1, <3>2
  <2>5. MessageTypes'
    BY SMTT(30), <2>1, <2>4 DEF Types, MessageTypes
  <2>6. ReaderTypes'
    BY <2>1, <2>2, <2>3, <2>4 DEF Types, ReaderTypes
  <2>. QED  BY <2>5, <2>6 DEF Types
<1>10. CASE CopyFrame \/ ShowFrame
  <2>1. look' \in [Readers -> Looks]
    BY <1>0, <1>10, LookTypes DEF CopyFrame, ShowFrame
  <2>2. render' \in [at : {"idle", "copied", "shown"}, frame : Frames, known : Nat]
    <3>1. CASE CopyFrame
      BY <1>0, <3>1 DEF CopyFrame
    <3>2. CASE ShowFrame
      <4>1. Shown(render.frame, look["render"]) \in Frames
        BY <1>0 DEF Shown, Frames
      <4>. QED  BY <1>0, <3>2, <4>1 DEF ShowFrame
    <3>. QED  BY <1>10, <3>1, <3>2
  <2>. QED  BY <1>10, <2>1, <2>2
            DEF CopyFrame, ShowFrame, RenderOnly, Types, MessageTypes, ReaderTypes
<1>. QED  BY <1>0, <1>1, <1>3, <1>4, <1>5, <1>6, <1>7, <1>8, <1>9, <1>10
          DEF WorkerSteps, RenderSteps

-----------------------------------------------------------------------------
(***************************************************************************)
(* The requests: epoch e, once committed, stands for a boundary that never   *)
(* changes; boundaries grow, and none lies behind what has been captured.    *)
(***************************************************************************)
Committed == Len(history.boundaries)
Boundary(e) == IF e = 0 THEN 0 ELSE history.boundaries[e]

\* The boundary the message thread is about to commit
Waiting == writer.at \in {"store", "epoch", "commit"}
Upcoming == IF writer.at = "store" THEN writer.frames ELSE request.end

Requested ==
    /\ request.revision = 2 * Committed + (IF writer.at = "idle" THEN 0 ELSE 1)
    /\ request.epoch = Committed + (IF writer.at = "commit" THEN 1 ELSE 0)
    /\ writer.at = "idle" => request.end = Boundary(Committed)
    /\ \A d, e \in 0..Committed : d <= e => Boundary(d) <= Boundary(e)
    /\ Boundary(Committed) <= captured
    /\ Waiting => Boundary(Committed) <= Upcoming /\ Upcoming <= captured

\* Boundaries are numbers of frames
LEMMA BoundaryTypes ==
    ASSUME Types
    PROVE  Committed \in Nat /\ \A e \in 0..Committed : Boundary(e) \in Nat
BY DEF Types, MessageTypes, Committed, Boundary

\* Only a commit changes them, and it adds one
LEMMA BoundariesKept ==
    ASSUME Types, [Next]_vars
    PROVE  \/ /\ ~CommitRequest
              /\ Committed' = Committed
              /\ \A e : Boundary(e)' = Boundary(e)
           \/ /\ CommitRequest
              /\ Committed' = Committed + 1
              /\ \A e \in 0..Committed : Boundary(e)' = Boundary(e)
              /\ \A e : e = Committed + 1 => Boundary(e)' = request.end
<1>1. history \in [boundaries : Seq(Nat), lifecycles : Nat, start : Nat]
      /\ request.end \in Nat
  BY DEF Types, MessageTypes
<1>2. CASE CommitRequest
  <2>1. history'.boundaries = Append(history.boundaries, request.end)
    BY <1>1, <1>2 DEF CommitRequest
  <2>2. Committed' = Committed + 1
    BY <1>1, <2>1 DEF Committed
  <2>3. \A e \in 0..Committed : Boundary(e)' = Boundary(e)
    BY <1>1, <2>1 DEF Committed, Boundary
  <2>4. \A e : e = Committed + 1 => Boundary(e)' = request.end
    BY <1>1, <2>1 DEF Committed, Boundary
  <2>. QED  BY <1>2, <2>2, <2>3, <2>4
<1>3. CASE ~CommitRequest
  <2>1. history'.boundaries = history.boundaries
    BY <1>1, <1>3 DEF Next, vars, Capture, WriterSteps, BeginRequest, LoadCaptured, StoreBoundary,
       AdvanceEpoch, WorkerSteps, Look, StartJob, ApplyInitial, InitialUnreadable, FinishRefresh,
       Acquire, NothingToAcquire, KeepChunk, ProcessChunk, Publish, BeginGeneration,
       RenderSteps, RenderOnly, CopyFrame, ShowFrame
  <2>. QED  BY <1>3, <2>1 DEF Committed, Boundary
<1>. QED  BY <1>2, <1>3

\* Nothing is requested in the initial state
LEMMA RequestedInit == Init => Requested
BY DEF Init, Requested, Committed, Boundary, Waiting, Upcoming

\* Each step of the message thread keeps revision, epoch and boundary in accord
LEMMA RequestedNext ==
    ASSUME Types, Requested, [Next]_vars
    PROVE  Requested'
<1> USE BoundaryTypes
<1>0. /\ request \in [revision : Nat, epoch : Nat, end : Nat] /\ captured \in Nat
      /\ writer \in [at : {"idle", "load", "store", "epoch", "commit"}, frames : Nat]
  BY DEF Types, MessageTypes
<1>1. CASE ~(Capture \/ WriterSteps)
  <2>1. request' = request /\ writer' = writer /\ captured' = captured
    BY <1>1 DEF Next, vars, WorkerSteps, Look, StartJob, ApplyInitial, InitialUnreadable,
       FinishRefresh, Acquire, NothingToAcquire, KeepChunk, ProcessChunk, Publish,
       BeginGeneration, RenderSteps, WorkerOnly, RenderOnly, CopyFrame, ShowFrame
  <2>2. ~CommitRequest
    BY <1>1 DEF WriterSteps
  <2>. QED  BY <2>1, <2>2, BoundariesKept DEF Requested, Waiting, Upcoming
<1>2. CASE Capture
  <2>1. request' = request /\ writer' = writer /\ captured' = captured + 1
    BY <1>2 DEF Capture
  <2>2. ~CommitRequest
    BY <1>0, <2>1 DEF CommitRequest
  <2>. QED  BY <1>0, <2>1, <2>2, BoundariesKept DEF Requested, Waiting, Upcoming
<1>3. CASE BeginRequest \/ LoadCaptured \/ StoreBoundary \/ AdvanceEpoch
  <2>1. ~CommitRequest /\ captured' = captured
    BY <1>3 DEF BeginRequest, LoadCaptured, StoreBoundary, AdvanceEpoch, CommitRequest,
                WriterOnly
  <2>2. Committed' = Committed /\ \A e : Boundary(e)' = Boundary(e)
    BY <2>1, BoundariesKept
  <2>3. CASE BeginRequest
    <3>1. request'.revision = request.revision + 1 /\ request'.epoch = request.epoch
          /\ request'.end = request.end /\ writer'.at = "load" /\ writer.at = "idle"
      BY <1>0, <2>3 DEF BeginRequest
    <3>. QED  BY <1>0, <2>1, <2>2, <3>1 DEF Requested, Waiting, Upcoming
  <2>4. CASE LoadCaptured
    <3>1. request' = request /\ writer'.at = "store" /\ writer.at = "load"
          /\ writer'.frames = captured
      BY <1>0, <2>4 DEF LoadCaptured
    <3>. QED  BY <1>0, <2>1, <2>2, <3>1 DEF Requested, Waiting, Upcoming
  <2>5. CASE StoreBoundary
    <3>1. request'.revision = request.revision /\ request'.epoch = request.epoch
          /\ request'.end = writer.frames /\ writer'.at = "epoch" /\ writer.at = "store"
      BY <1>0, <2>5 DEF StoreBoundary
    <3>. QED  BY <1>0, <2>1, <2>2, <3>1 DEF Requested, Waiting, Upcoming
  <2>6. CASE AdvanceEpoch
    <3>1. request'.revision = request.revision /\ request'.epoch = request.epoch + 1
          /\ request'.end = request.end /\ writer'.at = "commit" /\ writer.at = "epoch"
      BY <1>0, <2>6 DEF AdvanceEpoch
    <3>. QED  BY <1>0, <2>1, <2>2, <3>1 DEF Requested, Waiting, Upcoming
  <2>. QED  BY <1>3, <2>3, <2>4, <2>5, <2>6
<1>4. CASE CommitRequest
  <2>1. request'.revision = request.revision + 1 /\ request'.epoch = request.epoch
        /\ request'.end = request.end /\ writer'.at = "idle" /\ writer.at = "commit"
        /\ captured' = captured
    BY <1>0, <1>4 DEF CommitRequest, WriterOnly
  <2>2. /\ Committed' = Committed + 1
        /\ \A e : e = Committed + 1 => Boundary(e)' = request.end
        /\ \A e \in 0..Committed : Boundary(e)' = Boundary(e)
    BY <1>4, BoundariesKept
  <2>3. Boundary(Committed) <= request.end /\ request.end <= captured
    BY <2>1 DEF Requested, Waiting, Upcoming
  <2>4. ASSUME NEW d \in 0..(Committed + 1), NEW e \in 0..(Committed + 1), d <= e
        PROVE  Boundary(d)' <= Boundary(e)'
    <3>1. CASE e <= Committed
      BY <2>2, <2>4, <3>1 DEF Requested
    <3>2. CASE e = Committed + 1 /\ d <= Committed
      <4>1. Boundary(d) <= Boundary(Committed) /\ Boundary(d)' = Boundary(d)
        BY <2>2, <2>4, <3>2 DEF Requested
      <4>. QED  BY <1>0, <2>2, <2>3, <2>4, <3>2, <4>1
    <3>3. CASE d = Committed + 1
      BY <1>0, <2>2, <2>4, <3>3
    <3>. QED  BY <2>4, <3>1, <3>2, <3>3
  <2>5. \A d, e \in 0..Committed' : d <= e => Boundary(d)' <= Boundary(e)'
    BY <2>2, <2>4
  <2>6. request'.end = Boundary(Committed)' /\ Boundary(Committed)' <= captured'
    <3>1. PICK e : e = Committed + 1 /\ e = Committed'
      BY <2>2
    <3>2. Boundary(e)' = request.end
      BY <2>2, <3>1
    <3>3. Boundary(Committed)' = request.end
      BY <3>1, <3>2 DEF Boundary
    <3>. QED  BY <2>1, <2>3, <3>3
  <2>7. /\ request'.revision = 2 * Committed' + (IF writer'.at = "idle" THEN 0 ELSE 1)
        /\ request'.epoch = Committed' + (IF writer'.at = "commit" THEN 1 ELSE 0)
        /\ ~Waiting'
    BY <1>0, <2>1, <2>2 DEF Requested, Waiting
  <2>. QED  BY <2>5, <2>6, <2>7 DEF Requested
<1>. QED  BY <1>1, <1>2, <1>3, <1>4 DEF WriterSteps

-----------------------------------------------------------------------------
(***************************************************************************)
(* What one chunk makes of the integration.                                *)
(***************************************************************************)
\* The naturals are ordered
LEMMA NatOrder ==
    \A x, y, z \in Nat :
        /\ x > y => (~(y >= x)) /\ y < x
        /\ x <= y => y >= x
        /\ x >= y => y <= x
        /\ x >= y => x > y \/ x = y
        /\ x < y => x <= y
        /\ x = y => y >= x /\ y <= x
        /\ x >= z /\ y < z => (~(y >= x)) /\ y < x
        /\ x <= y /\ y < z => z >= x
        /\ x >= z => (~(x < z))
OBVIOUS

\* The boundary has been applied before, lies behind the chunk, at or before its
\* first frame, inside it, or at its end
LEMMA ProcessEffect ==
    ASSUME Types, ProcessChunk, worker.chunk >= ChunkFrames,
           NEW start, start = worker.chunk - ChunkFrames
    PROVE  /\ loudness'.to = worker.chunk
           /\ history'.start = (IF loudness.to = start THEN history.start ELSE start)
           /\ \/ /\ look["worker"].epoch = applied \/ look["worker"].end > worker.chunk
                 /\ applied' = applied
                 /\ loudness'.from = (IF loudness.to = start THEN loudness.from ELSE start)
              \/ /\ look["worker"].epoch # applied /\ applied' = look["worker"].epoch
                 /\ \/ look["worker"].end <= start /\ loudness'.from = start
                    \/ /\ start < look["worker"].end /\ look["worker"].end <= worker.chunk
                       /\ loudness'.from = look["worker"].end
<1> DEFINE current == [loudness |-> loudness, applied |-> applied]
           first == AtBoundary(current, start)
           middle == Analysed(first, start, worker.chunk)
           processed == AtBoundary(middle, worker.chunk)
           k == look["worker"].epoch
           b == look["worker"].end
<1>0. /\ loudness.from \in Nat /\ loudness.to \in Nat /\ applied \in Nat
      /\ k \in Nat /\ b \in Nat /\ worker.chunk \in Nat /\ start \in Nat
      /\ start < worker.chunk
      /\ loudness = [from |-> loudness.from, to |-> loudness.to]
      /\ history \in [boundaries : Seq(Nat), lifecycles : Nat, start : Nat]
  <2>1. look["worker"] \in Looks
    BY DEF Types, ReaderTypes, Readers
  <2>2. k \in Nat /\ b \in Nat
    BY <2>1 DEF Looks
  <2>3. worker.chunk \in Nat /\ start \in Nat /\ start < worker.chunk
    BY DEF Types, ReaderTypes, Workers
  <2>4. loudness \in Loudnesses /\ applied \in Nat
        /\ history \in [boundaries : Seq(Nat), lifecycles : Nat, start : Nat]
    BY DEF Types, MessageTypes, ReaderTypes
  <2>. QED  BY <2>2, <2>3, <2>4 DEF Loudnesses
<1>1. /\ loudness' = processed.loudness /\ applied' = processed.applied
      /\ history' = (IF loudness.to = start THEN history ELSE [history EXCEPT !.start = start])
  BY DEF ProcessChunk
<1>2. history'.start = (IF loudness.to = start THEN history.start ELSE start)
  BY <1>0, <1>1
<1>3. first = IF k # applied /\ start >= b
              THEN [loudness |-> [from |-> loudness.to, to |-> loudness.to], applied |-> k]
              ELSE [loudness |-> loudness, applied |-> applied]
  BY DEF AtBoundary
<1> HIDE DEF first, k, b
<1>4. middle = IF k # first.applied /\ b > start /\ b < worker.chunk
               THEN [loudness |-> [from |-> b, to |-> worker.chunk], applied |-> k]
               ELSE [loudness |-> [from |-> IF first.loudness.to = start
                                            THEN first.loudness.from ELSE start,
                                   to |-> worker.chunk],
                     applied |-> first.applied]
  <2>1. PICK f, t, a : first = [loudness |-> [from |-> f, to |-> t], applied |-> a]
    <3>1. CASE k # applied /\ start >= b
      BY <1>3, <3>1
    <3>2. CASE ~(k # applied /\ start >= b)
      <4>1. first = [loudness |-> loudness, applied |-> applied]
        BY <1>3, <3>2
      <4>. QED  BY <1>0, <4>1
    <3>. QED  BY <3>1, <3>2
  <2>2. CASE k # first.applied /\ b > start /\ b < worker.chunk
    BY <2>2 DEF Analysed, k, b
  <2>3. CASE ~(k # first.applied /\ b > start /\ b < worker.chunk)
    <3>1. middle = [(IF first.loudness.to = start THEN first
                     ELSE [first EXCEPT !.loudness = [from |-> start, to |-> start]])
                    EXCEPT !.loudness.to = worker.chunk]
      BY <2>3 DEF Analysed, k, b
    <3>2. CASE first.loudness.to = start
      BY <2>1, <2>3, <3>1, <3>2
    <3>3. CASE first.loudness.to # start
      BY <2>1, <2>3, <3>1, <3>3
    <3>. QED  BY <3>2, <3>3
  <2>. QED  BY <2>2, <2>3
<1> HIDE DEF middle
<1>5. processed = IF k # middle.applied /\ worker.chunk >= b
                  THEN [loudness |-> [from |-> middle.loudness.to, to |-> middle.loudness.to],
                        applied |-> k]
                  ELSE middle
  BY DEF AtBoundary, k, b
<1> HIDE DEF processed
<1>6. CASE k = applied
  <2>1. first = [loudness |-> loudness, applied |-> applied]
    BY <1>3, <1>6
  <2>2. middle = [loudness |-> [from |-> IF loudness.to = start THEN loudness.from ELSE start,
                                to |-> worker.chunk],
                  applied |-> applied]
    BY <1>4, <1>6, <2>1
  <2>3. processed = middle
    BY <1>5, <1>6, <2>2
  <2>4. /\ loudness' = [from |-> IF loudness.to = start THEN loudness.from ELSE start,
                        to |-> worker.chunk]
        /\ applied' = applied
    BY <1>1, <2>2, <2>3
  <2>. QED  BY <1>2, <1>6, <2>4 DEF k, b
<1>7. CASE k # applied /\ b <= start
  <2>0. start >= b /\ worker.chunk >= b
    BY SMTT(30), <1>0, <1>7, NatOrder
  <2>1. first = [loudness |-> [from |-> loudness.to, to |-> loudness.to], applied |-> k]
    BY <1>3, <1>7, <2>0
  <2>2. middle = [loudness |-> [from |-> start, to |-> worker.chunk], applied |-> k]
    BY <1>4, <2>1
  <2>3. processed = middle
    BY <1>5, <2>2
  <2>4. loudness' = [from |-> start, to |-> worker.chunk] /\ applied' = k
    BY <1>1, <2>2, <2>3
  <2>. QED  BY <1>2, <1>7, <2>4 DEF k, b
<1>8. CASE k # applied /\ b > start /\ b < worker.chunk
  <2>0. ~(start >= b) /\ start < b /\ b <= worker.chunk
    BY <1>0, <1>8, NatOrder
  <2>1. first = [loudness |-> loudness, applied |-> applied]
    BY <1>3, <2>0
  <2>2. middle = [loudness |-> [from |-> b, to |-> worker.chunk], applied |-> k]
    BY <1>4, <1>8, <2>1
  <2>3. processed = middle
    BY <1>5, <2>2
  <2>4. loudness' = [from |-> b, to |-> worker.chunk] /\ applied' = k
    BY <1>1, <2>2, <2>3
  <2>. QED  BY <1>2, <1>8, <2>0, <2>4 DEF k, b
<1>9. CASE k # applied /\ b >= worker.chunk
  <2>1. ~(start >= b) /\ ~(b < worker.chunk) /\ start < b
    BY <1>0, <1>9, NatOrder
  <2>2. first = [loudness |-> loudness, applied |-> applied]
    BY <1>3, <2>1
  <2>3. middle = [loudness |-> [from |-> IF loudness.to = start THEN loudness.from ELSE start,
                                to |-> worker.chunk],
                  applied |-> applied]
    BY <1>4, <2>1, <2>2
  <2>4. CASE b > worker.chunk
    <3>1. ~(worker.chunk >= b)
      BY <1>0, <2>4, NatOrder
    <3>2. processed = middle
      BY <1>5, <3>1
    <3>3. /\ loudness' = [from |-> IF loudness.to = start THEN loudness.from ELSE start,
                          to |-> worker.chunk]
          /\ applied' = applied
      BY <1>1, <2>3, <3>2
    <3>. QED  BY <1>2, <2>4, <3>3 DEF k, b
  <2>5. CASE b = worker.chunk
    <3>1. worker.chunk >= b /\ b <= worker.chunk
      BY <1>0, <2>5, NatOrder
    <3>2. processed = [loudness |-> [from |-> worker.chunk, to |-> worker.chunk], applied |-> k]
      BY <1>5, <1>9, <2>3, <3>1
    <3>3. loudness' = [from |-> worker.chunk, to |-> worker.chunk] /\ applied' = k
      BY <1>1, <3>2
    <3>. QED  BY <1>2, <1>9, <2>1, <2>5, <3>1, <3>3 DEF k, b
  <2>6. b > worker.chunk \/ b = worker.chunk
    BY <1>0, <1>9, NatOrder
  <2>. QED  BY <2>4, <2>5, <2>6
<1>. QED  BY <1>0, <1>6, <1>7, <1>8, <1>9

-----------------------------------------------------------------------------
(***************************************************************************)
(* The queue: chunks follow each other, and none that is still to come       *)
(* begins before what has been analysed or before the applied boundary.      *)
(***************************************************************************)
Ahead(x) ==
    /\ x <= captured - packed
    /\ \A i \in 1..Len(chunks) : x + ChunkFrames <= chunks[i]
    /\ worker.kept # 0 => x + ChunkFrames <= worker.kept
    /\ worker.chunk # 0 => x + ChunkFrames <= worker.chunk

\* A chunk that has left the queue is older than those in it
Taken(c) ==
    c # 0 => /\ ChunkFrames <= c /\ c <= captured - packed
             /\ \A i \in 1..Len(chunks) : c + ChunkFrames <= chunks[i]

Queued ==
    /\ \A i, j \in 1..Len(chunks) : i < j => chunks[i] + ChunkFrames <= chunks[j]
    /\ \A i \in 1..Len(chunks) : ChunkFrames <= chunks[i] /\ chunks[i] <= captured - packed
    /\ Taken(worker.kept) /\ Taken(worker.chunk)
    /\ worker.at = "chunk" <=> worker.chunk # 0
    /\ worker.at = "chunk" => worker.kept = 0

Order == Queued /\ Ahead(loudness.to) /\ Ahead(Boundary(applied))

\* The callback adds a chunk behind all others, and may drop the oldest
LEMMA OrderCapture ==
    ASSUME Types, Queued, Capture, NEW x \in Nat
    PROVE  Queued' /\ (Ahead(x) => Ahead(x)')
<1> DEFINE queued == Append(chunks, captured + 1)
<1>0. /\ captured \in Nat /\ packed \in 0..(ChunkFrames - 1) /\ chunks \in Seq(Nat)
      /\ worker' = worker /\ captured' = captured + 1 /\ worker \in Workers
      /\ packed <= captured
  BY DEF Types, MessageTypes, ReaderTypes, Capture
<1>1. CASE packed + 1 # ChunkFrames
  <2>1. chunks' = chunks /\ captured' - packed' = captured - packed
    BY <1>0, <1>1 DEF Capture
  <2>. QED  BY <1>0, <2>1 DEF Queued, Taken, Ahead
<1>2. CASE packed + 1 = ChunkFrames
  <2>1. captured' - packed' = captured + 1 /\ captured - packed + ChunkFrames = captured + 1
    BY <1>0, <1>2 DEF Capture
  <2>2. /\ Len(queued) = Len(chunks) + 1
        /\ \A i \in 1..Len(chunks) : queued[i] = chunks[i]
        /\ queued[Len(chunks) + 1] = captured + 1
        /\ queued \in Seq(Nat)
    BY <1>0
  <2>3. PICK k \in {0, 1} : /\ Len(chunks') = Len(queued) - k
                            /\ \A i \in 1..Len(chunks') : chunks'[i] = queued[i + k]
    <3>1. CASE chunks' = queued
      BY <2>2, <3>1
    <3>2. CASE chunks' = Tail(queued)
      <4>1. queued # <<>>
        BY <2>2
      <4>. QED  BY <2>2, <3>2, <4>1
    <3>. QED  BY <1>2, <3>1, <3>2 DEF Capture
  <2>4. chunks \in Seq(Nat) /\ Len(chunks) \in Nat
        /\ \A i \in 1..Len(chunks) : chunks[i] \in Nat
    BY <1>0
  <2> DEFINE n == Len(chunks)
             m == Len(chunks')
  <2>5. m = n + 1 - k /\ n \in Nat /\ m \in Nat
    BY <2>2, <2>3, <2>4
  <2>6. ASSUME NEW i \in 1..m
        PROVE  \/ i + k \in 1..n /\ chunks'[i] = chunks[i + k]
               \/ i + k = n + 1 /\ chunks'[i] = captured + 1
    <3>1. i + k \in 1..(n + 1) /\ chunks'[i] = queued[i + k]
      BY <2>3, <2>5
    <3> HIDE DEF queued
    <3>. QED  BY <2>2, <3>1
  <2> HIDE DEF queued, n, m
  <2>7. \A i \in 1..n : /\ chunks[i] \in Nat /\ ChunkFrames <= chunks[i]
                        /\ chunks[i] + ChunkFrames <= captured + 1
    BY <1>0, <2>1, <2>4 DEF Queued, n
  <2>8. ASSUME NEW i \in 1..m
        PROVE  ChunkFrames <= chunks'[i] /\ chunks'[i] <= captured' - packed'
    <3>1. ChunkFrames <= captured + 1
      BY <1>0, <1>2
    <3>2. CASE i + k \in 1..n
      <4>1. /\ chunks[i + k] \in Nat /\ ChunkFrames <= chunks[i + k]
            /\ chunks[i + k] + ChunkFrames <= captured + 1
        BY <2>7, <3>2
      <4>2. chunks'[i] = chunks[i + k]
        BY <1>0, <2>5, <2>6, <3>2
      <4>. QED  BY <1>0, <2>1, <4>1, <4>2
    <3>3. CASE chunks'[i] = captured + 1
      BY <1>0, <2>1, <3>1, <3>3
    <3>. QED  BY <2>6, <3>2, <3>3
  <2>9. ASSUME NEW i \in 1..m, NEW j \in 1..m, i < j
        PROVE  chunks'[i] + ChunkFrames <= chunks'[j]
    <3>1. i + k \in 1..n /\ chunks'[i] = chunks[i + k]
      BY <2>5, <2>6, <2>9
    <3>2. CASE j + k = n + 1
      BY <2>5, <2>6, <2>7, <3>1, <3>2
    <3>3. CASE j + k \in 1..n
      <4>1. chunks'[j] = chunks[j + k] /\ i + k < j + k
        BY <2>5, <2>6, <2>9, <3>3
      <4>. QED  BY <3>1, <3>3, <4>1 DEF Queued, n
    <3>. QED  BY <2>6, <3>2, <3>3
  <2>11. ASSUME NEW c \in Nat, \A i \in 1..n : c + ChunkFrames <= chunks[i],
                c <= captured - packed
         PROVE  /\ \A i \in 1..m : c + ChunkFrames <= chunks'[i]
                /\ c <= captured' - packed'
    <3>1. c + ChunkFrames <= captured + 1
      BY <1>0, <2>1, <2>11
    <3>. QED  BY <1>0, <2>1, <2>6, <2>11, <3>1
  <2>10. worker.kept \in Nat /\ worker.chunk \in Nat
    BY <1>0 DEF Workers
  <2>. QED  BY <1>0, <2>8, <2>9, <2>10, <2>11 DEF Queued, Taken, Ahead, n, m
<1>. QED  BY <1>1, <1>2

\* The worker takes the oldest chunk, keeps it for later or is done with it
LEMMA OrderWorker ==
    ASSUME Types, Queued, [Next]_vars, ~Capture, NEW x \in Nat
    PROVE  /\ Queued'
           /\ Ahead(x) => Ahead(x)'
           /\ ProcessChunk /\ x = worker.chunk => Ahead(x)'
<1>0. /\ captured \in Nat /\ packed \in 0..(ChunkFrames - 1) /\ chunks \in Seq(Nat)
      /\ packed <= captured /\ worker \in Workers
      /\ worker.chunk \in Nat /\ worker.kept \in Nat
      /\ \A i \in 1..Len(chunks) : chunks[i] \in Nat
  BY SMTT(30) DEF Types, MessageTypes, ReaderTypes, Workers
<1>1. CASE /\ UNCHANGED <<captured, packed, chunks>>
           /\ worker'.kept = worker.kept /\ worker'.chunk = worker.chunk
           /\ worker'.at = "chunk" <=> worker.at = "chunk"
           /\ ~ProcessChunk
  BY <1>1 DEF Queued, Taken, Ahead
<1>2. CASE Acquire
  <2>0. worker.chunk = 0 /\ worker'.at = "chunk" /\ worker'.kept = 0
        /\ UNCHANGED <<captured, packed>> /\ ~ProcessChunk
    BY <1>0, <1>2 DEF Acquire, WorkerOnly, Queued, ProcessChunk, Workers
  <2>1. CASE worker.kept # 0
    <3>1. worker'.chunk = worker.kept /\ chunks' = chunks
      BY <1>0, <1>2, <2>1 DEF Acquire, Workers
    <3>. QED  BY <1>0, <2>0, <2>1, <3>1 DEF Queued, Taken, Ahead
  <2>2. CASE worker.kept = 0
    <3>1. worker'.chunk = chunks[1] /\ chunks # <<>>
          /\ Len(chunks') = Len(chunks) - 1 /\ Len(chunks) \in Nat \ {0}
          /\ \A i \in 1..Len(chunks') : chunks'[i] = chunks[i + 1]
      <4>1. chunks # <<>> /\ chunks' = Tail(chunks) /\ worker'.chunk = Head(chunks)
        BY <1>0, <1>2, <2>2 DEF Acquire, Workers
      <4>. QED  BY <1>0, <4>1
    <3>2. \A i \in 1..Len(chunks') : i + 1 \in 1..Len(chunks) /\ 1 \in 1..Len(chunks)
      BY <3>1
    <3>3. \A i \in 1..Len(chunks') : /\ ChunkFrames <= chunks'[i]
                                     /\ chunks'[i] <= captured - packed
      BY <3>1, <3>2 DEF Queued
    <3>4. \A i, j \in 1..Len(chunks') : i < j => chunks'[i] + ChunkFrames <= chunks'[j]
      BY <3>1, <3>2 DEF Queued
    <3>5. /\ ChunkFrames <= chunks[1] /\ chunks[1] <= captured - packed
          /\ \A i \in 1..Len(chunks') : chunks[1] + ChunkFrames <= chunks'[i]
      BY <3>1, <3>2 DEF Queued
    <3>6. chunks[1] \in Nat
      BY <1>0, <3>1
    <3>7. Queued' \/ chunks[1] = 0
      BY <2>0, <3>1, <3>3, <3>4, <3>5 DEF Queued, Taken
    <3>8. chunks[1] # 0
      BY <3>5, <3>6
    <3>9. Ahead(x) => Ahead(x)'
      BY <2>0, <3>1, <3>2 DEF Ahead
    <3>. QED  BY <2>0, <3>7, <3>8, <3>9
  <2>. QED  BY <2>1, <2>2
<1>3. CASE KeepChunk
  <2>1. worker'.kept = worker.chunk /\ worker'.chunk = 0 /\ worker'.at = "idle"
        /\ worker.at = "chunk" /\ UNCHANGED <<captured, packed, chunks>>
    BY <1>0, <1>3 DEF KeepChunk, WorkerOnly, Workers
  <2>2. ~ProcessChunk
    BY <1>3 DEF KeepChunk, ProcessChunk, Coherent
  <2>. QED  BY <1>0, <2>1, <2>2 DEF Queued, Taken, Ahead
<1>4. CASE ProcessChunk
  <2>1. worker'.chunk = 0 /\ worker'.at = "refresh" /\ worker'.kept = worker.kept
        /\ worker.at = "chunk" /\ UNCHANGED <<captured, packed, chunks>>
    BY <1>0, <1>4 DEF ProcessChunk, Refresh, WorkerOnly, Workers
  <2>. QED  BY <1>0, <2>1 DEF Queued, Taken, Ahead
<1>5. CASE BeginGeneration
  <2>1. worker'.chunk = worker.chunk /\ worker'.kept = 0 /\ worker.at = "idle"
        /\ worker'.at = "idle" /\ captured' = captured /\ packed' = 0 /\ chunks' = <<>>
    BY <1>0, <1>5 DEF BeginGeneration, Workers
  <2>2. ~ProcessChunk /\ worker.chunk = 0
    BY <2>1 DEF ProcessChunk, Queued
  <2>. QED  BY <1>0, <2>1, <2>2 DEF Queued, Taken, Ahead
<1>6. CASE \/ ApplyInitial \/ InitialUnreadable \/ NothingToAcquire
           \/ StartJob \/ FinishRefresh \/ Publish
  <2>1. worker.at # "chunk" /\ worker'.at # "chunk" /\ worker'.kept = worker.kept
        /\ worker'.chunk \in {0, worker.chunk} /\ UNCHANGED <<captured, packed, chunks>>
    BY <1>0, <1>6 DEF ApplyInitial, InitialUnreadable, NothingToAcquire, StartJob, FinishRefresh,
                      Publish, Refresh, WorkerOnly, Workers
  <2>2. worker'.chunk = worker.chunk /\ ~ProcessChunk
    BY <2>1 DEF Queued, ProcessChunk
  <2>. QED  BY <1>1, <2>1, <2>2
<1>7. CASE UNCHANGED vars \/ WriterSteps \/ RenderSteps \/ Look("worker")
  <2>1. UNCHANGED <<captured, packed, chunks, worker>>
    BY <1>7 DEF vars, WriterSteps, BeginRequest, LoadCaptured, StoreBoundary, AdvanceEpoch,
                CommitRequest, WriterOnly, RenderSteps, Look, CopyFrame, ShowFrame,
                RenderOnly
  <2>. QED  BY <1>1, <1>4, <2>1
<1>. QED  BY <1>2, <1>3, <1>4, <1>5, <1>6, <1>7 DEF Next, WorkerSteps

-----------------------------------------------------------------------------
(***************************************************************************)
(* What has been missed.  The analyzer is never past a boundary it has yet   *)
(* to apply, and while the worker looks at the request, the chunk in its     *)
(* hands is not past any boundary newer than the one it will read.           *)
(***************************************************************************)
Unmissed ==
    /\ applied <= Committed
    /\ applied < Committed => loudness.to <= Boundary(Committed)
    /\ Waiting => loudness.to <= Upcoming

\* A worker that has read epoch k
UpTo(k) ==
    /\ applied <= k
    /\ applied < k => loudness.to <= Boundary(k)
    /\ \A d \in (k + 1)..Committed : worker.chunk <= Boundary(d)
    /\ Waiting => worker.chunk <= Upcoming

\* What a reader that has found the revision even may rely on, whichever epoch
\* was the last committed one then
Reading(r, k) == IF r = "worker" THEN UpTo(k) ELSE render.known <= k

\* The fields loaded so far belong to epoch k if the revision is unchanged
LoadedOf(r, k) ==
    request.revision = 2 * k =>
        /\ look[r].at \in {"end", "recheck"} => look[r].epoch = k
        /\ r = "worker" /\ look[r].at = "recheck" => look[r].end = Boundary(k)

Midway(r) == look[r].at \in {"epoch", "end", "recheck"} =>
    \E k \in 0..Committed :
        look[r].revision = 2 * k /\ Reading(r, k) /\ LoadedOf(r, k)

CopiedCoherently(r) == look[r].at = "copied" =>
    /\ look[r].epoch \in 0..Committed
    /\ Reading(r, look[r].epoch)
    /\ r = "worker" => look[r].end = Boundary(look[r].epoch)

LooksCoherent ==
    /\ \A r \in Readers : Midway(r) /\ CopiedCoherently(r)
    /\ worker.at \in {"idle", "acquire", "publish"} => look["worker"].at = "off"
    /\ look["render"].at # "off" => render.at = "copied"
    /\ render.known <= Committed

\* One load of a lookup: the revision, the fields, the revision again
LEMMA LookCoherent ==
    ASSUME Types, Requested, Order, Unmissed, LooksCoherent, NEW r \in Readers, Look(r)
    PROVE  LooksCoherent' /\ Unmissed'
<1> USE BoundaryTypes
<1>0. /\ look \in [Readers -> Looks] /\ look[r] \in Looks
      /\ request \in [revision : Nat, epoch : Nat, end : Nat]
      /\ worker \in Workers /\ captured \in Nat
      /\ Readers = {"worker", "render"} /\ applied \in Nat
  BY DEF Types, MessageTypes, ReaderTypes, Readers
<1>1. /\ UNCHANGED <<captured, request, writer, worker, loudness, applied, render, history>>
      /\ look' = [look EXCEPT ![r] = Looked(r)]
      /\ look[r].at \in {"revision", "epoch", "end", "recheck"}
  BY DEF Look
<1>2. /\ Committed' = Committed /\ \A e : Boundary(e)' = Boundary(e)
      /\ Waiting' = Waiting /\ Upcoming' = Upcoming
      /\ \A s, k : Reading(s, k)' = Reading(s, k)
  BY <1>1 DEF Committed, Boundary, Waiting, Upcoming, Reading, UpTo
<1>3. \A s \in Readers : s # r => look'[s] = look[s]
  BY <1>0, <1>1
<1>4. look'[r] = Looked(r)
  BY <1>0, <1>1
<1>5. Retried(r).at \in {"revision", "failed"}
  BY <1>0 DEF Retried, Begun, Off
<1>6. CASE look'[r].at \in {"revision", "failed"}
  BY <1>0, <1>1, <1>2, <1>3, <1>6
     DEF LooksCoherent, Midway, CopiedCoherently, LoadedOf, Unmissed
<1>7. CASE look[r].at = "revision" /\ request.revision % 2 # 1
  <2>1. look'[r].at = "epoch" /\ look'[r].revision = request.revision
    BY <1>0, <1>4, <1>7 DEF Looked, Looks
  <2>2. writer.at = "idle" /\ request.revision = 2 * Committed
    BY <1>0, <1>7 DEF Requested
  <2>3. Reading(r, Committed)
    BY <1>0, <2>2 DEF Reading, UpTo, Unmissed, Waiting, LooksCoherent
  <2>4. Midway(r)' /\ CopiedCoherently(r)'
    BY <1>2, <2>1, <2>2, <2>3 DEF Midway, CopiedCoherently, LoadedOf
  <2>. QED  BY <1>0, <1>1, <1>2, <1>3, <2>1, <2>4
            DEF LooksCoherent, Midway, CopiedCoherently, LoadedOf, Unmissed
<1>8. CASE look[r].at \in {"epoch", "end", "recheck"} /\ look'[r].at \notin {"revision", "failed"}
  <2>1. PICK k \in 0..Committed :
          look[r].revision = 2 * k /\ Reading(r, k) /\ LoadedOf(r, k)
    BY <1>8 DEF LooksCoherent, Midway
  <2>2. request.revision = 2 * k =>
          /\ writer.at = "idle" /\ k = Committed /\ request.epoch = k
          /\ request.end = Boundary(k)
    BY <1>0 DEF Requested
  <2>3. CASE look[r].at = "epoch"
    <3>1. look'[r].at \in {"end", "recheck"} /\ (look'[r].at = "recheck" => r = "render")
          /\ look'[r].revision = look[r].revision /\ look'[r].epoch = request.epoch
      BY <1>0, <1>4, <2>3 DEF Looked, Looks, AfterEpoch
    <3>2. LoadedOf(r, k)'
      BY <1>1, <2>2, <3>1 DEF LoadedOf
    <3>3. Midway(r)' /\ CopiedCoherently(r)'
      BY <1>2, <2>1, <3>1, <3>2 DEF Midway, CopiedCoherently
    <3>. QED  BY <1>0, <1>1, <1>2, <1>3, <3>1, <3>3
              DEF LooksCoherent, Midway, CopiedCoherently, LoadedOf, Unmissed
  <2>4. CASE look[r].at = "end"
    <3>1. look'[r].at = "recheck" /\ look'[r].end = request.end
          /\ look'[r].revision = look[r].revision /\ look'[r].epoch = look[r].epoch
      BY <1>0, <1>4, <2>4 DEF Looked, Looks
    <3>2. LoadedOf(r, k)'
      BY <1>1, <1>2, <2>1, <2>2, <2>4, <3>1 DEF LoadedOf
    <3>3. Midway(r)' /\ CopiedCoherently(r)'
      BY <1>2, <2>1, <3>1, <3>2 DEF Midway, CopiedCoherently
    <3>. QED  BY <1>0, <1>1, <1>2, <1>3, <3>1, <3>3
              DEF LooksCoherent, Midway, CopiedCoherently, LoadedOf, Unmissed
  <2>5. CASE look[r].at = "recheck"
    <3>1. look'[r].at = "copied" /\ request.revision = look[r].revision
          /\ look'[r].end = look[r].end /\ look'[r].epoch = look[r].epoch
      BY <1>0, <1>4, <1>5, <1>8, <2>5 DEF Looked, Off
    <3>2. look[r].epoch = k /\ (r = "worker" => look[r].end = Boundary(k))
      BY <2>1, <2>5, <3>1 DEF LoadedOf
    <3>3. Midway(r)' /\ CopiedCoherently(r)'
      BY <1>2, <2>1, <3>1, <3>2 DEF Midway, CopiedCoherently
    <3>. QED  BY <1>0, <1>1, <1>2, <1>3, <3>1, <3>3
              DEF LooksCoherent, Midway, CopiedCoherently, LoadedOf, Unmissed
  <2>. QED  BY <1>8, <2>3, <2>4, <2>5
<1>9. look[r].at = "revision" /\ request.revision % 2 = 1 => look'[r].at \in {"revision", "failed"}
  BY <1>4, <1>5 DEF Looked
<1>. QED  BY <1>0, <1>1, <1>6, <1>7, <1>8, <1>9

\* The message thread commits no boundary behind what the worker has taken
LEMMA MessageCoherent ==
    ASSUME Types, Requested, Order, Unmissed, LooksCoherent,
           Capture \/ WriterSteps \/ UNCHANGED vars
    PROVE  LooksCoherent' /\ Unmissed'
<1> USE BoundaryTypes
<1>0. /\ look \in [Readers -> Looks] /\ applied \in Nat /\ Readers = {"worker", "render"}
      /\ request \in [revision : Nat, epoch : Nat, end : Nat]
      /\ writer \in [at : {"idle", "load", "store", "epoch", "commit"}, frames : Nat]
      /\ worker \in Workers /\ captured \in Nat /\ packed \in Nat
      /\ worker.chunk \in Nat /\ loudness.to \in Nat /\ render.known \in Nat
  BY DEF Types, MessageTypes, ReaderTypes, Readers, Workers, Loudnesses
<1>1. UNCHANGED <<look, worker, loudness, applied, render>>
  BY DEF vars, Capture, WriterSteps, BeginRequest, LoadCaptured, StoreBoundary, AdvanceEpoch,
         CommitRequest, WriterOnly
<1>2. [Next]_vars
  BY DEF Next
<1>3. Requested'
  BY <1>2, RequestedNext
<1>4. /\ Committed' \in {Committed, Committed + 1}
      /\ \A e \in 0..Committed : Boundary(e)' = Boundary(e)
  BY <1>2, BoundariesKept
<1>5. loudness.to <= captured /\ worker.chunk <= captured
  BY SMTT(30), <1>0 DEF Order, Queued, Taken, Ahead
<1>6. Waiting' => \/ Waiting /\ Upcoming' = Upcoming
                  \/ Upcoming' = captured
  BY SMTT(30), <1>0 DEF vars, Capture, WriterSteps, BeginRequest, LoadCaptured, StoreBoundary, AdvanceEpoch,
              CommitRequest, WriterOnly, Waiting, Upcoming
<1>7. \A d : d = Committed + 1 /\ d <= Committed' => Waiting /\ Boundary(d)' = Upcoming
  <2>1. CASE CommitRequest
    BY <1>2, <2>1, BoundariesKept DEF CommitRequest, Waiting, Upcoming
  <2>2. CASE ~CommitRequest
    BY <1>2, <2>2, BoundariesKept
  <2>. QED  BY <2>1, <2>2
<1>8. Unmissed'
  <2>1. PICK d : d = Committed'
    OBVIOUS
  <2>2. Boundary(Committed)' = Boundary(d)'
    BY <2>1 DEF Boundary
  <2>3. applied < Committed' => loudness.to <= Boundary(d)'
    <3>1. CASE Committed' = Committed
      BY <1>4, <2>1, <3>1 DEF Unmissed
    <3>2. CASE Committed' = Committed + 1
      BY <1>7, <2>1, <3>2 DEF Unmissed
    <3>. QED  BY <1>4, <3>1, <3>2
  <2>4. applied <= Committed'
    BY <1>0, <1>4 DEF Unmissed
  <2>. QED  BY <1>0, <1>1, <1>5, <1>6, <2>2, <2>3, <2>4 DEF Unmissed
<1>9. ASSUME NEW k \in 0..Committed, UpTo(k) PROVE UpTo(k)'
  <2>1. ASSUME NEW d \in (k + 1)..Committed' PROVE worker.chunk <= Boundary(d)'
    <3>1. CASE d <= Committed
      BY <1>4, <1>9, <3>1 DEF UpTo
    <3>2. CASE d = Committed + 1
      BY <1>7, <1>9, <3>2 DEF UpTo
    <3>. QED  BY <1>4, <3>1, <3>2
  <2>. QED  BY <1>1, <1>4, <1>5, <1>6, <1>9, <2>1 DEF UpTo
<1>10. ASSUME NEW k \in 0..Committed, NEW r \in Readers, Reading(r, k) PROVE Reading(r, k)'
  BY <1>1, <1>9, <1>10 DEF Reading
<1>11. ASSUME NEW k \in 0..Committed, NEW r \in Readers, LoadedOf(r, k) PROVE LoadedOf(r, k)'
  <2>1. CASE WriterSteps
    <3>1. request'.revision = 2 * k => writer'.at = "idle" /\ Committed' = k
      BY <1>3, <1>4 DEF Requested
    <3>2. writer'.at = "idle" => CommitRequest
      BY <1>0, <2>1 DEF WriterSteps, BeginRequest, LoadCaptured, StoreBoundary, AdvanceEpoch
    <3>3. CommitRequest => Committed' = Committed + 1
      BY <1>2, BoundariesKept
    <3>. QED  BY <3>1, <3>2, <3>3 DEF LoadedOf
  <2>2. CASE Capture \/ UNCHANGED vars
    BY <1>1, <1>4, <1>11, <2>2 DEF Capture, vars, LoadedOf
  <2>. QED  BY <2>1, <2>2
<1>12. ASSUME NEW r \in Readers PROVE Midway(r)' /\ CopiedCoherently(r)'
  <2>1. Midway(r)'
    <3>1. SUFFICES ASSUME look[r].at \in {"epoch", "end", "recheck"}
                   PROVE  \E k \in 0..Committed' :
                            look[r].revision = 2 * k /\ Reading(r, k)' /\ LoadedOf(r, k)'
      BY <1>1 DEF Midway
    <3>2. PICK k \in 0..Committed :
            look[r].revision = 2 * k /\ Reading(r, k) /\ LoadedOf(r, k)
      BY <3>1 DEF LooksCoherent, Midway
    <3>. QED  BY <1>4, <1>10, <1>11, <3>2
  <2>2. CopiedCoherently(r)'
    <3>1. SUFFICES ASSUME look[r].at = "copied", NEW k, k = look[r].epoch
                   PROVE  /\ k \in 0..Committed' /\ Reading(r, k)'
                          /\ r = "worker" => look[r].end = Boundary(k)'
      BY <1>1 DEF CopiedCoherently, Reading, UpTo, Boundary
    <3>2. k \in 0..Committed /\ Reading(r, k) /\ (r = "worker" => look[r].end = Boundary(k))
      BY <3>1 DEF LooksCoherent, CopiedCoherently
    <3>. QED  BY <1>4, <1>10, <3>2
  <2>. QED  BY <2>1, <2>2
<1>. QED  BY <1>0, <1>1, <1>4, <1>8, <1>12 DEF LooksCoherent

-----------------------------------------------------------------------------
(***************************************************************************)
(* The integration starts where it was asked to.  After a new lifecycle it   *)
(* is empty and has not started; the first chunk then does.                  *)
(***************************************************************************)
Restarted ==
    /\ history.start <= loudness.to /\ loudness.from <= loudness.to
    /\ \/ loudness.from = Latest(history.start, Boundary(applied))
       \/ loudness.from = 0 /\ loudness.to = 0 /\ Boundary(applied) > 0

\* The other steps leave the integration alone
LEMMA IntegrationKept ==
    ASSUME Types, [Next]_vars, ~ApplyInitial, ~ProcessChunk, ~BeginGeneration
    PROVE  UNCHANGED <<loudness, applied, history.start>>
<1>1. history \in [boundaries : Seq(Nat), lifecycles : Nat, start : Nat]
  BY DEF Types, MessageTypes
<1>. QED  BY <1>1 DEF Next, vars, Capture, WriterSteps, BeginRequest, LoadCaptured, StoreBoundary,
       AdvanceEpoch, CommitRequest, WriterOnly, WorkerSteps, Look, StartJob, InitialUnreadable,
       FinishRefresh, Acquire, NothingToAcquire, KeepChunk, Publish, RenderSteps, RenderOnly,
       CopyFrame, ShowFrame

\* What the worker has copied before it applies a boundary
LEMMA CopiedByWorker ==
    ASSUME Types, LooksCoherent, Coherent("worker")
    PROVE  /\ look["worker"].epoch \in 0..Committed
           /\ UpTo(look["worker"].epoch)
           /\ look["worker"].end = Boundary(look["worker"].epoch)
BY DEF LooksCoherent, CopiedCoherently, Reading, Coherent, Readers

\* A boundary applied before a chunk is acquired is the analyzer's position
LEMMA InitialEffect ==
    ASSUME Types, LooksCoherent, ApplyInitial
    PROVE  /\ loudness'.to = loudness.to
           /\ \/ UNCHANGED <<loudness, applied>>
              \/ /\ applied < applied' /\ applied' = look["worker"].epoch
                 /\ Boundary(look["worker"].epoch) = loudness.to
                 /\ loudness'.from = loudness.to
<1> DEFINE k == look["worker"].epoch
<1>1. k \in 0..Committed /\ UpTo(k) /\ look["worker"].end = Boundary(k)
  BY CopiedByWorker DEF ApplyInitial
<1>2. loudness.to \in Nat /\ applied \in Nat /\ Boundary(k) \in Nat /\ k \in Nat
  BY <1>1, BoundaryTypes DEF Types, ReaderTypes, Loudnesses
<1>3. CASE k # applied /\ loudness.to >= Boundary(k)
  <2>1. loudness' = [from |-> loudness.to, to |-> loudness.to] /\ applied' = k
    BY <1>1, <1>3 DEF ApplyInitial, AtBoundary
  <2>2. applied < k /\ loudness.to <= Boundary(k)
    BY <1>1, <1>2, <1>3 DEF UpTo
  <2>. QED  BY <1>2, <1>3, <2>1, <2>2
<1>4. CASE ~(k # applied /\ loudness.to >= Boundary(k))
  BY <1>1, <1>4 DEF ApplyInitial, AtBoundary
<1>. QED  BY <1>3, <1>4

\* The worker and the render thread
LEMMA WorkerCoherent ==
    ASSUME Types, Requested, Order, Unmissed, LooksCoherent, WorkerSteps \/ BeginGeneration
           \/ RenderSteps, ~(\E r \in Readers : Look(r))
    PROVE  LooksCoherent' /\ Unmissed'
<1> USE BoundaryTypes
<1>0. /\ look \in [Readers -> Looks] /\ applied \in Nat /\ Readers = {"worker", "render"}
      /\ request \in [revision : Nat, epoch : Nat, end : Nat]
      /\ worker \in Workers /\ loudness.to \in Nat
  BY DEF Types, MessageTypes, ReaderTypes, Readers, Loudnesses
<1>1. /\ UNCHANGED <<request, writer>> /\ Committed' = Committed
      /\ \A e : Boundary(e)' = Boundary(e)
      /\ Waiting' = Waiting /\ Upcoming' = Upcoming
  <2>1. UNCHANGED <<request, writer>> /\ ~CommitRequest /\ [Next]_vars
    BY <1>0 DEF Next, WorkerSteps, Look, StartJob, ApplyInitial, InitialUnreadable, FinishRefresh,
       Acquire, NothingToAcquire, KeepChunk, ProcessChunk, Publish, BeginGeneration,
       RenderSteps, WorkerOnly, RenderOnly, CopyFrame, ShowFrame, CommitRequest
  <2>. QED  BY <2>1, BoundariesKept DEF Waiting, Upcoming
<1>2. CASE RenderSteps
  <2>1. UNCHANGED <<worker, loudness, applied, history>>
    BY <1>0, <1>2 DEF RenderSteps, CopyFrame, ShowFrame, RenderOnly
  <2>2. look'["worker"] = look["worker"] /\ look'["render"].at \in {"off", "revision"}
    <3>1. CASE CopyFrame
      BY <1>0, <3>1 DEF CopyFrame, Begun, Off
    <3>2. CASE ShowFrame
      BY <1>0, <3>2 DEF ShowFrame, Off
    <3>. QED  BY <1>0, <1>2, <3>1, <3>2 DEF RenderSteps
  <2>3. \/ render'.at = "copied" /\ render'.known = Committed
        \/ look'["render"].at = "off" /\ render'.known = render.known
    <3>1. CASE CopyFrame
      BY <3>1 DEF CopyFrame, Committed
    <3>2. CASE ShowFrame
      BY <1>0, <3>2 DEF ShowFrame, Off, Types, ReaderTypes
    <3>. QED  BY <1>0, <1>2, <3>1, <3>2 DEF RenderSteps
  <2>4. Midway("worker")' /\ CopiedCoherently("worker")'
    <3>1. Midway("worker") /\ CopiedCoherently("worker")
      BY <1>0 DEF LooksCoherent
    <3>. QED  BY <1>1, <2>1, <2>2, <3>1 DEF Midway, CopiedCoherently, LoadedOf, Reading, UpTo
  <2>5. Midway("render")' /\ CopiedCoherently("render")'
    BY <2>2 DEF Midway, CopiedCoherently
  <2>. QED  BY <1>0, <1>1, <2>1, <2>2, <2>3, <2>4, <2>5 DEF LooksCoherent, Unmissed
<1>3. CASE WorkerSteps \/ BeginGeneration
  <2>1. UNCHANGED render
    BY <1>3 DEF WorkerSteps, Look, StartJob, ApplyInitial, InitialUnreadable, FinishRefresh,
       Acquire, NothingToAcquire, KeepChunk, ProcessChunk, Publish, BeginGeneration, WorkerOnly
  <2>2. look'["render"] = look["render"]
    BY <1>0, <1>3 DEF WorkerSteps, StartJob, ApplyInitial, InitialUnreadable, FinishRefresh,
       Acquire, NothingToAcquire, KeepChunk, ProcessChunk, Publish, BeginGeneration, Refresh
  <2>3. look'["worker"].at \in {"off", "revision"}
    <3>1. worker.at \in {"idle", "publish"} => look["worker"].at = "off"
      BY DEF LooksCoherent
    <3>2. CASE Publish \/ BeginGeneration
      BY <3>1, <3>2 DEF Publish, BeginGeneration
    <3>3. CASE KeepChunk \/ FinishRefresh
      BY <1>0, <3>3 DEF KeepChunk, FinishRefresh, Off
    <3>4. CASE StartJob \/ Acquire
      <4>1. look' = [look EXCEPT !["worker"] = Begun]
        BY <3>4 DEF StartJob, Acquire
      <4>. QED  BY <1>0, <4>1 DEF Begun, Off
    <3>5. CASE ApplyInitial \/ InitialUnreadable \/ NothingToAcquire \/ ProcessChunk
      <4>1. look' = [look EXCEPT !["worker"] = Begun]
        BY <3>5 DEF ApplyInitial, InitialUnreadable, NothingToAcquire, ProcessChunk, Refresh
      <4>. QED  BY <1>0, <4>1 DEF Begun, Off
    <3>. QED  BY <1>0, <1>3, <3>2, <3>3, <3>4, <3>5 DEF WorkerSteps
  <2>4. worker'.at \in {"idle", "acquire", "publish"} => look'["worker"].at = "off"
    <3>1. worker.at \in {"idle", "publish"} => look["worker"].at = "off"
      BY DEF LooksCoherent
    <3>2. CASE StartJob \/ KeepChunk \/ Publish \/ BeginGeneration
      BY <1>0, <3>1, <3>2 DEF StartJob, KeepChunk, Publish, BeginGeneration, Off, Workers
    <3>3. CASE FinishRefresh
      BY <1>0, <3>3 DEF FinishRefresh, Off
    <3>4. CASE ApplyInitial \/ InitialUnreadable \/ Acquire \/ NothingToAcquire \/ ProcessChunk
      <4>1. worker'.at \in {"refresh", "chunk"}
        BY <1>0, <3>4 DEF ApplyInitial, InitialUnreadable, Acquire, NothingToAcquire, ProcessChunk,
                          Refresh, Workers
      <4>. QED  BY <4>1
    <3>. QED  BY <1>0, <1>3, <3>2, <3>3, <3>4 DEF WorkerSteps
  <2>5. Midway("worker")' /\ CopiedCoherently("worker")'
    BY <2>3 DEF Midway, CopiedCoherently
  <2>6. Midway("render")' /\ CopiedCoherently("render")'
    <3>1. Midway("render") /\ CopiedCoherently("render")
      BY <1>0 DEF LooksCoherent
    <3>. QED  BY <1>1, <2>1, <2>2, <3>1 DEF Midway, CopiedCoherently, LoadedOf, Reading
  <2>7. LooksCoherent'
    BY <1>0, <1>1, <2>1, <2>2, <2>4, <2>5, <2>6 DEF LooksCoherent
  <2>8. PICK n : n = Committed /\ n = Committed' /\ Boundary(Committed)' = Boundary(n)
    <3>1. PICK n : n = Committed
      OBVIOUS
    <3>2. Boundary(Committed)' = Boundary(n)'
      BY <1>1, <3>1 DEF Boundary
    <3>. QED  BY <1>1, <3>1, <3>2
  <2>9. Unmissed'
    <3>1. CASE ApplyInitial
      <4>1. applied <= applied' /\ applied' <= Committed /\ loudness'.to = loudness.to
            /\ applied' \in Nat
        BY <1>0, <3>1, InitialEffect, CopiedByWorker DEF ApplyInitial, Unmissed
      <4>. QED  BY <1>0, <1>1, <2>8, <4>1 DEF Unmissed
    <3>2. CASE ProcessChunk
      <4> DEFINE k == look["worker"].epoch
      <4>1. k \in 0..Committed /\ UpTo(k) /\ look["worker"].end = Boundary(k)
            /\ worker.chunk \in Nat
        BY <1>0, <3>2, CopiedByWorker DEF ProcessChunk, Workers
      <4>2. worker.chunk >= ChunkFrames
        BY <1>0, <3>2 DEF ProcessChunk, Order, Queued, Taken, Workers
      <4>3. /\ loudness'.to = worker.chunk
            /\ \/ applied' = k
               \/ applied' = applied /\ Boundary(k) > worker.chunk
        BY <3>2, <4>1, <4>2, ProcessEffect
      <4>4. k < Committed => worker.chunk <= Boundary(Committed)
        BY <4>1 DEF UpTo
      <4>5. applied <= k
        BY <4>1 DEF UpTo
      <4>6. applied' \in Nat /\ applied' <= Committed
        BY <1>0, <4>1, <4>3, <4>5
      <4>7. applied' < Committed => worker.chunk <= Boundary(Committed)
        BY <1>0, <4>1, <4>3, <4>4, <4>5
      <4>. QED  BY <1>1, <2>8, <4>1, <4>3, <4>6, <4>7 DEF Unmissed, UpTo
    <3>3. CASE BeginGeneration
      <4>1. applied' = request.epoch /\ loudness'.to = 0 /\ writer.at = "idle"
        BY <3>3 DEF BeginGeneration, NoLoudness
      <4>. QED  BY <1>0, <1>1, <2>8, <4>1 DEF Requested, Unmissed, Waiting
    <3>4. CASE ~ApplyInitial /\ ~ProcessChunk /\ ~BeginGeneration
      <4>1. UNCHANGED <<loudness, applied>>
        BY <1>3, <3>4, IntegrationKept DEF Next
      <4>. QED  BY <1>1, <2>8, <4>1 DEF Unmissed
    <3>. QED  BY <3>1, <3>2, <3>3, <3>4
  <2>. QED  BY <2>7, <2>9
<1>. QED  BY <1>2, <1>3

\* An earlier position has as much ahead of it
LEMMA Earlier ==
    ASSUME NEW x \in Nat, NEW y \in Nat, NEW c \in Nat, NEW p \in Nat, x <= y
    PROVE  /\ y <= c - p => x <= c - p
           /\ y + p <= c => x + p <= c
           /\ x + p <= c => c >= p /\ x <= c - p /\ c - p \in Nat /\ c - p <= c
OBVIOUS

\* The order survives every step
LEMMA OrderNext ==
    ASSUME Types, Requested, Order, Unmissed, LooksCoherent, [Next]_vars
    PROVE  Order'
<1> USE BoundaryTypes
<1>0. /\ loudness.to \in Nat /\ applied \in Nat /\ Boundary(applied) \in Nat
      /\ captured \in Nat /\ packed \in Nat /\ worker \in Workers /\ chunks \in Seq(Nat)
      /\ worker.kept \in Nat /\ worker.chunk \in Nat
  <2>1. /\ loudness \in Loudnesses /\ applied \in Nat /\ captured \in Nat
        /\ packed \in Nat /\ worker \in Workers /\ chunks \in Seq(Nat)
    BY DEF Types, MessageTypes, ReaderTypes
  <2>2. worker.kept \in Nat /\ worker.chunk \in Nat
    BY <2>1 DEF Workers
  <2>3. loudness.to \in Nat
    BY <2>1 DEF Loudnesses
  <2>4. applied \in 0..Committed
    BY <2>1 DEF Unmissed
  <2>. QED  BY <2>1, <2>2, <2>3, <2>4
<1>1. Queued'
  BY <1>0, OrderCapture, OrderWorker DEF Order
<1>2. ASSUME NEW x \in Nat, Ahead(x) PROVE Ahead(x)'
  BY <1>2, OrderCapture, OrderWorker DEF Order
<1>3. ASSUME NEW x \in Nat, NEW y \in Nat, x <= y, Ahead(y)' PROVE Ahead(x)'
  <2>1. Types'
    <3>1. worker.at = "chunk" => worker.chunk >= ChunkFrames
      BY <1>0 DEF Order, Queued, Taken
    <3>2. CASE UNCHANGED vars
      BY <3>2 DEF vars, Types, MessageTypes, ReaderTypes
    <3>. QED  BY <3>1, <3>2, TypesMessage, TypesWorker DEF Next
  <2>2. /\ captured' \in Nat /\ packed' \in Nat /\ worker' \in Workers
        /\ chunks' \in Seq(Nat)
    BY <2>1 DEF Types, MessageTypes, ReaderTypes
  <2>3. worker'.kept \in Nat /\ worker'.chunk \in Nat
    BY <2>2 DEF Workers
  <2>4. \A i \in 1..Len(chunks') : chunks'[i] \in Nat
    BY <2>2
  <2>5. \A c \in Nat : y + ChunkFrames <= c => x + ChunkFrames <= c
    BY <1>3
  <2>6. x <= captured' - packed'
    <3>1. y <= captured' - packed'
      BY <1>3 DEF Ahead
    <3>2. captured' \in Nat /\ packed' \in Nat /\ x <= y
      BY <1>3, <2>2
    <3>. QED  BY <1>3, <3>1, <3>2, Earlier
  <2>7. \A i \in 1..Len(chunks') : x + ChunkFrames <= chunks'[i]
    BY <1>3, <2>4, <2>5 DEF Ahead
  <2>8. /\ worker'.kept # 0 => x + ChunkFrames <= worker'.kept
        /\ worker'.chunk # 0 => x + ChunkFrames <= worker'.chunk
    BY <1>3, <2>3, <2>5 DEF Ahead
  <2>. QED  BY <2>6, <2>7, <2>8 DEF Ahead
<1>4. ASSUME NEW x, x = loudness'.to, x \in Nat, Ahead(x)',
             NEW y, y = Boundary(applied)', y \in Nat, Ahead(y)'
      PROVE  Order'
  BY <1>1, <1>4 DEF Order, Ahead
<1>5. CASE ApplyInitial
  <2>1. PICK x : x = loudness.to /\ x = loudness'.to
    BY <1>5, InitialEffect
  <2>2. Committed' = Committed /\ \A e : Boundary(e)' = Boundary(e)
    BY <1>5, BoundariesKept DEF ApplyInitial, CommitRequest, WorkerOnly
  <2>3. PICK e : e = applied'
    OBVIOUS
  <2>4. Boundary(applied)' = Boundary(e)
    BY <2>2, <2>3 DEF Boundary
  <2>5. \/ Boundary(e) = Boundary(applied)
        \/ Boundary(e) = x
    BY <1>5, <2>1, <2>3, InitialEffect
  <2>. QED  BY <1>0, <1>2, <1>4, <2>1, <2>4, <2>5 DEF Order
<1>6. CASE ProcessChunk
  <2> DEFINE k == look["worker"].epoch
             start == worker.chunk - ChunkFrames
  <2>1. k \in 0..Committed /\ look["worker"].end = Boundary(k)
    BY <1>6, CopiedByWorker DEF ProcessChunk
  <2>2. worker.chunk >= ChunkFrames /\ Boundary(applied) <= start /\ start <= worker.chunk
    BY SMTT(30), <1>0, <1>6 DEF ProcessChunk, Order, Queued, Taken, Ahead
  <2>3. PICK x : x = worker.chunk
    OBVIOUS
  <2>4. Ahead(x)' /\ x \in Nat
    <3>1. ~Capture
      BY <1>0, <1>6 DEF ProcessChunk, WorkerOnly, Capture
    <3>. QED  BY <1>0, <1>6, <2>3, <3>1, OrderWorker DEF Order
  <2>5. PICK e : e = applied'
    OBVIOUS
  <2>6. Committed' = Committed /\ \A d : Boundary(d)' = Boundary(d)
    BY <1>6, BoundariesKept DEF ProcessChunk, CommitRequest, WorkerOnly
  <2>7. Boundary(applied)' = Boundary(e)
    BY <2>5, <2>6 DEF Boundary
  <2>8. loudness'.to = x /\ Boundary(e) <= x /\ Boundary(e) \in Nat
    <3>1. worker.chunk \in Nat /\ start \in Nat /\ Boundary(k) \in Nat
      BY SMTT(30), <1>0, <2>1, <2>2
    <3>2. /\ loudness'.to = worker.chunk
          /\ \/ applied' = applied
             \/ applied' = k /\ (Boundary(k) <= start \/ Boundary(k) <= worker.chunk)
      BY <1>6, <2>1, <2>2, <3>1, ProcessEffect
    <3>. QED  BY SMTT(30), <1>0, <2>2, <2>3, <2>5, <3>1, <3>2
  <2>. QED  BY <1>3, <1>4, <2>4, <2>7, <2>8
<1>7. CASE BeginGeneration
  <2>1. applied' = request.epoch /\ loudness'.to = 0 /\ writer.at = "idle"
        /\ worker'.kept = 0 /\ worker'.chunk = worker.chunk /\ worker.at = "idle"
        /\ captured' = captured /\ packed' = 0 /\ chunks' = <<>>
    BY <1>0, <1>7 DEF BeginGeneration, NoLoudness, Workers
  <2>2. worker.chunk = 0
    BY <2>1 DEF Order, Queued
  <2>3. Committed' = Committed /\ \A d : Boundary(d)' = Boundary(d)
    BY <2>1, BoundariesKept DEF CommitRequest
  <2>4. PICK e : e = Committed
    OBVIOUS
  <2>5. Boundary(applied)' = Boundary(e) /\ Boundary(e) <= captured /\ Boundary(e) \in Nat
    <3>1. applied' = e
      BY <2>1, <2>4 DEF Requested
    <3>. QED  BY <2>3, <2>4, <3>1 DEF Boundary, Requested
  <2>6. \A x \in Nat : x <= captured => Ahead(x)'
    BY <1>0, <2>1, <2>2 DEF Ahead
  <2>7. PICK x : x = loudness'.to
    OBVIOUS
  <2>. QED  BY <1>0, <1>4, <2>1, <2>5, <2>6, <2>7
<1>8. CASE ~ApplyInitial /\ ~ProcessChunk /\ ~BeginGeneration
  <2>1. UNCHANGED <<loudness, applied>>
    BY <1>8, IntegrationKept
  <2>2. PICK x : x = loudness.to
    OBVIOUS
  <2>3. PICK e : e = applied
    OBVIOUS
  <2>4. Boundary(applied)' = Boundary(e)
    <3>1. e \in 0..Committed
      BY <1>0, <2>3 DEF Unmissed
    <3>2. Boundary(e)' = Boundary(e)
      BY <3>1, BoundariesKept
    <3>. QED  BY <2>1, <2>3, <3>2 DEF Boundary
  <2>. QED  BY <1>0, <1>2, <1>4, <2>1, <2>2, <2>3, <2>4 DEF Order
<1>. QED  BY <1>5, <1>6, <1>7, <1>8

\* The applied boundary is the same after a step that applies none
LEMMA AppliedKept ==
    ASSUME Types, Unmissed, [Next]_vars, applied' = applied
    PROVE  Boundary(applied)' = Boundary(applied)
<1>1. PICK e : e = applied
  OBVIOUS
<1>2. e \in 0..Committed
  BY <1>1 DEF Unmissed, Types, ReaderTypes
<1>3. Boundary(e)' = Boundary(e)
  BY <1>2, BoundariesKept
<1>. QED  BY <1>1, <1>3 DEF Boundary

\* The integration starts where it was asked to after every step
LEMMA RestartedNext ==
    ASSUME Types, Requested, Order, Unmissed, LooksCoherent, Restarted, [Next]_vars
    PROVE  Restarted'
<1> USE BoundaryTypes
<1>0. /\ loudness \in Loudnesses /\ loudness.from \in Nat /\ loudness.to \in Nat
      /\ applied \in 0..Committed /\ Boundary(applied) \in Nat
      /\ history \in [boundaries : Seq(Nat), lifecycles : Nat, start : Nat]
      /\ history.start \in Nat /\ worker.chunk \in Nat
  <2>1. loudness \in Loudnesses /\ worker \in Workers
        /\ history \in [boundaries : Seq(Nat), lifecycles : Nat, start : Nat]
    BY DEF Types, MessageTypes, ReaderTypes
  <2>2. applied \in 0..Committed
    BY DEF Types, ReaderTypes, Unmissed
  <2>3. loudness.from \in Nat /\ loudness.to \in Nat /\ worker.chunk \in Nat
    BY <2>1 DEF Loudnesses, Workers
  <2>. QED  BY <2>1, <2>2, <2>3
<1>1. ASSUME NEW b, b = Boundary(applied)',
             history'.start <= loudness'.to, loudness'.from <= loudness'.to,
             \/ loudness'.from = Latest(history'.start, b)
             \/ loudness'.from = 0 /\ loudness'.to = 0 /\ b > 0
      PROVE  Restarted'
  BY <1>1 DEF Restarted, Latest
<1>2. CASE ApplyInitial
  <2>1. CASE UNCHANGED <<loudness, applied>>
    <3>1. Boundary(applied)' = Boundary(applied)
      BY <2>1, AppliedKept
    <3>. QED  BY <1>1, <1>2, <2>1, <3>1 DEF ApplyInitial, Restarted
  <2>2. CASE ~UNCHANGED <<loudness, applied>>
    <3>1. PICK k : k = look["worker"].epoch
      OBVIOUS
    <3>2. /\ applied' = k /\ Boundary(k) = loudness.to
          /\ loudness'.from = loudness.to /\ loudness'.to = loudness.to
          /\ history' = history
      BY <1>2, <2>2, <3>1, InitialEffect DEF ApplyInitial
    <3>3. k \in 0..Committed
      BY <1>2, <3>1, CopiedByWorker DEF ApplyInitial
    <3>4. Boundary(applied)' = Boundary(k)
      <4>1. Boundary(k)' = Boundary(k)
        BY <3>3, BoundariesKept
      <4>. QED  BY <3>2, <4>1 DEF Boundary
    <3>5. history.start <= loudness.to
      BY DEF Restarted
    <3>6. Latest(history.start, loudness.to) = loudness.to
      BY <1>0, <3>5 DEF Latest
    <3>. QED  BY <1>0, <1>1, <3>2, <3>4, <3>5, <3>6
  <2>. QED  BY <2>1, <2>2
<1>3. CASE ProcessChunk
  <2>1. PICK k, start : k = look["worker"].epoch /\ start = worker.chunk - ChunkFrames
    OBVIOUS
  <2>2. k \in 0..Committed /\ UpTo(k) /\ look["worker"].end = Boundary(k) /\ Boundary(k) \in Nat
    BY <1>3, <2>1, CopiedByWorker DEF ProcessChunk
  <2>3. /\ worker.chunk >= ChunkFrames /\ loudness.to <= start /\ Boundary(applied) <= start
        /\ start \in Nat /\ start <= worker.chunk
    <3>1. worker.at = "chunk" /\ worker.chunk # 0
      BY <1>3 DEF ProcessChunk, Order, Queued
    <3>2. ChunkFrames <= worker.chunk
      BY <3>1 DEF Order, Queued, Taken
    <3>3. /\ loudness.to + ChunkFrames <= worker.chunk
          /\ Boundary(applied) + ChunkFrames <= worker.chunk
      BY <3>1 DEF Order, Ahead
    <3>4. loudness.to \in Nat /\ Boundary(applied) \in Nat /\ worker.chunk \in Nat
          /\ ChunkFrames \in Nat
      BY <1>0
    <3>. QED  BY <2>1, <3>2, <3>3, <3>4, Earlier
  <2>4. /\ loudness'.to = worker.chunk
        /\ history'.start = (IF loudness.to = start THEN history.start ELSE start)
        /\ \/ /\ applied' = applied
              /\ loudness'.from = (IF loudness.to = start THEN loudness.from ELSE start)
           \/ /\ applied' = k /\ k # applied
              /\ \/ Boundary(k) <= start /\ loudness'.from = start
                 \/ /\ start < Boundary(k) /\ Boundary(k) <= worker.chunk
                    /\ loudness'.from = Boundary(k)
    BY <1>3, <2>1, <2>2, <2>3, ProcessEffect
  <2>5. history.start <= loudness.to /\ loudness.from <= loudness.to
    BY DEF Restarted
  <2>6. history'.start \in Nat /\ history'.start <= start
    BY <1>0, <2>3, <2>4, <2>5
  <2>7. CASE applied' = applied
    <3>1. loudness'.from = (IF loudness.to = start THEN loudness.from ELSE start)
          \/ k # applied'
      BY <2>4, <2>7
    <3>2. Boundary(applied)' = Boundary(applied)
      BY <2>7, AppliedKept
    <3>3. loudness'.from = (IF loudness.to = start THEN loudness.from ELSE start)
      BY <2>4, <2>7
    <3>4. loudness'.from = Latest(history'.start, Boundary(applied))
      <4>1. CASE loudness.to # start
        BY <1>0, <2>3, <2>4, <3>3, <4>1 DEF Latest
      <4>2. CASE loudness.to = start
        <5>1. loudness.from = Latest(history.start, Boundary(applied))
          BY <1>0, <2>3, <4>2 DEF Restarted
        <5>. QED  BY <2>4, <3>3, <4>2, <5>1
      <4>. QED  BY <4>1, <4>2
    <3>5. loudness'.from <= loudness'.to /\ history'.start <= loudness'.to
      BY <1>0, <2>3, <2>4, <2>5, <2>6, <3>3
    <3>. QED  BY <1>1, <3>2, <3>4, <3>5
  <2>8. CASE applied' # applied
    <3>1. /\ applied' = k /\ k # applied
          /\ \/ Boundary(k) <= start /\ loudness'.from = start
             \/ /\ start < Boundary(k) /\ Boundary(k) <= worker.chunk
                /\ loudness'.from = Boundary(k)
      BY <2>4, <2>8
    <3>2. Boundary(applied)' = Boundary(k)
      <4>1. Boundary(k)' = Boundary(k)
        BY <2>2, BoundariesKept
      <4>. QED  BY <3>1, <4>1 DEF Boundary
    <3>3. loudness.to <= Boundary(k)
      BY <1>0, <2>2, <3>1 DEF UpTo
    <3>4. loudness'.from = Latest(history'.start, Boundary(k))
      <4>1. CASE Boundary(k) <= start /\ loudness'.from = start /\ loudness.to = start
        BY <1>0, <2>2, <2>3, <2>6, <3>3, <4>1 DEF Latest
      <4>2. CASE Boundary(k) <= start /\ loudness'.from = start /\ loudness.to # start
        BY <2>2, <2>3, <2>4, <4>2 DEF Latest
      <4>3. CASE start < Boundary(k) /\ loudness'.from = Boundary(k)
        BY <2>2, <2>3, <2>6, <4>3 DEF Latest
      <4>. QED  BY <3>1, <4>1, <4>2, <4>3
    <3>5. loudness'.from <= loudness'.to /\ history'.start <= loudness'.to
      BY <1>0, <2>2, <2>3, <2>4, <2>6, <3>1
    <3>. QED  BY <1>1, <3>2, <3>4, <3>5
  <2>. QED  BY <2>7, <2>8
<1>4. CASE BeginGeneration
  <2>1. loudness' = NoLoudness /\ applied' = request.epoch /\ writer.at = "idle"
        /\ history' = [history EXCEPT !.lifecycles = @ + 1, !.start = 0]
    BY <1>4 DEF BeginGeneration
  <2>2. loudness'.from = 0 /\ loudness'.to = 0 /\ history'.start = 0
    BY <1>0, <2>1 DEF NoLoudness
  <2>3. PICK e : e = Committed
    OBVIOUS
  <2>4. Boundary(applied)' = Boundary(e) /\ Boundary(e) \in Nat
    <3>1. applied' = e
      BY <2>1, <2>3 DEF Requested
    <3>2. Boundary(e)' = Boundary(e)
      BY <2>3, BoundariesKept
    <3>. QED  BY <2>3, <3>1, <3>2 DEF Boundary
  <2>. QED  BY <1>1, <2>2, <2>4 DEF Latest
<1>5. CASE ~ApplyInitial /\ ~ProcessChunk /\ ~BeginGeneration
  <2>1. UNCHANGED <<loudness, applied, history.start>>
    BY <1>5, IntegrationKept
  <2>2. Boundary(applied)' = Boundary(applied)
    BY <2>1, AppliedKept
  <2>. QED  BY <1>1, <2>1, <2>2 DEF Restarted
<1>. QED  BY <1>2, <1>3, <1>4, <1>5

-----------------------------------------------------------------------------
(***************************************************************************)
(* The frames on their way to the display: a valid one contains nothing from *)
(* before a boundary it has applied, and one that is shown has applied every *)
(* boundary known when it was copied.                                        *)
(***************************************************************************)
FrameTrue(f) == f.valid =>
    f.applied <= Committed /\ \A e \in 1..f.applied : Boundary(e) <= f.from

FramesTrue ==
    /\ FrameTrue(frame) /\ FrameTrue(published) /\ FrameTrue(render.frame)
    /\ render.at = "shown" /\ render.frame.valid => render.known <= render.frame.applied

\* A frame that was true stays so: boundaries never change
LEMMA FrameStaysTrue ==
    ASSUME Types, [Next]_vars, NEW f \in Frames, FrameTrue(f)
    PROVE  FrameTrue(f)'
<1>1. f.applied \in Nat /\ Committed \in Nat
  BY BoundaryTypes DEF Frames
<1>2. Committed' \in {Committed, Committed + 1}
      /\ \A e \in 0..Committed : Boundary(e)' = Boundary(e)
  BY BoundariesKept
<1>. QED  BY <1>1, <1>2 DEF FrameTrue

\* The worker makes a true frame of the integration, the render thread shows one
LEMMA FramesNext ==
    ASSUME Types, Requested, Unmissed, LooksCoherent, Restarted, FramesTrue, [Next]_vars
    PROVE  FramesTrue'
<1> USE BoundaryTypes
<1>0. frame \in Frames /\ published \in Frames
      /\ render \in [at : {"idle", "copied", "shown"}, frame : Frames, known : Nat]
      /\ render.frame \in Frames
  BY DEF Types, ReaderTypes
<1>1. FrameTrue(frame)' \/ ~(frame' = frame)
  BY <1>0, FrameStaysTrue DEF FramesTrue, FrameTrue
<1>2. FrameTrue(published)' \/ ~(published' = published)
  BY <1>0, FrameStaysTrue DEF FramesTrue, FrameTrue
<1>3. FrameTrue(render.frame)' \/ ~(render'.frame = render.frame)
  BY <1>0, FrameStaysTrue DEF FramesTrue, FrameTrue
<1>4. CASE FinishRefresh
  <2>1. UNCHANGED <<published, render>> /\ frame' = Refreshed(look["worker"])
    BY <1>4 DEF FinishRefresh, WorkerOnly
  <2>2. CASE frame' # frame
    <3>1. /\ frame'.from = loudness.from /\ frame'.applied = applied
          /\ frame'.valid => loudness.to > loudness.from
      BY <2>1, <2>2 DEF Refreshed
    <3>2. ASSUME loudness.to > loudness.from
          PROVE  /\ applied \in 0..Committed
                 /\ \A e \in 1..applied : Boundary(e) <= loudness.from
      <4>1. applied \in 0..Committed
        BY DEF Types, ReaderTypes, Unmissed
      <4>2. loudness.from \in Nat /\ history.start \in Nat
        BY DEF Types, MessageTypes, ReaderTypes, Loudnesses
      <4>3. loudness.from = Latest(history.start, Boundary(applied))
        BY <3>2 DEF Restarted
      <4>4. Boundary(applied) <= loudness.from
        BY <4>1, <4>2, <4>3 DEF Latest
      <4>5. \A e \in 1..applied : Boundary(e) <= Boundary(applied)
        BY <4>1 DEF Requested
      <4>. QED  BY <4>1, <4>2, <4>4, <4>5
    <3>3. ~CommitRequest
      BY <2>2 DEF CommitRequest, WriterOnly
    <3>4. Committed' = Committed /\ \A e : Boundary(e)' = Boundary(e)
      BY <3>3, BoundariesKept
    <3>5. FrameTrue(frame)'
      BY <3>1, <3>2, <3>4 DEF FrameTrue
    <3>. QED  BY <1>2, <1>3, <2>1, <3>5 DEF FramesTrue
  <2>. QED  BY <1>1, <1>2, <1>3, <2>1, <2>2 DEF FramesTrue
<1>5. CASE BeginGeneration
  <2>1. UNCHANGED render /\ ~frame'.valid /\ published' = frame'
    BY <1>5 DEF BeginGeneration, NoFrame
  <2>. QED  BY <1>3, <2>1 DEF FramesTrue, FrameTrue
<1>6. CASE Publish
  <2>1. UNCHANGED <<frame, render>> /\ published' = frame
    BY <1>6 DEF Publish, WorkerOnly
  <2>2. FrameTrue(published)'
    BY <1>1, <2>1 DEF FrameTrue
  <2>. QED  BY <1>1, <1>3, <2>1, <2>2 DEF FramesTrue
<1>7. CASE CopyFrame
  <2>1. UNCHANGED <<frame, published>> /\ render'.frame = published /\ render'.at = "copied"
    BY <1>7 DEF CopyFrame, RenderOnly
  <2>2. FrameTrue(render.frame)'
    BY <1>2, <2>1 DEF FrameTrue
  <2>. QED  BY <1>1, <1>2, <2>1, <2>2 DEF FramesTrue
<1>8. CASE ShowFrame
  <2>1. UNCHANGED <<frame, published>> /\ render'.known = render.known
        /\ render'.frame = Shown(render.frame, look["render"])
    BY <1>0, <1>8 DEF ShowFrame, RenderOnly
  <2>2. /\ render'.frame.from = render.frame.from
        /\ render'.frame.applied = render.frame.applied
        /\ render'.frame.valid => /\ render.frame.valid /\ look["render"].at = "copied"
                                  /\ look["render"].epoch = render.frame.applied
    BY <1>0, <2>1 DEF Shown, Frames
  <2>3. look["render"].at = "copied" => render.known <= look["render"].epoch
    BY DEF LooksCoherent, CopiedCoherently, Reading, Readers
  <2>4. FrameTrue(render.frame)'
    <3>1. ~CommitRequest
      BY <1>8 DEF ShowFrame, RenderOnly, CommitRequest
    <3>2. Committed' = Committed /\ \A e : Boundary(e)' = Boundary(e)
      BY <3>1, BoundariesKept
    <3>. QED  BY <2>2, <3>2 DEF FramesTrue, FrameTrue
  <2>. QED  BY <1>1, <1>2, <2>1, <2>2, <2>3, <2>4 DEF FramesTrue
<1>9. CASE ~FinishRefresh /\ ~BeginGeneration /\ ~Publish /\ ~CopyFrame /\ ~ShowFrame
  <2>1. UNCHANGED <<frame, published, render>>
    BY <1>9 DEF Next, vars, Capture, WriterSteps, BeginRequest, LoadCaptured, StoreBoundary,
       AdvanceEpoch, CommitRequest, WriterOnly, WorkerSteps, Look, StartJob, ApplyInitial,
       InitialUnreadable, Acquire, NothingToAcquire, KeepChunk, ProcessChunk, WorkerOnly,
       RenderSteps
  <2>. QED  BY <1>1, <1>2, <1>3, <2>1 DEF FramesTrue
<1>. QED  BY <1>4, <1>5, <1>6, <1>7, <1>8, <1>9

-----------------------------------------------------------------------------
(***************************************************************************)
(* LoudnessWindows: the inductive invariant.                               *)
(***************************************************************************)
IInv ==
    /\ Types /\ Requested /\ Order /\ Unmissed /\ LooksCoherent
    /\ Restarted /\ FramesTrue

\* Nothing has been captured or requested in the initial state
LEMMA InitIInv == Init => IInv
<1> SUFFICES ASSUME Init PROVE IInv
  OBVIOUS
<1>1. Types /\ Requested
  BY InitTypes, RequestedInit
<1>2. Committed = 0 /\ \A e : e = 0 => Boundary(e) = 0
  BY DEF Init, Committed, Boundary
<1>3. Order
  BY <1>2 DEF Init, Order, Queued, Taken, Ahead, NoLoudness, Boundary
<1>4. Unmissed
  BY <1>2 DEF Init, Unmissed, NoLoudness, Waiting
<1>5. LooksCoherent
  BY <1>2 DEF Init, LooksCoherent, Midway, CopiedCoherently, Off, Readers
<1>6. Restarted
  BY <1>2 DEF Init, Restarted, NoLoudness, Latest, Boundary
<1>7. FramesTrue
  BY DEF Init, FramesTrue, FrameTrue, NoFrame
<1>. QED  BY <1>1, <1>3, <1>4, <1>5, <1>6, <1>7 DEF IInv

\* Every step keeps it
LEMMA NextIInv == IInv /\ [Next]_vars => IInv'
<1> SUFFICES ASSUME IInv, [Next]_vars PROVE IInv'
  OBVIOUS
<1>0. Types /\ Requested /\ Order /\ Unmissed /\ LooksCoherent /\ Restarted /\ FramesTrue
  BY DEF IInv
<1>1. Types'
  <2>1. worker.at = "chunk" => worker.chunk >= ChunkFrames
    <3>1. worker.chunk \in Nat
      BY <1>0 DEF Types, ReaderTypes, Workers
    <3>. QED  BY <1>0, <3>1 DEF Order, Queued, Taken
  <2>2. CASE UNCHANGED vars
    BY <1>0, <2>2 DEF vars, Types, MessageTypes, ReaderTypes
  <2>. QED  BY <1>0, <2>1, <2>2, TypesMessage, TypesWorker DEF Next
<1>2. LooksCoherent' /\ Unmissed'
  <2>1. CASE \E r \in Readers : Look(r)
    BY <1>0, <2>1, LookCoherent
  <2>2. CASE Capture \/ WriterSteps \/ UNCHANGED vars
    BY <1>0, <2>2, MessageCoherent
  <2>3. CASE ~(\E r \in Readers : Look(r)) /\ (WorkerSteps \/ BeginGeneration \/ RenderSteps)
    BY <1>0, <2>3, WorkerCoherent
  <2>. QED  BY <2>1, <2>2, <2>3 DEF Next
<1>3. Requested' /\ Order' /\ Restarted' /\ FramesTrue'
  BY <1>0, RequestedNext, OrderNext, RestartedNext, FramesNext
<1>. QED  BY <1>1, <1>2, <1>3 DEF IInv

\* The requests, the queue, what each reader has loaded, the integration and the frames
\* on their way to the display stay consistent with each other.
THEOREM ResetInvariant == Spec => []IInv
<1>. QED  BY InitIInv, NextIInv, PTL DEF Spec

\* Whatever job, lookup or publication is under way when a reset is committed, a frame
\* copied later never shows an integrated loudness that contains a frame from before it.
THEOREM ResetNeverUndone == Spec => []ResetIsNeverUndone
<1>1. IInv => ResetIsNeverUndone
  <2> SUFFICES ASSUME IInv, render.at = "shown", render.frame.valid,
                      NEW e \in 1..render.known
               PROVE  render.frame.from >= history.boundaries[e]
    BY DEF ResetIsNeverUndone
  <2>1. render.known \in Nat /\ render.frame.applied \in Nat /\ render.frame.from \in Nat
    BY DEF IInv, Types, ReaderTypes, Frames
  <2>2. render.known <= render.frame.applied /\ FrameTrue(render.frame)
    BY DEF IInv, FramesTrue
  <2>3. e \in 1..render.frame.applied /\ e \in 0..Committed
    BY <2>1, <2>2, BoundaryTypes DEF FrameTrue, IInv
  <2>4. Boundary(e) <= render.frame.from /\ Boundary(e) \in Nat
    BY <2>2, <2>3, BoundaryTypes DEF FrameTrue, IInv
  <2>. QED  BY <2>1, <2>3, <2>4 DEF Boundary
<1>. QED  BY <1>1, ResetInvariant, PTL

\* The integration starts at exactly the frame of the reset it applied, or at the start of
\* the unbroken input if that is later, wherever the worker was when the request came.
THEOREM ResetExact == Spec => []ResetIsExact
<1>1. IInv => ResetIsExact
  BY DEF IInv, Restarted, Unmissed, ResetIsExact, Boundary, Committed
<1>. QED  BY <1>1, ResetInvariant, PTL

HIDE ChunkShape

-----------------------------------------------------------------------------
(***************************************************************************)
(* LevelDisplay: types, and the parts of the invariant.                    *)
(***************************************************************************)
\* Blocks, epochs, revisions and lifecycles are counted from 0
Readings == [last : Nat, lifecycle : Nat, hold : Nat, live : Nat, userReset : Nat,
             liveClear : Nat]
LevelFrames == [lifecycle : Nat, valid : BOOLEAN, hold : Nat, live : Nat,
                excluded : [hold : Nat, live : Nat]]
Jobs == [pc : {"idle", "consume", "reset", "check", "exchange", "stale", "publish"},
         stop : BOOLEAN, revision : Nat, reading : Readings, changed : BOOLEAN, stale : BOOLEAN]
Epochs == [userReset : Nat, liveClear : Nat]

\* Of each part, the type of what the argument reads
LevelsTyped ==
    /\ callback \in [pc : {"idle", "measure", "count"}, lifecycle : Nat]
    /\ ballistics \in [next : Nat, lifecycle : Nat, hold : Nat, live : Nat,
                       userReset : Nat, liveClear : Nat]
    /\ pending \in SUBSET Readings
    /\ requested \in Epochs /\ required \in Epochs
    /\ active \in Nat /\ lifecycle \in Nat /\ pendingReset \in Nat
    /\ job \in Jobs
    /\ captureRevision \in Nat
    /\ client \in [running : BOOLEAN, pending : BOOLEAN]
    /\ working \in LevelFrames
    /\ stale \in [pending : BOOLEAN, revision : Nat]
    /\ caller \in [op : {"none", "tick", "reset"} \cup Changes, pc : {"none", "arm", "request"},
                  revision : Nat, new : BOOLEAN, stale : BOOLEAN]
    /\ past \in [resetAt : [1..MaxResets -> Nat], changes : Nat, unpublished : BOOLEAN,
                 unmarked : BOOLEAN]

\* Lifecycles only grow: nothing is of one that has not begun
LifecyclesBegun ==
    /\ active \in {0, lifecycle}
    /\ callback.pc = "measure" => callback.lifecycle \in 1..lifecycle
    /\ ballistics.lifecycle <= lifecycle
    /\ \A r \in pending : r.lifecycle \in 1..lifecycle

\* What a block of measurements knows of the requests: no more than was asked,
\* and its holds began after every reset it has applied
FollowsResets(x) ==
    /\ x.userReset <= requested.userReset /\ x.liveClear <= requested.liveClear
    /\ \A e \in 1..x.userReset : x.hold >= past.resetAt[e]

ResetsFollowed ==
    /\ pendingReset <= requested.userReset /\ requested.userReset <= MaxResets
    /\ FollowsResets(ballistics)
    /\ \A r \in pending : FollowsResets(r)
    /\ FollowsResets(job.reading)

\* No reset and no clear lies in blocks still to be measured
ResetsDated ==
    /\ \A e \in 1..MaxResets : past.resetAt[e] <= ballistics.next
    /\ working.excluded.hold <= ballistics.next
    /\ working.excluded.live <= ballistics.next
    /\ \A r \in pending : r.last < ballistics.next

\* What the worker would show of it began after what it has cleared
Masked(x) ==
    /\ x.lifecycle = lifecycle /\ x.userReset >= required.userReset
         => x.hold >= working.excluded.hold
    /\ x.lifecycle = lifecycle /\ x.liveClear >= required.liveClear
         => x.live >= working.excluded.live

MeasuredMasked == Masked(ballistics) /\ \A r \in pending : Masked(r)

ClearIn(f) ==
    /\ f.hold # 0 => f.hold >= f.excluded.hold
    /\ f.live # 0 => f.live >= f.excluded.live

\* Before the job takes the pending reset, the holds it shows are those of the
\* reading it has just applied
FramesClear ==
    /\ ClearIn(working) /\ ClearIn(snapshot)
    /\ ~working.valid => working.hold = 0
    /\ job.pc = "consume" => job.reading = NoReading
    /\ job.pc = "reset" /\ job.reading # NoReading => working.hold \in {0, job.reading.hold}

LevelsInv ==
    LevelsTyped /\ LifecyclesBegun /\ ResetsFollowed /\ ResetsDated /\ MeasuredMasked /\ FramesClear

-----------------------------------------------------------------------------
(***************************************************************************)
(* LevelDisplay: operators.                                                *)
(***************************************************************************)
\* The larger of two numbers
LEMMA MaxOfTwo ==
    ASSUME NEW a \in Nat, NEW b \in Nat
    PROVE  /\ Max({a, b}) \in {a, b}
           /\ Max({a, b}) >= a /\ Max({a, b}) >= b
<1>. DEFINE IsMax(x) == x \in {a, b} /\ \A y \in {a, b} : x >= y
<1>1. IsMax(a) \/ IsMax(b)
  OBVIOUS
<1>2. \E x : IsMax(x)
  BY <1>1
<1>3. IsMax(CHOOSE x : IsMax(x))
  BY <1>2
<1>4. Max({a, b}) = CHOOSE x \in {a, b} : \A y \in {a, b} : x >= y
  BY DEF Max
<1>. QED  BY <1>3, <1>4

\* Of the pending readings, one is the newest
LEMMA NewestTaken ==
    ASSUME LevelsInv, NEW taken \in SUBSET pending, taken # {}
    PROVE  Newest(taken) \in taken
<1>. DEFINE IsNewest(r) == r \in taken /\ \A other \in taken : other.last <= r.last
            Behind == {ballistics.next - r.last : r \in taken}
            Below == {p \in Nat \X Nat : p[1] < p[2]}
<1>1. ballistics.next \in Nat
  BY DEF LevelsInv, LevelsTyped
<1>2. \A r \in taken : r.last \in Nat /\ r.last < ballistics.next
  BY DEF LevelsInv, LevelsTyped, Readings, ResetsDated
<1>3. Behind \in SUBSET Nat /\ Behind # {}
  BY <1>1, <1>2
<1>4. IsWellFoundedOn(Below, Nat)
  BY NatLessThanWellFounded DEF OpToRel
<1>5. PICK b \in Behind : \A y \in Behind : ~(<<y, b>> \in Below)
  BY <1>3, <1>4, WFMin
<1>6. PICK r \in taken : b = ballistics.next - r.last
  BY <1>5
<1>7. ASSUME NEW other \in taken
      PROVE  other.last <= r.last
  <2>1. ballistics.next - other.last \in Behind
    OBVIOUS
  <2>2. ~(<<ballistics.next - other.last, b>> \in Below)
    BY <1>5, <2>1
  <2>3. ballistics.next - other.last \in Nat /\ b \in Nat
    BY <1>1, <1>2, <1>3, <1>5
  <2>4. ~(ballistics.next - other.last < b)
    BY <2>2, <2>3
  <2>. QED  BY <1>1, <1>2, <1>6, <2>4
<1>8. \E x : IsNewest(x)
  BY <1>7
<1>9. IsNewest(CHOOSE x : IsNewest(x))
  BY <1>8
<1>. QED  BY <1>9 DEF Newest

-----------------------------------------------------------------------------
(***************************************************************************)
(* LevelDisplay: the invariant.                                            *)
(***************************************************************************)
\* Before the first block nothing was asked, cleared or measured
LEMMA InitLevels == LevelsInit => LevelsInv
<1>. SUFFICES ASSUME LevelsInit
              PROVE  LevelsInv
  OBVIOUS
<1>1. LevelsTyped
  BY LevelDisplayAssumption
     DEF LevelsInit, LevelsTyped, NoJob, Jobs, NoReading, Readings, NoCall, ClearedFrame, LevelFrames,
         Epochs
<1>2. LifecyclesBegun /\ ResetsDated
  BY LevelDisplayAssumption DEF LevelsInit, LifecyclesBegun, ResetsDated, ClearedFrame
<1>3. ResetsFollowed
  BY LevelDisplayAssumption DEF LevelsInit, ResetsFollowed, FollowsResets, NoJob, NoReading
<1>4. MeasuredMasked /\ FramesClear
  BY DEF LevelsInit, MeasuredMasked, Masked, FramesClear, ClearIn, ClearedFrame, NoJob
<1>. QED  BY <1>1, <1>2, <1>3, <1>4 DEF LevelsInv

\* What the invariant speaks of, its types apart
levelParts == <<callback, ballistics, pending, requested, active, lifecycle, job, working, required,
                pendingReset, snapshot, past.resetAt>>

\* Where only the types need a look
LEMMA LevelsKept ==
    ASSUME LevelsInv, LevelsTyped', UNCHANGED levelParts
    PROVE  LevelsInv'
BY DEF levelParts, LevelsInv, LifecyclesBegun, ResetsFollowed, FollowsResets, ResetsDated,
       MeasuredMasked, Masked, FramesClear, ClearIn

\* Ticks and the display link leave the levels alone
LEMMA LevelsOthers ==
    ASSUME LevelsInv, TickObserves \/ TickArms \/ TickRequests \/ FrameCopied \/ UNCHANGED levelVars
    PROVE  LevelsInv'
<1>1. UNCHANGED <<levelParts, captureRevision, past>>
  BY DEF TickObserves, TickArms, TickRequests, FrameCopied, levelVars, levelParts, callbackVars,
         workerVars, requestVars, lifecycleVars
<1>2. /\ stale' \in [pending : BOOLEAN, revision : Nat]
      /\ client' \in [running : BOOLEAN, pending : BOOLEAN]
      /\ caller' \in [op : {"none", "tick", "reset"} \cup Changes, pc : {"none", "arm", "request"},
                      revision : Nat, new : BOOLEAN, stale : BOOLEAN]
  <2>1. /\ stale \in [pending : BOOLEAN, revision : Nat]
        /\ client \in [running : BOOLEAN, pending : BOOLEAN]
        /\ caller \in [op : {"none", "tick", "reset"} \cup Changes, pc : {"none", "arm", "request"},
                       revision : Nat, new : BOOLEAN, stale : BOOLEAN]
        /\ captureRevision \in Nat
    BY DEF LevelsInv, LevelsTyped
  <2>2. CASE TickObserves
    <3>1. NoCall \in [op : {"none", "tick", "reset"} \cup Changes, pc : {"none", "arm", "request"},
                      revision : Nat, new : BOOLEAN, stale : BOOLEAN]
      BY DEF NoCall
    <3>2. \/ caller' = NoCall
          \/ \E arms, new, due \in BOOLEAN :
               caller' = [op |-> "tick", pc |-> IF arms THEN "arm" ELSE "request",
                          revision |-> captureRevision, new |-> new, stale |-> due]
      <4>. DEFINE New == captureRevision > Max({gate.requested, analyzed})
                  Due(timedOut) == timedOut /\ ~(captureRevision # gate.observed)
                                   /\ ~gate.staleRequested /\ hasAudio
      <4>1. caller' = NoCall \/ \E timedOut \in BOOLEAN :
                   caller' = [op |-> "tick", pc |-> IF Due(timedOut) THEN "arm" ELSE "request",
                              revision |-> captureRevision, new |-> New, stale |-> Due(timedOut)]
        BY <2>2, Zenon DEF TickObserves
      <4>2. New \in BOOLEAN /\ \A timedOut \in BOOLEAN : Due(timedOut) \in BOOLEAN
        OBVIOUS
      <4>. HIDE DEF New, Due
      <4>. QED  BY <4>1, <4>2
    <3>3. stale' \in [pending : BOOLEAN, revision : Nat] /\ client' = client
      BY <2>1, <2>2 DEF TickObserves
    <3>. QED  BY <2>1, <3>1, <3>2, <3>3
  <2>3. CASE TickArms
    BY <2>1, <2>3 DEF TickArms
  <2>4. CASE TickRequests
    BY <2>1, <2>4 DEF TickRequests, NoCall, requestVars
  <2>5. CASE FrameCopied \/ UNCHANGED levelVars
    BY <2>1, <2>5 DEF FrameCopied, levelVars, requestVars, callVars
  <2>. QED  BY <2>2, <2>3, <2>4, <2>5
<1>3. LevelsTyped'
  BY <1>1, <1>2 DEF levelParts, LevelsInv, LevelsTyped
<1>. QED  BY <1>1, <1>3, LevelsKept

\* A block begins, and is counted
LEMMA LevelsBlock ==
    ASSUME LevelsInv, CallbackEnters \/ BlockCounted
    PROVE  LevelsInv'
<1>1. /\ callback' \in [pc : {"idle", "measure", "count"}, lifecycle : Nat]
      /\ callback'.pc = "measure" => callback'.lifecycle \in 1..lifecycle
      /\ captureRevision' \in Nat
  BY SMTT(30) DEF CallbackEnters, BlockCounted, LevelsInv, LevelsTyped, LifecyclesBegun
<1>2. UNCHANGED <<ballistics, pending, requested, active, lifecycle, job, working, required,
                  pendingReset, stale, caller, client, snapshot, past>>
  BY DEF CallbackEnters, BlockCounted, callbackVars, workerVars, requestVars, lifecycleVars, callVars
<1>. QED
  BY <1>1, <1>2 DEF LevelsInv, LevelsTyped, LifecyclesBegun, ResetsFollowed, FollowsResets,
                    ResetsDated, MeasuredMasked, Masked, FramesClear, ClearIn

\* A measured block has applied every request there was, and its holds and
\* live levels go on only where it has applied no new one
LEMMA LevelsMeasured ==
    ASSUME LevelsInv, callback.pc = "measure"
    PROVE  /\ Measured \in [next : Nat, lifecycle : Nat, hold : Nat, live : Nat, userReset : Nat,
                            liveClear : Nat]
           /\ Measured.lifecycle \in 1..lifecycle
           /\ FollowsResets(Measured) /\ Masked(Measured)
           /\ Measured.next = ballistics.next + 1
<1>1. Measured \in [next : Nat, lifecycle : Nat, hold : Nat, live : Nat, userReset : Nat,
                    liveClear : Nat]
  <2>1. /\ ballistics \in [next : Nat, lifecycle : Nat, hold : Nat, live : Nat, userReset : Nat,
                           liveClear : Nat]
        /\ callback.lifecycle \in Nat /\ requested.userReset \in Nat /\ requested.liveClear \in Nat
    BY DEF LevelsInv, LevelsTyped, Epochs
  <2>. QED  BY <2>1 DEF Measured
<1>. USE DEF LevelsInv, LevelsTyped, Epochs, LevelFrames
<1>2. Measured.lifecycle \in 1..lifecycle /\ Measured.next = ballistics.next + 1
  BY DEF Measured, LifecyclesBegun
<1>3. Masked(Measured)
  BY DEF Measured, Masked, MeasuredMasked, ResetsDated
<1>4. FollowsResets(Measured)
  <2>1. Measured.userReset = requested.userReset /\ Measured.liveClear = requested.liveClear
    BY DEF Measured
  <2>2. requested.userReset \in Nat /\ requested.liveClear \in Nat /\ MaxResets \in Nat
    BY LevelDisplayAssumption
  <2>3. requested.userReset <= MaxResets /\ FollowsResets(ballistics)
    BY DEF ResetsFollowed
  <2>4. /\ past.resetAt \in [1..MaxResets -> Nat] /\ ballistics.next \in Nat
        /\ \A e \in 1..MaxResets : past.resetAt[e] <= ballistics.next
    BY DEF ResetsDated
  <2>5. \/ Measured.hold = ballistics.next
        \/ Measured.hold = ballistics.hold /\ requested.userReset = ballistics.userReset
    BY DEF Measured
  <2>. HIDE DEF LevelsInv, LevelsTyped
  <2>6. ASSUME NEW e \in 1..requested.userReset
        PROVE  Measured.hold >= past.resetAt[e]
    <3>1. e \in 1..MaxResets /\ past.resetAt[e] \in Nat
      BY <2>2, <2>3, <2>4
    <3>2. CASE Measured.hold = ballistics.next
      BY <3>1, <3>2, <2>4
    <3>3. CASE Measured.hold = ballistics.hold /\ requested.userReset = ballistics.userReset
      BY <3>3, <2>3 DEF FollowsResets
    <3>. QED  BY <2>5, <3>2, <3>3
  <2>7. \A e \in 1..Measured.userReset : Measured.hold >= past.resetAt[e]
    BY <2>1, <2>6
  <2>. QED  BY <2>1, <2>2, <2>7 DEF FollowsResets
<1>. QED  BY <1>1, <1>2, <1>3, <1>4

\* ... and its reading replaces or joins the pending ones
LEMMA LevelsPublished ==
    ASSUME LevelsInv, BlockPublished
    PROVE  LevelsInv'
<1>. DEFINE reading == [last |-> ballistics.next, lifecycle |-> Measured.lifecycle,
                        hold |-> Measured.hold, live |-> Measured.live,
                        userReset |-> Measured.userReset, liveClear |-> Measured.liveClear]
<1>1. /\ callback.pc = "measure" /\ ballistics' = Measured
      /\ callback' = [callback EXCEPT !.pc = "count"]
      /\ pending' \subseteq pending \cup {reading}
      /\ UNCHANGED <<captureRevision, requested, active, lifecycle, job, working, required,
                     pendingReset, stale, caller, client, snapshot, past>>
  BY DEF BlockPublished, workerVars, requestVars, lifecycleVars, callVars
<1>2. /\ Measured \in [next : Nat, lifecycle : Nat, hold : Nat, live : Nat, userReset : Nat,
                       liveClear : Nat]
      /\ Measured.lifecycle \in 1..lifecycle
      /\ FollowsResets(Measured) /\ Masked(Measured)
      /\ Measured.next = ballistics.next + 1
  BY <1>1, LevelsMeasured
<1>3. reading \in Readings /\ FollowsResets(reading) /\ Masked(reading)
  BY <1>2 DEF Readings, FollowsResets, Masked, LevelsInv, LevelsTyped
<1>. HIDE DEF reading
<1>4. LevelsTyped'
  <2>1. /\ callback' \in [pc : {"idle", "measure", "count"}, lifecycle : Nat]
        /\ ballistics' \in [next : Nat, lifecycle : Nat, hold : Nat, live : Nat,
                            userReset : Nat, liveClear : Nat]
    BY <1>1, <1>2 DEF LevelsInv, LevelsTyped
  <2>2. pending' \in SUBSET Readings
    BY <1>1, <1>3 DEF LevelsInv, LevelsTyped
  <2>. QED  BY SMTT(30), <1>1, <2>1, <2>2 DEF LevelsInv, LevelsTyped
<1>5. LifecyclesBegun'
  BY <1>1, <1>2 DEF LevelsInv, LevelsTyped, LifecyclesBegun, reading
<1>6. ResetsFollowed'
  BY <1>1, <1>2, <1>3 DEF LevelsInv, ResetsFollowed, FollowsResets
<1>7. ResetsDated'
  <2>1. \A e \in 1..MaxResets : past.resetAt[e] \in Nat
    BY DEF LevelsInv, LevelsTyped
  <2>2. ballistics.next \in Nat /\ reading.last = ballistics.next
    BY DEF LevelsInv, LevelsTyped, reading
  <2>3. \A r \in pending : r.last \in Nat
    BY DEF LevelsInv, LevelsTyped, Readings
  <2>4. working.excluded.hold \in Nat /\ working.excluded.live \in Nat
    BY DEF LevelsInv, LevelsTyped, LevelFrames
  <2>. QED  BY <1>1, <1>2, <2>1, <2>2, <2>3, <2>4 DEF LevelsInv, ResetsDated
<1>8. MeasuredMasked'
  BY <1>1, <1>2, <1>3 DEF LevelsInv, MeasuredMasked, Masked
<1>9. FramesClear'
  BY <1>1 DEF LevelsInv, FramesClear, ClearIn
<1>. QED  BY <1>4, <1>5, <1>6, <1>7, <1>8, <1>9 DEF LevelsInv

\* The steps of a job that change no levels
LEMMA LevelsJobGoesOn ==
    ASSUME LevelsInv, JobStarts \/ JobStops \/ JobGoesOn \/ JobTakesStale \/ JobKeepsLevels
    PROVE  LevelsInv'
<1>1. /\ job' \in Jobs /\ job'.pc # "reset"
      /\ job'.pc = "consume" => job'.reading = NoReading
      /\ job'.reading \in {job.reading, NoReading}
      /\ stale' \in [pending : BOOLEAN, revision : Nat]
      /\ client' \in [running : BOOLEAN, pending : BOOLEAN]
  <2>1. NoReading \in Readings /\ captureRevision \in Nat /\ job \in Jobs
        /\ stale \in [pending : BOOLEAN, revision : Nat]
        /\ client \in [running : BOOLEAN, pending : BOOLEAN]
    BY DEF NoReading, Readings, LevelsInv, LevelsTyped
  <2>2. NoJob \in Jobs /\ NoJob.reading = NoReading /\ NoJob.pc = "idle"
    BY <2>1 DEF NoJob, Jobs
  <2>3. CASE JobStarts
    BY <2>1, <2>2, <2>3 DEF JobStarts, Jobs, requestVars
  <2>4. CASE JobStops
    BY <2>1, <2>2, <2>4 DEF JobStops, requestVars
  <2>5. CASE JobTakesStale
    BY <2>1, <2>5 DEF JobTakesStale, Jobs
  <2>6. CASE JobKeepsLevels
    BY <2>1, <2>6 DEF JobKeepsLevels, Jobs, requestVars
  <2>7. CASE JobGoesOn
    BY <2>1, <2>7 DEF JobGoesOn, Jobs, requestVars
  <2>. QED  BY <2>3, <2>4, <2>5, <2>6, <2>7
<1>2. UNCHANGED <<callback, ballistics, pending, captureRevision, requested, active, lifecycle,
                  working, required, pendingReset, caller, snapshot, past>>
  BY DEF JobStarts, JobStops, JobGoesOn, JobTakesStale, JobKeepsLevels, callbackVars, requestVars,
         lifecycleVars, callVars
<1>3. FollowsResets(job'.reading)
  <2>1. FollowsResets(NoReading)
    BY DEF LevelsInv, LevelsTyped, Epochs, FollowsResets, NoReading
  <2>. QED  BY <1>1, <2>1 DEF LevelsInv, ResetsFollowed
<1>. QED
  BY <1>1, <1>2, <1>3
     DEF LevelsInv, LevelsTyped, LifecyclesBegun, ResetsFollowed, FollowsResets,
         ResetsDated, MeasuredMasked, Masked, FramesClear, ClearIn

\* A reading is applied: what it may not show is hidden
LEMMA LevelsConsumed ==
    ASSUME LevelsInv, JobConsumes
    PROVE  LevelsInv'
<1>1. UNCHANGED <<callback, ballistics, captureRevision, requested, active, lifecycle, required,
                  pendingReset, stale, caller, client, snapshot, past>>
  BY DEF JobConsumes, requestVars, lifecycleVars, callVars
<1>2. /\ job.pc = "consume" /\ pending' \subseteq pending /\ job \in Jobs /\ working \in LevelFrames
      /\ ClearIn(working) /\ (~working.valid => working.hold = 0)
      /\ job.reading = NoReading
  BY DEF JobConsumes, LevelsInv, LevelsTyped, FramesClear
<1>3. /\ working' \in LevelFrames /\ ClearIn(working') /\ (~working'.valid => working'.hold = 0)
      /\ working'.excluded = working.excluded
      /\ job' \in Jobs /\ job'.pc = "reset" /\ FollowsResets(job'.reading)
      /\ job'.reading # NoReading => working'.hold \in {0, job'.reading.hold}
  <2>1. CASE pending = {} /\ job' = [job EXCEPT !.pc = "reset"] /\ UNCHANGED <<pending, working>>
    <3>1. job'.reading = job.reading /\ job' \in Jobs /\ job'.pc = "reset"
      BY <1>2, <2>1 DEF Jobs
    <3>2. FollowsResets(job.reading)
      BY DEF LevelsInv, ResetsFollowed
    <3>. QED  BY <1>2, <2>1, <3>1, <3>2
  <2>2. CASE ~(pending = {} /\ job' = [job EXCEPT !.pc = "reset"] /\ UNCHANGED <<pending, working>>)
    <3>. DEFINE applies(taken) == Newest(taken).lifecycle = active
    <3>1. PICK taken \in (SUBSET pending) \ {{}} :
               /\ working' = IF applies(taken) THEN Applied(working, Newest(taken)) ELSE working
               /\ job' = [job EXCEPT !.pc = "reset", !.changed = applies(taken),
                            !.reading = IF applies(taken) THEN Newest(taken) ELSE NoReading]
      BY <2>2, Zenon DEF JobConsumes
    <3>2. PICK reading \in pending : reading = Newest(taken)
      BY <3>1, NewestTaken
    <3>3. reading \in Readings /\ applies(taken) \in BOOLEAN /\ NoReading \in Readings
      BY DEF LevelsInv, LevelsTyped, NoReading, Readings
    <3>4. FollowsResets(reading) /\ FollowsResets(NoReading)
      BY DEF LevelsInv, LevelsTyped, Epochs, ResetsFollowed, FollowsResets, NoReading
    <3>5. Masked(reading)
      BY DEF LevelsInv, MeasuredMasked
    <3>6. reading.lifecycle \in 1..lifecycle /\ active \in {0, lifecycle} /\ lifecycle \in Nat
      BY DEF LevelsInv, LevelsTyped, LifecyclesBegun
    <3>7. CASE applies(taken)
      <4>1. /\ working' = Applied(working, reading)
            /\ job' = [job EXCEPT !.pc = "reset", !.changed = TRUE, !.reading = reading]
        BY <3>1, <3>2, <3>7
      <4>2. required \in Epochs
        BY DEF LevelsInv, LevelsTyped
      <4>3. reading.lifecycle = lifecycle
        BY <3>2, <3>6, <3>7
      <4>4. /\ working' \in LevelFrames /\ working'.excluded = working.excluded
            /\ working'.valid
            /\ working'.hold \in {0, reading.hold}
        BY <1>2, <3>3, <4>1 DEF Applied, LevelFrames, Readings
      <4>5. ClearIn(working')
        BY <1>2, <3>3, <3>5, <4>1, <4>2, <4>3
           DEF Applied, LevelFrames, Readings, Masked, ClearIn, Epochs
      <4>6. job' \in Jobs /\ job'.pc = "reset" /\ job'.reading = reading
        BY <1>2, <3>3, <4>1 DEF Jobs
      <4>. QED  BY <3>4, <4>4, <4>5, <4>6
    <3>8. CASE ~applies(taken)
      <4>1. /\ working' = working
            /\ job' = [job EXCEPT !.pc = "reset", !.changed = FALSE, !.reading = NoReading]
        BY <3>1, <3>8
      <4>2. job' \in Jobs /\ job'.pc = "reset" /\ job'.reading = NoReading
        BY <1>2, <3>3, <4>1 DEF Jobs
      <4>. QED  BY <1>2, <3>4, <4>1, <4>2
    <3>. QED  BY <3>7, <3>8
  <2>. QED  BY <2>1, <2>2
<1>4. LevelsTyped' /\ LifecyclesBegun'
  BY <1>1, <1>2, <1>3 DEF LevelsInv, LevelsTyped, LifecyclesBegun
<1>5. ResetsFollowed' /\ ResetsDated'
  BY <1>1, <1>2, <1>3 DEF LevelsInv, ResetsFollowed, FollowsResets, ResetsDated
<1>6. MeasuredMasked'
  BY <1>1, <1>2, <1>3 DEF LevelsInv, MeasuredMasked, Masked
<1>7. FramesClear'
  <2>1. ClearIn(snapshot)
    BY DEF LevelsInv, FramesClear
  <2>2. ClearIn(working)' /\ ClearIn(snapshot)'
    BY <1>1, <1>3, <2>1 DEF ClearIn
  <2>. QED  BY <1>3, <2>2 DEF FramesClear
<1>. QED  BY <1>4, <1>5, <1>6, <1>7 DEF LevelsInv

\* The pending reset is taken: what follows it began after it, and what does
\* not is cleared
LEMMA LevelsReset ==
    ASSUME LevelsInv, JobTakesReset
    PROVE  LevelsInv'
<1>. DEFINE epoch == Max({required.userReset, pendingReset})
            bound == IF pendingReset = 0 THEN working.excluded.hold
                     ELSE Max({working.excluded.hold, past.resetAt[pendingReset]})
            clears == pendingReset # 0 /\ working.valid
                      /\ ~(job.reading # NoReading /\ job.reading.userReset >= epoch)
<1>1. /\ UNCHANGED <<callback, ballistics, pending, captureRevision, requested, active, lifecycle,
                     stale, caller, client, snapshot, past>>
      /\ job.pc = "reset" /\ pendingReset' = 0
      /\ required' = [required EXCEPT !.userReset = epoch]
      /\ working' = [working EXCEPT !.hold = IF clears THEN 0 ELSE working.hold,
                                    !.excluded.hold = bound]
      /\ job' = [job EXCEPT !.pc = "check", !.changed = job.changed \/ clears]
  BY DEF JobTakesReset, callbackVars, lifecycleVars, callVars
<1>2. /\ job \in Jobs /\ working \in LevelFrames /\ required \in Epochs /\ pendingReset \in Nat
      /\ past.resetAt \in [1..MaxResets -> Nat]
      /\ pendingReset <= MaxResets /\ MaxResets \in Nat
  <2>1. /\ job \in Jobs /\ working \in LevelFrames /\ required \in Epochs /\ pendingReset \in Nat
        /\ requested \in Epochs /\ past.resetAt \in [1..MaxResets -> Nat]
    BY DEF LevelsInv, LevelsTyped
  <2>2. MaxResets \in Nat
    BY LevelDisplayAssumption
  <2>3. requested.userReset \in Nat
    BY <2>1 DEF Epochs
  <2>4. pendingReset <= requested.userReset /\ requested.userReset <= MaxResets
    BY DEF LevelsInv, ResetsFollowed
  <2>. QED  BY <2>1, <2>2, <2>3, <2>4
<1>3. epoch \in Nat /\ epoch >= pendingReset /\ epoch >= required.userReset
  BY <1>2, MaxOfTwo DEF Epochs
<1>4. pendingReset # 0 => pendingReset \in 1..MaxResets /\ past.resetAt[pendingReset] \in Nat
  BY <1>2
<1>5. /\ bound \in Nat /\ bound >= working.excluded.hold
      /\ pendingReset # 0 => bound >= past.resetAt[pendingReset]
      /\ pendingReset = 0 => bound = working.excluded.hold
      /\ pendingReset # 0 => bound \in {working.excluded.hold, past.resetAt[pendingReset]}
  <2>1. working.excluded.hold \in Nat
    BY <1>2 DEF LevelFrames
  <2>2. CASE pendingReset = 0
    <3>1. bound = working.excluded.hold
      BY <2>2
    <3>. QED  BY <2>1, <2>2, <3>1
  <2>3. CASE pendingReset # 0
    <3>1. bound = Max({working.excluded.hold, past.resetAt[pendingReset]})
      BY <2>3
    <3>. HIDE DEF bound
    <3>. QED  BY <2>1, <2>3, <3>1, <1>4, MaxOfTwo
  <2>. QED  BY <2>2, <2>3
<1>6. clears \in BOOLEAN
  OBVIOUS
<1>7. ~clears /\ pendingReset # 0 /\ working.valid
        => job.reading # NoReading /\ job.reading.userReset >= epoch
  <2>. HIDE DEF epoch
  <2>. QED  BY Zenon
<1>. HIDE DEF epoch, bound, clears
<1>8. /\ working' \in LevelFrames
      /\ working'.hold = IF clears THEN 0 ELSE working.hold
      /\ working'.excluded.hold = bound
      /\ UNCHANGED <<working.live, working.excluded.live, working.valid>>
      /\ required' \in Epochs /\ required'.userReset = epoch
      /\ required'.liveClear = required.liveClear
      /\ job' \in Jobs /\ job'.pc = "check" /\ job'.reading = job.reading
  <2>1. working' \in LevelFrames /\ UNCHANGED <<working.live, working.valid>>
        /\ working'.hold = IF clears THEN 0 ELSE working.hold
    BY <1>1, <1>2, <1>5 DEF LevelFrames
  <2>2. working'.excluded.hold = bound /\ working'.excluded.live = working.excluded.live
    BY <1>1, <1>2 DEF LevelFrames
  <2>3. required' \in Epochs /\ required'.userReset = epoch
        /\ required'.liveClear = required.liveClear
    BY <1>1, <1>2, <1>3 DEF Epochs
  <2>4. job' \in Jobs /\ job'.pc = "check" /\ job'.reading = job.reading
    BY <1>1, <1>2, <1>6 DEF Jobs
  <2>. QED  BY <2>1, <2>2, <2>3, <2>4
<1>9. LevelsTyped' /\ LifecyclesBegun'
  BY <1>1, <1>8 DEF LevelsInv, LevelsTyped, LifecyclesBegun
<1>10. ResetsFollowed'
  <2>1. requested.userReset \in Nat
    BY DEF LevelsInv, LevelsTyped, Epochs
  <2>. QED  BY <1>1, <1>8, <2>1 DEF LevelsInv, ResetsFollowed, FollowsResets
<1>11. ResetsDated'
  BY <1>1, <1>4, <1>5, <1>8 DEF LevelsInv, ResetsDated
<1>12. ASSUME NEW x, FollowsResets(x), Masked(x), x.userReset \in Nat, x.hold \in Nat
       PROVE  Masked(x)'
  <2>1. x.userReset >= epoch /\ pendingReset # 0 => x.hold >= past.resetAt[pendingReset]
    BY SMTT(30), <1>2, <1>3, <1>12 DEF FollowsResets
  <2>2. required.userReset \in Nat /\ working.excluded.hold \in Nat
    BY <1>2 DEF Epochs, LevelFrames
  <2>. QED  BY <1>1, <1>3, <1>5, <1>8, <1>12, <2>1, <2>2 DEF Masked
<1>13. MeasuredMasked'
  <2>1. Masked(ballistics)'
    BY <1>1, <1>12 DEF LevelsInv, LevelsTyped, ResetsFollowed, MeasuredMasked
  <2>2. ASSUME NEW r \in pending
        PROVE  Masked(r)'
    BY <1>12 DEF LevelsInv, LevelsTyped, ResetsFollowed, MeasuredMasked, Readings
  <2>. QED  BY <1>1, <2>1, <2>2 DEF MeasuredMasked
<1>14. FramesClear'
  <2>1. /\ ClearIn(working) /\ ClearIn(snapshot) /\ (~working.valid => working.hold = 0)
        /\ job.reading # NoReading => working.hold \in {0, job.reading.hold}
        /\ FollowsResets(job.reading) /\ job.reading \in Readings
    BY <1>1, <1>2 DEF LevelsInv, FramesClear, ResetsFollowed, Jobs
  <2>2. working.hold \in Nat /\ working.excluded.hold \in Nat
    BY <1>2 DEF LevelFrames
  <2>3. working'.hold # 0 => working'.hold >= bound
    <3>1. SUFFICES ASSUME working.hold # 0, ~clears
                   PROVE  working.hold >= bound
      BY <1>8
    <3>2. CASE pendingReset = 0
      BY <1>5, <2>1, <2>2, <3>1, <3>2 DEF ClearIn
    <3>3. CASE pendingReset # 0
      <4>1. job.reading # NoReading /\ job.reading.userReset >= epoch
        BY <1>7, <2>1, <3>1, <3>3
      <4>2. working.hold = job.reading.hold /\ job.reading.userReset \in Nat
        BY <2>1, <3>1, <4>1 DEF Readings
      <4>3. pendingReset \in 1..job.reading.userReset
        BY <1>2, <1>3, <3>3, <4>1, <4>2
      <4>4. working.hold >= past.resetAt[pendingReset]
        BY <2>1, <4>2, <4>3 DEF FollowsResets
      <4>. QED  BY <1>4, <1>5, <2>1, <2>2, <3>1, <3>3, <4>4 DEF ClearIn
    <3>. QED  BY <3>2, <3>3
  <2>4. ClearIn(working)' /\ ClearIn(snapshot)'
    BY <1>1, <1>8, <2>1, <2>3 DEF ClearIn
  <2>. QED  BY <1>8, <2>1, <2>4 DEF FramesClear
<1>. QED  BY <1>9, <1>10, <1>11, <1>13, <1>14 DEF LevelsInv

\* The live levels are cleared: no block measured so far has applied the
\* request that goes with it
LEMMA LevelsCleared ==
    ASSUME LevelsInv, JobClearsLevels
    PROVE  LevelsInv'
<1>. DEFINE epoch == requested.liveClear + 1
<1>1. /\ UNCHANGED <<callback, ballistics, pending, captureRevision, active, lifecycle,
                     pendingReset, stale, caller, client, snapshot, past>>
      /\ requested' = [requested EXCEPT !.liveClear = epoch]
      /\ required' = [required EXCEPT !.liveClear = epoch]
      /\ working' = [working EXCEPT !.live = 0, !.excluded.live = ballistics.next]
      /\ job' = [job EXCEPT !.pc = "publish", !.changed = TRUE]
  BY DEF JobClearsLevels, callbackVars, lifecycleVars, callVars
<1>2. /\ job \in Jobs /\ working \in LevelFrames /\ required \in Epochs /\ requested \in Epochs
      /\ ballistics.next \in Nat
  BY DEF LevelsInv, LevelsTyped
<1>3. /\ requested' \in Epochs /\ requested'.userReset = requested.userReset
      /\ requested'.liveClear = requested.liveClear + 1
      /\ required' \in Epochs /\ required'.userReset = required.userReset
      /\ required'.liveClear = requested.liveClear + 1
  BY <1>1, <1>2 DEF Epochs
<1>4. /\ working' \in LevelFrames /\ working'.hold = working.hold /\ working'.live = 0
      /\ working'.valid = working.valid
      /\ working'.excluded.hold = working.excluded.hold
      /\ working'.excluded.live = ballistics.next
  <2>1. /\ working' \in LevelFrames /\ working'.hold = working.hold /\ working'.live = 0
        /\ working'.valid = working.valid
    BY <1>1, <1>2 DEF LevelFrames
  <2>. QED  BY <1>1, <1>2, <2>1 DEF LevelFrames
<1>5. job' \in Jobs /\ job'.pc = "publish" /\ job'.reading = job.reading
  BY <1>1, <1>2 DEF Jobs
<1>6. LevelsTyped' /\ LifecyclesBegun'
  BY <1>1, <1>3, <1>4, <1>5 DEF LevelsInv, LevelsTyped, LifecyclesBegun
<1>7. ASSUME NEW x, FollowsResets(x), Masked(x), x.liveClear \in Nat
      PROVE  FollowsResets(x)' /\ Masked(x)'
  BY <1>1, <1>2, <1>3, <1>4, <1>7 DEF FollowsResets, Masked, Epochs
<1>8. FollowsResets(job.reading)'
  BY <1>1, <1>2, <1>3, <1>5 DEF LevelsInv, ResetsFollowed, FollowsResets, Epochs, Jobs, Readings
<1>9. ResetsFollowed' /\ MeasuredMasked'
  <2>1. FollowsResets(ballistics)' /\ Masked(ballistics)'
    <3>1. FollowsResets(ballistics) /\ Masked(ballistics) /\ ballistics.liveClear \in Nat
      BY DEF LevelsInv, LevelsTyped, ResetsFollowed, MeasuredMasked
    <3>. QED  BY <1>1, <1>7, <3>1
  <2>2. ASSUME NEW r \in pending
        PROVE  FollowsResets(r)' /\ Masked(r)'
    BY <1>7 DEF LevelsInv, LevelsTyped, ResetsFollowed, MeasuredMasked, Readings
  <2>3. pendingReset <= requested.userReset /\ requested.userReset <= MaxResets
    BY DEF LevelsInv, ResetsFollowed
  <2>. QED  BY <1>1, <1>3, <1>8, <2>1, <2>2, <2>3 DEF ResetsFollowed, MeasuredMasked
<1>10. ResetsDated'
  BY <1>1, <1>2, <1>4 DEF LevelsInv, ResetsDated
<1>11. FramesClear'
  BY <1>1, <1>4, <1>5 DEF LevelsInv, FramesClear, ClearIn
<1>. QED  BY <1>6, <1>9, <1>10, <1>11 DEF LevelsInv

\* The frame is published, by the job or by a reconfiguration
LEMMA LevelsShown ==
    ASSUME LevelsInv, JobPublishes \/ TemporalChanges \/ MappingChanges
    PROVE  LevelsInv'
<1>1. UNCHANGED <<callback, ballistics, pending, captureRevision, requested, active, lifecycle,
                  working, required, pendingReset, stale>>
  BY DEF JobPublishes, TemporalChanges, MappingChanges, callbackVars, requestVars, lifecycleVars,
         workerVars
<1>2. job' \in {job, NoJob} /\ snapshot' \in {snapshot, working} /\ caller' \in {caller, NoCall}
  BY DEF JobPublishes, TemporalChanges, MappingChanges, callVars, workerVars
<1>3. /\ NoJob \in Jobs /\ NoJob.reading = NoReading /\ NoJob.pc = "idle"
      /\ NoCall \in [op : {"none", "tick", "reset"} \cup Changes, pc : {"none", "arm", "request"},
                     revision : Nat, new : BOOLEAN, stale : BOOLEAN]
  BY DEF NoJob, Jobs, NoReading, Readings, NoCall
<1>4. past' \in [resetAt : [1..MaxResets -> Nat], changes : Nat, unpublished : BOOLEAN,
                 unmarked : BOOLEAN]
      /\ past'.resetAt = past.resetAt
  <2>1. past \in [resetAt : [1..MaxResets -> Nat], changes : Nat, unpublished : BOOLEAN,
                  unmarked : BOOLEAN]
        /\ job \in Jobs
    BY DEF LevelsInv, LevelsTyped
  <2>2. \A f, marked : Unmarked(f, marked) \in BOOLEAN
    BY DEF Unmarked
  <2>3. CASE JobPublishes
    BY <2>1, <2>2, <2>3 DEF JobPublishes
  <2>4. CASE TemporalChanges
    BY <2>1, <2>2, <2>4 DEF TemporalChanges
  <2>5. CASE MappingChanges
    BY <2>1, <2>5 DEF MappingChanges
  <2>. QED  BY <2>3, <2>4, <2>5
<1>5. client' \in [running : BOOLEAN, pending : BOOLEAN]
  <2>1. client \in [running : BOOLEAN, pending : BOOLEAN]
    BY DEF LevelsInv, LevelsTyped
  <2>. QED  BY <2>1 DEF JobPublishes, TemporalChanges, MappingChanges
<1>6. LevelsTyped' /\ LifecyclesBegun'
  BY <1>1, <1>2, <1>3, <1>4, <1>5 DEF LevelsInv, LevelsTyped, LifecyclesBegun
<1>7. FollowsResets(job.reading)'
  <2>1. FollowsResets(NoReading)'
    BY <1>1 DEF LevelsInv, LevelsTyped, Epochs, FollowsResets, NoReading
  <2>. QED  BY <1>1, <1>2, <1>3, <1>4, <2>1 DEF LevelsInv, ResetsFollowed, FollowsResets
<1>8. ResetsFollowed' /\ ResetsDated' /\ MeasuredMasked'
  BY <1>1, <1>4, <1>7
     DEF LevelsInv, ResetsFollowed, FollowsResets, ResetsDated, MeasuredMasked, Masked
<1>9. FramesClear'
  BY <1>1, <1>2, <1>3 DEF LevelsInv, FramesClear, ClearIn
<1>. QED  BY <1>6, <1>8, <1>9 DEF LevelsInv

\* A reset is requested, and pends
LEMMA LevelsAsked ==
    ASSUME LevelsInv, ResetRequested \/ ResetPends
    PROVE  LevelsInv'
<1>. DEFINE Calls == [op : {"none", "tick", "reset"} \cup Changes, pc : {"none", "arm", "request"},
                      revision : Nat, new : BOOLEAN, stale : BOOLEAN]
<1>1. /\ requested \in Epochs /\ MaxResets \in Nat /\ ballistics.next \in Nat /\ job \in Jobs
      /\ past \in [resetAt : [1..MaxResets -> Nat], changes : Nat, unpublished : BOOLEAN,
                   unmarked : BOOLEAN]
      /\ requested.userReset <= MaxResets /\ pendingReset <= requested.userReset
      /\ pendingReset \in Nat
  BY LevelDisplayAssumption DEF LevelsInv, LevelsTyped, ResetsFollowed
<1>2. NoCall \in Calls /\ [NoCall EXCEPT !.op = "reset"] \in Calls
  BY DEF NoCall
<1>3. CASE ResetRequested
  <2>1. /\ UNCHANGED <<callback, ballistics, pending, captureRevision, active, lifecycle, job,
                       working, required, pendingReset, stale, client, snapshot>>
        /\ requested' = [requested EXCEPT !.userReset = @ + 1]
        /\ requested.userReset < MaxResets
        /\ past' = [past EXCEPT !.resetAt[requested.userReset + 1] = ballistics.next]
        /\ caller' \in Calls
    BY <1>2, <1>3 DEF ResetRequested, callbackVars, workerVars, lifecycleVars
  <2>2. /\ requested' \in Epochs /\ requested'.userReset = requested.userReset + 1
        /\ requested'.liveClear = requested.liveClear
        /\ requested.userReset \in Nat /\ requested.liveClear \in Nat
    <3>1. requested \in [userReset : Nat, liveClear : Nat]
      BY <1>1 DEF Epochs
    <3>2. requested' = [requested EXCEPT !.userReset = requested.userReset + 1]
      BY <2>1
    <3>. QED  BY <3>1, <3>2 DEF Epochs
  <2>3. /\ past' \in [resetAt : [1..MaxResets -> Nat], changes : Nat, unpublished : BOOLEAN,
                      unmarked : BOOLEAN]
        /\ \A e \in 1..requested.userReset : past'.resetAt[e] = past.resetAt[e]
        /\ \A e \in 1..MaxResets : past'.resetAt[e] \in {past.resetAt[e], ballistics.next}
    <3>1. past.resetAt \in [1..MaxResets -> Nat]
      BY <1>1
    <3>2. past'.resetAt = [past.resetAt EXCEPT ![requested.userReset + 1] = ballistics.next]
      BY <1>1, <2>1
    <3>3. past' \in [resetAt : [1..MaxResets -> Nat], changes : Nat, unpublished : BOOLEAN,
                     unmarked : BOOLEAN]
      BY <1>1, <2>1
    <3>4. \A e \in 1..MaxResets : past'.resetAt[e] \in {past.resetAt[e], ballistics.next}
      BY <3>1, <3>2
    <3>5. ASSUME NEW e \in 1..requested.userReset
          PROVE  past'.resetAt[e] = past.resetAt[e]
      <4>1. e \in 1..MaxResets /\ e # requested.userReset + 1
        BY <1>1, <2>2
      <4>. QED  BY <3>1, <3>2, <4>1
    <3>. QED  BY <3>3, <3>4, <3>5
  <2>4. LevelsTyped' /\ LifecyclesBegun'
    BY <2>1, <2>2, <2>3 DEF LevelsInv, LevelsTyped, LifecyclesBegun
  <2>5. ASSUME NEW x, FollowsResets(x), x.userReset \in Nat
        PROVE  FollowsResets(x)'
    <3>1. \A e \in 1..x.userReset : e \in 1..requested.userReset
      BY <2>2, <2>5 DEF FollowsResets
    <3>2. x.userReset <= requested'.userReset /\ x.liveClear <= requested'.liveClear
      BY <2>2, <2>5 DEF FollowsResets
    <3>. QED  BY <2>3, <2>5, <3>1, <3>2 DEF FollowsResets
  <2>6. FollowsResets(ballistics)' /\ FollowsResets(job.reading)'
    <3>1. /\ FollowsResets(ballistics) /\ ballistics.userReset \in Nat
          /\ FollowsResets(job.reading) /\ job.reading.userReset \in Nat
      BY DEF LevelsInv, LevelsTyped, ResetsFollowed, Jobs, Readings
    <3>2. UNCHANGED <<ballistics, job>>
      BY <2>1
    <3>. QED  BY <2>5, <3>1, <3>2
  <2>7. \A r \in pending : FollowsResets(r)'
    BY <2>5 DEF LevelsInv, LevelsTyped, ResetsFollowed, Readings
  <2>8. ResetsFollowed'
    BY <1>1, <2>1, <2>2, <2>6, <2>7 DEF ResetsFollowed
  <2>9. ResetsDated'
    BY <1>1, <2>1, <2>3 DEF LevelsInv, ResetsDated
  <2>10. MeasuredMasked' /\ FramesClear'
    BY <2>1 DEF LevelsInv, MeasuredMasked, Masked, FramesClear, ClearIn
  <2>. QED  BY <2>4, <2>8, <2>9, <2>10 DEF LevelsInv
<1>4. CASE ResetPends
  <2>1. /\ UNCHANGED <<callback, ballistics, pending, captureRevision, requested, active, lifecycle,
                       job, working, required, stale, snapshot, past>>
        /\ pendingReset' = requested.userReset /\ caller' = NoCall
        /\ client' = [client EXCEPT !.pending = TRUE]
    BY <1>4 DEF ResetPends, callbackVars, workerVars, lifecycleVars
  <2>2. LevelsTyped' /\ LifecyclesBegun' /\ ResetsDated'
    <3>1. pendingReset' \in Nat /\ caller' \in Calls
      BY <1>1, <1>2, <2>1 DEF Epochs
    <3>2. client' \in [running : BOOLEAN, pending : BOOLEAN]
      BY <2>1 DEF LevelsInv, LevelsTyped
    <3>3. LevelsTyped'
      BY <2>1, <3>1, <3>2 DEF LevelsInv, LevelsTyped
    <3>. QED  BY <2>1, <3>3 DEF LevelsInv, LifecyclesBegun, ResetsDated
  <2>3. ResetsFollowed'
    BY <1>1, <2>1 DEF LevelsInv, ResetsFollowed, FollowsResets, Epochs
  <2>4. MeasuredMasked' /\ FramesClear'
    BY <2>1 DEF LevelsInv, MeasuredMasked, Masked, FramesClear, ClearIn
  <2>. QED  BY <2>2, <2>3, <2>4 DEF LevelsInv
<1>. QED  BY <1>3, <1>4

\* A change begins, which may close the capture
LEMMA LevelsChange ==
    ASSUME LevelsInv, ChangeBegins
    PROVE  LevelsInv'
<1>1. /\ UNCHANGED <<callback, ballistics, pending, captureRevision, requested, lifecycle,
                     working, required, pendingReset, snapshot>>
      /\ active' \in {0, active} /\ active # 0
      /\ job' = [job EXCEPT !.stop = client.running]
      /\ past' = [past EXCEPT !.changes = @ + 1]
  BY DEF ChangeBegins, callbackVars
<1>2. /\ job \in Jobs /\ client \in [running : BOOLEAN, pending : BOOLEAN]
      /\ stale \in [pending : BOOLEAN, revision : Nat]
      /\ past \in [resetAt : [1..MaxResets -> Nat], changes : Nat, unpublished : BOOLEAN,
                   unmarked : BOOLEAN]
  BY DEF LevelsInv, LevelsTyped
<1>3. /\ job' \in Jobs /\ job'.pc = job.pc /\ job'.reading = job.reading
  BY <1>1, <1>2 DEF Jobs
<1>4. /\ past' \in [resetAt : [1..MaxResets -> Nat], changes : Nat, unpublished : BOOLEAN,
                    unmarked : BOOLEAN]
      /\ past'.resetAt = past.resetAt
  BY <1>1, <1>2
<1>5. /\ stale' \in [pending : BOOLEAN, revision : Nat]
      /\ client' \in [running : BOOLEAN, pending : BOOLEAN]
      /\ caller' \in [op : {"none", "tick", "reset"} \cup Changes, pc : {"none", "arm", "request"},
                      revision : Nat, new : BOOLEAN, stale : BOOLEAN]
  <2>1. PICK kind \in Changes :
             /\ caller' = [NoCall EXCEPT !.op = kind]
             /\ stale' = IF kind = "restart" THEN [stale EXCEPT !.pending = FALSE] ELSE stale
    BY DEF ChangeBegins
  <2>2. client' = [client EXCEPT !.pending = FALSE]
    BY DEF ChangeBegins
  <2>. QED  BY <1>2, <2>1, <2>2 DEF NoCall
<1>6. LevelsTyped'
  <2>1. active' \in Nat
    BY SMTT(30), <1>1 DEF LevelsInv, LevelsTyped
  <2>. QED  BY <1>1, <1>3, <1>4, <1>5, <2>1 DEF LevelsInv, LevelsTyped
<1>7. LifecyclesBegun'
  BY <1>1 DEF LevelsInv, LifecyclesBegun
<1>8. ResetsFollowed' /\ ResetsDated' /\ MeasuredMasked'
  BY <1>1, <1>3, <1>4
     DEF LevelsInv, ResetsFollowed, FollowsResets, ResetsDated, MeasuredMasked, Masked
<1>9. FramesClear'
  BY <1>1, <1>3 DEF LevelsInv, FramesClear, ClearIn
<1>. QED  BY <1>6, <1>7, <1>8, <1>9 DEF LevelsInv

\* A new lifecycle begins with nothing to show, and nothing measured before it
\* is of that lifecycle
LEMMA LevelsBegin ==
    ASSUME LevelsInv, LifecycleBegins
    PROVE  LevelsInv'
<1>1. /\ UNCHANGED <<callback, ballistics, captureRevision, job, requested, client>>
      /\ pending' \subseteq pending
      /\ lifecycle' = lifecycle + 1 /\ active' = lifecycle + 1
      /\ working' = ClearedFrame(lifecycle + 1, ballistics.next) /\ snapshot' = working'
      /\ required' = [userReset |-> 0, liveClear |-> 0] /\ pendingReset' = 0
      /\ stale' = [stale EXCEPT !.pending = FALSE] /\ caller' = NoCall
      /\ past' = [past EXCEPT !.unpublished = FALSE, !.unmarked = FALSE]
  BY DEF LifecycleBegins
<1>2. /\ stale \in [pending : BOOLEAN, revision : Nat] /\ lifecycle \in Nat
      /\ ballistics.next \in Nat /\ requested \in Epochs
      /\ past \in [resetAt : [1..MaxResets -> Nat], changes : Nat, unpublished : BOOLEAN,
                   unmarked : BOOLEAN]
  BY DEF LevelsInv, LevelsTyped
<1>3. /\ working' \in LevelFrames /\ ClearIn(working)' /\ ClearIn(snapshot)'
      /\ working'.hold = 0 /\ working'.excluded.hold = ballistics.next
      /\ working'.excluded.live = ballistics.next
  BY <1>1, <1>2 DEF ClearedFrame, LevelFrames, ClearIn
<1>4. /\ past' \in [resetAt : [1..MaxResets -> Nat], changes : Nat, unpublished : BOOLEAN,
                    unmarked : BOOLEAN]
      /\ past'.resetAt = past.resetAt
      /\ stale' \in [pending : BOOLEAN, revision : Nat]
      /\ caller' \in [op : {"none", "tick", "reset"} \cup Changes, pc : {"none", "arm", "request"},
                      revision : Nat, new : BOOLEAN, stale : BOOLEAN]
  BY <1>1, <1>2 DEF NoCall
<1>5. LevelsTyped'
  <2>1. active' \in Nat /\ lifecycle' \in Nat /\ pendingReset' \in Nat /\ required' \in Epochs
    BY <1>1, <1>2 DEF Epochs
  <2>2. pending' \in SUBSET Readings
    BY <1>1 DEF LevelsInv, LevelsTyped
  <2>. QED  BY <1>1, <1>3, <1>4, <2>1, <2>2 DEF LevelsInv, LevelsTyped
<1>6. LifecyclesBegun'
  <2>1. /\ callback.lifecycle \in Nat /\ ballistics.lifecycle \in Nat
        /\ callback.pc = "measure" => callback.lifecycle \in 1..lifecycle
        /\ ballistics.lifecycle <= lifecycle
        /\ \A r \in pending : r.lifecycle \in 1..lifecycle
    BY DEF LevelsInv, LevelsTyped, LifecyclesBegun
  <2>2. 1..lifecycle \subseteq 1..(lifecycle + 1)
    BY <1>2
  <2>. QED  BY <1>1, <1>2, <2>1, <2>2 DEF LifecyclesBegun
<1>7. ResetsFollowed'
  BY <1>1, <1>2, <1>4 DEF LevelsInv, ResetsFollowed, FollowsResets, Epochs
<1>8. ResetsDated'
  BY <1>1, <1>2, <1>3, <1>4 DEF LevelsInv, ResetsDated
<1>9. MeasuredMasked'
  <2>1. /\ ballistics.lifecycle \in Nat /\ ballistics.lifecycle <= lifecycle
        /\ \A r \in pending : r.lifecycle \in 1..lifecycle
    BY DEF LevelsInv, LevelsTyped, LifecyclesBegun
  <2>2. ballistics.lifecycle # lifecycle + 1 /\ \A r \in pending : r.lifecycle # lifecycle + 1
    BY <1>2, <2>1
  <2>. QED  BY <1>1, <2>2 DEF MeasuredMasked, Masked
<1>10. FramesClear'
  BY <1>1, <1>3 DEF LevelsInv, FramesClear
<1>. QED  BY <1>5, <1>6, <1>7, <1>8, <1>9, <1>10 DEF LevelsInv

\* Every step keeps the invariant
LEMMA LevelsStep == LevelsInv /\ [LevelsNext]_levelVars => LevelsInv'
<1>. SUFFICES ASSUME LevelsInv, [LevelsNext]_levelVars
              PROVE  LevelsInv'
  OBVIOUS
<1>1. CASE CallbackSteps
  BY <1>1, LevelsBlock, LevelsPublished DEF CallbackSteps
<1>2. CASE JobSteps
  BY <1>2, LevelsJobGoesOn, LevelsConsumed, LevelsReset, LevelsCleared, LevelsShown DEF JobSteps
<1>3. CASE CallSteps
  BY <1>3, LevelsOthers, LevelsAsked, LevelsShown, LevelsBegin DEF CallSteps
<1>4. CASE TickObserves \/ FrameCopied \/ UNCHANGED levelVars
  BY <1>4, LevelsOthers
<1>5. CASE ResetRequested \/ ChangeBegins
  BY <1>5, LevelsAsked, LevelsChange
<1>. QED  BY <1>1, <1>2, <1>3, <1>4, <1>5 DEF LevelsNext

-----------------------------------------------------------------------------
(***************************************************************************)
(* LevelDisplay: the theorem.                                              *)
(***************************************************************************)
\* A published frame shows no hold and no live level from before a reset or a
\* clear the worker has handled, and none of an earlier lifecycle
\* (applyPeakRmsReading, and the exchange of peakRmsResetPendingEpoch)
THEOREM ClearedLevelsStayCleared == LevelsSpec => []ClearedStaysCleared
<1>1. LevelsInv => ClearedStaysCleared
  BY DEF LevelsInv, FramesClear, ClearIn, ClearedStaysCleared
<1>. QED  BY <1>1, InitLevels, LevelsStep, PTL DEF LevelsSpec

-----------------------------------------------------------------------------
(***************************************************************************)
(* LoudnessWindows: boundaries and intervals of frames.                    *)
(***************************************************************************)
\* Of a set of numbers, one is the smallest
LEMMA SmallestNumber ==
    ASSUME NEW T \in SUBSET Nat, T # {}
    PROVE  \E x \in T : \A y \in T : x <= y
<1>. DEFINE Below == {p \in Nat \X Nat : p[1] < p[2]}
<1>1. IsWellFoundedOn(Below, Nat)
  BY NatLessThanWellFounded DEF OpToRel
<1>2. PICK x \in T : \A y \in T : ~(<<y, x>> \in Below)
  BY <1>1, WFMin
<1>3. ASSUME NEW y \in T
      PROVE  x <= y
  <2>1. x \in Nat /\ y \in Nat
    OBVIOUS
  <2>2. y < x => <<y, x>> \in Below
    BY <2>1
  <2>. QED  BY <1>2, <2>1, <2>2
<1>. QED  BY <1>3

\* A boundary is within half a frame of its tenth of a second
LEMMA BoundaryRounds ==
    ASSUME NEW r \in Nat, NEW n \in Nat
    PROVE  /\ BoundaryFrame(r, n) \in Nat
           /\ 10 * BoundaryFrame(r, n) <= r * n + 5
           /\ r * n + 5 < 10 * BoundaryFrame(r, n) + 10
<1>1. r * n \in Nat
  OBVIOUS
<1>2. \A x \in Nat : /\ (x + 5) \div 10 \in Nat
                     /\ 10 * ((x + 5) \div 10) <= x + 5
                     /\ x + 5 < 10 * ((x + 5) \div 10) + 10
  OBVIOUS
<1>. QED  BY <1>1, <1>2 DEF BoundaryFrame

LEMMA BoundaryOfNone ==
    ASSUME NEW r \in Nat
    PROVE  BoundaryFrame(r, 0) = 0
<1>1. r * 0 = 0
  OBVIOUS
<1>2. 10 * BoundaryFrame(r, 0) <= 5 /\ BoundaryFrame(r, 0) \in Nat
  BY <1>1, BoundaryRounds
<1>. QED  BY <1>2

\* Every hop has at least a frame
LEMMA BoundariesGrow ==
    ASSUME NEW r \in Rates, NEW n \in Nat, NEW m \in Nat, n <= m
    PROVE  BoundaryFrame(r, n) + (m - n) <= BoundaryFrame(r, m)
<1>1. r \in Nat /\ r >= 10
  BY RatesSupported
<1>2. PICK d \in Nat : m = n + d
  <2>1. m - n \in Nat /\ m = n + (m - n)
    OBVIOUS
  <2>. QED  BY <2>1
<1>3. r * m = r * n + r * d
  BY <1>1, <1>2
<1>4. r * d >= 10 * d
  BY <1>1
<1>5. r * n \in Nat /\ r * d \in Nat /\ r * m \in Nat
  BY <1>1
<1>. DEFINE a == BoundaryFrame(r, n)
            b == BoundaryFrame(r, m)
            x == r * n
            y == r * d
            z == r * m
<1>6. a \in Nat /\ x + 5 < 10 * a + 10 /\ 10 * a <= x + 5
  BY <1>1, BoundaryRounds
<1>7. b \in Nat /\ z + 5 < 10 * b + 10
  BY <1>1, BoundaryRounds
<1>8. z = x + y /\ y >= 10 * d /\ x \in Nat /\ y \in Nat /\ z \in Nat
  BY <1>3, <1>4, <1>5
<1>. HIDE DEF a, b, x, y, z
<1>9. a + d <= b
  BY <1>6, <1>7, <1>8
<1>. QED  BY <1>2, <1>9 DEF a, b

\* The hops of a window are its length, or a frame more or less
LEMMA HopsAddUp ==
    ASSUME NEW r \in Rates, NEW n \in Nat, NEW c \in Nat
    PROVE  BoundaryFrame(r, n + c) - BoundaryFrame(r, n) - BoundaryFrame(r, c) \in {-1, 0, 1}
<1>1. r \in Nat /\ n + c \in Nat
  BY RatesSupported
<1>. DEFINE a == BoundaryFrame(r, n)
            b == BoundaryFrame(r, c)
            w == BoundaryFrame(r, n + c)
            x == r * n
            y == r * c
            z == r * (n + c)
<1>2. z = x + y /\ x \in Nat /\ y \in Nat /\ z \in Nat
  BY <1>1
<1>3. a \in Nat /\ 10 * a <= x + 5 /\ x + 5 < 10 * a + 10
  BY <1>1, BoundaryRounds
<1>4. b \in Nat /\ 10 * b <= y + 5 /\ y + 5 < 10 * b + 10
  BY <1>1, BoundaryRounds
<1>5. w \in Nat /\ 10 * w <= z + 5 /\ z + 5 < 10 * w + 10
  BY <1>1, BoundaryRounds
<1>. HIDE DEF a, b, w, x, y, z
<1>6. w - a - b \in {-1, 0, 1}
  BY <1>2, <1>3, <1>4, <1>5
<1>. QED  BY <1>6 DEF a, b, w

-----------------------------------------------------------------------------
(***************************************************************************)
(* LoudnessWindows: hops and windows.                                      *)
(***************************************************************************)
\* The hop from one tenth of a second to the next, counted from start
HopOf(start, rate, n) ==
    (start + BoundaryFrame(rate, n - 1) + 1)..(start + BoundaryFrame(rate, n))

LEMMA NextHop ==
    ASSUME NEW s \in Nat, NEW r, NEW n \in Nat
    PROVE  HopOf(s, r, n + 1) = (s + BoundaryFrame(r, n) + 1)..(s + BoundaryFrame(r, n + 1))
<1>1. n + 1 - 1 = n
  OBVIOUS
<1>. QED  BY <1>1 DEF HopOf

\* Consecutive hops cover their frames without a gap
LEMMA HopsJoin ==
    ASSUME NEW s \in Nat, NEW r \in Rates, NEW a \in Nat, NEW b \in Nat, a <= b
    PROVE  UNION {HopOf(s, r, i) : i \in (a + 1)..b}
             = (s + BoundaryFrame(r, a) + 1)..(s + BoundaryFrame(r, b))
<1>. DEFINE B(n) == BoundaryFrame(r, n)
<1>1. \A n \in Nat : B(n) \in Nat
  BY BoundaryRounds, RatesSupported
<1>2. \A n, m \in Nat : n <= m => B(n) <= B(m)
  <2>. SUFFICES ASSUME NEW n \in Nat, NEW m \in Nat, n <= m PROVE B(n) <= B(m)
    OBVIOUS
  <2>1. B(n) + (m - n) <= B(m)
    BY BoundariesGrow
  <2>. QED  BY <1>1, <2>1
<1>. HIDE DEF B
<1>3. ASSUME NEW i \in (a + 1)..b, NEW f \in HopOf(s, r, i)
      PROVE  f \in (s + B(a) + 1)..(s + B(b))
  <2>1. f \in Int /\ s + B(i - 1) + 1 <= f /\ f <= s + B(i)
    BY <1>1 DEF HopOf, B
  <2>2. i - 1 \in Nat /\ i \in Nat /\ a <= i - 1 /\ i <= b
    OBVIOUS
  <2>3. B(a) <= B(i - 1) /\ B(i) <= B(b)
    BY <1>2, <2>2
  <2>4. B(a) \in Nat /\ B(i - 1) \in Nat /\ B(i) \in Nat /\ B(b) \in Nat
    BY <1>1, <2>2
  <2>. QED  BY <2>1, <2>3, <2>4
<1>4. ASSUME NEW f \in (s + B(a) + 1)..(s + B(b))
      PROVE  \E i \in (a + 1)..b : f \in HopOf(s, r, i)
  <2>. DEFINE Reached == {i \in Nat : f <= s + B(i)}
  <2>0. B(a) \in Nat /\ B(b) \in Nat
    BY <1>1
  <2>1. f \in Int /\ s + B(a) + 1 <= f /\ f <= s + B(b)
    BY <2>0
  <2>2. b \in Reached
    BY <2>1
  <2>3. PICK i \in Reached : \A j \in Reached : i <= j
    BY <2>2, SmallestNumber
  <2>4. i \in Nat /\ f <= s + B(i) /\ i <= b /\ B(i) \in Nat
    BY <1>1, <2>2, <2>3
  <2>5. ~(i <= a)
    <3>1. i <= a => B(i) <= B(a)
      BY <1>2, <2>4
    <3>. QED  BY <2>0, <2>1, <2>4, <3>1
  <2>6. i - 1 \in Nat
    BY <2>4, <2>5
  <2>7. ~(i - 1 \in Reached)
    BY <2>3, <2>4
  <2>8. f > s + B(i - 1) /\ B(i - 1) \in Nat
    BY <1>1, <2>1, <2>6, <2>7
  <2>9. f \in HopOf(s, r, i)
    BY <2>1, <2>4, <2>8 DEF HopOf, B
  <2>. QED  BY <2>4, <2>5, <2>9
<1>5. UNION {HopOf(s, r, i) : i \in (a + 1)..b} \subseteq (s + B(a) + 1)..(s + B(b))
  BY <1>3
<1>6. (s + B(a) + 1)..(s + B(b)) \subseteq UNION {HopOf(s, r, i) : i \in (a + 1)..b}
  BY <1>4
<1>. QED  BY <1>5, <1>6 DEF B

\* The tenths complete at a frame are those whose boundary it has reached
LEMMA HopsCounted ==
    ASSUME NEW s \in Nat, NEW p \in Nat, NEW r \in Rates, NEW done \in Nat,
           s + BoundaryFrame(r, done) <= p, p < s + BoundaryFrame(r, done + 1)
    PROVE  HopsBetween(s, p, r) = done
<1>. DEFINE B(n) == BoundaryFrame(r, n)
            Complete == {n \in 1..(p - s) : s + B(n) <= p}
<1>1. \A n \in Nat : B(n) \in Nat
  BY BoundaryRounds, RatesSupported
<1>2. \A n, m \in Nat : n <= m => B(n) + (m - n) <= B(m)
  BY BoundariesGrow
<1>3. B(0) = 0
  BY BoundaryOfNone, RatesSupported
<1>4. s + B(done) <= p /\ p < s + B(done + 1)
  OBVIOUS
<1>5. HopsBetween(s, p, r) = Cardinality(Complete)
  BY DEF HopsBetween
<1>. HIDE DEF B
<1>6. ASSUME NEW n \in 1..done
      PROVE  n \in Complete
  <2>1. B(n) + (done - n) <= B(done)
    BY <1>2
  <2>2. B(0) + (n - 0) <= B(n)
    BY <1>2
  <2>3. B(n) \in Nat /\ B(done) \in Nat
    BY <1>1
  <2>. QED  BY <1>3, <1>4, <2>1, <2>2, <2>3
<1>7. ASSUME NEW n \in Complete
      PROVE  n \in 1..done
  <2>1. n \in Nat /\ n >= 1 /\ s + B(n) <= p
    OBVIOUS
  <2>2. n >= done + 1 => B(done + 1) + (n - (done + 1)) <= B(n)
    BY <1>2, <2>1
  <2>3. B(n) \in Nat /\ B(done + 1) \in Nat
    BY <1>1, <2>1
  <2>. QED  BY <1>4, <2>1, <2>2, <2>3
<1>8. Complete = 1..done
  BY <1>6, <1>7
<1>9. Cardinality(1..done) = done
  BY FS_Interval
<1>. QED  BY <1>5, <1>8, <1>9

\* The first and the last frame of a hop
LEMMA EdgesOfInterval ==
    ASSUME NEW a \in Int, NEW b \in Int, a <= b
    PROVE  EarliestFrames(a..b, 1) = {a} /\ LatestFrames(a..b, 1) = {b}
<1>1. ASSUME NEW f \in a..b
      PROVE  Cardinality({g \in a..b : g < f}) < 1 <=> f = a
  <2>1. {g \in a..b : g < f} = a..(f - 1)
    OBVIOUS
  <2>2. Cardinality(a..(f - 1)) = IF a > f - 1 THEN 0 ELSE f - 1 - a + 1
    BY FS_Interval
  <2>3. a \in Int /\ f \in Int /\ a <= f
    OBVIOUS
  <2>4. Cardinality(a..(f - 1)) < 1 <=> f = a
    BY <2>2, <2>3
  <2>. QED  BY <2>1, <2>4
<1>2. ASSUME NEW f \in a..b
      PROVE  Cardinality({g \in a..b : g > f}) < 1 <=> f = b
  <2>1. {g \in a..b : g > f} = (f + 1)..b
    OBVIOUS
  <2>2. Cardinality((f + 1)..b) = IF f + 1 > b THEN 0 ELSE b - (f + 1) + 1
    BY FS_Interval
  <2>3. b \in Int /\ f \in Int /\ f <= b
    OBVIOUS
  <2>4. Cardinality((f + 1)..b) < 1 <=> f = b
    BY <2>2, <2>3
  <2>. QED  BY <2>1, <2>4
<1>. QED  BY <1>1, <1>2 DEF EarliestFrames, LatestFrames

\* The hops a ring keeps of those complete
Kept(done, capacity) == IF done <= capacity + 1 THEN done ELSE capacity + 1

RingHolds(hops, start, rate, done, capacity) ==
    /\ hops \in Seq(SUBSET Int)
    /\ Len(hops) = Kept(done, capacity)
    /\ \A i \in 1..Len(hops) : hops[i] = HopOf(start, rate, done - Len(hops) + i)

\* The window of the latest hops
WindowBehind(start, rate, done, count) ==
    IF done < count THEN NoWindow
    ELSE WholeWindow(start + BoundaryFrame(rate, done), count, rate)

\* Of enough hops a window is exactly its length, and else there is none
LEMMA WindowExact ==
    ASSUME NEW hops, NEW s \in Nat, NEW r \in Rates, NEW done \in Nat, NEW capacity \in Nat,
           NEW count \in Nat \ {0}, count <= capacity, RingHolds(hops, s, r, done, capacity)
    PROVE  Window(hops, count, BoundaryFrame(r, count)) = WindowBehind(s, r, done, count)
<1>. DEFINE length == BoundaryFrame(r, count)
            oldest == Len(hops) - count + 1
            latest == UNION {hops[i] : i \in oldest..Len(hops)}
            trim == Cardinality(latest) - length
            end == s + BoundaryFrame(r, done)
            before == s + BoundaryFrame(r, done - count)
<1>0. Len(hops) \in Nat /\ Len(hops) = Kept(done, capacity) /\ length \in Nat
  <2>1. hops \in Seq(SUBSET Int) /\ Len(hops) = Kept(done, capacity)
    BY DEF RingHolds
  <2>2. r \in Nat /\ count \in Nat
    BY RatesSupported
  <2>3. length \in Nat
    BY <2>2, BoundaryRounds
  <2>4. Len(hops) \in Nat
    BY <2>1
  <2>. QED  BY <2>1, <2>3, <2>4
<1>w. Window(hops, count, length)
        = IF oldest < 1 THEN NoWindow
          ELSE IF trim = 0 THEN latest
          ELSE IF trim > 0
          THEN IF trim > EdgeSamples THEN NoWindow
               ELSE latest \ EarliestFrames(hops[oldest], trim)
          ELSE IF -trim > EdgeSamples \/ oldest = 1 THEN NoWindow
               ELSE latest \cup LatestFrames(hops[oldest - 1], -trim)
  BY DEF Window
<1>1. CASE done < count
  <2>1. oldest < 1
    BY <1>0, <1>1 DEF Kept
  <2>. QED  BY <1>1, <2>1 DEF Window, WindowBehind
<1>2. CASE ~(done < count)
  <2>0. done - count \in Nat /\ oldest \in Nat /\ oldest >= 1 /\ oldest <= Len(hops)
        /\ Len(hops) <= done
    BY <1>0, <1>2 DEF Kept
  <2>1. before \in Nat /\ end \in Nat /\ before + count <= end
    <3>1. BoundaryFrame(r, done - count) + (done - (done - count)) <= BoundaryFrame(r, done)
      BY <2>0, BoundariesGrow
    <3>2. BoundaryFrame(r, done - count) \in Nat /\ BoundaryFrame(r, done) \in Nat
      BY <2>0, BoundaryRounds, RatesSupported
    <3>. QED  BY <3>1, <3>2
  <2>2. latest = (before + 1)..end
    <3>1. ASSUME NEW i \in oldest..Len(hops)
          PROVE  /\ done - Len(hops) + i \in (done - count + 1)..done
                 /\ hops[i] = HopOf(s, r, done - Len(hops) + i)
      BY <1>0, <2>0 DEF RingHolds
    <3>2. ASSUME NEW j \in (done - count + 1)..done
          PROVE  /\ j - done + Len(hops) \in oldest..Len(hops)
                 /\ HopOf(s, r, j) = hops[j - done + Len(hops)]
      <4>1. j - done + Len(hops) \in oldest..Len(hops)
        BY <1>0, <2>0
      <4>2. done - Len(hops) + (j - done + Len(hops)) = j
        BY <1>0
      <4>. QED  BY <3>1, <4>1, <4>2
    <3>3. latest = UNION {HopOf(s, r, j) : j \in (done - count + 1)..done}
      BY <3>1, <3>2
    <3>4. UNION {HopOf(s, r, j) : j \in (done - count + 1)..done} = (before + 1)..end
      BY <2>0, HopsJoin
    <3>. QED  BY <3>3, <3>4
  <2>3. Cardinality(latest) = end - before
    <3>1. before + 1 \in Int /\ end \in Int /\ ~(before + 1 > end)
          /\ end - (before + 1) + 1 = end - before
      BY <2>1
    <3>. HIDE DEF latest, before, end
    <3>2. Cardinality((before + 1)..end) = end - (before + 1) + 1
      BY <3>1, FS_Interval
    <3>. QED  BY <2>2, <3>1, <3>2
  <2>4. trim \in {-1, 0, 1} /\ trim = end - before - length
    <3>1. BoundaryFrame(r, (done - count) + count) - BoundaryFrame(r, done - count) - length
            \in {-1, 0, 1}
      BY <2>0, HopsAddUp
    <3>2. (done - count) + count = done
      BY <2>0
    <3>3. BoundaryFrame(r, done - count) \in Nat /\ BoundaryFrame(r, done) \in Nat
      BY <2>0, BoundaryRounds, RatesSupported
    <3>. QED  BY <1>0, <2>3, <3>1, <3>2, <3>3
  <2>5. WholeWindow(end, count, r) = (end - length + 1)..end
    BY DEF WholeWindow
  <2>9. WindowBehind(s, r, done, count) = WholeWindow(end, count, r)
    BY <1>2 DEF WindowBehind
  <2>6. CASE trim = 0
    <3>1. Window(hops, count, length) = latest
      BY <2>0, <2>6 DEF Window
    <3>2. end - length = before
      <4>1. trim = 0 /\ trim = end - before - length
        BY <2>4, <2>6
      <4>. HIDE DEF trim, before, end, length
      <4>. QED  BY <1>0, <2>1, <4>1
    <3>. QED  BY <1>2, <2>9, <2>2, <2>5, <3>1, <3>2
  <2>7. CASE trim = 1
    <3>1. Window(hops, count, length) = latest \ EarliestFrames(hops[oldest], 1)
      <4>1. EdgeSamples >= 1 /\ EdgeSamples \in Nat
        BY HopCounts
      <4>. HIDE DEF trim, oldest, latest, length
      <4>. QED  BY <1>w, <2>0, <2>7, <4>1
    <3>2. hops[oldest] = (before + 1)..(s + BoundaryFrame(r, done - count + 1))
      <4>1. done - Len(hops) + oldest = done - count + 1 /\ done - count + 1 - 1 = done - count
        BY <1>0, <2>0
      <4>. QED  BY <2>0, <4>1 DEF RingHolds, HopOf
    <3>3. /\ before + 1 <= s + BoundaryFrame(r, done - count + 1)
          /\ BoundaryFrame(r, done - count + 1) \in Nat
      <4>1. BoundaryFrame(r, done - count) + (done - count + 1 - (done - count))
              <= BoundaryFrame(r, done - count + 1)
        BY <2>0, BoundariesGrow
      <4>2. BoundaryFrame(r, done - count) \in Nat /\ BoundaryFrame(r, done - count + 1) \in Nat
        <5>1. r \in Nat /\ done - count \in Nat /\ done - count + 1 \in Nat
          BY <2>0, RatesSupported
        <5>. QED  BY <5>1, BoundaryRounds
      <4>. QED  BY <2>0, <4>1, <4>2
    <3>4. EarliestFrames(hops[oldest], 1) = {before + 1}
      <4>1. before + 1 \in Int /\ s + BoundaryFrame(r, done - count + 1) \in Int
        BY <2>1, <3>3
      <4>. QED  BY <3>2, <3>3, <4>1, EdgesOfInterval
    <3>5. end - length + 1 = before + 2
      <4>1. trim = 1 /\ trim = end - before - length
        BY <2>4, <2>7
      <4>. HIDE DEF trim, before, end, length
      <4>. QED  BY <1>0, <2>1, <4>1
    <3>6. ((before + 1)..end) \ {before + 1} = (before + 2)..end
      BY <2>1
    <3>. QED  BY <1>2, <2>9, <2>2, <2>5, <3>1, <3>4, <3>5, <3>6
  <2>8. CASE trim = -1
    <3>1. done # count
      <4>1. ASSUME done = count
            PROVE  before = s /\ end = s + length
        <5>1. done - count = 0 /\ BoundaryFrame(r, 0) = 0
          BY <4>1, BoundaryOfNone, RatesSupported
        <5>. QED  BY <4>1, <5>1
      <4>2. trim = -1 /\ trim = end - before - length
        BY <2>4, <2>8
      <4>. HIDE DEF before, end, trim, length
      <4>3. done = count => end - before - length = 0
        BY <1>0, <2>1, <4>1
      <4>. QED  BY <4>2, <4>3
    <3>2. oldest > 1 /\ oldest - 1 \in 1..Len(hops)
      BY <1>0, <1>2, <2>0, <3>1 DEF Kept
    <3>3. Window(hops, count, length) = latest \cup LatestFrames(hops[oldest - 1], 1)
      <4>1. EdgeSamples >= 1 /\ EdgeSamples \in Nat
        BY HopCounts
      <4>2. -trim = 1
        BY <2>8
      <4>. HIDE DEF trim, oldest, latest, length
      <4>. QED  BY <1>w, <2>0, <2>8, <3>2, <4>1, <4>2
    <3>4. hops[oldest - 1] = (s + BoundaryFrame(r, done - count - 1) + 1)..before
      <4>1. done - Len(hops) + (oldest - 1) = done - count
        BY <1>0, <2>0
      <4>. QED  BY <3>2, <4>1 DEF RingHolds, HopOf
    <3>5. /\ s + BoundaryFrame(r, done - count - 1) + 1 <= before
          /\ BoundaryFrame(r, done - count - 1) \in Nat
      <4>0. done - count - 1 \in Nat
        BY <2>0, <3>1
      <4>1. BoundaryFrame(r, done - count - 1) + (done - count - (done - count - 1))
              <= BoundaryFrame(r, done - count)
        BY <2>0, <4>0, BoundariesGrow
      <4>2. BoundaryFrame(r, done - count) \in Nat /\ BoundaryFrame(r, done - count - 1) \in Nat
        BY <2>0, <4>0, BoundaryRounds, RatesSupported
      <4>. QED  BY <2>0, <4>0, <4>1, <4>2
    <3>6. LatestFrames(hops[oldest - 1], 1) = {before}
      <4>1. s + BoundaryFrame(r, done - count - 1) + 1 \in Int /\ before \in Int
        BY <2>1, <3>5
      <4>. QED  BY <3>4, <3>5, <4>1, EdgesOfInterval
    <3>7. end - length + 1 = before
      <4>1. trim = -1 /\ trim = end - before - length
        BY <2>4, <2>8
      <4>. HIDE DEF trim, before, end, length
      <4>. QED  BY <1>0, <2>1, <4>1
    <3>8. ((before + 1)..end) \cup {before} = before..end
      BY <2>1
    <3>. QED  BY <1>2, <2>9, <2>2, <2>5, <3>3, <3>6, <3>7, <3>8
  <2>. QED  BY <2>4, <2>6, <2>7, <2>8
<1>. QED  BY <1>1, <1>2

-----------------------------------------------------------------------------
(***************************************************************************)
(* LoudnessWindows: tracks, the hops and scheduler of either half.         *)
(***************************************************************************)
Schedulers == [completions : Nat, boundary : Nat, left : Nat]
Tracks == [hops : Seq(SUBSET Int), partial : SUBSET Int, scheduler : Schedulers]

Done(track) == track.scheduler.completions - 1

\* A track that began behind start and has taken the frames up to position
TrackHolds(track, start, position, rate, capacity) ==
    /\ track \in Tracks
    /\ Done(track) \in Nat
    /\ track.scheduler.boundary = BoundaryFrame(rate, Done(track) + 1)
    /\ start + BoundaryFrame(rate, Done(track)) <= position
    /\ position + track.scheduler.left = start + BoundaryFrame(rate, Done(track) + 1)
    /\ track.scheduler.left >= 1
    /\ track.partial = (start + BoundaryFrame(rate, Done(track)) + 1)..position
    /\ RingHolds(track.hops, start, rate, Done(track), capacity)

LEMMA EmptyTrackHolds ==
    ASSUME NEW p \in Nat, NEW r \in Rates, NEW capacity \in Nat
    PROVE  TrackHolds(EmptyTrack(r), p, p, r, capacity) /\ Done(EmptyTrack(r)) = 0
<1>1. BoundaryFrame(r, 1) \in Nat /\ BoundaryFrame(r, 0) = 0 /\ BoundaryFrame(r, 1) >= 1
  <2>1. BoundaryFrame(r, 0) + (1 - 0) <= BoundaryFrame(r, 1)
    BY BoundariesGrow
  <2>2. r \in Nat
    BY RatesSupported
  <2>. QED  BY <2>1, <2>2, BoundaryRounds, BoundaryOfNone
<1>2. EmptyTrack(r) = [hops |-> <<>>, partial |-> {},
                       scheduler |-> [completions |-> 1, boundary |-> BoundaryFrame(r, 1),
                                      left |-> BoundaryFrame(r, 1)]]
  BY DEF EmptyTrack, FirstPeriod
<1>3. Done(EmptyTrack(r)) = 0
  BY <1>2 DEF Done
<1>4. EmptyTrack(r) \in Tracks
  <2>1. <<>> \in Seq(SUBSET Int)
    OBVIOUS
  <2>. QED  BY <1>1, <1>2, <2>1 DEF Tracks, Schedulers
<1>5. RingHolds(<<>>, p, r, 0, capacity)
  BY DEF RingHolds, Kept
<1>6. (p + 0 + 1)..p = {}
  OBVIOUS
<1>. DEFINE track == EmptyTrack(r)
<1>7. /\ track.hops = <<>> /\ track.partial = {}
      /\ track.scheduler.boundary = BoundaryFrame(r, 1)
      /\ track.scheduler.left = BoundaryFrame(r, 1)
  BY <1>2
<1>8. 0 + 1 = 1 /\ p + BoundaryFrame(r, 0) <= p
      /\ (p + BoundaryFrame(r, 0) + 1)..p = {}
  BY <1>1, <1>6
<1>. HIDE DEF track
<1>9. track \in Tracks /\ Done(track) = 0
  BY <1>3, <1>4 DEF track
<1>10. TrackHolds(track, p, p, r, capacity)
  BY <1>1, <1>5, <1>7, <1>8, <1>9 DEF TrackHolds
<1>. QED  BY <1>9, <1>10 DEF track

\* The hop that completes joins the ring, which drops the oldest when full
LEMMA RingTakesHop ==
    ASSUME NEW hops, NEW s \in Nat, NEW r \in Rates, NEW done \in Nat, NEW capacity \in Nat,
           RingHolds(hops, s, r, done, capacity)
    PROVE  RingHolds(WithHop(hops, HopOf(s, r, done + 1), capacity), s, r, done + 1, capacity)
<1>. DEFINE hop == HopOf(s, r, done + 1)
            all == Append(hops, hop)
            H == Len(hops)
<1>1. /\ hops \in Seq(SUBSET Int) /\ H \in Nat /\ H = Kept(done, capacity)
      /\ \A i \in 1..H : hops[i] = HopOf(s, r, done - H + i)
  BY DEF RingHolds
<1>2. hop \in SUBSET Int
  <2>1. /\ BoundaryFrame(r, done + 1 - 1) \in Nat /\ BoundaryFrame(r, done + 1) \in Nat
    <3>1. r \in Nat /\ done + 1 - 1 \in Nat /\ done + 1 \in Nat
      BY RatesSupported
    <3>. QED  BY <3>1, BoundaryRounds
  <2>. QED  BY <2>1 DEF HopOf
<1>. HIDE DEF hop
<1>3. /\ all \in Seq(SUBSET Int) /\ Len(all) = H + 1
      /\ \A i \in 1..H : all[i] = hops[i]
      /\ all[H + 1] = hop
  BY <1>1, <1>2
<1>4. \A i \in 1..(H + 1) : all[i] = HopOf(s, r, done - H + i)
  <2>1. done - H + (H + 1) = done + 1
    BY <1>1
  <2>2. all[H + 1] = HopOf(s, r, done - H + (H + 1))
    BY <1>3, <2>1 DEF hop
  <2>. QED  BY <1>1, <1>3, <2>2
<1>. HIDE DEF all, H
<1>5. CASE H + 1 > capacity + 1
  <2>1. H = capacity + 1 /\ Kept(done + 1, capacity) = capacity + 1
    BY <1>1, <1>5 DEF Kept
  <2>2. all # <<>>
    BY <1>1, <1>3
  <2>3. /\ Tail(all) \in Seq(SUBSET Int) /\ Len(Tail(all)) = H
        /\ \A i \in 1..H : Tail(all)[i] = all[i + 1]
    BY <1>1, <1>3, <2>2
  <2>4. WithHop(hops, hop, capacity) = Tail(all)
    BY <1>3, <1>5 DEF WithHop, all
  <2>5. ASSUME NEW i \in 1..H
        PROVE  Tail(all)[i] = HopOf(s, r, done + 1 - H + i)
    <3>1. i + 1 \in 1..(H + 1) /\ done - H + (i + 1) = done + 1 - H + i
      BY <1>1
    <3>2. all[i + 1] = HopOf(s, r, done - H + (i + 1))
      BY <1>4, <3>1
    <3>. QED  BY <2>3, <3>1, <3>2
  <2>6. RingHolds(Tail(all), s, r, done + 1, capacity)
    BY <2>1, <2>3, <2>5 DEF RingHolds
  <2>. QED  BY <2>4, <2>6 DEF hop
<1>6. CASE ~(H + 1 > capacity + 1)
  <2>1. H = done /\ Kept(done + 1, capacity) = H + 1
    BY <1>1, <1>6 DEF Kept
  <2>2. WithHop(hops, hop, capacity) = all
    BY <1>3, <1>6 DEF WithHop, all
  <2>3. ASSUME NEW i \in 1..(H + 1)
        PROVE  all[i] = HopOf(s, r, done + 1 - (H + 1) + i)
    <3>1. done + 1 - (H + 1) + i = done - H + i
      BY <1>1
    <3>. QED  BY <1>4, <3>1
  <2>4. RingHolds(all, s, r, done + 1, capacity)
    BY <1>3, <2>1, <2>3 DEF RingHolds
  <2>. QED  BY <2>2, <2>4 DEF hop
<1>. QED  BY <1>5, <1>6

\* A frame more, and where it completes the hop a hop more
LEMMA TrackAdvances ==
    ASSUME NEW track, NEW s \in Nat, NEW p \in Nat, NEW r \in Rates, NEW capacity \in Nat,
           TrackHolds(track, s, p, r, capacity)
    PROVE  /\ TrackHolds(Advanced(track, p + 1, capacity, r), s, p + 1, r, capacity)
           /\ ~HopCompletes(track) => Done(Advanced(track, p + 1, capacity, r)) = Done(track)
           /\ HopCompletes(track) =>
                /\ Done(Advanced(track, p + 1, capacity, r)) = Done(track) + 1
                /\ p + 1 = s + BoundaryFrame(r, Done(track) + 1)
<1>. DEFINE done == Done(track)
            first == s + BoundaryFrame(r, done)
            B1 == BoundaryFrame(r, done + 1)
            B2 == BoundaryFrame(r, done + 2)
            partial == track.partial \cup {p + 1}
            next == Advanced(track, p + 1, capacity, r)
<1>1. /\ track \in Tracks /\ done \in Nat /\ track.scheduler.boundary = B1
      /\ first <= p /\ p + track.scheduler.left = s + B1 /\ track.scheduler.left >= 1
      /\ track.partial = (first + 1)..p
      /\ RingHolds(track.hops, s, r, done, capacity)
  BY DEF TrackHolds
<1>2. /\ track.scheduler \in Schedulers /\ track.scheduler.left \in Nat
      /\ track.scheduler.completions \in Nat /\ track.scheduler.completions = done + 1
  <2>1. track.scheduler \in Schedulers
    BY <1>1 DEF Tracks
  <2>2. track.scheduler.left \in Nat /\ track.scheduler.completions \in Nat
    BY <2>1 DEF Schedulers
  <2>. QED  BY <2>1, <2>2 DEF Done
<1>3. first \in Nat /\ B1 \in Nat /\ B2 \in Nat /\ B1 < B2
  <2>1. r \in Nat /\ done + 1 \in Nat /\ done + 2 \in Nat
    BY <1>1, RatesSupported
  <2>2. BoundaryFrame(r, done) \in Nat /\ B1 \in Nat /\ B2 \in Nat
    BY <1>1, <2>1, BoundaryRounds
  <2>3. B1 + (done + 2 - (done + 1)) <= B2
    BY <1>1, <2>1, BoundariesGrow
  <2>. QED  BY SMTT(30), <1>1, <2>2, <2>3
<1>4. partial = (first + 1)..(p + 1) /\ partial \in SUBSET Int
  BY SMTT(30), <1>1, <1>3
<1>5. CASE HopCompletes(track)
  <2>1. track.scheduler.left = 1 /\ p + 1 = s + B1
    BY <1>1, <1>3, <1>5 DEF HopCompletes
  <2>2. partial = HopOf(s, r, done + 1)
    <3>3. HopOf(s, r, done + 1) = (first + 1)..(s + B1)
      BY <1>1, NextHop
    <3>. HIDE DEF first, B1, partial, done
    <3>. QED  BY <1>4, <2>1, <3>3
  <2> DEFINE ring == WithHop(track.hops, partial, capacity)
  <2>3. RingHolds(ring, s, r, done + 1, capacity)
    BY <1>1, <2>2, RingTakesHop
  <2>4. /\ next.hops = ring /\ next.partial = {}
        /\ next.scheduler = NextPeriod(track.scheduler, r)
        /\ next = [hops |-> ring, partial |-> {}, scheduler |-> NextPeriod(track.scheduler, r)]
    BY <1>5 DEF Advanced
  <2>5. NextPeriod(track.scheduler, r) = [completions |-> done + 2, boundary |-> B2,
                                          left |-> B2 - B1]
    <3>1. track.scheduler.completions + 1 = done + 2
      BY <1>1, <1>2
    <3>. QED  BY <1>1, <1>3, <3>1 DEF NextPeriod
  <2>6. Done(next) = done + 1
    BY <1>1, <2>4, <2>5 DEF Done
  <2>7. next \in Tracks
    <3>1. ring \in Seq(SUBSET Int)
      BY <2>3 DEF RingHolds
    <3>2. NextPeriod(track.scheduler, r) \in Schedulers
      BY <1>1, <1>3, <2>5 DEF Schedulers
    <3>. HIDE DEF ring, next
    <3>. QED  BY <2>4, <3>1, <3>2 DEF Tracks
  <2>8. (s + B1 + 1)..(p + 1) = {}
    BY <1>3, <2>1
  <2>9. next.scheduler.boundary = B2 /\ next.scheduler.left = B2 - B1
    BY <2>4, <2>5
  <2>10. TrackHolds(next, s, p + 1, r, capacity)
    <3>1. done + 1 + 1 = done + 2 /\ done + 1 \in Nat
      BY <1>1
    <3>2. s + B1 <= p + 1 /\ p + 1 + (B2 - B1) = s + B2 /\ B2 - B1 >= 1
      BY <1>3, <2>1
    <3>. HIDE DEF next, ring
    <3>. QED  BY <2>3, <2>4, <2>6, <2>7, <2>8, <2>9, <3>1, <3>2 DEF TrackHolds
  <2>. QED  BY <1>5, <2>1, <2>6, <2>10
<1>6. CASE ~HopCompletes(track)
  <2>1. track.scheduler.left >= 2
    BY <1>1, <1>2, <1>6 DEF HopCompletes
  <2>2. next = [track EXCEPT !.partial = partial, !.scheduler.left = @ - 1]
    BY <1>6 DEF Advanced
  <2>3. /\ next.hops = track.hops /\ next.partial = partial
        /\ next.scheduler = [track.scheduler EXCEPT !.left = @ - 1]
    BY <1>1, <2>2 DEF Tracks
  <2>. HIDE DEF next
  <2>4. /\ next.scheduler.left = track.scheduler.left - 1
        /\ next.scheduler.boundary = B1
        /\ next.scheduler.completions = track.scheduler.completions
        /\ next.scheduler \in Schedulers
    <3>1. track.scheduler.left - 1 \in Nat
      BY <1>2, <2>1
    <3>2. next.scheduler = [completions |-> track.scheduler.completions,
                            boundary |-> track.scheduler.boundary,
                            left |-> track.scheduler.left - 1]
      BY <1>2, <2>3 DEF Schedulers
    <3>3. track.scheduler.boundary \in Nat
      BY <1>2 DEF Schedulers
    <3>4. next.scheduler \in Schedulers
      BY <1>2, <3>1, <3>2, <3>3 DEF Schedulers
    <3>. QED  BY <1>1, <3>2, <3>4
  <2>5. Done(next) = done
    BY <2>4 DEF Done
  <2>6. next \in Tracks
    <3>1. next = [hops |-> track.hops, partial |-> partial, scheduler |-> next.scheduler]
      BY <1>1, <2>2, <2>3 DEF Tracks
    <3>2. track.hops \in Seq(SUBSET Int)
      BY <1>1 DEF Tracks
    <3>3. partial \in SUBSET Int /\ next.scheduler \in Schedulers
      BY <1>4, <2>4
    <3>. HIDE DEF partial
    <3>. QED  BY <3>1, <3>2, <3>3 DEF Tracks
  <2>7. first <= p + 1 /\ p + 1 + (track.scheduler.left - 1) = s + B1
        /\ track.scheduler.left - 1 >= 1
    <3>1. track.scheduler.left \in Nat /\ first <= p /\ p + track.scheduler.left = s + B1
          /\ track.scheduler.left >= 2 /\ first \in Nat /\ B1 \in Nat
      BY <1>1, <1>2, <1>3, <2>1
    <3>. HIDE DEF first, B1
    <3>. QED  BY <3>1
  <2>8. TrackHolds(next, s, p + 1, r, capacity)
    <3>. HIDE DEF next, partial
    <3>. QED  BY <1>1, <1>4, <2>3, <2>4, <2>5, <2>6, <2>7 DEF TrackHolds
  <2>. QED  BY <1>6, <2>5, <2>8 DEF next
<1>. QED  BY <1>5, <1>6

\* The windows behind the hop that completes
LEMMA WindowBehindHop ==
    ASSUME NEW track, NEW s \in Nat, NEW p \in Nat, NEW r \in Rates, NEW capacity \in Nat,
           NEW count \in Nat \ {0}, count <= capacity, TrackHolds(track, s, p, r, capacity)
    PROVE  Window(track.hops, count, BoundaryFrame(r, count))
             = WindowBehind(s, r, Done(track), count)
<1>1. Done(track) \in Nat /\ RingHolds(track.hops, s, r, Done(track), capacity)
  BY DEF TrackHolds
<1>. QED  BY <1>1, WindowExact

LEMMA TrackCounted ==
    ASSUME NEW track, NEW s \in Nat, NEW p \in Nat, NEW r \in Rates, NEW capacity \in Nat,
           TrackHolds(track, s, p, r, capacity)
    PROVE  HopsBetween(s, p, r) = Done(track)
<1>1. track.scheduler.left \in Nat
  <2>1. track.scheduler \in Schedulers
    BY DEF TrackHolds, Tracks
  <2>. QED  BY <2>1 DEF Schedulers
<1>2. BoundaryFrame(r, Done(track) + 1) \in Nat
  <2>1. r \in Nat /\ Done(track) + 1 \in Nat
    BY RatesSupported DEF TrackHolds
  <2>. QED  BY <2>1, BoundaryRounds
<1>3. p < s + BoundaryFrame(r, Done(track) + 1)
  BY <1>1, <1>2 DEF TrackHolds
<1>. QED  BY <1>3, HopsCounted DEF TrackHolds

-----------------------------------------------------------------------------
(***************************************************************************)
(* LoudnessWindows: the inductive invariant.                               *)
(***************************************************************************)
Analyzers == [initialized : BOOLEAN, rate : Rates \cup {0}, generation : Int, end : Nat]
Inputs == [processing : BOOLEAN, frame : Nat, cut : Nat, end : Nat]
Beginnings == [measurement : Nat, integration : Nat, programme : Nat]

\* The analyzer works through chunks of a supported rate
InputHolds ==
    /\ analyzer \in Analyzers /\ input \in Inputs /\ since \in Beginnings
    /\ input.frame <= input.cut /\ input.cut <= input.end
    /\ input.processing => analyzer.initialized
    /\ ~input.processing => input.frame = input.end
    /\ analyzer.initialized =>
          /\ analyzer.rate \in Rates
          /\ ~input.processing => analyzer.end = input.frame

MeasurementHolds ==
    /\ TrackHolds(measurement, since.measurement, input.frame, analyzer.rate, ShortTermHops)
    /\ Done(measurement) > 0 =>
          live.end = since.measurement + BoundaryFrame(analyzer.rate, Done(measurement))
    /\ live.momentary
         = WindowBehind(since.measurement, analyzer.rate, Done(measurement), MomentaryHops)
    /\ live.shortTerm
         = WindowBehind(since.measurement, analyzer.rate, Done(measurement), ShortTermHops)

\* Blocks follow each other from the first frame integrated, none before the reset
IntegrationHolds ==
    /\ TrackHolds(integration, since.integration, input.frame, analyzer.rate, MomentaryHops)
    /\ since.programme <= since.integration
    /\ programme.frames \subseteq Int /\ \A f \in programme.frames : f > since.programme
    /\ Done(integration) >= MomentaryHops =>
          /\ programme.end = since.integration + BoundaryFrame(analyzer.rate, Done(integration))
          /\ programme.block = WholeWindow(programme.end, MomentaryHops, analyzer.rate)
          /\ (since.integration + 1)..programme.end \subseteq programme.frames

WindowsInv ==
    /\ InputHolds
    /\ analyzer.initialized => MeasurementHolds /\ IntegrationHolds

LEMMA InitWindows == WindowsInit => WindowsInv
BY DEF WindowsInit, WindowsInv, InputHolds, Uninitialized, Analyzers, Inputs, Beginnings

\* A track that is empty satisfies the measurement's half
LEMMA MeasurementBegins ==
    ASSUME NEW p \in Nat, NEW r \in Rates, analyzer'.rate = r, input'.frame = p,
           measurement' = EmptyTrack(r), live' = ClearedLive, since'.measurement = p
    PROVE  MeasurementHolds'
<1>1. TrackHolds(EmptyTrack(r), p, p, r, ShortTermHops) /\ Done(EmptyTrack(r)) = 0
  BY EmptyTrackHolds, HopCounts
<1>2. /\ WindowBehind(p, r, 0, MomentaryHops) = NoWindow
      /\ WindowBehind(p, r, 0, ShortTermHops) = NoWindow
  BY HopCounts DEF WindowBehind
<1>3. live'.momentary = NoWindow /\ live'.shortTerm = NoWindow
  BY DEF ClearedLive
<1>. QED  BY <1>1, <1>2, <1>3 DEF MeasurementHolds

\* ... and the integration's, with what was integrated before or with nothing
LEMMA IntegrationBegins ==
    ASSUME NEW p \in Nat, NEW r \in Rates, analyzer'.rate = r, input'.frame = p,
           integration' = EmptyTrack(r), since'.integration = p,
           \/ programme' = ClearedProgramme /\ since'.programme = p
           \/ /\ programme' = programme /\ since'.programme = since.programme
              /\ since.programme <= p /\ programme.frames \subseteq Int
              /\ \A f \in programme.frames : f > since.programme
    PROVE  IntegrationHolds'
<1>1. TrackHolds(EmptyTrack(r), p, p, r, MomentaryHops) /\ Done(EmptyTrack(r)) = 0
  BY EmptyTrackHolds, HopCounts
<1>2. ~(0 >= MomentaryHops)
  BY HopCounts
<1>3. /\ since'.programme <= p /\ programme'.frames \subseteq Int
      /\ \A f \in programme'.frames : f > since'.programme
  <2>1. ClearedProgramme.frames = {}
    BY DEF ClearedProgramme
  <2>. QED  BY <2>1
<1>. QED  BY <1>1, <1>2, <1>3 DEF IntegrationHolds

\* A chunk is entered where the last one ended, or everything begins anew
LEMMA ProcessKeeps ==
    ASSUME WindowsInv, Idle, NEW chunk, NEW resetAt \in Nat, Process(chunk, resetAt),
           chunk.start \in Nat, chunk.length \in Nat \ {0}, chunk.rate \in Rates,
           chunk.generation \in Int
    PROVE  WindowsInv'
<1>1. /\ input'.processing = TRUE /\ input'.frame = chunk.start /\ input' \in Inputs
      /\ input'.frame <= input'.cut /\ input'.cut <= input'.end
  BY DEF Process, Inputs
<1>2. CASE analyzer.initialized /\ ~BreaksOff(chunk)
  <2>1. UNCHANGED <<analyzer, measurement, integration, live, programme, since>>
    BY <1>2 DEF Process
  <2>2. chunk.start = input.frame
    BY <1>2 DEF BreaksOff, WindowsInv, InputHolds, Idle
  <2>3. InputHolds'
    BY <1>1, <1>2, <2>1 DEF WindowsInv, InputHolds
  <2>4. MeasurementHolds' /\ IntegrationHolds'
    BY <1>1, <1>2, <2>1, <2>2 DEF WindowsInv, MeasurementHolds, IntegrationHolds
  <2>. QED  BY <2>3, <2>4 DEF WindowsInv
<1>3. CASE ~(analyzer.initialized /\ ~BreaksOff(chunk))
  <2>1. Configured(chunk)
    BY <1>3 DEF Process
  <2>2. /\ analyzer'.rate = chunk.rate /\ analyzer'.initialized = TRUE /\ analyzer' \in Analyzers
        /\ since'.measurement = chunk.start /\ since'.integration = chunk.start
        /\ since'.programme = chunk.start /\ since' \in Beginnings
        /\ measurement' = EmptyTrack(chunk.rate) /\ live' = ClearedLive
        /\ integration' = EmptyTrack(chunk.rate) /\ programme' = ClearedProgramme
    BY <2>1 DEF Configured, Analyzers, Beginnings
  <2>3. InputHolds'
    BY <1>1, <2>2 DEF InputHolds
  <2>4. MeasurementHolds'
    BY <1>1, <2>2, MeasurementBegins
  <2>5. IntegrationHolds'
    BY <1>1, <2>2, IntegrationBegins
  <2>. QED  BY <2>3, <2>4, <2>5 DEF WindowsInv
<1>. QED  BY <1>2, <1>3

\* A frame is measured
LEMMA FrameMeasured ==
    ASSUME InputHolds, analyzer.initialized, MeasurementHolds, TakeFrame
    PROVE  MeasurementHolds'
<1>. DEFINE s == since.measurement
            p == input.frame
            r == analyzer.rate
            track == Advanced(measurement, p + 1, ShortTermHops, r)
            done == Done(measurement)
<1>1. /\ s \in Nat /\ p \in Nat /\ r \in Rates /\ ShortTermHops \in Nat
      /\ since' = since /\ analyzer' = analyzer /\ input'.frame = p + 1
      /\ TrackHolds(measurement, s, p, r, ShortTermHops)
  BY HopCounts DEF InputHolds, Beginnings, Inputs, TakeFrame, MeasurementHolds
<1>2. measurement' = track
  BY DEF TakeFrame, Measure
<1>3. TrackHolds(track, s, p + 1, r, ShortTermHops)
  BY <1>1, TrackAdvances
<1>4. CASE ~HopCompletes(measurement)
  <2>1. Done(track) = done
    BY <1>1, <1>4, TrackAdvances
  <2>2. live' = live
    BY <1>4 DEF TakeFrame, Measure
  <2>. HIDE DEF track
  <2>. QED  BY <1>1, <1>2, <1>3, <2>1, <2>2 DEF MeasurementHolds
<1>5. CASE HopCompletes(measurement)
  <2>1. Done(track) = done + 1 /\ p + 1 = s + BoundaryFrame(r, done + 1)
    BY <1>1, <1>5, TrackAdvances
  <2>2. live' = [momentary |-> Window(track.hops, MomentaryHops,
                                      BoundaryFrame(r, MomentaryHops)),
                 shortTerm |-> Window(track.hops, ShortTermHops,
                                      BoundaryFrame(r, ShortTermHops)),
                 end |-> p + 1]
    BY <1>5 DEF TakeFrame, Measure
  <2>. HIDE DEF track
  <2>3. Window(track.hops, MomentaryHops, BoundaryFrame(r, MomentaryHops))
          = WindowBehind(s, r, Done(track), MomentaryHops)
    <3>1. MomentaryHops \in Nat \ {0} /\ MomentaryHops <= ShortTermHops
      BY HopCounts
    <3>. QED  BY <1>1, <1>3, <3>1, WindowBehindHop
  <2>4. Window(track.hops, ShortTermHops, BoundaryFrame(r, ShortTermHops))
          = WindowBehind(s, r, Done(track), ShortTermHops)
    <3>1. ShortTermHops \in Nat \ {0} /\ ShortTermHops <= ShortTermHops
      BY HopCounts
    <3>. QED  BY <1>1, <1>3, <3>1, WindowBehindHop
  <2>5. live'.end = s + BoundaryFrame(r, Done(track))
    BY <2>1, <2>2
  <2>. QED  BY <1>1, <1>2, <1>3, <2>2, <2>3, <2>4, <2>5 DEF MeasurementHolds
<1>. QED  BY <1>4, <1>5

\* Consecutive blocks leave no frame out
LEMMA BlocksOverlap ==
    ASSUME NEW r \in Rates, NEW done \in Nat, done >= MomentaryHops
    PROVE  /\ BoundaryFrame(r, done + 1) - BoundaryFrame(r, MomentaryHops) \in Nat
           /\ BoundaryFrame(r, done + 1) - BoundaryFrame(r, MomentaryHops)
                <= BoundaryFrame(r, done)
<1>1. r \in Nat /\ done + 1 \in Nat /\ MomentaryHops \in Nat /\ MomentaryHops >= 2
  BY RatesSupported, HopCounts
<1>2. /\ BoundaryFrame(r, done) \in Nat /\ BoundaryFrame(r, done + 1) \in Nat
      /\ BoundaryFrame(r, 1) \in Nat /\ BoundaryFrame(r, MomentaryHops) \in Nat
  BY <1>1, BoundaryRounds
<1>3. BoundaryFrame(r, done + 1) - BoundaryFrame(r, done) - BoundaryFrame(r, 1) \in {-1, 0, 1}
  BY HopsAddUp
<1>4. BoundaryFrame(r, 1) + (MomentaryHops - 1) <= BoundaryFrame(r, MomentaryHops)
  BY <1>1, BoundariesGrow
<1>5. BoundaryFrame(r, MomentaryHops) + (done + 1 - MomentaryHops) <= BoundaryFrame(r, done + 1)
  BY <1>1, BoundariesGrow
<1>. QED  BY <1>1, <1>2, <1>3, <1>4, <1>5

\* A frame is integrated
LEMMA FrameIntegrated ==
    ASSUME InputHolds, analyzer.initialized, IntegrationHolds, TakeFrame
    PROVE  IntegrationHolds'
<1>. DEFINE s == since.integration
            p == input.frame
            r == analyzer.rate
            track == Advanced(integration, p + 1, MomentaryHops, r)
            done == Done(integration)
            block == Window(track.hops, MomentaryHops, BoundaryFrame(r, MomentaryHops))
<1>1. /\ s \in Nat /\ p \in Nat /\ r \in Rates /\ since.programme \in Nat
      /\ since' = since /\ analyzer' = analyzer /\ input'.frame = p + 1
      /\ TrackHolds(integration, s, p, r, MomentaryHops) /\ MomentaryHops \in Nat \ {0}
      /\ since.programme <= s /\ done \in Nat
  BY HopCounts DEF InputHolds, Beginnings, Inputs, TakeFrame, IntegrationHolds, TrackHolds
<1>2. integration' = track
  BY DEF TakeFrame, Integrate
<1>3. TrackHolds(track, s, p + 1, r, MomentaryHops)
  BY <1>1, TrackAdvances
<1>4. /\ programme.frames \subseteq Int /\ \A f \in programme.frames : f > since.programme
  BY DEF IntegrationHolds
<1>5. CASE ~HopCompletes(integration)
  <2>1. Done(track) = done
    BY <1>1, <1>5, TrackAdvances
  <2>2. programme' = programme
    BY <1>5 DEF TakeFrame, Integrate
  <2>. HIDE DEF track
  <2>. QED  BY <1>1, <1>2, <1>3, <2>1, <2>2 DEF IntegrationHolds
<1>6. CASE HopCompletes(integration)
  <2>1. Done(track) = done + 1 /\ p + 1 = s + BoundaryFrame(r, done + 1)
    BY <1>1, <1>6, TrackAdvances
  <2>2. block = WindowBehind(s, r, done + 1, MomentaryHops)
    <3>1. block = WindowBehind(s, r, Done(track), MomentaryHops)
      <4>. HIDE DEF track
      <4>. QED  BY <1>1, <1>3, WindowBehindHop
    <3>. QED  BY <2>1, <3>1
  <2>3. programme' = IF block = NoWindow THEN programme
                     ELSE [frames |-> programme.frames \cup block, block |-> block,
                           end |-> p + 1]
    BY <1>6 DEF TakeFrame, Integrate
  <2>. HIDE DEF block, track
  <2>4. CASE done + 1 < MomentaryHops
    <3>1. programme' = programme
      BY <2>2, <2>3, <2>4 DEF WindowBehind
    <3>2. ~(Done(track) >= MomentaryHops)
      BY <1>1, <2>1, <2>4
    <3>. QED  BY <1>1, <1>2, <1>3, <1>4, <3>1, <3>2 DEF IntegrationHolds
  <2>5. CASE ~(done + 1 < MomentaryHops)
    <3>. DEFINE length == BoundaryFrame(r, MomentaryHops)
                reach == BoundaryFrame(r, done + 1)
    <3>1. block = WholeWindow(p + 1, MomentaryHops, r)
      BY <2>1, <2>2, <2>5 DEF WindowBehind
    <3>2. length \in Nat /\ length >= 1 /\ reach \in Nat /\ length <= reach
      <4>1. r \in Nat /\ done + 1 \in Nat /\ done + 1 >= MomentaryHops
        <5>1. r \in Nat
          BY <1>1, RatesSupported
        <5>2. done + 1 >= MomentaryHops
          <6>. HIDE DEF done
          <6>. QED  BY <1>1, <2>5
        <5>. QED  BY <1>1, <5>1, <5>2
      <4>2. BoundaryFrame(r, 0) + (MomentaryHops - 0) <= length
        BY <1>1, BoundariesGrow
      <4>3. length + (done + 1 - MomentaryHops) <= reach
        BY <1>1, <4>1, BoundariesGrow
      <4>4. length \in Nat /\ reach \in Nat /\ BoundaryFrame(r, 0) = 0
        BY <1>1, <4>1, BoundaryRounds, BoundaryOfNone
      <4>. QED  BY <1>1, <4>1, <4>2, <4>3, <4>4
    <3>3. block = (s + reach - length + 1)..(s + reach)
      <4>1. block = WholeWindow(s + reach, MomentaryHops, r)
        BY <2>1, <3>1
      <4>2. WholeWindow(s + reach, MomentaryHops, r) = ((s + reach) - length + 1)..(s + reach)
        BY DEF WholeWindow
      <4>3. (s + reach) - length + 1 = s + reach - length + 1
        BY <1>1, <3>2
      <4>. QED  BY <4>1, <4>2, <4>3
    <3>4. (done >= MomentaryHops => reach - length <= BoundaryFrame(r, done))
          /\ (~(done >= MomentaryHops) => reach = length)
      <4>1. CASE done >= MomentaryHops
        BY <1>1, <4>1, BlocksOverlap
      <4>2. CASE ~(done >= MomentaryHops)
        BY <1>1, <2>5, <4>2
      <4>. QED  BY <4>1, <4>2
    <3>5. BoundaryFrame(r, done) \in Nat
      BY <1>1, BoundaryRounds, RatesSupported
    <3>. HIDE DEF length, reach
    <3>6. block # NoWindow /\ block \subseteq Int /\ \A f \in block : f > since.programme
      <4>1. s + reach \in block
        BY <1>1, <3>3, <3>2
      <4>2. \A f \in block : f \in Int /\ f >= s + reach - length + 1
        BY <1>1, <3>3, <3>2
      <4>3. \A f \in Int : f >= s + reach - length + 1 => f > since.programme
        BY <1>1, <3>2
      <4>. QED  BY <4>1, <4>2, <4>3 DEF NoWindow
    <3>7. /\ programme'.frames = programme.frames \cup block /\ programme'.block = block
          /\ programme'.end = p + 1
      BY <2>3, <3>6
    <3>8. ASSUME NEW f \in (s + 1)..(p + 1)
          PROVE  f \in programme.frames \cup block
      <4>0. p + 1 = s + reach
        BY <2>1 DEF reach
      <4>1. f \in Int /\ s + 1 <= f /\ f <= s + reach
        BY <1>1, <3>2, <4>0
      <4>2. CASE f >= s + reach - length + 1
        BY <1>1, <3>3, <3>2, <4>1, <4>2
      <4>3. CASE ~(f >= s + reach - length + 1)
        <5>1. done >= MomentaryHops
          BY <1>1, <3>2, <3>4, <4>1, <4>3
        <5>2. f <= s + BoundaryFrame(r, done)
          BY <1>1, <3>2, <3>4, <3>5, <4>1, <4>3, <5>1
        <5>3. (s + 1)..(s + BoundaryFrame(r, done)) \subseteq programme.frames
          BY <5>1 DEF IntegrationHolds
        <5>4. f \in (s + 1)..(s + BoundaryFrame(r, done))
          BY <1>1, <3>5, <4>1, <5>2
        <5>. QED  BY <5>3, <5>4
      <4>. QED  BY <4>2, <4>3
    <3>9. programme'.end = s + BoundaryFrame(r, Done(track))
      BY <2>1, <3>7
    <3>10. /\ programme'.frames \subseteq Int
           /\ \A f \in programme'.frames : f > since.programme
           /\ programme'.block = WholeWindow(programme'.end, MomentaryHops, r)
           /\ (s + 1)..programme'.end \subseteq programme'.frames
      BY <1>4, <3>1, <3>6, <3>7, <3>8
    <3>. QED  BY <1>1, <1>2, <1>3, <3>9, <3>10 DEF IntegrationHolds
  <2>. QED  BY <2>4, <2>5
<1>. QED  BY <1>5, <1>6

\* Every step keeps the invariant
LEMMA WindowsStep ==
    ASSUME WindowsInv, [WindowsNext]_windowVars
    PROVE  WindowsInv'
<1>0. /\ InputHolds /\ analyzer \in Analyzers /\ input \in Inputs /\ since \in Beginnings
      /\ input.end \in Nat /\ input.frame \in Nat /\ input.cut \in Nat /\ analyzer.end \in Nat
      /\ input.processing \in BOOLEAN /\ analyzer.initialized \in BOOLEAN
  BY DEF WindowsInv, InputHolds, Analyzers, Inputs
<1>1. CASE TakeFrame
  <2>1. analyzer.initialized
    BY <1>0, <1>1 DEF TakeFrame, InputHolds
  <2>2. MeasurementHolds' /\ IntegrationHolds'
    BY <1>0, <1>1, <2>1, FrameMeasured, FrameIntegrated DEF WindowsInv
  <2>3. InputHolds'
    BY <1>0, <1>1 DEF TakeFrame, InputHolds, Inputs
  <2>. QED  BY <2>2, <2>3 DEF WindowsInv
<1>2. CASE ResetInsideChunk
  <2>1. analyzer.initialized /\ analyzer.rate \in Rates
    BY <1>0, <1>2 DEF ResetInsideChunk, InputHolds
  <2>2. /\ since' = [since EXCEPT !.integration = input.frame, !.programme = input.frame]
        /\ analyzer' = analyzer /\ input' = [input EXCEPT !.cut = input.end]
        /\ integration' = EmptyTrack(analyzer.rate) /\ programme' = ClearedProgramme
        /\ measurement' = measurement /\ live' = live
    BY <1>2 DEF ResetInsideChunk, IntegrationCleared
  <2>3. /\ since'.measurement = since.measurement /\ since'.integration = input.frame
        /\ since'.programme = input.frame /\ since' \in Beginnings
    BY <1>0, <2>2 DEF Beginnings
  <2>4. /\ input'.frame = input.frame /\ input'.cut = input.end /\ input'.end = input.end
        /\ input'.processing = input.processing /\ input' \in Inputs
    BY <1>0, <2>2 DEF Inputs
  <2>5. InputHolds'
    BY <1>0, <2>2, <2>3, <2>4 DEF InputHolds
  <2>6. MeasurementHolds'
    BY <2>1, <2>2, <2>3, <2>4 DEF WindowsInv, MeasurementHolds
  <2>7. IntegrationHolds'
    BY <1>0, <2>1, <2>2, <2>3, <2>4, IntegrationBegins
  <2>. QED  BY <2>5, <2>6, <2>7 DEF WindowsInv
<1>3. CASE ChunkProcessed
  <2>1. /\ input.processing /\ analyzer.initialized
        /\ UNCHANGED <<measurement, integration, live, programme, since>>
        /\ analyzer' = [analyzer EXCEPT !.end = input.end]
        /\ input' = [input EXCEPT !.processing = FALSE] /\ input.frame = input.end
    BY <1>0, <1>3 DEF ChunkProcessed, InputHolds
  <2>2. /\ analyzer'.rate = analyzer.rate /\ analyzer'.end = input.end
        /\ analyzer'.initialized = analyzer.initialized /\ analyzer' \in Analyzers
    BY <1>0, <2>1 DEF Analyzers
  <2>3. /\ input'.frame = input.frame /\ input'.cut = input.cut /\ input'.end = input.end
        /\ input'.processing = FALSE /\ input' \in Inputs
    BY <1>0, <2>1 DEF Inputs
  <2>4. InputHolds'
    BY <1>0, <2>1, <2>2, <2>3 DEF InputHolds
  <2>5. MeasurementHolds' /\ IntegrationHolds'
    BY <2>1, <2>2, <2>3 DEF WindowsInv, MeasurementHolds, IntegrationHolds
  <2>. QED  BY <2>4, <2>5 DEF WindowsInv
<1>4. ASSUME Idle, NEW length \in ChunkLengths, NEW rate \in Rates, NEW offset \in 1..length,
             ProcessFirst(length, rate, input.end + offset)
      PROVE  WindowsInv'
  <2>. DEFINE chunk == NextChunk(length, rate, 1)
  <2>1. /\ chunk.start \in Nat /\ chunk.length \in Nat \ {0} /\ chunk.rate \in Rates
        /\ chunk.generation \in Int
    BY <1>0, ChunkBounds DEF NextChunk
  <2>2. Process(chunk, input.end + offset) /\ input.end + offset \in Nat
    BY <1>0, <1>4, ChunkBounds DEF ProcessFirst
  <2>. HIDE DEF chunk
  <2>. QED  BY <1>4, <2>1, <2>2, ProcessKeeps
<1>5. ASSUME Idle, NEW length \in ChunkLengths, NEW rate \in Rates, NEW offset \in 1..length,
             ProcessBroken(length, rate, input.end + offset)
      PROVE  WindowsInv'
  <2>. DEFINE next == Present(length)
  <2>0. analyzer.rate \in Rates /\ analyzer.generation \in Int /\ length \in Nat \ {0}
    BY <1>0, <1>5, ChunkBounds DEF ProcessBroken, InputHolds, Analyzers
  <2>1. /\ next = [start |-> input.end, length |-> length, rate |-> analyzer.rate,
                   generation |-> analyzer.generation, sequence |-> 1,
                   followsDiscontinuity |-> FALSE]
    BY DEF Present, NextChunk
  <2>2. PICK chunk \in {[next EXCEPT !.rate = rate], [next EXCEPT !.generation = 3 - @],
                        [next EXCEPT !.followsDiscontinuity = TRUE],
                        [next EXCEPT !.sequence = 2, !.start = @ + 1]} :
          Process(chunk, input.end + offset)
    BY <1>5 DEF ProcessBroken
  <2>3. /\ chunk.start \in Nat /\ chunk.length \in Nat \ {0} /\ chunk.rate \in Rates
        /\ chunk.generation \in Int
    <3>1. /\ next.start = input.end /\ next.length = length /\ next.rate = analyzer.rate
          /\ next.generation = analyzer.generation
      BY <2>1
    <3>2. CASE chunk = [next EXCEPT !.rate = rate]
      BY <1>0, <2>0, <2>1, <3>2
    <3>3. CASE chunk = [next EXCEPT !.generation = 3 - @]
      <4>1. /\ chunk.start = next.start /\ chunk.length = next.length
            /\ chunk.rate = next.rate /\ chunk.generation = 3 - next.generation
        BY <2>1, <3>3
      <4>. QED  BY <1>0, <2>0, <3>1, <4>1
    <3>4. CASE chunk = [next EXCEPT !.followsDiscontinuity = TRUE]
      BY <1>0, <2>0, <2>1, <3>4
    <3>5. CASE chunk = [next EXCEPT !.sequence = 2, !.start = @ + 1]
      <4>1. /\ chunk.start = next.start + 1 /\ chunk.length = next.length
            /\ chunk.rate = next.rate /\ chunk.generation = next.generation
        BY <2>1, <3>5
      <4>. QED  BY <1>0, <2>0, <3>1, <4>1
    <3>. QED  BY <2>2, <3>2, <3>3, <3>4, <3>5
  <2>4. input.end + offset \in Nat
    BY <1>0, <2>0
  <2>. HIDE DEF next
  <2>. QED  BY <1>5, <2>2, <2>3, <2>4, ProcessKeeps
<1>6. ASSUME Idle, NEW length \in ChunkLengths, NEW offset \in 1..length,
             ProcessNext(length, input.end + offset)
      PROVE  WindowsInv'
  <2>. DEFINE chunk == Present(length)
  <2>1. /\ chunk.start \in Nat /\ chunk.length \in Nat \ {0} /\ chunk.rate \in Rates
        /\ chunk.generation \in Int
    BY <1>0, <1>6, ChunkBounds DEF ProcessNext, InputHolds, Analyzers, Present, NextChunk
  <2>2. Process(chunk, input.end + offset) /\ input.end + offset \in Nat
    BY <1>0, <1>6, ChunkBounds DEF ProcessNext
  <2>. HIDE DEF chunk
  <2>. QED  BY <1>6, <2>1, <2>2, ProcessKeeps
<1>7. CASE Idle /\ ApplyFullReset
  <2>1. /\ analyzer' = Uninitialized /\ input' = input /\ since' = since /\ Idle
    BY <1>7 DEF ApplyFullReset
  <2>2. analyzer' \in Analyzers /\ ~analyzer'.initialized
    BY <2>1 DEF Uninitialized, Analyzers
  <2>3. InputHolds'
    BY <1>0, <2>1, <2>2 DEF InputHolds, Idle
  <2>. QED  BY <2>2, <2>3 DEF WindowsInv
<1>8. CASE Idle /\ ResetIntegration
  <2>1. /\ analyzer.initialized /\ analyzer.rate \in Rates /\ analyzer.end = input.frame
        /\ UNCHANGED <<analyzer, measurement, live, input>>
        /\ since' = [since EXCEPT !.integration = analyzer.end, !.programme = analyzer.end]
        /\ integration' = EmptyTrack(analyzer.rate) /\ programme' = ClearedProgramme
    BY <1>0, <1>8 DEF ResetIntegration, IntegrationCleared, InputHolds, Idle
  <2>2. /\ since'.measurement = since.measurement /\ since'.integration = input.frame
        /\ since'.programme = input.frame /\ since' \in Beginnings
    BY <1>0, <2>1 DEF Beginnings
  <2>3. InputHolds'
    BY <1>0, <2>1, <2>2 DEF InputHolds
  <2>4. MeasurementHolds'
    BY <2>1, <2>2 DEF WindowsInv, MeasurementHolds
  <2>5. IntegrationHolds'
    BY <1>0, <2>1, <2>2, IntegrationBegins
  <2>. QED  BY <2>3, <2>4, <2>5 DEF WindowsInv
<1>9. CASE Idle /\ ClearLiveMeasurementsPreservingIntegration
  <2>1. /\ analyzer.initialized /\ analyzer.rate \in Rates /\ analyzer.end = input.frame
        /\ UNCHANGED <<analyzer, programme, input>>
        /\ measurement' = EmptyTrack(analyzer.rate) /\ live' = ClearedLive
        /\ integration' = EmptyTrack(analyzer.rate)
        /\ since' = [since EXCEPT !.measurement = analyzer.end, !.integration = analyzer.end]
    BY <1>0, <1>9 DEF ClearLiveMeasurementsPreservingIntegration, InputHolds, Idle
  <2>2. /\ since'.measurement = input.frame /\ since'.integration = input.frame
        /\ since'.programme = since.programme /\ since' \in Beginnings
    BY <1>0, <2>1 DEF Beginnings
  <2>3. InputHolds'
    BY <1>0, <2>1, <2>2 DEF InputHolds
  <2>4. MeasurementHolds'
    BY <1>0, <2>1, <2>2, MeasurementBegins
  <2>5. /\ programme.frames \subseteq Int /\ \A f \in programme.frames : f > since.programme
        /\ since.programme <= since.integration
        /\ TrackHolds(integration, since.integration, input.frame, analyzer.rate, MomentaryHops)
    BY <2>1 DEF WindowsInv, IntegrationHolds
  <2>6. since.programme <= input.frame
    <3>1. BoundaryFrame(analyzer.rate, Done(integration)) \in Nat
      BY <2>1, <2>5, BoundaryRounds, RatesSupported DEF TrackHolds
    <3>2. since.integration + BoundaryFrame(analyzer.rate, Done(integration)) <= input.frame
      BY <2>5 DEF TrackHolds
    <3>3. since.integration \in Nat /\ since.programme \in Nat
      BY <1>0 DEF Beginnings
    <3>. QED  BY <1>0, <2>5, <3>1, <3>2, <3>3
  <2>7. IntegrationHolds'
    BY <1>0, <2>1, <2>2, <2>5, <2>6, IntegrationBegins
  <2>. QED  BY <2>3, <2>4, <2>7 DEF WindowsInv
<1>10. CASE UNCHANGED windowVars
  BY <1>10 DEF windowVars, WindowsInv, InputHolds, MeasurementHolds, IntegrationHolds
<1>. QED  BY <1>1, <1>2, <1>3, <1>4, <1>5, <1>6, <1>7, <1>8, <1>9, <1>10 DEF WindowsNext

LEMMA WindowsInvariant == WindowsSpec => []WindowsInv
BY InitWindows, WindowsStep, PTL DEF WindowsSpec

\* However long it runs, the live windows are exactly the last tenths of a
\* second, counted without drift (LoudnessAnalyzer.cpp:564-652,698-729)
THEOREM LiveWindowsAreExact == WindowsSpec => []LiveWindowsExact
<1>1. ASSUME WindowsInv
      PROVE  LiveWindowsExact
  <2>. SUFFICES ASSUME analyzer.initialized PROVE LiveWindowsExact
    BY DEF LiveWindowsExact
  <2>. DEFINE rate == analyzer.rate
              hops == HopsBetween(since.measurement, input.frame, rate)
  <2>1. MeasurementHolds /\ InputHolds
    BY <1>1 DEF WindowsInv
  <2>2. hops = Done(measurement) /\ Done(measurement) \in Nat
    <3>1. since.measurement \in Nat /\ input.frame \in Nat /\ rate \in Rates
      BY <2>1 DEF InputHolds, Beginnings, Inputs
    <3>2. TrackHolds(measurement, since.measurement, input.frame, rate, ShortTermHops)
          /\ ShortTermHops \in Nat
      BY <2>1, HopCounts DEF MeasurementHolds
    <3>. QED  BY <3>1, <3>2, TrackCounted DEF TrackHolds
  <2>. HIDE DEF hops
  <2>3. hops > 0 => live.end = since.measurement + BoundaryFrame(rate, hops)
    BY <2>1, <2>2 DEF MeasurementHolds
  <2>4. ASSUME NEW count \in {MomentaryHops, ShortTermHops}
        PROVE  WindowBehind(since.measurement, rate, hops, count)
                 = IF hops < count THEN NoWindow ELSE WholeWindow(live.end, count, rate)
    <3>1. ~(hops < count) => hops > 0
      BY <2>2, HopCounts
    <3>. QED  BY <2>3, <3>1 DEF WindowBehind
  <2>. QED  BY <2>1, <2>2, <2>3, <2>4 DEF LiveWindowsExact, MeasurementHolds, hops
<1>. QED  BY <1>1, WindowsInvariant, PTL

\* Every block since the last reset and no frame before it is integrated
\* (LoudnessAnalyzer.cpp:59-116,496-527,654-670)
THEOREM ProgrammeStartsAtLastReset == WindowsSpec => []ProgrammeStartsAtReset
<1>1. ASSUME WindowsInv
      PROVE  ProgrammeStartsAtReset
  <2>. SUFFICES ASSUME analyzer.initialized PROVE ProgrammeStartsAtReset
    BY DEF ProgrammeStartsAtReset
  <2>. DEFINE rate == analyzer.rate
              hops == HopsBetween(since.integration, input.frame, rate)
  <2>1. IntegrationHolds /\ InputHolds
    BY <1>1 DEF WindowsInv
  <2>2. hops = Done(integration)
    <3>1. since.integration \in Nat /\ input.frame \in Nat /\ rate \in Rates
      BY <2>1 DEF InputHolds, Beginnings, Inputs
    <3>2. TrackHolds(integration, since.integration, input.frame, rate, MomentaryHops)
          /\ MomentaryHops \in Nat
      BY <2>1, HopCounts DEF IntegrationHolds
    <3>. QED  BY <3>1, <3>2, TrackCounted
  <2>. HIDE DEF hops
  <2>. QED  BY <2>1, <2>2 DEF ProgrammeStartsAtReset, IntegrationHolds, hops
<1>. QED  BY <1>1, WindowsInvariant, PTL
=============================================================================
