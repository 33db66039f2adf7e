---------------------------- MODULE LevelDisplay ----------------------------
(***************************************************************************)
(* Peak/RMS levels from the audio callback to the display, and the two     *)
(* requests that clear them: the user's reset of the holds and OVER, and   *)
(* the clear of the live levels once audio has stopped arriving.           *)
(*                                                                         *)
(* The callback owns the ballistics and applies a request at its next      *)
(* block; until then the worker hides what the request excludes.  The      *)
(* handoff between them is that of MeterHandoff, taken as one step.  The   *)
(* message thread and the display link call the coordinator under          *)
(* lifecycleMutex_, one call at a time.  The phases of a capture boundary, *)
(* in which jobs publish its marker or wait for its delivery and requests  *)
(* are put off, are those of CaptureBoundary and left out here.            *)
(***************************************************************************)
EXTENDS Naturals, FiniteSetsExt

CONSTANTS
    MaxBlocks,     \* bound on audio blocks
    MaxResets,     \* bound on user resets
    MaxChanges,    \* bound on reconfigurations and restarts
    Changes        \* the kinds of change that may happen

ASSUME LevelDisplayAssumption ==
    /\ {MaxBlocks, MaxResets, MaxChanges} \subseteq Nat
    /\ Changes \subseteq {"temporal", "mapping", "restart"}

VARIABLES
    callback,      \* the audio callback inside captureAudioBlock
    ballistics,    \* its temporal state: where holds and live levels began
    pending,       \* the readings the worker has not collected
    requested,     \* requestedUserResetEpoch_, requestedLiveClearEpoch_
    captureRevision,
    active,        \* activeCaptureLifecycleGeneration, 0 when closed
    lifecycle,     \* the last lifecycle generation allocated
    client,        \* the scheduler's client: is a job running, is one pending
    job,           \* the worker inside execute()
    working,       \* workingFrame
    required,      \* requiredUserResetEpoch, requiredLiveClearEpoch
    pendingReset,  \* peakRmsResetPendingEpoch
    stale,         \* staleClearPending, staleClearRevision
    hasAudio,      \* hasPublishedAudioFrame
    analyzed,      \* lastAnalyzedCaptureRevision
    gate,          \* what requestAnalysis remembers between calls
    caller,        \* the call that holds lifecycleMutex_
    snapshot,      \* the frame last published
    shown,         \* the frame last copied by the display link
    past           \* history: where each reset was requested, and what was lost

callbackVars == <<callback, ballistics, pending, captureRevision>>
workerVars == <<job, working, required, hasAudio, analyzed, snapshot>>
requestVars == <<requested, pendingReset, stale>>
lifecycleVars == <<active, lifecycle>>
callVars == <<gate, caller>>
levelVars == <<callbackVars, workerVars, requestVars, lifecycleVars, callVars, client, shown, past>>

\* A reading: the block it ends with, and the first block its holds and its
\* live levels come from
NoReading == [last |-> 0, lifecycle |-> 0, hold |-> 0, live |-> 0, userReset |-> 0, liveClear |-> 0]

\* A frame: the first block of its holds and of its live levels, 0 if cleared.
\* excluded is history: blocks before these were cleared by a request.
ClearedFrame(l, next) == [lifecycle |-> l, valid |-> FALSE, hold |-> 0, live |-> 0,
                          excluded |-> [hold |-> next, live |-> next]]

NoJob == [pc |-> "idle", stop |-> FALSE, revision |-> 0, reading |-> NoReading,
          changed |-> FALSE, stale |-> FALSE]

NoCall == [op |-> "none", pc |-> "none", revision |-> 0, new |-> FALSE, stale |-> FALSE]

LevelsInit ==
    /\ callback = [pc |-> "idle", lifecycle |-> 0]
    /\ ballistics = [next |-> 1, lifecycle |-> 0, hold |-> 0, live |-> 0,
                     userReset |-> 0, liveClear |-> 0]
    /\ pending = {}
    /\ requested = [userReset |-> 0, liveClear |-> 0]
    /\ captureRevision = 0
    /\ active = 1 /\ lifecycle = 1
    /\ client = [running |-> FALSE, pending |-> FALSE]
    /\ job = NoJob
    /\ working = ClearedFrame(1, 1)
    /\ required = [userReset |-> 0, liveClear |-> 0]
    /\ pendingReset = 0
    /\ stale = [pending |-> FALSE, revision |-> 0]
    /\ hasAudio = FALSE
    /\ analyzed = 0
    /\ gate = [observed |-> 0, requested |-> 0, staleRequested |-> FALSE]
    /\ caller = NoCall
    /\ snapshot = ClearedFrame(1, 1)
    /\ shown = ClearedFrame(1, 1)
    /\ past = [resetAt |-> [e \in 1..MaxResets |-> 0], changes |-> 0, unpublished |-> FALSE, unmarked |-> FALSE]

-----------------------------------------------------------------------------
(* The audio callback: captureAudioBlock.                                   *)

CallbackEnters ==
    /\ callback.pc = "idle"
    /\ active # 0
    /\ ballistics.next <= MaxBlocks
    /\ callback' = [pc |-> "measure", lifecycle |-> active]
    /\ UNCHANGED <<ballistics, pending, captureRevision, workerVars, requestVars, lifecycleVars,
                   callVars, client, shown, past>>

\* measureEndpoint: requests are applied before the block; another lifecycle
\* is another format, which restarts everything
Measured ==
    LET n == ballistics.next
        fresh == ballistics.lifecycle # callback.lifecycle
    IN  [next |-> n + 1, lifecycle |-> callback.lifecycle,
         hold |-> IF fresh \/ requested.userReset # ballistics.userReset THEN n ELSE ballistics.hold,
         live |-> IF fresh \/ requested.liveClear # ballistics.liveClear THEN n ELSE ballistics.live,
         userReset |-> requested.userReset, liveClear |-> requested.liveClear]

Newest(readings) == CHOOSE r \in readings : \A other \in readings : other.last <= r.last

\* publishBlock: the reading joins the others, takes the place of the newest,
\* or is dropped
BlockPublished ==
    LET reading == [last |-> ballistics.next, lifecycle |-> Measured.lifecycle,
                    hold |-> Measured.hold, live |-> Measured.live,
                    userReset |-> Measured.userReset, liveClear |-> Measured.liveClear]
    IN  /\ callback.pc = "measure"
        /\ ballistics' = Measured
        /\ \/ pending' = pending \cup {reading}
           \/ pending # {} /\ pending' = (pending \ {Newest(pending)}) \cup {reading}
           \/ pending # {} /\ pending' = pending
        /\ callback' = [callback EXCEPT !.pc = "count"]
        /\ UNCHANGED <<captureRevision, workerVars, requestVars, lifecycleVars, callVars,
                       client, shown, past>>

BlockCounted ==
    /\ callback.pc = "count"
    /\ captureRevision' = captureRevision + 1
    /\ callback' = [pc |-> "idle", lifecycle |-> 0]
    /\ UNCHANGED <<ballistics, pending, workerVars, requestVars, lifecycleVars, callVars,
                   client, shown, past>>

-----------------------------------------------------------------------------
(* The worker: execute().                                                   *)

\* The check at the head, and the revision the job will have covered
JobStarts ==
    /\ client.pending /\ ~client.running
    /\ client' = [running |-> active # 0, pending |-> FALSE]
    /\ job' = IF active = 0 THEN NoJob ELSE [NoJob EXCEPT !.pc = "consume", !.revision = captureRevision]
    /\ UNCHANGED <<callbackVars, working, required, hasAudio, analyzed, snapshot, requestVars,
                   lifecycleVars, callVars, shown, past>>

\* Mutant: the holds of a reading from before the reset are shown
AppliedUnmasked(frame, reading) ==
    [frame EXCEPT
       !.valid = TRUE,
       !.hold = reading.hold,
       !.live = IF reading.liveClear < required.liveClear THEN 0 ELSE reading.live]

\* applyPeakRmsReading: what a required epoch excludes is hidden
Applied(frame, reading) ==
    [frame EXCEPT
       !.valid = TRUE,
       !.hold = IF reading.userReset < required.userReset THEN 0 ELSE reading.hold,
       !.live = IF reading.liveClear < required.liveClear THEN 0 ELSE reading.live]

\* consumeLatest returns the newest reading it finds; readings released while
\* it scans may stay behind.  A reading of another lifecycle is ignored.
JobConsumes ==
    /\ job.pc = "consume"
    /\ \/ /\ pending = {}
          /\ job' = [job EXCEPT !.pc = "reset"]
          /\ UNCHANGED <<pending, working>>
       \/ \E taken \in (SUBSET pending) \ {{}} :
            LET reading == Newest(taken)
                applies == reading.lifecycle = active
            IN  /\ pending' = pending \ taken
                /\ working' = IF applies THEN Applied(working, reading) ELSE working
                /\ job' = [job EXCEPT !.pc = "reset", !.changed = applies,
                             !.reading = IF applies THEN reading ELSE NoReading]
    /\ UNCHANGED <<callback, ballistics, captureRevision, required, hasAudio, analyzed, snapshot,
                   requestVars, lifecycleVars, callVars, client, shown, past>>

\* peakRmsResetPendingEpoch.exchange(0): the holds are cleared, unless the
\* reading just applied began after the reset
JobTakesReset ==
    LET epoch == Max({required.userReset, pendingReset})
        alreadyApplied == job.reading # NoReading /\ job.reading.userReset >= epoch
        clears == pendingReset # 0 /\ working.valid /\ ~alreadyApplied
    IN  /\ job.pc = "reset"
        /\ pendingReset' = 0
        /\ required' = [required EXCEPT !.userReset = epoch]
        /\ working' = [working EXCEPT
                         !.hold = IF clears THEN 0 ELSE @,
                         !.excluded.hold = IF pendingReset = 0 THEN @
                                           ELSE Max({@, past.resetAt[pendingReset]})]
        /\ job' = [job EXCEPT !.pc = "check", !.changed = @ \/ clears]
        /\ UNCHANGED <<callbackVars, hasAudio, analyzed, snapshot, requested, stale,
                       lifecycleVars, callVars, client, shown, past>>

\* stopRequested() or another generation, at the head, before something is
\* consumed or behind the resets: the job ends
JobStops ==
    /\ job.pc \in {"consume", "check"} /\ job.stop
    /\ job' = NoJob
    /\ client' = [client EXCEPT !.running = FALSE]
    /\ UNCHANGED <<callbackVars, working, required, hasAudio, analyzed, snapshot, requestVars,
                   lifecycleVars, callVars, shown, past>>

JobGoesOn ==
    /\ job.pc = "check" /\ ~job.stop
    /\ job' = [job EXCEPT !.pc = "exchange"]
    /\ UNCHANGED <<callbackVars, working, required, hasAudio, analyzed, snapshot, requestVars,
                   lifecycleVars, callVars, client, shown, past>>

\* staleClearPending.exchange(false)
JobTakesStale ==
    /\ job.pc = "exchange"
    /\ job' = [job EXCEPT !.pc = "stale", !.stale = stale.pending]
    /\ stale' = [stale EXCEPT !.pending = FALSE]
    /\ UNCHANGED <<callbackVars, working, required, hasAudio, analyzed, snapshot, requested,
                   pendingReset, lifecycleVars, callVars, client, shown, past>>

\* Nothing was captured since the clear was armed: the live levels are cleared
\* and the callback is asked to restart them
JobClearsLevels ==
    LET epoch == requested.liveClear + 1 IN
    /\ job.pc = "stale"
    /\ job.stale /\ stale.revision = captureRevision
    /\ requested' = [requested EXCEPT !.liveClear = epoch]
    /\ required' = [required EXCEPT !.liveClear = epoch]
    /\ working' = [working EXCEPT !.live = 0, !.excluded.live = ballistics.next]
    /\ hasAudio' = FALSE
    /\ job' = [job EXCEPT !.pc = "publish", !.changed = TRUE]
    /\ UNCHANGED <<callbackVars, analyzed, snapshot, pendingReset, stale, lifecycleVars,
                   callVars, client, shown, past>>

JobKeepsLevels ==
    /\ job.pc = "stale"
    /\ ~(job.stale /\ stale.revision = captureRevision)
    /\ hasAudio' = (hasAudio \/ job.reading # NoReading)
    /\ job' = [job EXCEPT !.pc = "publish"]
    /\ UNCHANGED <<callbackVars, working, required, analyzed, snapshot, requestVars,
                   lifecycleVars, callVars, client, shown, past>>

\* A frame that shows levels although hasPublishedAudioFrame is false
Unmarked(frame, marked) == frame.live # 0 /\ ~marked

\* publishWorkingFrame, unless the job must stop, and lastAnalyzedCaptureRevision
JobPublishes ==
    LET publishes == job.changed /\ ~job.stop IN
    /\ job.pc = "publish"
    /\ snapshot' = IF publishes THEN working ELSE snapshot
    /\ past' = [past EXCEPT
                     !.unpublished = @ /\ ~publishes,
                     !.unmarked = IF publishes THEN Unmarked(working, hasAudio) ELSE @]
    /\ analyzed' = job.revision
    /\ job' = NoJob
    /\ client' = [client EXCEPT !.running = FALSE]
    /\ UNCHANGED <<callbackVars, working, required, hasAudio, requestVars, lifecycleVars,
                   callVars, shown>>

-----------------------------------------------------------------------------
(* requestAnalysis, once per display frame.                                 *)

\* Mutant: staleClearRequested_ is not reset by new audio
TickKeepsRequested ==
    LET new == captureRevision # gate.observed
        due(timedOut) == timedOut /\ ~new /\ ~gate.staleRequested /\ hasAudio
        hasNew == captureRevision > Max({gate.requested, analyzed})
    IN  /\ caller.op = "none" /\ active # 0
        /\ gate' = [gate EXCEPT !.observed = captureRevision]
        /\ stale' = [stale EXCEPT !.pending = @ /\ ~new]
        /\ caller' = NoCall \/ \E timedOut \in BOOLEAN :
              /\ hasNew \/ due(timedOut)
              /\ caller' = [op |-> "tick", pc |-> IF due(timedOut) THEN "arm" ELSE "request",
                            revision |-> captureRevision, new |-> hasNew, stale |-> due(timedOut)]
        /\ UNCHANGED <<callbackVars, workerVars, requested, pendingReset, lifecycleVars, client,
                       shown, past>>

\* The revision is compared with the last one seen; timedOut: as often as it
\* takes, staleInputTimeoutNanoseconds have passed since it changed.  The call
\* ends where nothing is to be asked or nextAnalysisRequestNanoseconds_ is ahead.
TickObserves ==
    LET new == captureRevision # gate.observed
        due(timedOut) == timedOut /\ ~new /\ ~gate.staleRequested /\ hasAudio
        hasNew == captureRevision > Max({gate.requested, analyzed})
    IN  /\ caller.op = "none" /\ active # 0
        /\ gate' = [gate EXCEPT !.observed = captureRevision, !.staleRequested = @ /\ ~new]
        /\ stale' = [stale EXCEPT !.pending = @ /\ ~new]
        /\ caller' = NoCall \/ \E timedOut \in BOOLEAN :
              /\ hasNew \/ due(timedOut)
              /\ caller' = [op |-> "tick", pc |-> IF due(timedOut) THEN "arm" ELSE "request",
                            revision |-> captureRevision, new |-> hasNew, stale |-> due(timedOut)]
        /\ UNCHANGED <<callbackVars, workerVars, requested, pendingReset, lifecycleVars, client,
                       shown, past>>

\* armStaleClear
TickArms ==
    /\ caller.op = "tick" /\ caller.pc = "arm"
    /\ stale' = [pending |-> TRUE, revision |-> caller.revision]
    /\ caller' = [caller EXCEPT !.pc = "request"]
    /\ UNCHANGED <<callbackVars, workerVars, requested, pendingReset, lifecycleVars, gate, client,
                   shown, past>>

\* client_->request(period)
TickRequests ==
    /\ caller.op = "tick" /\ caller.pc = "request"
    /\ client' = [client EXCEPT !.pending = TRUE]
    /\ gate' = [gate EXCEPT !.requested = IF caller.new THEN caller.revision ELSE @,
                            !.staleRequested = @ \/ caller.stale]
    /\ caller' = NoCall
    /\ UNCHANGED <<callbackVars, workerVars, requestVars, lifecycleVars, shown, past>>

-----------------------------------------------------------------------------
(* resetPeakRms.                                                            *)

\* requestUserReset
ResetRequested ==
    /\ caller.op = "none" /\ active # 0
    /\ requested.userReset < MaxResets
    /\ requested' = [requested EXCEPT !.userReset = @ + 1]
    /\ past' = [past EXCEPT !.resetAt[requested.userReset + 1] = ballistics.next]
    /\ caller' = [NoCall EXCEPT !.op = "reset"]
    /\ UNCHANGED <<callbackVars, workerVars, pendingReset, stale, lifecycleVars, gate, client, shown>>

\* Mutant: the reset waits for the next job
ResetPendsUnrequested ==
    /\ caller.op = "reset"
    /\ pendingReset' = requested.userReset
    /\ caller' = NoCall
    /\ UNCHANGED <<callbackVars, workerVars, requested, stale, lifecycleVars, gate, client,
                   shown, past>>

\* peakRmsResetPendingEpoch.store, client_->request()
ResetPends ==
    /\ caller.op = "reset"
    /\ pendingReset' = requested.userReset
    /\ client' = [client EXCEPT !.pending = TRUE]
    /\ caller' = NoCall
    /\ UNCHANGED <<callbackVars, workerVars, requested, stale, lifecycleVars, gate, shown, past>>

-----------------------------------------------------------------------------
(* Reconfiguration and restart: the job is cancelled and waited for.        *)

\* setSpectrumTemporalConfiguration, setSpectrogramFrequencySpacing;
\* setVisualizationActive and setCaptureFormat close the capture as well
ChangeBegins ==
    /\ caller.op = "none" /\ active # 0
    /\ past.changes < MaxChanges
    /\ \E kind \in Changes :
         /\ caller' = [NoCall EXCEPT !.op = kind]
         /\ active' = IF kind = "restart" THEN 0 ELSE active
         /\ stale' = IF kind = "restart" THEN [stale EXCEPT !.pending = FALSE] ELSE stale
         /\ gate' = IF kind = "restart" THEN [gate EXCEPT !.staleRequested = FALSE] ELSE gate
    /\ past' = [past EXCEPT !.changes = @ + 1]
    /\ client' = [client EXCEPT !.pending = FALSE]
    /\ job' = [job EXCEPT !.stop = client.running]
    /\ UNCHANGED <<callbackVars, working, required, hasAudio, analyzed, snapshot, requested,
                   pendingReset, lifecycle, shown>>

\* reconfigureSpectrumTemporal publishes the working frame ...
TemporalChanges ==
    /\ caller.op = "temporal" /\ ~client.running
    /\ snapshot' = working
    /\ past' = [past EXCEPT !.unpublished = FALSE, !.unmarked = Unmarked(working, hasAudio)]
    /\ client' = [client EXCEPT !.pending = TRUE]
    /\ caller' = NoCall
    /\ UNCHANGED <<callbackVars, job, working, required, hasAudio, analyzed, requestVars,
                   lifecycleVars, gate, shown>>

\* ... reconfigureSpectrogramMapping does not
MappingChanges ==
    /\ caller.op = "mapping" /\ ~client.running
    /\ past' = [past EXCEPT !.unpublished = working # snapshot]
    /\ client' = [client EXCEPT !.pending = TRUE]
    /\ caller' = NoCall
    /\ UNCHANGED <<callbackVars, workerVars, requestVars, lifecycleVars, gate, shown>>

\* beginGeneration: nothing measured before it is shown after it.  A format
\* change also discards what is pending, with the callback stopped.
LifecycleBegins ==
    /\ caller.op = "restart" /\ ~client.running
    /\ \/ UNCHANGED pending
       \/ callback.pc = "idle" /\ pending' = {}
    /\ lifecycle' = lifecycle + 1 /\ active' = lifecycle + 1
    /\ working' = ClearedFrame(lifecycle + 1, ballistics.next)
    /\ snapshot' = working'
    /\ required' = [userReset |-> 0, liveClear |-> 0]
    /\ pendingReset' = 0
    /\ stale' = [stale EXCEPT !.pending = FALSE]
    /\ hasAudio' = FALSE
    /\ analyzed' = captureRevision
    /\ gate' = [observed |-> captureRevision, requested |-> captureRevision, staleRequested |-> FALSE]
    /\ past' = [past EXCEPT !.unpublished = FALSE, !.unmarked = FALSE]
    /\ caller' = NoCall
    /\ UNCHANGED <<callback, ballistics, captureRevision, job, requested, client, shown>>

-----------------------------------------------------------------------------
\* copyLatestVisualizationFrame: a frame of another generation is not shown
FrameCopied ==
    /\ active # 0 /\ snapshot.lifecycle = active
    /\ shown' = snapshot
    /\ UNCHANGED <<callbackVars, workerVars, requestVars, lifecycleVars, callVars, client, past>>

CallbackSteps == CallbackEnters \/ BlockPublished \/ BlockCounted

JobSteps == JobStarts \/ JobConsumes \/ JobTakesReset \/ JobStops \/ JobGoesOn
            \/ JobTakesStale \/ JobClearsLevels \/ JobKeepsLevels \/ JobPublishes

CallSteps == TickArms \/ TickRequests \/ ResetPends
             \/ TemporalChanges \/ MappingChanges \/ LifecycleBegins

LevelsNext == CallbackSteps \/ JobSteps \/ TickObserves \/ CallSteps
        \/ ResetRequested \/ ChangeBegins \/ FrameCopied

LevelsSpec == LevelsInit /\ [][LevelsNext]_levelVars

\* The scheduler runs a pending job and a job ends (SharedAnalysisScheduler); a
\* call that holds the mutex and a callback that has begun go on; the display
\* link keeps copying frames and calling requestAnalysis, and a tick finds the
\* next request due and, once audio has stopped, the timeout passed.  Blocks, resets and changes need
\* not happen.
FairSpec ==
    /\ LevelsSpec
    /\ WF_levelVars(JobSteps) /\ WF_levelVars(CallSteps)
    /\ WF_levelVars(BlockPublished \/ BlockCounted)
    /\ WF_levelVars(FrameCopied)
    /\ SF_levelVars(TickObserves /\ caller' # NoCall)
    /\ WF_levelVars(TickObserves)

-----------------------------------------------------------------------------
(* Properties.                                                              *)

\* A reset or a clear the worker has handled is never undone: a published
\* frame shows no hold and no level that began before it, whichever reading
\* arrives late, and none of an earlier lifecycle
ClearedStaysCleared ==
    /\ snapshot.hold # 0 => snapshot.hold >= snapshot.excluded.hold
    /\ snapshot.live # 0 => snapshot.live >= snapshot.excluded.live

\* Each user reset comes to be shown and stays shown: no displayed hold began
\* before it, unless a mapping change left the working frame unpublished
ResetIsShown ==
    <>[](\A e \in 1..requested.userReset :
           shown.hold = 0 \/ shown.hold >= past.resetAt[e] \/ past.unpublished)

\* Once audio has stopped the display shows silence, unless the published frame
\* was not marked as one with audio
SilenceIsShown == <>[](shown.live = 0 \/ past.unmarked \/ past.unpublished)
=============================================================================
