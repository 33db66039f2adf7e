# Verification of Audio Insight

Audio Insight is an audio plug-in that measures what passes through it (levels, loudness, spectrum,
spectrogram, stereo field) and draws the measurements with Metal. The audio callback must never
block, allocate or retry without a bound, so almost every interesting promise of the program is
about lock-free handoffs between threads of different urgency. This directory holds TLA+ models of
those parts, TLC configurations that check them on small instances, and TLAPS proofs.

Paths are relative to the directory that contains `src/`; `analysis/…` stands for
`src/src/analysis/…`, and so do `plugin/…`, `state/…`, `ui/…`.

## 1. Inventory

```
 audio callback                 analysis worker (shared pool)               message thread / display link
 --------------                 -----------------------------               -----------------------------
 PluginProcessor::processBlock
   captureAudioBlock ──┬─ StereoSampleCapture ──> execute() ──┬─ VisualizationSnapshotExchange ──> copyLatest ─┐
                       └─ StereoMeterAccumulator ─>           └─ SpectrogramColumnQueue ─────────> copyNext ───┤
                                                  ▲           <── acknowledgements of boundaries ──────────────┤
                       SharedAnalysisScheduler ───┘ <── requestAnalysis / setVisualizationActive / reconfigure │
                                                                                                               ▼
 host thread ──> PluginProcessor ──> configuration ──> coordinator setters, PluginEditor ──> MetalVisualization
 GPU threads ──> completed and presented handlers ──────────────────────────────────────────────> render slots
```

| Component | State | Operations | Correct when |
|---|---|---|---|
| Shared analysis scheduler (`analysis/SharedAnalysisScheduler`) | ready queue, per client flags, generations and counters, two condition variables, worker threads | `acquire`, `createClient`, `request`, `cancelAndAdvanceGeneration`, `waitUntilIdle`, `cancelAndWait`, worker loop, shutdown | a client's job never runs twice at once, no wakeup is lost, waits return, cancelled work is told to stop |
| Sample capture (`analysis/StereoSampleCapture`) | slots of frames, packed chunk, `bufferedState_`, discontinuity revisions | `publishBlock`, `tryAcquireOldest`, `ReadHandle::release`, acknowledge, `discardPending` | views are never torn, every gap is announced and stamped |
| Meter accumulator (`analysis/StereoMeterAccumulator`) | slots of accumulated readings | `publishBlock`, `consumeLatest`, `discardPending` | no block is lost from or counted twice in a reading without a flag |
| Coordinator (`analysis/AnalysisCoordinator`) | generations of capture, lifecycle and job, boundary phase, awaited boundaries, resets and clears | capture, `execute`, `requestAnalysis`, activation, format, reconfigurations, copies, discard, resets | analysis never spans a gap, the renderer sees a boundary before what follows it, a reset is exact and never undone, silence is shown |
| Snapshot exchange (class in `AnalysisCoordinator.cpp`) | three slots, publication and copied sequence | `publish`, `copyLatest` | a latest-value mailbox |
| Spectrogram column queue (`analysis/SpectrogramColumnQueue`) | 32 slots | `publish`, `copyNext`, two discards | boundary markers survive, no torn copy |
| Loudness (`analysis/LoudnessAnalyzer`, `IntegratedLoudnessIndex`) | hop scheduler, windows, gating blocks, a tree of block energies | process, resets, two-pass gate | every window covers exactly its frames, the gate is the standard's |
| Other analyzers (`SpectrumAnalyzer`, `StereoFieldAnalyzer`, `PeakRmsBallistics`, `SpectrogramColumnMapper`) | floating-point state of one thread | process, reset, reconfigure | numerical |
| Analyzer configuration (`state/AnalyzerConfiguration`) | value type, schema 3 | encode, decode, sanitize | what is saved reopens; every value is valid |
| Plug-in processor and editor (`plugin/`) | configuration behind a mutex, listeners, timer flag, panel copy, utilities | state save/restore, replace configuration, editing, Settings/Metrics/About | coordinator, panel and visualization end with the stored configuration |
| Metal visualization (`ui/MetalVisualization`) | render slots with admission tokens, upload gate, history ring, telemetry epochs, activity | display-link callback, GPU completion, presentation, attach/detach, resets | only uploaded columns are drawn, a late callback touches only its own frame |
| Frame latency and presented-frame histories (`ui/FrameLatencyHistory`, `ui/PresentedFrameHistory`) | per-frame event bits, sorted bounded window | record completion/presentation, classify | each frame yields one sample, each interval is pacing |
| Dashboard layout, edit and store; audio callback metrics; panels | splits, a JSON file, counters, view state | drag, save, count, present | see section 6 |

What is hard here: threads interleave at single atomic accesses; slots are reused while another
thread is deciding to take them; generations, revisions and sequences stand for "the same as before"
and are compared after the fact; a lifecycle change overtakes work in flight; deliveries are
acknowledged late; callbacks of the GPU come in any order; queues overflow. `PROJECT.json` lists these
hazards at the lines where they bite, with the properties that would catch them.

## 2. Modules

| Module | Models | Run | Proofs |
|---|---|---|---|
| `SharedAnalysisScheduler` | the worker pool | `scheduler` | `SharedAnalysisSchedulerProofs` |
| `SampleCapture` | chunks from the audio thread to the worker | `sample_capture` | `SampleCaptureProofs` |
| `ColumnQueue` | columns from the worker to the renderer | `column_queue` | `ColumnQueueProofs` |
| `SnapshotExchange` | frames from the worker to the renderer | `snapshot_exchange` | `HandoffProofs` |
| `LatestMailbox` | what the exchange promises; abstract | (property of `snapshot_exchange`) | (the refinement is a theorem) |
| `CaptureBoundary` | lifecycles and capture boundaries of one coordinator, over abstractions of the parts above | `capture_boundary`, `capture_boundary_discard` | `CaptureBoundaryProofs` |
| `MeterHandoff` | level readings from the audio thread to the worker | `meter_handoff` | `HandoffProofs` |
| `LevelDisplay` | user reset and stale clear from the request to the display | `level_display` | `MeterResetProofs` |
| `LoudnessReset` | the loudness reset from the request to the display | `loudness_reset` | `MeterResetProofs` |
| `LoudnessWindows` | the hops and windows of the loudness, and its resets | `loudness` | `MeterResetProofs` |
| `IntegratedLoudness` | the index of block energies with the two-pass gate | `loudness` | |
| `AnalyzerConfiguration` ⊂ `InstanceConfiguration` ⊂ `EditorSession` | settings and their codec; one instance's configuration on two threads; its editor (each module extends the one before) | `editor_session` | `EditorSessionProofs` |
| `SpectrogramHistory`, `FrameLatency` ⊂ `Renderer` | ring, signature, upload gate; timing and outcome of a frame; the renderer that uses both | `renderer` | `RendererProofs` |

An `MC…` module extends each specification for TLC and holds its model values and scenarios.

**Conventions.** Variables carry the names of the members they stand for; a `…Pc` or `pc` is a control
point of one operation and the record next to it (`claim`, `scan`, `copy`, …) holds its locals. Where
threads meet in atomics, one action is one atomic access another thread can tell apart, together
with the private work that follows; where they meet under a mutex, one action is one critical section.
Variables marked *history* exist for properties only and guard nothing. All models are
sequentially consistent: the acquire/release pairs of the code are taken to do what they are
written for, and reorderings of relaxed accesses are not explored, except where a relaxed access is
a step of its own (the selection keys).

### SharedAnalysisScheduler

One action per critical section under `Impl::mutex`: `RequestAccepted`/`RequestRejected`
(`request`), `CancelAndAdvanceGeneration`, `WaitUntilIdle`, `CancelAndWait` (also from inside the
job), the worker loop (`WorkerSleeps`, `WorkerDiscards`, `WorkerStarts`, `WorkerFinishes`,
`WorkerReleasesTarget`, `WorkerExits`), `Acquire`/`CreateClient`/`DropTarget`/`ReleaseService` for the
owners and three steps of `shutdown()`. The condition variables are wait sets: `notify_one` removes
any one sleeper, spurious wakeups are an action, and a thread that was woken re-evaluates its
predicate later, when the state may have changed again. Boolean members are sets of clients. The
counters of a client are unbounded; `ledger` keeps `submitted - executed - cancelled`. Deadlines are
measured, never acted on, and are left out.

### SampleCapture, ColumnQueue, SnapshotExchange, MeterHandoff

The four lock-free handoffs, split at every access to a slot's state or selection key.

- `SampleCapture`: `publishBlock` at each compare-exchange of `claimSlot` and
  `retireReadyChunksForLifecycleChange`, at the publication of a loss, and between the count and the
  release of a chunk; `tryAcquireOldest` at every state load, every sequence load and its
  compare-exchange. A sample is its position in the captured stream, so a torn or misattributed view
  is a wrong number. The coordinator's use (observing a revision, acknowledging it, restarting a
  lifecycle) is part of the module, in one step each; `CaptureBoundary` has it in detail.
- `ColumnQueue`: `publish`, `copyNext` and the two discards. The discarding thread is the worker
  (or the host thread in its place) or the message thread, between two of its other calls. A column is its
  sequence and the boundary it marks.
- `SnapshotExchange`: `publish` and `copyLatest`. `LatestMailbox` has two actions: a publication takes the next
  number, a delivery yields a number that is published and greater than the one before.
  `Mailbox == INSTANCE LatestMailbox WITH delivered <- lastCopiedSequence` is the refinement mapping.
- `MeterHandoff`: `publishBlock` with its search for the newest ready reading to coalesce into, and
  `consumeLatest` with its two passes over the slots and the loop that joins what they acquired, oldest
  first, one reading per step (`JoinOldest`). The levels of a reading are represented by the blocks it stands for.

### CaptureBoundary

A gap in the captured audio ends one *capture generation* and begins another. `execute()` observes the
revision of the gap, wins the public generation by compare-exchange, publishes a boundary frame and a
boundary marker, waits until the renderer has accepted both, and then recovers with the first audio
from after the gap. The steps of `execute()` are the actions `Job…`; the audio
thread has `BlockAdmits`, `BlockPublishes`, `BlockStores` and `BlockCounts`, the message thread
`Tick` (`requestAnalysis`), `TakeFrame`/`CheckFrame`/`AckFrame`, `TakeMarker`/`CheckMarker`/`AckMarker`
and `Discard`, and the operations under `lifecycleMutex_` the four phases of `change`.
`content` remembers which input the analyzers hold. Abstractions, beyond those of the modules it rests on:

- one audio block is one chunk; storing a meter reading and a chunk is one step, and so are the reclaim of a chunk and the
  announcement of its loss, which `SampleCapture` has apart;
- the sample capture hands out any chunk that is ready, or none when a block has just reclaimed one (the compare-exchange fails);
  a block that loses its own claim to the worker reclaims another chunk, or is dropped when there is none;
- the display-link callback makes its three calls in any order;
- a job's initial check for a gap is the first turn of its loop;
- only boundary markers are in the column queue; ordinary columns are left out, and the queue may refuse a marker `MaxFailures` times;
- resets of levels and loudness and the stale clear are the subject of `LevelDisplay` and `LoudnessReset`; the temporal and mapping reconfigurations do a part of what `Reconfigured` does;
- a generation number discarded by a lost compare-exchange is not counted; `Opens` stores its generations in one step;
- a request is always due (the code spaces requests by time).

### LevelDisplay

`resetPeakRmsHolds`, the stale clear that `requestAnalysis` arms when audio stops, and what both go
through until the display copies a frame without the old marks: the request's epoch, the callback that
applies it at its next block, the worker that hides what a request excludes, the required epochs of the
working frame, and the reconfigurations and restarts that stop a job half way. The callback's ballistics
are the first block a hold and a live level come from. The handoff between callback and worker is
that of `MeterHandoff`, in one step; calls under `lifecycleMutex_` are made one at a time. A job can be stopped wherever
`execute()` asks whether it is: before it reads, between its reading and its exchange of the pending clear, and behind it.
`requestAnalysis` may also return because the last request is too recent. The phases of a capture boundary, in which
both calls return early, are left to `CaptureBoundary`.

### LoudnessReset

`requestLoudnessReset` with one step per shared access (revision odd, position, epoch, revision even),
`tryCopyLoudnessResetRequest` with one step per load and a bounded number of attempts for the two
readers, and the job between: the boundary before the first chunk, inside a chunk, at its end, or the
chunk kept for a later job when the request could not be read. The integrated loudness is the range of
frames it is made of. `beginGeneration` and `suppressUnpublishedLoudnessReset` close the circle to the display.

### IntegratedLoudness, LoudnessWindows

Sequential algorithms over data. `IntegratedLoudness` translates the index (sorted leaves, cached sums,
redistribution over a group of neighbours, splits up to a new root, threshold query by one path) and the
two-pass gate; energies are small integers, so sums are exact and any lost or doubled block shows.
The reference is the two-pass definition over the bag of blocks. `LoudnessWindows` translates the hop
scheduler, whose tenth of a second is not a whole number of frames at most rates, with the edge samples
that correct a window by a frame or two; a frame is its position, and an energy sum the set of
positions in it. `process` is entered (`Process`), takes a frame per step (`TakeFrame`), restarts the integration
where a reset falls inside the chunk (`ResetInsideChunk`; a chunk that starts or breaks the input may bear one too) and is left (`ChunkProcessed`); no other call comes in between,
since one worker makes them all. The properties hold behind every frame.

### AnalyzerConfiguration, InstanceConfiguration, EditorSession

`AnalyzerConfiguration` is the codec as operators: `Sanitize`, `Encode`, `Decode` over all settings;
numbers count in units finer than what is written, so that rounding matters.
`InstanceConfiguration` splits `replaceAnalyzerConfiguration` into the store under its mutex and the
setters and listeners called outside it, for the message thread and a host thread.
`EditorSession` adds the editor: its constructor in three steps, the 30 Hz timer that takes the
flag a listener set on any thread, the settings panel with its own copy, Settings, Metrics and About,
visibility and width, and what each means for rendering.

### Renderer, SpectrogramHistory, FrameLatency

The display-link callback on the message thread is cut where the GPU's callbacks can be seen: the upload gate, the slot, the
commit. The drain of the queue is a loop, and the model takes it turn by turn: `BeginDrain`, a `DrainMarker` or `DrainColumn`
for each item, `PrepareFrame` for what the shader is told, and `CommitFrame`. The GPU runs command buffers in order, each may fail; the completed and the presented handler
of a frame follow in either order and mixed with those of other frames. `texels` is what the textures hold and
`screen` what was last drawn, so "what is on the screen is the spectrogram" is a statement
about data that passed through the ring, the slot's staging copy, the upload and the draw.
The drawable, the command queue and when a callback comes are external to the code. A submission that
cannot be allocated is treated as a frame that is dropped. `Drawn` is the fragment shader where it scrolls
(the overwriting mode and the offset of the head choose other columns of the same ring to draw first); `NextColumn` is what the
coordinator publishes, whose reset epoch is a part of the generation here. Columns the ring rejects for their metadata
and a changed number of rows, which clears like a changed generation, are left out.

## 3. Runs

| Run | Instance | Shows |
|---|---|---|
| `scheduler` | 2 clients, one shared by several threads; 2 workers without generation changes, or 1 worker with them; `Fairness` | one execution per client, stale work stopped, quiet after a wait, no lost wakeup; waiters return, shutdown ends |
| `sample_capture` | 3 slots of 2 frames, 2 handles, 6 chunks, 3 generations | views intact, losses visible, unflagged chunks contiguous |
| `column_queue` | 2 slots, 4 columns, 1 boundary | no torn copy, markers kept, no stable column overtaken |
| `snapshot_exchange` | 3 slots (the code's number), 6 frames | implements `LatestMailbox`, copies the latest |
| `capture_boundary` | 2 slots, 3 blocks, 2 lifecycle changes, 1 refused marker, 1 discard, `FairSpec` | analysis stays on one side of a gap, boundaries are delivered first, capture is not resurrected; episodes end, captured audio is analysed |
| `capture_boundary_discard` | 1 slot, 2 blocks, 1 change, 1 discard | **violation**: a discard can retire the marker it should preserve |
| `meter_handoff` | 2 slots, 5 blocks, 2 formats | newest reading kept, unflagged readings extend, overtaking only during the scan |
| `level_display` | 2 blocks, 1 reset, 1 change of any kind, `FairSpec` | what was cleared stays cleared; a reset and silence come to be shown |
| `loudness` | leaves of 2, nodes of 4, groups of 2, 14 blocks of 4 energies; rates 21 and 24, windows of 4 and 6 hops, 26 frames in chunks of 1 or 5 | the gate is the two-pass definition, only capacity overflows; windows are exact, the programme starts at its reset |
| `loudness_reset` | chunks of 2 frames, queue of 1, 2 attempts, 4 frames, 2 requests and 1 lifecycle or 1 and 2 | a reset is never undone and exact |
| `editor_session` | 5 edits, 2 foreign projects, 2 replacements | the settled editor agrees, the coordinator follows, saved projects reopen, About leaves the dashboard's lifecycle alone |
| `renderer` | 2 slots, rings of 2 and 3 columns, up to 3 frames; five scenarios | the drawn history is true, uploads are kept, outcomes and timings counted once, intervals are pacing |

**Bounds.** The `Max…` constants bound what is unbounded in the code: chunks, columns, frames,
blocks, generations, lifecycle changes. Slot counts are the smallest that exhibit every path: two
slots suffice for a scan that is overtaken and a slot that is reused; three for a choice between two ready
slots while one is written. Overflow needs more publications than slots, a second episode needs
two more, hence 6 chunks; a boundary needs a loss (3 blocks over 2 slots) and a change to interrupt
it after the activation, hence 2 changes. In `loudness` the shape of the tree is the code's with every
capacity at its minimum: 14 blocks fill leaves, redistribute, split leaves and nodes and grow a new root, and
exceed the capacity of 13; at 21 and 24 frames per second a tenth alternates between two
lengths. In `loudness_reset` two attempts meet a writer once and fail once; a chunk of two frames has an inside. The
models have no counter that wraps: sequences and generations are 64-bit in the code and are taken as
natural numbers.

**Scenarios.** Where the product of all possibilities is too large, a behaviour chooses its scenario at the
start, and the run covers the union: `pool` in `MCSharedAnalysisScheduler` (two workers contend for one
client, or one worker meets a generation that advances; neither restriction removes a step that fairness
obliges), `half` in `MCLoudness` (the two halves share no state), `Budgets` in `MCRenderer` (a ring that wraps;
uploads that follow each other; changes of activity, duration and telemetry; callbacks in every order with
histories of one and two samples), `Budget` in `MCLoudnessReset` (requests and lifecycles together).

**Deadlock.** Every operation's caller may stop when the bounds are used up, so configurations whose
specification can come to rest say `CHECK_DEADLOCK FALSE`. That nobody is stuck is what the liveness properties and
`NoLostWakeup` say instead.

**Fairness.** A thread inside an operation of bounded length goes on with it; workers that can run
do; a caller that has left a condition variable re-checks; `execute()` returns; the display link
keeps polling. No fairness is given to the calls of users and hosts (cancellations, lifecycle changes, resets,
discards), to the arrival of audio, to publications, or to requests in the scheduler's model. Weak fairness is
enough with one exception: in `LevelDisplay` the display link's `requestAnalysis` is strongly fair
for the case that it gets past its early returns, since it must find `lifecycleMutex_` free between other calls, and the next request
due, again and again. It stands for an operating system that runs every runnable thread, and a mutex that
does not exclude the same caller forever. In `CaptureBoundary` the polling includes `requestAnalysis`, which
the display link calls on every frame while the view is active.

**Mutants.** Each property comes with a plausible bug in the code that breaks it. They are
definitions in the modules placed before the definition they would replace (`NeverFollowsUp` before
`FollowsUp`, `OnePass` before `TwoPasses`, …) and used nowhere else.

## 4. Where code, documentation and expectation disagree

The first is checked as a run that ends in a violation; the others were met while modelling and are
built into the models and properties as they are.

1. `VisualizationDataSource.h:53` promises that an undelivered boundary marker is preserved by a discard. The
   discard (`analysis/AnalysisCoordinator.cpp:545`) reads the awaited generation first and discards after, so a
   marker published in between by the worker is retired (`UndeliveredMarkerKept`), and analysis then waits for its
   delivery until the next lifecycle change. `EpisodeEnds` and `CapturedIsAnalysed` hold but for this
   case, and say so (`seen.lost`).
2. `StereoSampleCapture.h:135` speaks of the oldest ready chunk. The scan of `tryAcquireOldest` (`.cpp:304`)
   visits each slot once and its compare-exchange checks the state only, so a chunk that becomes ready behind
   the scan, or a slot reused before the compare-exchange, is overtaken. The analyzers are not misled:
   `UnflaggedIsContiguous` holds, the overtaking is flagged as a discontinuity.
3. `VisualizationDataSource.h:39` speaks of the oldest column. `copyNext` (`SpectrogramColumnQueue.cpp:42`)
   validates the sequence of the slot it has claimed, which excludes reuse, but not a column that became ready
   behind its scan. What does hold is `NoStableColumnOvertaken`; the history ring later refuses the column that was overtaken
   (`ui/MetalVisualization.mm:1240`).
4. `setSpectrogramFrequencySpacing` may stop a job after it has consumed a user's reset or the stale clear, and
   `reconfigureSpectrogramMapping` does not publish the working frame: held levels and OVER stay on the screen until
   the next analysis. `ResetIsShown` and `SilenceIsShown` excuse it (`history.unpublished`).
5. A job stopped by a temporal reconfiguration after its first reading, but before `hasPublishedAudioFrame` is
   set, leaves live levels that the reconfiguration publishes, for which no stale clear is ever due
   (`history.unmarked` in `SilenceIsShown`).
6. Two replacements of the configuration on two threads may leave the coordinator with the older one until
   the next replacement: its setters are called outside the mutex that orders the stored value
   (`plugin/PluginProcessor.cpp:245`). `CoordinatorFollows` says how old it can be: each part the coordinator has is that of the
   latest replacement or of one that overlapped it, never that of one that had ended before.
7. An edit made while a restored project is announced but not yet taken by the timer overwrites the
   restored settings with the panel's older copy; and the editor's constructor reads the panel's configuration
   (`plugin/PluginEditor.cpp:283`) before it listens (`:369`), so a project restored in between leaves the panel, not the
   visualization, behind until Settings opens. `SettledEditorAgrees` is about what is shown when nothing is announced.

## 5. Proofs

TLC checks small instances; the theorems below hold for every value of the constants that the
modules' assumptions admit: any number of slots, chunks,
columns, publications, blocks, requests, retry attempts, frames, clients and workers, any sample rates and hop counts,
any saved projects and any edits. `Spec` is `HandoffSpec` in `MeterHandoff`, `LevelsSpec` in `LevelDisplay` and
`WindowsSpec` in `LoudnessWindows`.

| Theorem | Says that every behaviour of `Spec` satisfies |
|---|---|
| `SharedAnalysisSchedulerProofs`: `TypeCorrect`, `QueueConsistent`, `Accounting` | `TypeOK`, `QueueMatchesFlags`, `RequestsAccountedFor` |
| `OneExecution`, `StaleStopped`, `Quiet`, `WakeupsDelivered`, `ClosedStaysClosed` | `OneExecutionPerClient`, `StaleWorkStopped`, `QuietAfterWait`, `NoLostWakeup`, `ClosedForGood` |
| `HandoffProofs`: `ImplementsMailbox`, `CopyMissesNothing` | the refinement `IsLatestMailbox`, `CopiesLatest` |
| `NewestStaysKept`, `UnflaggedReadingsExtend`, `OvertakenReadingsFlagged` | `NewestKept`, `UnflaggedExtends`, `OvertakenOnlyInScan` |
| `ColumnQueueProofs`: `CopiesWhole`, `KeepsMarkers`, `OvertakesNoStableColumn` | `NoTornCopy`, `MarkerKept`, `NoStableColumnOvertaken` |
| `SampleCaptureProofs`: `ViewsStayIntact`, `LossesStayVisible`, `UnflaggedChunksContiguous` | `ViewsIntact`, `LossVisible`, `UnflaggedIsContiguous` |
| `MeterResetProofs`: `ResetNeverUndone`, `ResetExact` | `ResetIsNeverUndone`, `ResetIsExact` |
| `ClearedLevelsStayCleared` | `ClearedStaysCleared` |
| `LiveWindowsAreExact`, `ProgrammeStartsAtLastReset` | `LiveWindowsExact`, `ProgrammeStartsAtReset` |
| `EditorSessionProofs`: `SettledAgrees`, `CoordinatorAgrees`, `ProjectReopens`, `AboutKeeps` | `SettledEditorAgrees`, `CoordinatorFollows`, `SavedProjectReopens`, `AboutKeepsLifecycle` |
| `RendererProofs`: `ShownHistory`, `UploadsKeepHistory` | `ShownHistoryIsTrue`, `SuccessfulUploadIsKept` |
| `OutcomesCounted`, `TimingOnce`, `PacingIntervals` | `OutcomesCountedOnce`, `TimingPublishedOnce`, `IntervalsArePacing` |
| `CaptureBoundaryProofs`: `SidesNeverMeet`, `BoundaryBeforeRecovery`, `ChangeIsNotUndone` | `OneSideOfGap`, `RecoveryAfterDelivery`, `CaptureNotResurrected` |

For each specification one inductive invariant is proved (`IInv`; `HandoffInv`, `LevelsInv` and `WindowsInv` where a module of
proofs is about several: initially true, kept by each action) and the theorems are projected from it; properties of steps follow
from it and one action. The assumptions are those of the specification modules (`SchedulerAssumption`,
`ChunkShape` and so on); the runs evaluate them. `LoudnessWindows` assumes of the code's constants only that a tenth of a
second has a frame (its least rate is 3364), that a momentary window has two hops (4) and is shorter than a
short-term one (30), and that a hop keeps an edge sample (2).

**Scheduler.** `IInv` is the conjunction of the state properties and two facts about
the threads: `JobShape` (a worker holds a job exactly while it executes one or releases its target) and
`CallersRetainService` (a thread inside a blocking call retains the service, and only such a thread sleeps
on `idleCondition`). The properties need each other: `WorkerStarts` preserves "at most one execution"
because a queued client is not running, which is `QueueMatchesFlags`; `WorkerFinishes` may
append the client because it has no entry yet; the ledger counts one for a queued client only because
the queue agrees with the flag; a sleeping caller is busy only because whoever makes a client idle
also empties `idleWaiters`.

**Snapshot exchange.** Each slot has at most one owner, the sequence in a ready slot has been published
and the renderer's last copy is behind it. `CopiesLatest` needs more, because slots the second
pass has visited may have been reused: `DueIsReachable` says where the newest frame due to the copy still is,
in the slot chosen so far, in one the pass has yet to visit, or overwritten by a newer publication.

**Meter handoff.** A reading is `Accounted` for if it spans as many blocks as it says. `NothingLeftBehind`: whatever is still in a slot,
or in the consumer's hands, was released after the scans that last returned something began. `ScansEmpty`: a slot that
the scan has passed holds nothing from before the scan. `JoinedInOrder`: what has been joined is not newer than what is to be
joined. So a scan acquires every reading released before it began, and a reading that was overtaken was released
after the scans that returned the newer one began; it does not follow the reading returned before it and is flagged
(`ReturnsRemembered`). `NewestKept` is a part of the invariant: the joined reading ends where the newest
acquired one does, and what the callback is about to release, whether alone or with a reading it has coalesced,
ends behind everything released so far (`NewestMeasured`).

**Column queue.** `WriterOwns`, `ReaderOwns` and `DiscarderOwns` say who may touch a slot; `ReclaimsOrdinary` and
`KeptIsSpared` carry `MarkerKept` through the two-step decisions (a marker seen in a scan is still there when the slot is
claimed, or belongs to someone who puts it back); `StableAhead` and `StableLarger` say of a column that
was ready during the whole scan so far that it is either still to be visited or not older than the candidate.

**Sample capture.** `Ownership` (who holds a slot), `Contents` (what an unreleased slot holds is what its header says), `Revisions` (the
producer's, the published, the observed and the acknowledged revision are in order, within and across lifecycles) and
`Continuity` (from any chunk the worker can still take, the frames back to the previous one are accounted for or the mark is set).
`ViewsIntact` follows from the first two, `LossVisible` from the third, and `UnflaggedIsContiguous` needs all of
them: the chunk acquired is published whole, stamped no later than the loss that made room for it, and every chunk skipped on the way breaks the sequence.

**Loudness reset.** `Requested` ties the revision to the committed epochs and says that boundaries grow and
never lie ahead of the capture. `Order` says that chunks follow each other and that none still to come begins before what was
analysed or before the applied boundary. `Unmissed` says that the analyzer is never past a boundary it has not applied.
`LooksCoherent` is the seqlock argument: fields loaded under an even revision belong to the epoch of that
revision if it is still unchanged, and the chunk in the worker's hands is not past any later boundary, since
it was captured before the message thread read its position. From these `Restarted` (the
integration starts at the applied boundary) is kept by each of the three ways to apply one, and `FramesTrue` carries it to the display.

**Level display.** The worker remembers, in what it excludes, the first block after the latest clear of the holds and of the live levels.
`MeasuredMasked` is the argument: a reading of the lifecycle on display whose epochs satisfy what the worker requires has marks
that began behind what is excluded, so a reading that may be shown cannot bring back what was cleared. It rests on
`ResetsFollowed` (a reading that has applied a reset has no hold from before it, and none has applied more resets
than were asked for), `ResetsDated` (no clear lies in blocks still to be measured) and `LifecyclesBegun` (no reading
comes from a lifecycle that has not begun). `FramesClear` carries it to the working frame and the snapshot.

**Loudness windows.** The lemmas are about boundaries: the `n`th boundary is the `n`th tenth of a second rounded, so boundaries grow by a
frame at least, and `c` consecutive hops are as long as `c` tenths from the start, or a frame more or less
(`HopsAddUp`). So a window needs one edge sample at most, and the hop it takes it from is in the ring: the first
window of all, which has no hop before it, has exactly its length (`WindowExact`). `TrackHolds` says of either
half what the scheduler, the partial hop and the ring are at a frame; `TrackAdvances` that the next frame keeps it.
`IntegrationHolds` adds that the blocks so far leave no frame out, which needs that a block is longer than a hop (`BlocksOverlap`).

**Capture boundary.** `Lifecycles` is the order of a change: it takes the generation away first, then cancels and waits, so that
a job past its admission works for the generation still current and none runs while the new one opens; `ChangeIsNotUndone` is a
part of it. `Producing` and `Stamped` say that every sample, buffered or in somebody's hands, bears a lifecycle and a revision
that have been announced, in order. `Sides` is the argument for `OneSideOfGap`: while an episode lasts the revision applied is the
latest announced (a further loss is not counted before the acknowledgement), between episodes it is the acknowledged one, and what the
analysers hold bears exactly that stamp. `Delivery` follows each marker and boundary frame from the worker through the exchange
and the renderer's two-step acceptance: a boundary nobody awaits any more has been accepted, or belongs to a generation that is
`Past`, which a late acknowledgement cannot confuse with the current one because generations are never reused.

**Configuration and editor.** The lemmas about the codec come first. `Sanitary` is the set of what `Sanitize` returns, setting by setting:
each value is one its setting allows and both displays span the minimum. Such a configuration is a fixed point of
`Sanitize`, decoding returns one whatever the tree says, and decoding what was encoded rounds each number to the last digit
that is written; rounding again changes nothing, which gives `SavedProjectReopens`. The same set is why the coordinator's setters cannot
refuse (`AnalysisSupported`, `TemporalSupported`, `SpacingSupported`), so `Following` can say that each part the coordinator has
belongs to a recent replacement, the latest or one still handing over its parts when the latest was stored, or that some call has still to hand
over that part. `Announced` is the argument for `SettledEditorAgrees`: a setting that the visualization does not show yet is on its way
in a call that has still to notify, or flagged, or being read by the timer. An edit renders for itself
and yet needs `EditFlagged` (it has flagged its own change before it ends): otherwise a restoration on the host's thread
between its notification and its rendering would be lost. Two assumptions describe the data: a number in a saved project has a value
(`ProjectsAssumption`), and a control edits one setting with a value of its type (`EditsAssumption`).

**Renderer.** Every step is described once by its effect on the frames, the slots, the ring and the telemetry (`StepEffect`), and most
parts of the invariant are kept because every effect keeps them. `TypeInv` has the types, `SlotsHeld` (the slots of two frames
at work differ, and their admission is still the frame's) and what the queue and the epochs say of a frame. `GateFollows` and `UploadsBelong` follow the
upload: one is in flight at a time, its frame is the one the message thread recorded, and the answer in the gate is that frame's;
`SuccessfulUploadIsKept` is a consequence. `HistoryTrue` is the argument for `ShownHistoryIsTrue`. `ColumnsTrue` says of each column that the ring calls
valid where its texel is to be found: in the rows of the frame being built, in those of the upload in flight (promised
only if that upload succeeds) or in the texture, and in each of them at its own distance from the newest
(`At`, `Placed`). `FramesTrue` says of each committed frame that what it will draw is such a history once its own uploads are done, and `Undisturbed` that no frame
queued before it still writes a column it draws; columns of an upload in flight are masked out of the slot (`PreparedFrame`), which is
why the latter is kept. The telemetry needs less: a frame's outcome moves from unknown to skipped or
presented, or from skipped to presented, and the counts follow it; `TimingEvents` says which of the two handlers has still to publish the timing; `LatencyKept` and
`ShownKept` say that the bounded histories hold the newest of what was recorded.

Lemmas come first about the data (what a queue, a ring or an epoch becomes under an operation that several
actions share), then one lemma per group of actions and part of the invariant, then `NextIInv`.

Only model-checked:

- all liveness properties (liveness under fairness is out of the prover's reach);
- `IntegratedLoudness` (`GateIsTwoPass`, `OnlyCapacityOverflows`): a recursive tree, whose correctness is induction over data.

## 6. Not modelled

- **Stereo field, spectrum, ballistics, column mapping**: floating-point signal processing of one thread
  (filters, FFT, smoothing, bins to rows). TLC has no floating point and their correctness is numerical;
  the repository's tests compare them with references. What of them takes part in a protocol is in the
  modules above (which configurations are accepted, what a hold is made of, what restarts an integration).
- **Audio callback metrics** and the **performance metrics** model and panel: relaxed counters nothing acts on, their
  aggregation and formatting. The timing of requests in the coordinator is telemetry in the same sense.
- **Dashboard layout, its edit and its store**: tile geometry and one drag on one thread; the store holds a cross-process
  lock from its read to the rename of a complete temporary file, and a save that times out changes nothing.
- **Settings panel and editor** as drawing: placement, painting, labels. What an edit publishes, and what the utilities do
  to rendering, is in `EditorSession`.
- **Metal visualization** as drawing: geometry, shaders, text, interpolation.
- Bus layouts, parameters other than the metrics switch, host metadata, AppKit hooks, build and documentation.
