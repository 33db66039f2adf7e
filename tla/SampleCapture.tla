---------------------------- MODULE SampleCapture ----------------------------
(***************************************************************************)
(* The lock-free handoff of captured audio from the audio thread to the      *)
(* analysis worker (src/src/analysis/StereoSampleCapture.{h,cpp}): a fixed   *)
(* pool of slots, one producer that packs blocks into slots and reclaims the *)
(* oldest unread one when the pool is full, one consumer that takes the      *)
(* oldest ready slot and may hold several read handles.                      *)
(*                                                                         *)
(* An action ends where the code performs an atomic access the other thread  *)
(* can observe: every compare-exchange and store of a slot's state, every    *)
(* store of publishedSequence, every update of bufferedState_ that is not    *)
(* next to one the other side cannot tell from it.  Plain accesses to a slot *)
(* the thread owns are part of the action before or after.                   *)
(*                                                                         *)
(* A frame of audio is the number capturedFrameCursor_ gave it.  Sample      *)
(* rate and channel count, constant within a lifecycle, and the telemetry    *)
(* counters that nothing reads back are left out.                            *)
(***************************************************************************)
EXTENDS Integers, FiniteSets

CONSTANTS
    SlotCount,      \* slotCount
    FramesPerSlot,  \* framesPerSlot
    MaxHandles,     \* bound: read handles the consumer keeps alive
    MaxSequence,    \* bound: chunks attempted
    MaxGeneration   \* bound: capture generations allocated

ASSUME CaptureAssumption ==
    /\ SlotCount \in Nat \ {0}
    /\ FramesPerSlot \in Nat \ {0}
    /\ MaxHandles \in Nat
    /\ MaxSequence \in Nat
    /\ MaxGeneration \in Nat \ {0}

VARIABLES
    slotState,          \* Slot::state
    publishedSequence,  \* Slot::publishedSequence
    header,             \* the non-atomic fields of the slots
    payload,            \* the frames in the slots' left and right arrays
    buffered,           \* the three counts packed in bufferedState_
    nextSequence,       \* nextSequence_
    frameCursor,        \* capturedFrameCursor_
    producerLifecycle,  \* producerCaptureLifecycleGeneration_
    revision,           \* captureDiscontinuityRevision_
    nextClaimIndex,     \* nextClaimIndex_
    packedSlot,         \* packedSlotIndex_, SlotCount when there is none
    packedFrames,       \* packedFrameCount_
    publishedRevision,  \* publishedCaptureDiscontinuityRevision_
    publishedLifecycle, \* publishedCaptureDiscontinuityLifecycleGeneration_
    acknowledged,       \* acknowledgedCaptureDiscontinuityRevision_
    producerPc,         \* control point of publishBlock()
    block,              \* its arguments; frames are those not yet captured
    claim,              \* the locals of claimSlot() and of the retire loop
    consumerPc,         \* control point of tryAcquireOldest()
    scan,               \* its locals
    previous,           \* consumerPrevious*_ (sequence 0: none), and of the
                        \* same chunk, as history, its lifecycle and last frame
    held,               \* the views of the live read handles
    observed,           \* the revision the consumer handles at the moment
    admitted,           \* the generations the coordinator admits blocks under
    openLoss            \* history: a loss no acknowledgement has followed

slotVars     == <<slotState, publishedSequence, header, payload>>
packVars     == <<packedSlot, packedFrames>>
revisionVars == <<revision, publishedRevision, publishedLifecycle, openLoss>>
producerVars == <<nextSequence, frameCursor, producerLifecycle, nextClaimIndex>>
localVars    == <<producerPc, block, claim>>
consumerVars == <<consumerPc, scan, previous, held>>
outerVars    == <<observed, acknowledged, admitted>>
vars == <<slotVars, buffered, packVars, revisionVars, producerVars, localVars,
          consumerVars, outerVars>>

Slots == 0..(SlotCount - 1)
None == SlotCount   \* the index the code uses for no slot

States == {"free", "writing", "ready", "reading"}

Headers == [frameCount : 0..FramesPerSlot, generation : Nat, sequence : Nat,
            frameEnd : Nat, revision : Nat, lifecycle : Nat]

Views == [slot : Slots, frameCount : 0..FramesPerSlot, generation : Nat,
          sequence : Nat, frameEnd : Nat, revision : Nat, lifecycle : Nat,
          followsDiscontinuity : BOOLEAN]

\* The types of the state; every count and index stays in its range
TypeOK ==
    /\ slotState \in [Slots -> States]
    /\ publishedSequence \in [Slots -> Nat]
    /\ header \in [Slots -> Headers]
    /\ payload \in [Slots -> [1..FramesPerSlot -> Nat]]
    /\ buffered \in [partial : 0..FramesPerSlot, frames : Nat, slots : Nat]
    /\ nextSequence \in Nat \ {0}
    /\ frameCursor \in Nat
    /\ producerLifecycle \in Nat
    /\ revision \in Nat
    /\ nextClaimIndex \in Slots
    /\ packedSlot \in Slots \cup {None}
    /\ packedFrames \in 0..FramesPerSlot
    /\ publishedRevision \in Nat
    /\ publishedLifecycle \in Nat
    /\ acknowledged \in Nat
    /\ producerPc \in {"idle", "retire", "retired", "announce", "packing",
                       "claim", "reclaim", "reclaimed", "finalize", "release"}
    /\ block \in [frames : 0..FramesPerSlot, generation : Nat, lifecycle : Nat]
    /\ claim \in [index : 0..SlotCount, oldest : 0..SlotCount]
    /\ consumerPc \in {"idle", "scan", "load", "taken"}
    /\ scan \in [index : 0..SlotCount, oldest : 0..SlotCount, sequence : Nat]
    /\ previous \in [sequence : Nat, generation : Nat, lifecycle : Nat, frameEnd : Nat]
    /\ held \subseteq Views
    /\ observed \in Nat
    /\ admitted \in [generation : Nat, lifecycle : Nat]
    /\ openLoss \in BOOLEAN

EmptyHeader == [frameCount |-> 0, generation |-> 0, sequence |-> 0,
                frameEnd |-> 0, revision |-> 0, lifecycle |-> 0]
NoPrevious == [sequence |-> 0, generation |-> 0, lifecycle |-> 0, frameEnd |-> 0]
FreshClaim == [index |-> 0, oldest |-> None]
FreshScan == [index |-> 0, oldest |-> None, sequence |-> 0]

\* A new capture, the first generation of the coordinator admitted
Init ==
    /\ slotState = [s \in Slots |-> "free"]
    /\ publishedSequence = [s \in Slots |-> 0]
    /\ header = [s \in Slots |-> EmptyHeader]
    /\ payload = [s \in Slots |-> [i \in 1..FramesPerSlot |-> 0]]
    /\ buffered = [partial |-> 0, frames |-> 0, slots |-> 0]
    /\ nextSequence = 1
    /\ frameCursor = 0
    /\ producerLifecycle = 0
    /\ revision = 0
    /\ nextClaimIndex = 0
    /\ packedSlot = None
    /\ packedFrames = 0
    /\ publishedRevision = 0
    /\ publishedLifecycle = 0
    /\ acknowledged = 0
    /\ producerPc = "idle"
    /\ block = [frames |-> 0, generation |-> 0, lifecycle |-> 0]
    /\ claim = FreshClaim
    /\ consumerPc = "idle"
    /\ scan = FreshScan
    /\ previous = NoPrevious
    /\ held = {}
    /\ observed = 0
    /\ admitted = [generation |-> 1, lifecycle |-> 1]
    /\ openLoss = FALSE

-----------------------------------------------------------------------------
(***************************************************************************)
(* Helpers.                                                                *)
(***************************************************************************)
\* slotCount indices are visited in ring order from nextClaimIndex_
RingSlot(offset) == (nextClaimIndex + offset) % SlotCount

\* abandonPackedChunk: the partial frames are no longer counted
AbandonedCount == [buffered EXCEPT !.partial = @ - packedFrames]

\* addReadyFrames: the partial chunk's frames become one ready slot's
AddReadyFrames(n) == [partial |-> buffered.partial - n,
                      frames |-> buffered.frames + n,
                      slots |-> buffered.slots + 1]
RemoveReadyFrames(n) == [buffered EXCEPT !.frames = @ - n, !.slots = @ - 1]

\* beginCaptureDiscontinuity starts an episode or continues the open one
OnlyFirstEpisode == revision = 0
StartsEpisode == revision = 0 \/ revision = acknowledged
RevisionAfterLoss == IF StartsEpisode THEN nextSequence - 1 ELSE revision

BeginCaptureDiscontinuity ==
    /\ revision' = RevisionAfterLoss
    /\ publishedRevision' = RevisionAfterLoss
    /\ openLoss' = TRUE
    /\ UNCHANGED publishedLifecycle

\* The header beginPackedChunk writes into the slot it has claimed
StampedHeader(stamp) ==
    [frameCount |-> 0, generation |-> block.generation,
     sequence |-> nextSequence - 1, frameEnd |-> frameCursor,
     revision |-> stamp, lifecycle |-> block.lifecycle]

Stamp(s, stamp) ==
    /\ header' = [header EXCEPT ![s] = StampedHeader(stamp)]
    /\ packedSlot' = s
    /\ packedFrames' = 0
    /\ nextClaimIndex' = (s + 1) % SlotCount
    /\ producerPc' = "packing"
    /\ claim' = FreshClaim

-----------------------------------------------------------------------------
(***************************************************************************)
(* The producer: publishBlock() on the audio thread.                         *)
(***************************************************************************)
\* A block arrives, with the generations captureAudioBlock() has just loaded
PublishBlock(n) ==
    /\ producerPc = "idle"
    /\ nextSequence < MaxSequence   \* a block attempts at most two chunks
    /\ block' = [frames |-> n, generation |-> admitted.generation,
                 lifecycle |-> admitted.lifecycle]
    /\ IF producerLifecycle = admitted.lifecycle
       THEN /\ producerPc' = "packing"
            /\ UNCHANGED <<slotState, buffered, packVars>>
       ELSE /\ producerPc' = "retire"
            /\ packedSlot' = None
            /\ packedFrames' = 0
            /\ slotState' = [s \in Slots |-> IF s = packedSlot THEN "free" ELSE slotState[s]]
            /\ buffered' = AbandonedCount
    /\ UNCHANGED <<publishedSequence, header, payload, revisionVars, producerVars,
                   claim, consumerVars, outerVars>>

\* retireReadyChunksForLifecycleChange: one compare-exchange per slot
RetirePassesOver ==
    /\ producerPc = "retire"
    /\ claim.index < SlotCount
    /\ slotState[claim.index] # "ready"
    /\ claim' = [claim EXCEPT !.index = @ + 1]
    /\ UNCHANGED <<slotVars, buffered, packVars, revisionVars, producerVars,
                   producerPc, block, consumerVars, outerVars>>

RetireReady ==
    /\ producerPc = "retire"
    /\ claim.index < SlotCount
    /\ slotState[claim.index] = "ready"
    /\ slotState' = [slotState EXCEPT ![claim.index] = "free"]
    /\ producerPc' = "retired"
    /\ UNCHANGED <<publishedSequence, header, payload, buffered, packVars, revisionVars,
                   producerVars, block, claim, consumerVars, outerVars>>

RetireCounts ==
    /\ producerPc = "retired"
    /\ buffered' = RemoveReadyFrames(header[claim.index].frameCount)
    /\ claim' = [claim EXCEPT !.index = @ + 1]
    /\ producerPc' = "retire"
    /\ UNCHANGED <<slotVars, packVars, revisionVars, producerVars, block,
                   consumerVars, outerVars>>

\* The loop is over: the new lifecycle starts without a revision ...
EnterLifecycle ==
    /\ producerPc = "retire"
    /\ claim.index = SlotCount
    /\ nextClaimIndex' = 0
    /\ producerLifecycle' = block.lifecycle
    /\ revision' = 0
    /\ publishedRevision' = 0
    /\ openLoss' = FALSE
    /\ producerPc' = "announce"
    /\ claim' = FreshClaim
    /\ UNCHANGED <<slotVars, buffered, packVars, publishedLifecycle, nextSequence,
                   frameCursor, block, consumerVars, outerVars>>

\* ... and is announced after the revision has been cleared
AnnounceLifecycle ==
    /\ producerPc = "announce"
    /\ publishedLifecycle' = block.lifecycle
    /\ producerPc' = "packing"
    /\ UNCHANGED <<slotVars, buffered, packVars, revision, publishedRevision, openLoss,
                   producerVars, block, claim, consumerVars, outerVars>>

\* beginPackedChunk: every attempt takes a sequence, also one that will drop
BeginPackedChunk ==
    /\ producerPc = "packing"
    /\ packedSlot = None
    /\ nextSequence' = nextSequence + 1
    /\ producerPc' = "claim"
    /\ claim' = FreshClaim
    /\ UNCHANGED <<slotVars, buffered, packVars, revisionVars, frameCursor,
                   producerLifecycle, nextClaimIndex, block, consumerVars, outerVars>>

\* claimSlot: the compare-exchange on the next slot of the ring succeeds
ClaimFree ==
    /\ producerPc = "claim"
    /\ claim.index < SlotCount
    /\ LET s == RingSlot(claim.index) IN
       /\ slotState[s] = "free"
       /\ slotState' = [slotState EXCEPT ![s] = "writing"]
       /\ Stamp(s, revision)
    /\ UNCHANGED <<publishedSequence, payload, buffered, revisionVars, nextSequence,
                   frameCursor, producerLifecycle, block, consumerVars, outerVars>>

\* It fails: a ready slot is remembered when it is older than those before
OldestReadySoFar(s) ==
    slotState[s] = "ready"
    /\ (claim.oldest = None \/ publishedSequence[s] < publishedSequence[claim.oldest])

ClaimPassesOver ==
    /\ producerPc = "claim"
    /\ claim.index < SlotCount
    /\ LET s == RingSlot(claim.index) IN
       /\ slotState[s] # "free"
       /\ claim' = [index |-> claim.index + 1,
                    oldest |-> IF OldestReadySoFar(s) THEN s ELSE claim.oldest]
    /\ producerPc' = IF claim.index + 1 = SlotCount THEN "reclaim" ELSE "claim"
    /\ UNCHANGED <<slotVars, buffered, packVars, revisionVars, producerVars, block,
                   consumerVars, outerVars>>

ReclaimTaken == claim.oldest # None /\ slotState[claim.oldest] \in {"ready", "reading"}
Reclaimable == claim.oldest # None /\ slotState[claim.oldest] = "ready"

ReclaimOldest ==
    /\ producerPc = "reclaim"
    /\ Reclaimable
    /\ slotState' = [slotState EXCEPT ![claim.oldest] = "writing"]
    /\ producerPc' = "reclaimed"
    /\ UNCHANGED <<publishedSequence, header, payload, buffered, packVars, revisionVars,
                   producerVars, block, claim, consumerVars, outerVars>>

\* The rest of beginPackedChunk after a reclaim: the loss is published before
\* the chunk that follows it is stamped
StampOfReclaimed == RevisionAfterLoss

StampAfterReclaim ==
    /\ producerPc = "reclaimed"
    /\ buffered' = RemoveReadyFrames(header[claim.oldest].frameCount)
    /\ BeginCaptureDiscontinuity
    /\ Stamp(claim.oldest, StampOfReclaimed)
    /\ UNCHANGED <<slotState, publishedSequence, payload, nextSequence, frameCursor,
                   producerLifecycle, block, consumerVars, outerVars>>

\* No slot, or the consumer won the race for it: what is left of the block,
\* which never exceeds one slot, is dropped
DropIncoming ==
    /\ producerPc = "reclaim"
    /\ ~Reclaimable
    /\ BeginCaptureDiscontinuity
    /\ frameCursor' = frameCursor + block.frames
    /\ block' = [block EXCEPT !.frames = 0]
    /\ claim' = FreshClaim
    /\ producerPc' = "idle"
    /\ UNCHANGED <<slotVars, buffered, packVars, nextSequence, producerLifecycle,
                   nextClaimIndex, consumerVars, outerVars>>

\* The copy loop: the frames that still fit into the packed chunk
PackFrames ==
    /\ producerPc = "packing"
    /\ packedSlot # None
    /\ LET room == FramesPerSlot - packedFrames
           copied == IF room < block.frames THEN room ELSE block.frames
       IN /\ payload' = [payload EXCEPT ![packedSlot] =
                [i \in 1..FramesPerSlot |->
                    IF i > packedFrames /\ i <= packedFrames + copied
                    THEN frameCursor + i - packedFrames ELSE @[i]]]
          /\ packedFrames' = packedFrames + copied
          /\ frameCursor' = frameCursor + copied
          /\ buffered' = [buffered EXCEPT !.partial = @ + copied]
          /\ block' = [block EXCEPT !.frames = @ - copied]
    /\ producerPc' = IF packedFrames' = FramesPerSlot THEN "finalize" ELSE "idle"
    /\ UNCHANGED <<slotState, publishedSequence, header, packedSlot, revisionVars,
                   nextSequence, producerLifecycle, nextClaimIndex, claim, consumerVars,
                   outerVars>>

\* finalizePackedChunk: the selection key and the counts first ...
CountedBeforeReady == AddReadyFrames(packedFrames)

FinalizePackedChunk ==
    /\ producerPc = "finalize"
    /\ header' = [header EXCEPT ![packedSlot].frameCount = packedFrames,
                                ![packedSlot].frameEnd = frameCursor]
    /\ publishedSequence' = [publishedSequence EXCEPT
                                ![packedSlot] = header[packedSlot].sequence]
    /\ buffered' = CountedBeforeReady
    /\ producerPc' = "release"
    /\ UNCHANGED <<slotState, payload, packVars, revisionVars, producerVars, block,
                   claim, consumerVars, outerVars>>

\* ... then the slot is handed over
ReleaseReady ==
    /\ producerPc = "release"
    /\ slotState' = [slotState EXCEPT ![packedSlot] = "ready"]
    /\ packedSlot' = None
    /\ packedFrames' = 0
    /\ producerPc' = IF block.frames > 0 THEN "packing" ELSE "idle"
    /\ UNCHANGED <<publishedSequence, header, payload, buffered, revisionVars,
                   producerVars, block, claim, consumerVars, outerVars>>

-----------------------------------------------------------------------------
(***************************************************************************)
(* The consumer: tryAcquireOldest() and the read handles, on the analysis    *)
(* worker.                                                                 *)
(***************************************************************************)
TryAcquireOldest ==
    /\ consumerPc = "idle"
    /\ Cardinality(held) < MaxHandles
    /\ consumerPc' = "scan"
    /\ scan' = FreshScan
    /\ UNCHANGED <<slotVars, buffered, packVars, revisionVars, producerVars, localVars,
                   previous, held, outerVars>>

\* The acquire load of a slot's state ...
ScanState ==
    /\ consumerPc = "scan"
    /\ scan.index < SlotCount
    /\ IF slotState[scan.index] = "ready"
       THEN consumerPc' = "load" /\ UNCHANGED scan
       ELSE scan' = [scan EXCEPT !.index = @ + 1] /\ UNCHANGED consumerPc
    /\ UNCHANGED <<slotVars, buffered, packVars, revisionVars, producerVars, localVars,
                   previous, held, outerVars>>

\* ... and, when it was ready, the later load of its selection key
ScanSequence ==
    /\ consumerPc = "load"
    /\ consumerPc' = "scan"
    /\ LET sequence == publishedSequence[scan.index] IN
       scan' = IF scan.oldest = None \/ sequence < scan.sequence
               THEN [index |-> scan.index + 1, oldest |-> scan.index, sequence |-> sequence]
               ELSE [scan EXCEPT !.index = @ + 1]
    /\ UNCHANGED <<slotVars, buffered, packVars, revisionVars, producerVars, localVars,
                   previous, held, outerVars>>

StillReady == scan.oldest # None /\ slotState[scan.oldest] = "ready"

\* Nothing ready, or the compare-exchange fails: there is no second attempt
AcquireFails ==
    /\ consumerPc = "scan"
    /\ scan.index = SlotCount
    /\ ~StillReady
    /\ consumerPc' = "idle"
    /\ scan' = FreshScan
    /\ UNCHANGED <<slotVars, buffered, packVars, revisionVars, producerVars, localVars,
                   previous, held, outerVars>>

AcquireTakes ==
    /\ consumerPc = "scan"
    /\ scan.index = SlotCount
    /\ StillReady
    /\ slotState' = [slotState EXCEPT ![scan.oldest] = "reading"]
    /\ consumerPc' = "taken"
    /\ UNCHANGED <<publishedSequence, header, payload, buffered, packVars, revisionVars,
                   producerVars, localVars, scan, previous, held, outerVars>>

\* The chunk is compared with the one acquired before it
GoesBack(h) ==
    /\ previous.sequence # 0
    /\ h.generation = previous.generation
    /\ h.sequence <= previous.sequence
FollowsDiscontinuity(h) ==
    /\ previous.sequence # 0
    /\ h.generation = previous.generation
    /\ h.sequence # previous.sequence + 1

View(s, flag) ==
    [slot |-> s, frameCount |-> header[s].frameCount,
     generation |-> header[s].generation, sequence |-> header[s].sequence,
     frameEnd |-> header[s].frameEnd, revision |-> header[s].revision,
     lifecycle |-> header[s].lifecycle, followsDiscontinuity |-> flag]

AcquireReturns ==
    /\ consumerPc = "taken"
    /\ LET h == header[scan.oldest] IN
       /\ buffered' = RemoveReadyFrames(h.frameCount)
       /\ previous' = [sequence |-> h.sequence, generation |-> h.generation,
                       lifecycle |-> h.lifecycle, frameEnd |-> h.frameEnd]
       /\ held' = held \cup {View(scan.oldest, FollowsDiscontinuity(h))}
    /\ consumerPc' = "idle"
    /\ scan' = FreshScan
    /\ UNCHANGED <<slotVars, packVars, revisionVars, producerVars, localVars, outerVars>>

\* ReadHandle::release
ReleaseHandle(v) ==
    /\ consumerPc = "idle"
    /\ v \in held
    /\ held' = held \ {v}
    /\ slotState' = [slotState EXCEPT ![v.slot] = "free"]
    /\ UNCHANGED <<publishedSequence, header, payload, buffered, packVars, revisionVars,
                   producerVars, localVars, consumerPc, scan, previous, outerVars>>

-----------------------------------------------------------------------------
(***************************************************************************)
(* The coordinator's use of the capture.  The worker observes a revision,    *)
(* advances the public generation for it and acknowledges it when the        *)
(* post-gap state is published; the message thread, the worker being idle,   *)
(* restarts the lifecycle, for a format change with the producer quiescent.  *)
(***************************************************************************)
CaptureDiscontinuityRevision(lifecycle) ==
    IF publishedLifecycle = lifecycle THEN publishedRevision ELSE 0

\* advanceCaptureGenerationForDiscontinuity
ObserveRevision ==
    /\ consumerPc = "idle"
    /\ observed = acknowledged
    /\ CaptureDiscontinuityRevision(admitted.lifecycle) > acknowledged
    /\ admitted.generation < MaxGeneration
    /\ observed' = CaptureDiscontinuityRevision(admitted.lifecycle)
    /\ admitted' = [admitted EXCEPT !.generation = @ + 1]
    /\ UNCHANGED <<slotVars, buffered, packVars, revisionVars, producerVars, localVars,
                   consumerVars, acknowledged>>

\* completeCaptureBoundaryRecovery
Acknowledge ==
    /\ consumerPc = "idle"
    /\ observed # acknowledged
    /\ acknowledged' = observed
    /\ openLoss' = (openLoss /\ revision # observed)
    /\ UNCHANGED <<slotVars, buffered, packVars, revision, publishedRevision,
                   publishedLifecycle, producerVars, localVars, consumerVars, observed,
                   admitted>>

\* restartActiveGenerationLocked(false) with beginGeneration: retained handles
\* are released; a block admitted before may still be on its way
NewLifecycle ==
    /\ consumerPc = "idle"
    /\ admitted.generation < MaxGeneration
    /\ admitted' = [generation |-> admitted.generation + 1,
                    lifecycle |-> admitted.generation + 1]
    /\ observed' = CaptureDiscontinuityRevision(admitted.generation + 1)
    /\ acknowledged' = observed'

RestartLifecycle ==
    /\ NewLifecycle
    /\ held' = {}
    /\ slotState' = [s \in Slots |-> IF \E v \in held : v.slot = s THEN "free"
                                     ELSE slotState[s]]
    /\ UNCHANGED <<publishedSequence, header, payload, buffered, packVars, revisionVars,
                   producerVars, localVars, consumerPc, scan, previous>>

\* restartActiveGenerationLocked(true): also discardPending()
RestartAndDiscard ==
    /\ producerPc = "idle"
    /\ NewLifecycle
    /\ held' = {}
    /\ packedSlot' = None
    /\ packedFrames' = 0
    /\ slotState' = [s \in Slots |-> "free"]
    /\ buffered' = [partial |-> 0, frames |-> 0, slots |-> 0]
    /\ nextClaimIndex' = 0
    /\ previous' = NoPrevious
    /\ UNCHANGED <<publishedSequence, header, payload, revisionVars, nextSequence,
                   frameCursor, producerLifecycle, localVars, consumerPc, scan>>

-----------------------------------------------------------------------------
Producer ==
    \/ \E n \in 1..FramesPerSlot : PublishBlock(n)
    \/ RetirePassesOver \/ RetireReady \/ RetireCounts
    \/ EnterLifecycle \/ AnnounceLifecycle
    \/ BeginPackedChunk \/ ClaimFree \/ ClaimPassesOver
    \/ ReclaimOldest \/ StampAfterReclaim \/ DropIncoming
    \/ PackFrames \/ FinalizePackedChunk \/ ReleaseReady

Consumer ==
    \/ TryAcquireOldest \/ ScanState \/ ScanSequence
    \/ AcquireFails \/ AcquireTakes \/ AcquireReturns
    \/ \E v \in held : ReleaseHandle(v)
    \/ ObserveRevision \/ Acknowledge

Next == Producer \/ Consumer \/ RestartLifecycle \/ RestartAndDiscard

Spec == Init /\ [][Next]_vars

-----------------------------------------------------------------------------
(***************************************************************************)
(* Properties.                                                             *)
(***************************************************************************)

\* What a read handle points at stays what it was acquired as: nobody writes
\* or frees its slot, its arrays hold the frames that end at capturedFrameEnd
ViewsIntact ==
    \A v \in held :
        /\ slotState[v.slot] = "reading"
        /\ header[v.slot].sequence = v.sequence
        /\ \A i \in 1..v.frameCount :
               payload[v.slot][i] = v.frameEnd - v.frameCount + i

\* A loss the worker has not acknowledged is visible to it: the revision of the
\* producer's lifecycle exceeds the acknowledged one
LossVisible == openLoss => publishedRevision > acknowledged

\* Unless a chunk is flagged, or belongs to another generation, its first frame
\* is the one after the last frame acquired before it; within a lifecycle, a
\* chunk with the next sequence always continues its predecessor, which is what
\* the analyzers test
UnflaggedIsContiguous ==
    [][\A v \in held' \ held :
          \/ previous.sequence = 0
          \/ v.lifecycle # previous.lifecycle
          \/ /\ v.sequence # previous.sequence + 1
             /\ v.followsDiscontinuity \/ v.generation # previous.generation
          \/ v.frameEnd - v.frameCount = previous.frameEnd]_vars

=============================================================================
