------------------------- MODULE SampleCaptureProofs -------------------------
(***************************************************************************)
(* What holds of the sample capture for any pool of slots, any slot size     *)
(* and any number of read handles: a view is never written under, a loss     *)
(* stays visible until it is acknowledged, and chunks with consecutive       *)
(* sequences are contiguous.                                               *)
(***************************************************************************)
EXTENDS SampleCapture, TLAPS

USE CaptureAssumption

-----------------------------------------------------------------------------
(***************************************************************************)
(* Types.  The counts of bufferedState_ are left out: that they never fall   *)
(* below zero is a sum over the slots.                                     *)
(***************************************************************************)
Claims == [index : 0..SlotCount, oldest : 0..SlotCount]
Scans == [index : 0..SlotCount, oldest : 0..SlotCount, sequence : Nat]
Blocks == [frames : 0..FramesPerSlot, generation : Nat, lifecycle : Nat]
Previouses == [sequence : Nat, generation : Nat, lifecycle : Nat, frameEnd : Nat]

SlotTypes ==
    /\ slotState \in [Slots -> States]
    /\ publishedSequence \in [Slots -> Nat]
    /\ header \in [Slots -> Headers]
    /\ payload \in [Slots -> [1..FramesPerSlot -> Nat]]

ProducerTypes ==
    /\ nextSequence \in Nat \ {0} /\ frameCursor \in Nat
    /\ producerLifecycle \in Nat /\ nextClaimIndex \in Slots
    /\ packedSlot \in Slots \cup {None} /\ packedFrames \in 0..FramesPerSlot
    /\ revision \in Nat /\ publishedRevision \in Nat /\ publishedLifecycle \in Nat
    /\ openLoss \in BOOLEAN
    /\ producerPc \in {"idle", "retire", "retired", "announce", "packing",
                       "claim", "reclaim", "reclaimed", "finalize", "release"}
    /\ block \in Blocks /\ claim \in Claims
    /\ producerPc = "retired" => claim.index < SlotCount

ConsumerTypes ==
    /\ consumerPc \in {"idle", "scan", "load", "taken"}
    /\ scan \in Scans /\ previous \in Previouses /\ held \subseteq Views
    /\ consumerPc = "load" => scan.index < SlotCount
    /\ observed \in Nat /\ acknowledged \in Nat
    /\ admitted \in [generation : Nat, lifecycle : Nat]

Types == SlotTypes /\ ProducerTypes /\ ConsumerTypes

\* No slot is the absence of one
LEMMA NoneIsNoSlot == None \notin Slots
BY DEF None, Slots

\* The initial state has the types
LEMMA InitTypes == Init => Types
<1> SUFFICES ASSUME Init PROVE Types
  OBVIOUS
<1> USE DEF Init
<1>1. SlotTypes
  BY DEF SlotTypes, States, Headers, EmptyHeader
<1>2. ProducerTypes
  <2>1. block \in Blocks /\ claim \in Claims
    BY DEF Blocks, Claims, FreshClaim, None
  <2>2. nextClaimIndex \in Slots /\ packedFrames \in 0..FramesPerSlot
    BY DEF Slots
  <2>3. openLoss \in BOOLEAN /\ packedSlot \in Slots \cup {None}
    OBVIOUS
  <2>. QED  BY <2>1, <2>2, <2>3 DEF ProducerTypes
<1>3. ConsumerTypes
  BY DEF ConsumerTypes, Scans, FreshScan, None, Previouses, NoPrevious
<1>. QED  BY <1>1, <1>2, <1>3 DEF Types

\* The header of a chunk that begins
LEMMA StampedHeaderType ==
    ASSUME Types, NEW stamp \in Nat
    PROVE  StampedHeader(stamp) \in Headers
BY DEF Types, ProducerTypes, StampedHeader, Headers, Blocks

\* The revision a slot is stamped with is a number
LEMMA RevisionType ==
    ASSUME Types
    PROVE  RevisionAfterLoss \in Nat /\ StampOfReclaimed \in Nat
BY DEF Types, ProducerTypes, RevisionAfterLoss, StampOfReclaimed

\* A position of the ring is a slot
LEMMA RingType ==
    ASSUME NEW i \in Nat, NEW j \in Nat
    PROVE  (i + j) % SlotCount \in Slots
BY DEF Slots

\* The slot a claim examines is one of the capture
LEMMA RingSlotType ==
    ASSUME Types
    PROVE  RingSlot(claim.index) \in Slots
<1>1. nextClaimIndex \in Nat
  BY DEF Types, ProducerTypes, Slots
<1>2. claim.index \in Nat
  BY DEF Types, ProducerTypes, Claims
<1>. QED  BY <1>1, <1>2, RingType DEF RingSlot

\* A chunk begins in a slot of its own
LEMMA StampTypes ==
    ASSUME Types, NEW s \in Slots, NEW stamp \in Nat, Stamp(s, stamp)
    PROVE  /\ header' \in [Slots -> Headers]
           /\ packedSlot' = s /\ packedFrames' = 0
           /\ nextClaimIndex' \in Slots
           /\ producerPc' = "packing" /\ claim' \in Claims
<1>1. header' \in [Slots -> Headers]
  BY StampedHeaderType DEF Stamp, Types, SlotTypes
<1>2. nextClaimIndex' \in Slots
  BY RingType DEF Stamp, Slots
<1>3. claim' \in Claims
  BY DEF Stamp, FreshClaim, Claims, None
<1>. QED  BY <1>1, <1>2, <1>3 DEF Stamp

\* The copy loop stays inside the slot
LEMMA PackFramesEffect ==
    ASSUME Types, PackFrames
    PROVE  \E copied \in 0..FramesPerSlot :
             /\ copied <= block.frames /\ packedFrames + copied <= FramesPerSlot
             /\ packedFrames' = packedFrames + copied
             /\ frameCursor' = frameCursor + copied
             /\ block' = [block EXCEPT !.frames = block.frames - copied]
             /\ payload' = [payload EXCEPT ![packedSlot] = [i \in 1..FramesPerSlot |->
                   IF i > packedFrames /\ i <= packedFrames + copied
                   THEN frameCursor + i - packedFrames ELSE payload[packedSlot][i]]]
<1> DEFINE room == FramesPerSlot - packedFrames
           copied == IF room < block.frames THEN room ELSE block.frames
<1>1. packedFrames \in 0..FramesPerSlot /\ block.frames \in 0..FramesPerSlot
  BY DEF Types, ProducerTypes, Blocks
<1>2. /\ copied \in 0..FramesPerSlot
      /\ copied <= block.frames /\ packedFrames + copied <= FramesPerSlot
  BY <1>1
<1>3. /\ packedFrames' = packedFrames + copied
      /\ frameCursor' = frameCursor + copied
      /\ block' = [block EXCEPT !.frames = block.frames - copied]
      /\ payload' = [payload EXCEPT ![packedSlot] = [i \in 1..FramesPerSlot |->
            IF i > packedFrames /\ i <= packedFrames + copied
            THEN frameCursor + i - packedFrames ELSE payload[packedSlot][i]]]
  BY DEF PackFrames
<1> HIDE DEF copied
<1>. QED  BY <1>2, <1>3

\* publishBlock() up to the claim of a slot
LEMMA TypesBegin ==
    ASSUME Types,
           \/ \E n \in 1..FramesPerSlot : PublishBlock(n)
           \/ RetirePassesOver \/ RetireReady \/ RetireCounts
           \/ EnterLifecycle \/ AnnounceLifecycle \/ BeginPackedChunk
    PROVE  Types'
<1> USE DEF Types, slotVars, packVars, revisionVars, producerVars, localVars, consumerVars,
            outerVars
<1>1. CASE \E n \in 1..FramesPerSlot : PublishBlock(n)
  <2>1. PICK n \in 1..FramesPerSlot : PublishBlock(n)
    BY <1>1
  <2>2. SlotTypes'
    BY <2>1 DEF PublishBlock, SlotTypes, States
  <2>3. block' \in Blocks
    BY <2>1 DEF PublishBlock, Blocks, ConsumerTypes
  <2>4. ProducerTypes'
    BY <2>1, <2>3 DEF PublishBlock, ProducerTypes
  <2>5. ConsumerTypes'
    BY <2>1 DEF PublishBlock, ConsumerTypes
  <2>. QED  BY <2>2, <2>4, <2>5
<1>2. CASE RetirePassesOver \/ RetireReady \/ RetireCounts
  <2>1. claim' \in Claims
    BY <1>2 DEF RetirePassesOver, RetireReady, RetireCounts, ProducerTypes, Claims
  <2>2. SlotTypes' /\ ConsumerTypes'
    BY <1>2 DEF RetirePassesOver, RetireReady, RetireCounts, SlotTypes, States, ConsumerTypes
  <2>3. ProducerTypes'
    BY <1>2, <2>1 DEF RetirePassesOver, RetireReady, RetireCounts, ProducerTypes
  <2>. QED  BY <2>2, <2>3
<1>3. CASE EnterLifecycle
  <2>1. claim' \in Claims /\ 0 \in Slots /\ block.lifecycle \in Nat
    BY <1>3 DEF EnterLifecycle, FreshClaim, Claims, None, Slots, ProducerTypes, Blocks
  <2>2. ProducerTypes'
    BY <1>3, <2>1 DEF EnterLifecycle, ProducerTypes
  <2>. QED  BY <1>3, <2>2 DEF EnterLifecycle, SlotTypes, ConsumerTypes
<1>4. CASE AnnounceLifecycle
  <2>1. block.lifecycle \in Nat
    BY DEF ProducerTypes, Blocks
  <2>. QED  BY <1>4, <2>1 DEF AnnounceLifecycle, ProducerTypes, SlotTypes, ConsumerTypes
<1>5. CASE BeginPackedChunk
  <2>1. claim' \in Claims
    BY <1>5 DEF BeginPackedChunk, FreshClaim, Claims, None
  <2>. QED  BY <1>5, <2>1 DEF BeginPackedChunk, ProducerTypes, SlotTypes, ConsumerTypes
<1>. QED  BY <1>1, <1>2, <1>3, <1>4, <1>5

\* publishBlock() from the claim on
LEMMA TypesPack ==
    ASSUME Types,
           \/ ClaimFree \/ ClaimPassesOver
           \/ ReclaimOldest \/ StampAfterReclaim \/ DropIncoming
           \/ PackFrames \/ FinalizePackedChunk \/ ReleaseReady,
           producerPc = "reclaimed" => claim.oldest \in Slots,
           producerPc \in {"finalize", "release"} => packedSlot # None
    PROVE  Types'
<1> USE DEF Types, slotVars, packVars, revisionVars, producerVars, localVars, consumerVars,
            outerVars
<1>1. CASE ClaimFree
  <2>0. RingSlot(claim.index) \in Slots
    BY RingSlotType
  <2>1. PICK s \in Slots : /\ s = RingSlot(claim.index)
                           /\ slotState' = [slotState EXCEPT ![s] = "writing"]
                           /\ Stamp(s, revision)
    BY <1>1, <2>0 DEF ClaimFree
  <2>2. SlotTypes'
    BY <1>1, <2>1, StampTypes DEF ClaimFree, SlotTypes, States, ProducerTypes
  <2>3. ProducerTypes'
    BY <1>1, <2>1, StampTypes DEF ClaimFree, ProducerTypes
  <2>. QED  BY <1>1, <2>2, <2>3 DEF ClaimFree, ConsumerTypes
<1>2. CASE ClaimPassesOver
  <2>1. RingSlot(claim.index) \in Slots
    BY RingSlotType
  <2>2. claim' \in Claims
    <3>1. PICK o \in {RingSlot(claim.index), claim.oldest} :
            claim' = [index |-> claim.index + 1, oldest |-> o]
      BY <1>2 DEF ClaimPassesOver
    <3>2. claim.index + 1 \in 0..SlotCount /\ o \in 0..SlotCount
      BY <1>2, <2>1, <3>1 DEF ClaimPassesOver, ProducerTypes, Claims, Slots
    <3>. QED  BY <3>1, <3>2 DEF Claims
  <2>3. producerPc' \in {"reclaim", "claim"}
    BY <1>2 DEF ClaimPassesOver
  <2>. QED  BY <1>2, <2>2, <2>3 DEF ClaimPassesOver, ProducerTypes, SlotTypes, ConsumerTypes
<1>3. CASE ReclaimOldest
  BY <1>3 DEF ReclaimOldest, ProducerTypes, SlotTypes, States, ConsumerTypes
<1>4. CASE StampAfterReclaim
  <2>1. claim.oldest \in Slots /\ RevisionAfterLoss \in Nat
        /\ StampOfReclaimed \in Nat /\ Stamp(claim.oldest, StampOfReclaimed)
    BY <1>4, RevisionType DEF StampAfterReclaim
  <2>2. SlotTypes'
    BY <1>4, <2>1, StampTypes DEF StampAfterReclaim, SlotTypes
  <2>3. ProducerTypes'
    BY <1>4, <2>1, StampTypes DEF StampAfterReclaim, BeginCaptureDiscontinuity, ProducerTypes
  <2>. QED  BY <1>4, <2>2, <2>3 DEF StampAfterReclaim, ConsumerTypes
<1>5. CASE DropIncoming
  <2>1. block.frames \in Nat /\ block' \in Blocks /\ claim' \in Claims
    BY <1>5 DEF DropIncoming, ProducerTypes, Blocks, Claims, FreshClaim, None
  <2>2. ProducerTypes'
    BY <1>5, <2>1, RevisionType DEF DropIncoming, BeginCaptureDiscontinuity, ProducerTypes
  <2>. QED  BY <1>5, <2>2 DEF DropIncoming, SlotTypes, ConsumerTypes
<1>6. CASE PackFrames
  <2>1. PICK copied \in 0..FramesPerSlot :
          /\ copied <= block.frames /\ packedFrames + copied <= FramesPerSlot
          /\ packedFrames' = packedFrames + copied
          /\ frameCursor' = frameCursor + copied
          /\ block' = [block EXCEPT !.frames = block.frames - copied]
          /\ payload' = [payload EXCEPT ![packedSlot] = [i \in 1..FramesPerSlot |->
                IF i > packedFrames /\ i <= packedFrames + copied
                THEN frameCursor + i - packedFrames ELSE payload[packedSlot][i]]]
    BY <1>6, PackFramesEffect
  <2>2. packedSlot \in Slots /\ packedFrames \in Nat /\ frameCursor \in Nat
    BY <1>6 DEF PackFrames, ProducerTypes
  <2>3. payload' \in [Slots -> [1..FramesPerSlot -> Nat]]
    <3>1. ASSUME NEW i \in 1..FramesPerSlot
          PROVE  (IF i > packedFrames /\ i <= packedFrames + copied
                  THEN frameCursor + i - packedFrames ELSE payload[packedSlot][i]) \in Nat
      BY <2>2 DEF SlotTypes
    <3>. QED  BY <2>1, <2>2, <3>1 DEF SlotTypes
  <2>4. block' \in Blocks
    <3>1. block \in Blocks
      BY DEF ProducerTypes
    <3>2. block.frames \in 0..FramesPerSlot
      BY <3>1 DEF Blocks
    <3>3. block.frames - copied \in 0..FramesPerSlot
      BY <2>1, <3>2, CaptureAssumption
    <3>. QED  BY <2>1, <3>1, <3>3 DEF Blocks
  <2>5. ProducerTypes'
    <3>1. packedFrames' \in 0..FramesPerSlot /\ frameCursor' \in Nat
      BY <2>1, <2>2, CaptureAssumption
    <3>2. producerPc' # "retired"
      BY <1>6 DEF PackFrames
    <3>. QED  BY <1>6, <2>4, <3>1, <3>2 DEF PackFrames, ProducerTypes
  <2>. QED  BY <1>6, <2>3, <2>5 DEF PackFrames, SlotTypes, ConsumerTypes
<1>7. CASE FinalizePackedChunk
  <2>1. packedSlot \in Slots
    BY <1>7 DEF FinalizePackedChunk, ProducerTypes
  <2>2. header' \in [Slots -> Headers]
    BY <1>7, <2>1 DEF FinalizePackedChunk, SlotTypes, ProducerTypes, Headers
  <2>3. publishedSequence' \in [Slots -> Nat]
    BY <1>7, <2>1 DEF FinalizePackedChunk, SlotTypes, Headers
  <2>. QED  BY <1>7, <2>2, <2>3 DEF FinalizePackedChunk, SlotTypes, ProducerTypes, ConsumerTypes
<1>8. CASE ReleaseReady
  BY <1>8 DEF ReleaseReady, SlotTypes, States, ProducerTypes, ConsumerTypes
<1>. QED  BY <1>1, <1>2, <1>3, <1>4, <1>5, <1>6, <1>7, <1>8

\* tryAcquireOldest(), the read handles and the coordinator
LEMMA TypesConsume ==
    ASSUME Types,
           \/ TryAcquireOldest \/ ScanState \/ ScanSequence
           \/ AcquireFails \/ AcquireTakes \/ AcquireReturns
           \/ \E v \in held : ReleaseHandle(v)
           \/ ObserveRevision \/ Acknowledge \/ RestartLifecycle \/ RestartAndDiscard,
           consumerPc = "taken" => scan.oldest \in Slots
    PROVE  Types'
<1> USE DEF Types, slotVars, packVars, revisionVars, producerVars, localVars, consumerVars,
            outerVars
<1>1. FreshScan \in Scans
  BY DEF FreshScan, Scans, None
<1>2. CASE TryAcquireOldest \/ AcquireFails \/ AcquireTakes
  BY <1>1, <1>2 DEF TryAcquireOldest, AcquireFails, AcquireTakes, SlotTypes, States,
                    ProducerTypes, ConsumerTypes
<1>3. CASE ScanState
  <2>1. scan' \in Scans /\ consumerPc' \in {"scan", "load"}
    <3>1. scan.index + 1 \in 0..SlotCount
      BY <1>3 DEF ScanState, ConsumerTypes, Scans
    <3>. QED  BY <1>3, <3>1 DEF ScanState, ConsumerTypes, Scans
  <2>2. consumerPc' = "load" => scan'.index < SlotCount
    BY <1>3 DEF ScanState
  <2>. QED  BY <1>3, <2>1, <2>2 DEF ScanState, SlotTypes, ProducerTypes, ConsumerTypes
<1>4. CASE ScanSequence
  <2>1. scan.index \in 0..SlotCount /\ scan.index + 1 \in 0..SlotCount
        /\ publishedSequence[scan.index] \in Nat
    BY <1>4 DEF ScanSequence, ConsumerTypes, Scans, SlotTypes, Slots
  <2>2. scan' \in Scans
    BY <1>4, <2>1 DEF ScanSequence, ConsumerTypes, Scans
  <2>. QED  BY <1>4, <2>2 DEF ScanSequence, SlotTypes, ProducerTypes, ConsumerTypes
<1>5. CASE AcquireReturns
  <2>1. header[scan.oldest] \in Headers /\ scan.oldest \in Slots
    BY <1>5 DEF AcquireReturns, SlotTypes
  <2>2. ASSUME NEW flag \in BOOLEAN PROVE View(scan.oldest, flag) \in Views
    BY <2>1 DEF View, Views, Headers
  <2>3. FollowsDiscontinuity(header[scan.oldest]) \in BOOLEAN
    BY DEF FollowsDiscontinuity
  <2>4. held' \subseteq Views
    BY <1>5, <2>2, <2>3 DEF AcquireReturns, ConsumerTypes
  <2>5. previous' \in Previouses
    BY <1>5, <2>1 DEF AcquireReturns, Previouses, Headers
  <2>. QED  BY <1>1, <1>5, <2>4, <2>5 DEF AcquireReturns, SlotTypes, ProducerTypes, ConsumerTypes
<1>6. CASE \E v \in held : ReleaseHandle(v)
  BY <1>6 DEF ReleaseHandle, SlotTypes, States, ProducerTypes, ConsumerTypes
<1>7. ASSUME NEW l PROVE CaptureDiscontinuityRevision(l) \in Nat
  BY DEF CaptureDiscontinuityRevision, ProducerTypes
<1>8. CASE ObserveRevision
  <2>1. admitted' \in [generation : Nat, lifecycle : Nat]
    BY <1>8 DEF ObserveRevision, ConsumerTypes
  <2>. QED  BY <1>7, <1>8, <2>1 DEF ObserveRevision, SlotTypes, ProducerTypes, ConsumerTypes
<1>9. CASE Acknowledge
  <2>1. openLoss' \in BOOLEAN
    BY <1>9 DEF Acknowledge
  <2>. QED  BY <1>9, <2>1 DEF Acknowledge, SlotTypes, ProducerTypes, ConsumerTypes
<1>10. ASSUME NewLifecycle
       PROVE  /\ admitted' \in [generation : Nat, lifecycle : Nat]
              /\ observed' \in Nat /\ acknowledged' \in Nat
  BY <1>7, <1>10 DEF NewLifecycle, ConsumerTypes
<1>11. CASE RestartLifecycle
  <2>1. slotState' \in [Slots -> States]
    BY <1>11 DEF RestartLifecycle, SlotTypes, States
  <2>2. consumerPc = "idle" /\ held' = {}
    BY <1>11 DEF RestartLifecycle, NewLifecycle
  <2>4. SlotTypes'
    BY <1>11, <2>1 DEF RestartLifecycle, SlotTypes
  <2>5. ProducerTypes'
    BY <1>11 DEF RestartLifecycle, ProducerTypes, revisionVars, localVars
  <2>6. ConsumerTypes'
    BY <1>10, <1>11, <2>2 DEF RestartLifecycle, ConsumerTypes
  <2>. QED  BY <2>4, <2>5, <2>6 DEF Types
<1>12. CASE RestartAndDiscard
  <2>1. slotState' \in [Slots -> States]
    BY <1>12 DEF RestartAndDiscard, States
  <2>2. consumerPc = "idle" /\ held' = {}
    BY <1>12 DEF RestartAndDiscard, NewLifecycle
  <2>3. 0 \in Slots /\ NoPrevious \in Previouses
    BY DEF Slots, NoPrevious, Previouses
  <2>4. SlotTypes'
    BY <1>12, <2>1 DEF RestartAndDiscard, SlotTypes
  <2>5. ProducerTypes'
    BY <1>12, <2>3 DEF RestartAndDiscard, ProducerTypes, revisionVars, localVars
  <2>6. ConsumerTypes'
    BY <1>10, <1>12, <2>2, <2>3 DEF RestartAndDiscard, ConsumerTypes
  <2>. QED  BY <2>4, <2>5, <2>6 DEF Types
<1>. QED  BY <1>2, <1>3, <1>4, <1>5, <1>6, <1>8, <1>9, <1>11, <1>12

-----------------------------------------------------------------------------
(***************************************************************************)
(* Ownership: a slot that is written belongs to the packed chunk or to the   *)
(* reclaim, a slot that is read to one view or to the acquisition.           *)
(***************************************************************************)
BetweenChunks == {"retire", "retired", "announce", "claim", "reclaim", "reclaimed"}

WriterOwns ==
    /\ packedSlot # None => slotState[packedSlot] = "writing"
    /\ producerPc \in BetweenChunks => packedSlot = None
    /\ producerPc \in {"finalize", "release"} => packedSlot # None
    /\ producerPc = "reclaimed" =>
         claim.oldest \in Slots /\ slotState[claim.oldest] = "writing"

ReaderOwns ==
    /\ \A v \in held : slotState[v.slot] = "reading"
    /\ \A v, w \in held : v.slot = w.slot => v = w
    /\ consumerPc = "taken" =>
         /\ scan.oldest \in Slots /\ slotState[scan.oldest] = "reading"
         /\ \A v \in held : v.slot # scan.oldest

Ownership == WriterOwns /\ ReaderOwns

\* publishBlock(): it touches no slot that is read
LEMMA OwnershipProduce ==
    ASSUME Types, Ownership, Producer
    PROVE  Ownership'
<1> USE DEF Ownership, slotVars, packVars, revisionVars, producerVars, localVars,
            consumerVars, outerVars
<1>0. /\ slotState \in [Slots -> States] /\ held \subseteq Views
      /\ packedSlot \in Slots \cup {None} /\ scan \in Scans /\ claim \in Claims
      /\ \A v \in held : v.slot \in Slots
  BY DEF Types, SlotTypes, ProducerTypes, ConsumerTypes, Views
<1>1. CASE \E n \in 1..FramesPerSlot : PublishBlock(n)
  <2>1. PICK n \in 1..FramesPerSlot : PublishBlock(n)
    BY <1>1
  <2>2. CASE producerLifecycle = admitted.lifecycle
    BY <2>1, <2>2 DEF PublishBlock, WriterOwns, ReaderOwns, BetweenChunks
  <2>3. CASE producerLifecycle # admitted.lifecycle
    <3>1. WriterOwns'
      BY <2>1, <2>3 DEF PublishBlock, WriterOwns
    <3>2. \A s \in Slots : s = packedSlot => slotState[s] = "writing"
      BY NoneIsNoSlot DEF WriterOwns
    <3>3. \A s \in Slots : slotState[s] = "reading" => slotState'[s] = "reading"
      BY <2>1, <2>3, <3>2 DEF PublishBlock
    <3>. QED  BY <1>0, <2>1, <3>1, <3>3 DEF PublishBlock, ReaderOwns
  <2>. QED  BY <2>2, <2>3
<1>2. CASE RetirePassesOver \/ RetireCounts \/ EnterLifecycle \/ AnnounceLifecycle
  BY <1>2 DEF RetirePassesOver, RetireCounts, EnterLifecycle, AnnounceLifecycle,
              WriterOwns, ReaderOwns, BetweenChunks
<1>3. CASE RetireReady
  <2>1. WriterOwns'
    BY <1>3 DEF RetireReady, WriterOwns, BetweenChunks
  <2>2. \A s \in Slots : slotState[s] = "reading" => slotState'[s] = "reading"
    BY <1>0, <1>3 DEF RetireReady
  <2>. QED  BY <1>0, <1>3, <2>1, <2>2 DEF RetireReady, ReaderOwns
<1>4. CASE BeginPackedChunk \/ ClaimPassesOver \/ DropIncoming
  BY <1>4 DEF BeginPackedChunk, ClaimPassesOver, DropIncoming, WriterOwns, ReaderOwns,
              BetweenChunks
<1>5. CASE ClaimFree
  <2>1. PICK s \in Slots : /\ slotState[s] = "free"
                           /\ slotState' = [slotState EXCEPT ![s] = "writing"]
                           /\ Stamp(s, revision)
    BY <1>5, RingSlotType DEF ClaimFree
  <2>2. WriterOwns'
    BY <1>0, <2>1 DEF Stamp, WriterOwns, BetweenChunks
  <2>3. \A t \in Slots : slotState[t] = "reading" => slotState'[t] = "reading"
    BY <1>0, <2>1
  <2>. QED  BY <1>0, <1>5, <2>2, <2>3 DEF ClaimFree, ReaderOwns
<1>6. CASE ReclaimOldest
  <2>1. claim.oldest \in Slots
    BY <1>0, <1>6 DEF ReclaimOldest, Reclaimable, Claims, None, Slots
  <2>2. WriterOwns'
    BY <1>0, <1>6, <2>1 DEF ReclaimOldest, WriterOwns, BetweenChunks
  <2>3. \A t \in Slots : slotState[t] = "reading" => slotState'[t] = "reading"
    BY <1>0, <1>6 DEF ReclaimOldest, Reclaimable
  <2>. QED  BY <1>0, <1>6, <2>2, <2>3 DEF ReclaimOldest, ReaderOwns
<1>7. CASE StampAfterReclaim
  BY <1>0, <1>7 DEF StampAfterReclaim, Stamp, WriterOwns, ReaderOwns, BetweenChunks
<1>8. CASE PackFrames \/ FinalizePackedChunk
  BY <1>8 DEF PackFrames, FinalizePackedChunk, WriterOwns, ReaderOwns, BetweenChunks
<1>9. CASE ReleaseReady
  <2>1. packedSlot \in Slots /\ slotState[packedSlot] = "writing"
    BY <1>0, <1>9 DEF ReleaseReady, WriterOwns
  <2>2. WriterOwns'
    BY <1>9 DEF ReleaseReady, WriterOwns, BetweenChunks
  <2>3. \A t \in Slots : slotState[t] = "reading" => slotState'[t] = "reading"
    BY <1>0, <1>9, <2>1 DEF ReleaseReady
  <2>. QED  BY <1>0, <1>9, <2>2, <2>3 DEF ReleaseReady, ReaderOwns
<1>. QED  BY <1>1, <1>2, <1>3, <1>4, <1>5, <1>6, <1>7, <1>8, <1>9 DEF Producer

\* The consumer and the coordinator touch no slot that is written
LEMMA OwnershipConsume ==
    ASSUME Types, Ownership, Consumer \/ RestartLifecycle \/ RestartAndDiscard
    PROVE  Ownership'
<1> USE DEF Ownership, slotVars, packVars, revisionVars, producerVars, localVars,
            consumerVars, outerVars
<1>0. /\ slotState \in [Slots -> States] /\ held \subseteq Views
      /\ packedSlot \in Slots \cup {None} /\ scan \in Scans /\ claim \in Claims
      /\ \A v \in held : v.slot \in Slots
  BY DEF Types, SlotTypes, ProducerTypes, ConsumerTypes, Views
<1>1. CASE TryAcquireOldest \/ ScanState \/ ScanSequence \/ AcquireFails
           \/ ObserveRevision \/ Acknowledge
  BY <1>1 DEF TryAcquireOldest, ScanState, ScanSequence, AcquireFails, ObserveRevision,
              Acknowledge, WriterOwns, ReaderOwns
<1>2. CASE AcquireTakes
  <2>1. scan.oldest \in Slots /\ slotState[scan.oldest] = "ready"
    BY <1>0, <1>2 DEF AcquireTakes, StillReady, Scans, None, Slots
  <2>2. \A t \in Slots : t # scan.oldest => slotState'[t] = slotState[t]
    BY <1>0, <1>2 DEF AcquireTakes
  <2>3. WriterOwns'
    BY <1>0, <1>2, <2>1, <2>2 DEF AcquireTakes, WriterOwns
  <2>4. ReaderOwns'
    BY <1>0, <1>2, <2>1, <2>2 DEF AcquireTakes, ReaderOwns
  <2>. QED  BY <2>3, <2>4
<1>3. CASE AcquireReturns
  <2>1. WriterOwns'
    BY <1>3 DEF AcquireReturns, WriterOwns
  <2>2. PICK flag : held' = held \cup {View(scan.oldest, flag)}
    BY <1>3 DEF AcquireReturns
  <2>3. View(scan.oldest, flag).slot = scan.oldest
    BY DEF View
  <2>. QED  BY <1>3, <2>1, <2>2, <2>3 DEF AcquireReturns, ReaderOwns
<1>4. CASE \E v \in held : ReleaseHandle(v)
  <2>1. PICK v \in held : ReleaseHandle(v)
    BY <1>4
  <2>2. \A t \in Slots : t # v.slot => slotState'[t] = slotState[t]
    BY <1>0, <2>1 DEF ReleaseHandle
  <2>3. slotState[v.slot] = "reading"
    BY DEF ReaderOwns
  <2>4. WriterOwns'
    BY <1>0, <2>1, <2>2, <2>3 DEF ReleaseHandle, WriterOwns
  <2>5. ReaderOwns'
    BY <1>0, <2>1, <2>2 DEF ReleaseHandle, ReaderOwns
  <2>. QED  BY <2>4, <2>5
<1>5. CASE RestartLifecycle
  <2>1. \A t \in Slots : slotState[t] = "writing" => slotState'[t] = "writing"
    BY <1>5 DEF RestartLifecycle, ReaderOwns
  <2>. QED  BY <1>0, <1>5, <2>1 DEF RestartLifecycle, NewLifecycle, WriterOwns, ReaderOwns
<1>6. CASE RestartAndDiscard
  BY <1>6 DEF RestartAndDiscard, NewLifecycle, WriterOwns, ReaderOwns, BetweenChunks
<1>. QED  BY <1>1, <1>2, <1>3, <1>4, <1>5, <1>6 DEF Consumer

-----------------------------------------------------------------------------
(***************************************************************************)
(* Contents: what the arrays of a slot hold, and what a view says of it.     *)
(***************************************************************************)
HoldsFrames(s, count, end) == \A i \in 1..count : payload[s][i] = end - count + i

Contents ==
    /\ packedSlot = None => packedFrames = 0
    /\ packedSlot # None => HoldsFrames(packedSlot, packedFrames, frameCursor)
    /\ producerPc = "release" =>
         /\ header[packedSlot].frameCount = packedFrames
         /\ header[packedSlot].frameEnd = frameCursor
    /\ \A s \in Slots : slotState[s] \in {"ready", "reading"} =>
         HoldsFrames(s, header[s].frameCount, header[s].frameEnd)
    /\ \A v \in held :
         /\ header[v.slot].sequence = v.sequence
         /\ header[v.slot].frameCount = v.frameCount
         /\ header[v.slot].frameEnd = v.frameEnd

\* Slots that are read or ready keep their contents when their fields do not
\* change and none joins them
LEMMA ContentsOfFewer ==
    ASSUME Contents, Types, header' = header, payload' = payload,
           \A s \in Slots : slotState'[s] \in {"ready", "reading"}
                             => slotState[s] \in {"ready", "reading"},
           held' \subseteq held
    PROVE  /\ \A s \in Slots : slotState'[s] \in {"ready", "reading"} =>
                HoldsFrames(s, header[s].frameCount, header[s].frameEnd)'
           /\ \A v \in held' :
                /\ header'[v.slot].sequence = v.sequence
                /\ header'[v.slot].frameCount = v.frameCount
                /\ header'[v.slot].frameEnd = v.frameEnd
BY DEF Contents, HoldsFrames

\* The producer writes only a slot it owns, and publishes what it wrote
LEMMA ContentsProduce ==
    ASSUME Types, Ownership, Contents, Producer
    PROVE  Contents'
<1> USE DEF slotVars, packVars, revisionVars, producerVars, localVars,
            consumerVars, outerVars
<1>0. /\ slotState \in [Slots -> States] /\ header \in [Slots -> Headers]
      /\ payload \in [Slots -> [1..FramesPerSlot -> Nat]]
      /\ packedSlot \in Slots \cup {None} /\ claim \in Claims
      /\ packedFrames \in 0..FramesPerSlot /\ frameCursor \in Nat
      /\ \A v \in held : v.slot \in Slots /\ slotState[v.slot] = "reading"
  BY DEF Types, SlotTypes, ProducerTypes, ConsumerTypes, Views, Ownership, ReaderOwns
<1>1. CASE \E n \in 1..FramesPerSlot : PublishBlock(n)
  <2>1. PICK n \in 1..FramesPerSlot : PublishBlock(n)
    BY <1>1
  <2>2. /\ header' = header /\ payload' = payload /\ held' = held
        /\ producerPc' # "release" /\ frameCursor' = frameCursor
    BY <2>1 DEF PublishBlock
  <2>3. \A s \in Slots : slotState'[s] \in {"ready", "reading"}
                           => slotState[s] \in {"ready", "reading"}
    BY <2>1 DEF PublishBlock
  <2>4. \/ packedSlot' = packedSlot /\ packedFrames' = packedFrames
        \/ packedSlot' = None /\ packedFrames' = 0
    BY <2>1 DEF PublishBlock
  <2>. QED  BY <2>2, <2>3, <2>4, ContentsOfFewer DEF Contents, HoldsFrames
<1>2. CASE RetirePassesOver \/ RetireReady \/ RetireCounts \/ EnterLifecycle
           \/ AnnounceLifecycle \/ BeginPackedChunk \/ ClaimPassesOver \/ ReclaimOldest
  <2>1. /\ header' = header /\ payload' = payload /\ held' = held
        /\ packedSlot' = packedSlot /\ packedFrames' = packedFrames
        /\ producerPc' # "release" /\ frameCursor' = frameCursor
    BY <1>2 DEF RetirePassesOver, RetireReady, RetireCounts, EnterLifecycle,
                AnnounceLifecycle, BeginPackedChunk, ClaimPassesOver, ReclaimOldest
  <2>2. \A s \in Slots : slotState'[s] \in {"ready", "reading"}
                           => slotState[s] \in {"ready", "reading"}
    BY <1>0, <1>2 DEF RetirePassesOver, RetireReady, RetireCounts, EnterLifecycle,
                AnnounceLifecycle, BeginPackedChunk, ClaimPassesOver, ReclaimOldest
  <2>. QED  BY <2>1, <2>2, ContentsOfFewer DEF Contents, HoldsFrames
<1>3. CASE DropIncoming
  <2>1. /\ header' = header /\ payload' = payload /\ held' = held
        /\ slotState' = slotState /\ packedSlot' = packedSlot
        /\ packedFrames' = packedFrames /\ producerPc' # "release" /\ packedSlot = None
    BY <1>3 DEF DropIncoming, Ownership, WriterOwns, BetweenChunks
  <2>. QED  BY <2>1, ContentsOfFewer DEF Contents, HoldsFrames
<1>4. ASSUME NEW s \in Slots, NEW stamp, Stamp(s, stamp), payload' = payload, held' = held,
             \A t \in Slots : t # s => slotState'[t] = slotState[t],
             slotState'[s] = "writing", slotState[s] # "reading"
      PROVE  Contents'
  <2>1. /\ packedSlot' = s /\ packedFrames' = 0 /\ producerPc' = "packing"
        /\ \A t \in Slots : t # s => header'[t] = header[t]
    BY <1>0, <1>4 DEF Stamp
  <2>2. \A v \in held' : v.slot # s
    BY <1>0, <1>4
  <2>3. packedSlot' # None
    BY <2>1, NoneIsNoSlot
  <2>4. HoldsFrames(packedSlot, packedFrames, frameCursor)'
    BY <2>1 DEF HoldsFrames
  <2>5. ASSUME NEW t \in Slots, slotState'[t] \in {"ready", "reading"}
        PROVE  HoldsFrames(t, header[t].frameCount, header[t].frameEnd)'
    <3>1. t # s
      BY <1>4, <2>5
    <3>. QED  BY <1>4, <2>1, <2>5, <3>1 DEF Contents, HoldsFrames
  <2>6. \A v \in held' :
          /\ header'[v.slot].sequence = v.sequence
          /\ header'[v.slot].frameCount = v.frameCount
          /\ header'[v.slot].frameEnd = v.frameEnd
    BY <1>0, <1>4, <2>1, <2>2 DEF Contents
  <2>. QED  BY <2>1, <2>3, <2>4, <2>5, <2>6 DEF Contents
<1>5. CASE ClaimFree
  <2>1. PICK s \in Slots : /\ slotState[s] = "free"
                           /\ slotState' = [slotState EXCEPT ![s] = "writing"]
                           /\ Stamp(s, revision)
    BY <1>5, RingSlotType DEF ClaimFree
  <2>2. payload' = payload /\ held' = held
    BY <1>5 DEF ClaimFree
  <2>. QED  BY <1>0, <1>4, <2>1, <2>2
<1>6. CASE StampAfterReclaim
  <2>1. /\ claim.oldest \in Slots /\ slotState[claim.oldest] = "writing"
        /\ slotState' = slotState /\ payload' = payload /\ held' = held
        /\ Stamp(claim.oldest, StampOfReclaimed)
    BY <1>6 DEF StampAfterReclaim, Ownership, WriterOwns
  <2>. QED  BY <1>4, <2>1
<1>7. CASE PackFrames
  <2>1. PICK copied \in 0..FramesPerSlot :
          /\ copied <= block.frames /\ packedFrames + copied <= FramesPerSlot
          /\ packedFrames' = packedFrames + copied
          /\ frameCursor' = frameCursor + copied
          /\ block' = [block EXCEPT !.frames = block.frames - copied]
          /\ payload' = [payload EXCEPT ![packedSlot] = [i \in 1..FramesPerSlot |->
                IF i > packedFrames /\ i <= packedFrames + copied
                THEN frameCursor + i - packedFrames ELSE payload[packedSlot][i]]]
    BY <1>7, PackFramesEffect
  <2>2. /\ packedSlot \in Slots /\ slotState[packedSlot] = "writing"
        /\ packedSlot' = packedSlot /\ header' = header /\ held' = held
        /\ slotState' = slotState /\ producerPc' # "release" /\ packedSlot # None
    BY <1>0, <1>7 DEF PackFrames, Ownership, WriterOwns
  <2>3. HoldsFrames(packedSlot, packedFrames, frameCursor)'
    <3>1. SUFFICES ASSUME NEW i \in 1..(packedFrames + copied)
                   PROVE  payload'[packedSlot][i]
                          = (frameCursor + copied) - (packedFrames + copied) + i
      BY <2>1, <2>2 DEF HoldsFrames
    <3>2. i \in 1..FramesPerSlot
      BY <1>0, <2>1
    <3>3. CASE i > packedFrames
      <4>1. payload'[packedSlot][i] = frameCursor + i - packedFrames
        BY <1>0, <2>1, <2>2, <3>2, <3>3
      <4>. QED  BY <1>0, <4>1
    <3>4. CASE ~(i > packedFrames)
      <4>1. payload'[packedSlot][i] = payload[packedSlot][i]
        BY <1>0, <2>1, <2>2, <3>2, <3>4
      <4>2. i \in 1..packedFrames
        BY <1>0, <3>4
      <4>3. payload[packedSlot][i] = frameCursor - packedFrames + i
        BY <2>2, <4>2 DEF Contents, HoldsFrames
      <4>. QED  BY <1>0, <4>1, <4>3
    <3>. QED  BY <3>3, <3>4
  <2>4. ASSUME NEW t \in Slots, slotState'[t] \in {"ready", "reading"}
        PROVE  HoldsFrames(t, header[t].frameCount, header[t].frameEnd)'
    <3>1. t # packedSlot
      BY <2>2, <2>4
    <3>2. payload'[t] = payload[t]
      BY <1>0, <2>1, <3>1
    <3>. QED  BY <2>2, <2>4, <3>2 DEF Contents, HoldsFrames
  <2>. QED  BY <2>2, <2>3, <2>4 DEF Contents
<1>8. CASE FinalizePackedChunk
  <2>1. /\ packedSlot \in Slots /\ slotState[packedSlot] = "writing" /\ packedSlot # None
        /\ packedSlot' = packedSlot /\ packedFrames' = packedFrames /\ held' = held
        /\ frameCursor' = frameCursor /\ slotState' = slotState /\ payload' = payload
    BY <1>0, <1>8 DEF FinalizePackedChunk, Ownership, WriterOwns
  <2>2. /\ header'[packedSlot].frameCount = packedFrames
        /\ header'[packedSlot].frameEnd = frameCursor
        /\ \A t \in Slots : t # packedSlot => header'[t] = header[t]
    BY <1>0, <1>8, <2>1 DEF FinalizePackedChunk, Headers
  <2>3. \A v \in held : v.slot # packedSlot
    BY <1>0, <2>1
  <2>4. ASSUME NEW t \in Slots, slotState'[t] \in {"ready", "reading"}
        PROVE  HoldsFrames(t, header[t].frameCount, header[t].frameEnd)'
    <3>1. t # packedSlot
      BY <2>1, <2>4
    <3>. QED  BY <2>1, <2>2, <2>4, <3>1 DEF Contents, HoldsFrames
  <2>5. HoldsFrames(packedSlot, packedFrames, frameCursor)'
    BY <2>1 DEF Contents, HoldsFrames
  <2>6. \A v \in held' :
          /\ header'[v.slot].sequence = v.sequence
          /\ header'[v.slot].frameCount = v.frameCount
          /\ header'[v.slot].frameEnd = v.frameEnd
    BY <1>0, <2>1, <2>2, <2>3 DEF Contents
  <2>. QED  BY <2>1, <2>2, <2>4, <2>5, <2>6 DEF Contents
<1>9. CASE ReleaseReady
  <2>1. /\ packedSlot \in Slots /\ packedSlot' = None /\ packedFrames' = 0
        /\ producerPc' # "release" /\ held' = held /\ header' = header /\ payload' = payload
        /\ header[packedSlot].frameCount = packedFrames
        /\ header[packedSlot].frameEnd = frameCursor
        /\ HoldsFrames(packedSlot, packedFrames, frameCursor)
    BY <1>0, <1>9 DEF ReleaseReady, Ownership, WriterOwns, Contents
  <2>2. ASSUME NEW t \in Slots, slotState'[t] \in {"ready", "reading"}
        PROVE  HoldsFrames(t, header[t].frameCount, header[t].frameEnd)'
    <3>1. CASE t = packedSlot
      BY <2>1, <3>1 DEF HoldsFrames
    <3>2. CASE t # packedSlot
      <4>1. slotState'[t] = slotState[t]
        BY <1>0, <1>9, <3>2 DEF ReleaseReady
      <4>. QED  BY <2>1, <2>2, <4>1 DEF Contents, HoldsFrames
    <3>. QED  BY <3>1, <3>2
  <2>. QED  BY <2>1, <2>2 DEF Contents
<1>. QED  BY <1>1, <1>2, <1>3, <1>5, <1>6, <1>7, <1>8, <1>9 DEF Producer

\* The worker and the retirement leave the contents they hold alone
LEMMA ContentsConsume ==
    ASSUME Types, Ownership, Contents, Consumer \/ RestartLifecycle \/ RestartAndDiscard
    PROVE  Contents'
<1> USE DEF slotVars, packVars, revisionVars, producerVars, localVars,
            consumerVars, outerVars
<1>0. slotState \in [Slots -> States]
  BY DEF Types, SlotTypes
<1>1. CASE ~AcquireReturns
  <2>1. header' = header /\ payload' = payload /\ held' \subseteq held
    BY <1>1 DEF Consumer, TryAcquireOldest, ScanState, ScanSequence, AcquireFails, AcquireTakes,
              ReleaseHandle, ObserveRevision, Acknowledge, RestartLifecycle,
              RestartAndDiscard
  <2>2. /\ producerPc' = producerPc /\ frameCursor' = frameCursor
        /\ \/ packedSlot' = packedSlot /\ packedFrames' = packedFrames
           \/ packedSlot' = None /\ packedFrames' = 0 /\ producerPc = "idle"
    BY <1>1 DEF Consumer, TryAcquireOldest, ScanState, ScanSequence, AcquireFails, AcquireTakes,
              ReleaseHandle, ObserveRevision, Acknowledge, RestartLifecycle,
              RestartAndDiscard
  <2>3. \A s \in Slots : slotState'[s] \in {"ready", "reading"}
                           => slotState[s] \in {"ready", "reading"}
    <3>1. CASE AcquireTakes
      BY <1>0, <3>1 DEF AcquireTakes, StillReady
    <3>2. CASE \E v \in held : ReleaseHandle(v)
      BY <1>0, <3>2 DEF ReleaseHandle
    <3>3. CASE RestartLifecycle
      BY <1>0, <3>3 DEF RestartLifecycle
    <3>4. CASE RestartAndDiscard
      BY <3>4 DEF RestartAndDiscard
    <3>. QED  BY <1>1, <3>1, <3>2, <3>3, <3>4
                 DEF Consumer, TryAcquireOldest, ScanState, ScanSequence, AcquireFails,
                     ObserveRevision, Acknowledge
  <2>. QED  BY <2>1, <2>2, <2>3, ContentsOfFewer DEF Contents, HoldsFrames
<1>2. CASE AcquireReturns
  <2>1. PICK flag : held' = held \cup {View(scan.oldest, flag)}
    BY <1>2 DEF AcquireReturns
  <2>2. /\ header' = header /\ payload' = payload /\ slotState' = slotState
        /\ packedSlot' = packedSlot /\ packedFrames' = packedFrames
        /\ frameCursor' = frameCursor /\ producerPc' = producerPc
    BY <1>2 DEF AcquireReturns
  <2>3. \A v \in held' :
          /\ header[v.slot].sequence = v.sequence
          /\ header[v.slot].frameCount = v.frameCount
          /\ header[v.slot].frameEnd = v.frameEnd
    BY <2>1 DEF Contents, View
  <2>. QED  BY <2>2, <2>3 DEF Contents, HoldsFrames
<1>. QED  BY <1>1, <1>2

-----------------------------------------------------------------------------
(***************************************************************************)
(* Revisions: the worker is never ahead of what the producer published for   *)
(* the lifecycle the worker is in, and a sequence taken for a loss is later   *)
(* than every revision before it.                                          *)
(***************************************************************************)
LifecyclesOrdered ==
    /\ publishedLifecycle <= producerLifecycle
    /\ producerLifecycle <= block.lifecycle
    /\ block.lifecycle <= admitted.lifecycle
    /\ admitted.lifecycle <= admitted.generation
    /\ producerPc \in {"retire", "retired"} => producerLifecycle < block.lifecycle
    /\ producerPc = "announce" =>
         producerLifecycle = block.lifecycle /\ publishedLifecycle < block.lifecycle

WorkerBehind ==
    /\ publishedRevision = revision
    /\ acknowledged <= observed
    /\ IF publishedLifecycle = admitted.lifecycle
       THEN observed <= revision ELSE observed = 0

RevisionsPast ==
    IF producerPc \in {"claim", "reclaim", "reclaimed"}
    THEN revision <= nextSequence - 2 ELSE revision <= nextSequence - 1

Revisions == LifecyclesOrdered /\ WorkerBehind /\ RevisionsPast /\ LossVisible

\* What the revision invariant compares are numbers
LEMMA RevisionsNumbers ==
    ASSUME Types
    PROVE  /\ revision \in Nat /\ publishedRevision \in Nat /\ acknowledged \in Nat
           /\ observed \in Nat /\ nextSequence \in Nat \ {0}
           /\ publishedLifecycle \in Nat /\ producerLifecycle \in Nat
           /\ block.lifecycle \in Nat /\ admitted.lifecycle \in Nat
           /\ admitted.generation \in Nat
BY DEF Types, ProducerTypes, ConsumerTypes, Blocks

\* An episode that begins has a revision the worker has not acknowledged
LEMMA RevisionsOfLoss ==
    ASSUME Types, Revisions, producerPc \in {"reclaim", "reclaimed"},
           BeginCaptureDiscontinuity,
           producerPc' \in {"packing", "idle"},
           UNCHANGED <<nextSequence, producerLifecycle, outerVars>>,
           block'.lifecycle = block.lifecycle
    PROVE  Revisions'
<1> USE DEF outerVars
<1>1. /\ acknowledged <= revision
      /\ revision <= nextSequence - 2
  BY RevisionsNumbers DEF Revisions, WorkerBehind, RevisionsPast
<1>2. /\ RevisionAfterLoss > acknowledged
      /\ revision <= RevisionAfterLoss /\ RevisionAfterLoss <= nextSequence - 1
  BY <1>1, RevisionsNumbers DEF RevisionAfterLoss, StartsEpisode
<1>3. /\ revision' = RevisionAfterLoss /\ publishedRevision' = RevisionAfterLoss
      /\ publishedLifecycle' = publishedLifecycle
  BY DEF BeginCaptureDiscontinuity
<1>4. RevisionAfterLoss \in Nat
  BY RevisionType
<1>5. LifecyclesOrdered'
  BY <1>3 DEF Revisions, LifecyclesOrdered
<1>6. WorkerBehind'
  BY <1>2, <1>3, <1>4, RevisionsNumbers DEF Revisions, WorkerBehind
<1>. QED  BY <1>2, <1>3, <1>5, <1>6 DEF Revisions, RevisionsPast, LossVisible

\* The producer raises the revision with each loss it records
LEMMA RevisionsProduce ==
    ASSUME Types, Revisions, Producer
    PROVE  Revisions'
<1> USE RevisionsNumbers DEF revisionVars, producerVars, localVars, outerVars, packVars
<1>1. CASE \E n \in 1..FramesPerSlot : PublishBlock(n)
  <2>1. PICK n \in 1..FramesPerSlot : PublishBlock(n)
    BY <1>1
  <2>2. block'.lifecycle = admitted.lifecycle
    BY <2>1 DEF PublishBlock
  <2>. QED  BY <2>1, <2>2 DEF PublishBlock, Revisions, LifecyclesOrdered, WorkerBehind,
                             RevisionsPast, LossVisible
<1>2. CASE RetirePassesOver \/ RetireReady \/ RetireCounts
  BY <1>2 DEF RetirePassesOver, RetireReady, RetireCounts, Revisions, LifecyclesOrdered,
              WorkerBehind, RevisionsPast, LossVisible
<1>3. CASE EnterLifecycle
  <2>1. publishedLifecycle < admitted.lifecycle
    BY <1>3 DEF EnterLifecycle, Revisions, LifecyclesOrdered
  <2>2. LifecyclesOrdered'
    BY <1>3 DEF EnterLifecycle, Revisions, LifecyclesOrdered
  <2>. QED  BY <1>3, <2>1, <2>2 DEF EnterLifecycle, Revisions, WorkerBehind, RevisionsPast,
                                    LossVisible
<1>4. CASE AnnounceLifecycle
  <2>1. publishedLifecycle < admitted.lifecycle
    BY <1>4 DEF AnnounceLifecycle, Revisions, LifecyclesOrdered
  <2>2. LifecyclesOrdered'
    BY <1>4 DEF AnnounceLifecycle, Revisions, LifecyclesOrdered
  <2>. QED  BY <1>4, <2>1, <2>2 DEF AnnounceLifecycle, Revisions, WorkerBehind, RevisionsPast,
                                    LossVisible
<1>5. CASE BeginPackedChunk
  BY <1>5 DEF BeginPackedChunk, Revisions, LifecyclesOrdered, WorkerBehind, RevisionsPast,
              LossVisible
<1>6. CASE ClaimFree
  <2>1. producerPc' = "packing"
    BY <1>6 DEF ClaimFree, Stamp
  <2>. QED  BY <1>6, <2>1 DEF ClaimFree, Revisions, LifecyclesOrdered, WorkerBehind,
                              RevisionsPast, LossVisible
<1>7. CASE ClaimPassesOver \/ ReclaimOldest
  BY <1>7 DEF ClaimPassesOver, ReclaimOldest, Revisions, LifecyclesOrdered, WorkerBehind,
              RevisionsPast, LossVisible
<1>8. CASE StampAfterReclaim
  BY <1>8, RevisionsOfLoss DEF StampAfterReclaim, Stamp
<1>9. CASE DropIncoming
  <2>1. block'.lifecycle = block.lifecycle
    BY <1>9 DEF DropIncoming, Types, ProducerTypes, Blocks
  <2>. QED  BY <1>9, <2>1, RevisionsOfLoss DEF DropIncoming
<1>10. CASE PackFrames \/ FinalizePackedChunk \/ ReleaseReady
  <2>1. block'.lifecycle = block.lifecycle
    <3>1. CASE PackFrames
      <4>1. PICK copied : block' = [block EXCEPT !.frames = block.frames - copied]
        BY <3>1, PackFramesEffect
      <4>. QED  BY <4>1 DEF Types, ProducerTypes, Blocks
    <3>. QED  BY <1>10, <3>1 DEF FinalizePackedChunk, ReleaseReady
  <2>2. UNCHANGED <<revision, publishedRevision, publishedLifecycle, openLoss,
                    producerLifecycle, nextSequence, outerVars>>
    BY <1>10 DEF PackFrames, FinalizePackedChunk, ReleaseReady
  <2>3. producerPc \in {"packing", "finalize", "release"}
        /\ producerPc' \in {"finalize", "idle", "release", "packing"}
    BY <1>10 DEF PackFrames, FinalizePackedChunk, ReleaseReady
  <2>. QED  BY <2>1, <2>2, <2>3 DEF Revisions, LifecyclesOrdered, WorkerBehind, RevisionsPast,
                                    LossVisible
<1>. QED  BY <1>1, <1>2, <1>3, <1>4, <1>5, <1>6, <1>7, <1>8, <1>9, <1>10 DEF Producer

\* The worker and the retirement keep the revisions in order
LEMMA RevisionsConsume ==
    ASSUME Types, Revisions, Consumer \/ RestartLifecycle \/ RestartAndDiscard
    PROVE  Revisions'
<1> USE RevisionsNumbers DEF revisionVars, producerVars, localVars, outerVars
<1>1. CASE \/ TryAcquireOldest \/ ScanState \/ ScanSequence
           \/ AcquireFails \/ AcquireTakes \/ AcquireReturns
           \/ \E v \in held : ReleaseHandle(v)
  BY <1>1 DEF TryAcquireOldest, ScanState, ScanSequence, AcquireFails, AcquireTakes,
              AcquireReturns, ReleaseHandle, Revisions, LifecyclesOrdered, WorkerBehind,
              RevisionsPast, LossVisible
<1>2. CASE ObserveRevision
  <2>1. /\ publishedLifecycle = admitted.lifecycle /\ observed' = publishedRevision
        /\ publishedRevision > acknowledged
        /\ admitted'.lifecycle = admitted.lifecycle
        /\ admitted'.generation = admitted.generation + 1
    BY <1>2 DEF ObserveRevision, CaptureDiscontinuityRevision, Types, ConsumerTypes
  <2>. QED  BY <1>2, <2>1 DEF ObserveRevision, Revisions, LifecyclesOrdered, WorkerBehind,
                              RevisionsPast, LossVisible
<1>3. CASE Acknowledge
  <2>1. observed # 0 /\ acknowledged' = observed
    BY <1>3 DEF Acknowledge, Revisions, WorkerBehind
  <2>2. publishedLifecycle = admitted.lifecycle /\ observed <= revision
    BY <2>1 DEF Revisions, WorkerBehind
  <2>3. UNCHANGED <<revision, publishedRevision, publishedLifecycle, producerLifecycle,
                    nextSequence, producerPc, block, admitted, observed>>
    BY <1>3 DEF Acknowledge
  <2>4. openLoss' => revision # observed
    BY <1>3 DEF Acknowledge
  <2>5. LossVisible'
    BY <2>1, <2>2, <2>3, <2>4 DEF Revisions, WorkerBehind, LossVisible
  <2>. QED  BY <2>1, <2>2, <2>3, <2>5 DEF Revisions, LifecyclesOrdered, WorkerBehind,
                                          RevisionsPast
<1>4. CASE RestartLifecycle \/ RestartAndDiscard
  <2>1. /\ admitted'.lifecycle = admitted.generation + 1
        /\ admitted'.generation = admitted.generation + 1
    BY <1>4 DEF RestartLifecycle, RestartAndDiscard, NewLifecycle
  <2>2. publishedLifecycle # admitted.generation + 1
    BY DEF Revisions, LifecyclesOrdered
  <2>3. observed' = 0 /\ acknowledged' = 0
    BY <1>4, <2>2 DEF RestartLifecycle, RestartAndDiscard, NewLifecycle,
                      CaptureDiscontinuityRevision
  <2>4. UNCHANGED <<revision, publishedRevision, publishedLifecycle, openLoss,
                    producerLifecycle, nextSequence, producerPc, block>>
    BY <1>4 DEF RestartLifecycle, RestartAndDiscard
  <2>. QED  BY <2>1, <2>2, <2>3, <2>4 DEF Revisions, LifecyclesOrdered, WorkerBehind,
                                          RevisionsPast, LossVisible
<1>. QED  BY <1>1, <1>2, <1>3, <1>4 DEF Consumer

-----------------------------------------------------------------------------
(***************************************************************************)
(* Continuity: chunks with consecutive sequences are contiguous, those that  *)
(* wait, the one being acquired and the one acquired before.                 *)
(***************************************************************************)
Finished(s) == slotState[s] = "ready" \/ (consumerPc = "taken" /\ s = scan.oldest)

\* The sequence of the newest chunk that has been finished, and the frame the
\* chunk after it starts behind
LastSequence ==
    IF producerPc \in {"claim", "reclaim", "reclaimed"} \/ packedSlot # None
    THEN nextSequence - 2 ELSE nextSequence - 1
NextStart == frameCursor - packedFrames

EndsBefore(chunk) ==
    /\ chunk.sequence <= LastSequence
    /\ chunk.sequence = LastSequence => chunk.frameEnd = NextStart

Continues(h, earlier) ==
    h.sequence = earlier.sequence + 1 => h.frameEnd - h.frameCount = earlier.frameEnd

Continuity ==
    /\ packedSlot # None => header[packedSlot].sequence = nextSequence - 1
    /\ \A s \in Slots : Finished(s) => EndsBefore(header[s])
    /\ previous.sequence # 0 => EndsBefore(previous)
    /\ \A s, t \in Slots : Finished(s) /\ Finished(t) => Continues(header[t], header[s])
    /\ \A t \in Slots :
         previous.sequence # 0 /\ Finished(t) => Continues(header[t], previous)

\* A step that finishes no chunk, touches no finished one and leaves the end
\* of the last one alone, or moves past it
LEMMA ContinuityOfFewer ==
    ASSUME Types, Continuity,
           \A s \in Slots : Finished(s)' => Finished(s) /\ header'[s] = header[s],
           previous' = previous \/ previous'.sequence = 0,
           \/ LastSequence' = LastSequence /\ NextStart' = NextStart
           \/ LastSequence' = LastSequence + 1,
           packedSlot' # None => header'[packedSlot'].sequence = nextSequence' - 1
    PROVE  Continuity'
<1>0. /\ LastSequence \in Int /\ previous \in Previouses
      /\ header \in [Slots -> Headers]
  BY DEF Types, SlotTypes, ProducerTypes, ConsumerTypes, LastSequence
<1>1. ASSUME NEW s \in Slots, Finished(s)'
      PROVE  EndsBefore(header[s])'
  BY <1>0, <1>1 DEF EndsBefore, Continuity, Headers
<1>2. ASSUME previous'.sequence # 0 PROVE EndsBefore(previous)'
  BY <1>0, <1>2 DEF EndsBefore, Continuity, Previouses
<1>3. \A s, t \in Slots : Finished(s)' /\ Finished(t)' => Continues(header[t], header[s])'
  BY DEF Continuity, Continues
<1>4. \A t \in Slots :
        previous'.sequence # 0 /\ Finished(t)' => Continues(header[t], previous)'
  BY DEF Continuity, Continues
<1>. QED  BY <1>1, <1>2, <1>3, <1>4 DEF Continuity

\* What the continuity invariant compares are numbers
LEMMA ContinuityNumbers ==
    ASSUME Types
    PROVE  /\ nextSequence \in Nat \ {0} /\ frameCursor \in Nat /\ packedFrames \in Nat
           /\ packedSlot \in Slots \cup {None} /\ block \in Blocks /\ claim \in Claims
           /\ slotState \in [Slots -> States] /\ header \in [Slots -> Headers]
           /\ scan \in Scans /\ previous \in Previouses
BY DEF Types, SlotTypes, ProducerTypes, ConsumerTypes

\* A chunk the producer publishes follows the one before, or carries the mark
LEMMA ContinuityProduce ==
    ASSUME Types, Ownership, Contents, Continuity, Producer
    PROVE  Continuity'
<1> USE ContinuityNumbers
    DEF slotVars, packVars, revisionVars, producerVars, localVars, consumerVars, outerVars
<1>1. CASE \E n \in 1..FramesPerSlot : PublishBlock(n)
  <2>1. PICK n \in 1..FramesPerSlot : PublishBlock(n)
    BY <1>1
  <2>2. \A s \in Slots : Finished(s)' => Finished(s) /\ header'[s] = header[s]
    BY <2>1 DEF PublishBlock, Finished
  <2>3. \/ LastSequence' = LastSequence /\ NextStart' = NextStart
        \/ LastSequence' = LastSequence + 1
    <3>1. CASE packedSlot' = packedSlot /\ packedFrames' = packedFrames
      BY <2>1, <3>1 DEF PublishBlock, LastSequence, NextStart
    <3>2. CASE packedSlot' = None /\ packedFrames' = 0
      BY <2>1, <3>2 DEF PublishBlock, LastSequence, NextStart, Contents
    <3>. QED  BY <2>1, <3>1, <3>2 DEF PublishBlock
  <2>4. packedSlot' # None => header'[packedSlot'].sequence = nextSequence' - 1
    BY <2>1 DEF PublishBlock, Continuity
  <2>5. previous' = previous
    BY <2>1 DEF PublishBlock
  <2>. QED  BY <2>2, <2>3, <2>4, <2>5, ContinuityOfFewer
<1>2. CASE RetirePassesOver \/ RetireReady \/ RetireCounts \/ EnterLifecycle
           \/ AnnounceLifecycle \/ BeginPackedChunk \/ ClaimPassesOver \/ ReclaimOldest
  <2>1. \A s \in Slots : Finished(s)' => Finished(s) /\ header'[s] = header[s]
    BY <1>2 DEF RetirePassesOver, RetireReady, RetireCounts, EnterLifecycle,
                AnnounceLifecycle, BeginPackedChunk, ClaimPassesOver, ReclaimOldest, Finished
  <2>2. LastSequence' = LastSequence /\ NextStart' = NextStart
    <3>1. packedSlot = None /\ packedSlot' = None
      BY <1>2 DEF RetirePassesOver, RetireReady, RetireCounts, EnterLifecycle,
                AnnounceLifecycle, BeginPackedChunk, ClaimPassesOver, ReclaimOldest,
                Ownership, WriterOwns, BetweenChunks
    <3>. QED  BY <1>2, <3>1
              DEF RetirePassesOver, RetireReady, RetireCounts, EnterLifecycle,
                AnnounceLifecycle, BeginPackedChunk, ClaimPassesOver, ReclaimOldest,
                LastSequence, NextStart
  <2>3. previous' = previous /\ packedSlot' = None
    BY <1>2 DEF RetirePassesOver, RetireReady, RetireCounts, EnterLifecycle,
                AnnounceLifecycle, BeginPackedChunk, ClaimPassesOver, ReclaimOldest,
                Ownership, WriterOwns, BetweenChunks
  <2>. QED  BY <2>1, <2>2, <2>3, ContinuityOfFewer
<1>3. CASE DropIncoming
  <2>1. packedSlot = None /\ packedSlot' = None
    BY <1>3 DEF DropIncoming, Ownership, WriterOwns, BetweenChunks
  <2>2. LastSequence' = LastSequence + 1
    BY <1>3, <2>1 DEF DropIncoming, LastSequence
  <2>3. \A s \in Slots : Finished(s)' => Finished(s) /\ header'[s] = header[s]
    BY <1>3 DEF DropIncoming, Finished
  <2>4. previous' = previous
    BY <1>3 DEF DropIncoming
  <2>. QED  BY <2>1, <2>2, <2>3, <2>4, ContinuityOfFewer
<1>4. ASSUME NEW s \in Slots, NEW stamp, Stamp(s, stamp),
             producerPc \in {"claim", "reclaimed"},
             UNCHANGED <<nextSequence, frameCursor, consumerVars>>,
             \A t \in Slots : t # s => slotState'[t] = slotState[t],
             slotState'[s] = "writing", slotState[s] # "reading"
      PROVE  Continuity'
  <2>1. /\ packedSlot' = s /\ packedFrames' = 0 /\ producerPc' = "packing"
        /\ \A t \in Slots : t # s => header'[t] = header[t]
        /\ header'[s] = StampedHeader(stamp)
    BY <1>4 DEF Stamp
  <2>2. packedSlot = None /\ packedFrames = 0 /\ packedSlot' # None
    BY <1>4, <2>1, NoneIsNoSlot DEF Ownership, WriterOwns, BetweenChunks, Contents
  <2>3. LastSequence' = LastSequence /\ NextStart' = NextStart
    BY <1>4, <2>1, <2>2 DEF LastSequence, NextStart
  <2>4. header'[packedSlot'].sequence = nextSequence' - 1
    BY <1>4, <2>1 DEF StampedHeader
  <2>5. \A t \in Slots : Finished(t)' => Finished(t) /\ header'[t] = header[t]
    BY <1>4, <2>1 DEF Finished, Ownership, ReaderOwns
  <2>. QED  BY <1>4, <2>3, <2>4, <2>5, ContinuityOfFewer
<1>5. CASE ClaimFree
  <2>1. PICK s \in Slots : /\ slotState[s] = "free"
                           /\ slotState' = [slotState EXCEPT ![s] = "writing"]
                           /\ Stamp(s, revision)
    BY <1>5, RingSlotType DEF ClaimFree
  <2>2. producerPc = "claim" /\ UNCHANGED <<nextSequence, frameCursor, consumerVars>>
    BY <1>5 DEF ClaimFree
  <2>. QED  BY <1>4, <2>1, <2>2
<1>6. CASE StampAfterReclaim
  <2>1. /\ claim.oldest \in Slots /\ slotState[claim.oldest] = "writing"
        /\ slotState' = slotState /\ producerPc = "reclaimed"
        /\ Stamp(claim.oldest, StampOfReclaimed)
        /\ UNCHANGED <<nextSequence, frameCursor, consumerVars>>
    BY <1>6 DEF StampAfterReclaim, Ownership, WriterOwns
  <2>. QED  BY <1>4, <2>1
<1>7. CASE PackFrames
  <2>1. PICK copied \in 0..FramesPerSlot :
          packedFrames' = packedFrames + copied /\ frameCursor' = frameCursor + copied
    BY <1>7, PackFramesEffect
  <2>2. /\ packedSlot # None /\ packedSlot' = packedSlot /\ header' = header
        /\ slotState' = slotState /\ nextSequence' = nextSequence
        /\ UNCHANGED consumerVars
    BY <1>7 DEF PackFrames
  <2>3. LastSequence' = LastSequence /\ NextStart' = NextStart
    BY <2>1, <2>2 DEF LastSequence, NextStart
  <2>4. \A s \in Slots : Finished(s)' => Finished(s) /\ header'[s] = header[s]
    BY <2>2 DEF Finished
  <2>. QED  BY <2>2, <2>3, <2>4, ContinuityOfFewer DEF Continuity
<1>8. CASE FinalizePackedChunk
  <2>1. /\ packedSlot \in Slots /\ slotState[packedSlot] = "writing" /\ packedSlot # None
        /\ packedSlot' = packedSlot /\ packedFrames' = packedFrames
        /\ UNCHANGED <<frameCursor, nextSequence, slotState, consumerVars>>
    BY <1>8 DEF FinalizePackedChunk, Ownership, WriterOwns
  <2>2. /\ header'[packedSlot].sequence = header[packedSlot].sequence
        /\ \A t \in Slots : t # packedSlot => header'[t] = header[t]
    BY <1>8, <2>1 DEF FinalizePackedChunk, Headers
  <2>3. \A s \in Slots : Finished(s)' => Finished(s) /\ header'[s] = header[s]
    BY <2>1, <2>2 DEF Finished, Ownership, ReaderOwns
  <2>4. LastSequence' = LastSequence /\ NextStart' = NextStart
    BY <2>1 DEF LastSequence, NextStart
  <2>. QED  BY <2>1, <2>2, <2>3, <2>4, ContinuityOfFewer DEF Continuity
<1>9. CASE ReleaseReady
  <2>1. /\ packedSlot \in Slots /\ packedSlot # None
        /\ packedSlot' = None /\ packedFrames' = 0
        /\ producerPc' \in {"packing", "idle"}
        /\ UNCHANGED <<header, frameCursor, nextSequence, consumerVars>>
        /\ header[packedSlot].frameCount = packedFrames
        /\ header[packedSlot].frameEnd = frameCursor
        /\ header[packedSlot].sequence = nextSequence - 1
    BY <1>9 DEF ReleaseReady, Ownership, WriterOwns, Contents, Continuity
  <2>2. LastSequence' = nextSequence - 1 /\ LastSequence = nextSequence - 2
        /\ NextStart' = frameCursor
    BY <1>9, <2>1 DEF LastSequence, NextStart
  <2>3. \A s \in Slots : s # packedSlot /\ Finished(s)' => Finished(s)
    BY <1>9, <2>1 DEF ReleaseReady, Finished
  <2>4. ASSUME NEW h, h.sequence \in Nat, EndsBefore(h)
        PROVE  EndsBefore(h)' /\ h.sequence # nextSequence - 1 /\ h.sequence # nextSequence
               /\ Continues(header[packedSlot], h)
    BY <2>1, <2>2, <2>4 DEF EndsBefore, Continues, NextStart
  <2>5. \A s \in Slots : header[s].sequence \in Nat
    BY DEF Headers
  <2>6. previous.sequence \in Nat
    BY DEF Previouses
  <2>7. ASSUME NEW s \in Slots, Finished(s)' PROVE EndsBefore(header[s])'
    <3>1. CASE s = packedSlot
      BY <2>1, <2>2, <3>1 DEF EndsBefore
    <3>2. CASE s # packedSlot
      BY <2>1, <2>3, <2>4, <2>5, <2>7, <3>2 DEF Continuity, EndsBefore
    <3>. QED  BY <3>1, <3>2
  <2>8. previous'.sequence # 0 => EndsBefore(previous)'
    BY <2>1, <2>4, <2>6 DEF Continuity, EndsBefore
  <2>9. ASSUME NEW s \in Slots, NEW t \in Slots, Finished(s)', Finished(t)'
        PROVE  Continues(header[t], header[s])
    <3>1. CASE s # packedSlot /\ t # packedSlot
      BY <2>3, <2>9, <3>1 DEF Continuity
    <3>2. CASE s # packedSlot /\ t = packedSlot
      BY <2>3, <2>4, <2>5, <2>9, <3>2 DEF Continuity
    <3>3. CASE s = packedSlot
      <4>1. header[t].sequence # nextSequence
        BY <2>1, <2>3, <2>4, <2>5, <2>9 DEF Continuity
      <4>. QED  BY <2>1, <3>3, <4>1 DEF Continues
    <3>. QED  BY <3>1, <3>2, <3>3
  <2>10. ASSUME NEW t \in Slots, previous.sequence # 0, Finished(t)'
         PROVE  Continues(header[t], previous)
    BY <2>3, <2>4, <2>6, <2>10 DEF Continuity
  <2>11. \A s, t \in Slots : Finished(s)' /\ Finished(t)' => Continues(header[t], header[s])'
    BY <2>1, <2>9 DEF Continues
  <2>12. \A t \in Slots :
           previous'.sequence # 0 /\ Finished(t)' => Continues(header[t], previous)'
    BY <2>1, <2>10 DEF Continues
  <2>. QED  BY <2>1, <2>7, <2>8, <2>11, <2>12 DEF Continuity
<1>. QED  BY <1>1, <1>2, <1>3, <1>5, <1>6, <1>7, <1>8, <1>9 DEF Producer

\* Taking or releasing a chunk keeps the account of what was skipped
LEMMA ContinuityConsume ==
    ASSUME Types, Ownership, Contents, Continuity,
           Consumer \/ RestartLifecycle \/ RestartAndDiscard
    PROVE  Continuity'
<1> USE ContinuityNumbers
    DEF slotVars, packVars, revisionVars, producerVars, localVars, consumerVars, outerVars
<1>1. CASE ~AcquireReturns
  <2>1. header' = header /\ nextSequence' = nextSequence
    BY <1>1 DEF Consumer, TryAcquireOldest, ScanState, ScanSequence, AcquireFails,
              AcquireTakes, ReleaseHandle, ObserveRevision, Acknowledge, RestartLifecycle,
              RestartAndDiscard
  <2>2. \/ /\ packedSlot' = packedSlot /\ packedFrames' = packedFrames
           /\ frameCursor' = frameCursor /\ producerPc' = producerPc
        \/ packedSlot' = None /\ packedFrames' = 0 /\ frameCursor' = frameCursor
           /\ producerPc = "idle" /\ producerPc' = "idle"
    BY <1>1 DEF Consumer, TryAcquireOldest, ScanState, ScanSequence, AcquireFails,
              AcquireTakes, ReleaseHandle, ObserveRevision, Acknowledge, RestartLifecycle,
              RestartAndDiscard
  <2>3. previous' = previous \/ previous'.sequence = 0
    BY <1>1 DEF Consumer, TryAcquireOldest, ScanState, ScanSequence, AcquireFails,
              AcquireTakes, ReleaseHandle, ObserveRevision, Acknowledge, RestartLifecycle,
              RestartAndDiscard, NoPrevious
  <2>4. \A s \in Slots : Finished(s)' => Finished(s)
    <3>1. CASE AcquireTakes
      BY <3>1 DEF AcquireTakes, StillReady, Finished
    <3>2. CASE \E v \in held : ReleaseHandle(v)
      BY <3>2 DEF ReleaseHandle, Finished
    <3>3. CASE RestartLifecycle
      BY <3>3 DEF RestartLifecycle, Finished
    <3>4. CASE RestartAndDiscard
      BY <3>4 DEF RestartAndDiscard, NewLifecycle, Finished
    <3>. QED  BY <1>1, <3>1, <3>2, <3>3, <3>4
                 DEF Consumer, TryAcquireOldest, ScanState, ScanSequence, AcquireFails,
                     ObserveRevision, Acknowledge, Finished
  <2>5. \/ LastSequence' = LastSequence /\ NextStart' = NextStart
        \/ LastSequence' = LastSequence + 1
    BY <2>1, <2>2 DEF LastSequence, NextStart, Contents
  <2>6. packedSlot' # None => header'[packedSlot'].sequence = nextSequence' - 1
    BY <2>1, <2>2 DEF Continuity
  <2>. QED  BY <2>1, <2>3, <2>4, <2>5, <2>6, ContinuityOfFewer
<1>2. CASE AcquireReturns
  <2>1. /\ scan.oldest \in Slots /\ Finished(scan.oldest)
        /\ previous'.sequence = header[scan.oldest].sequence
        /\ previous'.frameEnd = header[scan.oldest].frameEnd
    BY <1>2 DEF AcquireReturns, Ownership, ReaderOwns, Finished
  <2>2. UNCHANGED <<header, slotState, packedSlot, packedFrames, frameCursor, nextSequence,
                    producerPc>>
    BY <1>2 DEF AcquireReturns
  <2>3. \A s \in Slots : Finished(s)' => Finished(s)
    BY <1>2 DEF AcquireReturns, Finished
  <2>4. LastSequence' = LastSequence /\ NextStart' = NextStart
    BY <2>2 DEF LastSequence, NextStart
  <2>5. \A s \in Slots : Finished(s)' => EndsBefore(header[s])'
    BY <2>2, <2>3, <2>4 DEF Continuity, EndsBefore
  <2>6. EndsBefore(previous)'
    BY <2>1, <2>4 DEF Continuity, EndsBefore
  <2>7. \A s, t \in Slots : Finished(s)' /\ Finished(t)' => Continues(header[t], header[s])'
    BY <2>2, <2>3 DEF Continuity, Continues
  <2>8. \A t \in Slots : Finished(t)' => Continues(header[t], previous)'
    BY <2>1, <2>2, <2>3 DEF Continuity, Continues
  <2>. QED  BY <2>2, <2>5, <2>6, <2>7, <2>8 DEF Continuity
<1>. QED  BY <1>1, <1>2

-----------------------------------------------------------------------------
(***************************************************************************)
(* The invariant and the theorems.                                         *)
(***************************************************************************)
IInv == Types /\ Ownership /\ Contents /\ Revisions /\ Continuity

\* A new capture satisfies the invariant
LEMMA InitIInv == Init => IInv
<1> SUFFICES ASSUME Init PROVE IInv
  OBVIOUS
<1>1. Types
  BY InitTypes
<1>2. Ownership
  BY DEF Init, Ownership, WriterOwns, ReaderOwns, BetweenChunks
<1>3. Contents
  BY DEF Init, Contents, HoldsFrames
<1>4. Revisions
  BY DEF Init, Revisions, LifecyclesOrdered, WorkerBehind, RevisionsPast, LossVisible
<1>5. Continuity
  BY DEF Init, Continuity, Finished, NoPrevious
<1>. QED  BY <1>1, <1>2, <1>3, <1>4, <1>5 DEF IInv

\* Every step of the three parties preserves it
LEMMA NextIInv == IInv /\ [Next]_vars => IInv'
<1> SUFFICES ASSUME IInv, [Next]_vars PROVE IInv'
  OBVIOUS
<1>1. CASE Producer
  <2>1. Types'
    BY <1>1, TypesBegin, TypesPack DEF Producer, IInv, Ownership, WriterOwns
  <2>. QED  BY <1>1, <2>1, OwnershipProduce, ContentsProduce, RevisionsProduce,
               ContinuityProduce DEF IInv
<1>2. CASE Consumer \/ RestartLifecycle \/ RestartAndDiscard
  <2>1. Types'
    BY <1>2, TypesConsume DEF Consumer, IInv, Ownership, ReaderOwns
  <2>. QED  BY <1>2, <2>1, OwnershipConsume, ContentsConsume, RevisionsConsume,
               ContinuityConsume DEF IInv
<1>3. CASE UNCHANGED vars
  <2> USE <1>3 DEF vars, slotVars, packVars, revisionVars, producerVars, localVars,
                   consumerVars, outerVars
  <2>1. Types'
    BY DEF IInv, Types, SlotTypes, ProducerTypes, ConsumerTypes
  <2>2. Ownership' /\ Contents'
    BY DEF IInv, Ownership, WriterOwns, ReaderOwns, Contents, HoldsFrames
  <2>3. Revisions'
    BY DEF IInv, Revisions, LifecyclesOrdered, WorkerBehind, RevisionsPast, LossVisible
  <2>4. Continuity'
    BY DEF IInv, Continuity, Finished, EndsBefore, LastSequence, NextStart, Continues
  <2>. QED  BY <2>1, <2>2, <2>3, <2>4 DEF IInv
<1>. QED  BY <1>1, <1>2, <1>3 DEF Next

\* The invariant holds in every reachable state
THEOREM CaptureInvariant == Spec => []IInv
BY InitIInv, NextIInv, PTL DEF Spec

\* A slot that a read handle points at is neither written nor freed, and holds
\* the frames the handle was acquired with
THEOREM ViewsStayIntact == Spec => []ViewsIntact
<1>1. IInv => ViewsIntact
  <2> SUFFICES ASSUME IInv, NEW v \in held
               PROVE  /\ slotState[v.slot] = "reading"
                      /\ header[v.slot].sequence = v.sequence
                      /\ \A i \in 1..v.frameCount :
                             payload[v.slot][i] = v.frameEnd - v.frameCount + i
    BY DEF ViewsIntact
  <2>1. slotState[v.slot] = "reading" /\ v.slot \in Slots
    BY DEF IInv, Ownership, ReaderOwns, Types, ConsumerTypes, Views
  <2>. QED  BY <2>1 DEF IInv, Contents, HoldsFrames
<1>. QED  BY <1>1, CaptureInvariant, PTL

\* A loss that is not acknowledged exceeds the acknowledged revision, across
\* episodes, lifecycles and recoveries under way
THEOREM LossesStayVisible == Spec => []LossVisible
<1>1. IInv => LossVisible
  BY DEF IInv, Revisions
<1>. QED  BY <1>1, CaptureInvariant, PTL

\* A chunk that neither is flagged nor starts a generation or a lifecycle
\* begins with the frame after the last one acquired
THEOREM UnflaggedChunksContiguous == Spec => UnflaggedIsContiguous
<1> DEFINE Contiguous(v) ==
      \/ previous.sequence = 0
      \/ v.lifecycle # previous.lifecycle
      \/ /\ v.sequence # previous.sequence + 1
         /\ v.followsDiscontinuity \/ v.generation # previous.generation
      \/ v.frameEnd - v.frameCount = previous.frameEnd
<1>1. IInv /\ [Next]_vars => [\A v \in held' \ held : Contiguous(v)]_vars
  <2> SUFFICES ASSUME IInv, Next, NEW v \in held' \ held
               PROVE  Contiguous(v)
    OBVIOUS
  <2>1. AcquireReturns
    BY DEF Next, Producer, Consumer, PublishBlock, RetirePassesOver, RetireReady, RetireCounts,
           EnterLifecycle, AnnounceLifecycle, BeginPackedChunk, ClaimFree, ClaimPassesOver,
           ReclaimOldest, StampAfterReclaim, DropIncoming, PackFrames, FinalizePackedChunk,
           ReleaseReady, TryAcquireOldest, ScanState, ScanSequence, AcquireFails,
           AcquireTakes, ReleaseHandle, ObserveRevision, Acknowledge, RestartLifecycle,
           RestartAndDiscard, consumerVars
  <2>2. /\ v = View(scan.oldest, FollowsDiscontinuity(header[scan.oldest]))
        /\ scan.oldest \in Slots /\ Finished(scan.oldest)
    BY <2>1 DEF AcquireReturns, IInv, Ownership, ReaderOwns, Finished
  <2>3. CASE previous.sequence # 0 /\ v.sequence = previous.sequence + 1
    BY <2>2, <2>3 DEF IInv, Continuity, Continues, View
  <2>4. CASE previous.sequence # 0 /\ v.sequence # previous.sequence + 1
    BY <2>2, <2>4 DEF View, FollowsDiscontinuity
  <2>. QED  BY <2>3, <2>4
<1>. QED  BY <1>1, CaptureInvariant, PTL DEF Spec, UnflaggedIsContiguous
=============================================================================
