-------------------------- MODULE ColumnQueueProofs --------------------------
(***************************************************************************)
(* What holds of the Spectrogram column queue for any number of slots,      *)
(* columns and capture boundaries: no copy is torn, no marker is lost, and   *)
(* no column that stayed ready is overtaken.                                *)
(***************************************************************************)
EXTENDS ColumnQueue, TLAPS

-----------------------------------------------------------------------------
(***************************************************************************)
(* The inductive invariant.                                                *)
(***************************************************************************)
\* A thread is in one call at a time
OneCallPerThread ==
    /\ producerPc # "idle" => discard["worker"].pc = "idle"
    /\ consumerPc # "idle" => discard["message"].pc = "idle"

\* Whoever took a slot owns it alone
WriterOwns == producerPc \in {"write", "release"} =>
    claim.oldest \in Slots /\ slotState[claim.oldest] = "writing"

ReaderOwns == consumerPc \in {"validate", "copy"} =>
    /\ scan.oldest \in Slots /\ slotState[scan.oldest] = "reading"
    /\ \A d \in Discarders : discard[d].pc = "holding" => discard[d].index # scan.oldest

DiscarderOwns ==
    /\ \A d \in Discarders : discard[d].pc = "holding" =>
         slotState[discard[d].index] = "reading" /\ discard[d].except # 0
    /\ \A d, e \in Discarders :
         d # e /\ discard[d].pc = "holding" /\ discard[e].pc = "holding" =>
             discard[d].index # discard[e].index

\* The selection key of a slot is its column's sequence
KeysMatch ==
    /\ \A s \in Slots : slotState[s] \in {"ready", "reading"} =>
         column[s].sequence = sequence[s]
    /\ producerPc = "release" =>
         column[claim.oldest] = offered /\ sequence[claim.oldest] = offered.sequence

\* The worker reclaims ordinary columns only, and a discard that is under way
\* is told to spare every marker that is to be kept
ReclaimsOrdinary ==
    producerPc = "scan" /\ claim.oldest # None => column[claim.oldest].boundary = 0

KeptIsSpared ==
    \A d \in Discarders : discard[d].pc # "idle" => kept \subseteq {discard[d].except}

\* The scan has noted a sequence no larger than those of the stable columns it
\* has passed, and then of all of them
StableAhead ==
    consumerPc \in {"scan", "load"} =>
        /\ consumerPc = "load" => scan.index < SlotCount
        /\ \A q \in stable : \E s \in Slots :
             /\ slotState[s] = "ready" /\ column[s].sequence = q
             /\ s < scan.index => scan.oldest # None /\ scan.sequence <= q

StableLarger ==
    consumerPc \in {"validate", "copy"} =>
        /\ \A q \in stable : scan.sequence <= q /\ q # column[scan.oldest].sequence
        /\ consumerPc = "copy" => column[scan.oldest].sequence = scan.sequence

IInv ==
    /\ TypeOK
    /\ OneCallPerThread
    /\ WriterOwns /\ ReaderOwns /\ DiscarderOwns
    /\ KeysMatch
    /\ ReclaimsOrdinary /\ KeptIsSpared /\ MarkerKept
    /\ StableAhead /\ StableLarger

USE QueueAssumption

\* The queue starts empty, with nothing kept for later
LEMMA InitIInv == Init => IInv
<1> SUFFICES ASSUME Init PROVE IInv
  OBVIOUS
<1> USE DEF Init, FreshScan, NoColumn, NoDiscard
<1>1. TypeOK
  BY DEF TypeOK, Slots, Sequences, Columns, None, Boundaries
<1>2. OneCallPerThread /\ WriterOwns /\ ReaderOwns /\ DiscarderOwns
  BY DEF OneCallPerThread, WriterOwns, ReaderOwns, DiscarderOwns
<1>3. KeysMatch /\ ReclaimsOrdinary /\ KeptIsSpared /\ MarkerKept
  BY DEF KeysMatch, ReclaimsOrdinary, KeptIsSpared, MarkerKept, None
<1>4. StableAhead /\ StableLarger
  BY DEF StableAhead, StableLarger
<1>. QED  BY <1>1, <1>2, <1>3, <1>4 DEF IInv

Locals == [attempt : 1..(SlotCount + 1), index : 0..SlotCount,
           oldest : 0..SlotCount, sequence : Sequences]

\* What the two scans do with their locals keeps them in range
LEMMA ScanTypes ==
    ASSUME TypeOK, NEW found \in Locals
    PROVE  /\ FreshScan \in Locals
           /\ found.index < SlotCount => Passed(found) \in Locals
           /\ found.index < SlotCount => Noted(found, found.index) \in Locals
           /\ Retries(found) => NextAttempt(found) \in Locals
<1>1. FreshScan \in Locals
  BY DEF FreshScan, Locals, None, Sequences
<1>2. ASSUME found.index < SlotCount PROVE Passed(found) \in Locals
  BY <1>2 DEF Passed, Locals
<1>3. ASSUME found.index < SlotCount PROVE Noted(found, found.index) \in Locals
  <2>1. sequence[found.index] \in Sequences
    BY <1>3 DEF TypeOK, Slots, Locals
  <2>2. Noted(found, found.index) = [found EXCEPT !.index = found.index + 1,
           !.oldest = found.index, !.sequence = sequence[found.index]]
    BY DEF Noted
  <2>3. found.index \in 0..SlotCount /\ found.index + 1 \in 0..SlotCount
    BY <1>3 DEF Locals
  <2>. QED  BY <2>1, <2>2, <2>3 DEF Locals
<1>4. ASSUME Retries(found) PROVE NextAttempt(found) \in Locals
  BY <1>1, <1>4 DEF Retries, NextAttempt, Locals
<1>. QED  BY <1>1, <1>2, <1>3, <1>4

\* publish(): the steps that leave the slots alone
LEMMA SearchStep ==
    ASSUME IInv, (\E b \in BOOLEAN : Publish(b)) \/ ClaimPassesOver \/ ReclaimScan
                 \/ ReclaimRetries \/ DropIncoming
    PROVE  IInv'
<1> USE DEF IInv, consumerVars
<1>1. UNCHANGED <<slotState, sequence, column, consumerVars, discard, kept, stable>>
  BY DEF Publish, ClaimPassesOver, ReclaimScan, ReclaimRetries, DropIncoming
<1>2. claim \in Locals
  BY DEF TypeOK, Locals
<1>3. /\ claim' \in Locals
      /\ producerPc' \in {"idle", "claim", "scan"}
      /\ producerPc' = "idle" \/ discard["worker"].pc = "idle"
      /\ offered' \in Columns /\ lastBoundary' \in {0} \cup Boundaries
      /\ producerPc' = "scan" /\ claim'.oldest # None => column[claim'.oldest].boundary = 0
  <2>1. CASE \E b \in BOOLEAN : Publish(b)
    <3>1. PICK b \in BOOLEAN : Publish(b)
      BY <2>1
    <3>2. offered' \in Columns /\ lastBoundary' \in {0} \cup Boundaries
      BY <3>1 DEF Publish, TypeOK, Columns, Sequences, Boundaries
    <3>. QED  BY <1>2, <3>1, <3>2, ScanTypes DEF Publish, WorkerIdle
  <2>2. CASE ClaimPassesOver
    BY <1>2, <2>2, ScanTypes DEF ClaimPassesOver, OneCallPerThread, TypeOK, FreshScan
  <2>3. CASE ReclaimScan
    <3>1. CASE Reclaimable(claim.index) /\ Older(claim, claim.index)
      <4>1. claim' = Noted(claim, claim.index) /\ claim'.oldest = claim.index
        BY <1>2, <2>3, <3>1 DEF ReclaimScan, Noted, Locals
      <4>. QED  BY <1>2, <2>3, <3>1, <4>1, ScanTypes
                DEF ReclaimScan, OneCallPerThread, TypeOK, Reclaimable
    <3>2. CASE ~(Reclaimable(claim.index) /\ Older(claim, claim.index))
      <4>1. claim' = Passed(claim) /\ claim'.oldest = claim.oldest
        BY <1>2, <2>3, <3>2 DEF ReclaimScan, Passed, Locals
      <4>. QED  BY <1>2, <2>3, <4>1, ScanTypes
                DEF ReclaimScan, OneCallPerThread, TypeOK, ReclaimsOrdinary
    <3>. QED  BY <3>1, <3>2
  <2>4. CASE ReclaimRetries
    BY <1>2, <2>4, ScanTypes DEF ReclaimRetries, OneCallPerThread, TypeOK, NextAttempt, FreshScan
  <2>5. CASE DropIncoming
    BY <1>2, <2>5, ScanTypes DEF DropIncoming, TypeOK
  <2>. QED  BY <2>1, <2>2, <2>3, <2>4, <2>5
<1>4. TypeOK'
  BY <1>1, <1>3 DEF TypeOK, Locals
<1>5. OneCallPerThread' /\ WriterOwns' /\ ReaderOwns' /\ DiscarderOwns'
  BY <1>1, <1>3 DEF OneCallPerThread, WriterOwns, ReaderOwns, DiscarderOwns
<1>6. KeysMatch' /\ ReclaimsOrdinary' /\ KeptIsSpared' /\ MarkerKept'
  BY <1>1, <1>3 DEF KeysMatch, ReclaimsOrdinary, KeptIsSpared, MarkerKept, Holds
<1>7. StableAhead' /\ StableLarger'
  BY <1>1 DEF StableAhead, StableLarger
<1>. QED  BY <1>4, <1>5, <1>6, <1>7

\* publish(): a slot is claimed, free or the oldest ordinary ready one
LEMMA ClaimStep ==
    ASSUME IInv, ClaimFree \/ ReclaimOldest
    PROVE  IInv'
<1> USE DEF IInv, consumerVars
<1> DEFINE s == IF producerPc = "claim" THEN claim.index ELSE claim.oldest
<1>1. /\ s \in Slots /\ slotState[s] \in {"free", "ready"}
      /\ slotState' = [slotState EXCEPT ![s] = "writing"]
      /\ claim' \in Locals /\ claim'.oldest = s /\ claim.oldest \in 0..SlotCount
      /\ producerPc' = "write" /\ producerPc # "idle"
      /\ slotState[s] = "free" => stable' = stable
      /\ slotState[s] = "ready" =>
           stable' = stable \ {column[s].sequence} /\ column[s].boundary = 0
      /\ UNCHANGED <<sequence, column, offered, lastBoundary, consumerPc, scan, discard, kept>>
  <2>1. CASE ClaimFree
    <3>1. claim \in Locals /\ claim.index \in Slots /\ claim.index \in 0..SlotCount
      BY <2>1 DEF ClaimFree, TypeOK, Slots, Locals
    <3>2. claim' \in Locals /\ claim'.oldest = claim.index
      BY <2>1, <3>1 DEF ClaimFree, Locals
    <3>. QED  BY <2>1, <3>1, <3>2 DEF ClaimFree, SetState, Locals
  <2>2. CASE ReclaimOldest
    BY <2>2 DEF ReclaimOldest, SetState, Leaves, StillReady, ReclaimsOrdinary, TypeOK, Slots,
                None, Locals
  <2>. QED  BY <2>1, <2>2
<1> HIDE DEF s
<1>2. TypeOK'
  BY <1>1 DEF TypeOK, Locals
<1>3. OneCallPerThread' /\ WriterOwns' /\ ReaderOwns' /\ DiscarderOwns'
  BY <1>1 DEF OneCallPerThread, WriterOwns, ReaderOwns, DiscarderOwns, TypeOK
<1>4. KeysMatch' /\ ReclaimsOrdinary' /\ KeptIsSpared'
  BY <1>1 DEF KeysMatch, ReclaimsOrdinary, KeptIsSpared, TypeOK
<1>5. MarkerKept'
  <2> SUFFICES ASSUME NEW b \in kept PROVE Holds(b)'
    BY <1>1 DEF MarkerKept
  <2>1. b # 0
    BY DEF TypeOK, Boundaries
  <2>2. PICK t \in Slots : column[t].boundary = b /\ slotState[t] \in {"ready", "reading"}
    BY DEF MarkerKept, Holds
  <2>3. t # s
    BY <1>1, <2>1, <2>2
  <2>. QED  BY <1>1, <2>2, <2>3 DEF Holds, TypeOK
<1>6. StableAhead'
  <2> SUFFICES ASSUME consumerPc \in {"scan", "load"}
               PROVE  \A q \in stable' : \E t \in Slots :
                        /\ slotState'[t] = "ready" /\ column[t].sequence = q
                        /\ t < scan.index => scan.oldest # None /\ scan.sequence <= q
    BY <1>1 DEF StableAhead
  <2>1. TAKE q \in stable'
  <2>2. PICK t \in Slots :
          /\ slotState[t] = "ready" /\ column[t].sequence = q
          /\ t < scan.index => scan.oldest # None /\ scan.sequence <= q
    BY <1>1, <2>1 DEF StableAhead
  <2>3. t # s
    BY <1>1, <2>1, <2>2
  <2>. QED  BY <1>1, <2>2, <2>3 DEF TypeOK
<1>7. StableLarger'
  BY <1>1 DEF StableLarger
<1>. QED  BY <1>2, <1>3, <1>4, <1>5, <1>6, <1>7

\* publish(): the column is written into the claimed slot
LEMMA WriteStep ==
    ASSUME IInv, WriteColumn
    PROVE  IInv'
<1> USE DEF IInv, consumerVars, WriteColumn
<1>1. claim.oldest \in Slots /\ slotState[claim.oldest] = "writing" /\ offered.sequence \in Sequences
  BY DEF TypeOK, WriterOwns, Columns
<1>2. TypeOK'
  BY <1>1 DEF TypeOK
<1>3. OneCallPerThread' /\ WriterOwns' /\ ReaderOwns' /\ DiscarderOwns'
  BY <1>1 DEF OneCallPerThread, WriterOwns, ReaderOwns, DiscarderOwns
<1>4. KeysMatch' /\ ReclaimsOrdinary' /\ KeptIsSpared'
  BY <1>1 DEF KeysMatch, ReclaimsOrdinary, KeptIsSpared, TypeOK
<1>5. \A t \in Slots : slotState[t] # "writing" => column'[t] = column[t]
  BY <1>1 DEF TypeOK
<1>6. MarkerKept'
  BY <1>5 DEF MarkerKept, Holds
<1>7. StableAhead'
  BY <1>5 DEF StableAhead
<1>8. StableLarger'
  BY <1>5 DEF StableLarger, ReaderOwns
<1>. QED  BY <1>2, <1>3, <1>4, <1>6, <1>7, <1>8

\* publish(): the column becomes visible, and is to be kept if it is a marker
\* no discard under way may retire
LEMMA ReleaseStep ==
    ASSUME IInv, ReleaseReady
    PROVE  IInv'
<1> USE DEF IInv, consumerVars, ReleaseReady, SetState
<1>1. /\ claim.oldest \in Slots /\ slotState[claim.oldest] = "writing"
      /\ column[claim.oldest] = offered /\ sequence[claim.oldest] = offered.sequence
  BY DEF WriterOwns, KeysMatch
<1>2. claim' \in Locals
  BY ScanTypes DEF TypeOK, Locals
<1>3. TypeOK'
  <2>1. kept' \subseteq Boundaries
    BY DEF TypeOK, Columns
  <2>2. slotState' \in [Slots -> {"free", "writing", "ready", "reading"}]
    BY DEF TypeOK
  <2>. QED  BY <1>2, <2>1, <2>2 DEF TypeOK, Locals
<1>4. OneCallPerThread' /\ WriterOwns' /\ ReaderOwns' /\ DiscarderOwns'
  BY <1>1 DEF OneCallPerThread, WriterOwns, ReaderOwns, DiscarderOwns, TypeOK
<1>5. KeysMatch' /\ ReclaimsOrdinary'
  BY <1>1 DEF KeysMatch, ReclaimsOrdinary, TypeOK
<1>6. KeptIsSpared'
  BY DEF KeptIsSpared, SparedByActive
<1>7. MarkerKept'
  BY <1>1 DEF MarkerKept, Holds, TypeOK
<1>8. StableAhead'
  BY <1>1 DEF StableAhead, TypeOK
<1>9. StableLarger'
  BY DEF StableLarger
<1>. QED  BY <1>3, <1>4, <1>5, <1>6, <1>7, <1>8, <1>9

\* copyNext(): the steps that leave the slots alone
LEMMA ScanStep ==
    ASSUME IInv, CopyNext \/ ScanState \/ ScanSequence \/ CopyRetries \/ CopyFails \/ CopyValidates
    PROVE  IInv'
<1> USE DEF IInv, producerVars
<1>1. UNCHANGED <<slotState, sequence, column, producerVars, discard, kept>>
  BY DEF CopyNext, ScanState, ScanSequence, CopyRetries, CopyFails, CopyValidates
<1>2. scan \in Locals
  BY DEF TypeOK, Locals
<1>3. ReadySequences \subseteq Sequences
  BY DEF ReadySequences, TypeOK, Columns
<1>4. /\ scan' \in Locals
      /\ stable' \subseteq Sequences
      /\ consumerPc' = "idle" \/ discard["message"].pc = "idle"
      /\ consumerPc' \in {"idle", "scan", "load", "validate", "copy"}
  <2>1. CASE CopyNext
    BY <1>2, <1>3, <2>1, ScanTypes DEF CopyNext, MessageThreadIdle
  <2>2. CASE ScanState
    <3>1. Passed(scan) \in Locals
      BY <1>2, <2>2, ScanTypes DEF ScanState
    <3>2. scan' \in Locals /\ consumerPc' \in {"scan", "load"}
      BY <1>2, <2>2, <3>1 DEF ScanState
    <3>. QED  BY <2>2, <3>2 DEF ScanState, TypeOK, OneCallPerThread
  <2>3. CASE ScanSequence
    <3>1. Noted(scan, scan.index) \in Locals /\ Passed(scan) \in Locals
      BY <1>2, <2>3, ScanTypes DEF ScanSequence, StableAhead
    <3>. QED  BY <2>3, <3>1 DEF ScanSequence, TypeOK, OneCallPerThread
  <2>4. CASE CopyRetries
    BY <1>2, <1>3, <2>4, ScanTypes DEF CopyRetries, TypeOK, OneCallPerThread
  <2>5. CASE CopyFails
    BY <1>2, <2>5, ScanTypes DEF CopyFails, TypeOK, OneCallPerThread
  <2>6. CASE CopyValidates
    BY <1>2, <2>6 DEF CopyValidates, TypeOK, OneCallPerThread
  <2>. QED  BY <2>1, <2>2, <2>3, <2>4, <2>5, <2>6
<1>5. TypeOK'
  BY <1>1, <1>4 DEF TypeOK, Locals
<1>6. OneCallPerThread' /\ WriterOwns' /\ DiscarderOwns'
  BY <1>1, <1>4 DEF OneCallPerThread, WriterOwns, DiscarderOwns
<1>7. KeysMatch' /\ ReclaimsOrdinary' /\ KeptIsSpared' /\ MarkerKept'
  BY <1>1 DEF KeysMatch, ReclaimsOrdinary, KeptIsSpared, MarkerKept, Holds
<1>8. ReaderOwns' /\ StableLarger'
  <2>1. CASE CopyValidates
    BY <2>1 DEF CopyValidates, Validated, ReaderOwns, StableLarger, KeysMatch
  <2>2. CASE ~CopyValidates
    BY <2>2 DEF ReaderOwns, StableLarger, CopyNext, ScanState, ScanSequence, CopyRetries, CopyFails
  <2>. QED  BY <2>1, <2>2
<1>9. StableAhead'
  <2> DEFINE Ahead(f, q) == \E s \in Slots :
               /\ slotState[s] = "ready" /\ column[s].sequence = q
               /\ s < f.index => f.oldest # None /\ f.sequence <= q
  <2>1. \A q \in ReadySequences : \A f \in Locals : f.index = 0 => Ahead(f, q)
    <3> SUFFICES ASSUME NEW q \in ReadySequences, NEW f \in Locals, f.index = 0 PROVE Ahead(f, q)
      OBVIOUS
    <3>1. PICK s \in Slots : slotState[s] = "ready" /\ column[s].sequence = q
      BY DEF ReadySequences
    <3>2. ~(s < f.index)
      BY DEF Slots
    <3>. QED  BY <3>1, <3>2
  <2>2. CASE CopyNext \/ CopyRetries
    <3>1. stable' = ReadySequences /\ scan'.index = 0 /\ consumerPc' = "scan"
      BY <2>2 DEF CopyNext, CopyRetries, FreshScan, NextAttempt
    <3>. QED  BY <1>1, <1>4, <2>1, <3>1 DEF StableAhead
  <2>3. CASE ScanState
    <3>1. consumerPc = "scan" /\ stable' = stable /\ scan.index < SlotCount
      BY <2>3 DEF ScanState
    <3>2. CASE slotState[scan.index] = "ready"
      BY <1>1, <2>3, <3>1, <3>2 DEF ScanState, StableAhead
    <3>3. CASE slotState[scan.index] # "ready"
      <4>1. /\ consumerPc' = "scan" /\ scan'.index = scan.index + 1
            /\ scan'.oldest = scan.oldest /\ scan'.sequence = scan.sequence
        BY <1>2, <2>3, <3>3 DEF ScanState, Passed, Locals
      <4>2. \A s \in Slots : slotState[s] = "ready" /\ s < scan'.index => s < scan.index
        BY <1>2, <3>3, <4>1 DEF Locals, Slots
      <4>. QED  BY <1>1, <3>1, <4>1, <4>2 DEF StableAhead
    <3>. QED  BY <3>2, <3>3
  <2>4. CASE ScanSequence
    <3>1. /\ consumerPc = "load" /\ consumerPc' = "scan" /\ stable' = stable
          /\ scan.index \in Slots /\ stable \subseteq Sequences
          /\ sequence[scan.index] \in Int /\ scan.sequence \in Int
      BY <1>2, <2>4 DEF ScanSequence, StableAhead, Slots, Locals, TypeOK, Sequences
    <3>2. /\ scan'.index = scan.index + 1
          /\ scan'.oldest # None
          /\ scan'.sequence <= sequence[scan.index]
          /\ scan.oldest # None => scan'.sequence <= scan.sequence
          /\ scan'.sequence \in Int
      <4>1. CASE Older(scan, scan.index)
        <5>1. scan' = Noted(scan, scan.index)
          BY <2>4, <4>1 DEF ScanSequence
        <5>. QED  BY <1>2, <3>1, <4>1, <5>1 DEF Noted, Older, Locals, Slots, None
      <4>2. CASE ~Older(scan, scan.index)
        <5>1. scan' = Passed(scan)
          BY <2>4, <4>2 DEF ScanSequence
        <5>. QED  BY <1>2, <3>1, <4>2, <5>1 DEF Passed, Older, Locals
      <4>. QED  BY <4>1, <4>2
    <3>3. ASSUME NEW q \in stable PROVE Ahead(scan', q)
      <4>1. PICK s \in Slots :
              /\ slotState[s] = "ready" /\ column[s].sequence = q
              /\ s < scan.index => scan.oldest # None /\ scan.sequence <= q
        BY <3>1 DEF StableAhead
      <4>2. s < scan'.index => scan'.sequence <= q
        <5>1. q \in Int
          BY <3>1 DEF Sequences
        <5>2. CASE s < scan.index
          BY <3>1, <3>2, <4>1, <5>1, <5>2
        <5>3. CASE s = scan.index
          BY <3>1, <3>2, <4>1, <5>1, <5>3 DEF KeysMatch
        <5>. QED  BY <3>1, <3>2, <5>2, <5>3 DEF Slots
      <4>. QED  BY <3>2, <4>1, <4>2
    <3>. QED  BY <1>1, <3>1, <3>3 DEF StableAhead
  <2>5. CASE CopyFails \/ CopyValidates
    BY <2>5 DEF CopyFails, CopyValidates, StableAhead
  <2>. QED  BY <2>2, <2>3, <2>4, <2>5
<1>. QED  BY <1>5, <1>6, <1>7, <1>8, <1>9

\* A slot that holds no marker to be kept may go
LEMMA OthersHold ==
    ASSUME TypeOK, MarkerKept, NEW s \in Slots, NEW state, UNCHANGED column,
           slotState' = [slotState EXCEPT ![s] = state],
           kept' \subseteq kept,
           state \in {"ready", "reading"} \/ column[s].boundary \notin kept'
    PROVE  MarkerKept'
<1> SUFFICES ASSUME NEW b \in kept' PROVE Holds(b)'
  BY DEF MarkerKept
<1>1. PICK t \in Slots : column[t].boundary = b /\ slotState[t] \in {"ready", "reading"}
  BY DEF MarkerKept, Holds
<1>. QED  BY <1>1 DEF Holds, TypeOK

\* Taking a slot out of the ready state leaves the other stable columns ready
LEMMA OthersStable ==
    ASSUME TypeOK, StableAhead, NEW s \in Slots, NEW state,
           slotState' = [slotState EXCEPT ![s] = state], Leaves(s),
           UNCHANGED <<column, consumerPc, scan>>
    PROVE  StableAhead'
<1>1. ASSUME consumerPc \in {"scan", "load"}, NEW q \in stable'
      PROVE  \E t \in Slots : /\ slotState'[t] = "ready" /\ column[t].sequence = q
                              /\ t < scan.index => scan.oldest # None /\ scan.sequence <= q
  <2>1. q \in stable /\ q # column[s].sequence
    BY DEF Leaves
  <2>2. PICK t \in Slots : /\ slotState[t] = "ready" /\ column[t].sequence = q
                           /\ t < scan.index => scan.oldest # None /\ scan.sequence <= q
    BY <1>1, <2>1 DEF StableAhead
  <2>. QED  BY <2>1, <2>2 DEF TypeOK
<1>. QED  BY <1>1 DEF StableAhead

\* copyNext(): the slot the scan chose is taken
LEMMA CopyClaimsStep ==
    ASSUME IInv, CopyClaims
    PROVE  IInv'
<1> USE DEF IInv, producerVars, CopyClaims, SetState
<1>1. scan.oldest \in Slots /\ slotState[scan.oldest] = "ready"
  BY DEF StillReady, TypeOK, Slots, None
<1>2. TypeOK'
  BY <1>1 DEF TypeOK, Leaves
<1>3. OneCallPerThread' /\ WriterOwns' /\ DiscarderOwns'
  BY <1>1 DEF OneCallPerThread, WriterOwns, DiscarderOwns, TypeOK
<1>4. ReaderOwns'
  BY <1>1 DEF ReaderOwns, DiscarderOwns, TypeOK
<1>5. KeysMatch' /\ ReclaimsOrdinary' /\ KeptIsSpared'
  BY <1>1 DEF KeysMatch, ReclaimsOrdinary, KeptIsSpared, TypeOK
<1>6. MarkerKept'
  BY <1>1, OthersHold
<1>7. StableAhead'
  BY DEF StableAhead
<1>8. StableLarger'
  BY DEF StableLarger, StableAhead, Leaves, Slots
<1>. QED  BY <1>2, <1>3, <1>4, <1>5, <1>6, <1>7, <1>8

\* copyNext(): a slot that was reused before it was taken is put back
LEMMA CopyRestoresStep ==
    ASSUME IInv, CopyRestores
    PROVE  IInv'
<1> USE DEF IInv, producerVars, CopyRestores, SetState
<1>1. /\ scan.oldest \in Slots /\ slotState[scan.oldest] = "reading"
      /\ \A d \in Discarders : discard[d].pc = "holding" => discard[d].index # scan.oldest
      /\ scan \in Locals
  BY DEF ReaderOwns, TypeOK, Locals
<1>2. /\ scan' \in Locals /\ scan'.index = 0
      /\ consumerPc' \in {"idle", "scan"}
      /\ stable' \subseteq ReadySequences \cup {column[scan.oldest].sequence}
  BY <1>1 DEF NextAttempt, FreshScan, Locals, None, Sequences
<1>3. /\ stable' \subseteq Sequences
      /\ \A q \in stable' : \E t \in Slots : slotState'[t] = "ready" /\ column[t].sequence = q
  BY <1>1, <1>2 DEF ReadySequences, TypeOK, Columns
<1>4. TypeOK'
  BY <1>1, <1>2, <1>3 DEF TypeOK, Locals
<1>5. OneCallPerThread' /\ WriterOwns' /\ ReaderOwns'
  BY <1>1, <1>2 DEF OneCallPerThread, WriterOwns, ReaderOwns, TypeOK
<1>6. DiscarderOwns'
  BY <1>1 DEF DiscarderOwns, TypeOK
<1>7. KeysMatch' /\ ReclaimsOrdinary' /\ KeptIsSpared'
  BY <1>1 DEF KeysMatch, ReclaimsOrdinary, KeptIsSpared, TypeOK
<1>8. MarkerKept'
  BY <1>1, OthersHold
<1>9. StableAhead'
  BY <1>2, <1>3 DEF StableAhead, Slots
<1>10. StableLarger'
  BY <1>2 DEF StableLarger
<1>. QED  BY <1>4, <1>5, <1>6, <1>7, <1>8, <1>9, <1>10

\* copyNext(): the column has been copied and its slot is freed
LEMMA CopyReturnsStep ==
    ASSUME IInv, CopyReturns
    PROVE  IInv'
<1> USE DEF IInv, producerVars, CopyReturns, SetState
<1>1. /\ scan.oldest \in Slots /\ slotState[scan.oldest] = "reading"
      /\ \A d \in Discarders : discard[d].pc = "holding" => discard[d].index # scan.oldest
      /\ FreshScan \in Locals
  BY ScanTypes DEF ReaderOwns, TypeOK, Locals
<1>2. TypeOK'
  BY <1>1 DEF TypeOK, Locals
<1>3. OneCallPerThread' /\ WriterOwns' /\ ReaderOwns'
  BY <1>1 DEF OneCallPerThread, WriterOwns, ReaderOwns, TypeOK
<1>4. DiscarderOwns'
  BY <1>1 DEF DiscarderOwns, TypeOK
<1>5. KeysMatch' /\ ReclaimsOrdinary' /\ KeptIsSpared'
  BY <1>1 DEF KeysMatch, ReclaimsOrdinary, KeptIsSpared, TypeOK
<1>6. MarkerKept'
  BY <1>1, OthersHold
<1>7. StableAhead' /\ StableLarger'
  BY DEF StableAhead, StableLarger
<1>. QED  BY <1>2, <1>3, <1>4, <1>5, <1>6, <1>7

\* A discard begins, and from now on only the marker it spares is to be kept
LEMMA DiscardStep ==
    ASSUME IInv, NEW d \in Discarders, NEW except \in {0} \cup 1..lastBoundary, Discard(d, except)
    PROVE  IInv'
<1> USE DEF IInv, producerVars, consumerVars, Discard
<1>1. /\ discard' = [discard EXCEPT ![d] = [pc |-> "loop", index |-> 0, except |-> except]]
      /\ kept' \subseteq kept /\ kept' \subseteq {except}
      /\ except \in {0} \cup Boundaries
  <2>1. except \in {0} \cup Boundaries
    BY DEF TypeOK, Boundaries
  <2>. QED  BY <2>1
<1>2. TypeOK'
  BY <1>1 DEF TypeOK, Slots
<1>3. OneCallPerThread'
  BY <1>1 DEF OneCallPerThread, WorkerIdle, MessageThreadIdle, Discarders, TypeOK
<1>4. WriterOwns' /\ ReaderOwns' /\ DiscarderOwns'
  BY <1>1 DEF WriterOwns, ReaderOwns, DiscarderOwns, TypeOK
<1>5. KeysMatch' /\ ReclaimsOrdinary'
  BY DEF KeysMatch, ReclaimsOrdinary
<1>6. KeptIsSpared'
  BY <1>1 DEF KeptIsSpared, TypeOK
<1>7. MarkerKept'
  BY <1>1 DEF MarkerKept, Holds
<1>8. StableAhead' /\ StableLarger'
  BY DEF StableAhead, StableLarger
<1>. QED  BY <1>2, <1>3, <1>4, <1>5, <1>6, <1>7, <1>8

\* The discards' locals
LEMMA DiscardNextTypes ==
    ASSUME TypeOK, NEW d \in Discarders
    PROVE  /\ DiscardNext(d) \in [pc : {"idle", "loop"}, index : Slots, except : {0} \cup Boundaries]
           /\ DiscardNext(d).pc = "idle" \/ DiscardNext(d).except = discard[d].except
<1>1. /\ discard[d] \in [pc : {"idle", "loop", "holding"}, index : Slots, except : {0} \cup Boundaries]
      /\ NoDiscard \in [pc : {"idle", "loop"}, index : Slots, except : {0} \cup Boundaries]
  BY DEF TypeOK, NoDiscard, Slots
<1>2. CASE discard[d].index + 1 = SlotCount
  BY <1>1, <1>2 DEF DiscardNext, NoDiscard
<1>3. CASE discard[d].index + 1 # SlotCount
  <2>1. discard[d].index + 1 \in Slots
    BY <1>1, <1>3 DEF Slots
  <2>2. DiscardNext(d) = [discard[d] EXCEPT !.pc = "loop", !.index = discard[d].index + 1]
    BY <1>3 DEF DiscardNext
  <2>. QED  BY <1>1, <2>1, <2>2
<1>. QED  BY <1>2, <1>3

\* A slot is passed over
LEMMA DiscardPassesOverStep ==
    ASSUME IInv, NEW d \in Discarders, DiscardPassesOver(d)
    PROVE  IInv'
<1> USE DEF IInv, producerVars, consumerVars, DiscardPassesOver
<1>1. /\ discard' = [discard EXCEPT ![d] = DiscardNext(d)]
      /\ discard[d].pc # "idle"
  OBVIOUS
<1>2. TypeOK'
  BY <1>1, DiscardNextTypes DEF TypeOK
<1>3. OneCallPerThread' /\ KeptIsSpared'
  BY <1>1, DiscardNextTypes DEF OneCallPerThread, KeptIsSpared, TypeOK, Discarders
<1>4. WriterOwns' /\ ReaderOwns' /\ DiscarderOwns'
  BY <1>1, DiscardNextTypes DEF WriterOwns, ReaderOwns, DiscarderOwns, TypeOK
<1>5. KeysMatch' /\ ReclaimsOrdinary' /\ MarkerKept' /\ StableAhead' /\ StableLarger'
  BY DEF KeysMatch, ReclaimsOrdinary, MarkerKept, Holds, StableAhead, StableLarger
<1>. QED  BY <1>2, <1>3, <1>4, <1>5

\* A ready slot is freed at once, or taken to look at its marker
LEMMA DiscardTakesStep ==
    ASSUME IInv, NEW d \in Discarders, DiscardTakes(d)
    PROVE  IInv'
<1> USE DEF IInv, producerVars, consumerVars, DiscardTakes, SetState
<1> DEFINE s == discard[d].index
           taken == IF discard[d].except = 0 THEN "free" ELSE "reading"
           after == IF discard[d].except = 0 THEN DiscardNext(d)
                    ELSE [discard[d] EXCEPT !.pc = "holding"]
<1>1. /\ s \in Slots /\ slotState[s] = "ready" /\ discard[d].pc = "loop"
      /\ discard[d].except \in {0} \cup Boundaries
      /\ slotState' = [slotState EXCEPT ![s] = taken]
      /\ discard' = [discard EXCEPT ![d] = after]
      /\ Leaves(s)
      /\ UNCHANGED <<sequence, column, producerVars, consumerVars, kept>>
  BY DEF TypeOK
<1>2. /\ after \in [pc : {"idle", "loop", "holding"}, index : Slots, except : {0} \cup Boundaries]
      /\ after.pc = "idle" \/ after.except = discard[d].except
      /\ after.pc = "holding" => after.index = s /\ taken = "reading" /\ after.except # 0
  <2>1. CASE discard[d].except = 0
    BY <2>1, DiscardNextTypes
  <2>2. CASE discard[d].except # 0
    BY <2>2 DEF TypeOK
  <2>. QED  BY <2>1, <2>2
<1>3. taken \in {"free", "reading"} /\ (taken = "free" => discard[d].except = 0)
  OBVIOUS
<1> HIDE DEF s, taken, after
<1>4. TypeOK'
  BY <1>1, <1>2, <1>3 DEF TypeOK, Leaves
<1>5. OneCallPerThread' /\ KeptIsSpared'
  BY <1>1, <1>2 DEF OneCallPerThread, KeptIsSpared, TypeOK, Discarders
<1>6. WriterOwns'
  BY <1>1 DEF WriterOwns, TypeOK
<1>7. ReaderOwns'
  BY <1>1, <1>2 DEF ReaderOwns, TypeOK
<1>8. DiscarderOwns'
  <2>1. ASSUME NEW e \in Discarders, discard'[e].pc = "holding"
        PROVE  slotState'[discard'[e].index] = "reading" /\ discard'[e].except # 0
    <3>1. CASE e = d
      BY <1>1, <1>2, <2>1, <3>1 DEF TypeOK
    <3>2. CASE e # d
      BY <1>1, <2>1, <3>2 DEF DiscarderOwns, TypeOK
    <3>. QED  BY <3>1, <3>2
  <2>2. ASSUME NEW e \in Discarders, e # d, discard'[e].pc = "holding", discard'[d].pc = "holding"
        PROVE  discard'[e].index # discard'[d].index
    BY <1>1, <1>2, <2>2 DEF DiscarderOwns, TypeOK
  <2>3. \A e \in Discarders : e # d => discard'[e] = discard[e]
    BY <1>1 DEF TypeOK
  <2>. QED  BY <2>1, <2>2, <2>3 DEF DiscarderOwns
<1>9. KeysMatch' /\ ReclaimsOrdinary'
  BY <1>1, <1>3 DEF KeysMatch, ReclaimsOrdinary, TypeOK
<1>10. MarkerKept'
  <2>1. taken \in {"ready", "reading"} \/ column[s].boundary \notin kept'
    BY <1>1, <1>3 DEF KeptIsSpared, TypeOK, Boundaries
  <2>. QED  BY <1>1, <2>1, OthersHold
<1>11. StableAhead'
  BY <1>1, OthersStable
<1>12. StableLarger'
  BY <1>1 DEF StableLarger, Leaves
<1>. QED  BY <1>4, <1>5, <1>6, <1>7, <1>8, <1>9, <1>10, <1>11, <1>12

\* The slot is given back if it holds the marker to be spared, or freed
LEMMA DiscardDecidesStep ==
    ASSUME IInv, NEW d \in Discarders, DiscardDecides(d)
    PROVE  IInv'
<1> USE DEF IInv, producerVars, consumerVars, DiscardDecides, SetState
<1> DEFINE s == discard[d].index
<1>1. /\ s \in Slots /\ slotState[s] = "reading"
      /\ discard[d].pc = "holding"
      /\ slotState' = [slotState EXCEPT ![s] = StateAfterLook(d)]
      /\ StateAfterLook(d) \in {"ready", "free"}
      /\ StateAfterLook(d) = "free" => column[s].boundary # discard[d].except
      /\ discard' = [discard EXCEPT ![d] = DiscardNext(d)]
      /\ UNCHANGED <<sequence, column, producerVars, consumerVars, kept, stable>>
  BY DEF TypeOK, DiscarderOwns, StateAfterLook, Spared
<1>2. /\ DiscardNext(d) \in [pc : {"idle", "loop"}, index : Slots, except : {0} \cup Boundaries]
      /\ DiscardNext(d).pc = "idle" \/ DiscardNext(d).except = discard[d].except
  BY DiscardNextTypes
<1>3. \A e \in Discarders : e # d => discard'[e] = discard[e]
  BY <1>1 DEF TypeOK
<1> HIDE DEF s
<1>4. TypeOK'
  BY <1>1, <1>2 DEF TypeOK
<1>5. OneCallPerThread' /\ KeptIsSpared'
  BY <1>1, <1>2 DEF OneCallPerThread, KeptIsSpared, TypeOK, Discarders
<1>6. WriterOwns'
  BY <1>1 DEF WriterOwns, TypeOK
<1>7. discard'[d].pc # "holding"
  BY <1>1, <1>2 DEF TypeOK
<1>8. ReaderOwns'
  BY <1>1, <1>3, <1>7 DEF ReaderOwns, TypeOK, s
<1>9. DiscarderOwns'
  <2>1. ASSUME NEW e \in Discarders, discard'[e].pc = "holding"
        PROVE  slotState'[discard'[e].index] = "reading" /\ discard'[e].except # 0
    <3>1. e # d /\ discard[e].index # s
      BY <1>1, <1>3, <1>7, <2>1 DEF DiscarderOwns, s
    <3>. QED  BY <1>1, <1>3, <2>1, <3>1 DEF DiscarderOwns, TypeOK
  <2>. QED  BY <1>3, <1>7, <2>1 DEF DiscarderOwns
<1>10. KeysMatch' /\ ReclaimsOrdinary'
  BY <1>1 DEF KeysMatch, ReclaimsOrdinary, TypeOK
<1>11. MarkerKept'
  <2>1. StateAfterLook(d) \in {"ready", "reading"} \/ column[s].boundary \notin kept'
    BY <1>1 DEF KeptIsSpared
  <2>. QED  BY <1>1, <2>1, OthersHold
<1>12. StableAhead'
  BY <1>1 DEF StableAhead, TypeOK
<1>13. StableLarger'
  BY <1>1 DEF StableLarger
<1>. QED  BY <1>4, <1>5, <1>6, <1>8, <1>9, <1>10, <1>11, <1>12, <1>13

-----------------------------------------------------------------------------
(***************************************************************************)
(* The theorems.                                                           *)
(***************************************************************************)
LEMMA NextIInv == IInv /\ [Next]_vars => IInv'
<1> SUFFICES ASSUME IInv, [Next]_vars PROVE IInv'
  OBVIOUS
<1>1. CASE Producer
  BY <1>1, SearchStep, ClaimStep, WriteStep, ReleaseStep DEF Producer
<1>2. CASE Consumer
  BY <1>2, ScanStep, CopyClaimsStep, CopyRestoresStep, CopyReturnsStep DEF Consumer
<1>3. ASSUME NEW d \in Discarders, \E except \in {0} \cup 1..lastBoundary : Discard(d, except)
      PROVE  IInv'
  BY <1>3, DiscardStep
<1>4. ASSUME NEW d \in Discarders, DiscardSteps(d) PROVE IInv'
  BY <1>4, DiscardPassesOverStep, DiscardTakesStep, DiscardDecidesStep DEF DiscardSteps
<1>5. CASE UNCHANGED vars
  <2> USE <1>5 DEF IInv, vars, producerVars, consumerVars
  <2>1. TypeOK' /\ OneCallPerThread' /\ WriterOwns' /\ ReaderOwns' /\ DiscarderOwns'
    BY DEF TypeOK, OneCallPerThread, WriterOwns, ReaderOwns, DiscarderOwns
  <2>2. KeysMatch' /\ ReclaimsOrdinary' /\ KeptIsSpared' /\ MarkerKept'
    BY DEF KeysMatch, ReclaimsOrdinary, KeptIsSpared, MarkerKept, Holds
  <2>3. StableAhead' /\ StableLarger'
    BY DEF StableAhead, StableLarger
  <2>. QED  BY <2>1, <2>2, <2>3
<1>. QED  BY <1>1, <1>2, <1>3, <1>4, <1>5 DEF Next

\* The strengthened invariant holds in every reachable state
LEMMA QueueInvariant == Spec => []IInv
<1>1. Init => IInv
  BY InitIInv
<1>2. IInv /\ [Next]_vars => IInv'
  BY NextIInv
<1>. QED  BY <1>1, <1>2, PTL DEF Spec

\* copyNext() copies the column its scan chose, out of a slot nobody else
\* writes, frees or reads meanwhile
THEOREM CopiesWhole == Spec => []NoTornCopy
<1>1. IInv => NoTornCopy
  BY DEF IInv, NoTornCopy, ReaderOwns, StableLarger
<1>. QED  BY <1>1, QueueInvariant, PTL

\* A capture-boundary marker survives overflow and the discards that spare it
THEOREM KeepsMarkers == Spec => []MarkerKept
<1>1. IInv => MarkerKept
  BY DEF IInv
<1>. QED  BY <1>1, QueueInvariant, PTL

\* copyNext() overtakes no column that was ready during the whole of its scan
THEOREM OvertakesNoStableColumn == Spec => []NoStableColumnOvertaken
<1>1. IInv => NoStableColumnOvertaken
  <2> SUFFICES ASSUME IInv, consumerPc = "copy", NEW q \in stable
               PROVE  column[scan.oldest].sequence < q
    BY DEF NoStableColumnOvertaken
  <2>1. /\ column[scan.oldest].sequence = scan.sequence
        /\ scan.sequence <= q /\ q # column[scan.oldest].sequence
    BY DEF IInv, StableLarger
  <2>2. scan.sequence \in Int /\ q \in Int
    BY DEF IInv, TypeOK, Sequences
  <2>. QED  BY <2>1, <2>2
<1>. QED  BY <1>1, QueueInvariant, PTL
=============================================================================
