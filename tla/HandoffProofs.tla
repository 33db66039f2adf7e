---------------------------- MODULE HandoffProofs ----------------------------
(***************************************************************************)
(* What holds of the two handoffs that deliver only the newest value, for  *)
(* any number of slots and of values.                                      *)
(*                                                                         *)
(* SnapshotExchange implements the latest-value mailbox, and a copy misses *)
(* no frame that stays complete.                                           *)
(*                                                                         *)
(* MeterHandoff, for any number of formats too, never loses the newest     *)
(* reading, flags every reading that does not continue the one returned    *)
(* before it, and leaves no reading behind for two scans in a row.         *)
(***************************************************************************)
EXTENDS SnapshotExchange, MeterHandoff, TLAPS

-----------------------------------------------------------------------------
(***************************************************************************)
(* The inductive invariant.                                                *)
(***************************************************************************)
\* A side that is inside a slot owns it, and its position is that of a slot
OwnersHold ==
    /\ publisherPc = "claim" => claim.index \in Slots
    /\ publisherPc \in {"write", "release"} =>
         claim.oldest \in Slots /\ slotState[claim.oldest] = "writing"
    /\ copierPc = "holding" => slotState[copy.index] = "reading" /\ copy.pass < Passes

\* Publication numbers are consecutive: the frame being written is the next one
Consecutive ==
    /\ publisherPc \in {"claim", "scan", "write"} => nextPublicationSequence <= MaxPublications
    /\ publisherPc # "release" => nextPublicationSequence = published + 1
    /\ publisherPc = "release" =>
         /\ nextPublicationSequence = published + 2
         /\ frame[claim.oldest] = published + 1
         /\ publicationSequence[claim.oldest] = published + 1

\* A frame a reader may see is a published one, under its own number
VisibleArePublished ==
    \A s \in Slots : slotState[s] \in {"ready", "reading"} =>
        publicationSequence[s] = frame[s] /\ frame[s] <= published

\* The copier's locals and what it returned are published frames
CopiedArePublished ==
    /\ copy.newest = copy.frame /\ copy.newest <= published
    /\ lastCopiedSequence = received /\ received <= published

\* The frame that is due has been found, or its slot is still ahead of the scan
Ahead(s) ==
    \/ slotState[s] = "ready" /\ (copy.pass = 0 \/ (copy.pass = 1 /\ copy.index <= s))
    \/ slotState[s] = "reading" /\ copierPc = "holding" /\ copy.index = s

DueIsReachable ==
    \/ copierPc = "idle"
    \/ due <= copy.newest
    \/ \E s \in Slots : frame[s] = due /\ Ahead(s)

IInv ==
    /\ TypeOK
    /\ OwnersHold
    /\ Consecutive
    /\ VisibleArePublished
    /\ CopiedArePublished
    /\ DueIsReachable

USE ExchangeAssumption

\* The exchange starts with every slot free and nothing published
LEMMA InitIInv == Init => IInv
<1> SUFFICES ASSUME Init PROVE IInv
  OBVIOUS
<1> USE DEF Init, FreshClaim, FreshCopy
<1>1. TypeOK
  BY DEF TypeOK, Slots, Numbers, None, Passes, TwoPasses
<1>2. OwnersHold /\ Consecutive /\ VisibleArePublished
  BY DEF OwnersHold, Consecutive, VisibleArePublished
<1>3. CopiedArePublished /\ DueIsReachable
  BY DEF CopiedArePublished, DueIsReachable
<1>. QED  BY <1>1, <1>2, <1>3 DEF IInv

\* publish(): the steps that leave the slots alone
LEMMA SearchStep ==
    ASSUME IInv, Publish \/ ClaimPassesOver \/ ReclaimScan \/ ReclaimFails
    PROVE  IInv'
<1> USE DEF IInv, slotVars, copierVars, FreshClaim
<1>1. TypeOK'
  <2>1. CASE Publish
    BY <2>1 DEF Publish, TypeOK, None
  <2>2. CASE ClaimPassesOver
    BY <2>2 DEF ClaimPassesOver, TypeOK
  <2>3. CASE ReclaimScan
    <3>1. PICK o \in {claim.index, claim.oldest} :
            claim' = [claim EXCEPT !.index = claim.index + 1, !.oldest = o]
      BY <2>3 DEF ReclaimScan
    <3>2. claim' \in [attempt : 0..SlotCount, index : 0..SlotCount, oldest : 0..SlotCount]
      <4>1. claim.index + 1 \in 0..SlotCount /\ o \in 0..SlotCount
        BY <2>3 DEF ReclaimScan, TypeOK
      <4>. QED  BY <3>1, <4>1 DEF TypeOK
    <3>. QED  BY <2>3, <3>2 DEF ReclaimScan, TypeOK
  <2>4. CASE ReclaimFails
    BY <2>4 DEF ReclaimFails, LastAttempt, TypeOK, None
  <2>. QED  BY <2>1, <2>2, <2>3, <2>4
<1>2. OwnersHold'
  BY DEF OwnersHold, TypeOK, Publish, ClaimPassesOver, ReclaimScan, ReclaimFails, Slots
<1>3. Consecutive'
  <2>1. CASE Publish
    BY <2>1 DEF Consecutive, Publish
  <2>2. CASE ClaimPassesOver
    BY <2>2 DEF Consecutive, ClaimPassesOver
  <2>3. CASE ReclaimScan
    BY <2>3 DEF Consecutive, ReclaimScan
  <2>4. CASE ReclaimFails
    BY <2>4 DEF Consecutive, ReclaimFails
  <2>. QED  BY <2>1, <2>2, <2>3, <2>4
<1>4. VisibleArePublished' /\ CopiedArePublished'
  BY DEF VisibleArePublished, CopiedArePublished, Publish, ClaimPassesOver, ReclaimScan,
         ReclaimFails
<1>5. DueIsReachable'
  BY DEF DueIsReachable, Ahead, Publish, ClaimPassesOver, ReclaimScan, ReclaimFails
<1>. QED  BY <1>1, <1>2, <1>3, <1>4, <1>5

\* publish(): a slot is claimed, free or the oldest ready one
LEMMA ClaimStep ==
    ASSUME IInv, ClaimFree \/ ReclaimOldest
    PROVE  IInv'
<1> USE DEF IInv, slotVars, copierVars, SetState, ClaimFree, ReclaimOldest, StillReady
<1> DEFINE s == IF publisherPc = "claim" THEN claim.index ELSE claim.oldest
<1>1. /\ s \in Slots /\ slotState[s] \in {"free", "ready"}
      /\ slotState' = [slotState EXCEPT ![s] = "writing"]
      /\ claim' = [claim EXCEPT !.oldest = s]
      /\ publisherPc' = "write" /\ publisherPc \in {"claim", "scan"}
      /\ slotState[s] = "free" => due' = due
      /\ slotState[s] = "ready" => due' = IF frame[s] = due THEN 0 ELSE due
  BY DEF TypeOK, OwnersHold, Slots, None
<1>2. TypeOK'
  <2>1. claim' \in [attempt : 0..SlotCount, index : 0..SlotCount, oldest : 0..SlotCount]
    BY <1>1 DEF TypeOK, Slots
  <2>2. due' \in Numbers
    BY <1>1 DEF TypeOK, Numbers
  <2>. QED  BY <1>1, <2>1, <2>2 DEF TypeOK
<1>3. OwnersHold'
  BY <1>1 DEF OwnersHold, TypeOK
<1>4. Consecutive'
  BY <1>1 DEF Consecutive
<1>5. VisibleArePublished' /\ CopiedArePublished'
  BY <1>1 DEF VisibleArePublished, CopiedArePublished, TypeOK
<1>6. DueIsReachable'
  BY <1>1 DEF DueIsReachable, Ahead, TypeOK, Numbers
<1>. QED  BY <1>2, <1>3, <1>4, <1>5, <1>6

\* publish(): the frame is written into the claimed slot
LEMMA WriteStep ==
    ASSUME IInv, WriteFrame
    PROVE  IInv'
<1> USE DEF IInv, copierVars, WriteFrame
<1>1. claim.oldest \in Slots /\ slotState[claim.oldest] = "writing"
      /\ nextPublicationSequence \in 1..MaxPublications
      /\ nextPublicationSequence = published + 1
  BY DEF TypeOK, OwnersHold, Consecutive
<1>2. TypeOK'
  <2>1. frame' \in [Slots -> Numbers] /\ publicationSequence' \in [Slots -> Numbers]
    BY <1>1 DEF TypeOK, Numbers
  <2>2. nextPublicationSequence' \in 1..(MaxPublications + 1)
    BY <1>1
  <2>. QED  BY <2>1, <2>2 DEF TypeOK
<1>3. OwnersHold'
  BY <1>1 DEF OwnersHold
<1>4. Consecutive'
  BY <1>1 DEF Consecutive, TypeOK, Numbers
<1>5. VisibleArePublished' /\ CopiedArePublished'
  BY <1>1 DEF VisibleArePublished, CopiedArePublished, TypeOK
<1>6. DueIsReachable'
  BY <1>1 DEF DueIsReachable, Ahead, TypeOK
<1>. QED  BY <1>2, <1>3, <1>4, <1>5, <1>6

\* publish(): the frame becomes visible
LEMMA ReleaseStep ==
    ASSUME IInv, ReleaseReady
    PROVE  /\ IInv'
           /\ published' = published + 1
           /\ published < MaxPublications
           /\ UNCHANGED received
<1> USE DEF IInv, copierVars, ReleaseReady, SetState
<1>1. /\ claim.oldest \in Slots /\ slotState[claim.oldest] = "writing"
      /\ frame[claim.oldest] = published + 1
      /\ publicationSequence[claim.oldest] = published + 1
      /\ nextPublicationSequence = published + 2
      /\ published \in Nat
  BY DEF TypeOK, OwnersHold, Consecutive, Numbers
<1>2. published' = published + 1 /\ published < MaxPublications /\ UNCHANGED received
  BY <1>1 DEF TypeOK, Numbers
<1>3. TypeOK'
  <2>1. claim' \in [attempt : 0..SlotCount, index : 0..SlotCount, oldest : 0..SlotCount]
    BY DEF FreshClaim, None
  <2>2. slotState' \in [Slots -> {"free", "writing", "ready", "reading"}]
    BY DEF TypeOK
  <2>3. published' \in Numbers
    BY <1>1, <1>2 DEF Numbers
  <2>. QED  BY <2>1, <2>2, <2>3 DEF TypeOK
<1>4. OwnersHold'
  BY <1>1 DEF OwnersHold, TypeOK
<1>5. Consecutive'
  BY <1>1, <1>2 DEF Consecutive
<1>6. VisibleArePublished'
  BY <1>1, <1>2 DEF VisibleArePublished, TypeOK, Numbers
<1>7. CopiedArePublished'
  BY <1>1, <1>2 DEF CopiedArePublished, TypeOK, Numbers
<1>8. DueIsReachable'
  BY <1>1 DEF DueIsReachable, Ahead, TypeOK
<1>. QED  BY <1>2, <1>3, <1>4, <1>5, <1>6, <1>7, <1>8

\* copyLatest(): a pass begins, and the newest complete frame is due
LEMMA CopyLatestStep ==
    ASSUME IInv, CopyLatest
    PROVE  IInv'
<1> USE DEF IInv, slotVars, publisherVars, CopyLatest
<1>1. copy' = [pass |-> 0, index |-> 0, newest |-> 0, frame |-> 0]
  BY DEF FreshCopy
<1>2. \/ due' = 0
      \/ /\ due' = published
         /\ \E s \in Slots : slotState[s] = "ready" /\ frame[s] = published
  BY DEF Complete
<1>3. TypeOK'
  <2>1. copy' \in [pass : 0..Passes, index : Slots, newest : Numbers, frame : Numbers]
    BY <1>1 DEF Passes, TwoPasses, Slots, Numbers
  <2>2. due' \in Numbers
    BY <1>2 DEF TypeOK, Numbers
  <2>. QED  BY <2>1, <2>2 DEF TypeOK
<1>4. OwnersHold' /\ Consecutive' /\ VisibleArePublished'
  BY DEF OwnersHold, Consecutive, VisibleArePublished
<1>5. CopiedArePublished'
  BY <1>1 DEF CopiedArePublished, TypeOK, Numbers
<1>6. DueIsReachable'
  BY <1>1, <1>2 DEF DueIsReachable, Ahead
<1>. QED  BY <1>3, <1>4, <1>5, <1>6

\* The next position of the scan, and when the second pass begins there
LEMMA NextSlotProperties ==
    ASSUME NEW c \in [pass : 0..Passes, index : Slots, newest : Numbers, frame : Numbers],
           c.pass < Passes
    PROVE  /\ NextSlot(c) \in [pass : 0..Passes, index : Slots, newest : Numbers, frame : Numbers]
           /\ NextSlot(c).newest = c.newest /\ NextSlot(c).frame = c.frame
           /\ \/ NextSlot(c).pass = c.pass /\ NextSlot(c).index = c.index + 1
              \/ /\ NextSlot(c).pass = c.pass + 1 /\ NextSlot(c).index = 0
                 /\ c.index = SlotCount - 1
<1>1. CASE MoreSlots(c)
  <2>1. c.index + 1 \in Slots /\ NextSlot(c) = [c EXCEPT !.index = c.index + 1]
    BY <1>1 DEF MoreSlots, NextSlot, Slots
  <2>. QED  BY <2>1
<1>2. CASE ~MoreSlots(c)
  <2>1. /\ NextSlot(c) = [c EXCEPT !.index = 0, !.pass = c.pass + 1]
        /\ 0 \in Slots /\ c.pass + 1 \in 0..Passes /\ c.index = SlotCount - 1
    BY <1>2 DEF MoreSlots, NextSlot, Slots, Passes, TwoPasses
  <2>. QED  BY <2>1
<1>. QED  BY <1>1, <1>2

\* copyLatest(): a slot that is not ready is passed over
LEMMA PassOverStep ==
    ASSUME IInv, PassOver
    PROVE  IInv'
<1> USE DEF IInv, slotVars, publisherVars, PassOver
<1>1. copy \in [pass : 0..Passes, index : Slots, newest : Numbers, frame : Numbers]
  BY DEF TypeOK
<1>2. /\ copy' \in [pass : 0..Passes, index : Slots, newest : Numbers, frame : Numbers]
      /\ copy'.newest = copy.newest /\ copy'.frame = copy.frame
      /\ \/ copy'.pass = copy.pass /\ copy'.index = copy.index + 1
         \/ copy'.pass = copy.pass + 1 /\ copy'.index = 0 /\ copy.index = SlotCount - 1
  BY <1>1, NextSlotProperties
<1>3. \/ due' = due
      \/ /\ due' = published
         /\ copy'.index = 0 /\ copy'.pass < TwoPasses
         /\ \E s \in Slots : slotState[s] = "ready" /\ frame[s] = published
  BY DEF Due, Complete
<1>4. TypeOK'
  BY <1>2, <1>3 DEF TypeOK
<1>5. OwnersHold' /\ Consecutive' /\ VisibleArePublished'
  BY DEF OwnersHold, Consecutive, VisibleArePublished
<1>6. CopiedArePublished'
  BY <1>2 DEF CopiedArePublished
<1>7. DueIsReachable'
  <2>1. CASE due' = due
    <3>1. CASE due <= copy.newest
      BY <1>2, <2>1, <3>1 DEF DueIsReachable
    <3>2. CASE ~(due <= copy.newest)
      <4>1. PICK s \in Slots : frame[s] = due /\ Ahead(s)
        BY <3>2 DEF DueIsReachable
      <4>2. slotState[s] = "ready" /\ s # copy.index
        BY <4>1 DEF Ahead
      <4>3. copy'.pass = 0 \/ (copy'.pass = 1 /\ copy'.index <= s)
        BY <1>1, <1>2, <4>1, <4>2 DEF Ahead, Slots, Passes, TwoPasses
      <4>. QED  BY <2>1, <4>1, <4>2, <4>3 DEF DueIsReachable, Ahead
    <3>. QED  BY <3>1, <3>2
  <2>2. CASE due' # due
    <3>1. PICK s \in Slots : slotState[s] = "ready" /\ frame[s] = due'
      BY <1>3, <2>2
    <3>2. copy'.pass \in 0..1 /\ copy'.index = 0 /\ 0 <= s
      BY <1>2, <1>3, <2>2 DEF TwoPasses, Passes, Slots
    <3>. QED  BY <3>1, <3>2 DEF DueIsReachable, Ahead
  <2>. QED  BY <2>1, <2>2
<1>. QED  BY <1>4, <1>5, <1>6, <1>7

\* copyLatest(): a ready slot is taken
LEMMA TakeReadyStep ==
    ASSUME IInv, TakeReady
    PROVE  IInv'
<1> USE DEF IInv, publisherVars, TakeReady, SetState
<1>1. TypeOK'
  BY DEF TypeOK
<1>2. OwnersHold' /\ Consecutive' /\ CopiedArePublished'
  BY DEF OwnersHold, Consecutive, CopiedArePublished, TypeOK
<1>3. VisibleArePublished'
  BY DEF VisibleArePublished, TypeOK
<1>4. DueIsReachable'
  BY DEF DueIsReachable, Ahead, TypeOK
<1>. QED  BY <1>1, <1>2, <1>3, <1>4

\* copyLatest(): the slot is copied if it is the newest so far, and retired
LEMMA RetireSlotStep ==
    ASSUME IInv, RetireSlot
    PROVE  IInv'
<1> USE DEF IInv, publisherVars, RetireSlot, SetState
<1> DEFINE kept == KeepNewest
<1>1. /\ copy \in [pass : 0..Passes, index : Slots, newest : Numbers, frame : Numbers]
      /\ copy.index \in Slots /\ copy.pass < Passes
      /\ slotState[copy.index] = "reading"
      /\ publicationSequence[copy.index] = frame[copy.index]
      /\ frame[copy.index] \in Numbers /\ frame[copy.index] <= published
      /\ copy.newest \in Numbers /\ copy.newest = copy.frame /\ copy.newest <= published
      /\ published \in Nat
  BY DEF TypeOK, OwnersHold, VisibleArePublished, CopiedArePublished, Numbers
<1>2. /\ kept \in [pass : 0..Passes, index : Slots, newest : Numbers, frame : Numbers]
      /\ kept.newest = kept.frame /\ kept.newest <= published
      /\ copy.newest <= kept.newest /\ frame[copy.index] <= kept.newest
      /\ kept.pass = copy.pass /\ kept.index = copy.index
  <2>1. CASE frame[copy.index] > copy.newest
    <3>1. kept = [copy EXCEPT !.newest = frame[copy.index], !.frame = frame[copy.index]]
      BY <1>1, <2>1 DEF KeepNewest
    <3>2. frame[copy.index] \in Nat /\ copy.newest \in Nat
      BY <1>1 DEF Numbers
    <3>3. kept \in [pass : 0..Passes, index : Slots, newest : Numbers, frame : Numbers]
      BY <1>1, <3>1
    <3>4. /\ kept.newest = frame[copy.index] /\ kept.frame = frame[copy.index]
          /\ kept.pass = copy.pass /\ kept.index = copy.index
      BY <1>1, <3>1
    <3>. QED  BY <1>1, <2>1, <3>2, <3>3, <3>4
  <2>2. CASE ~(frame[copy.index] > copy.newest)
    <3>1. kept = copy
      BY <1>1, <2>2 DEF KeepNewest
    <3>. QED  BY <1>1, <2>2, <3>1 DEF Numbers
  <2>. QED  BY <2>1, <2>2
<1> HIDE DEF kept
<1>3. /\ copy' \in [pass : 0..Passes, index : Slots, newest : Numbers, frame : Numbers]
      /\ copy'.newest = kept.newest /\ copy'.frame = kept.frame
      /\ \/ copy'.pass = copy.pass /\ copy'.index = copy.index + 1
         \/ copy'.pass = copy.pass + 1 /\ copy'.index = 0 /\ copy.index = SlotCount - 1
  <2>1. copy' = NextSlot(kept)
    BY DEF kept
  <2>. QED  BY <1>1, <1>2, <2>1, NextSlotProperties
<1>4. \/ due' = due
      \/ /\ due' = published
         /\ copy'.index = 0 /\ copy'.pass < TwoPasses
         /\ \E s \in Slots : slotState[s] = "ready" /\ frame[s] = published
  BY DEF Due, Complete
<1>5. TypeOK'
  BY <1>3, <1>4 DEF TypeOK
<1>6. OwnersHold' /\ Consecutive'
  BY <1>1 DEF OwnersHold, Consecutive, TypeOK
<1>7. VisibleArePublished'
  BY DEF VisibleArePublished, TypeOK
<1>8. CopiedArePublished'
  BY <1>2, <1>3 DEF CopiedArePublished
<1>9. DueIsReachable'
  <2>1. CASE due' = due
    <3>1. CASE due <= copy.newest
      BY <1>1, <1>2, <1>3, <2>1, <3>1 DEF DueIsReachable, TypeOK, Numbers
    <3>2. CASE ~(due <= copy.newest)
      <4>1. PICK s \in Slots : frame[s] = due /\ Ahead(s)
        BY <3>2 DEF DueIsReachable
      <4>2. CASE s = copy.index
        BY <1>2, <1>3, <2>1, <4>1, <4>2 DEF DueIsReachable
      <4>3. CASE s # copy.index
        <5>1. slotState[s] = "ready" /\ slotState'[s] = "ready"
          BY <4>1, <4>3 DEF Ahead, TypeOK
        <5>2. copy'.pass = 0 \/ (copy'.pass = 1 /\ copy'.index <= s)
          BY <1>1, <1>3, <4>1, <4>3, <5>1 DEF Ahead, Slots, Passes, TwoPasses
        <5>. QED  BY <2>1, <4>1, <5>1, <5>2 DEF DueIsReachable, Ahead
      <4>. QED  BY <4>2, <4>3
    <3>. QED  BY <3>1, <3>2
  <2>2. CASE due' # due
    <3>1. PICK s \in Slots : slotState[s] = "ready" /\ frame[s] = due'
      BY <1>4, <2>2
    <3>2. slotState'[s] = "ready"
      BY <1>1, <3>1 DEF TypeOK
    <3>3. copy'.pass \in 0..1 /\ copy'.index = 0 /\ 0 <= s
      BY <1>3, <1>4, <2>2 DEF TwoPasses, Passes, Slots
    <3>. QED  BY <3>1, <3>2, <3>3 DEF DueIsReachable, Ahead
  <2>. QED  BY <2>1, <2>2
<1>. QED  BY <1>5, <1>6, <1>7, <1>8, <1>9

\* copyLatest(): the newest frame found is returned if it is newer than the last
LEMMA CopyReturnsStep ==
    ASSUME IInv, CopyReturns
    PROVE  /\ IInv'
           /\ received' >= due
           /\ \/ received' \in (received + 1)..published
              \/ received' = received
<1> USE DEF IInv, slotVars, publisherVars, CopyReturns
<1>1. /\ copy.newest \in Nat /\ copy.newest = copy.frame /\ copy.newest <= published
      /\ received \in Nat /\ lastCopiedSequence = received /\ received <= published
      /\ due \in Nat /\ published \in Nat
      /\ copy.frame \in Numbers
  BY DEF TypeOK, CopiedArePublished, Numbers
<1>2. due <= copy.newest
  BY DEF DueIsReachable, Ahead, Passes, TwoPasses
<1>3. \/ copy.newest > received /\ lastCopiedSequence' = copy.newest /\ received' = copy.newest
      \/ copy.newest <= received /\ UNCHANGED <<lastCopiedSequence, received>>
  BY <1>1 DEF IsNewer
<1>4. received' >= due /\ (received' \in (received + 1)..published \/ received' = received)
  BY <1>1, <1>2, <1>3
<1>5. TypeOK'
  <2>1. copy' \in [pass : 0..Passes, index : Slots, newest : Numbers, frame : Numbers]
    BY DEF FreshCopy, Passes, TwoPasses, Slots, Numbers
  <2>2. due' \in Numbers
    BY DEF Numbers
  <2>. QED  BY <1>1, <1>3, <2>1, <2>2 DEF TypeOK
<1>6. OwnersHold' /\ Consecutive' /\ VisibleArePublished' /\ DueIsReachable'
  BY DEF OwnersHold, Consecutive, VisibleArePublished, DueIsReachable
<1>7. CopiedArePublished'
  BY <1>1, <1>3 DEF CopiedArePublished, FreshCopy
<1>. QED  BY <1>4, <1>5, <1>6, <1>7

-----------------------------------------------------------------------------
(***************************************************************************)
(* The theorems.                                                           *)
(***************************************************************************)
LEMMA NextIInv == IInv /\ [Next]_vars => IInv'
<1> SUFFICES ASSUME IInv, [Next]_vars PROVE IInv'
  OBVIOUS
<1>1. CASE Publish \/ ClaimPassesOver \/ ReclaimScan \/ ReclaimFails
  BY <1>1, SearchStep
<1>2. CASE ClaimFree \/ ReclaimOldest
  BY <1>2, ClaimStep
<1>3. CASE WriteFrame
  BY <1>3, WriteStep
<1>4. CASE ReleaseReady
  BY <1>4, ReleaseStep
<1>5. CASE CopyLatest
  BY <1>5, CopyLatestStep
<1>6. CASE PassOver
  BY <1>6, PassOverStep
<1>7. CASE TakeReady
  BY <1>7, TakeReadyStep
<1>8. CASE RetireSlot
  BY <1>8, RetireSlotStep
<1>9. CASE CopyReturns
  BY <1>9, CopyReturnsStep
<1>10. CASE UNCHANGED vars
  BY <1>10 DEF IInv, vars, slotVars, publisherVars, copierVars, TypeOK, OwnersHold, Consecutive,
                VisibleArePublished, CopiedArePublished, DueIsReachable, Ahead
<1>. QED  BY <1>1, <1>2, <1>3, <1>4, <1>5, <1>6, <1>7, <1>8, <1>9, <1>10
          DEF Next, Publisher, Copier

\* The slots, the publication numbers and the scans stay within their types,
\* and the frame that is due stays within reach of the copy (publish() and
\* copyLatest() in every interleaving)
THEOREM ExchangeInvariant == Spec => []IInv
<1>1. Init => IInv
  BY InitIInv
<1>2. IInv /\ [Next]_vars => IInv'
  BY NextIInv
<1>. QED  BY <1>1, <1>2, PTL DEF Spec

\* Any interleaving of publish() and copyLatest() behaves like the mailbox: the
\* renderer receives published frames, in order, each at most once
THEOREM ImplementsMailbox == Spec => IsLatestMailbox
<1> USE DEF Mailbox!Publish, Mailbox!Deliver, Mailbox!Next
<1>1. Init => Mailbox!Init
  BY DEF Init, Mailbox!Init
<1>2. IInv /\ [Next]_vars => [Mailbox!Next]_<<published, received>>
  <2> SUFFICES ASSUME IInv, [Next]_vars PROVE [Mailbox!Next]_<<published, received>>
    OBVIOUS
  <2>1. CASE ReleaseReady
    BY <2>1, ReleaseStep
  <2>2. CASE CopyReturns
    BY <2>2, CopyReturnsStep DEF CopyReturns, publisherVars
  <2>3. CASE Publish \/ ClaimFree \/ ClaimPassesOver \/ ReclaimScan \/ ReclaimOldest
             \/ ReclaimFails \/ WriteFrame
    BY <2>3 DEF Publish, ClaimFree, ClaimPassesOver, ReclaimScan, ReclaimOldest, ReclaimFails,
                WriteFrame, copierVars
  <2>4. CASE CopyLatest \/ PassOver \/ TakeReady \/ RetireSlot
    BY <2>4 DEF CopyLatest, PassOver, TakeReady, RetireSlot, publisherVars
  <2>5. CASE UNCHANGED vars
    BY <2>5 DEF vars, publisherVars, copierVars
  <2>. QED  BY <2>1, <2>2, <2>3, <2>4, <2>5 DEF Next, Publisher, Copier
<1>. QED  BY <1>1, <1>2, ExchangeInvariant, PTL DEF Spec, IsLatestMailbox, Mailbox!Spec

\* No copy returns with less than the newest frame that was complete when its
\* second pass began and was not overwritten since
THEOREM CopyMissesNothing == Spec => CopiesLatest
<1>1. IInv /\ [Next]_vars => [CopyReturns => received' >= due]_vars
  BY CopyReturnsStep
<1>. QED  BY <1>1, ExchangeInvariant, PTL DEF Spec, CopiesLatest

-----------------------------------------------------------------------------
(***************************************************************************)
(* MeterHandoff: the parts of the invariant.                               *)
(***************************************************************************)
Producers == [pc : {"idle", "claim", "scan", "coalesce", "store"}, index : MeterSlots,
              newest : 0..MeterSlotCount, retry : BOOLEAN, reading : Readings]
Consumers == [pc : {"idle", "visit", "copy", "return"}, pass : 1..2, index : MeterSlots,
              acquired : SUBSET Readings, joined : Readings]
Histories == [newest : 0..MaxBlocks, returned : 0..MaxBlocks, scanBegan : 0..MaxBlocks,
              lastBegan : 0..MaxBlocks]
MeterSlotContents == [state : {"free", "writing", "ready", "reading"}, reading : Readings]

\* A reading accounts for every block it spans
Accounted(r) == r.first \in 1..r.last /\ r.blocks = r.last - r.first + 1

InHand == {"ready", "reading"}

\* Every reading there is accounts for its blocks; the block the callback is
\* about to release is the newest one measured
ReadingsAccounted ==
    /\ \A s \in MeterSlots : slots[s].state \in InHand => Accounted(slots[s].reading)
    /\ \A r \in consumer.acquired : Accounted(r)
    /\ consumer.joined # NoReading => Accounted(consumer.joined)
    /\ producer.pc # "idle" => Accounted(producer.reading)

NewestMeasured ==
    /\ history.newest < nextSequence
    /\ producer.pc # "idle" => producer.reading.last = nextSequence - 1
                               /\ history.newest < producer.reading.last

\* What the consumer may still return was released after the scans that last
\* returned something began, and not after the newest
StillToReturn(r) == history.lastBegan < r.last /\ r.last <= history.newest

NothingLeftBehind ==
    /\ \A s \in MeterSlots : slots[s].state \in InHand => StillToReturn(slots[s].reading)
    /\ \A r \in consumer.acquired : StillToReturn(r)
    /\ consumer.joined # NoReading => StillToReturn(consumer.joined)

\* The scans so far have emptied the slots they passed of everything that was
\* released before they began
Passed(c, s) == c.pc = "return" \/ c.pass = 2 \/ s < c.index

ScansEmpty ==
    consumer.pc # "idle" =>
      /\ history.returned <= history.scanBegan /\ history.scanBegan <= history.newest
      /\ \A s \in MeterSlots :
           slots[s].state \in InHand /\ Passed(consumer, s)
             => slots[s].reading.last > history.scanBegan

\* Readings are joined in the order they were released
JoinedInOrder ==
    /\ consumer.pc # "return" => consumer.joined = NoReading
    /\ consumer.pc = "idle" => consumer.acquired = {}
    /\ consumer.joined # NoReading =>
         \A r \in consumer.acquired : consumer.joined.last <= r.last

\* What was returned: the last reading, unless it was overtaken, is the newest
ReturnsRemembered ==
    /\ history.returned <= history.newest /\ history.lastBegan <= history.newest
    /\ previous = NoReading => history.returned = 0
    /\ previous # NoReading => previous.last <= history.returned
    /\ previous # NoReading /\ previous.last < history.returned
         => history.returned <= history.lastBegan

HandoffInv ==
    /\ HandoffTypeOK /\ OneOwnerPerSlot /\ NewestKept
    /\ ReadingsAccounted /\ NewestMeasured /\ NothingLeftBehind /\ ScansEmpty
    /\ JoinedInOrder /\ ReturnsRemembered

-----------------------------------------------------------------------------
(***************************************************************************)
(* MeterHandoff: readings.                                                 *)
(***************************************************************************)
LEMMA NoReadingType == NoReading \in Readings
BY MeterHandoffAssumption DEF NoReading, Readings

\* Joining keeps the newer reading's end and accounts for the blocks of both
LEMMA JoinedReading ==
    ASSUME NEW old \in Readings, NEW new \in Readings, Accounted(old), Accounted(new)
    PROVE  /\ Joined(old, new) \in Readings /\ Accounted(Joined(old, new))
           /\ Joined(old, new).last = new.last
<1>1. /\ MaxBlocks \in Nat /\ old.first \in 1..old.last /\ new.first \in 1..new.last
      /\ old.last \in 0..MaxBlocks /\ new.last \in 0..MaxBlocks
      /\ old.blocks = old.last - old.first + 1 /\ new.blocks = new.last - new.first + 1
      /\ old.broken \in BOOLEAN
  BY MeterHandoffAssumption DEF Readings, Accounted
<1>2. CASE Follows(old, new) /\ ~new.broken
  <2>1. Joined(old, new) = [new EXCEPT !.first = old.first, !.blocks = old.blocks + new.blocks,
                                       !.broken = old.broken]
    BY <1>2 DEF Joined
  <2>2. new.first = old.last + 1
    BY <1>2 DEF Follows
  <2>3. old.blocks + new.blocks = new.last - old.first + 1 /\ old.first \in 1..new.last
    BY <1>1, <2>2
  <2>4. old.blocks + new.blocks \in 0..MaxBlocks /\ old.first \in 0..MaxBlocks
    BY <1>1, <2>3
  <2>5. Joined(old, new) \in Readings
    BY <1>1, <2>1, <2>4 DEF Readings
  <2>6. /\ Joined(old, new).last = new.last /\ Joined(old, new).first = old.first
        /\ Joined(old, new).blocks = old.blocks + new.blocks
    BY <2>1 DEF Readings
  <2>. QED  BY <2>3, <2>5, <2>6 DEF Accounted
<1>3. CASE ~(Follows(old, new) /\ ~new.broken)
  <2>1. Joined(old, new) = [new EXCEPT !.broken = TRUE]
    BY <1>3 DEF Joined
  <2>2. Joined(old, new) \in Readings
    BY <2>1 DEF Readings
  <2>3. /\ Joined(old, new).last = new.last /\ Joined(old, new).first = new.first
        /\ Joined(old, new).blocks = new.blocks
    BY <2>1 DEF Readings
  <2>. QED  BY <2>2, <2>3 DEF Accounted
<1>. QED  BY <1>2, <1>3

\* What is returned is the joined reading, flagged where it does not follow
LEMMA ReturnedReading ==
    ASSUME NEW combined \in Readings
    PROVE  /\ Returned(combined) \in Readings
           /\ Returned(combined).last = combined.last /\ Returned(combined).first = combined.first
           /\ Returned(combined).blocks = combined.blocks
           /\ Returned(combined).format = combined.format
           /\ previous # NoReading /\ ~Follows(previous, combined) => Returned(combined).broken
<1>1. (combined.broken \/ (previous # NoReading /\ ~Follows(previous, combined))) \in BOOLEAN
  BY DEF Readings, Follows
<1>2. Returned(combined) = [combined EXCEPT !.broken =
           combined.broken \/ (previous # NoReading /\ ~Follows(previous, combined))]
  BY DEF Returned
<1>. QED  BY <1>1, <1>2 DEF Readings

-----------------------------------------------------------------------------
(***************************************************************************)
(* MeterHandoff: the invariant.                                            *)
(***************************************************************************)
LEMMA InitHandoff == HandoffInit => HandoffInv
<1>. SUFFICES ASSUME HandoffInit
              PROVE  HandoffInv
  OBVIOUS
<1>1. HandoffTypeOK
  BY MeterHandoffAssumption, NoReadingType DEF HandoffInit, HandoffTypeOK, MeterSlots
<1>. QED
  BY <1>1
     DEF HandoffInit, HandoffInv, OneOwnerPerSlot, NewestKept, ReadingsAccounted, NewestMeasured,
         NothingLeftBehind, ScansEmpty, JoinedInOrder, ReturnsRemembered, InHand

\* The type invariant by the names of its parts
LEMMA HandoffTypes ==
    HandoffTypeOK <=> /\ slots \in [MeterSlots -> MeterSlotContents] /\ producer \in Producers
                      /\ nextSequence \in 1..(MaxBlocks + 1) /\ consumer \in Consumers
                      /\ previous \in Readings /\ history \in Histories
BY DEF HandoffTypeOK, Producers, Consumers, Histories, MeterSlotContents

\* Where the slots and the consumer's part stay as they are
LEMMA HandoffProducerKeeps ==
    ASSUME HandoffInv, UNCHANGED <<slots, consumer, previous, history>>,
           producer' \in Producers, nextSequence' \in 1..(MaxBlocks + 1),
           nextSequence <= nextSequence', producer.pc # "store", producer'.pc # "store",
           producer'.pc # "idle" =>
             /\ producer'.reading.last = nextSequence' - 1 /\ Accounted(producer'.reading)
             /\ history.newest < producer'.reading.last
    PROVE  HandoffInv'
<1>1. HandoffTypeOK'
  BY HandoffTypes DEF HandoffInv, HandoffTypeOK, Producers
<1>2. OneOwnerPerSlot'
  BY DEF HandoffInv, OneOwnerPerSlot
<1>3. NewestKept' /\ ReadingsAccounted' /\ NothingLeftBehind'
  BY DEF HandoffInv, NewestKept, ReadingsAccounted, NothingLeftBehind, StillToReturn, Accounted
<1>4. NewestMeasured'
  <2>1. history.newest < nextSequence /\ nextSequence \in Nat /\ history.newest \in Nat
        /\ nextSequence' \in Nat
    BY HandoffTypes, MeterHandoffAssumption DEF HandoffInv, NewestMeasured, Histories
  <2>. QED  BY <2>1 DEF NewestMeasured
<1>5. ScansEmpty' /\ JoinedInOrder' /\ ReturnsRemembered'
  BY DEF HandoffInv, ScansEmpty, Passed, JoinedInOrder, ReturnsRemembered
<1>. QED  BY <1>1, <1>2, <1>3, <1>4, <1>5 DEF HandoffInv

\* The callback's private steps: a block is measured, a slot is passed over,
\* the newest ready one is looked for and found taken
LEMMA HandoffProducerMoves ==
    ASSUME HandoffInv, Measure \/ SkipTaken \/ ScanReady \/ NewestTaken
    PROVE  HandoffInv'
<1>1. UNCHANGED <<slots, consumer, previous, history>>
  BY DEF Measure, SkipTaken, ScanReady, NewestTaken
<1>2. /\ producer \in Producers /\ nextSequence \in 1..(MaxBlocks + 1)
      /\ MeterSlotCount \in Nat \ {0} /\ MaxBlocks \in Nat /\ MaxFormats \in Nat
      /\ history.newest < nextSequence
  BY MeterHandoffAssumption, HandoffTypes DEF HandoffInv, NewestMeasured
<1>3. producer.pc # "idle" =>
         /\ producer.reading.last = nextSequence - 1 /\ Accounted(producer.reading)
         /\ history.newest < producer.reading.last
  BY DEF HandoffInv, ReadingsAccounted, NewestMeasured
<1>4. CASE Measure
  <2>1. PICK format \in {producer.reading.format, producer.reading.format + 1} \cap 1..MaxFormats :
           producer' = [pc |-> "claim", index |-> 1, newest |-> 0, retry |-> FALSE,
                        reading |-> [first |-> nextSequence, last |-> nextSequence, blocks |-> 1,
                                     format |-> format,
                                     broken |-> nextSequence > 1 /\ format # producer.reading.format]]
    BY <1>4 DEF Measure
  <2>2. nextSequence \in 1..MaxBlocks /\ nextSequence' = nextSequence + 1 /\ producer.pc = "idle"
    BY <1>2, <1>4 DEF Measure
  <2>. DEFINE new == [first |-> nextSequence, last |-> nextSequence, blocks |-> 1, format |-> format,
                      broken |-> nextSequence > 1 /\ format # producer.reading.format]
  <2>3. new \in Readings
    <3>1. (nextSequence > 1 /\ format # producer.reading.format) \in BOOLEAN
      OBVIOUS
    <3>2. nextSequence \in 0..MaxBlocks /\ 1 \in 0..MaxBlocks /\ format \in 0..MaxFormats
      BY <1>2, <2>2
    <3>. QED  BY <3>1, <3>2 DEF Readings
  <2>4. new.last = nextSequence /\ Accounted(new)
    BY <2>2 DEF Accounted
  <2>5. producer' = [pc |-> "claim", index |-> 1, newest |-> 0, retry |-> FALSE, reading |-> new]
    BY <2>1
  <2>. HIDE DEF new
  <2>6. 1 \in MeterSlots /\ 0 \in 0..MeterSlotCount
    BY <1>2 DEF MeterSlots
  <2>7. producer' \in Producers /\ producer'.pc = "claim" /\ producer'.reading = new
    BY <2>3, <2>5, <2>6 DEF Producers
  <2>8. /\ nextSequence' \in 1..(MaxBlocks + 1) /\ nextSequence <= nextSequence'
        /\ nextSequence' - 1 = nextSequence
    BY <1>2, <2>2
  <2>. QED  BY <1>1, <1>2, <2>2, <2>4, <2>7, <2>8, HandoffProducerKeeps
<1>5. CASE SkipTaken \/ ScanReady \/ NewestTaken
  <2>1. nextSequence' = nextSequence /\ producer.pc \in {"claim", "scan", "coalesce"}
    BY <1>5 DEF SkipTaken, ScanReady, NewestTaken
  <2>2. /\ producer' \in Producers /\ producer'.reading = producer.reading
        /\ producer'.pc # "store"
    <3>1. \A s \in MeterSlots : s < MeterSlotCount => s + 1 \in MeterSlots
      BY <1>2 DEF MeterSlots
    <3>2. 1 \in MeterSlots /\ \A s \in 0..MeterSlotCount : s # 0 => s \in MeterSlots
      BY <1>2 DEF MeterSlots
    <3>3. producer.index \in MeterSlots /\ MeterSlots \subseteq 0..MeterSlotCount
      BY <1>2 DEF MeterSlots, Producers
    <3>4. CASE SkipTaken
      <4>1. CASE producer.index < MeterSlotCount
        BY <1>2, <2>1, <3>1, <3>3, <3>4, <4>1 DEF SkipTaken, Producers
      <4>2. CASE ~(producer.index < MeterSlotCount)
        BY <1>2, <2>1, <3>2, <3>4, <4>2 DEF SkipTaken, Producers
      <4>. QED  BY <4>1, <4>2
    <3>5. CASE ScanReady
      <4>. DEFINE newest == IF NewerReady(producer.index, producer.newest) THEN producer.index
                            ELSE producer.newest
      <4>1. newest \in 0..MeterSlotCount
        BY <1>2, <3>3 DEF Producers
      <4>2. producer' =
             IF producer.index < MeterSlotCount
             THEN [producer EXCEPT !.index = producer.index + 1, !.newest = newest]
             ELSE IF newest = 0 THEN [producer EXCEPT !.index = 1, !.pc = "claim", !.retry = TRUE]
             ELSE [producer EXCEPT !.index = newest, !.newest = newest, !.pc = "coalesce"]
        BY <3>5 DEF ScanReady
      <4>3. producer.pc = "scan"
        BY <3>5 DEF ScanReady
      <4>. HIDE DEF newest
      <4>4. CASE producer.index < MeterSlotCount
        BY <1>2, <3>1, <3>3, <4>1, <4>2, <4>3, <4>4 DEF Producers
      <4>5. CASE ~(producer.index < MeterSlotCount) /\ newest = 0
        BY <1>2, <3>2, <4>2, <4>5 DEF Producers
      <4>6. CASE ~(producer.index < MeterSlotCount) /\ newest # 0
        BY <1>2, <3>2, <4>1, <4>2, <4>6 DEF Producers
      <4>. QED  BY <4>4, <4>5, <4>6
    <3>6. CASE NewestTaken
      BY <1>2, <3>2, <3>6 DEF NewestTaken, Producers
    <3>. QED  BY <1>5, <3>4, <3>5, <3>6
  <2>3. nextSequence <= nextSequence
    BY <1>2
  <2>. QED  BY <1>1, <1>2, <1>3, <2>1, <2>2, <2>3, HandoffProducerKeeps
<1>. QED  BY <1>4, <1>5

\* The callback takes a slot, a free one or the newest ready one, whose reading
\* it joins to the block it has measured
LEMMA HandoffClaims ==
    ASSUME HandoffInv, ClaimFreeSlot \/ CoalesceNewest
    PROVE  HandoffInv'
<1>. DEFINE s == producer.index
<1>1. /\ producer.pc \in {"claim", "coalesce"} /\ slots[s].state \in {"free", "ready"}
      /\ slots' = [slots EXCEPT ![s].state = "writing"]
      /\ UNCHANGED <<nextSequence, consumer, previous, history>>
  BY DEF ClaimFreeSlot, CoalesceNewest
<1>2. /\ producer \in Producers /\ slots \in [MeterSlots -> MeterSlotContents]
      /\ s \in MeterSlots /\ consumer \in Consumers
  BY HandoffTypes DEF HandoffInv, Producers
<1>3. Accounted(producer.reading) /\ producer.reading \in Readings
  BY <1>1, <1>2 DEF HandoffInv, ReadingsAccounted, Producers
<1>4. /\ producer' \in Producers /\ producer'.pc = "store" /\ producer'.index = s
      /\ Accounted(producer'.reading) /\ producer'.reading.last = producer.reading.last
  <2>1. CASE ClaimFreeSlot
    BY <1>2, <1>3, <2>1 DEF ClaimFreeSlot, Producers
  <2>2. CASE CoalesceNewest
    <3>1. slots[s].state \in InHand /\ slots[s].reading \in Readings
      BY <1>2, <2>2 DEF CoalesceNewest, InHand, MeterSlotContents
    <3>2. Accounted(slots[s].reading)
      BY <1>2, <3>1 DEF HandoffInv, ReadingsAccounted
    <3>3. LET new == Joined(slots[s].reading, producer.reading)
          IN  new \in Readings /\ Accounted(new) /\ new.last = producer.reading.last
      BY <1>3, <3>1, <3>2, JoinedReading
    <3>4. producer' = [producer EXCEPT !.pc = "store",
                         !.reading = Joined(slots[s].reading, producer.reading)]
      BY <2>2 DEF CoalesceNewest
    <3>. QED  BY <1>2, <3>3, <3>4 DEF Producers
  <2>. QED  BY <2>1, <2>2
<1>. HIDE DEF s
<1>5. /\ slots' \in [MeterSlots -> MeterSlotContents]
      /\ \A t \in MeterSlots : slots'[t].reading = slots[t].reading
      /\ \A t \in MeterSlots : t # s => slots'[t].state = slots[t].state
      /\ slots'[s].state = "writing"
  BY <1>1, <1>2 DEF MeterSlotContents
<1>6. HandoffTypeOK'
  BY <1>1, <1>4, <1>5, HandoffTypes DEF HandoffInv, HandoffTypeOK, Producers, MeterSlotContents
<1>7. OneOwnerPerSlot'
  BY <1>1, <1>2, <1>4, <1>5 DEF HandoffInv, OneOwnerPerSlot
<1>8. NewestKept'
  BY <1>1, <1>2, <1>5 DEF HandoffInv, NewestKept
<1>9. ReadingsAccounted' /\ NothingLeftBehind' /\ ScansEmpty'
  BY <1>1, <1>2, <1>4, <1>5
     DEF HandoffInv, ReadingsAccounted, NothingLeftBehind, StillToReturn, ScansEmpty, Passed, InHand,
         Accounted
<1>10. NewestMeasured' /\ JoinedInOrder' /\ ReturnsRemembered'
  BY <1>1, <1>4 DEF HandoffInv, NewestMeasured, JoinedInOrder, ReturnsRemembered
<1>. QED  BY <1>6, <1>7, <1>8, <1>9, <1>10 DEF HandoffInv

\* The reading is released: newer than all the consumer has
LEMMA HandoffStores ==
    ASSUME HandoffInv, Store
    PROVE  HandoffInv'
<1>. DEFINE s == producer.index
            new == producer.reading
<1>1. /\ producer.pc = "store"
      /\ slots' = [slots EXCEPT ![s] = [state |-> "ready", reading |-> new]]
      /\ producer' = [producer EXCEPT !.pc = "idle"]
      /\ history' = [history EXCEPT !.newest = new.last]
      /\ UNCHANGED <<nextSequence, consumer, previous>>
  BY DEF Store
<1>2. /\ producer \in Producers /\ slots \in [MeterSlots -> MeterSlotContents]
      /\ consumer \in Consumers /\ history \in Histories /\ nextSequence \in 1..(MaxBlocks + 1)
      /\ previous \in Readings
      /\ s \in MeterSlots /\ new \in Readings /\ new.last \in 0..MaxBlocks /\ MaxBlocks \in Nat
  BY HandoffTypes, MeterHandoffAssumption DEF HandoffInv, Producers, Readings
<1>3. /\ Accounted(new) /\ history.newest < new.last /\ new.last = nextSequence - 1
      /\ slots[s].state = "writing"
  BY <1>1, <1>2 DEF HandoffInv, ReadingsAccounted, NewestMeasured, OneOwnerPerSlot
<1>. HIDE DEF s, new
<1>4. /\ slots' \in [MeterSlots -> MeterSlotContents]
      /\ \A t \in MeterSlots : t # s => slots'[t] = slots[t]
      /\ slots'[s].state = "ready" /\ slots'[s].reading = new
  BY <1>1, <1>2 DEF MeterSlotContents
<1>5. /\ producer' \in Producers /\ producer'.pc = "idle"
      /\ history' \in Histories /\ history'.newest = new.last
      /\ history'.returned = history.returned /\ history'.scanBegan = history.scanBegan
      /\ history'.lastBegan = history.lastBegan
      /\ {history.newest, history.returned, history.scanBegan, history.lastBegan} \subseteq Nat
  <2>1. producer' \in Producers /\ producer'.pc = "idle"
    BY <1>1, <1>2 DEF Producers
  <2>2. /\ history' \in Histories /\ history'.newest = new.last
        /\ history'.returned = history.returned /\ history'.scanBegan = history.scanBegan
        /\ history'.lastBegan = history.lastBegan
    BY <1>1, <1>2 DEF Histories
  <2>3. {history.newest, history.returned, history.scanBegan, history.lastBegan} \subseteq Nat
    BY <1>2 DEF Histories
  <2>. QED  BY <2>1, <2>2, <2>3
<1>6. HandoffTypeOK'
  BY <1>1, <1>2, <1>4, <1>5 DEF HandoffTypeOK, Producers, Consumers, Histories, MeterSlotContents
<1>7. OneOwnerPerSlot'
  BY <1>1, <1>2, <1>3, <1>4, <1>5 DEF HandoffInv, OneOwnerPerSlot, s
<1>8. NewestKept'
  BY <1>2, <1>4, <1>5 DEF NewestKept
<1>9. ReadingsAccounted' /\ NewestMeasured'
  BY <1>1, <1>2, <1>3, <1>4, <1>5 DEF HandoffInv, ReadingsAccounted, NewestMeasured, Accounted
<1>. DEFINE Still(r) == history'.lastBegan < r.last /\ r.last <= history'.newest
<1>10. ASSUME NEW r \in Readings, StillToReturn(r)
       PROVE  Still(r)
  <2>1. r.last \in Nat /\ new.last \in Nat
    BY <1>2 DEF Readings
  <2>. QED  BY <1>3, <1>5, <1>10, <2>1 DEF StillToReturn
<1>11. Still(new)
  <2>1. history.lastBegan <= history.newest
    BY DEF HandoffInv, ReturnsRemembered
  <2>. QED  BY <1>2, <1>3, <1>5, <2>1
<1>12. NothingLeftBehind'
  <2>1. ASSUME NEW t \in MeterSlots, slots'[t].state \in InHand
        PROVE  Still(slots'[t].reading)
    <3>1. CASE t = s
      BY <1>4, <1>11, <3>1
    <3>2. CASE t # s
      <4>1. slots[t].reading \in Readings /\ StillToReturn(slots[t].reading)
        BY <1>2, <1>4, <2>1, <3>2 DEF HandoffInv, NothingLeftBehind, MeterSlotContents
      <4>2. Still(slots[t].reading)
        BY <1>10, <4>1
      <4>. QED  BY <1>4, <3>2, <4>2
    <3>. QED  BY <3>1, <3>2
  <2>2. ASSUME NEW r \in consumer.acquired
        PROVE  Still(r)
    <3>1. r \in Readings /\ StillToReturn(r)
      BY <1>2 DEF HandoffInv, NothingLeftBehind, Consumers
    <3>. QED  BY <1>10, <3>1
  <2>3. ASSUME consumer.joined # NoReading
        PROVE  Still(consumer.joined)
    <3>1. consumer.joined \in Readings /\ StillToReturn(consumer.joined)
      BY <1>2, <2>3 DEF HandoffInv, NothingLeftBehind, Consumers
    <3>. QED  BY <1>10, <3>1
  <2>4. consumer' = consumer
    BY <1>1
  <2>. QED  BY <2>1, <2>2, <2>3, <2>4 DEF NothingLeftBehind, StillToReturn
<1>13. ScansEmpty'
  <2>. SUFFICES ASSUME consumer.pc # "idle"
                PROVE  /\ history'.returned <= history'.scanBegan
                       /\ history'.scanBegan <= history'.newest
                       /\ \A t \in MeterSlots : slots'[t].state \in InHand /\ Passed(consumer, t)
                            => slots'[t].reading.last > history'.scanBegan
    BY <1>1 DEF ScansEmpty, Passed
  <2>1. /\ history.returned <= history.scanBegan /\ history.scanBegan <= history.newest
        /\ \A t \in MeterSlots : slots[t].state \in InHand /\ Passed(consumer, t)
             => slots[t].reading.last > history.scanBegan
    BY DEF HandoffInv, ScansEmpty
  <2>. QED  BY <1>2, <1>3, <1>4, <1>5, <2>1
<1>14. JoinedInOrder' /\ ReturnsRemembered'
  BY <1>1, <1>2, <1>3, <1>5 DEF HandoffInv, JoinedInOrder, ReturnsRemembered
<1>. QED  BY <1>6, <1>7, <1>8, <1>9, <1>12, <1>13, <1>14 DEF HandoffInv

\* The scan goes on: it has passed the slot it was at
LEMMA ScanAdvances ==
    ASSUME NEW c \in Consumers, c.pc = "visit"
    PROVE  /\ Advanced(c) \in Consumers /\ Advanced(c).pc \in {"visit", "return"}
           /\ Advanced(c).acquired = c.acquired /\ Advanced(c).joined = c.joined
           /\ \A s \in MeterSlots : Passed(Advanced(c), s) => Passed(c, s) \/ s = c.index
<1>1. MeterSlotCount \in Nat \ {0} /\ MeterSlots = 1..MeterSlotCount
  BY MeterHandoffAssumption DEF MeterSlots
<1>2. c.index \in MeterSlots /\ c.pass \in {1, 2}
  BY DEF Consumers
<1>3. CASE c.index < MeterSlotCount
  <2>1. Advanced(c) = [c EXCEPT !.index = c.index + 1] /\ c.index + 1 \in MeterSlots
    BY <1>1, <1>2, <1>3 DEF Advanced
  <2>. QED  BY <1>1, <1>2, <2>1 DEF Consumers, Passed
<1>4. CASE ~(c.index < MeterSlotCount) /\ c.pass = 1
  <2>1. Advanced(c) = [c EXCEPT !.pass = 2, !.index = 1] /\ 1 \in MeterSlots
    BY <1>1, <1>2, <1>4 DEF Advanced
  <2>2. c.index = MeterSlotCount
    BY <1>1, <1>2, <1>4
  <2>3. \A s \in MeterSlots : s < c.index \/ s = c.index
    BY <1>1, <2>2
  <2>4. 2 \in 1..2
    OBVIOUS
  <2>. QED  BY <2>1, <2>3, <2>4 DEF Consumers, Passed
<1>5. CASE ~(c.index < MeterSlotCount) /\ c.pass # 1
  <2>1. Advanced(c) = [c EXCEPT !.pc = "return"] /\ c.pass = 2
    BY <1>2, <1>5 DEF Advanced
  <2>. QED  BY <2>1 DEF Consumers, Passed
<1>. QED  BY <1>3, <1>4, <1>5

\* The scans: one begins, passes a slot over, takes a ready one
LEMMA HandoffScans ==
    ASSUME HandoffInv, BeginConsume \/ VisitReady \/ VisitOther
    PROVE  HandoffInv'
<1>1. /\ slots \in [MeterSlots -> MeterSlotContents] /\ consumer \in Consumers
      /\ history \in Histories /\ MeterSlotCount \in Nat \ {0}
      /\ 1 \in MeterSlots /\ consumer.index \in MeterSlots
      /\ UNCHANGED <<producer, nextSequence, previous>>
  BY HandoffTypes, MeterHandoffAssumption
     DEF HandoffInv, Consumers, MeterSlots, BeginConsume, VisitReady, VisitOther
<1>2. CASE BeginConsume
  <2>1. /\ consumer.pc = "idle" /\ slots' = slots
        /\ consumer.joined = NoReading /\ consumer.acquired = {}
        /\ consumer' = [pc |-> "visit", pass |-> 1, index |-> 1, acquired |-> {},
                        joined |-> NoReading]
        /\ history' = [history EXCEPT !.scanBegan = history.newest]
    BY <1>2 DEF BeginConsume, HandoffInv, JoinedInOrder
  <2>2. /\ consumer' \in Consumers /\ history' \in Histories
        /\ history'.newest = history.newest /\ history'.returned = history.returned
        /\ history'.lastBegan = history.lastBegan /\ history'.scanBegan = history.newest
    BY <1>1, <2>1, NoReadingType DEF Consumers, Histories
  <2>3. HandoffTypeOK'
    BY <1>1, <2>1, <2>2, HandoffTypes
       DEF HandoffInv, HandoffTypeOK, Consumers, Histories
  <2>4. OneOwnerPerSlot' /\ NewestKept'
    BY <1>1, <2>1, <2>2 DEF HandoffInv, OneOwnerPerSlot, NewestKept
  <2>5. ReadingsAccounted' /\ NewestMeasured' /\ NothingLeftBehind' /\ JoinedInOrder'
    BY <1>1, <2>1, <2>2
       DEF HandoffInv, ReadingsAccounted, NewestMeasured, NothingLeftBehind, StillToReturn,
           Accounted, JoinedInOrder
  <2>6. ReturnsRemembered'
    BY <1>1, <2>1, <2>2 DEF HandoffInv, ReturnsRemembered
  <2>7. ScansEmpty'
    <3>1. history.returned <= history.newest /\ history.newest <= history.newest
      BY <1>1 DEF HandoffInv, ReturnsRemembered, Histories
    <3>2. \A s \in MeterSlots : ~(s < 1)
      BY <1>1 DEF MeterSlots
    <3>. QED  BY <2>1, <2>2, <3>1, <3>2 DEF ScansEmpty, Passed
  <2>. QED  BY <2>3, <2>4, <2>5, <2>6, <2>7 DEF HandoffInv
<1>3. CASE VisitReady
  <2>. DEFINE i == consumer.index
  <2>1. /\ consumer.pc = "visit" /\ slots[i].state = "ready" /\ history' = history
        /\ slots' = [slots EXCEPT ![i].state = "reading"]
        /\ consumer' = [consumer EXCEPT !.pc = "copy"]
    BY <1>3 DEF VisitReady
  <2>2. i \in MeterSlots
    BY <1>1
  <2>. HIDE DEF i
  <2>3. /\ slots' \in [MeterSlots -> MeterSlotContents]
        /\ \A t \in MeterSlots : slots'[t].reading = slots[t].reading
        /\ \A t \in MeterSlots : t # i => slots'[t].state = slots[t].state
        /\ slots'[i].state = "reading"
    BY <1>1, <2>1, <2>2 DEF MeterSlotContents
  <2>4. /\ consumer' \in Consumers /\ consumer'.pc = "copy" /\ consumer'.index = i
        /\ consumer'.pass = consumer.pass /\ consumer'.acquired = consumer.acquired
        /\ consumer'.joined = consumer.joined
    BY <1>1, <2>1 DEF Consumers, i
  <2>5. HandoffTypeOK'
    BY <1>1, <2>1, <2>3, <2>4, HandoffTypes
       DEF HandoffInv, HandoffTypeOK, Consumers, MeterSlotContents
  <2>6. OneOwnerPerSlot'
    <3>1. i = consumer.index
      BY DEF i
    <3>. QED  BY <1>1, <2>1, <2>2, <2>3, <2>4, <3>1 DEF HandoffInv, OneOwnerPerSlot
  <2>7. NewestKept'
    BY <1>1, <2>1, <2>2, <2>3, <2>4 DEF HandoffInv, NewestKept
  <2>8. \A t \in MeterSlots : slots'[t].state \in InHand => slots[t].state \in InHand
    BY <2>1, <2>2, <2>3 DEF InHand
  <2>9. ReadingsAccounted' /\ NewestMeasured' /\ NothingLeftBehind' /\ JoinedInOrder'
    BY <1>1, <2>1, <2>3, <2>4, <2>8
       DEF HandoffInv, ReadingsAccounted, NewestMeasured, NothingLeftBehind, StillToReturn,
           Accounted, JoinedInOrder
  <2>10. ReturnsRemembered'
    BY <1>1, <2>1 DEF HandoffInv, ReturnsRemembered
  <2>11. ScansEmpty'
    <3>1. \A t \in MeterSlots : Passed(consumer', t) => Passed(consumer, t)
      BY <2>1, <2>4 DEF Passed, i
    <3>. QED  BY <2>1, <2>3, <2>8, <3>1 DEF HandoffInv, ScansEmpty
  <2>. QED  BY <2>5, <2>6, <2>7, <2>9, <2>10, <2>11 DEF HandoffInv
<1>4. CASE VisitOther
  <2>1. /\ consumer.pc = "visit" /\ slots[consumer.index].state # "ready"
        /\ consumer' = Advanced(consumer) /\ history' = history /\ slots' = slots
    BY <1>4 DEF VisitOther
  <2>2. /\ consumer' \in Consumers /\ consumer'.pc \in {"visit", "return"}
        /\ consumer'.acquired = consumer.acquired /\ consumer'.joined = consumer.joined
        /\ \A s \in MeterSlots :
             Passed(consumer', s) => Passed(consumer, s) \/ s = consumer.index
    BY <1>1, <2>1, ScanAdvances
  <2>3. consumer.joined = NoReading
    BY <2>1 DEF HandoffInv, JoinedInOrder
  <2>4. HandoffTypeOK'
    BY <1>1, <2>1, <2>2 DEF HandoffInv, HandoffTypeOK, Consumers
  <2>5. OneOwnerPerSlot' /\ NewestKept'
    BY <1>1, <2>1, <2>2 DEF HandoffInv, OneOwnerPerSlot, NewestKept
  <2>6. ReadingsAccounted' /\ NewestMeasured' /\ NothingLeftBehind' /\ JoinedInOrder'
    BY <1>1, <2>1, <2>2, <2>3
       DEF HandoffInv, ReadingsAccounted, NewestMeasured, NothingLeftBehind, StillToReturn,
           Accounted, JoinedInOrder
  <2>7. ReturnsRemembered'
    BY <1>1, <2>1 DEF HandoffInv, ReturnsRemembered
  <2>8. ScansEmpty'
    <3>1. slots[consumer.index].state \notin InHand
      BY <1>1, <2>1 DEF HandoffInv, OneOwnerPerSlot, InHand
    <3>. QED  BY <2>1, <2>2, <3>1 DEF HandoffInv, ScansEmpty
  <2>. QED  BY <2>4, <2>5, <2>6, <2>7, <2>8 DEF HandoffInv
<1>. QED  BY <1>2, <1>3, <1>4

\* The reading goes from the slot to the consumer's hands
LEMMA HandoffCopies ==
    ASSUME HandoffInv, CopyAndFree
    PROVE  HandoffInv'
<1>. DEFINE i == consumer.index
            r == slots[i].reading
            c == [consumer EXCEPT !.pc = "visit", !.acquired = consumer.acquired \cup {r}]
<1>1. /\ consumer.pc = "copy" /\ consumer' = Advanced(c)
      /\ slots' = [slots EXCEPT ![i].state = "free"]
      /\ UNCHANGED <<producer, nextSequence, previous, history>>
  BY DEF CopyAndFree
<1>2. /\ slots \in [MeterSlots -> MeterSlotContents] /\ consumer \in Consumers
      /\ i \in MeterSlots /\ r \in Readings
  BY HandoffTypes DEF HandoffInv, Consumers, MeterSlotContents
<1>3. slots[i].state = "reading" /\ Accounted(r) /\ StillToReturn(r)
      /\ consumer.joined = NoReading
  BY <1>1, <1>2
     DEF HandoffInv, OneOwnerPerSlot, ReadingsAccounted, NothingLeftBehind, InHand, JoinedInOrder
<1>. HIDE DEF r
<1>4. /\ c \in Consumers /\ c.pc = "visit" /\ c.acquired = consumer.acquired \cup {r}
      /\ c.joined = NoReading /\ c.index = i /\ c.pass = consumer.pass
  BY <1>2, <1>3 DEF Consumers
<1>. HIDE DEF c, i
<1>5. /\ consumer' \in Consumers /\ consumer'.pc \in {"visit", "return"}
      /\ consumer'.acquired = consumer.acquired \cup {r} /\ consumer'.joined = NoReading
      /\ \A s \in MeterSlots : Passed(consumer', s) => Passed(c, s) \/ s = i
  BY <1>1, <1>4, ScanAdvances
<1>6. /\ slots' \in [MeterSlots -> MeterSlotContents]
      /\ \A t \in MeterSlots : slots'[t].reading = slots[t].reading
      /\ \A t \in MeterSlots : t # i => slots'[t].state = slots[t].state
      /\ slots'[i].state = "free"
  BY <1>1, <1>2 DEF MeterSlotContents
<1>7. HandoffTypeOK'
  BY <1>1, <1>5, <1>6, HandoffTypes
     DEF HandoffInv, HandoffTypeOK, Consumers, MeterSlotContents
<1>8. OneOwnerPerSlot'
  <2>1. \A t \in MeterSlots : t # i => slots[t].state # "reading"
    BY <1>1 DEF HandoffInv, OneOwnerPerSlot, i
  <2>2. producer.pc = "store" => producer.index # i
    BY <1>2, <1>3 DEF HandoffInv, OneOwnerPerSlot
  <2>. QED  BY <1>1, <1>2, <1>5, <1>6, <2>1, <2>2 DEF HandoffInv, OneOwnerPerSlot
<1>9. NewestKept'
  BY <1>1, <1>2, <1>3, <1>5, <1>6 DEF HandoffInv, NewestKept, r
<1>10. \A t \in MeterSlots : slots'[t].state \in InHand => slots[t].state \in InHand /\ t # i
  BY <1>2, <1>6 DEF InHand
<1>11. ReadingsAccounted' /\ NewestMeasured' /\ NothingLeftBehind' /\ JoinedInOrder'
  BY <1>1, <1>3, <1>5, <1>6, <1>10
     DEF HandoffInv, ReadingsAccounted, NewestMeasured, NothingLeftBehind, StillToReturn,
         Accounted, JoinedInOrder
<1>12. ReturnsRemembered'
  BY <1>1 DEF HandoffInv, ReturnsRemembered
<1>13. ScansEmpty'
  <2>1. \A s \in MeterSlots : Passed(c, s) => Passed(consumer, s)
    BY <1>1, <1>4 DEF Passed, i
  <2>. QED  BY <1>1, <1>5, <1>6, <1>10, <2>1 DEF HandoffInv, ScansEmpty
<1>. QED  BY <1>7, <1>8, <1>9, <1>11, <1>12, <1>13 DEF HandoffInv

\* The readings are joined, the oldest first
LEMMA HandoffJoins ==
    ASSUME HandoffInv, JoinOldest
    PROVE  HandoffInv'
<1>1. PICK r \in consumer.acquired :
           /\ Oldest(r, consumer.acquired)
           /\ consumer' = [consumer EXCEPT !.acquired = consumer.acquired \ {r},
                !.joined = IF consumer.joined = NoReading THEN r ELSE Joined(consumer.joined, r)]
  BY DEF JoinOldest
<1>2. consumer.pc = "return" /\ UNCHANGED <<slots, producer, nextSequence, previous, history>>
  BY DEF JoinOldest
<1>3. /\ consumer \in Consumers /\ r \in Readings /\ consumer.joined \in Readings
      /\ history \in Histories
  BY HandoffTypes DEF HandoffInv, Consumers
<1>4. Accounted(r) /\ StillToReturn(r)
  BY DEF HandoffInv, ReadingsAccounted, NothingLeftBehind
<1>. DEFINE joined == IF consumer.joined = NoReading THEN r ELSE Joined(consumer.joined, r)
<1>5. joined \in Readings /\ Accounted(joined) /\ joined.last = r.last
  <2>1. CASE consumer.joined = NoReading
    BY <1>3, <1>4, <2>1
  <2>2. CASE consumer.joined # NoReading
    <3>1. Accounted(consumer.joined)
      BY <2>2 DEF HandoffInv, ReadingsAccounted
    <3>. QED  BY <1>3, <1>4, <2>2, <3>1, JoinedReading
  <2>. QED  BY <2>1, <2>2
<1>6. consumer' = [consumer EXCEPT !.acquired = consumer.acquired \ {r}, !.joined = joined]
  BY <1>1
<1>. HIDE DEF joined
<1>7. /\ consumer' \in Consumers /\ consumer'.pc = "return"
      /\ consumer'.acquired = consumer.acquired \ {r} /\ consumer'.joined = joined
      /\ consumer'.index = consumer.index /\ consumer'.pass = consumer.pass
  BY <1>2, <1>3, <1>5, <1>6 DEF Consumers
<1>8. HandoffTypeOK'
  BY <1>2, <1>7 DEF HandoffInv, HandoffTypeOK, Consumers
<1>9. OneOwnerPerSlot'
  BY <1>2, <1>7 DEF HandoffInv, OneOwnerPerSlot
<1>10. NewestKept'
  <2>1. CASE consumer.joined.last = history.newest /\ consumer.joined # NoReading
    <3>1. /\ consumer.joined.last <= r.last /\ r.last <= history.newest
          /\ r.last \in Nat /\ history.newest \in Nat
      BY <1>3, <1>4, <2>1 DEF HandoffInv, JoinedInOrder, StillToReturn, Readings, Histories
    <3>2. joined.last = history.newest
      BY <1>5, <2>1, <3>1
    <3>. QED  BY <1>2, <1>7, <3>2 DEF NewestKept
  <2>2. CASE ~(consumer.joined.last = history.newest /\ consumer.joined # NoReading)
    <3>1. \/ history.newest <= history.returned
          \/ \E s \in MeterSlots : slots[s].state # "free" /\ slots[s].reading.last = history.newest
          \/ \E q \in consumer.acquired : q.last = history.newest
      <4>1. CASE consumer.joined = NoReading /\ NoReading.last = history.newest
        <5>1. history.newest = 0 /\ history.returned \in Nat
          BY <1>3, <4>1 DEF NoReading, Histories
        <5>. QED  BY <5>1
      <4>. QED  BY <2>2, <4>1 DEF HandoffInv, NewestKept
    <3>. QED  BY <1>2, <1>5, <1>7, <3>1 DEF NewestKept
  <2>. QED  BY <2>1, <2>2
<1>11. ReadingsAccounted' /\ NewestMeasured' /\ NothingLeftBehind'
  <2>1. StillToReturn(joined)
    BY <1>4, <1>5 DEF StillToReturn
  <2>. QED
    BY <1>2, <1>5, <1>7, <2>1
       DEF HandoffInv, ReadingsAccounted, NewestMeasured, NothingLeftBehind, StillToReturn, Accounted
<1>12. JoinedInOrder'
  BY <1>1, <1>5, <1>7 DEF HandoffInv, JoinedInOrder, Oldest
<1>13. ReturnsRemembered' /\ ScansEmpty'
  BY <1>2, <1>7 DEF HandoffInv, ReturnsRemembered, ScansEmpty, Passed
<1>. QED  BY <1>8, <1>9, <1>10, <1>11, <1>12, <1>13 DEF HandoffInv

\* What was joined is returned
LEMMA HandoffReturns ==
    ASSUME HandoffInv, ReturnLatest
    PROVE  HandoffInv'
<1>. DEFINE joined == consumer.joined
<1>1. /\ consumer.pc = "return" /\ consumer.acquired = {}
      /\ previous' = IF joined # NoReading THEN Returned(joined) ELSE previous
      /\ consumer' = [consumer EXCEPT !.pc = "idle", !.joined = NoReading]
      /\ history' = IF joined # NoReading
                    THEN [history EXCEPT !.lastBegan = history.scanBegan,
                            !.returned = IF history.returned < joined.last THEN joined.last
                                         ELSE history.returned]
                    ELSE history
      /\ UNCHANGED <<slots, producer, nextSequence>>
  BY DEF ReturnLatest
<1>2. /\ consumer \in Consumers /\ joined \in Readings /\ history \in Histories
      /\ previous \in Readings /\ joined.last \in 0..MaxBlocks /\ MaxBlocks \in Nat
      /\ slots \in [MeterSlots -> MeterSlotContents]
  BY HandoffTypes, MeterHandoffAssumption DEF HandoffInv, Consumers, Readings
<1>3. /\ joined # NoReading => history.lastBegan < joined.last /\ joined.last <= history.newest
                               /\ Accounted(joined)
      /\ history.returned <= history.scanBegan /\ history.scanBegan <= history.newest
      /\ \A s \in MeterSlots : slots[s].state \in InHand
           => slots[s].reading.last > history.scanBegan
  BY <1>1 DEF HandoffInv, NothingLeftBehind, StillToReturn, ReadingsAccounted, ScansEmpty, Passed
<1>. HIDE DEF joined
<1>4. /\ consumer' \in Consumers /\ consumer'.pc = "idle" /\ consumer'.acquired = {}
      /\ consumer'.joined = NoReading
  BY <1>1, <1>2, NoReadingType DEF Consumers
<1>5. /\ history' \in Histories /\ history'.newest = history.newest
      /\ history'.scanBegan = history.scanBegan
      /\ joined # NoReading => history'.lastBegan = history.scanBegan
      /\ joined # NoReading /\ history.returned < joined.last => history'.returned = joined.last
      /\ joined # NoReading /\ ~(history.returned < joined.last) => history'.returned = history.returned
      /\ joined = NoReading => history' = history
  <2>1. CASE joined = NoReading
    BY <1>1, <1>2, <2>1
  <2>2. CASE joined # NoReading
    <3>. DEFINE returned == IF history.returned < joined.last THEN joined.last
                            ELSE history.returned
    <3>1. returned \in 0..MaxBlocks /\ history.scanBegan \in 0..MaxBlocks
      BY <1>2 DEF Histories
    <3>2. history' = [history EXCEPT !.lastBegan = history.scanBegan, !.returned = returned]
      BY <1>1, <2>2
    <3>3. /\ history.returned < joined.last => returned = joined.last
          /\ ~(history.returned < joined.last) => returned = history.returned
      OBVIOUS
    <3>. HIDE DEF returned
    <3>. QED  BY <1>2, <2>2, <3>1, <3>2, <3>3 DEF Histories
  <2>. QED  BY <2>1, <2>2
<1>6. {history.newest, history.returned, history.scanBegan, history.lastBegan} \subseteq Nat
      /\ joined.last \in Nat
  BY <1>2 DEF Histories
<1>7. previous' \in Readings /\ (joined # NoReading => previous'.last = joined.last)
  BY <1>1, <1>2, ReturnedReading
<1>8. HandoffTypeOK'
  BY <1>1, <1>4, <1>5, <1>7 DEF HandoffInv, HandoffTypeOK, Consumers, Histories
<1>9. OneOwnerPerSlot'
  BY <1>1, <1>4 DEF HandoffInv, OneOwnerPerSlot
<1>10. NewestKept'
  <2>1. CASE joined # NoReading /\ joined.last = history.newest
    BY <1>5, <1>6, <2>1 DEF NewestKept
  <2>2. CASE ~(joined # NoReading /\ joined.last = history.newest)
    <3>1. \/ history.newest <= history.returned
          \/ \E s \in MeterSlots : slots[s].state # "free" /\ slots[s].reading.last = history.newest
      <4>1. joined = NoReading /\ NoReading.last = history.newest => history.newest <= history.returned
        BY <1>6 DEF NoReading
      <4>. QED  BY <1>1, <2>2, <4>1 DEF HandoffInv, NewestKept, joined
    <3>2. history.newest <= history.returned => history'.newest <= history'.returned
      BY <1>5, <1>6
    <3>. QED  BY <1>1, <1>5, <3>1, <3>2 DEF NewestKept
  <2>. QED  BY <2>1, <2>2
<1>11. ReadingsAccounted' /\ NewestMeasured' /\ JoinedInOrder' /\ ScansEmpty'
  BY <1>1, <1>4, <1>5
     DEF HandoffInv, ReadingsAccounted, NewestMeasured, Accounted, JoinedInOrder, ScansEmpty
<1>12. NothingLeftBehind'
  <2>1. ASSUME NEW s \in MeterSlots, slots[s].state \in InHand
        PROVE  history'.lastBegan < slots[s].reading.last /\ slots[s].reading.last <= history'.newest
    <3>1. /\ history.lastBegan < slots[s].reading.last
          /\ slots[s].reading.last <= history.newest
          /\ slots[s].reading.last > history.scanBegan
      BY <1>3, <2>1 DEF HandoffInv, NothingLeftBehind, StillToReturn
    <3>2. slots[s].reading.last \in Nat
      BY <1>2 DEF MeterSlotContents, Readings
    <3>. QED  BY <1>5, <1>6, <3>1, <3>2
  <2>. QED  BY <1>1, <1>4, <2>1 DEF NothingLeftBehind, StillToReturn
<1>13. ReturnsRemembered'
  <2>1. /\ history.returned <= history.newest /\ history.lastBegan <= history.newest
        /\ previous = NoReading => history.returned = 0
        /\ previous # NoReading => previous.last <= history.returned
        /\ previous # NoReading /\ previous.last < history.returned
             => history.returned <= history.lastBegan
    BY DEF HandoffInv, ReturnsRemembered
  <2>2. CASE joined = NoReading
    <3>1. previous' = previous /\ history' = history
      BY <1>1, <1>5, <2>2
    <3>. QED  BY <2>1, <3>1 DEF ReturnsRemembered
  <2>3. CASE joined # NoReading
    <3>1. previous' # NoReading
      <4>1. joined.last > 0
        BY <1>3, <1>6, <2>3
      <4>2. previous'.last # NoReading.last
        BY <1>6, <1>7, <2>3, <4>1 DEF NoReading
      <4>. QED  BY <4>2
    <3>2. previous'.last = joined.last /\ history'.lastBegan = history.scanBegan
      BY <1>5, <1>7, <2>3
    <3>. QED  BY <1>3, <1>5, <1>6, <2>1, <2>3, <3>1, <3>2 DEF ReturnsRemembered
  <2>. QED  BY <2>2, <2>3
<1>. QED  BY <1>8, <1>9, <1>10, <1>11, <1>12, <1>13 DEF HandoffInv

\* Everything pending is discarded, with both sides at rest
LEMMA HandoffDiscards ==
    ASSUME HandoffInv, DiscardPending
    PROVE  HandoffInv'
<1>1. /\ producer.pc = "idle" /\ consumer.pc = "idle"
      /\ slots' = [s \in MeterSlots |-> [slots[s] EXCEPT !.state = "free"]]
      /\ previous' = NoReading
      /\ history' = [history EXCEPT !.newest = 0, !.returned = 0, !.lastBegan = 0]
      /\ UNCHANGED <<producer, nextSequence, consumer>>
  BY DEF DiscardPending
<1>2. /\ slots \in [MeterSlots -> MeterSlotContents] /\ history \in Histories /\ MaxBlocks \in Nat
      /\ nextSequence \in 1..(MaxBlocks + 1) /\ producer \in Producers /\ consumer \in Consumers
  BY HandoffTypes, MeterHandoffAssumption DEF HandoffInv
<1>3. /\ slots' \in [MeterSlots -> MeterSlotContents]
      /\ \A s \in MeterSlots : slots'[s].state = "free"
  BY <1>1, <1>2 DEF MeterSlotContents
<1>4. /\ history' \in Histories /\ history'.newest = 0 /\ history'.returned = 0
      /\ history'.lastBegan = 0
  <2>1. 0 \in 0..MaxBlocks
    BY <1>2
  <2>. QED  BY <1>1, <1>2, <2>1 DEF Histories
<1>5. consumer.acquired = {} /\ consumer.joined = NoReading
  BY <1>1 DEF HandoffInv, JoinedInOrder
<1>6. HandoffTypeOK'
  BY <1>1, <1>2, <1>3, <1>4, NoReadingType
     DEF HandoffTypeOK, Producers, Consumers, Histories, MeterSlotContents
<1>7. OneOwnerPerSlot'
  BY <1>1, <1>3 DEF OneOwnerPerSlot
<1>8. NewestKept' /\ NewestMeasured' /\ ScansEmpty' /\ ReturnsRemembered'
  BY <1>1, <1>2, <1>4 DEF NewestKept, NewestMeasured, ScansEmpty, ReturnsRemembered
<1>9. ReadingsAccounted' /\ NothingLeftBehind' /\ JoinedInOrder'
  BY <1>1, <1>3, <1>5 DEF ReadingsAccounted, NothingLeftBehind, JoinedInOrder, InHand
<1>. QED  BY <1>6, <1>7, <1>8, <1>9 DEF HandoffInv

\* Every step keeps the invariant
LEMMA HandoffStep == HandoffInv /\ [HandoffNext]_handoffVars => HandoffInv'
<1>. SUFFICES ASSUME HandoffInv, [HandoffNext]_handoffVars
              PROVE  HandoffInv'
  OBVIOUS
<1>1. CASE PublishBlock
  BY <1>1, HandoffProducerMoves, HandoffClaims, HandoffStores DEF PublishBlock
<1>2. CASE ConsumeLatest
  BY <1>2, HandoffScans, HandoffCopies, HandoffJoins, HandoffReturns DEF ConsumeLatest
<1>3. CASE DiscardPending
  BY <1>3, HandoffDiscards
<1>4. CASE UNCHANGED handoffVars
  BY <1>4
     DEF handoffVars, HandoffInv, HandoffTypeOK, OneOwnerPerSlot, NewestKept, ReadingsAccounted,
         Accounted, NewestMeasured, NothingLeftBehind, StillToReturn, ScansEmpty, Passed,
         JoinedInOrder, ReturnsRemembered
<1>. QED  BY <1>1, <1>2, <1>3, <1>4 DEF HandoffNext

LEMMA HandoffInvariant == HandoffSpec => []HandoffInv
BY InitHandoff, HandoffStep, PTL DEF HandoffSpec

-----------------------------------------------------------------------------
(***************************************************************************)
(* MeterHandoff: the theorems.                                             *)
(***************************************************************************)
\* The newest reading released is never lost: it is in a slot, in the
\* consumer's hands, or it or a newer one has been returned (publishBlock
\* coalesces into the newest reading only, consumeLatest joins oldest first)
THEOREM NewestStaysKept == HandoffSpec => []NewestKept
<1>1. HandoffInv => NewestKept
  BY DEF HandoffInv
<1>. QED  BY <1>1, HandoffInvariant, PTL

\* Only a return and a discard change what was returned last
LEMMA OnlyReturns ==
    ASSUME HandoffInv, [HandoffNext]_handoffVars, previous' \notin {previous, NoReading}
    PROVE  /\ ReturnLatest /\ consumer.joined # NoReading /\ consumer.joined \in Readings
           /\ previous' = Returned(consumer.joined)
<1>1. ReturnLatest
  BY DEF HandoffNext, handoffVars, PublishBlock, ConsumeLatest, Measure, ClaimFreeSlot, SkipTaken,
         ScanReady, CoalesceNewest, NewestTaken, Store, BeginConsume, VisitReady, VisitOther,
         CopyAndFree, JoinOldest, DiscardPending
<1>2. consumer.joined \in Readings
  BY HandoffTypes DEF HandoffInv, Consumers
<1>. QED  BY <1>1, <1>2 DEF ReturnLatest

\* A reading returned unflagged follows exactly the one returned before it, and
\* every returned reading accounts for all the blocks it spans
\* (prependRepresentedMetadata, and the tests of consumeLatest)
THEOREM UnflaggedReadingsExtend == HandoffSpec => UnflaggedExtends
<1>1. ASSUME HandoffInv, [HandoffNext]_handoffVars, previous' \notin {previous, NoReading}
      PROVE  /\ ~previous'.broken /\ previous # NoReading => Follows(previous, previous')
             /\ previous'.blocks = previous'.last - previous'.first + 1
  <2>1. /\ consumer.joined # NoReading /\ consumer.joined \in Readings
        /\ previous' = Returned(consumer.joined)
    BY <1>1, OnlyReturns
  <2>2. Accounted(consumer.joined)
    BY <1>1, <2>1 DEF HandoffInv, ReadingsAccounted
  <2>. QED  BY <2>1, <2>2, ReturnedReading DEF Follows, Accounted
<1>2. HandoffInv /\ [HandoffNext]_handoffVars =>
        [previous' \notin {previous, NoReading}
           => /\ ~previous'.broken /\ previous # NoReading => Follows(previous, previous')
              /\ previous'.blocks = previous'.last - previous'.first + 1]_handoffVars
  BY <1>1
<1>. QED  BY <1>2, HandoffInvariant, PTL DEF HandoffSpec, UnflaggedExtends

\* A reading older than one returned before it is flagged, and was released
\* after the scans of the consumeLatest before it began: two calls in a row
\* leave no reading behind
THEOREM OvertakenReadingsFlagged == HandoffSpec => OvertakenOnlyInScan
<1>1. ASSUME HandoffInv, [HandoffNext]_handoffVars, previous' \notin {previous, NoReading},
             previous'.last < history.returned
      PROVE  previous'.broken /\ previous'.last > history.lastBegan
  <2>. DEFINE joined == consumer.joined
  <2>1. joined # NoReading /\ joined \in Readings /\ previous' = Returned(joined)
    BY <1>1, OnlyReturns
  <2>2. /\ previous'.last = joined.last
        /\ previous # NoReading /\ ~Follows(previous, joined) => previous'.broken
    BY <2>1, ReturnedReading
  <2>3. history.lastBegan < joined.last /\ Accounted(joined)
    BY <1>1, <2>1 DEF HandoffInv, NothingLeftBehind, StillToReturn, ReadingsAccounted
  <2>4. /\ previous = NoReading => history.returned = 0
        /\ previous # NoReading => previous.last <= history.returned
        /\ previous # NoReading /\ previous.last < history.returned
             => history.returned <= history.lastBegan
    BY <1>1 DEF HandoffInv, ReturnsRemembered
  <2>5. /\ history.lastBegan \in Nat /\ history.returned \in Nat /\ joined.last \in Nat
        /\ previous.last \in Nat /\ joined.first \in Nat
    BY <1>1, <2>1, HandoffTypes DEF HandoffInv, Histories, Readings
  <2>. HIDE DEF joined
  <2>6. previous # NoReading
    BY <1>1, <2>2, <2>4, <2>5
  <2>7. previous.last = history.returned
    BY <1>1, <2>2, <2>3, <2>4, <2>5, <2>6
  <2>8. joined.first <= joined.last /\ joined.first # previous.last + 1
    BY <1>1, <2>2, <2>3, <2>5, <2>7 DEF Accounted
  <2>. QED  BY <2>2, <2>3, <2>5, <2>6, <2>8 DEF Follows
<1>2. HandoffInv /\ [HandoffNext]_handoffVars =>
        [previous' \notin {previous, NoReading} /\ previous'.last < history.returned
           => previous'.broken /\ previous'.last > history.lastBegan]_handoffVars
  BY <1>1
<1>. QED  BY <1>2, HandoffInvariant, PTL DEF HandoffSpec, OvertakenOnlyInScan
=============================================================================
