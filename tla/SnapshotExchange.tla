--------------------------- MODULE SnapshotExchange ---------------------------
(***************************************************************************)
(* VisualizationSnapshotExchange, the handoff of complete visualization      *)
(* frames from the analysis worker to the renderer                           *)
(* (src/src/analysis/AnalysisCoordinator.cpp): the worker writes a frame into *)
(* a free slot or over the oldest unread one, the renderer takes every ready  *)
(* slot in two passes and keeps the newest frame.                            *)
(*                                                                         *)
(* One action per atomic access to a slot's state.  publish() runs on the    *)
(* worker, or on the message thread while the worker is idle; copyLatest()   *)
(* has one logical consumer.  A frame is its publication number.             *)
(***************************************************************************)
EXTENDS Integers, FiniteSets

CONSTANTS
    SlotCount,          \* slotCount
    MaxPublications     \* bound: frames published

ASSUME ExchangeAssumption ==
    /\ SlotCount \in Nat \ {0}
    /\ MaxPublications \in Nat

VARIABLES
    slotState,              \* Slot::state
    publicationSequence,    \* Slot::publicationSequence
    frame,                  \* Slot::frame
    nextPublicationSequence, \* nextPublicationSequence_
    lastCopiedSequence,     \* lastCopiedSequence_
    droppedPublications,    \* droppedPublications_
    published,              \* history: the newest frame made ready
    publisherPc,            \* control point of publish()
    claim,                  \* its locals
    copierPc,               \* control point of copyLatest()
    copy,                   \* its locals
    received,               \* history: the frame the renderer last received
    due                     \* history: the newest frame that was complete when
                            \* the last pass began, 0 once it is overwritten

slotVars == <<slotState, publicationSequence, frame>>
publisherVars == <<nextPublicationSequence, droppedPublications, published,
                   publisherPc, claim>>
copierVars == <<lastCopiedSequence, copierPc, copy, received, due>>
vars == <<slotVars, publisherVars, copierVars>>

Slots == 0..(SlotCount - 1)
None == SlotCount
Numbers == 0..MaxPublications
OnePass == 1
TwoPasses == 2
Passes == TwoPasses

FreshClaim == [attempt |-> 0, index |-> 0, oldest |-> None]
FreshCopy == [pass |-> 0, index |-> 0, newest |-> 0, frame |-> 0]

\* The types of the state
TypeOK ==
    /\ slotState \in [Slots -> {"free", "writing", "ready", "reading"}]
    /\ publicationSequence \in [Slots -> Numbers]
    /\ frame \in [Slots -> Numbers]
    /\ nextPublicationSequence \in 1..(MaxPublications + 1)
    /\ lastCopiedSequence \in Numbers
    /\ droppedPublications \in Nat
    /\ published \in Numbers
    /\ publisherPc \in {"idle", "claim", "scan", "write", "release"}
    /\ claim \in [attempt : 0..SlotCount, index : 0..SlotCount, oldest : 0..SlotCount]
    /\ copierPc \in {"idle", "pass", "holding"}
    /\ copy \in [pass : 0..Passes, index : Slots, newest : Numbers, frame : Numbers]
    /\ received \in Numbers
    /\ due \in Numbers

Init ==
    /\ slotState = [s \in Slots |-> "free"]
    /\ publicationSequence = [s \in Slots |-> 0]
    /\ frame = [s \in Slots |-> 0]
    /\ nextPublicationSequence = 1
    /\ lastCopiedSequence = 0
    /\ droppedPublications = 0
    /\ published = 0
    /\ publisherPc = "idle"
    /\ claim = FreshClaim
    /\ copierPc = "idle"
    /\ copy = FreshCopy
    /\ received = 0
    /\ due = 0

SetState(s, state) == slotState' = [slotState EXCEPT ![s] = state]

-----------------------------------------------------------------------------
(***************************************************************************)
(* publish().                                                              *)
(***************************************************************************)
Publish ==
    /\ publisherPc = "idle"
    /\ nextPublicationSequence <= MaxPublications
    /\ publisherPc' = "claim"
    /\ claim' = FreshClaim
    /\ UNCHANGED <<slotVars, nextPublicationSequence, droppedPublications, published,
                   copierVars>>

\* The pass that looks for a free slot
ClaimFree ==
    /\ publisherPc = "claim"
    /\ slotState[claim.index] = "free"
    /\ SetState(claim.index, "writing")
    /\ claim' = [claim EXCEPT !.oldest = claim.index]
    /\ publisherPc' = "write"
    /\ UNCHANGED <<publicationSequence, frame, nextPublicationSequence,
                   droppedPublications, published, copierVars>>

ClaimPassesOver ==
    /\ publisherPc = "claim"
    /\ slotState[claim.index] # "free"
    /\ IF claim.index + 1 < SlotCount
       THEN claim' = [claim EXCEPT !.index = @ + 1] /\ UNCHANGED publisherPc
       ELSE claim' = [claim EXCEPT !.index = 0] /\ publisherPc' = "scan"
    /\ UNCHANGED <<slotVars, nextPublicationSequence, droppedPublications, published,
                   copierVars>>

\* The pass that looks for the oldest ready slot
OldestReadySoFar(s) ==
    /\ slotState[s] = "ready"
    /\ claim.oldest = None \/ publicationSequence[s] < publicationSequence[claim.oldest]

ReclaimScan ==
    /\ publisherPc = "scan"
    /\ claim.index < SlotCount
    /\ claim' = [claim EXCEPT !.index = @ + 1,
                   !.oldest = IF OldestReadySoFar(claim.index) THEN claim.index ELSE @]
    /\ UNCHANGED <<slotVars, nextPublicationSequence, droppedPublications, published,
                   publisherPc, copierVars>>

StillReady == claim.oldest # None /\ slotState[claim.oldest] = "ready"

ReclaimOldest ==
    /\ publisherPc = "scan"
    /\ claim.index = SlotCount
    /\ StillReady
    /\ SetState(claim.oldest, "writing")
    /\ publisherPc' = "write"
    /\ due' = IF frame[claim.oldest] = due THEN 0 ELSE due
    /\ UNCHANGED <<publicationSequence, frame, nextPublicationSequence,
                   droppedPublications, published, claim, lastCopiedSequence, copierPc,
                   copy, received>>

\* Nothing ready, or the renderer took it: both passes again, SlotCount times,
\* then the frame is dropped
LastAttempt == claim.attempt = SlotCount

ReclaimFails ==
    /\ publisherPc = "scan"
    /\ claim.index = SlotCount
    /\ ~StillReady
    /\ IF LastAttempt
       THEN /\ droppedPublications' = droppedPublications + 1
            /\ claim' = FreshClaim
            /\ publisherPc' = "idle"
       ELSE /\ claim' = [FreshClaim EXCEPT !.attempt = claim.attempt + 1]
            /\ publisherPc' = "claim"
            /\ UNCHANGED droppedPublications
    /\ UNCHANGED <<slotVars, nextPublicationSequence, published, copierVars>>

WriteFrame ==
    /\ publisherPc = "write"
    /\ nextPublicationSequence' = nextPublicationSequence + 1
    /\ publicationSequence' = [publicationSequence EXCEPT
                                  ![claim.oldest] = nextPublicationSequence]
    /\ frame' = [frame EXCEPT ![claim.oldest] = nextPublicationSequence]
    /\ publisherPc' = "release"
    /\ UNCHANGED <<slotState, droppedPublications, published, claim, copierVars>>

ReleaseReady ==
    /\ publisherPc = "release"
    /\ SetState(claim.oldest, "ready")
    /\ published' = frame[claim.oldest]
    /\ claim' = FreshClaim
    /\ publisherPc' = "idle"
    /\ UNCHANGED <<publicationSequence, frame, nextPublicationSequence,
                   droppedPublications, copierVars>>

-----------------------------------------------------------------------------
(***************************************************************************)
(* copyLatest().                                                           *)
(***************************************************************************)
\* The newest frame, while its slot holds it for this copy to find
Complete == IF \E s \in Slots : slotState[s] = "ready" /\ frame[s] = published
            THEN published ELSE 0

CopyLatest ==
    /\ copierPc = "idle"
    /\ copierPc' = "pass"
    /\ copy' = FreshCopy
    /\ due' = Complete
    /\ UNCHANGED <<slotVars, publisherVars, lastCopiedSequence, received>>

MoreSlots(c) == c.index + 1 < SlotCount
NextSlot(c) == IF MoreSlots(c) THEN [c EXCEPT !.index = @ + 1]
               ELSE [c EXCEPT !.index = 0, !.pass = @ + 1]

\* The second pass begins: the newest frame that is complete by now is due
Due == due' = IF copy'.index = 0 /\ copy'.pass < TwoPasses
              THEN IF Complete = 0 THEN due ELSE Complete
              ELSE due

PassOver ==
    /\ copierPc = "pass"
    /\ copy.pass < Passes
    /\ slotState[copy.index] # "ready"
    /\ copy' = NextSlot(copy)
    /\ Due
    /\ UNCHANGED <<slotVars, publisherVars, lastCopiedSequence, copierPc, received>>

TakeReady ==
    /\ copierPc = "pass"
    /\ copy.pass < Passes
    /\ slotState[copy.index] = "ready"
    /\ SetState(copy.index, "reading")
    /\ copierPc' = "holding"
    /\ UNCHANGED <<publicationSequence, frame, publisherVars, lastCopiedSequence, copy,
                   received, due>>

\* The slot is retired whether or not its frame is the newest so far
KeepNewest ==
    IF publicationSequence[copy.index] > copy.newest
    THEN [copy EXCEPT !.newest = publicationSequence[copy.index],
                      !.frame = frame[copy.index]]
    ELSE copy

RetireSlot ==
    /\ copierPc = "holding"
    /\ SetState(copy.index, "free")
    /\ copy' = NextSlot(KeepNewest)
    /\ Due
    /\ copierPc' = "pass"
    /\ UNCHANGED <<publicationSequence, frame, publisherVars, lastCopiedSequence, received>>

Unguarded == copy.newest # 0
IsNewer == copy.newest > lastCopiedSequence

CopyReturns ==
    /\ copierPc = "pass"
    /\ copy.pass = Passes
    /\ IF IsNewer
       THEN lastCopiedSequence' = copy.newest /\ received' = copy.frame
       ELSE UNCHANGED <<lastCopiedSequence, received>>
    /\ copierPc' = "idle"
    /\ copy' = FreshCopy
    /\ due' = 0
    /\ UNCHANGED <<slotVars, publisherVars>>

-----------------------------------------------------------------------------
Publisher ==
    \/ Publish \/ ClaimFree \/ ClaimPassesOver \/ ReclaimScan \/ ReclaimOldest
    \/ ReclaimFails \/ WriteFrame \/ ReleaseReady
Copier == CopyLatest \/ PassOver \/ TakeReady \/ RetireSlot \/ CopyReturns

Next == Publisher \/ Copier

Spec == Init /\ [][Next]_vars

-----------------------------------------------------------------------------
(***************************************************************************)
(* Properties.                                                             *)
(***************************************************************************)
\* The exchange is a latest-value mailbox: whatever the two passes and the
\* reclaiming publisher meet, the frames the renderer receives are complete, in
\* order, and each received at most once
Mailbox == INSTANCE LatestMailbox WITH delivered <- received
IsLatestMailbox == Mailbox!Spec

\* A copy leaves the renderer with a frame at least as new as the newest one
\* that was complete when its second pass began, unless a publication has
\* overwritten that frame: a publication into a slot the first pass had visited
\* is not missed
CopiesLatest == [][CopyReturns => received' >= due]_vars
=============================================================================
