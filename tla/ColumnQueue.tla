----------------------------- MODULE ColumnQueue -----------------------------
(***************************************************************************)
(* The bounded handoff of Spectrogram columns from the analysis worker to    *)
(* the renderer (src/src/analysis/SpectrogramColumnQueue.{h,cpp}).  Two      *)
(* threads meet: the worker publishes and discards; the message thread, one  *)
(* call after the other, copies the oldest column in its display-link        *)
(* callback and discards when the user changes the history duration.  (A     *)
(* reconfiguration discards on the host's thread in the worker's place,      *)
(* while the worker is known to be idle.)                                    *)
(*                                                                         *)
(* One action per atomic access to a slot's state or sequence that another   *)
(* thread can tell apart.  A column is its sequence and the capture-boundary *)
(* generation it marks (0: an ordinary column, or a reset marker of another  *)
(* kind, which the queue treats alike).                                      *)
(***************************************************************************)
EXTENDS Integers, FiniteSets

CONSTANTS
    SlotCount,      \* capacity
    MaxSequence,    \* bound: columns offered
    MaxBoundary     \* bound: capture boundaries marked

ASSUME QueueAssumption ==
    /\ SlotCount \in Nat \ {0}
    /\ MaxSequence \in Nat
    /\ MaxBoundary \in Nat

VARIABLES
    slotState,      \* Slot::state
    sequence,       \* Slot::sequence
    column,         \* Slot::column
    offered,        \* the column publish() is called with; its sequence is the
                    \* last the worker has used
    lastBoundary,   \* the last capture boundary the worker has marked
    producerPc,     \* control point of publish()
    claim,          \* locals of claimSlot()
    consumerPc,     \* control point of copyNext()
    scan,           \* its locals
    discard,        \* per discarding thread: the control point and locals of
                    \* discardPending() and discardPendingExceptCaptureBoundary()
    kept,           \* history: boundaries published, not yet copied, that no
                    \* discard told to retire them has overlapped or followed
    stable          \* history: sequences ready ever since copyNext() began to scan

producerVars == <<offered, lastBoundary, producerPc, claim>>
consumerVars == <<consumerPc, scan>>
vars == <<slotState, sequence, column, producerVars, consumerVars, discard, kept, stable>>

Slots == 0..(SlotCount - 1)
None == SlotCount
Sequences == 0..MaxSequence
Boundaries == 1..MaxBoundary
Columns == [sequence : Sequences, boundary : {0} \cup Boundaries]
Discarders == {"worker", "message"}

NoColumn == [sequence |-> 0, boundary |-> 0]
FreshScan == [attempt |-> 1, index |-> 0, oldest |-> None, sequence |-> 0]
NoDiscard == [pc |-> "idle", index |-> 0, except |-> 0]

\* The types of the state
TypeOK ==
    /\ slotState \in [Slots -> {"free", "writing", "ready", "reading"}]
    /\ sequence \in [Slots -> Sequences]
    /\ column \in [Slots -> Columns]
    /\ offered \in Columns
    /\ lastBoundary \in {0} \cup Boundaries
    /\ producerPc \in {"idle", "claim", "scan", "reclaim", "write", "release"}
    /\ claim \in [attempt : 1..(SlotCount + 1), index : 0..SlotCount,
                  oldest : 0..SlotCount, sequence : Sequences]
    /\ consumerPc \in {"idle", "scan", "load", "claim", "validate", "copy"}
    /\ scan \in [attempt : 1..(SlotCount + 1), index : 0..SlotCount,
                 oldest : 0..SlotCount, sequence : Sequences]
    /\ discard \in [Discarders ->
           [pc : {"idle", "loop", "holding"}, index : Slots,
            except : {0} \cup Boundaries]]
    /\ kept \subseteq Boundaries
    /\ stable \subseteq Sequences

Init ==
    /\ slotState = [s \in Slots |-> "free"]
    /\ sequence = [s \in Slots |-> 0]
    /\ column = [s \in Slots |-> NoColumn]
    /\ offered = NoColumn
    /\ lastBoundary = 0
    /\ producerPc = "idle"
    /\ claim = FreshScan
    /\ consumerPc = "idle"
    /\ scan = FreshScan
    /\ discard = [d \in Discarders |-> NoDiscard]
    /\ kept = {}
    /\ stable = {}

-----------------------------------------------------------------------------
(***************************************************************************)
(* Helpers.                                                                *)
(***************************************************************************)
WorkerIdle == producerPc = "idle" /\ discard["worker"].pc = "idle"
MessageThreadIdle == consumerPc = "idle" /\ discard["message"].pc = "idle"

SetState(s, state) == slotState' = [slotState EXCEPT ![s] = state]

\* Taking a slot out of the ready state ends the stability of its column
Leaves(s) == stable' = stable \ {column[s].sequence}

\* Both scans keep the smallest sequence seen so far
Newer(found, s) == found.oldest = None \/ sequence[s] > found.sequence
Older(found, s) == found.oldest = None \/ sequence[s] < found.sequence
Passed(found) == [found EXCEPT !.index = @ + 1]
Noted(found, s) ==
    [found EXCEPT !.index = @ + 1, !.oldest = s, !.sequence = sequence[s]]
StillReady(found) == found.oldest # None /\ slotState[found.oldest] = "ready"
Retries(found) == found.oldest # None /\ ~StillReady(found) /\ found.attempt < SlotCount
GivesUp(found) == ~StillReady(found) /\ ~Retries(found)
NextAttempt(found) == [FreshScan EXCEPT !.attempt = found.attempt + 1]

-----------------------------------------------------------------------------
(***************************************************************************)
(* publish() on the worker.                                                  *)
(***************************************************************************)
\* A column is offered; a capture boundary takes the next marker generation
Publish(isBoundary) ==
    /\ WorkerIdle
    /\ offered.sequence < MaxSequence
    /\ isBoundary => lastBoundary < MaxBoundary
    /\ lastBoundary' = IF isBoundary THEN lastBoundary + 1 ELSE lastBoundary
    /\ offered' = [sequence |-> offered.sequence + 1,
                   boundary |-> IF isBoundary THEN lastBoundary + 1 ELSE 0]
    /\ producerPc' = "claim"
    /\ claim' = FreshScan
    /\ UNCHANGED <<slotState, sequence, column, consumerVars, discard, kept, stable>>

\* claimSlot: one pass of compare-exchanges over the slots for a free one
ClaimFree ==
    /\ producerPc = "claim"
    /\ claim.index < SlotCount
    /\ slotState[claim.index] = "free"
    /\ SetState(claim.index, "writing")
    /\ claim' = [claim EXCEPT !.oldest = claim.index]
    /\ producerPc' = "write"
    /\ UNCHANGED <<sequence, column, offered, lastBoundary, consumerVars, discard,
                   kept, stable>>

ClaimPassesOver ==
    /\ producerPc = "claim"
    /\ claim.index < SlotCount
    /\ slotState[claim.index] # "free"
    /\ claim' = IF claim.index + 1 = SlotCount THEN FreshScan ELSE Passed(claim)
    /\ producerPc' = IF claim.index + 1 = SlotCount THEN "scan" ELSE "claim"
    /\ UNCHANGED <<slotState, sequence, column, offered, lastBoundary, consumerVars,
                   discard, kept, stable>>

\* The reclaim scan skips capture-boundary markers.  Only this thread changes a
\* sequence, so the load belongs to the step that loads the state
AnyReady(s) == slotState[s] = "ready"
Reclaimable(s) == slotState[s] = "ready" /\ column[s].boundary = 0

ReclaimScan ==
    /\ producerPc = "scan"
    /\ claim.index < SlotCount
    /\ claim' = IF Reclaimable(claim.index) /\ Older(claim, claim.index)
                THEN Noted(claim, claim.index) ELSE Passed(claim)
    /\ UNCHANGED <<slotState, sequence, column, offered, lastBoundary, producerPc,
                   consumerVars, discard, kept, stable>>

\* The compare-exchange wins.  The sequence is checked again in the code; no
\* other thread could have changed it
ReclaimOldest ==
    /\ producerPc = "scan"
    /\ claim.index = SlotCount
    /\ StillReady(claim)
    /\ SetState(claim.oldest, "writing")
    /\ Leaves(claim.oldest)
    /\ producerPc' = "write"
    /\ UNCHANGED <<sequence, column, offered, lastBoundary, claim, consumerVars,
                   discard, kept>>

\* It loses to the renderer or to a discard and scans again, once per slot
ReclaimRetries ==
    /\ producerPc = "scan"
    /\ claim.index = SlotCount
    /\ Retries(claim)
    /\ claim' = NextAttempt(claim)
    /\ UNCHANGED <<slotState, sequence, column, offered, lastBoundary, producerPc,
                   consumerVars, discard, kept, stable>>

DropIncoming ==
    /\ producerPc = "scan"
    /\ claim.index = SlotCount
    /\ GivesUp(claim)
    /\ producerPc' = "idle"
    /\ claim' = FreshScan
    /\ UNCHANGED <<slotState, sequence, column, offered, lastBoundary, consumerVars,
                   discard, kept, stable>>

WriteColumn ==
    /\ producerPc = "write"
    /\ column' = [column EXCEPT ![claim.oldest] = offered]
    /\ sequence' = [sequence EXCEPT ![claim.oldest] = offered.sequence]
    /\ producerPc' = "release"
    /\ UNCHANGED <<slotState, offered, lastBoundary, claim, consumerVars, discard,
                   kept, stable>>

SparedByActive(b) ==
    \A d \in Discarders : discard[d].pc = "idle" \/ discard[d].except = b

ReleaseReady ==
    /\ producerPc = "release"
    /\ SetState(claim.oldest, "ready")
    /\ kept' = IF offered.boundary # 0 /\ SparedByActive(offered.boundary)
               THEN kept \cup {offered.boundary} ELSE kept
    /\ producerPc' = "idle"
    /\ claim' = FreshScan
    /\ UNCHANGED <<sequence, column, offered, lastBoundary, consumerVars, discard, stable>>

-----------------------------------------------------------------------------
(***************************************************************************)
(* copyNext() on the message thread.                                         *)
(***************************************************************************)
ReadySequences == {column[s].sequence : s \in {t \in Slots : slotState[t] = "ready"}}

CopyNext ==
    /\ MessageThreadIdle
    /\ consumerPc' = "scan"
    /\ scan' = FreshScan
    /\ stable' = ReadySequences
    /\ UNCHANGED <<slotState, sequence, column, producerVars, discard, kept>>

\* The acquire load of a slot's state ...
ScanState ==
    /\ consumerPc = "scan"
    /\ scan.index < SlotCount
    /\ IF slotState[scan.index] = "ready"
       THEN consumerPc' = "load" /\ UNCHANGED scan
       ELSE scan' = Passed(scan) /\ UNCHANGED consumerPc
    /\ UNCHANGED <<slotState, sequence, column, producerVars, discard, kept, stable>>

\* ... and the relaxed load of its sequence
ScanSequence ==
    /\ consumerPc = "load"
    /\ consumerPc' = "scan"
    /\ scan' = IF Older(scan, scan.index) THEN Noted(scan, scan.index) ELSE Passed(scan)
    /\ UNCHANGED <<slotState, sequence, column, producerVars, discard, kept, stable>>

CopyClaims ==
    /\ consumerPc = "scan"
    /\ scan.index = SlotCount
    /\ StillReady(scan)
    /\ SetState(scan.oldest, "reading")
    /\ Leaves(scan.oldest)
    /\ consumerPc' = "validate"
    /\ UNCHANGED <<sequence, column, producerVars, scan, discard, kept>>

\* The compare-exchange fails: another attempt, with a new scan
CopyRetries ==
    /\ consumerPc = "scan"
    /\ scan.index = SlotCount
    /\ Retries(scan)
    /\ scan' = NextAttempt(scan)
    /\ stable' = ReadySequences
    /\ UNCHANGED <<slotState, sequence, column, producerVars, consumerPc, discard, kept>>

CopyFails ==
    /\ consumerPc = "scan"
    /\ scan.index = SlotCount
    /\ GivesUp(scan)
    /\ consumerPc' = "idle"
    /\ scan' = FreshScan
    /\ stable' = {}
    /\ UNCHANGED <<slotState, sequence, column, producerVars, discard, kept>>

\* After the claim the sequence must still be the one the scan chose
Trusted == TRUE
Validated == sequence[scan.oldest] = scan.sequence

CopyRestores ==
    /\ consumerPc = "validate"
    /\ ~Validated
    /\ SetState(scan.oldest, "ready")
    /\ IF scan.attempt < SlotCount
       THEN /\ consumerPc' = "scan"
            /\ scan' = NextAttempt(scan)
            /\ stable' = ReadySequences \cup {column[scan.oldest].sequence}
       ELSE /\ consumerPc' = "idle"
            /\ scan' = FreshScan
            /\ stable' = {}
    /\ UNCHANGED <<sequence, column, producerVars, discard, kept>>

CopyValidates ==
    /\ consumerPc = "validate"
    /\ Validated
    /\ consumerPc' = "copy"
    /\ UNCHANGED <<slotState, sequence, column, producerVars, scan, discard, kept, stable>>

CopyReturns ==
    /\ consumerPc = "copy"
    /\ SetState(scan.oldest, "free")
    /\ kept' = kept \ {column[scan.oldest].boundary}
    /\ consumerPc' = "idle"
    /\ scan' = FreshScan
    /\ stable' = {}
    /\ UNCHANGED <<sequence, column, producerVars, discard>>

-----------------------------------------------------------------------------
(***************************************************************************)
(* discardPending() (except = 0) and discardPendingExceptCaptureBoundary(),  *)
(* on the worker between two publications or on the message thread.          *)
(***************************************************************************)
Discard(d, except) ==
    /\ IF d = "worker" THEN WorkerIdle ELSE MessageThreadIdle
    /\ discard' = [discard EXCEPT ![d] = [pc |-> "loop", index |-> 0, except |-> except]]
    /\ kept' = IF except = 0 THEN {} ELSE kept \cap {except}
    /\ UNCHANGED <<slotState, sequence, column, producerVars, consumerVars, stable>>

DiscardNext(d) ==
    IF discard[d].index + 1 = SlotCount THEN NoDiscard
    ELSE [discard[d] EXCEPT !.pc = "loop", !.index = @ + 1]

DiscardPassesOver(d) ==
    /\ discard[d].pc = "loop"
    /\ slotState[discard[d].index] # "ready"
    /\ discard' = [discard EXCEPT ![d] = DiscardNext(d)]
    /\ UNCHANGED <<slotState, sequence, column, producerVars, consumerVars, kept, stable>>

\* discardPending frees the slot at once, the other one takes it to look at it
DiscardTakes(d) ==
    /\ discard[d].pc = "loop"
    /\ slotState[discard[d].index] = "ready"
    /\ IF discard[d].except = 0
       THEN /\ SetState(discard[d].index, "free")
            /\ discard' = [discard EXCEPT ![d] = DiscardNext(d)]
       ELSE /\ SetState(discard[d].index, "reading")
            /\ discard' = [discard EXCEPT ![d].pc = "holding"]
    /\ Leaves(discard[d].index)
    /\ UNCHANGED <<sequence, column, producerVars, consumerVars, kept>>

Spared(d) == column[discard[d].index].boundary = discard[d].except
StateAfterLook(d) == IF Spared(d) THEN "ready" ELSE "free"

DiscardDecides(d) ==
    /\ discard[d].pc = "holding"
    /\ SetState(discard[d].index, StateAfterLook(d))
    /\ discard' = [discard EXCEPT ![d] = DiscardNext(d)]
    /\ UNCHANGED <<sequence, column, producerVars, consumerVars, kept, stable>>

-----------------------------------------------------------------------------
Producer ==
    \/ \E isBoundary \in BOOLEAN : Publish(isBoundary)
    \/ ClaimFree \/ ClaimPassesOver
    \/ ReclaimScan \/ ReclaimOldest \/ ReclaimRetries \/ DropIncoming
    \/ WriteColumn \/ ReleaseReady

Consumer ==
    \/ CopyNext \/ ScanState \/ ScanSequence
    \/ CopyClaims \/ CopyRetries \/ CopyFails
    \/ CopyRestores \/ CopyValidates \/ CopyReturns

DiscardSteps(d) == DiscardPassesOver(d) \/ DiscardTakes(d) \/ DiscardDecides(d)

Next ==
    \/ Producer
    \/ Consumer
    \/ \E d \in Discarders :
          \/ \E except \in {0} \cup 1..lastBoundary : Discard(d, except)
          \/ DiscardSteps(d)

Spec == Init /\ [][Next]_vars

-----------------------------------------------------------------------------
(***************************************************************************)
(* Properties.                                                             *)
(***************************************************************************)
\* The column being copied is the one the scan chose, complete, and stays so
\* until it has been copied
NoTornCopy ==
    consumerPc = "copy" =>
        /\ slotState[scan.oldest] = "reading"
        /\ column[scan.oldest].sequence = scan.sequence

\* A capture-boundary marker that no unconditional discard has met is in the
\* queue until the renderer has copied it: overflow never reclaims it, and the
\* discards that are told to spare it do
Holds(b) == \E s \in Slots : column[s].boundary = b /\ slotState[s] \in {"ready", "reading"}
MarkerKept == \A b \in kept : Holds(b)

\* A copied column is older than every column that was ready during the whole
\* scan that chose it
NoStableColumnOvertaken ==
    consumerPc = "copy" => \A q \in stable : column[scan.oldest].sequence < q

=============================================================================
