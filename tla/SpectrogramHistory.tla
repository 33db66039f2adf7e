------------------------- MODULE SpectrogramHistory -------------------------
(***************************************************************************)
(* The data the renderer keeps about its spectrogram history: the circular *)
(* ring of texture columns, the signature that says which columns can be   *)
(* drawn side by side, the gate that lets one upload be in flight, and the *)
(* message thread's record of the columns that upload is writing.          *)
(*                                                                         *)
(* Timeline slots and sequences count from 1; 0 is "none" as in the code.  *)
(* The fields of a signature that never change alone (capture, FFT and     *)
(* mapping generation, FFT size, rows, rate) are one generation.           *)
(***************************************************************************)
EXTENDS Naturals, Sequences, FiniteSets

SmallerOf(a, b) == IF a < b THEN a ELSE b

(***************************************************************************)
(* The ring.                                                               *)
(***************************************************************************)
EmptyRing(count) ==
    [columns |-> count, valid |-> {}, next |-> 0, span |-> 0,
     lastSlot |-> 0, lastSequence |-> 0, hasTimeline |-> FALSE]

ClearedRing(ring) == EmptyRing(ring.columns)

\* The same number of columns keeps what the ring holds.
Configured(ring, count) == IF count = ring.columns THEN ring ELSE EmptyRing(count)

\* A ring that has accepted a column later than its newest slot: the missing
\* slots become invalid columns, or the whole span goes when they fill it.
WithGap(ring, gap) ==
    LET skipped == {(ring.next + i) % ring.columns : i \in 0 .. gap - 1}
    IN  [ring EXCEPT !.valid = IF gap >= ring.columns THEN {} ELSE @ \ skipped,
                     !.next = (@ + gap) % ring.columns,
                     !.span = IF gap >= ring.columns
                              THEN ring.columns - 1
                              ELSE SmallerOf(ring.columns, @ + gap)]

RefusedColumn(ring, slot, sequence) ==
    \/ ring.columns = 0 \/ slot = 0 \/ sequence = 0
    \/ ring.hasTimeline /\ (slot < ring.lastSlot \/ sequence <= ring.lastSequence)

\* A second column of the newest slot replaces it in place.
AppendColumn(ring, slot, sequence) ==
    LET again  == ring.hasTimeline /\ slot = ring.lastSlot
        gapped == IF ring.hasTimeline THEN WithGap(ring, slot - ring.lastSlot - 1) ELSE ring
    IN  IF again
        THEN [ring   |-> [ring EXCEPT !.lastSequence = sequence],
              column |-> (ring.next + ring.columns - 1) % ring.columns]
        ELSE [ring   |-> [gapped EXCEPT !.valid = @ \cup {gapped.next},
                                        !.next = (@ + 1) % ring.columns,
                                        !.span = SmallerOf(ring.columns, @ + 1),
                                        !.lastSlot = slot,
                                        !.lastSequence = sequence,
                                        !.hasTimeline = TRUE],
              column |-> gapped.next]

\* Scroll mode: which texture column is drawn at a place of the screen, as a
\* set of at most one. "state" is what the shader reads from the slot.
PhysicalColumn(state, place) ==
    LET empty  == state.columns - state.span
        oldest == (state.next + state.columns - state.span) % state.columns
    IN  IF place < empty THEN {} ELSE {(oldest + (place - empty)) % state.columns}

(***************************************************************************)
(* The signature of the columns a history may hold.                        *)
(***************************************************************************)
NoSignature == [generation |-> 0, columns |-> 0]

\* Columns of another signature cannot be drawn beside the ones held.  A
\* generation has one number of rows and one format; the coordinator publishes
\* no column whose metadata the renderer would reject.
MustClear(previous, next) == previous = NoSignature \/ previous # next

(***************************************************************************)
(* SpectrogramUploadGate and PendingSpectrogramUpload.                     *)
(***************************************************************************)
ClosedGate == [inFlight |-> FALSE, transaction |-> 0, completed |-> 0, succeeded |-> FALSE]

Begun(gate, transaction) == [gate EXCEPT !.transaction = transaction, !.inFlight = TRUE]

\* Mutant: the result is stored without the transaction it belongs to.
ResultUnnamed(gate, transaction, ok) == [gate EXCEPT !.succeeded = ok, !.transaction = 0]

\* The GPU's completion handler: the result first, then the open gate.
ResultPublished(gate, transaction, ok) ==
    [gate EXCEPT !.succeeded = ok, !.completed = transaction, !.transaction = 0]

Opened(gate) == [gate EXCEPT !.inFlight = FALSE]

NoUpload == [transaction |-> 0, history |-> 0, texture |-> 0, columns |-> {}]

\* What the open gate says of the upload the message thread recorded.
Resolution(pending, gate, historyRevision, textureRevision) ==
    LET answered == gate.completed # 0 /\ gate.completed = pending.transaction
        current  == pending.history = historyRevision /\ pending.texture = textureRevision
    IN  CASE pending = NoUpload /\ gate.completed = 0   -> "none"
          [] pending = NoUpload /\ gate.completed # 0   ->
                IF gate.succeeded THEN "stale" ELSE "clearHistory"
          [] pending # NoUpload /\ ~answered            -> "clearHistory"
          [] pending # NoUpload /\ answered /\ ~current -> "stale"
          [] OTHER -> IF gate.succeeded THEN "promote" ELSE "clearHistory"

\* Mutant: a frame behind an upload in flight is drawn with the whole ring.
RenderValidityUnmasked(ring, masked, forceBlack) == IF forceBlack THEN {} ELSE ring.valid

\* The validity a frame is drawn with: the ring's, without the columns an
\* upload in flight is writing.
RenderValidity(ring, masked, forceBlack) ==
    IF forceBlack THEN {} ELSE ring.valid \ masked
=============================================================================
