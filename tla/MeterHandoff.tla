---------------------------- MODULE MeterHandoff ----------------------------
(***************************************************************************)
(* StereoMeterAccumulator: the audio callback measures one level reading   *)
(* per block and hands it to the analysis worker through a few slots.  The *)
(* consumer wants the newest reading and to know whether it continues the  *)
(* one it had before; readings it has not collected are coalesced.         *)
(*                                                                         *)
(* Neither side ever waits.  An action is one atomic access to a slot's    *)
(* state with the private work that follows it, so that a scan of either   *)
(* side interleaves with the other side's.                                 *)
(***************************************************************************)
EXTENDS Naturals

CONSTANTS
    MeterSlotCount,     \* StereoMeterAccumulator::slotCount
    MaxBlocks,     \* bound on nextSequence_
    MaxFormats     \* bound on the formats (lifecycle, discontinuity revision, rate, channels)

ASSUME MeterHandoffAssumption ==
    /\ MeterSlotCount \in Nat \ {0}
    /\ MaxBlocks \in Nat /\ MaxFormats \in Nat

VARIABLES
    slots,         \* slots_: state and reading
    producer,      \* the callback inside publishBlock, and its last format
    nextSequence,
    consumer,      \* the worker inside consumeLatest
    previous,      \* consumerPrevious...: the reading last returned
    history        \* history: the newest reading released to the consumer and
                   \* the newest returned by it; the newest released when the
                   \* scans, and those that returned something last, began

handoffVars == <<slots, producer, nextSequence, consumer, previous, history>>

MeterSlots == 1..MeterSlotCount

\* The blocks a reading represents, their format, and whether the reading may
\* not be joined to what came before it (followsDiscontinuity)
NoReading == [first |-> 0, last |-> 0, blocks |-> 0, format |-> 0, broken |-> FALSE]

Readings == [first : 0..MaxBlocks, last : 0..MaxBlocks, blocks : 0..MaxBlocks,
             format : 0..MaxFormats, broken : BOOLEAN]

HandoffInit ==
    /\ slots = [s \in MeterSlots |-> [state |-> "free", reading |-> NoReading]]
    /\ producer = [pc |-> "idle", index |-> 1, newest |-> 0, retry |-> FALSE,
                   reading |-> NoReading]
    /\ nextSequence = 1
    /\ consumer = [pc |-> "idle", pass |-> 1, index |-> 1, acquired |-> {}, joined |-> NoReading]
    /\ previous = NoReading
    /\ history = [newest |-> 0, returned |-> 0, scanBegan |-> 0, lastBegan |-> 0]

-----------------------------------------------------------------------------
\* The contiguity test and formatsMatch
Follows(old, new) == new.first = old.last + 1 /\ new.format = old.format

\* prependRepresentedMetadata: the newer reading takes over what the older one
\* represents, or loses its connection to it
Joined(old, new) ==
    IF Follows(old, new) /\ ~new.broken
    THEN [new EXCEPT !.first = old.first, !.blocks = old.blocks + new.blocks,
                     !.broken = old.broken]
    ELSE [new EXCEPT !.broken = TRUE]

-----------------------------------------------------------------------------
(* publishBlock, by the audio callback.                                     *)

\* measureEndpoint; a reading in another format does not follow the last one.  A
\* gap in the capture is such a change: captureAudioBlock() flags the segment
\* behind it, and it bears a discontinuity revision of its own
Measure ==
    /\ producer.pc = "idle"
    /\ nextSequence <= MaxBlocks
    /\ \E format \in {producer.reading.format, producer.reading.format + 1} \cap 1..MaxFormats :
         producer' = [pc |-> "claim", index |-> 1, newest |-> 0, retry |-> FALSE,
                      reading |-> [first |-> nextSequence, last |-> nextSequence, blocks |-> 1,
                                   format |-> format,
                                   broken |-> nextSequence > 1 /\ format # producer.reading.format]]
    /\ nextSequence' = nextSequence + 1
    /\ UNCHANGED <<slots, consumer, previous, history>>

\* publishToFreeSlot: one compare-exchange; after the last slot the newest
\* reading is looked for, and after the last one of the second scan the block
\* is dropped
ClaimFreeSlot ==
    LET s == producer.index IN
    /\ producer.pc = "claim"
    /\ slots[s].state = "free"
    /\ slots' = [slots EXCEPT ![s].state = "writing"]
    /\ producer' = [producer EXCEPT !.pc = "store"]
    /\ UNCHANGED <<nextSequence, consumer, previous, history>>

SkipTaken ==
    LET s == producer.index IN
    /\ producer.pc = "claim"
    /\ slots[s].state # "free"
    /\ producer' = IF s < MeterSlotCount THEN [producer EXCEPT !.index = s + 1]
                   ELSE [producer EXCEPT !.index = 1,
                           !.pc = IF producer.retry THEN "idle" ELSE "scan"]
    /\ UNCHANGED <<slots, nextSequence, consumer, previous, history>>

\* coalesceIntoNewestReady: the scan
NewerReady(s, n) ==
    slots[s].state = "ready" /\ (n = 0 \/ slots[s].reading.last > slots[n].reading.last)

ScanReady ==
    LET s == producer.index
        newest == IF NewerReady(s, producer.newest) THEN s ELSE producer.newest
    IN  /\ producer.pc = "scan"
        /\ producer' =
             IF s < MeterSlotCount THEN [producer EXCEPT !.index = s + 1, !.newest = newest]
             ELSE IF newest = 0 THEN [producer EXCEPT !.index = 1, !.pc = "claim", !.retry = TRUE]
             ELSE [producer EXCEPT !.index = newest, !.newest = newest, !.pc = "coalesce"]
        /\ UNCHANGED <<slots, nextSequence, consumer, previous, history>>

\* ... the compare-exchange, lost when the consumer has taken that slot
CoalesceNewest ==
    LET s == producer.index IN
    /\ producer.pc = "coalesce"
    /\ slots[s].state = "ready"
    /\ slots' = [slots EXCEPT ![s].state = "writing"]
    /\ producer' = [producer EXCEPT !.pc = "store",
                      !.reading = Joined(slots[s].reading, producer.reading)]
    /\ UNCHANGED <<nextSequence, consumer, previous, history>>

NewestTaken ==
    /\ producer.pc = "coalesce"
    /\ slots[producer.index].state # "ready"
    /\ producer' = [producer EXCEPT !.pc = "claim", !.index = 1, !.retry = TRUE]
    /\ UNCHANGED <<slots, nextSequence, consumer, previous, history>>

\* The reading is stored and the slot released
Store ==
    /\ producer.pc = "store"
    /\ slots' = [slots EXCEPT ![producer.index] = [state |-> "ready", reading |-> producer.reading]]
    /\ producer' = [producer EXCEPT !.pc = "idle"]
    /\ history' = [history EXCEPT !.newest = producer.reading.last]
    /\ UNCHANGED <<nextSequence, consumer, previous>>

-----------------------------------------------------------------------------
(* consumeLatest, by the worker: two scans over the slots.                  *)

BeginConsume ==
    /\ consumer.pc = "idle"
    /\ consumer' = [pc |-> "visit", pass |-> 1, index |-> 1, acquired |-> {}, joined |-> NoReading]
    /\ history' = [history EXCEPT !.scanBegan = history.newest]
    /\ UNCHANGED <<slots, producer, nextSequence, previous>>

\* Mutant: the scan ends at the first reading found
FirstFound(c) ==
    IF c.acquired # {} THEN [c EXCEPT !.pc = "return"]
    ELSE IF c.index < MeterSlotCount THEN [c EXCEPT !.index = c.index + 1]
    ELSE [c EXCEPT !.pc = "return"]

Advanced(c) ==
    IF c.index < MeterSlotCount THEN [c EXCEPT !.index = c.index + 1]
    ELSE IF c.pass = 1 THEN [c EXCEPT !.pass = 2, !.index = 1]
    ELSE [c EXCEPT !.pc = "return"]

VisitReady ==
    /\ consumer.pc = "visit"
    /\ slots[consumer.index].state = "ready"
    /\ slots' = [slots EXCEPT ![consumer.index].state = "reading"]
    /\ consumer' = [consumer EXCEPT !.pc = "copy"]
    /\ UNCHANGED <<producer, nextSequence, previous, history>>

VisitOther ==
    /\ consumer.pc = "visit"
    /\ slots[consumer.index].state # "ready"
    /\ consumer' = Advanced(consumer)
    /\ UNCHANGED <<slots, producer, nextSequence, previous, history>>

\* The reading is copied and the slot freed
CopyAndFree ==
    /\ consumer.pc = "copy"
    /\ slots' = [slots EXCEPT ![consumer.index].state = "free"]
    /\ consumer' = Advanced([consumer EXCEPT !.pc = "visit",
                               !.acquired = @ \cup {slots[consumer.index].reading}])
    /\ UNCHANGED <<producer, nextSequence, previous, history>>

\* Mutant: sorted the other way round
Latest(r, readings) == \A other \in readings : other.last <= r.last

\* std::sort by lastSequence
Oldest(r, readings) == \A other \in readings : r.last <= other.last

\* The loop over the sorted readings: each is joined to what is joined so far
JoinOldest ==
    /\ consumer.pc = "return"
    /\ \E r \in consumer.acquired :
         /\ Oldest(r, consumer.acquired)
         /\ consumer' = [consumer EXCEPT !.acquired = @ \ {r},
                           !.joined = IF @ = NoReading THEN r ELSE Joined(@, r)]
    /\ UNCHANGED <<slots, producer, nextSequence, previous, history>>

\* Mutant: the previous reading is not looked at
ReturnedUnchecked(combined) == combined

\* What is returned: flagged unless it continues what was returned before
Returned(combined) ==
    [combined EXCEPT !.broken =
       @ \/ (previous # NoReading /\ ~Follows(previous, combined))]

ReturnLatest ==
    LET found == consumer.joined # NoReading
        last == consumer.joined.last
    IN  /\ consumer.pc = "return" /\ consumer.acquired = {}
        /\ previous' = IF found THEN Returned(consumer.joined) ELSE previous
        /\ consumer' = [consumer EXCEPT !.pc = "idle", !.joined = NoReading]
        /\ history' = IF found
                      THEN [history EXCEPT !.lastBegan = history.scanBegan,
                                           !.returned = IF @ < last THEN last ELSE @]
                      ELSE history
        /\ UNCHANGED <<slots, producer, nextSequence>>

\* discardPending: both sides are quiescent
DiscardPending ==
    /\ producer.pc = "idle" /\ consumer.pc = "idle"
    /\ slots' = [s \in MeterSlots |-> [slots[s] EXCEPT !.state = "free"]]
    /\ previous' = NoReading
    /\ history' = [history EXCEPT !.newest = 0, !.returned = 0, !.lastBegan = 0]
    /\ UNCHANGED <<producer, nextSequence, consumer>>

-----------------------------------------------------------------------------
PublishBlock == Measure \/ ClaimFreeSlot \/ SkipTaken \/ ScanReady \/ CoalesceNewest \/ NewestTaken \/ Store

ConsumeLatest == BeginConsume \/ VisitReady \/ VisitOther \/ CopyAndFree \/ JoinOldest
           \/ ReturnLatest

HandoffNext == PublishBlock \/ ConsumeLatest \/ DiscardPending

HandoffSpec == HandoffInit /\ [][HandoffNext]_handoffVars

-----------------------------------------------------------------------------
(* Properties.                                                              *)

HandoffTypeOK ==
    /\ slots \in [MeterSlots -> [state : {"free", "writing", "ready", "reading"}, reading : Readings]]
    /\ producer \in [pc : {"idle", "claim", "scan", "coalesce", "store"}, index : MeterSlots,
                     newest : 0..MeterSlotCount, retry : BOOLEAN, reading : Readings]
    /\ nextSequence \in 1..(MaxBlocks + 1)
    /\ consumer \in [pc : {"idle", "visit", "copy", "return"}, pass : 1..2, index : MeterSlots,
                     acquired : SUBSET Readings, joined : Readings]
    /\ previous \in Readings
    /\ history \in [newest : 0..MaxBlocks, returned : 0..MaxBlocks, scanBegan : 0..MaxBlocks,
                    lastBegan : 0..MaxBlocks]

\* A slot is written by the callback alone or read by the worker alone, and
\* each of them holds no other slot (the two compare-exchanges)
OneOwnerPerSlot ==
    \A s \in MeterSlots :
      /\ slots[s].state = "writing" <=> producer.pc = "store" /\ producer.index = s
      /\ slots[s].state = "reading" <=> consumer.pc = "copy" /\ consumer.index = s

\* No OVER or hold is lost to the consumer: the newest reading released to it,
\* which carries what older ones showed, is in a slot or in its hands until it
\* or a newer one has been returned (coalescing replaces only the newest)
NewestKept ==
    \/ history.newest <= history.returned
    \/ \E s \in MeterSlots : slots[s].state # "free" /\ slots[s].reading.last = history.newest
    \/ \E r \in consumer.acquired \cup {consumer.joined} : r.last = history.newest

\* A reading returned unflagged continues exactly what was returned before it,
\* in the same format, and every block it spans is accounted for, whatever was
\* coalesced, dropped or taken out of order in between
UnflaggedExtends ==
    [][previous' \notin {previous, NoReading}
       => /\ ~previous'.broken /\ previous # NoReading => Follows(previous, previous')
          /\ previous'.blocks = previous'.last - previous'.first + 1]_handoffVars

\* A reading older than one returned before it was released while the scans
\* that missed it were running, and it is flagged: two scans in a row never
\* leave a reading behind
OvertakenOnlyInScan ==
    [][previous' \notin {previous, NoReading} /\ previous'.last < history.returned
       => previous'.broken /\ previous'.last > history.lastBegan]_handoffVars
=============================================================================
