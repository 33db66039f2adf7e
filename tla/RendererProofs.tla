--------------------------- MODULE RendererProofs ---------------------------
(***************************************************************************)
(* What holds of the frames of Renderer, for any bounds.  Every step is    *)
(* first described by its effect ("StepEffect"); the invariants are then   *)
(* kept by every effect.                                                   *)
(***************************************************************************)
EXTENDS Renderer, FiniteSetTheorems, SequenceTheorems, WellFoundedInduction, TLAPS

(***************************************************************************)
(* Types                                                                   *)
(***************************************************************************)
Steps == {"idle", "resolved", "acquired", "draining", "drained", "prepared"}
BuildingSteps == {"acquired", "draining", "drained", "prepared"}
CompletionStages ==
    {"none", "queued", "ran", "published", "opened", "released", "emits", "failed", "done"}
PresentationStages == {"none", "emits", "timed", "done"}

Texels == [generation : Nat, slot : Nat]
Textures == UNION {[0 .. n - 1 -> Texels] : n \in Nat}
Rings ==
    [columns : Nat, valid : SUBSET Nat, next : Nat, span : Nat,
     lastSlot : Nat, lastSequence : Nat, hasTimeline : BOOLEAN]
Signatures == [generation : Nat, columns : Nat]
Histories ==
    [ring : Rings, signature : Signatures, revision : Nat,
     texture : Nat, textureRevision : Nat]
Uploads == [transaction : Nat, history : Nat, texture : Nat, columns : SUBSET Nat]
SlotStates ==
    [admission : Nat, staging : Seq(Texels), valid : SUBSET Nat,
     columns : Nat, next : Nat, span : Nat]
SampleRecords == [sequence : Nat, presented : Nat, total : BOOLEAN, components : BOOLEAN]
Submissions ==
    [sequence : Nat, callback : Nat, cpuReady : Nat, gpu : Nat, presented : Nat,
     events : SUBSET {"gpu", "presented", "emitted"},
     outcome : {"unknown", "skipped", "presented"}, sample : SampleRecords]
FrameRecords ==
    [submission : Submissions, slot : Nat, admission : Nat, epoch : Nat,
     texture : Nat, uploads : Seq(Nat), transaction : Nat, succeeded : BOOLEAN,
     completion : CompletionStages, presentation : PresentationStages]
ShownFrames == [sequence : Nat, time : Nat]
Telemetries ==
    [callbacks : Nat, skipped : Int, presented : Nat, samples : Nat,
     latency : Seq(SampleRecords), shown : Seq(ShownFrames)]

OwnerOK ==
    /\ budget \in Budgets
    /\ active \in BOOLEAN
    /\ callback \in [step : Steps, deferred : BOOLEAN, sequence : Nat, drained : Nat]
    /\ history \in Histories
    /\ pending \in [upload : Uploads, transaction : Nat]
    /\ settings \in [columns : ColumnCounts, clear : BOOLEAN]
    /\ stream \in [sequence : Nat, slot : Nat, generation : Nat \ {0}]
    /\ resets \in Nat
SharedOK ==
    /\ slots \in [1 .. BufferCount -> SlotStates]
    /\ gate \in [inFlight : BOOLEAN, transaction : Nat, completed : Nat, succeeded : BOOLEAN]
    /\ frames \in Seq(FrameRecords)
    /\ queue \in Seq(Nat)
    /\ texels \in Seq(Textures)
    /\ telemetry \in Seq(Telemetries)
    /\ Len(telemetry) > 0
TypeOK == OwnerOK /\ SharedOK

(***************************************************************************)
(* The frame being built, the slots and the queue                          *)
(***************************************************************************)
Building == callback.step \in BuildingSteps

BuildingFrame ==
    /\ Building =>
          /\ frames # <<>>
          /\ frames[building].completion = "none"
          /\ frames[building].presentation = "none"
          /\ frames[building].submission.outcome = "unknown"
          /\ frames[building].epoch = epoch
    /\ \A f \in DOMAIN frames : frames[f].completion = "none" => frames[f].transaction = 0

Holds(f) ==
    \/ frames[f].completion \in {"queued", "ran", "published", "opened"}
    \/ Building /\ f = building

SlotsHeld ==
    /\ \A f \in DOMAIN frames : Holds(f) =>
          /\ frames[f].slot \in 1 .. BufferCount
          /\ slots[frames[f].slot].admission = frames[f].admission
          /\ frames[f].admission % 2 = 1
    /\ \A f, g \in DOMAIN frames :
          Holds(f) /\ Holds(g) /\ f # g => frames[f].slot # frames[g].slot

QueueInOrder ==
    /\ \A i \in DOMAIN queue :
          queue[i] \in DOMAIN frames /\ frames[queue[i]].completion = "queued"
    /\ \A i, j \in DOMAIN queue : i < j => queue[i] < queue[j]
    /\ \A f \in DOMAIN frames :
          frames[f].completion = "queued" => \E i \in DOMAIN queue : queue[i] = f

(***************************************************************************)
(* The upload in flight                                                    *)
(***************************************************************************)
UploadFrame(f) ==
    frames[f].transaction # 0 /\ frames[f].transaction = pending.upload.transaction

BehindGate == {"opened", "released", "emits", "failed", "done"}

Answered(f) ==
    gate.completed = frames[f].transaction /\ gate.succeeded = frames[f].succeeded

GateFollows ==
    /\ pending.upload = NoUpload => ~gate.inFlight /\ gate.completed = 0
    /\ pending.upload # NoUpload =>
          /\ pending.upload.transaction # 0
          /\ pending.upload.transaction = pending.transaction
          /\ \E f \in DOMAIN frames : UploadFrame(f)
    /\ \A f \in DOMAIN frames :
          UploadFrame(f) => \/ frames[f].completion \in {"queued", "ran"} /\ gate.inFlight
                            \/ frames[f].completion = "published" /\ gate.inFlight /\ Answered(f)
                            \/ frames[f].completion \in BehindGate /\ ~gate.inFlight /\ Answered(f)
    /\ \A f \in DOMAIN frames :
          frames[f].transaction # 0 /\ ~UploadFrame(f) => frames[f].completion \in BehindGate
    /\ \A f \in DOMAIN frames :
          frames[f].completion \in {"published", "opened"} => frames[f].transaction # 0
    /\ \A f \in DOMAIN frames : frames[f].transaction <= pending.transaction
    /\ \A f, g \in DOMAIN frames :
          frames[f].transaction = frames[g].transaction /\ frames[f].transaction # 0 => f = g

UploadsBelong ==
    /\ \A f \in DOMAIN frames :
          /\ frames[f].completion = "queued" =>
                /\ frames[f].uploads # <<>> => frames[f].transaction # 0
                /\ UploadFrame(f) => ColumnsOf(frames[f].uploads) = pending.upload.columns
          /\ frames[f].completion \notin {"none", "queued"} => frames[f].uploads = <<>>
    /\ callback.step \in BuildingSteps \cup {"resolved"} =>
          (callback.deferred <=> pending.upload # NoUpload)
    /\ Building /\ (callback.deferred \/ callback.step = "acquired")
          => frames[building].uploads = <<>>
    /\ callback.step \in {"draining", "drained"} => ~callback.deferred

(***************************************************************************)
(* The history                                                             *)
(***************************************************************************)
\* A ring or a slot's state for the shader: its columns fit the texture
Fits(state) ==
    /\ state.valid \subseteq 0 .. state.columns - 1
    /\ state.columns # 0 => state.next < state.columns
    /\ state.span <= state.columns

HistoryShape ==
    /\ history.ring.columns = history.texture
    /\ history.signature # NoSignature =>
          /\ history.signature.generation # 0
          /\ history.signature.columns = history.texture
          /\ history.texture # 0
    /\ history.ring.valid # {} => history.signature # NoSignature
    /\ Fits(history.ring)
    /\ ~history.ring.hasTimeline => history.ring.valid = {}
    /\ DOMAIN texels[history.textureRevision] = 0 .. history.texture - 1

\* The upload in flight writes the history's texture, or a history thrown away
UploadCurrent ==
    pending.upload # NoUpload =>
        /\ pending.upload.history <= history.revision
        /\ pending.upload.history = history.revision =>
              /\ pending.upload.texture = history.textureRevision
              /\ \A f \in DOMAIN frames :
                    UploadFrame(f) => frames[f].texture = history.textureRevision
        /\ pending.upload.history # history.revision => history.ring.valid = {}

\* The texture column k columns behind the oldest place of the ring.
At(state, k) == (state.next + k) % state.columns

\* The texel is the one of timeline slot "last" less the columns behind k.
Placed(texel, generation, last, count, k) ==
    texel.generation = generation /\ texel.slot + count = last + 1 + k

RingPlaced(texel, k) ==
    Placed(texel, history.signature.generation, history.ring.lastSlot, history.texture, k)

\* What the upload of column c in frame f writes
Staged(f, c) == slots[frames[f].slot].staging[LastOf(frames[f].uploads, c)]

OwnUploads ==
    IF callback.step \in {"draining", "drained", "prepared"}
    THEN ColumnsOf(frames[building].uploads) ELSE {}

\* Where a column's texel is to be found, or will be: in the rows of the frame
\* being built, in those of the upload in flight, in the texture
Settled(c, k) == RingPlaced(texels[history.textureRevision][c], k)
InFlightTrue(c, k) ==
    \A f \in DOMAIN frames : UploadFrame(f) =>
        /\ frames[f].completion = "queued" => RingPlaced(Staged(f, c), k)
        /\ frames[f].completion # "queued" /\ frames[f].succeeded => Settled(c, k)
ColumnTrue(c, k) ==
    IF c \in OwnUploads THEN RingPlaced(Staged(building, c), k)
    ELSE IF c \in pending.upload.columns THEN InFlightTrue(c, k)
    ELSE Settled(c, k)
ColumnsTrue ==
    \A k \in 0 .. history.texture - 1, c \in history.ring.valid :
        c = At(history.ring, k) => ColumnTrue(c, k)

StagingMatches ==
    \A f \in DOMAIN frames :
        frames[f].completion = "queued" \/ (Building /\ f = building)
        => Len(slots[frames[f].slot].staging) >= Len(frames[f].uploads)

\* ... and the frame being built one row for each
RowsMatch ==
    Building => Len(slots[frames[building].slot].staging) = Len(frames[building].uploads)

FrameState(f) == slots[frames[f].slot]

PreparedFrame ==
    callback.step = "prepared" =>
        LET s == FrameState(building)
        IN  /\ s.columns = history.texture /\ s.next = history.ring.next
            /\ s.span = history.ring.span /\ s.valid \subseteq history.ring.valid
            /\ s.valid \cap pending.upload.columns = {}

\* What a frame draws once its uploads are in the texture
StateTrue(s, uploads, texture, generation, last) ==
    \A k \in 0 .. s.columns - 1, c \in s.valid :
        c = At(s, k) =>
            Placed(IF c \in ColumnsOf(uploads) THEN s.staging[LastOf(uploads, c)] ELSE texture[c],
                   generation, last, s.columns, k)

\* No frame before it will write a column it draws from the texture
Undisturbed(f) ==
    \A g \in DOMAIN frames :
        g < f /\ frames[g].completion = "queued" /\ frames[g].texture = frames[f].texture
        => \A c \in FrameState(f).valid :
              c \in ColumnsOf(frames[g].uploads) => c \in ColumnsOf(frames[f].uploads)

FrameTrue(f) ==
    /\ DOMAIN texels[frames[f].texture] = 0 .. FrameState(f).columns - 1
    /\ Fits(FrameState(f))
    /\ \E generation \in Nat \ {0}, last \in Nat :
          StateTrue(FrameState(f), frames[f].uploads, texels[frames[f].texture], generation, last)

FramesTrue ==
    \A f \in DOMAIN frames :
        frames[f].completion = "queued" => FrameTrue(f) /\ Undisturbed(f)

HistoryTrue ==
    HistoryShape /\ UploadCurrent /\ RowsMatch /\ ColumnsTrue /\ PreparedFrame /\ FramesTrue

(***************************************************************************)
(* Outcomes and timing                                                     *)
(***************************************************************************)
Epochs ==
    /\ \A f \in DOMAIN frames :
          /\ frames[f].epoch \in DOMAIN telemetry
          /\ frames[f].submission.sequence \in 1 .. telemetry[frames[f].epoch].callbacks
    /\ \A f, g \in DOMAIN frames :
          /\ frames[f].epoch = frames[g].epoch
          /\ frames[f].submission.sequence = frames[g].submission.sequence
          => f = g
    /\ callback.step # "idle" =>
          callback.sequence = telemetry[epoch].callbacks /\ callback.sequence # 0
    /\ callback.step = "resolved" =>
          \A f \in DOMAIN frames :
              frames[f].epoch = epoch => frames[f].submission.sequence # callback.sequence

PresentedLast ==
    \A f \in DOMAIN frames :
        /\ frames[f].submission.outcome = "presented" =>
              frames[f].presentation = "done" /\ frames[f].submission.presented # 0
        /\ frames[f].completion = "none" => frames[f].presentation = "none"

BothTimes(s) == {"gpu", "presented"} \subseteq s.events
FrameTiming(r) ==
    /\ "gpu" \in r.submission.events <=> r.completion \in {"emits", "failed", "done"}
    /\ "presented" \in r.submission.events <=> r.presentation # "none"
    /\ "emitted" \in r.submission.events =>
          BothTimes(r.submission) /\ r.submission.sample = classifyFrameLatency(r.submission)
    /\ r.completion = "emits" =>
          /\ BothTimes(r.submission) /\ "emitted" \notin r.submission.events
          /\ r.presentation # "emits"
    /\ r.presentation = "emits" =>
          BothTimes(r.submission) /\ "emitted" \notin r.submission.events
    /\ BothTimes(r.submission) /\ "emitted" \notin r.submission.events =>
          r.completion = "emits" \/ r.presentation = "emits"
TimingEvents == \A f \in DOMAIN frames : FrameTiming(frames[f])
(***************************************************************************)
(* Data                                                                    *)
(***************************************************************************)
\* A sequence with one element replaced
LEMMA Replaced ==
    ASSUME NEW S, NEW s \in Seq(S), NEW i \in DOMAIN s, NEW e \in S
    PROVE  LET t == [s EXCEPT ![i] = e]
           IN  /\ t \in Seq(S) /\ Len(t) = Len(s) /\ DOMAIN t = DOMAIN s
               /\ t[i] = e /\ \A j \in DOMAIN s : j # i => t[j] = s[j]
BY LenProperties, ExceptSeq

\* A sequence with one element more
LEMMA Appended ==
    ASSUME NEW S, NEW s \in Seq(S), NEW e \in S
    PROVE  LET t == Append(s, e)
           IN  /\ t \in Seq(S) /\ Len(t) = Len(s) + 1 /\ Len(s) \in Nat
               /\ DOMAIN s = 1 .. Len(s) /\ DOMAIN t = 1 .. Len(s) + 1
               /\ t[Len(s) + 1] = e /\ \A j \in DOMAIN s : t[j] = s[j]
BY AppendProperties, LenProperties

\* What the types say of the frames
LEMMA FramesTyped ==
    ASSUME SharedOK
    PROVE  /\ Len(frames) \in Nat /\ DOMAIN frames = 1 .. Len(frames)
           /\ \A f \in DOMAIN frames : frames[f] \in FrameRecords
           /\ frames # <<>> <=> Len(frames) > 0
BY LenProperties, ElementOfSeq, EmptySeq DEF SharedOK

\* A frame's record is an opaque submission and these fields
LEMMA FieldsTyped ==
    ASSUME NEW r \in FrameRecords
    PROVE  /\ r.submission \in Submissions /\ r.slot \in Nat /\ r.admission \in Nat
           /\ r.epoch \in Nat /\ r.texture \in Nat /\ r.uploads \in Seq(Nat)
           /\ r.transaction \in Nat /\ r.succeeded \in BOOLEAN
           /\ r.completion \in CompletionStages /\ r.presentation \in PresentationStages
BY DEF FrameRecords

NatOrder == {pair \in Nat \X Nat : pair[1] < pair[2]}

\* A set of numbers has a smallest one
LEMMA Smallest ==
    ASSUME NEW T \in SUBSET Nat, T # {}
    PROVE  \E x \in T : \A y \in T : x <= y
<1>2. IsWellFoundedOn(NatOrder, Nat)
  BY NatLessThanWellFounded DEF OpToRel, NatOrder
<1>3. PICK x \in T : \A y \in T : ~(<<y, x>> \in NatOrder)
  BY <1>2, WFMin
<1>4. ASSUME NEW y \in T
      PROVE  x <= y
  <2>1. x \in Nat /\ y \in Nat
    OBVIOUS
  <2>2. y < x => <<y, x>> \in NatOrder
    BY <2>1 DEF NatOrder
  <2>. QED  BY <1>3, <2>1, <2>2
<1>. QED  BY <1>4

\* ... and a set of indices a largest one
LEMMA Largest ==
    ASSUME NEW n \in Nat, NEW T \in SUBSET (1 .. n), T # {}
    PROVE  \E x \in T : \A y \in T : y <= x
<1>. DEFINE Behind == {n - y : y \in T}
<1>1. Behind \in SUBSET Nat /\ Behind # {}
  <2>3. Behind # {}
    <3>1. PICK y \in T : TRUE
      OBVIOUS
    <3>. QED  BY <3>1
  <2>. QED  BY <2>3
<1>2. PICK b \in Behind : \A d \in Behind : b <= d
  BY <1>1, Smallest
<1>3. PICK x \in T : b = n - x
  OBVIOUS
<1>4. \A y \in T : n - x <= n - y
  BY <1>2, <1>3
<1>. QED  BY <1>4

\* The last upload of a column
LEMMA LastUpload ==
    ASSUME NEW uploads \in Seq(Nat), NEW c \in ColumnsOf(uploads)
    PROVE  /\ LastOf(uploads, c) \in DOMAIN uploads
           /\ uploads[LastOf(uploads, c)] = c
           /\ \A j \in DOMAIN uploads : uploads[j] = c => j <= LastOf(uploads, c)
<1>. DEFINE T == {i \in DOMAIN uploads : uploads[i] = c}
<1>1. Len(uploads) \in Nat /\ DOMAIN uploads = 1 .. Len(uploads)
  BY LenProperties
<1>2. T \in SUBSET (1 .. Len(uploads)) /\ T # {}
  BY <1>1 DEF ColumnsOf
<1>3. PICK x \in T : \A y \in T : y <= x
  BY <1>1, <1>2, Largest
<1>. QED  BY <1>3 DEF LastOf

\* The columns of no upload, and of one upload more
LEMMA ColumnsAppended ==
    ASSUME NEW uploads \in Seq(Nat), NEW c \in Nat
    PROVE  /\ ColumnsOf(<<>>) = {}
           /\ ColumnsOf(Append(uploads, c)) = ColumnsOf(uploads) \cup {c}
           /\ LastOf(Append(uploads, c), c) = Len(uploads) + 1
           /\ \A d \in ColumnsOf(uploads) \ {c} :
                 LastOf(Append(uploads, c), d) = LastOf(uploads, d)
<1>. DEFINE more == Append(uploads, c)
<1>1. /\ more \in Seq(Nat) /\ Len(uploads) \in Nat
      /\ DOMAIN uploads = 1 .. Len(uploads) /\ DOMAIN more = 1 .. Len(uploads) + 1
      /\ more[Len(uploads) + 1] = c /\ \A j \in DOMAIN uploads : more[j] = uploads[j]
  BY Appended
<1>. HIDE DEF more
<1>2. ColumnsOf(<<>>) = {}
  BY DEF ColumnsOf
<1>3. ColumnsOf(more) = ColumnsOf(uploads) \cup {c}
  <2>1. \A j \in DOMAIN more : j \in DOMAIN uploads \/ j = Len(uploads) + 1
    BY <1>1
  <2>. QED  BY <1>1, <2>1 DEF ColumnsOf
<1>4. LastOf(more, c) = Len(uploads) + 1
  <2>1. more \in Seq(Nat) /\ c \in ColumnsOf(more)
    BY <1>1, <1>3
  <2>2. /\ LastOf(more, c) \in DOMAIN more
        /\ \A j \in DOMAIN more : more[j] = c => j <= LastOf(more, c)
    BY <2>1, LastUpload
  <2>3. Len(uploads) + 1 \in DOMAIN more /\ more[Len(uploads) + 1] = c /\ Len(uploads) \in Nat
    BY <1>1
  <2>4. Len(uploads) + 1 <= LastOf(more, c) /\ LastOf(more, c) \in 1 .. Len(uploads) + 1
    BY <1>1, <2>2, <2>3
  <2>. QED  BY <2>3, <2>4
<1>5. ASSUME NEW d \in ColumnsOf(uploads) \ {c}
      PROVE  LastOf(more, d) = LastOf(uploads, d)
  <2>1. d \in ColumnsOf(more)
    BY <1>3
  <2>2. /\ LastOf(more, d) \in DOMAIN more /\ more[LastOf(more, d)] = d
        /\ \A j \in DOMAIN more : more[j] = d => j <= LastOf(more, d)
    BY <1>1, <2>1, LastUpload
  <2>3. /\ LastOf(uploads, d) \in DOMAIN uploads /\ uploads[LastOf(uploads, d)] = d
        /\ \A j \in DOMAIN uploads : uploads[j] = d => j <= LastOf(uploads, d)
    BY LastUpload
  <2>4. LastOf(more, d) # Len(uploads) + 1
    BY <1>1, <2>2
  <2>5. LastOf(more, d) \in DOMAIN uploads
    BY <1>1, <2>2, <2>4
  <2>6. LastOf(more, d) <= LastOf(uploads, d)
    BY <1>1, <2>2, <2>3, <2>5
  <2>7. LastOf(uploads, d) <= LastOf(more, d)
    BY <1>1, <2>2, <2>3
  <2>. QED  BY <1>1, <2>3, <2>5, <2>6, <2>7
<1>. QED  BY <1>2, <1>3, <1>4, <1>5 DEF more

(***************************************************************************)
(* What the operators return                                               *)
(***************************************************************************)
LEMMA RingsTyped ==
    ASSUME NEW ring \in Rings, NEW n \in Nat
    PROVE  /\ EmptyRing(n) \in Rings /\ EmptyRing(n).columns = n /\ EmptyRing(n).valid = {}
           /\ ClearedRing(ring) = EmptyRing(ring.columns)
           /\ Configured(ring, n) \in Rings /\ Configured(ring, n).columns = n
BY DEF Rings, EmptyRing, ClearedRing, Configured

LEMMA RingAppended ==
    ASSUME NEW ring \in Rings, NEW slot \in Nat, NEW sequence \in Nat,
           ~RefusedColumn(ring, slot, sequence)
    PROVE  /\ AppendColumn(ring, slot, sequence).ring \in Rings
           /\ AppendColumn(ring, slot, sequence).ring.columns = ring.columns
           /\ AppendColumn(ring, slot, sequence).column \in Nat
<1>1. ring.columns \in Nat \ {0} /\ ring.next \in Nat
  BY DEF RefusedColumn, Rings
<1>2. \A x \in Nat : x % ring.columns \in 0 .. ring.columns - 1
  BY <1>1
<1>. DEFINE gap == slot - ring.lastSlot - 1
            gapped == IF ring.hasTimeline THEN WithGap(ring, gap) ELSE ring
            again == ring.hasTimeline /\ slot = ring.lastSlot
<1>3. CASE again
  BY <1>3, <1>1, <1>2 DEF AppendColumn, Rings
<1>4. CASE ~again
  <2>1. ring.hasTimeline => gap \in Nat
    BY <1>4 DEF RefusedColumn, Rings
  <2>2. gapped \in Rings /\ gapped.columns = ring.columns
    <3>1. CASE ~ring.hasTimeline
      BY <3>1
    <3>2. CASE ring.hasTimeline
      <4>1. (ring.next + gap) % ring.columns \in Nat
        BY <1>1, <1>2, <2>1, <3>2
      <4>2. SmallerOf(ring.columns, ring.span + gap) \in Nat
        BY <1>1, <2>1, <3>2 DEF SmallerOf, Rings
      <4>3. ring.columns - 1 \in Nat
        BY <1>1
      <4>. HIDE DEF gap
      <4>4. WithGap(ring, gap) \in Rings /\ WithGap(ring, gap).columns = ring.columns
        BY <4>1, <4>2, <4>3 DEF WithGap, Rings
      <4>. QED  BY <3>2, <4>4
    <3>. QED  BY <3>1, <3>2
  <2>3. /\ ~ring.hasTimeline => gapped.next = ring.next
        /\ gapped.next \in Nat
    BY <2>2 DEF Rings
  <2>. QED
    <3>2. (gapped.next + 1) % ring.columns \in Nat
      BY <1>2, <2>3
    <3>3. SmallerOf(ring.columns, gapped.span + 1) \in Nat
      BY <1>1, <2>2 DEF SmallerOf, Rings
    <3>4. gapped.valid \cup {gapped.next} \in SUBSET Nat
      BY <2>2, <2>3 DEF Rings
    <3>. DEFINE ahead == [gapped EXCEPT !.valid = gapped.valid \cup {gapped.next},
                                       !.next = (gapped.next + 1) % ring.columns,
                                       !.span = SmallerOf(ring.columns, gapped.span + 1),
                                       !.lastSlot = slot,
                                       !.lastSequence = sequence,
                                       !.hasTimeline = TRUE]
    <3>5. AppendColumn(ring, slot, sequence) = [ring |-> ahead, column |-> gapped.next]
      BY <1>4 DEF AppendColumn
    <3>. HIDE DEF gapped
    <3>6. ahead \in Rings /\ ahead.columns = ring.columns
      BY <2>2, <3>2, <3>3, <3>4 DEF Rings
    <3>. HIDE DEF ahead
    <3>. QED  BY <2>3, <3>5, <3>6
<1>. QED  BY <1>3, <1>4

LEMMA HistoriesTyped ==
    ASSUME NEW h \in Histories, NEW count \in Nat, NEW allocates \in BOOLEAN
    PROVE  /\ ClearedHistory(h) \in Histories
           /\ ClearedHistory(h).revision = h.revision + 1
           /\ ClearedHistory(h).ring = EmptyRing(h.ring.columns)
           /\ ClearedHistory(h).signature = NoSignature
           /\ ClearedHistory(h).texture = h.texture
           /\ ClearedHistory(h).textureRevision = h.textureRevision
           /\ EnsuredTexture(h, count, allocates) \in Histories
           /\ EnsuredTexture(h, count, allocates).signature = h.signature
<1>1. h.ring \in Rings /\ h.ring.columns \in Nat /\ h.revision \in Nat
  BY DEF Histories, Rings
<1>2. EmptyRing(h.ring.columns) \in Rings
  BY <1>1, RingsTyped
<1>3. ClearedHistory(h) = [h EXCEPT !.revision = @ + 1, !.ring = EmptyRing(h.ring.columns),
                                    !.signature = NoSignature]
  BY DEF ClearedHistory, ClearedRing
<1>4. NoSignature \in Signatures
  BY DEF NoSignature, Signatures
<1>5. \A n \in Nat : Configured(h.ring, n) \in Rings
  BY <1>1, RingsTyped
<1>6. 0 \in Nat
  OBVIOUS
<1>7. EnsuredTexture(h, count, allocates) \in Histories
  <2>1. CASE h.texture = count
    BY <1>5, <2>1 DEF EnsuredTexture, Histories
  <2>2. CASE h.texture # count
    <3>. DEFINE n == IF allocates THEN count ELSE 0
    <3>1. n \in Nat
      OBVIOUS
    <3>3. EnsuredTexture(h, count, allocates) =
            [h EXCEPT !.revision = h.revision + 1, !.textureRevision = h.textureRevision + 1,
                      !.texture = n, !.ring = Configured(h.ring, n)]
      BY <2>2 DEF EnsuredTexture
    <3>4. h.revision + 1 \in Nat /\ h.textureRevision + 1 \in Nat
      BY DEF Histories
    <3>. HIDE DEF n
    <3>. QED  BY <3>1, <1>5, <3>3, <3>4 DEF Histories
  <2>. QED  BY <2>1, <2>2
<1>9. ClearedHistory(h) \in Histories
  <2>1. h.revision + 1 \in Nat
    BY <1>1
  <2>. QED  BY Zenon, <1>2, <1>3, <1>4, <2>1 DEF Histories
<1>. QED  BY <1>7, <1>9, <1>3 DEF EnsuredTexture, Histories

LEMMA SubmissionsTyped ==
    ASSUME NEW s \in Submissions, NEW n \in Nat, NEW m \in Nat
    PROVE  /\ NewSubmission(n, m) \in Submissions
           /\ WithGpuCompletion(s, n) \in Submissions
           /\ WithPresentation(s, n) \in Submissions
           /\ classifyFrameLatency(s) \in SampleRecords
           /\ Emitted(s) \in Submissions
           /\ Skipped(s) \in Submissions
           /\ Presented(s) \in Submissions
<1>3. WithPresentation(s, n) \in Submissions
  BY DEF WithPresentation, Submissions
<1>4. classifyFrameLatency(s) \in SampleRecords
  BY DEF classifyFrameLatency, Submissions, SampleRecords
<1>5. Emitted(s) \in Submissions
  BY <1>4 DEF Submissions, Emitted
<1>6. Skipped(s) \in Submissions
  BY DEF Skipped, Submissions
<1>7. Presented(s) \in Submissions
  BY DEF Presented, Submissions
<1>. QED
  BY <1>3, <1>4, <1>5, <1>6, <1>7 DEF NewSubmission, Submissions, SampleRecords, NoSample,
     WithGpuCompletion

\* An element inserted in a sequence
LEMMA Inserted ==
    ASSUME NEW S, NEW s \in Seq(S), NEW e \in S, NEW k \in 1 .. Len(s) + 1
    PROVE  LET t == InsertAt(s, k, e)
           IN  /\ t \in Seq(S) /\ Len(t) = Len(s) + 1
               /\ DOMAIN s = 1 .. Len(s) /\ DOMAIN t = 1 .. Len(s) + 1 /\ Len(s) \in Nat
               /\ \A i \in 1 .. Len(s) + 1 :
                     t[i] = IF i < k THEN s[i] ELSE IF i = k THEN e ELSE s[i - 1]
<1>. DEFINE before == SubSeq(s, 1, k - 1)
            behind == SubSeq(s, k, Len(s))
<1>1. Len(s) \in Nat /\ DOMAIN s = 1 .. Len(s) /\ \A i \in 1 .. Len(s) : s[i] \in S
  BY LenProperties, ElementOfSeq
<1>2. /\ before \in Seq(S) /\ Len(before) = k - 1
      /\ \A i \in 1 .. k - 1 : before[i] = s[i]
  <2>1. 1 \in Int /\ k - 1 \in Int /\ \A i \in 1 .. k - 1 : s[i] \in S
    BY <1>1
  <2>2. /\ before \in Seq(S) /\ Len(before) = IF 1 <= k - 1 THEN k - 1 - 1 + 1 ELSE 0
        /\ \A i \in 1 .. k - 1 - 1 + 1 : before[i] = s[1 + i - 1]
    BY <2>1, SubSeqProperties
  <2>. HIDE DEF before
  <2>. QED  BY <1>1, <2>2
<1>3. /\ behind \in Seq(S) /\ Len(behind) = Len(s) - k + 1
      /\ \A i \in 1 .. Len(s) - k + 1 : behind[i] = s[k + i - 1]
  <2>1. k \in Int /\ Len(s) \in Int /\ \A i \in k .. Len(s) : s[i] \in S
    BY <1>1
  <2>2. /\ behind \in Seq(S) /\ Len(behind) = IF k <= Len(s) THEN Len(s) - k + 1 ELSE 0
        /\ \A i \in 1 .. Len(s) - k + 1 : behind[i] = s[k + i - 1]
    BY <2>1, SubSeqProperties
  <2>. HIDE DEF behind
  <2>. QED  BY <1>1, <2>2
<1>4. <<e>> \in Seq(S) /\ Len(<<e>>) = 1 /\ <<e>>[1] = e
  OBVIOUS
<1>. HIDE DEF before, behind
<1>5. /\ before \o <<e>> \in Seq(S) /\ Len(before \o <<e>>) = k
      /\ \A i \in 1 .. k : (before \o <<e>>)[i] = IF i <= k - 1 THEN s[i] ELSE e
  <2>1. /\ before \o <<e>> \in Seq(S) /\ Len(before \o <<e>>) = k - 1 + 1
        /\ \A i \in 1 .. k - 1 + 1 :
              (before \o <<e>>)[i] = IF i <= k - 1 THEN before[i] ELSE <<e>>[i - (k - 1)]
    <3>1. /\ before \o <<e>> \in Seq(S) /\ Len(before \o <<e>>) = Len(before) + Len(<<e>>)
          /\ \A i \in 1 .. Len(before) + Len(<<e>>) :
                (before \o <<e>>)[i] =
                   IF i <= Len(before) THEN before[i] ELSE <<e>>[i - Len(before)]
      BY <1>2, <1>4, ConcatProperties
    <3>. DEFINE one == <<e>>
    <3>. HIDE DEF one
    <3>2. /\ before \o one \in Seq(S) /\ Len(before \o one) = Len(before) + Len(one)
          /\ \A i \in 1 .. Len(before) + Len(one) :
                (before \o one)[i] = IF i <= Len(before) THEN before[i] ELSE one[i - Len(before)]
      BY <3>1 DEF one
    <3>3. Len(before) = k - 1 /\ Len(one) = 1
      BY <1>2, <1>4 DEF one
    <3>4. /\ before \o one \in Seq(S) /\ Len(before \o one) = k - 1 + 1
          /\ \A i \in 1 .. k - 1 + 1 :
              (before \o one)[i] = IF i <= k - 1 THEN before[i] ELSE one[i - (k - 1)]
      BY <3>2, <3>3
    <3>. QED  BY <3>4 DEF one
  <2>. QED  BY <1>1, <1>2, <1>4, <2>1
<1>. DEFINE front == before \o <<e>>
<1>. HIDE DEF front
<1>6. /\ front \in Seq(S) /\ Len(front) = k
      /\ \A i \in 1 .. k : front[i] = IF i <= k - 1 THEN s[i] ELSE e
  BY <1>5 DEF front
<1>7. /\ front \o behind \in Seq(S) /\ Len(front \o behind) = k + (Len(s) - k + 1)
      /\ \A i \in 1 .. k + (Len(s) - k + 1) :
            (front \o behind)[i] = IF i <= k THEN front[i] ELSE behind[i - k]
  BY <1>3, <1>6, ConcatProperties
<1>8. InsertAt(s, k, e) = front \o behind
  BY DEF InsertAt, front, before, behind
<1>. DEFINE whole == front \o behind
<1>. HIDE DEF whole
<1>9. /\ whole \in Seq(S) /\ Len(whole) = Len(s) + 1
      /\ \A i \in 1 .. Len(s) + 1 : whole[i] = IF i <= k THEN front[i] ELSE behind[i - k]
  BY <1>1, <1>7 DEF whole
<1>10. \A i \in 1 .. Len(s) + 1 :
          whole[i] = IF i < k THEN s[i] ELSE IF i = k THEN e ELSE s[i - 1]
  <2>. TAKE i \in 1 .. Len(s) + 1
  <2>1. CASE i <= k
    BY <1>1, <1>6, <1>9, <2>1
  <2>2. CASE i > k
    <3>1. i - k \in 1 .. Len(s) - k + 1 /\ k + (i - k) - 1 = i - 1
      BY <1>1, <2>2
    <3>2. behind[i - k] = s[k + (i - k) - 1]
      BY <1>3, <3>1
    <3>. QED  BY <1>1, <1>9, <2>2, <3>1, <3>2
  <2>. QED  BY <1>1, <2>1, <2>2
<1>11. DOMAIN whole = 1 .. Len(s) + 1
  BY <1>9, LenProperties
<1>. QED  BY <1>1, <1>8, <1>9, <1>10, <1>11 DEF whole

\* ... at the place behind everything earlier
LEMMA PlaceBehind ==
    ASSUME NEW n \in Nat, NEW E \in SUBSET (1 .. n),
           \A i, j \in 1 .. n : j \in E /\ i < j => i \in E
    PROVE  \E k \in 1 .. n + 1 : \A i \in 1 .. n : i \in E <=> i < k
<1>1. CASE E = {}
  BY <1>1
<1>2. CASE E # {}
  <2>1. PICK m \in E : \A j \in E : j <= m
    BY <1>2, Largest
  <2>2. m \in 1 .. n
    OBVIOUS
  <2>3. \A i \in 1 .. n : i \in E <=> i < m + 1
    BY <2>1, <2>2
  <2>. QED  BY <2>2, <2>3
<1>. QED  BY <1>1, <1>2

\* A frame replaced
LEMMA FrameSet ==
    ASSUME SharedOK, NEW f \in DOMAIN frames, NEW r \in FrameRecords,
           frames' = [frames EXCEPT ![f] = r]
    PROVE  /\ frames' \in Seq(FrameRecords)
           /\ DOMAIN frames' = DOMAIN frames /\ Len(frames') = Len(frames)
           /\ frames'[f] = r
           /\ \A g \in DOMAIN frames : g # f => frames'[g] = frames[g]
BY Replaced DEF SharedOK

\* The completed handler's steps up to the release of the slot
Handler(f, from, to) ==
    /\ frames[f].completion = from
    /\ frames' = [frames EXCEPT ![f] = [frames[f] EXCEPT !.completion = to]]
    /\ UNCHANGED <<owner, callback, gpu, telemetry, resets>>

LEMMA PublishUploadEffect ==
    ASSUME NEW f, PublishUpload(f)
    PROVE  /\ Handler(f, "ran", "published") /\ frames[f].transaction # 0
           /\ gate' = ResultPublished(gate, frames[f].transaction, frames[f].succeeded)
           /\ slots' = slots
BY DEF PublishUpload, Handler, CompletionAt

LEMMA OpenGateEffect ==
    ASSUME NEW f, OpenGate(f)
    PROVE  Handler(f, "published", "opened") /\ gate' = Opened(gate) /\ slots' = slots
BY DEF OpenGate, Handler, CompletionAt

LEMMA ReleaseSlotEffect ==
    ASSUME NEW f, ReleaseSlot(f)
    PROVE  /\ \/ Handler(f, "opened", "released")
              \/ Handler(f, "ran", "released") /\ frames[f].transaction = 0
           /\ slots' = Released(frames[f]) /\ gate' = gate
BY DEF ReleaseSlot, Handler, CompletionAt

\* Every other frame stays
FrameChanged(f) ==
    /\ frames' \in Seq(FrameRecords)
    /\ DOMAIN frames' = DOMAIN frames /\ Len(frames') = Len(frames)
    /\ \A g \in DOMAIN frames : g # f => frames'[g] = frames[g]

SameWork(f) ==
    /\ frames'[f].slot = frames[f].slot /\ frames'[f].admission = frames[f].admission
    /\ frames'[f].epoch = frames[f].epoch /\ frames'[f].texture = frames[f].texture
    /\ frames'[f].uploads = frames[f].uploads
    /\ frames'[f].transaction = frames[f].transaction
    /\ frames'[f].succeeded = frames[f].succeeded

\* What the callbacks do of a frame's timing and its outcome
LateStages == {"released", "emits", "failed", "done"}
LateCallback(f) ==
    /\ FrameChanged(f) /\ SameWork(f)
    /\ frames[f].completion # "none"
    /\ \/ frames'[f].completion = frames[f].completion
       \/ {frames[f].completion, frames'[f].completion} \subseteq LateStages
    /\ UNCHANGED <<owner, callback, shared, gpu, resets>>

TimingCallback(f) ==
    \/ RecordGpuCompletion(f) \/ EmitFromCompletion(f) \/ FailedFrame(f)
    \/ RecordPresentation(f) \/ EmitFromPresentation(f) \/ FinishPresentation(f)

LEMMA TwoFields ==
    ASSUME NEW r \in FrameRecords, NEW s \in Submissions,
           NEW c \in CompletionStages, NEW p \in PresentationStages
    PROVE  /\ [r EXCEPT !.submission = s, !.completion = c] \in FrameRecords
           /\ [r EXCEPT !.completion = c, !.submission = s] \in FrameRecords
           /\ [r EXCEPT !.submission = s, !.presentation = p] \in FrameRecords
           /\ [r EXCEPT !.presentation = p, !.submission = s] \in FrameRecords
BY Zenon DEF FrameRecords

\* A completion's step: the submission s and the stage c are new
LEMMA CompletionSets ==
    ASSUME SharedOK, NEW f \in DOMAIN frames, NEW s \in Submissions, NEW c \in CompletionStages,
           \/ frames' = [frames EXCEPT ![f] = [frames[f] EXCEPT !.submission = s, !.completion = c]]
           \/ frames' = [frames EXCEPT ![f] = [frames[f] EXCEPT !.completion = c, !.submission = s]]
    PROVE  /\ FrameChanged(f) /\ SameWork(f)
           /\ frames'[f].submission = s /\ frames'[f].completion = c
           /\ frames'[f].presentation = frames[f].presentation
<1>. DEFINE r == [frames[f] EXCEPT !.submission = s, !.completion = c]
            q == [frames[f] EXCEPT !.completion = c, !.submission = s]
<1>1. frames[f] \in FrameRecords
  BY FramesTyped
<1>. HIDE DEF r, q
<1>4. PICK x \in {r, q} : frames' = [frames EXCEPT ![f] = x]
  BY DEF r, q
<1>5. FrameChanged(f) /\ frames'[f] = x
  BY <1>1, TwoFields, "none" \in PresentationStages, <1>4, FrameSet DEF FrameChanged,
     PresentationStages
<1>. QED  BY <1>1, <1>5 DEF SameWork, FrameRecords

\* A presentation's step: the submission s and the stage p are new
LEMMA PresentationSets ==
    ASSUME SharedOK, NEW f \in DOMAIN frames, NEW s \in Submissions, NEW p \in PresentationStages,
           \/ frames' = [frames EXCEPT ![f] = [frames[f] EXCEPT !.submission = s, !.presentation = p]]
           \/ frames' = [frames EXCEPT ![f] = [frames[f] EXCEPT !.presentation = p, !.submission = s]]
    PROVE  /\ FrameChanged(f) /\ SameWork(f)
           /\ frames'[f].submission = s /\ frames'[f].presentation = p
           /\ frames'[f].completion = frames[f].completion
<1>. DEFINE r == [frames[f] EXCEPT !.submission = s, !.presentation = p]
            q == [frames[f] EXCEPT !.presentation = p, !.submission = s]
<1>1. frames[f] \in FrameRecords
  BY FramesTyped
<1>2. r \in FrameRecords /\ q \in FrameRecords
  BY <1>1, TwoFields, "none" \in CompletionStages DEF CompletionStages
<1>3. \A x \in {r, q} :
         /\ x.submission = s /\ x.presentation = p /\ x.completion = frames[f].completion
         /\ x.slot = frames[f].slot /\ x.admission = frames[f].admission
         /\ x.epoch = frames[f].epoch /\ x.texture = frames[f].texture
         /\ x.uploads = frames[f].uploads /\ x.transaction = frames[f].transaction
         /\ x.succeeded = frames[f].succeeded
  BY <1>1 DEF FrameRecords
<1>. HIDE DEF r, q
<1>4. PICK x \in {r, q} : frames' = [frames EXCEPT ![f] = x]
  BY DEF r, q
<1>5. FrameChanged(f) /\ frames'[f] = x
  BY <1>2, <1>4, FrameSet DEF FrameChanged
<1>. QED  BY <1>3, <1>5 DEF SameWork

LEMMA RecordGpuCompletionEffect ==
    ASSUME SharedOK, NEW f \in DOMAIN frames, RecordGpuCompletion(f)
    PROVE  /\ LateCallback(f) /\ frames[f].completion = "released"
           /\ \E time \in Nat :
                 frames'[f].submission = WithGpuCompletion(frames[f].submission, time)
           /\ frames'[f].completion = IF MayEmit(frames'[f].submission) THEN "emits"
                                      ELSE AfterTiming(f)
           /\ frames'[f].presentation = frames[f].presentation
           /\ telemetry' = telemetry
<1>1. f \in Nat /\ frames[f] \in FrameRecords
  BY FramesTyped
<1>2. PICK untimed \in budget.untimed :
         LET s == WithGpuCompletion(frames[f].submission, IF untimed THEN 0 ELSE f + 1)
         IN  frames' = [frames EXCEPT ![f].submission = s,
                                      ![f].completion = IF MayEmit(s) THEN "emits"
                                                        ELSE AfterTiming(f)]
  BY DEF RecordGpuCompletion
<1>. DEFINE time == IF untimed THEN 0 ELSE f + 1
            s == WithGpuCompletion(frames[f].submission, time)
            c == IF MayEmit(s) THEN "emits" ELSE AfterTiming(f)
<1>3. time \in Nat
  BY <1>1
<1>4. s \in Submissions /\ c \in CompletionStages
  BY <1>1, FieldsTyped, <1>3, SubmissionsTyped DEF CompletionStages, AfterTiming
<1>5. frames' = [frames EXCEPT ![f] = [frames[f] EXCEPT !.submission = s, !.completion = c]]
  BY <1>2
<1>6. c \in LateStages
  BY DEF LateStages, AfterTiming
<1>. HIDE DEF c
<1>7. /\ FrameChanged(f) /\ SameWork(f)
      /\ frames'[f].submission = s /\ frames'[f].completion = c
      /\ frames'[f].presentation = frames[f].presentation
  BY <1>4, <1>5, CompletionSets
<1>8. frames[f].completion = "released" /\ telemetry' = telemetry
      /\ UNCHANGED <<owner, callback, shared, gpu, resets>>
  BY DEF RecordGpuCompletion, CompletionAt
<1>. QED  BY <1>3, <1>7, <1>8, <1>6 DEF c, LateCallback, LateStages

LEMMA EmitFromCompletionEffect ==
    ASSUME SharedOK, NEW f \in DOMAIN frames, EmitFromCompletion(f)
    PROVE  /\ LateCallback(f) /\ frames[f].completion = "emits"
           /\ frames'[f].submission = Emitted(frames[f].submission)
           /\ frames'[f].completion = AfterTiming(f)
           /\ frames'[f].presentation = frames[f].presentation
           /\ SampleRecorded(f, frames'[f].submission.sample)
<1>. DEFINE s == Emitted(frames[f].submission)
            c == AfterTiming(f)
<1>1. s \in Submissions /\ c \in CompletionStages
  BY FramesTyped, FieldsTyped, SubmissionsTyped, 0 \in Nat DEF CompletionStages, AfterTiming
<1>2. /\ frames' = [frames EXCEPT ![f] = [frames[f] EXCEPT !.submission = s, !.completion = c]]
      /\ SampleRecorded(f, s.sample)
      /\ frames[f].completion = "emits"
      /\ UNCHANGED <<owner, callback, shared, gpu, resets>>
  BY DEF EmitFromCompletion, CompletionAt
<1>3. c \in LateStages
  BY DEF LateStages, AfterTiming
<1>. HIDE DEF c
<1>4. /\ FrameChanged(f) /\ SameWork(f)
      /\ frames'[f].submission = s /\ frames'[f].completion = c
      /\ frames'[f].presentation = frames[f].presentation
  BY <1>1, <1>2, CompletionSets
<1>. QED  BY <1>2, <1>4, <1>3 DEF c, LateCallback, LateStages

LEMMA FailedFrameEffect ==
    ASSUME SharedOK, NEW f \in DOMAIN frames, FailedFrame(f)
    PROVE  /\ LateCallback(f) /\ frames[f].completion = "failed"
           /\ frames'[f].submission = Skipped(frames[f].submission)
           /\ frames'[f].completion = "done"
           /\ frames'[f].presentation = frames[f].presentation
           /\ RecordSkipped(f)
<1>. DEFINE s == Skipped(frames[f].submission)
<1>2. /\ frames' = [frames EXCEPT ![f] = [frames[f] EXCEPT !.completion = "done", !.submission = s]]
      /\ RecordSkipped(f) /\ frames[f].completion = "failed"
      /\ UNCHANGED <<owner, callback, shared, gpu, resets>>
  BY DEF FailedFrame, CompletionAt
<1>. QED
  BY <1>2, FramesTyped, FieldsTyped, SubmissionsTyped, 0 \in Nat, CompletionSets DEF LateCallback,
     LateStages, CompletionStages

LEMMA RecordPresentationEffect ==
    ASSUME OwnerOK, RendererAssumption, SharedOK, NEW f \in DOMAIN frames, RecordPresentation(f)
    PROVE  /\ LateCallback(f) /\ frames[f].presentation = "none"
           /\ frames[f].completion \notin {"none", "queued"}
           /\ \E time \in Nat :
                 frames'[f].submission = WithPresentation(frames[f].submission, time)
           /\ frames'[f].presentation = IF MayEmit(frames'[f].submission) THEN "emits"
                                        ELSE "timed"
           /\ frames'[f].completion = frames[f].completion
           /\ telemetry' = telemetry
<1>1. budget.times \subseteq Nat
  BY DEF OwnerOK, RendererAssumption
<1>2. PICK time \in budget.times :
         LET s == WithPresentation(frames[f].submission, time)
         IN  frames' = [frames EXCEPT ![f].submission = s,
                                      ![f].presentation = IF MayEmit(s) THEN "emits" ELSE "timed"]
  BY DEF RecordPresentation
<1>. DEFINE s == WithPresentation(frames[f].submission, time)
            p == IF MayEmit(s) THEN "emits" ELSE "timed"
<1>3. s \in Submissions /\ p \in PresentationStages
  BY FramesTyped, FieldsTyped, <1>1, SubmissionsTyped DEF PresentationStages
<1>4. frames' = [frames EXCEPT ![f] = [frames[f] EXCEPT !.submission = s, !.presentation = p]]
  BY <1>2
<1>. HIDE DEF p
<1>5. /\ FrameChanged(f) /\ SameWork(f)
      /\ frames'[f].submission = s /\ frames'[f].presentation = p
      /\ frames'[f].completion = frames[f].completion
  BY <1>3, <1>4, PresentationSets
<1>. QED  BY <1>1, <1>5 DEF p, LateCallback, RecordPresentation, PresentationAt, CompletionAt

LEMMA EmitFromPresentationEffect ==
    ASSUME SharedOK, PresentedLast, NEW f \in DOMAIN frames, EmitFromPresentation(f)
    PROVE  /\ LateCallback(f) /\ frames[f].presentation = "emits"
           /\ frames'[f].submission = Emitted(frames[f].submission)
           /\ frames'[f].presentation = "timed"
           /\ frames'[f].completion = frames[f].completion
           /\ SampleRecorded(f, frames'[f].submission.sample)
<1>. DEFINE s == Emitted(frames[f].submission)
<1>2. /\ frames' = [frames EXCEPT ![f] = [frames[f] EXCEPT !.submission = s, !.presentation = "timed"]]
      /\ SampleRecorded(f, s.sample)
      /\ frames[f].presentation = "emits"
      /\ UNCHANGED <<owner, callback, shared, gpu, resets>>
  BY DEF EmitFromPresentation, PresentationAt
<1>4. /\ FrameChanged(f) /\ SameWork(f)
      /\ frames'[f].submission = s /\ frames'[f].presentation = "timed"
      /\ frames'[f].completion = frames[f].completion
  BY FramesTyped, FieldsTyped, SubmissionsTyped, 0 \in Nat, <1>2, PresentationSets DEF
     PresentationStages
<1>. QED  BY <1>2, <1>4 DEF LateCallback, PresentedLast

LEMMA FinishPresentationEffect ==
    ASSUME SharedOK, PresentedLast, NEW f \in DOMAIN frames, FinishPresentation(f)
    PROVE  /\ LateCallback(f) /\ frames[f].presentation = "timed"
           /\ frames'[f].presentation = "done"
           /\ frames'[f].completion = frames[f].completion
           /\ \/ /\ frames[f].submission.presented = 0
                 /\ frames'[f].submission = Skipped(frames[f].submission)
                 /\ RecordSkipped(f)
              \/ /\ frames[f].submission.presented # 0
                 /\ frames'[f].submission = Presented(frames[f].submission)
                 /\ telemetry' = [telemetry EXCEPT
                       ![frames[f].epoch] = PresentedRecorded(@, frames[f].submission)]
<1>. DEFINE s == IF frames[f].submission.presented = 0 THEN Skipped(frames[f].submission)
                 ELSE Presented(frames[f].submission)
<1>1. s \in Submissions /\ "done" \in PresentationStages
  BY FramesTyped, FieldsTyped, SubmissionsTyped, 0 \in Nat DEF PresentationStages
<1>2. /\ frames' = [frames EXCEPT ![f] = [frames[f] EXCEPT !.presentation = "done", !.submission = s]]
      /\ frames[f].presentation = "timed"
      /\ UNCHANGED <<owner, callback, shared, gpu, resets>>
      /\ frames[f].submission.presented = 0 => RecordSkipped(f)
      /\ frames[f].submission.presented # 0 =>
            telemetry' = [telemetry EXCEPT
                             ![frames[f].epoch] = PresentedRecorded(@, frames[f].submission)]
  BY DEF FinishPresentation, PresentationAt
<1>. HIDE DEF s
<1>4. /\ FrameChanged(f) /\ SameWork(f)
      /\ frames'[f].submission = s /\ frames'[f].presentation = "done"
      /\ frames'[f].completion = frames[f].completion
  BY <1>1, <1>2, PresentationSets
<1>. QED  BY <1>2, <1>4 DEF s, LateCallback, PresentedLast

LEMMA TimingCallbackIsLate ==
    ASSUME TypeOK, PresentedLast, NEW f \in DOMAIN frames, TimingCallback(f)
    PROVE  LateCallback(f)
BY RendererAssumption, RecordGpuCompletionEffect, EmitFromCompletionEffect, FailedFrameEffect,
   RecordPresentationEffect, EmitFromPresentationEffect, FinishPresentationEffect
   DEF TypeOK, TimingCallback

(***************************************************************************)
(* The histories of a telemetry                                            *)
(***************************************************************************)
\* Room for one more: the oldest goes when the history is full
LEMMA RoomMade ==
    ASSUME NEW S, NEW h \in Seq(S), NEW n \in Nat \ {0}, Len(h) <= n
    PROVE  LET room == WithRoom(h, n)
           IN  /\ room \in Seq(S) /\ Len(room) \in Nat
               /\ Len(h) < n => room = h
               /\ Len(h) = n => /\ Len(room) = n - 1
                                /\ \A i \in 1 .. n - 1 : room[i] = h[i + 1]
BY EmptySeq, LenProperties, HeadTailProperties DEF WithRoom

\* Presentation time, then number, orders the samples
LEMMA SamplesOrdered ==
    /\ \A a, b, c \in SampleRecords :
          LatencyEarlier(a, b) /\ LatencyEarlier(b, c) => LatencyEarlier(a, c)
    /\ \A a \in SampleRecords : ~LatencyEarlier(a, a)
    /\ \A a, b \in SampleRecords :
          a.sequence # b.sequence => LatencyEarlier(a, b) \/ LatencyEarlier(b, a)
BY DEF SampleRecords, LatencyEarlier

SamplesSorted(h) == \A i, j \in DOMAIN h : i < j => LatencyEarlier(h[i], h[j])

LEMMA SampleInserted ==
    ASSUME NEW s \in Seq(SampleRecords), NEW e \in SampleRecords, NEW p \in 1 .. Len(s) + 1
    PROVE  LET u == InsertAt(s, p, e)
           IN  /\ u \in Seq(SampleRecords) /\ Len(u) = Len(s) + 1
               /\ DOMAIN u = 1 .. Len(s) + 1
               /\ \A i \in 1 .. Len(s) + 1 :
                     u[i] = IF i < p THEN s[i] ELSE IF i = p THEN e ELSE s[i - 1]
BY Inserted

\* FrameLatencyHistory::record keeps the newest samples, in order
LEMMA SampleKept ==
    ASSUME NEW h \in Seq(SampleRecords), NEW x \in SampleRecords, NEW n \in Nat \ {0},
           Len(h) <= n, SamplesSorted(h)
    PROVE  LET t == WithSample(h, x, n)
           IN  /\ t \in Seq(SampleRecords) /\ Len(t) <= n /\ SamplesSorted(t)
               /\ RefusesSample(h, x, n) => t = h
               /\ ~RefusesSample(h, x, n) =>
                     /\ x \in Range(t) /\ Range(t) \subseteq Range(h) \cup {x}
                     /\ Len(h) < n => Len(t) = Len(h) + 1 /\ Range(h) \subseteq Range(t)
                     /\ Len(h) = n =>
                           /\ Len(t) = n /\ Range(h) \ {h[1]} \subseteq Range(t)
                           /\ LatencyEarlier(h[1], t[1])
<1>1. CASE RefusesSample(h, x, n)
  BY <1>1 DEF WithSample
<1>2. CASE ~RefusesSample(h, x, n)
  <2>. DEFINE room == WithRoom(h, n)
              E == {i \in 1 .. Len(room) : LatencyEarlier(room[i], x)}
              k == LatencyPlace(room, x)
              t == InsertAt(room, k, x)
  <2>1. /\ room \in Seq(SampleRecords) /\ Len(room) \in Nat
        /\ Len(h) < n => room = h
        /\ Len(h) = n => Len(room) = n - 1 /\ \A i \in 1 .. n - 1 : room[i] = h[i + 1]
    BY RoomMade
  <2>. HIDE DEF room
  <2>2. Len(h) \in Nat /\ DOMAIN h = 1 .. Len(h) /\ DOMAIN room = 1 .. Len(room)
        /\ \A i \in 1 .. Len(h) : h[i] \in SampleRecords
    BY <2>1, LenProperties, ElementOfSeq
  <2>14. n \in Nat /\ 1 <= n /\ (Len(h) < n \/ Len(h) = n)
    <3>1. Len(h) \in Nat
      BY <2>2
    <3>. QED  BY <3>1
  <2>15. Len(h) < n \/ Len(h) = n
    BY <2>14
  <2>0. PICK d \in {0, 1} :
           \A i \in 1 .. Len(room) : i + d \in 1 .. Len(h) /\ room[i] = h[i + d]
    <3>1. CASE Len(h) < n
      <4>1. \A i \in 1 .. Len(room) : i + 0 \in 1 .. Len(h) /\ room[i] = h[i + 0]
        <5>1. room = h
          BY <2>1, <3>1
        <5>. HIDE DEF room
        <5>2. Len(h) \in Nat
          BY <2>2
        <5>. QED  BY <5>1, <5>2
      <4>. QED  BY <4>1
    <3>2. CASE Len(h) = n
      <4>1. \A i \in 1 .. Len(room) : i + 1 \in 1 .. Len(h) /\ room[i] = h[i + 1]
        BY <2>1, <2>2, <3>2
      <4>. QED  BY <4>1
    <3>. QED  BY <2>15, <3>1, <3>2
  <2>3. \A i, j \in 1 .. Len(room) :
           /\ room[i] \in SampleRecords
           /\ i < j => LatencyEarlier(room[i], room[j])
    <3>1. \A i \in 1 .. Len(room) :
             i + d \in 1 .. Len(h) /\ room[i] = h[i + d] /\ i + d \in Nat
      BY <2>2, <2>0
    <3>2. \A i, j \in 1 .. Len(h) : i < j => LatencyEarlier(h[i], h[j])
      BY <2>2 DEF SamplesSorted
    <3>. SUFFICES ASSUME NEW i \in 1 .. Len(room), NEW j \in 1 .. Len(room)
                  PROVE  /\ room[i] \in SampleRecords
                         /\ i < j => LatencyEarlier(room[i], room[j])
      OBVIOUS
    <3>3. room[i] \in SampleRecords
      BY <2>2, <3>1
    <3>4. i < j => i + d < j + d
      BY <2>1, <2>0
    <3>. QED  BY <3>1, <3>2, <3>3, <3>4
  <2>4. \A i \in 1 .. Len(room) :
           /\ room[i].sequence # x.sequence
           /\ LatencyEarlier(x, room[i]) <=> ~LatencyEarlier(room[i], x)
    <3>1. \A i \in DOMAIN h : h[i].sequence # x.sequence
      BY <1>2 DEF RefusesSample
    <3>2. \A i \in 1 .. Len(room) : room[i].sequence # x.sequence
      BY <2>2, <2>0, <3>1
    <3>. QED  BY <2>3, <3>2, SamplesOrdered
  <2>5. \A i, j \in 1 .. Len(room) : j \in E /\ i < j => i \in E
    BY <2>3, SamplesOrdered
  <2>6. k \in 1 .. Len(room) + 1
        /\ \A i \in 1 .. Len(room) : LatencyEarlier(room[i], x) <=> i < k
    <3>1. \E p \in 1 .. Len(room) + 1 : \A i \in 1 .. Len(room) : i \in E <=> i < p
      <4>1. E \in SUBSET (1 .. Len(room))
        OBVIOUS
      <4>. HIDE DEF E
      <4>. QED  BY <2>1, <2>5, <4>1, PlaceBehind
    <3>2. \E p \in 1 .. Len(room) + 1 :
             \A i \in DOMAIN room : LatencyEarlier(room[i], x) <=> i < p
      BY <2>2, <3>1
    <3>. QED  BY <2>2, <3>2 DEF LatencyPlace
  <2>. HIDE DEF E, k
  <2>7. /\ t \in Seq(SampleRecords) /\ Len(t) = Len(room) + 1
        /\ DOMAIN t = 1 .. Len(room) + 1
        /\ \A i \in 1 .. Len(room) + 1 :
              t[i] = IF i < k THEN room[i] ELSE IF i = k THEN x ELSE room[i - 1]
    <3>1. t = InsertAt(room, k, x)
      OBVIOUS
    <3>. HIDE DEF t
    <3>2. room \in Seq(SampleRecords) /\ k \in 1 .. Len(room) + 1
      BY <2>1, <2>6
    <3>. HIDE DEF k
    <3>3. LET u == InsertAt(room, k, x)
          IN  /\ u \in Seq(SampleRecords) /\ Len(u) = Len(room) + 1
              /\ DOMAIN u = 1 .. Len(room) + 1
              /\ \A i \in 1 .. Len(room) + 1 :
                    u[i] = IF i < k THEN room[i] ELSE IF i = k THEN x ELSE room[i - 1]
      BY <3>2, SampleInserted
    <3>. QED  BY Zenon, <3>1, <3>3
  <2>. HIDE DEF t
  <2>8. WithSample(h, x, n) = t
    BY <1>2 DEF WithSample, t, k, room
  <2>9. SamplesSorted(t)
    <3>. SUFFICES ASSUME NEW i \in 1 .. Len(room) + 1, NEW j \in 1 .. Len(room) + 1, i < j
                  PROVE  LatencyEarlier(t[i], t[j])
      BY <2>7 DEF SamplesSorted
    <3>1. CASE i < k /\ j < k
      <4>1. i \in 1 .. Len(room) /\ j \in 1 .. Len(room)
        BY <2>1, <2>6, <3>1
      <4>2. t[i] = room[i] /\ t[j] = room[j]
        BY <2>7, <3>1
      <4>. QED  BY <2>3, <4>1, <4>2
    <3>2. CASE i < k /\ j = k
      <4>1. i \in 1 .. Len(room)
        BY <2>1, <2>6, <3>2
      <4>2. t[i] = room[i] /\ t[j] = x
        BY <2>7, <3>2
      <4>. QED  BY <2>6, <3>2, <4>1, <4>2
    <3>3. CASE i < k /\ j > k
      <4>1. i \in 1 .. Len(room) /\ j - 1 \in 1 .. Len(room) /\ i < j - 1
        BY <2>1, <2>6, <3>3
      <4>2. t[i] = room[i] /\ t[j] = room[j - 1]
        BY <2>6, <2>7, <3>3
      <4>. QED  BY <2>3, <4>1, <4>2
    <3>4. CASE i = k /\ j > k
      <4>1. j - 1 \in 1 .. Len(room) /\ ~(j - 1 < k)
        BY <2>1, <2>6, <3>4
      <4>2. t[i] = x /\ t[j] = room[j - 1]
        BY <2>6, <2>7, <3>4
      <4>. QED  BY <2>4, <2>6, <4>1, <4>2
    <3>5. CASE i > k /\ j > k
      <4>1. i - 1 \in 1 .. Len(room) /\ j - 1 \in 1 .. Len(room) /\ i - 1 < j - 1
        BY <2>1, <2>6, <3>5
      <4>2. t[i] = room[i - 1] /\ t[j] = room[j - 1]
        BY <2>6, <2>7, <3>5
      <4>. QED  BY <2>3, <4>1, <4>2
    <3>. QED  BY <2>6, <3>1, <3>2, <3>3, <3>4, <3>5
  <2>10. x \in Range(t) /\ Range(room) \subseteq Range(t) /\ Range(t) \subseteq Range(room) \cup {x}
    <3>1. t[k] = x
      BY <2>6, <2>7
    <3>2. \A i \in 1 .. Len(room) : \E j \in 1 .. Len(room) + 1 : t[j] = room[i]
      <4>. TAKE i \in 1 .. Len(room)
      <4>1. CASE i < k
        BY <2>1, <2>7, <4>1
      <4>2. CASE i >= k
        <5>1. i + 1 \in 1 .. Len(room) + 1 /\ ~(i + 1 < k) /\ i + 1 # k /\ (i + 1) - 1 = i
          BY <2>1, <2>6, <4>2
        <5>. QED  BY <2>7, <5>1
      <4>. QED  BY <2>6, <4>1, <4>2
    <3>3. \A j \in 1 .. Len(room) + 1 : t[j] = x \/ \E i \in 1 .. Len(room) : t[j] = room[i]
      <4>. TAKE j \in 1 .. Len(room) + 1
      <4>1. CASE j < k
        BY <2>1, <2>6, <2>7, <4>1
      <4>2. CASE j > k
        <5>1. j - 1 \in 1 .. Len(room) /\ ~(j < k) /\ j # k
          BY <2>1, <2>6, <4>2
        <5>. QED  BY <2>7, <5>1
      <4>. QED  BY <2>6, <3>1, <4>1, <4>2
    <3>4. x \in Range(t)
      BY <2>6, <2>7, <3>1 DEF Range
    <3>5. Range(room) \subseteq Range(t)
      <4>1. DOMAIN room = 1 .. Len(room) /\ DOMAIN t = 1 .. Len(room) + 1
        BY <2>2, <2>7
      <4>. QED  BY <3>2, <4>1 DEF Range
    <3>6. Range(t) \subseteq Range(room) \cup {x}
      BY <2>2, <2>7, <3>3 DEF Range
    <3>. QED  BY <3>4, <3>5, <3>6
  <2>11. CASE Len(h) < n
    <3>1. room = h /\ Len(t) = Len(h) + 1 /\ Len(t) <= n /\ ~(Len(h) = n)
      <4>1. room = h
        BY <2>1, <2>11
      <4>2. Len(h) \in Nat
        BY <2>2
      <4>3. Len(t) = Len(h) + 1
        BY <2>7, <4>1
      <4>. QED  BY <2>11, <2>14, <4>1, <4>2, <4>3
    <3>. QED  BY <1>2, <2>7, <2>8, <2>9, <2>10, <2>11, <3>1
  <2>12. CASE Len(h) = n
    <3>1. Range(room) \subseteq Range(h) /\ Range(h) \ {h[1]} \subseteq Range(room)
      <4>1. \A i \in 1 .. Len(h) : i # 1 => i - 1 \in 1 .. n - 1 /\ h[i] = room[i - 1]
        <5>. TAKE i \in 1 .. Len(h)
        <5>1. CASE i # 1
          <6>1. i - 1 \in 1 .. n - 1 /\ (i - 1) + 1 = i
            BY <2>12, <5>1
          <6>. QED  BY <2>1, <2>12, <6>1
        <5>. QED  BY <5>1
      <4>2. \A i \in 1 .. n - 1 : i + 1 \in 1 .. Len(h) /\ room[i] = h[i + 1]
        BY <2>1, <2>12
      <4>3. Range(room) \subseteq Range(h)
        BY <2>1, <2>2, <2>12, <4>2 DEF Range
      <4>4. \A i \in 1 .. Len(h) : i # 1 => \E j \in DOMAIN room : room[j] = h[i]
        BY <2>1, <2>2, <2>12, <4>1
      <4>5. Range(h) \ {h[1]} \subseteq Range(room)
        BY <2>2, <4>4 DEF Range
      <4>. QED  BY <4>3, <4>5
    <3>2. LatencyEarlier(h[1], t[1])
      <4>1. h[1] \in SampleRecords /\ 1 \in DOMAIN h
        BY <2>2, <2>12
      <4>2. LatencyEarlier(h[1], x)
        BY <1>2, <2>12 DEF RefusesSample
      <4>3. CASE k = 1
        BY <2>7, <4>2, <4>3
      <4>4. CASE k # 1
        <5>1. 1 < k /\ 1 \in 1 .. n - 1 /\ 2 \in 1 .. Len(h) /\ 1 + 1 = 2
          BY <2>1, <2>6, <2>12, <4>4
        <5>2. t[1] = room[1] /\ room[1] = h[2]
          BY <2>1, <2>7, <2>12, <5>1
        <5>3. LatencyEarlier(h[1], h[2])
          BY <2>2, <4>1, <5>1 DEF SamplesSorted
        <5>. QED  BY <5>2, <5>3
      <4>. QED  BY <4>3, <4>4
    <3>3. Len(t) = n /\ Len(t) <= n /\ ~(Len(h) < n)
      BY <2>1, <2>7, <2>12
    <3>. QED  BY <1>2, <2>7, <2>8, <2>9, <2>10, <2>12, <3>1, <3>2, <3>3
  <2>. HIDE DEF t
  <2>. QED  BY <2>11, <2>12, <2>15
<1>. QED  BY <1>1, <1>2

\* Presentation time alone orders the frames shown
ShownEarlier(a, b) == a.time < b.time

LEMMA ShownOrdered ==
    /\ \A a, b, c \in ShownFrames : ShownEarlier(a, b) /\ ShownEarlier(b, c) => ShownEarlier(a, c)
    /\ \A a \in ShownFrames : ~ShownEarlier(a, a)
    /\ \A a, b \in ShownFrames : a.time # b.time => ShownEarlier(a, b) \/ ShownEarlier(b, a)
BY DEF ShownFrames, ShownEarlier

\* recordPresentation of a frame's record
WithShown(h, x, n) ==
    IF RefusesPresentation(h, x.sequence, x.time, n) THEN h
    ELSE InsertAt(WithRoom(h, n), PresentedPlace(WithRoom(h, n), x.time), x)

FramesSorted(h) == \A i, j \in DOMAIN h : i < j => ShownEarlier(h[i], h[j])

LEMMA FrameInserted ==
    ASSUME NEW s \in Seq(ShownFrames), NEW e \in ShownFrames, NEW p \in 1 .. Len(s) + 1
    PROVE  LET u == InsertAt(s, p, e)
           IN  /\ u \in Seq(ShownFrames) /\ Len(u) = Len(s) + 1
               /\ DOMAIN u = 1 .. Len(s) + 1
               /\ \A i \in 1 .. Len(s) + 1 :
                     u[i] = IF i < p THEN s[i] ELSE IF i = p THEN e ELSE s[i - 1]
BY Inserted

\* PresentedFrameHistory::recordPresentation keeps the newest frames, in order
LEMMA FrameKept ==
    ASSUME NEW h \in Seq(ShownFrames), NEW x \in ShownFrames, NEW n \in Nat \ {0},
           Len(h) <= n, FramesSorted(h)
    PROVE  LET t == WithShown(h, x, n)
           IN  /\ t \in Seq(ShownFrames) /\ Len(t) <= n /\ FramesSorted(t)
               /\ RefusesPresentation(h, x.sequence, x.time, n) => t = h
               /\ ~RefusesPresentation(h, x.sequence, x.time, n) =>
                     /\ x \in Range(t) /\ Range(t) \subseteq Range(h) \cup {x}
                     /\ Len(h) < n => Len(t) = Len(h) + 1 /\ Range(h) \subseteq Range(t)
                     /\ Len(h) = n =>
                           /\ Len(t) = n /\ Range(h) \ {h[1]} \subseteq Range(t)
                           /\ ShownEarlier(h[1], t[1])
<1>1. CASE RefusesPresentation(h, x.sequence, x.time, n)
  BY <1>1 DEF WithShown
<1>2. CASE ~RefusesPresentation(h, x.sequence, x.time, n)
  <2>. DEFINE room == WithRoom(h, n)
              E == {i \in 1 .. Len(room) : ShownEarlier(room[i], x)}
              k == PresentedPlace(room, x.time)
              t == InsertAt(room, k, x)
  <2>1. /\ room \in Seq(ShownFrames) /\ Len(room) \in Nat
        /\ Len(h) < n => room = h
        /\ Len(h) = n => Len(room) = n - 1 /\ \A i \in 1 .. n - 1 : room[i] = h[i + 1]
    BY RoomMade
  <2>. HIDE DEF room
  <2>2. Len(h) \in Nat /\ DOMAIN h = 1 .. Len(h) /\ DOMAIN room = 1 .. Len(room)
        /\ \A i \in 1 .. Len(h) : h[i] \in ShownFrames
    BY <2>1, LenProperties, ElementOfSeq
  <2>14. n \in Nat /\ 1 <= n /\ (Len(h) < n \/ Len(h) = n)
    <3>1. Len(h) \in Nat
      BY <2>2
    <3>. QED  BY <3>1
  <2>15. Len(h) < n \/ Len(h) = n
    BY <2>14
  <2>0. PICK d \in {0, 1} :
           \A i \in 1 .. Len(room) : i + d \in 1 .. Len(h) /\ room[i] = h[i + d]
    <3>1. CASE Len(h) < n
      <4>1. \A i \in 1 .. Len(room) : i + 0 \in 1 .. Len(h) /\ room[i] = h[i + 0]
        <5>1. room = h
          BY <2>1, <3>1
        <5>. HIDE DEF room
        <5>2. Len(h) \in Nat
          BY <2>2
        <5>. QED  BY <5>1, <5>2
      <4>. QED  BY <4>1
    <3>2. CASE Len(h) = n
      <4>1. \A i \in 1 .. Len(room) : i + 1 \in 1 .. Len(h) /\ room[i] = h[i + 1]
        BY <2>1, <2>2, <3>2
      <4>. QED  BY <4>1
    <3>. QED  BY <2>15, <3>1, <3>2
  <2>3. \A i, j \in 1 .. Len(room) :
           /\ room[i] \in ShownFrames
           /\ i < j => ShownEarlier(room[i], room[j])
    <3>1. \A i \in 1 .. Len(room) :
             i + d \in 1 .. Len(h) /\ room[i] = h[i + d] /\ i + d \in Nat
      BY <2>2, <2>0
    <3>2. \A i, j \in 1 .. Len(h) : i < j => ShownEarlier(h[i], h[j])
      BY <2>2 DEF FramesSorted
    <3>. SUFFICES ASSUME NEW i \in 1 .. Len(room), NEW j \in 1 .. Len(room)
                  PROVE  /\ room[i] \in ShownFrames
                         /\ i < j => ShownEarlier(room[i], room[j])
      OBVIOUS
    <3>3. room[i] \in ShownFrames
      BY <2>2, <3>1
    <3>4. i < j => i + d < j + d
      BY <2>1, <2>0
    <3>. QED  BY <3>1, <3>2, <3>3, <3>4
  <2>4. \A i \in 1 .. Len(room) :
           /\ room[i].time # x.time
           /\ ShownEarlier(x, room[i]) <=> ~ShownEarlier(room[i], x)
    <3>1. \A i \in DOMAIN h : h[i].time # x.time
      BY <1>2 DEF RefusesPresentation
    <3>2. \A i \in 1 .. Len(room) : room[i].time # x.time
      BY <2>2, <2>0, <3>1
    <3>. QED  BY <2>3, <3>2, ShownOrdered
  <2>5. \A i, j \in 1 .. Len(room) : j \in E /\ i < j => i \in E
    BY <2>3, ShownOrdered
  <2>6. k \in 1 .. Len(room) + 1
        /\ \A i \in 1 .. Len(room) : ShownEarlier(room[i], x) <=> i < k
    <3>1. \E p \in 1 .. Len(room) + 1 : \A i \in 1 .. Len(room) : i \in E <=> i < p
      <4>1. E \in SUBSET (1 .. Len(room))
        OBVIOUS
      <4>. HIDE DEF E
      <4>. QED  BY <2>1, <2>5, <4>1, PlaceBehind
    <3>2. \E p \in 1 .. Len(room) + 1 :
             \A i \in DOMAIN room : ShownEarlier(room[i], x) <=> i < p
      BY <2>2, <3>1
    <3>3. \E p \in 1 .. Len(room) + 1 : \A i \in DOMAIN room : room[i].time < x.time <=> i < p
      BY <3>2 DEF ShownEarlier
    <3>. QED  BY <2>2, <3>3 DEF PresentedPlace, ShownEarlier
  <2>. HIDE DEF E, k
  <2>7. /\ t \in Seq(ShownFrames) /\ Len(t) = Len(room) + 1
        /\ DOMAIN t = 1 .. Len(room) + 1
        /\ \A i \in 1 .. Len(room) + 1 :
              t[i] = IF i < k THEN room[i] ELSE IF i = k THEN x ELSE room[i - 1]
    <3>1. t = InsertAt(room, k, x)
      OBVIOUS
    <3>. HIDE DEF t
    <3>2. room \in Seq(ShownFrames) /\ k \in 1 .. Len(room) + 1
      BY <2>1, <2>6
    <3>. HIDE DEF k
    <3>3. LET u == InsertAt(room, k, x)
          IN  /\ u \in Seq(ShownFrames) /\ Len(u) = Len(room) + 1
              /\ DOMAIN u = 1 .. Len(room) + 1
              /\ \A i \in 1 .. Len(room) + 1 :
                    u[i] = IF i < k THEN room[i] ELSE IF i = k THEN x ELSE room[i - 1]
      BY <3>2, FrameInserted
    <3>. QED  BY Zenon, <3>1, <3>3
  <2>. HIDE DEF t
  <2>8. WithShown(h, x, n) = t
    BY <1>2 DEF WithShown, t, k, room
  <2>9. FramesSorted(t)
    <3>. SUFFICES ASSUME NEW i \in 1 .. Len(room) + 1, NEW j \in 1 .. Len(room) + 1, i < j
                  PROVE  ShownEarlier(t[i], t[j])
      BY <2>7 DEF FramesSorted
    <3>1. CASE i < k /\ j < k
      <4>1. i \in 1 .. Len(room) /\ j \in 1 .. Len(room)
        BY <2>1, <2>6, <3>1
      <4>2. t[i] = room[i] /\ t[j] = room[j]
        BY <2>7, <3>1
      <4>. QED  BY <2>3, <4>1, <4>2
    <3>2. CASE i < k /\ j = k
      <4>1. i \in 1 .. Len(room)
        BY <2>1, <2>6, <3>2
      <4>2. t[i] = room[i] /\ t[j] = x
        BY <2>7, <3>2
      <4>. QED  BY <2>6, <3>2, <4>1, <4>2
    <3>3. CASE i < k /\ j > k
      <4>1. i \in 1 .. Len(room) /\ j - 1 \in 1 .. Len(room) /\ i < j - 1
        BY <2>1, <2>6, <3>3
      <4>2. t[i] = room[i] /\ t[j] = room[j - 1]
        BY <2>6, <2>7, <3>3
      <4>. QED  BY <2>3, <4>1, <4>2
    <3>4. CASE i = k /\ j > k
      <4>1. j - 1 \in 1 .. Len(room) /\ ~(j - 1 < k)
        BY <2>1, <2>6, <3>4
      <4>2. t[i] = x /\ t[j] = room[j - 1]
        BY <2>6, <2>7, <3>4
      <4>. QED  BY <2>4, <2>6, <4>1, <4>2
    <3>5. CASE i > k /\ j > k
      <4>1. i - 1 \in 1 .. Len(room) /\ j - 1 \in 1 .. Len(room) /\ i - 1 < j - 1
        BY <2>1, <2>6, <3>5
      <4>2. t[i] = room[i - 1] /\ t[j] = room[j - 1]
        BY <2>6, <2>7, <3>5
      <4>. QED  BY <2>3, <4>1, <4>2
    <3>. QED  BY <2>6, <3>1, <3>2, <3>3, <3>4, <3>5
  <2>10. x \in Range(t) /\ Range(room) \subseteq Range(t) /\ Range(t) \subseteq Range(room) \cup {x}
    <3>1. t[k] = x
      BY <2>6, <2>7
    <3>2. \A i \in 1 .. Len(room) : \E j \in 1 .. Len(room) + 1 : t[j] = room[i]
      <4>. TAKE i \in 1 .. Len(room)
      <4>1. CASE i < k
        BY <2>1, <2>7, <4>1
      <4>2. CASE i >= k
        <5>1. i + 1 \in 1 .. Len(room) + 1 /\ ~(i + 1 < k) /\ i + 1 # k /\ (i + 1) - 1 = i
          BY <2>1, <2>6, <4>2
        <5>. QED  BY <2>7, <5>1
      <4>. QED  BY <2>6, <4>1, <4>2
    <3>3. \A j \in 1 .. Len(room) + 1 : t[j] = x \/ \E i \in 1 .. Len(room) : t[j] = room[i]
      <4>. TAKE j \in 1 .. Len(room) + 1
      <4>1. CASE j < k
        BY <2>1, <2>6, <2>7, <4>1
      <4>2. CASE j > k
        <5>1. j - 1 \in 1 .. Len(room) /\ ~(j < k) /\ j # k
          BY <2>1, <2>6, <4>2
        <5>. QED  BY <2>7, <5>1
      <4>. QED  BY <2>6, <3>1, <4>1, <4>2
    <3>4. x \in Range(t)
      BY <2>6, <2>7, <3>1 DEF Range
    <3>5. Range(room) \subseteq Range(t)
      <4>1. DOMAIN room = 1 .. Len(room) /\ DOMAIN t = 1 .. Len(room) + 1
        BY <2>2, <2>7
      <4>. QED  BY <3>2, <4>1 DEF Range
    <3>6. Range(t) \subseteq Range(room) \cup {x}
      BY <2>2, <2>7, <3>3 DEF Range
    <3>. QED  BY <3>4, <3>5, <3>6
  <2>11. CASE Len(h) < n
    <3>1. room = h /\ Len(t) = Len(h) + 1 /\ Len(t) <= n /\ ~(Len(h) = n)
      <4>1. room = h
        BY <2>1, <2>11
      <4>2. Len(h) \in Nat
        BY <2>2
      <4>3. Len(t) = Len(h) + 1
        BY <2>7, <4>1
      <4>. QED  BY <2>11, <2>14, <4>1, <4>2, <4>3
    <3>. QED  BY <1>2, <2>7, <2>8, <2>9, <2>10, <2>11, <3>1
  <2>12. CASE Len(h) = n
    <3>1. Range(room) \subseteq Range(h) /\ Range(h) \ {h[1]} \subseteq Range(room)
      <4>1. \A i \in 1 .. Len(h) : i # 1 => i - 1 \in 1 .. n - 1 /\ h[i] = room[i - 1]
        <5>. TAKE i \in 1 .. Len(h)
        <5>1. CASE i # 1
          <6>1. i - 1 \in 1 .. n - 1 /\ (i - 1) + 1 = i
            BY <2>12, <5>1
          <6>. QED  BY <2>1, <2>12, <6>1
        <5>. QED  BY <5>1
      <4>2. \A i \in 1 .. n - 1 : i + 1 \in 1 .. Len(h) /\ room[i] = h[i + 1]
        BY <2>1, <2>12
      <4>3. Range(room) \subseteq Range(h)
        BY <2>1, <2>2, <2>12, <4>2 DEF Range
      <4>4. \A i \in 1 .. Len(h) : i # 1 => \E j \in DOMAIN room : room[j] = h[i]
        BY <2>1, <2>2, <2>12, <4>1
      <4>5. Range(h) \ {h[1]} \subseteq Range(room)
        BY <2>2, <4>4 DEF Range
      <4>. QED  BY <4>3, <4>5
    <3>2. ShownEarlier(h[1], t[1])
      <4>1. h[1] \in ShownFrames /\ 1 \in DOMAIN h
        BY <2>2, <2>12
      <4>2. ShownEarlier(h[1], x)
        BY <1>2, <2>2, <2>12 DEF RefusesPresentation, ShownEarlier, ShownFrames
      <4>3. CASE k = 1
        BY <2>7, <4>2, <4>3
      <4>4. CASE k # 1
        <5>1. 1 < k /\ 1 \in 1 .. n - 1 /\ 2 \in 1 .. Len(h) /\ 1 + 1 = 2
          BY <2>1, <2>6, <2>12, <4>4
        <5>2. t[1] = room[1] /\ room[1] = h[2]
          BY <2>1, <2>7, <2>12, <5>1
        <5>3. ShownEarlier(h[1], h[2])
          BY <2>2, <4>1, <5>1 DEF FramesSorted
        <5>. QED  BY <5>2, <5>3
      <4>. QED  BY <4>3, <4>4
    <3>3. Len(t) = n /\ Len(t) <= n /\ ~(Len(h) < n)
      BY <2>1, <2>7, <2>12
    <3>. QED  BY <1>2, <2>7, <2>8, <2>9, <2>10, <2>12, <3>1, <3>2, <3>3
  <2>. HIDE DEF t
  <2>. QED  BY <2>11, <2>12, <2>15
<1>. QED  BY <1>1, <1>2

LEMMA ShownRecorded ==
    ASSUME NEW h, NEW sequence \in Nat, NEW time \in Nat, NEW n
    PROVE  LET x == [sequence |-> sequence, time |-> time]
           IN  /\ x \in ShownFrames /\ x.time = time /\ x.sequence = sequence
               /\ WithPresentedFrame(h, sequence, time, n) = WithShown(h, x, n)
BY DEF ShownFrames, WithPresentedFrame, WithShown

\* The histories of every epoch are in order and within their capacity
HistoriesSorted ==
    \A e \in DOMAIN telemetry :
        /\ SamplesSorted(telemetry[e].latency) /\ Len(telemetry[e].latency) <= budget.capacity
        /\ FramesSorted(telemetry[e].shown) /\ Len(telemetry[e].shown) <= budget.capacity

\* Only epoch e records anything
TelemetryChanged(e) ==
    /\ telemetry' \in Seq(Telemetries)
    /\ DOMAIN telemetry' = DOMAIN telemetry /\ Len(telemetry') = Len(telemetry)
    /\ \A d \in DOMAIN telemetry : d # e => telemetry'[d] = telemetry[d]
    /\ telemetry'[e].callbacks = telemetry[e].callbacks

SamePresented(e) ==
    telemetry'[e].presented = telemetry[e].presented /\ telemetry'[e].shown = telemetry[e].shown
SameSamples(e) ==
    telemetry'[e].samples = telemetry[e].samples /\ telemetry'[e].latency = telemetry[e].latency

LEMMA TelemetryTyped ==
    ASSUME NEW t \in Telemetries
    PROVE  /\ t.callbacks \in Nat /\ t.skipped \in Int /\ t.presented \in Nat /\ t.samples \in Nat
           /\ t.latency \in Seq(SampleRecords) /\ t.shown \in Seq(ShownFrames)
BY DEF Telemetries

LEMMA TelemetrySet ==
    ASSUME SharedOK, NEW e \in DOMAIN telemetry, NEW t \in Telemetries,
           t.callbacks = telemetry[e].callbacks, telemetry' = [telemetry EXCEPT ![e] = t]
    PROVE  TelemetryChanged(e) /\ telemetry'[e] = t
BY Replaced DEF SharedOK, TelemetryChanged

LEMMA SkipEffect ==
    ASSUME SharedOK, NEW e \in DOMAIN telemetry,
           telemetry' = [telemetry EXCEPT ![e].skipped = @ + 1]
    PROVE  /\ TelemetryChanged(e) /\ SamePresented(e) /\ SameSamples(e)
           /\ telemetry'[e].skipped = telemetry[e].skipped + 1
<1>. DEFINE old == telemetry[e]
            t == [old EXCEPT !.skipped = old.skipped + 1]
<1>1. old \in Telemetries
  BY ElementOfSeq, LenProperties DEF SharedOK
<1>2. telemetry' = [telemetry EXCEPT ![e] = t]
  OBVIOUS
<1>4. t \in Telemetries
  BY <1>1, TelemetryTyped DEF Telemetries
<1>5. /\ t.callbacks = old.callbacks /\ t.skipped = old.skipped + 1
      /\ t.presented = old.presented /\ t.shown = old.shown
      /\ t.samples = old.samples /\ t.latency = old.latency
  BY <1>1 DEF Telemetries
<1>. HIDE DEF t
<1>6. TelemetryChanged(e) /\ telemetry'[e] = t
  BY <1>2, <1>4, <1>5, TelemetrySet
<1>. QED  BY <1>5, <1>6 DEF SamePresented, SameSamples

LEMMA CapacityTyped ==
    ASSUME OwnerOK, RendererAssumption
    PROVE  budget.capacity \in Nat \ {0}
BY DEF OwnerOK, RendererAssumption

LEMMA SampleEffect ==
    ASSUME TypeOK, HistoriesSorted, NEW f, NEW e \in DOMAIN telemetry, frames[f].epoch = e,
           NEW x \in SampleRecords, SampleRecorded(f, x)
    PROVE  /\ TelemetryChanged(e) /\ SamePresented(e)
           /\ telemetry'[e].skipped = telemetry[e].skipped
           /\ telemetry'[e].samples = telemetry[e].samples + 1
           /\ telemetry'[e].latency = WithSample(telemetry[e].latency, x, budget.capacity)
<1>. DEFINE old == telemetry[e]
            latency == WithSample(old.latency, x, budget.capacity)
            t == [old EXCEPT !.samples = old.samples + 1, !.latency = latency]
<1>1. old \in Telemetries
  BY ElementOfSeq, LenProperties DEF TypeOK, SharedOK
<1>2. telemetry' = [telemetry EXCEPT ![e] = t]
  BY DEF SampleRecorded
<1>3. old.samples + 1 \in Nat
  BY <1>1, TelemetryTyped
<1>4. latency \in Seq(SampleRecords)
  BY RendererAssumption, CapacityTyped, <1>1, TelemetryTyped, SampleKept DEF TypeOK, HistoriesSorted
<1>. HIDE DEF latency
<1>5. t \in Telemetries
  BY Zenon, <1>1, <1>3, <1>4 DEF Telemetries
<1>6. /\ t.callbacks = old.callbacks /\ t.skipped = old.skipped
      /\ t.presented = old.presented /\ t.shown = old.shown
      /\ t.samples = old.samples + 1 /\ t.latency = latency
  BY <1>1 DEF Telemetries
<1>. HIDE DEF t
<1>. QED  BY <1>6, <1>2, <1>5, TelemetrySet DEF SamePresented, latency, TypeOK

LEMMA PresentedEffect ==
    ASSUME TypeOK, HistoriesSorted, NEW e \in DOMAIN telemetry, NEW s \in Submissions,
           telemetry' = [telemetry EXCEPT ![e] = PresentedRecorded(@, s)]
    PROVE  /\ TelemetryChanged(e) /\ SameSamples(e)
           /\ telemetry'[e].skipped = IF UpgradedSkipped(s) THEN telemetry[e].skipped - 1
                                      ELSE telemetry[e].skipped
           /\ telemetry'[e].presented = telemetry[e].presented + 1
           /\ telemetry'[e].shown =
                 WithPresentedFrame(telemetry[e].shown, s.sequence, s.presented, budget.capacity)
<1>. DEFINE old == telemetry[e]
            shown == WithPresentedFrame(old.shown, s.sequence, s.presented, budget.capacity)
            skipped == IF UpgradedSkipped(s) THEN old.skipped - 1 ELSE old.skipped
            t == [old EXCEPT !.skipped = skipped, !.presented = old.presented + 1, !.shown = shown]
<1>1. old \in Telemetries
  BY ElementOfSeq, LenProperties DEF TypeOK, SharedOK
<1>2. telemetry' = [telemetry EXCEPT ![e] = t]
  BY DEF PresentedRecorded
<1>3. old.presented + 1 \in Nat /\ skipped \in Int
  BY <1>1, TelemetryTyped
<1>4. shown \in Seq(ShownFrames)
  <2>. DEFINE x == [sequence |-> s.sequence, time |-> s.presented]
  <2>4. x \in ShownFrames /\ shown = WithShown(old.shown, x, budget.capacity)
    BY ShownRecorded DEF Submissions
  <2>. HIDE DEF x, shown
  <2>. QED
    BY RendererAssumption, CapacityTyped, <1>1, TelemetryTyped, <2>4, FrameKept DEF TypeOK,
       HistoriesSorted
<1>. HIDE DEF shown, skipped
<1>5. t \in Telemetries
  BY Zenon, <1>1, <1>3, <1>4 DEF Telemetries
<1>6. /\ t.callbacks = old.callbacks /\ t.skipped = skipped
      /\ t.presented = old.presented + 1 /\ t.shown = shown
      /\ t.samples = old.samples /\ t.latency = old.latency
  BY <1>1 DEF Telemetries
<1>. HIDE DEF t
<1>7. TelemetryChanged(e) /\ telemetry'[e] = t
  BY <1>2, <1>5, <1>6, TelemetrySet DEF TypeOK
<1>. QED  BY <1>6, <1>7 DEF SameSamples, shown, skipped

(***************************************************************************)
(* The effects of the message thread's steps                               *)
(***************************************************************************)
\* An epoch begins, or none does; what the others recorded stays
SameCounts(e) ==
    SamePresented(e) /\ SameSamples(e) /\ telemetry'[e].skipped = telemetry[e].skipped
TelemetryAdvanced ==
    /\ telemetry' \in Seq(Telemetries)
    /\ DOMAIN telemetry' = 1 .. Len(telemetry') /\ Len(telemetry') \in {epoch, epoch + 1}
    /\ epoch \in Nat \ {0} /\ DOMAIN telemetry = 1 .. epoch
    /\ \A e \in 1 .. epoch :
          SameCounts(e) /\ telemetry'[e].callbacks >= telemetry[e].callbacks
    /\ Len(telemetry') = epoch + 1 =>
          /\ telemetry'[epoch + 1].skipped = 0 /\ telemetry'[epoch + 1].presented = 0
          /\ telemetry'[epoch + 1].samples = 0
          /\ telemetry'[epoch + 1].latency = <<>> /\ telemetry'[epoch + 1].shown = <<>>

LEMMA EpochTyped ==
    ASSUME SharedOK
    PROVE  /\ epoch \in Nat \ {0} /\ DOMAIN telemetry = 1 .. epoch /\ epoch \in DOMAIN telemetry
           /\ \A e \in DOMAIN telemetry : telemetry[e] \in Telemetries
           /\ FreshTelemetry \in Telemetries
<1>3. FreshTelemetry \in Telemetries
  BY DEF FreshTelemetry, Telemetries
<1>. QED  BY LenProperties, ElementOfSeq, <1>3 DEF SharedOK, epoch

LEMMA TelemetryStays ==
    ASSUME SharedOK, telemetry' = telemetry
    PROVE  TelemetryAdvanced
BY EpochTyped, TelemetryTyped DEF SharedOK, TelemetryAdvanced, SameCounts, SamePresented,
   SameSamples, epoch

LEMMA TelemetryBegins ==
    ASSUME SharedOK, telemetry' = Append(telemetry, FreshTelemetry)
    PROVE  TelemetryAdvanced
<1>1. \A e \in 1 .. epoch : telemetry[e].callbacks \in Nat
  BY EpochTyped, TelemetryTyped
<1>2. /\ telemetry' \in Seq(Telemetries) /\ Len(telemetry') = epoch + 1
      /\ DOMAIN telemetry' = 1 .. epoch + 1 /\ telemetry'[epoch + 1] = FreshTelemetry
      /\ \A e \in 1 .. epoch : telemetry'[e] = telemetry[e]
  BY EpochTyped, Appended DEF SharedOK, epoch
<1>4. \A e \in 1 .. epoch :
         SameCounts(e) /\ telemetry'[e].callbacks >= telemetry[e].callbacks
  <2>. TAKE e \in 1 .. epoch
  <2>1. telemetry'[e] = telemetry[e] /\ telemetry[e].callbacks \in Nat
    BY <1>1, <1>2
  <2>. QED  BY <2>1 DEF SameCounts, SamePresented, SameSamples
<1>. QED  BY <1>2, <1>4, EpochTyped DEF TelemetryAdvanced, FreshTelemetry

LEMMA AppliedAdvances ==
    ASSUME SharedOK, telemetry' = AppliedTelemetry
    PROVE  TelemetryAdvanced
BY TelemetryStays, TelemetryBegins DEF AppliedTelemetry

\* A callback takes the next number of its epoch
LEMMA BeginCallbackEffect ==
    ASSUME TypeOK, BeginCallback
    PROVE  /\ callback = Idle /\ active
           /\ TelemetryAdvanced /\ resets' = Len(telemetry')
           /\ telemetry'[Len(telemetry')].callbacks =
                 IF Len(telemetry') = epoch THEN telemetry[epoch].callbacks + 1 ELSE 1
           /\ callback' = [step |-> "resolved", deferred |-> gate.inFlight,
                           sequence |-> telemetry'[Len(telemetry')].callbacks, drained |-> 0]
           /\ \/ /\ gate.inFlight
                 /\ UNCHANGED <<gate, pending, history>>
              \/ /\ ~gate.inFlight
                 /\ gate' = [gate EXCEPT !.completed = 0]
                 /\ pending' = [pending EXCEPT !.upload = NoUpload]
                 /\ \/ /\ history' = history
                       /\ Resolution(pending.upload, gate, history.revision,
                                     history.textureRevision) # "clearHistory"
                    \/ /\ history' = ClearedHistory(history)
                       /\ Resolution(pending.upload, gate, history.revision,
                                     history.textureRevision) = "clearHistory"
           /\ UNCHANGED <<active, settings, slots, frames, gpu, stream, changes, budget>>
<1>. DEFINE applied == AppliedTelemetry
            now == Len(applied)
            t == [applied[now] EXCEPT !.callbacks = applied[now].callbacks + 1]
<1>1. /\ epoch \in Nat \ {0} /\ DOMAIN telemetry = 1 .. epoch
      /\ \A e \in 1 .. epoch : telemetry[e] \in Telemetries
      /\ FreshTelemetry \in Telemetries
  BY EpochTyped DEF TypeOK
<1>2. /\ applied \in Seq(Telemetries) /\ now \in {epoch, epoch + 1}
      /\ DOMAIN applied = 1 .. now
      /\ \A e \in 1 .. epoch : applied[e] = telemetry[e]
      /\ now = epoch + 1 => applied[epoch + 1] = FreshTelemetry
  <2>1. CASE resets > epoch
    <3>1. applied = Append(telemetry, FreshTelemetry)
      BY <2>1 DEF AppliedTelemetry
    <3>. HIDE DEF applied
    <3>. QED  BY <1>1, <3>1, Appended DEF TypeOK, SharedOK, epoch
  <2>2. CASE ~(resets > epoch)
    <3>1. applied = telemetry
      BY <2>2 DEF AppliedTelemetry
    <3>2. now = epoch
      BY <3>1 DEF epoch
    <3>. HIDE DEF applied, now
    <3>. QED  BY <1>1, <3>1, <3>2 DEF TypeOK, SharedOK
  <2>. QED  BY <2>1, <2>2
<1>3. /\ callback = Idle /\ active
      /\ telemetry' = [applied EXCEPT ![now].callbacks = applied[now].callbacks + 1]
      /\ resets' = now
      /\ callback' = [step |-> "resolved", deferred |-> gate.inFlight,
                      sequence |-> applied[now].callbacks + 1, drained |-> 0]
  BY DEF BeginCallback
<1>. HIDE DEF applied, now
<1>4. telemetry' = [applied EXCEPT ![now] = t]
  BY <1>3
<1>6. applied[now] \in Telemetries
  BY <1>1, <1>2
<1>7. applied[now].callbacks \in Nat /\ applied[now].callbacks + 1 \in Nat
  BY <1>6, TelemetryTyped
<1>8. t \in Telemetries
  BY Zenon, <1>6, <1>7 DEF Telemetries
<1>9. /\ t.callbacks = applied[now].callbacks + 1 /\ t.skipped = applied[now].skipped
      /\ t.presented = applied[now].presented /\ t.shown = applied[now].shown
      /\ t.samples = applied[now].samples /\ t.latency = applied[now].latency
  BY <1>6 DEF Telemetries
<1>. HIDE DEF t
<1>10. /\ telemetry' \in Seq(Telemetries) /\ Len(telemetry') = now
       /\ DOMAIN telemetry' = 1 .. now
       /\ telemetry'[now] = t /\ \A e \in 1 .. now : e # now => telemetry'[e] = applied[e]
  BY <1>2, <1>4, <1>1, <1>8, Replaced DEF now
<1>11. \A e \in 1 .. epoch : telemetry[e].callbacks \in Nat
  BY <1>1, TelemetryTyped
<1>12. \A e \in 1 .. epoch :
          SameCounts(e) /\ telemetry'[e].callbacks >= telemetry[e].callbacks
  <2>. TAKE e \in 1 .. epoch
  <2>1. CASE e = now
    BY <1>2, <1>7, <1>9, <1>10, <2>1 DEF SameCounts, SamePresented, SameSamples
  <2>2. CASE e # now
    BY <1>1, <1>2, <1>10, <2>2, <1>11 DEF SameCounts, SamePresented, SameSamples
  <2>. QED  BY <2>1, <2>2
<1>13. FreshTelemetry.callbacks = 0 /\ FreshTelemetry.skipped = 0 /\ FreshTelemetry.presented = 0
       /\ FreshTelemetry.samples = 0 /\ FreshTelemetry.latency = <<>> /\ FreshTelemetry.shown = <<>>
  BY DEF FreshTelemetry
<1>16. /\ \/ /\ gate.inFlight
             /\ UNCHANGED <<gate, pending, history>>
          \/ /\ ~gate.inFlight
             /\ gate' = [gate EXCEPT !.completed = 0]
             /\ pending' = [pending EXCEPT !.upload = NoUpload]
             /\ \/ /\ history' = history
                   /\ Resolution(pending.upload, gate, history.revision,
                                 history.textureRevision) # "clearHistory"
                \/ /\ history' = ClearedHistory(history)
                   /\ Resolution(pending.upload, gate, history.revision,
                                 history.textureRevision) = "clearHistory"
       /\ UNCHANGED <<active, settings, slots, frames, gpu, stream, changes, budget>>
  BY DEF BeginCallback
<1>. QED  BY <1>3, <1>9, <1>10, <1>1, <1>2, <1>12, <1>13, <1>16 DEF TelemetryAdvanced

(***************************************************************************)
(* The effects on frames and slots                                         *)
(***************************************************************************)
FrameAdded(r) ==
    /\ frames' \in Seq(FrameRecords) /\ Len(frames') = building + 1
    /\ DOMAIN frames' = 1 .. building + 1 /\ building \in Nat /\ DOMAIN frames = 1 .. building
    /\ frames'[building + 1] = r /\ \A f \in 1 .. building : frames'[f] = frames[f]

SlotChanged(b) ==
    /\ slots' \in [1 .. BufferCount -> SlotStates]
    /\ \A d \in 1 .. BufferCount : d # b => slots'[d] = slots[d]

SlotReleased(f) ==
    /\ SlotChanged(frames[f].slot) \/ slots' = slots
    /\ \A b \in 1 .. BufferCount :
          /\ slots'[b].staging = slots[b].staging /\ slots'[b].valid = slots[b].valid
          /\ slots'[b].columns = slots[b].columns /\ slots'[b].next = slots[b].next
          /\ slots'[b].span = slots[b].span
          /\ slots'[b].admission # slots[b].admission =>
                b = frames[f].slot /\ slots[b].admission = frames[f].admission

FreshFrame(r, b) ==
    /\ r \in FrameRecords /\ r.slot = b /\ r.epoch = epoch
    /\ r.submission.sequence = callback.sequence
    /\ r.submission.events = {} /\ r.submission.presented = 0
    /\ r.uploads = <<>> /\ r.transaction = 0
    /\ r.completion = "none" /\ r.presentation = "none"

LEMMA SlotTyped ==
    ASSUME NEW s \in SlotStates
    PROVE  /\ s.admission \in Nat /\ s.staging \in Seq(Texels) /\ s.valid \in SUBSET Nat
           /\ s.columns \in Nat /\ s.next \in Nat /\ s.span \in Nat
BY DEF SlotStates

LEMMA NewFrameTyped ==
    ASSUME TypeOK, NEW b \in 1 .. BufferCount
    PROVE  /\ FreshFrame(NewFrame(b), b) /\ NewFrame(b).submission.outcome = "unknown"
           /\ NewFrame(b).admission = slots[b].admission + 1
           /\ LET r == [NewFrame(b) EXCEPT !.slot = 0, !.submission.outcome = "skipped"]
              IN  FreshFrame(r, 0) /\ r.submission.outcome = "skipped"
<1>1. callback.sequence \in Nat /\ building + 1 \in Nat /\ epoch \in Nat /\ slots[b] \in SlotStates
  <2>3. epoch \in Nat
    BY EpochTyped DEF TypeOK
  <2>4. slots[b] \in SlotStates
    BY DEF TypeOK, SharedOK
  <2>. QED  BY FramesTyped, <2>3, <2>4 DEF TypeOK, OwnerOK, building
<1>. DEFINE s == NewSubmission(callback.sequence, building + 1)
            r == NewFrame(b)
            q == [s EXCEPT !.outcome = "skipped"]
<1>2. s \in Submissions
  <2>. DEFINE m == building + 1
  <2>1. m \in Nat
    BY <1>1
  <2>. HIDE DEF m
  <2>. QED  BY <1>1, <2>1 DEF m, NewSubmission, Submissions, SampleRecords, NoSample
<1>3. /\ s.sequence = callback.sequence /\ s.events = {} /\ s.presented = 0
      /\ s.outcome = "unknown"
  BY DEF NewSubmission
<1>4. q \in Submissions /\ q.sequence = s.sequence /\ q.events = s.events
      /\ q.presented = s.presented /\ q.outcome = "skipped"
  BY <1>2 DEF Submissions
<1>5. slots[b].admission + 1 \in Nat
  BY <1>1, SlotTyped
<1>. HIDE DEF s, q
<1>6. /\ r \in FrameRecords /\ r.submission = s /\ r.slot = b /\ r.epoch = epoch
      /\ r.admission = slots[b].admission + 1
      /\ r.uploads = <<>> /\ r.transaction = 0 /\ r.completion = "none" /\ r.presentation = "none"
  <2>1. r = [submission |-> s, slot |-> b, admission |-> slots[b].admission + 1, epoch |-> epoch,
             texture |-> 0, uploads |-> <<>>, transaction |-> 0,
             succeeded |-> FALSE, completion |-> "none", presentation |-> "none"]
    BY DEF NewFrame, s
  <2>3. "none" \in CompletionStages /\ "none" \in PresentationStages
    BY DEF CompletionStages, PresentationStages
  <2>. HIDE DEF r
  <2>. QED  BY <1>1, <1>2, <1>5, <2>1, RendererAssumption, <2>3 DEF FrameRecords
<1>. DEFINE p == [[r EXCEPT !.slot = 0] EXCEPT !.submission = q]
<1>7. [r EXCEPT !.slot = 0, !.submission.outcome = "skipped"] = p
  BY <1>6 DEF FrameRecords, q
<1>. HIDE DEF r
<1>8. /\ p \in FrameRecords /\ p.submission = q /\ p.slot = 0 /\ p.epoch = epoch
      /\ p.uploads = <<>> /\ p.transaction = 0 /\ p.completion = "none" /\ p.presentation = "none"
  BY <1>6, 0 \in Nat, <1>4 DEF FrameRecords
<1>. HIDE DEF p
<1>10. FreshFrame(p, 0) /\ p.submission.outcome = "skipped"
  BY <1>3, <1>4, <1>8 DEF FreshFrame
<1>. QED  BY <1>6, <1>7, <1>3, <1>10 DEF r, FreshFrame

LEMMA AcquireSlotEffect ==
    ASSUME TypeOK, AcquireSlot
    PROVE  /\ callback.step = "resolved" /\ callback' = [callback EXCEPT !.step = "acquired"]
           /\ \E b \in 1 .. BufferCount :
                 /\ slots[b].admission % 2 = 0 /\ SlotChanged(b)
                 /\ slots'[b].admission = slots[b].admission + 1 /\ slots'[b].staging = <<>>
                 /\ FrameAdded(NewFrame(b))
           /\ UNCHANGED <<owner, gate, gpu, telemetry, resets>>
<1>1. PICK b \in 1 .. BufferCount :
         /\ slots[b].admission % 2 = 0
         /\ slots' = [slots EXCEPT ![b].admission = @ + 1, ![b].staging = <<>>]
         /\ frames' = Append(frames, NewFrame(b))
  BY DEF AcquireSlot, Free
<1>. DEFINE t == [slots[b] EXCEPT !.admission = slots[b].admission + 1, !.staging = <<>>]
<1>2. slots \in [1 .. BufferCount -> SlotStates] /\ slots[b] \in SlotStates
  BY DEF TypeOK, SharedOK
<1>3. slots' = [slots EXCEPT ![b] = t]
  BY <1>1
<1>4. slots[b].admission + 1 \in Nat /\ <<>> \in Seq(Texels)
  BY <1>2, SlotTyped
<1>5. t \in SlotStates
  BY Zenon, <1>2, <1>4 DEF SlotStates
<1>. HIDE DEF t
<1>7. SlotChanged(b) /\ slots'[b] = t
  BY <1>2, <1>3, <1>5 DEF SlotChanged
<1>8. FrameAdded(NewFrame(b))
  <2>. DEFINE r == NewFrame(b)
  <2>1. r \in FrameRecords /\ frames' = Append(frames, r)
    BY <1>1, NewFrameTyped DEF FreshFrame
  <2>. HIDE DEF r
  <2>3. FrameAdded(r)
    BY <2>1, Appended DEF FrameAdded, building, TypeOK, SharedOK
  <2>. QED  BY <2>3 DEF r
<1>. QED  BY <1>1, <1>2, <1>7, <1>8 DEF SlotStates, AcquireSlot

LEMMA DropFrameEffect ==
    ASSUME TypeOK, DropFrame
    PROVE  /\ callback.step = "resolved" /\ callback' = Idle
           /\ \E r : FrameAdded(r) /\ FreshFrame(r, 0) /\ r.submission.outcome = "skipped"
           /\ TelemetryChanged(epoch) /\ SamePresented(epoch) /\ SameSamples(epoch)
           /\ telemetry'[epoch].skipped = telemetry[epoch].skipped + 1
           /\ UNCHANGED <<owner, shared, gpu, resets>>
<1>. DEFINE r == [NewFrame(1) EXCEPT !.slot = 0, !.submission.outcome = "skipped"]
<1>1. /\ callback.step = "resolved" /\ callback' = Idle
      /\ frames' = Append(frames, r)
      /\ telemetry' = [telemetry EXCEPT ![epoch].skipped = @ + 1]
      /\ UNCHANGED <<owner, shared, gpu, resets>>
  BY DEF DropFrame
<1>2. FreshFrame(r, 0) /\ r.submission.outcome = "skipped"
  <2>1. 1 \in 1 .. BufferCount
    BY RendererAssumption
  <2>. QED  BY <2>1, NewFrameTyped
<1>. HIDE DEF r
<1>3. FrameAdded(r)
  BY <1>1, <1>2, Appended DEF FrameAdded, FreshFrame, TypeOK, SharedOK, building
<1>. QED  BY <1>1, <1>2, <1>3, EpochTyped, SkipEffect DEF TypeOK

\* The end of a frame's use of its slot
LEMMA ReleasedEffect ==
    ASSUME TypeOK, NEW f \in DOMAIN frames, slots' = Released(frames[f])
    PROVE  SlotReleased(f) /\ slots' \in [1 .. BufferCount -> SlotStates]
<1>1. slots \in [1 .. BufferCount -> SlotStates]
  BY DEF TypeOK, SharedOK
<1>2. CASE slots[frames[f].slot].admission = frames[f].admission
           /\ frames[f].slot \in 1 .. BufferCount
  <2>. DEFINE b == frames[f].slot
              t == [slots[b] EXCEPT !.admission = frames[f].admission + 1]
  <2>1. slots' = [slots EXCEPT ![b] = t]
    BY <1>2 DEF Released
  <2>2. frames[f].admission + 1 \in Nat /\ slots[b] \in SlotStates
    BY <1>1, <1>2, FramesTyped, FieldsTyped DEF TypeOK
  <2>3. t \in SlotStates
    BY Zenon, <2>2 DEF SlotStates
  <2>4. /\ t.staging = slots[b].staging /\ t.valid = slots[b].valid
        /\ t.columns = slots[b].columns /\ t.next = slots[b].next /\ t.span = slots[b].span
    BY <2>2 DEF SlotStates
  <2>. HIDE DEF t
  <2>5. SlotChanged(b) /\ slots'[b] = t
    BY <1>1, <1>2, <2>1, <2>3 DEF SlotChanged
  <2>. QED  BY <1>2, <2>4, <2>5 DEF SlotReleased, SlotChanged
<1>3. CASE ~(slots[frames[f].slot].admission = frames[f].admission
             /\ frames[f].slot \in 1 .. BufferCount)
  BY <1>1, <1>3 DEF Released, SlotReleased
<1>. QED  BY <1>2, <1>3

\* The frame being built has a slot
LEMMA BuildingTyped ==
    ASSUME TypeOK, BuildingFrame, SlotsHeld, Building
    PROVE  /\ building \in DOMAIN frames /\ building \in Nat \ {0} /\ DOMAIN frames = 1 .. building
           /\ frames[building] \in FrameRecords
           /\ frames[building].slot \in 1 .. BufferCount
           /\ slots[frames[building].slot] \in SlotStates
           /\ slots[frames[building].slot].admission = frames[building].admission
           /\ frames[building].admission % 2 = 1
           /\ frames[building].submission.outcome = "unknown"
           /\ frames[building].completion = "none" /\ frames[building].presentation = "none"
           /\ frames[building].epoch = epoch /\ frames[building].transaction = 0
BY FramesTyped DEF TypeOK, BuildingFrame, building, Holds, SlotsHeld, SharedOK

AbandonSteps == {"acquired", "prepared"}

LEMMA AbandonFrameEffect ==
    ASSUME TypeOK, BuildingFrame, SlotsHeld, AbandonFrame
    PROVE  /\ callback.step \in AbandonSteps /\ Building /\ callback' = Idle
           /\ FrameChanged(building) /\ SameWork(building)
           /\ frames'[building].completion = "none" /\ frames'[building].presentation = "none"
           /\ frames'[building].submission = Skipped(frames[building].submission)
           /\ SlotReleased(building) /\ slots' \in [1 .. BufferCount -> SlotStates]
           /\ TelemetryChanged(epoch) /\ SamePresented(epoch) /\ SameSamples(epoch)
           /\ telemetry'[epoch].skipped = telemetry[epoch].skipped + 1
           /\ history' = IF frames[building].uploads # <<>> THEN ClearedHistory(history) ELSE history
           /\ UNCHANGED <<active, pending, settings, gate, gpu, resets, stream, changes, budget>>
<1>. DEFINE s == Skipped(frames[building].submission)
            r == [frames[building] EXCEPT !.submission = s]
<1>1. /\ callback.step \in {"acquired", "prepared"} /\ callback' = Idle
      /\ slots' = Released(frames[building])
      /\ RecordSkipped(building)
      /\ frames' = [frames EXCEPT ![building] = r]
      /\ history' = IF frames[building].uploads # <<>> THEN ClearedHistory(history) ELSE history
      /\ UNCHANGED <<active, pending, settings, gate, gpu, resets, stream, changes, budget>>
  BY DEF AbandonFrame
<1>2. Building
  BY <1>1 DEF Building, BuildingSteps
<1>3. /\ building \in DOMAIN frames /\ frames[building] \in FrameRecords
      /\ frames[building].submission.outcome = "unknown"
      /\ frames[building].completion = "none" /\ frames[building].presentation = "none"
      /\ frames[building].epoch = epoch
  BY <1>2, BuildingTyped
<1>4. s \in Submissions
  BY <1>3, FieldsTyped, SubmissionsTyped, 0 \in Nat
<1>. HIDE DEF s
<1>5. r \in FrameRecords
  BY Zenon, <1>3, <1>4 DEF FrameRecords
<1>6. /\ r.submission = s
      /\ r.completion = frames[building].completion
      /\ r.presentation = frames[building].presentation
      /\ r.slot = frames[building].slot /\ r.admission = frames[building].admission
      /\ r.epoch = frames[building].epoch /\ r.texture = frames[building].texture
      /\ r.uploads = frames[building].uploads /\ r.transaction = frames[building].transaction
      /\ r.succeeded = frames[building].succeeded
  BY <1>3 DEF FrameRecords
<1>. HIDE DEF r
<1>7. FrameChanged(building) /\ frames'[building] = r
  BY <1>1, <1>3, <1>5, FrameSet DEF FrameChanged, TypeOK
<1>9. SlotReleased(building) /\ slots' \in [1 .. BufferCount -> SlotStates]
  BY <1>1, <1>3, ReleasedEffect
<1>12. /\ TelemetryChanged(epoch) /\ SamePresented(epoch) /\ SameSamples(epoch)
       /\ telemetry'[epoch].skipped = telemetry[epoch].skipped + 1
  BY EpochTyped, <1>1, <1>3, SkipEffect DEF TypeOK, RecordSkipped
<1>. QED  BY <1>1, <1>2, <1>3, <1>6, <1>7, <1>9, <1>12 DEF s, AbandonSteps, SameWork

LEMMA BeginDrainEffect ==
    ASSUME BeginDrain
    PROVE  /\ callback.step = "acquired" /\ ~callback.deferred
           /\ callback' = [callback EXCEPT !.step = "draining"]
           /\ history' = history \/ history' = ClearedHistory(history)
           /\ settings' = [settings EXCEPT !.clear = FALSE]
           /\ UNCHANGED <<active, pending, shared, frames, gpu, telemetry, resets, stream, changes,
                          budget>>
BY DEF BeginDrain

\* One frame's uploads and the rows in its slot, and nothing else of either
UploadsPrepared(f, uploads, staging) ==
    /\ FrameChanged(f) /\ SlotChanged(frames[f].slot)
    /\ frames'[f].uploads = uploads
    /\ frames'[f].submission = frames[f].submission
    /\ frames'[f].slot = frames[f].slot /\ frames'[f].admission = frames[f].admission
    /\ frames'[f].epoch = frames[f].epoch /\ frames'[f].texture = frames[f].texture
    /\ frames'[f].transaction = frames[f].transaction
    /\ frames'[f].succeeded = frames[f].succeeded
    /\ frames'[f].completion = frames[f].completion
    /\ frames'[f].presentation = frames[f].presentation
    /\ slots'[frames[f].slot].staging = staging
    /\ slots'[frames[f].slot].admission = slots[frames[f].slot].admission

LEMMA PreparedEffect ==
    ASSUME TypeOK, BuildingFrame, SlotsHeld, Building,
           NEW uploads \in Seq(Nat), NEW staging \in Seq(Texels), Prepared(uploads, staging)
    PROVE  UploadsPrepared(building, uploads, staging)
<1>. DEFINE b == frames[building].slot
            r == [frames[building] EXCEPT !.uploads = uploads]
            t == [slots[b] EXCEPT !.staging = staging]
<1>1. /\ building \in DOMAIN frames /\ frames[building] \in FrameRecords
      /\ b \in 1 .. BufferCount /\ slots[b] \in SlotStates
  BY BuildingTyped
<1>2. frames' = [frames EXCEPT ![building] = r] /\ slots' = [slots EXCEPT ![b] = t]
  BY DEF Prepared
<1>3. r \in FrameRecords /\ t \in SlotStates
  BY Zenon, <1>1 DEF FrameRecords, SlotStates
<1>4. /\ r.uploads = uploads
      /\ r.submission = frames[building].submission
      /\ r.slot = frames[building].slot /\ r.admission = frames[building].admission
      /\ r.epoch = frames[building].epoch /\ r.texture = frames[building].texture
      /\ r.transaction = frames[building].transaction
      /\ r.succeeded = frames[building].succeeded
      /\ r.completion = frames[building].completion
      /\ r.presentation = frames[building].presentation
  BY <1>1 DEF FrameRecords
<1>5. t.staging = staging /\ t.admission = slots[b].admission
  BY <1>1 DEF SlotStates
<1>. HIDE DEF r, t
<1>6. FrameChanged(building) /\ frames'[building] = r
  BY <1>1, <1>2, <1>3, FrameSet DEF FrameChanged, TypeOK
<1>7. SlotChanged(b) /\ slots'[b] = t
  BY <1>1, <1>2, <1>3 DEF SlotChanged, TypeOK, SharedOK
<1>. QED  BY <1>4, <1>5, <1>6, <1>7 DEF UploadsPrepared

\* A turn of the drain
DrainTurn(column) ==
    /\ callback.step = "draining" /\ Building
    /\ stream' = column /\ column.sequence = stream.sequence + 1 /\ column.slot >= stream.slot
    /\ column.slot > 0
    /\ column \in [sequence : Nat, slot : Nat, generation : Nat \ {0}]
    /\ UNCHANGED <<active, pending, settings, gate, queue, screen, telemetry, resets, changes,
                   budget>>
TurnStays ==
    /\ callback'.step \in {"draining", "drained"}
    /\ callback' \in [step : Steps, deferred : BOOLEAN, sequence : Nat, drained : Nat]
    /\ callback'.deferred = callback.deferred /\ callback'.sequence = callback.sequence

LEMMA NextColumnTyped ==
    ASSUME OwnerOK, NEW advance \in Nat, NEW change \in BOOLEAN
    PROVE  LET column == NextColumn(stream, advance, change)
           IN  /\ column \in [sequence : Nat, slot : Nat, generation : Nat \ {0}]
               /\ column.sequence = stream.sequence + 1
               /\ column.slot >= stream.slot
               /\ column.slot > 0
BY DEF OwnerOK, NextColumn

LEMMA DrainingEffect ==
    ASSUME TypeOK, NEW advance \in Nat, NEW change \in BOOLEAN,
           Draining(NextColumn(stream, advance, change))
    PROVE  DrainTurn(NextColumn(stream, advance, change))
<1>. DEFINE column == NextColumn(stream, advance, change)
<1>1. /\ column \in [sequence : Nat, slot : Nat, generation : Nat \ {0}]
      /\ column.sequence = stream.sequence + 1
      /\ column.slot >= stream.slot /\ column.slot > 0
  BY NextColumnTyped DEF TypeOK
<1>3. /\ stream' = column
      /\ UNCHANGED <<active, pending, settings, gate, queue, screen, telemetry, resets, changes,
                     budget>>
  BY DEF Draining
<1>. HIDE DEF column
<1>4. DrainTurn(column)
  BY <1>1, <1>3 DEF DrainTurn, Draining, Building, BuildingSteps
<1>. QED  BY <1>4 DEF column

LEMMA TurnEnds ==
    ASSUME OwnerOK, callback.step = "draining",
           NextTurn \/ callback' = [callback EXCEPT !.step = "drained"]
    PROVE  TurnStays
<1>1. callback \in [step : Steps, deferred : BOOLEAN, sequence : Nat, drained : Nat]
  BY DEF OwnerOK
<1>2. "drained" \in Steps /\ callback.drained + 1 \in Nat
  BY <1>1 DEF Steps
<1>3. CASE NextTurn
  <2>. DEFINE n == callback.drained + 1
  <2>1. callback' = [callback EXCEPT !.drained = n]
    BY <1>3 DEF NextTurn
  <2>. HIDE DEF n
  <2>. QED  BY <1>1, <2>1, <1>2 DEF TurnStays, n
<1>4. CASE callback' = [callback EXCEPT !.step = "drained"]
  BY <1>1, <1>2, <1>4 DEF TurnStays
<1>. QED  BY <1>3, <1>4

LEMMA DrainMarkerEffect ==
    ASSUME TypeOK, BuildingFrame, SlotsHeld, DrainMarker
    PROVE  /\ DrainTurn(NextColumn(stream, 1, FALSE)) /\ TurnStays
           /\ UploadsPrepared(building, <<>>, <<>>)
           /\ history' = ClearedHistory(history) /\ texels' = texels
<1>1. DrainTurn(NextColumn(stream, 1, FALSE))
  BY DrainingEffect, 1 \in Nat DEF DrainMarker
<1>3. UploadsPrepared(building, <<>>, <<>>)
  <2>1. <<>> \in Seq(Nat) /\ <<>> \in Seq(Texels) /\ Prepared(<<>>, <<>>) /\ Building
    BY <1>1 DEF DrainMarker, DrainTurn
  <2>. QED  BY <2>1, PreparedEffect
<1>. QED  BY <1>1, TurnEnds, <1>3 DEF DrainMarker, DrainTurn, TypeOK

ColumnSignature(column) == [generation |-> column.generation, columns |-> settings.columns]
EnsuredHistory(column, allocates) ==
    EnsuredTexture(IF MustClear(history.signature, ColumnSignature(column))
                   THEN ClearedHistory(history) ELSE history, settings.columns, allocates)
HeldUploads(column) ==
    IF MustClear(history.signature, ColumnSignature(column)) THEN <<>>
    ELSE frames[building].uploads
HeldRows(column) ==
    IF MustClear(history.signature, ColumnSignature(column)) THEN <<>>
    ELSE slots[frames[building].slot].staging
ColumnTexel(column) == [generation |-> column.generation, slot |-> column.slot]

\* The three ends of a turn with a column: no texture, a refused column, one more upload
TurnWithoutTexture(column, h) ==
    /\ h.texture = 0 /\ history' = h
    /\ UploadsPrepared(building, HeldUploads(column), HeldRows(column))
TurnRefused(column, h) ==
    /\ h.texture # 0 /\ RefusedColumn(h.ring, column.slot, column.sequence)
    /\ history' = [h EXCEPT !.signature = ColumnSignature(column)]
    /\ UploadsPrepared(building, HeldUploads(column), HeldRows(column))
TurnAppended(column, h) ==
    /\ h.texture # 0 /\ ~RefusedColumn(h.ring, column.slot, column.sequence)
    /\ history' = [h EXCEPT !.signature = ColumnSignature(column),
                            !.ring = AppendColumn(h.ring, column.slot, column.sequence).ring]
    /\ UploadsPrepared(building,
                       Append(HeldUploads(column),
                              AppendColumn(h.ring, column.slot, column.sequence).column),
                       Append(HeldRows(column), ColumnTexel(column)))
TurnWithColumn(column, h) ==
    /\ DrainTurn(column) /\ TurnStays
    /\ texels' = IF h.textureRevision = history.textureRevision THEN texels
                 ELSE Append(texels, BlankTexture(h.texture))
    /\ TurnWithoutTexture(column, h) \/ TurnRefused(column, h) \/ TurnAppended(column, h)

LEMMA EnsuredTyped ==
    ASSUME TypeOK, NEW column, NEW allocates \in BOOLEAN
    PROVE  EnsuredHistory(column, allocates) \in Histories
<1>1. history \in Histories /\ settings.columns \in Nat
  BY RendererAssumption DEF TypeOK, OwnerOK
<1>. DEFINE h == IF MustClear(history.signature, ColumnSignature(column))
                 THEN ClearedHistory(history) ELSE history
<1>. HIDE DEF h
<1>. QED  BY <1>1, HistoriesTyped DEF EnsuredHistory, h

LEMMA HeldTyped ==
    ASSUME TypeOK, BuildingFrame, SlotsHeld, Building,
           NEW column \in [sequence : Nat, slot : Nat, generation : Nat \ {0}]
    PROVE  /\ HeldUploads(column) \in Seq(Nat) /\ HeldRows(column) \in Seq(Texels)
           /\ ColumnTexel(column) \in Texels /\ ColumnSignature(column) \in Signatures
<1>4. ColumnTexel(column) \in Texels /\ ColumnSignature(column) \in Signatures
  BY RendererAssumption DEF ColumnTexel, Texels, ColumnSignature, Signatures, TypeOK, OwnerOK
<1>. QED  BY BuildingTyped, FieldsTyped, SlotTyped, <1>4 DEF HeldUploads, HeldRows

LEMMA DrainColumnEffect ==
    ASSUME TypeOK, BuildingFrame, SlotsHeld, DrainColumn
    PROVE  \E advance \in Nat, change, allocates \in BOOLEAN :
              LET column == NextColumn(stream, advance, change)
              IN  TurnWithColumn(column, EnsuredHistory(column, allocates))
<1>2. PICK advance \in budget.advances, change \in BOOLEAN, allocates \in BOOLEAN :
        LET column    == NextColumn(stream, advance, change)
            h         == EnsuredHistory(column, allocates)
            signed    == [h EXCEPT !.signature = ColumnSignature(column)]
            uploads   == HeldUploads(column)
            staging   == HeldRows(column)
            appended  == AppendColumn(h.ring, column.slot, column.sequence)
        IN  /\ Draining(column)
            /\ texels' = IF h.textureRevision = history.textureRevision THEN texels
                         ELSE Append(texels, BlankTexture(h.texture))
            /\ \/ /\ h.texture = 0
                  /\ history' = h
                  /\ Prepared(uploads, staging)
                  /\ callback' = [callback EXCEPT !.step = "drained"]
               \/ /\ h.texture # 0 /\ RefusedColumn(h.ring, column.slot, column.sequence)
                  /\ history' = signed
                  /\ Prepared(uploads, staging)
                  /\ NextTurn
               \/ /\ h.texture # 0 /\ ~RefusedColumn(h.ring, column.slot, column.sequence)
                  /\ history' = [signed EXCEPT !.ring = appended.ring]
                  /\ Prepared(Append(uploads, appended.column),
                              Append(staging, ColumnTexel(column)))
                  /\ NextTurn
  BY DEF DrainColumn, EnsuredHistory, HeldUploads, HeldRows, ColumnSignature, ColumnTexel
<1>3. advance \in Nat
  BY RendererAssumption DEF TypeOK, OwnerOK
<1>. DEFINE column == NextColumn(stream, advance, change)
            h == EnsuredHistory(column, allocates)
            appended == AppendColumn(h.ring, column.slot, column.sequence)
<1>4. DrainTurn(column)
  BY <1>2, <1>3, DrainingEffect
<1>5. column \in [sequence : Nat, slot : Nat, generation : Nat \ {0}]
      /\ column.slot \in Nat /\ column.sequence \in Nat
  BY <1>4 DEF DrainTurn
<1>6. h \in Histories
  BY EnsuredTyped
<1>7. callback.step = "draining" /\ Building
  BY <1>4 DEF DrainTurn
<1>9. /\ HeldUploads(column) \in Seq(Nat) /\ HeldRows(column) \in Seq(Texels)
      /\ ColumnTexel(column) \in Texels
  BY <1>5, <1>7, HeldTyped
<1>10. /\ texels' = IF h.textureRevision = history.textureRevision THEN texels
                    ELSE Append(texels, BlankTexture(h.texture))
       /\ \/ /\ h.texture = 0 /\ history' = h
             /\ Prepared(HeldUploads(column), HeldRows(column))
          \/ /\ h.texture # 0 /\ RefusedColumn(h.ring, column.slot, column.sequence)
             /\ history' = [h EXCEPT !.signature = ColumnSignature(column)]
             /\ Prepared(HeldUploads(column), HeldRows(column))
          \/ /\ h.texture # 0 /\ ~RefusedColumn(h.ring, column.slot, column.sequence)
             /\ history' = [h EXCEPT !.signature = ColumnSignature(column), !.ring = appended.ring]
             /\ Prepared(Append(HeldUploads(column), appended.column),
                         Append(HeldRows(column), ColumnTexel(column)))
  BY <1>2
<1>. HIDE DEF column, h
<1>11. ASSUME h.texture = 0, history' = h, Prepared(HeldUploads(column), HeldRows(column))
       PROVE  TurnWithoutTexture(column, h)
  BY <1>7, <1>9, <1>11, PreparedEffect DEF TurnWithoutTexture
<1>12. ASSUME h.texture # 0, RefusedColumn(h.ring, column.slot, column.sequence),
              history' = [h EXCEPT !.signature = ColumnSignature(column)],
              Prepared(HeldUploads(column), HeldRows(column))
       PROVE  TurnRefused(column, h)
  BY <1>7, <1>9, <1>12, PreparedEffect DEF TurnRefused
<1>13. ASSUME h.texture # 0, ~RefusedColumn(h.ring, column.slot, column.sequence),
              history' = [h EXCEPT !.signature = ColumnSignature(column), !.ring = appended.ring],
              Prepared(Append(HeldUploads(column), appended.column),
                       Append(HeldRows(column), ColumnTexel(column)))
       PROVE  TurnAppended(column, h)
  <2>2. appended.column \in Nat
    BY <1>5, <1>13, <1>6, RingAppended DEF Histories
  <2>. DEFINE uploads == Append(HeldUploads(column), appended.column)
              rows == Append(HeldRows(column), ColumnTexel(column))
  <2>. HIDE DEF appended
  <2>3. uploads \in Seq(Nat) /\ rows \in Seq(Texels)
    BY <1>9, <2>2, Appended
  <2>4. Prepared(uploads, rows)
    BY <1>13
  <2>. HIDE DEF uploads, rows
  <2>5. UploadsPrepared(building, uploads, rows)
    BY <1>7, <2>3, <2>4, PreparedEffect
  <2>. QED  BY <1>13, <2>5 DEF TurnAppended, uploads, rows, appended
<1>14. TurnWithColumn(column, h)
  BY <1>4, <1>2, <1>7, TurnEnds, <1>10, <1>11, <1>12, <1>13 DEF TurnWithColumn, TypeOK
<1>. QED  BY <1>3, <1>14 DEF column, h

\* writeSpectrogramGpuState of one slot
SlotWritten(b, ring, valid) ==
    /\ SlotChanged(b)
    /\ slots'[b].valid = valid /\ slots'[b].columns = ring.columns
    /\ slots'[b].next = ring.next /\ slots'[b].span = ring.span
    /\ slots'[b].staging = slots[b].staging /\ slots'[b].admission = slots[b].admission

LEMMA WrittenEffect ==
    ASSUME SharedOK, NEW b \in 1 .. BufferCount, NEW ring \in Rings, NEW valid \in SUBSET Nat,
           slots' = [slots EXCEPT ![b] = Written(@, ring, valid)]
    PROVE  SlotWritten(b, ring, valid)
<1>. DEFINE t == [slots[b] EXCEPT !.valid = valid, !.columns = ring.columns,
                                  !.next = ring.next, !.span = ring.span]
<1>1. slots \in [1 .. BufferCount -> SlotStates] /\ slots[b] \in SlotStates
  BY DEF SharedOK
<1>3. slots' = [slots EXCEPT ![b] = t]
  BY DEF Written
<1>4. t \in SlotStates
  BY <1>1 DEF SlotStates, Rings
<1>5. /\ t.valid = valid /\ t.columns = ring.columns /\ t.next = ring.next /\ t.span = ring.span
      /\ t.staging = slots[b].staging /\ t.admission = slots[b].admission
  BY <1>1 DEF SlotStates
<1>. HIDE DEF t
<1>6. SlotChanged(b) /\ slots'[b] = t
  BY <1>1, <1>3, <1>4 DEF SlotChanged
<1>. QED  BY <1>5, <1>6 DEF SlotWritten

FrameValidity ==
    RenderValidity(history.ring, IF callback.deferred THEN pending.upload.columns ELSE {},
                   callback.deferred /\ pending.upload = NoUpload)

LEMMA PrepareFrameEffect ==
    ASSUME TypeOK, BuildingFrame, SlotsHeld, PrepareFrame
    PROVE  /\ \/ callback.step = "acquired" /\ callback.deferred
              \/ callback.step \in {"draining", "drained"}
           /\ Building /\ callback' = [callback EXCEPT !.step = "prepared"]
           /\ FrameChanged(building)
           /\ frames'[building].texture = history.textureRevision
           /\ frames'[building].uploads = frames[building].uploads
           /\ frames'[building].submission = frames[building].submission
           /\ frames'[building].slot = frames[building].slot
           /\ frames'[building].admission = frames[building].admission
           /\ frames'[building].epoch = frames[building].epoch
           /\ frames'[building].transaction = frames[building].transaction
           /\ frames'[building].succeeded = frames[building].succeeded
           /\ frames'[building].completion = frames[building].completion
           /\ frames'[building].presentation = frames[building].presentation
           /\ SlotWritten(frames[building].slot, history.ring, FrameValidity)
           /\ FrameValidity \subseteq history.ring.valid
           /\ UNCHANGED <<owner, gate, gpu, telemetry, resets>>
<1>. DEFINE b == frames[building].slot
            r == [frames[building] EXCEPT !.texture = history.textureRevision]
<1>1. /\ \/ callback.step = "acquired" /\ callback.deferred
         \/ callback.step \in {"draining", "drained"}
      /\ callback' = [callback EXCEPT !.step = "prepared"]
      /\ frames' = [frames EXCEPT ![building] = r]
      /\ slots' = [slots EXCEPT ![b] = Written(@, history.ring, FrameValidity)]
      /\ UNCHANGED <<owner, gate, gpu, telemetry, resets>>
  BY DEF PrepareFrame, FrameValidity
<1>2. Building
  BY <1>1 DEF Building, BuildingSteps
<1>3. building \in DOMAIN frames /\ frames[building] \in FrameRecords /\ b \in 1 .. BufferCount
  BY <1>2, BuildingTyped
<1>4. history.ring \in Rings /\ history.textureRevision \in Nat
  BY DEF TypeOK, OwnerOK, Histories
<1>6. FrameValidity \subseteq history.ring.valid
  BY DEF FrameValidity, RenderValidity
<1>8. r \in FrameRecords
  BY Zenon, <1>3, <1>4 DEF FrameRecords
<1>9. /\ r.texture = history.textureRevision
      /\ r.uploads = frames[building].uploads
      /\ r.submission = frames[building].submission
      /\ r.slot = frames[building].slot /\ r.admission = frames[building].admission
      /\ r.epoch = frames[building].epoch
      /\ r.transaction = frames[building].transaction
      /\ r.succeeded = frames[building].succeeded
      /\ r.completion = frames[building].completion
      /\ r.presentation = frames[building].presentation
  BY <1>3 DEF FrameRecords
<1>. HIDE DEF r
<1>10. FrameChanged(building) /\ frames'[building] = r
  BY <1>1, <1>3, <1>8, FrameSet DEF FrameChanged, TypeOK
<1>. QED  BY <1>1, <1>2, <1>6, <1>3, <1>4, WrittenEffect, <1>9, <1>10 DEF TypeOK, Rings

\* A committed frame
Committed(encoded, transaction) ==
    /\ FrameChanged(building)
    /\ frames'[building].uploads = IF encoded THEN frames[building].uploads ELSE <<>>
    /\ frames'[building].transaction = transaction
    /\ frames'[building].completion = "queued"
    /\ frames'[building].presentation = frames[building].presentation
    /\ frames'[building].slot = frames[building].slot
    /\ frames'[building].admission = frames[building].admission
    /\ frames'[building].epoch = frames[building].epoch
    /\ frames'[building].texture = frames[building].texture
    /\ frames'[building].succeeded = frames[building].succeeded
    /\ frames'[building].submission.sequence = frames[building].submission.sequence
    /\ frames'[building].submission.events = frames[building].submission.events
    /\ frames'[building].submission.outcome = frames[building].submission.outcome
    /\ frames'[building].submission.presented = frames[building].submission.presented
    /\ frames'[building].submission.sample = frames[building].submission.sample
    /\ queue' = Append(queue, building)
    /\ callback' = Idle /\ callback.step = "prepared" /\ Building
    /\ UNCHANGED <<active, settings, texels, screen, telemetry, resets, stream, changes, budget>>

CommitUploads ==
    /\ Committed(TRUE, pending.transaction + 1) /\ frames[building].uploads # <<>>
    /\ UNCHANGED <<history, slots>>
    /\ pending' = [upload |-> [transaction |-> pending.transaction + 1,
                               history |-> history.revision,
                               texture |-> history.textureRevision,
                               columns |-> ColumnsOf(frames[building].uploads)],
                   transaction |-> pending.transaction + 1]
    /\ gate' = Begun(gate, pending.transaction + 1)
CommitDrawing ==
    /\ Committed(TRUE, 0) /\ frames[building].uploads = <<>>
    /\ UNCHANGED <<history, slots, pending, gate>>
CommitUnencoded ==
    /\ Committed(FALSE, 0) /\ frames[building].uploads # <<>>
    /\ history' = ClearedHistory(history)
    /\ SlotWritten(frames[building].slot, EmptyRing(history.ring.columns), {})
    /\ UNCHANGED <<pending, gate>>

LEMMA CommitFrameEffect ==
    ASSUME TypeOK, BuildingFrame, SlotsHeld, CommitFrame
    PROVE  CommitUploads \/ CommitDrawing \/ CommitUnencoded
<1>1. callback.step = "prepared" /\ Building
  BY DEF CommitFrame, Building, BuildingSteps
<1>2. /\ building \in DOMAIN frames /\ frames[building] \in FrameRecords
      /\ frames[building].slot \in 1 .. BufferCount /\ building \in Nat
  BY <1>1, BuildingTyped
<1>4. PICK encoded \in BOOLEAN :
          LET frame       == frames[building]
              uploads     == encoded /\ frame.uploads # <<>>
              transaction == pending.transaction + 1
              h           == IF encoded THEN history ELSE ClearedHistory(history)
          IN  /\ frame.uploads = <<>> => encoded
              /\ history' = h
              /\ slots' = IF encoded THEN slots
                          ELSE [slots EXCEPT ![frame.slot] =
                                    Written(@, h.ring, RenderValidity(h.ring, {}, FALSE))]
              /\ pending' = IF uploads
                            THEN [upload |-> [transaction |-> transaction,
                                              history |-> history.revision,
                                              texture |-> history.textureRevision,
                                              columns |-> ColumnsOf(frame.uploads)],
                                  transaction |-> transaction]
                            ELSE pending
              /\ gate' = IF uploads THEN Begun(gate, transaction) ELSE gate
              /\ frames' = [frames EXCEPT
                              ![building].submission.cpuReady = building,
                              ![building].uploads = IF encoded THEN @ ELSE <<>>,
                              ![building].transaction = IF uploads THEN transaction ELSE 0,
                              ![building].completion = "queued"]
  BY DEF CommitFrame
<1>. DEFINE old == frames[building]
            s == [old.submission EXCEPT !.cpuReady = building]
            transaction == IF encoded /\ old.uploads # <<>> THEN pending.transaction + 1 ELSE 0
            uploads == IF encoded THEN old.uploads ELSE <<>>
            a == [old EXCEPT !.submission = s]
            b == [a EXCEPT !.uploads = uploads]
            c == [b EXCEPT !.transaction = transaction]
            r == [c EXCEPT !.completion = "queued"]
<1>5. old.submission \in Submissions /\ old.uploads \in Seq(Nat)
  BY <1>2, FieldsTyped
<1>6. s \in Submissions
  BY Zenon, <1>2, <1>5 DEF Submissions
<1>7. /\ s.sequence = old.submission.sequence /\ s.events = old.submission.events
      /\ s.outcome = old.submission.outcome /\ s.presented = old.submission.presented
      /\ s.sample = old.submission.sample
  BY <1>5 DEF Submissions
<1>8. transaction \in Nat /\ uploads \in Seq(Nat) /\ "queued" \in CompletionStages
  BY <1>5 DEF CompletionStages, TypeOK, OwnerOK
<1>9. frames' = [frames EXCEPT ![building] = r]
  BY <1>1, BuildingTyped, <1>2, <1>4 DEF FrameRecords
<1>10. /\ a \in FrameRecords /\ b \in FrameRecords /\ c \in FrameRecords /\ r \in FrameRecords
  <2>. HIDE DEF s, transaction, uploads
  <2>1. a \in FrameRecords
    BY Zenon, <1>2, <1>6 DEF FrameRecords
  <2>. HIDE DEF a
  <2>2. b \in FrameRecords
    BY Zenon, <1>8, <2>1 DEF FrameRecords
  <2>. HIDE DEF b
  <2>3. c \in FrameRecords
    BY Zenon, <1>8, <2>2 DEF FrameRecords
  <2>. HIDE DEF c
  <2>. QED  BY <2>1, <2>2, <2>3, <1>8 DEF FrameRecords
<1>11. /\ r.submission = s /\ r.uploads = uploads /\ r.transaction = transaction
       /\ r.completion = "queued" /\ r.presentation = old.presentation
       /\ r.slot = old.slot /\ r.admission = old.admission /\ r.epoch = old.epoch
       /\ r.texture = old.texture /\ r.succeeded = old.succeeded
  <2>. HIDE DEF s, transaction, uploads
  <2>. QED  BY <1>2 DEF FrameRecords
<1>. HIDE DEF r, s
<1>12. FrameChanged(building) /\ frames'[building] = r
  BY <1>2, <1>9, <1>10, FrameSet DEF FrameChanged, TypeOK
<1>13. /\ queue' = Append(queue, building) /\ callback' = Idle
       /\ UNCHANGED <<active, settings, texels, screen, telemetry, resets, stream, changes, budget>>
  BY DEF CommitFrame
<1>14. ASSUME NEW e \in BOOLEAN, NEW n, e = encoded, n = transaction
       PROVE  Committed(e, n)
  BY <1>1, <1>7, <1>11, <1>12, <1>13, <1>14 DEF Committed
<1>15. CASE encoded /\ old.uploads # <<>>
  BY <1>14, <1>15, <1>4 DEF CommitUploads
<1>16. CASE encoded /\ old.uploads = <<>>
  BY <1>14, <1>16, <1>4 DEF CommitDrawing
<1>17. CASE ~encoded
  <2>. DEFINE h == ClearedHistory(history)
  <2>3. h.ring = EmptyRing(history.ring.columns) /\ h.ring \in Rings
    <3>2. h.ring = EmptyRing(history.ring.columns) /\ h \in Histories
      BY HistoriesTyped, 0 \in Nat DEF TypeOK, OwnerOK
    <3>. HIDE DEF h
    <3>. QED  BY <3>2 DEF Histories
  <2>4. RenderValidity(h.ring, {}, FALSE) = {}
    BY <2>3 DEF RenderValidity, EmptyRing
  <2>6. SlotWritten(old.slot, EmptyRing(history.ring.columns), {})
    BY <1>2, <2>3, <1>4, <1>17, <2>4, WrittenEffect DEF TypeOK
  <2>. QED  BY <1>4, <1>17, <1>14, <2>6 DEF CommitUnencoded
<1>. QED  BY <1>15, <1>16, <1>17

\* What a command buffer leaves in a texture
LEMMA UploadedTyped ==
    ASSUME NEW frame \in FrameRecords, NEW ok \in BOOLEAN,
           frame.slot \in 1 .. BufferCount, slots \in [1 .. BufferCount -> SlotStates],
           texels \in Seq(Textures), frame.texture \in DOMAIN texels,
           Len(slots[frame.slot].staging) >= Len(frame.uploads)
    PROVE  /\ UploadedTexture(frame, ok) \in Textures
           /\ DOMAIN UploadedTexture(frame, ok) = DOMAIN texels[frame.texture]
<1>. DEFINE before == texels[frame.texture]
            staging == slots[frame.slot].staging
            after == UploadedTexture(frame, ok)
<1>1. frame.uploads \in Seq(Nat) /\ staging \in Seq(Texels)
  BY FieldsTyped, SlotTyped
<1>2. before \in Textures
  BY ElementOfSeq, LenProperties
<1>3. PICK n \in Nat : before \in [0 .. n - 1 -> Texels]
  BY <1>2 DEF Textures
<1>4. DOMAIN before = 0 .. n - 1
  BY <1>3
<1>5. ASSUME NEW c \in 0 .. n - 1, c \in ColumnsOf(frame.uploads)
      PROVE  staging[LastOf(frame.uploads, c)] \in Texels
  <2>1. LastOf(frame.uploads, c) \in DOMAIN frame.uploads
    BY <1>1, <1>5, LastUpload
  <2>2. Len(frame.uploads) \in Nat /\ DOMAIN frame.uploads = 1 .. Len(frame.uploads)
        /\ Len(staging) \in Nat
    BY <1>1, LenProperties
  <2>3. LastOf(frame.uploads, c) \in 1 .. Len(staging)
    BY <2>1, <2>2
  <2>. QED  BY <1>1, <2>3, ElementOfSeq
<1>7. after = [c \in DOMAIN before |->
                  IF c \notin ColumnsOf(frame.uploads) THEN before[c]
                  ELSE IF ok THEN staging[LastOf(frame.uploads, c)] ELSE BlankTexel]
  BY DEF UploadedTexture
<1>8. \A c \in 0 .. n - 1 : before[c] \in Texels
  BY <1>3
<1>. HIDE DEF before, staging, after
<1>9. after \in [0 .. n - 1 -> Texels]
  BY <1>4, <1>5, <1>7, <1>8 DEF BlankTexel, Texels
<1>. QED  BY <1>4, <1>9 DEF Textures, before, after

QueuedTextures ==
    \A f \in DOMAIN frames : frames[f].completion = "queued" => frames[f].texture \in DOMAIN texels

\* The newest texture is the one of the history, and of a frame that is ready
TexturesFollow ==
    /\ history.textureRevision = Len(texels) /\ Len(texels) > 0
    /\ callback.step = "prepared" => frames[building].texture = history.textureRevision

\* The GPU ran the command buffer of frame f
Ran(f, ok) ==
    /\ f \in DOMAIN frames /\ frames[f].completion = "queued"
    /\ FrameChanged(f)
    /\ frames'[f].succeeded = ok /\ frames'[f].completion = "ran" /\ frames'[f].uploads = <<>>
    /\ frames'[f].submission = frames[f].submission
    /\ frames'[f].slot = frames[f].slot /\ frames'[f].admission = frames[f].admission
    /\ frames'[f].epoch = frames[f].epoch /\ frames'[f].texture = frames[f].texture
    /\ frames'[f].transaction = frames[f].transaction
    /\ frames'[f].presentation = frames[f].presentation
    /\ texels' \in Seq(Textures) /\ DOMAIN texels' = DOMAIN texels /\ Len(texels') = Len(texels)
    /\ frames[f].texture \in DOMAIN texels
    /\ texels'[frames[f].texture] = UploadedTexture(frames[f], ok)
    /\ DOMAIN UploadedTexture(frames[f], ok) = DOMAIN texels[frames[f].texture]
    /\ \A t \in DOMAIN texels : t # frames[f].texture => texels'[t] = texels[t]
    /\ screen' = IF ok THEN Drawn(slots[frames[f].slot], UploadedTexture(frames[f], ok)) ELSE screen
    /\ queue # <<>> /\ f = queue[1] /\ queue' = Tail(queue) /\ queue' \in Seq(Nat)
    /\ Len(queue) \in Nat \ {0} /\ DOMAIN queue = 1 .. Len(queue)
    /\ DOMAIN queue' = 1 .. Len(queue) - 1 /\ \A i \in 1 .. Len(queue) - 1 : queue'[i] = queue[i + 1]
    /\ UNCHANGED <<owner, callback, shared, telemetry, resets>>

LEMMA GpuRunsEffect ==
    ASSUME TypeOK, SlotsHeld, QueueInOrder, StagingMatches, QueuedTextures, GpuRuns
    PROVE  \E f \in DOMAIN frames, ok \in BOOLEAN : Ran(f, ok)
<1>. DEFINE f == Head(queue)
<1>1. queue # <<>> /\ queue' = Tail(queue) /\ UNCHANGED <<owner, callback, shared, telemetry, resets>>
  BY DEF GpuRuns
<1>2. PICK ok \in BOOLEAN :
        /\ texels' = [texels EXCEPT ![frames[f].texture] = UploadedTexture(frames[f], ok)]
        /\ screen' = IF ok THEN Drawn(slots[frames[f].slot], UploadedTexture(frames[f], ok))
                     ELSE screen
        /\ frames' = [frames EXCEPT ![f].succeeded = ok, ![f].completion = "ran",
                                    ![f].uploads = <<>>]
  BY DEF GpuRuns
<1>3. queue \in Seq(Nat) /\ texels \in Seq(Textures) /\ slots \in [1 .. BufferCount -> SlotStates]
  BY DEF TypeOK, SharedOK
<1>4. /\ f = queue[1] /\ Len(queue) \in Nat \ {0} /\ DOMAIN queue = 1 .. Len(queue)
      /\ queue' \in Seq(Nat) /\ DOMAIN queue' = 1 .. Len(queue) - 1
      /\ \A i \in 1 .. Len(queue) - 1 : queue'[i] = queue[i + 1]
  BY <1>1, <1>3, EmptySeq, LenProperties, HeadTailProperties
<1>5. f \in DOMAIN frames /\ frames[f].completion = "queued"
  BY <1>4 DEF QueueInOrder
<1>. HIDE DEF f
<1>6. /\ frames[f] \in FrameRecords /\ frames[f].slot \in 1 .. BufferCount
      /\ Len(slots[frames[f].slot].staging) >= Len(frames[f].uploads)
      /\ frames[f].texture \in DOMAIN texels
  BY <1>5, FramesTyped DEF TypeOK, SlotsHeld, Holds, StagingMatches, QueuedTextures
<1>7. /\ UploadedTexture(frames[f], ok) \in Textures
      /\ DOMAIN UploadedTexture(frames[f], ok) = DOMAIN texels[frames[f].texture]
  BY <1>3, <1>6, UploadedTyped
<1>. DEFINE u == UploadedTexture(frames[f], ok)
<1>. HIDE DEF u
<1>8. /\ texels' \in Seq(Textures) /\ DOMAIN texels' = DOMAIN texels /\ Len(texels') = Len(texels)
      /\ texels'[frames[f].texture] = u
      /\ \A t \in DOMAIN texels : t # frames[f].texture => texels'[t] = texels[t]
  BY <1>2, <1>7, <1>3, <1>6, Replaced DEF u
<1>. DEFINE old == frames[f]
            a == [old EXCEPT !.succeeded = ok]
            b == [a EXCEPT !.completion = "ran"]
            r == [b EXCEPT !.uploads = <<>>]
<1>9. frames' = [frames EXCEPT ![f] = r]
  BY <1>2, <1>5
<1>10. r \in FrameRecords
  <2>1. a \in FrameRecords
    BY Zenon, <1>6 DEF FrameRecords
  <2>. HIDE DEF a
  <2>2. "ran" \in CompletionStages /\ <<>> \in Seq(Nat)
    BY DEF CompletionStages
  <2>3. b \in FrameRecords
    BY Zenon, <2>1, <2>2 DEF FrameRecords
  <2>. HIDE DEF b
  <2>. QED  BY Zenon, <2>2, <2>3 DEF FrameRecords
<1>. HIDE DEF r
<1>12. FrameChanged(f) /\ frames'[f] = r
  BY <1>5, <1>9, <1>10, FrameSet DEF FrameChanged, TypeOK
<1>13. Ran(f, ok)
  BY <1>1, <1>2, <1>4, <1>5, <1>6, <1>7, <1>8, <1>12 DEF Ran, u, FrameRecords
<1>. QED  BY <1>5, <1>13

(***************************************************************************)
(* Every step as its effect                                                *)
(***************************************************************************)
HistoryMayClear == history' = history \/ history' = ClearedHistory(history)

Begins ==
    /\ callback = Idle /\ active
    /\ TelemetryAdvanced /\ resets' = Len(telemetry')
    /\ telemetry'[Len(telemetry')].callbacks =
          IF Len(telemetry') = epoch THEN telemetry[epoch].callbacks + 1 ELSE 1
    /\ callback' = [step |-> "resolved", deferred |-> gate.inFlight,
                    sequence |-> telemetry'[Len(telemetry')].callbacks, drained |-> 0]
    /\ \/ /\ gate.inFlight
          /\ UNCHANGED <<gate, pending, history>>
       \/ /\ ~gate.inFlight
          /\ gate' = [gate EXCEPT !.completed = 0]
          /\ pending' = [pending EXCEPT !.upload = NoUpload]
          /\ \/ /\ history' = history
                /\ Resolution(pending.upload, gate, history.revision,
                              history.textureRevision) # "clearHistory"
             \/ /\ history' = ClearedHistory(history)
                /\ Resolution(pending.upload, gate, history.revision,
                              history.textureRevision) = "clearHistory"
    /\ UNCHANGED <<active, settings, slots, frames, gpu, stream, changes, budget>>
Acquires(b) ==
    /\ callback.step = "resolved" /\ callback' = [callback EXCEPT !.step = "acquired"]
    /\ slots[b].admission % 2 = 0 /\ SlotChanged(b)
    /\ slots'[b].admission = slots[b].admission + 1 /\ slots'[b].staging = <<>>
    /\ FrameAdded(NewFrame(b))
    /\ UNCHANGED <<owner, gate, gpu, telemetry, resets>>
Skips(e) ==
    /\ TelemetryChanged(e) /\ SamePresented(e) /\ SameSamples(e)
    /\ telemetry'[e].skipped = telemetry[e].skipped + 1
Drops ==
    /\ callback.step = "resolved" /\ callback' = Idle
    /\ \E r : FrameAdded(r) /\ FreshFrame(r, 0) /\ r.submission.outcome = "skipped"
    /\ Skips(epoch)
    /\ UNCHANGED <<owner, shared, gpu, resets>>
Abandons ==
    /\ callback.step \in AbandonSteps /\ Building /\ callback' = Idle
    /\ FrameChanged(building) /\ SameWork(building)
    /\ frames'[building].completion = "none" /\ frames'[building].presentation = "none"
    /\ frames'[building].submission = Skipped(frames[building].submission)
    /\ SlotReleased(building) /\ slots' \in [1 .. BufferCount -> SlotStates]
    /\ Skips(epoch)
    /\ history' = IF frames[building].uploads # <<>> THEN ClearedHistory(history) ELSE history
    /\ UNCHANGED <<active, pending, settings, gate, gpu, resets, stream, changes, budget>>
StartsDrain ==
    /\ callback.step = "acquired" /\ ~callback.deferred
    /\ callback' = [callback EXCEPT !.step = "draining"]
    /\ HistoryMayClear
    /\ settings' = [settings EXCEPT !.clear = FALSE]
    /\ UNCHANGED <<active, pending, shared, frames, gpu, telemetry, resets, stream, changes,
                   budget>>
DrainsMarker ==
    /\ DrainTurn(NextColumn(stream, 1, FALSE)) /\ TurnStays
    /\ UploadsPrepared(building, <<>>, <<>>)
    /\ history' = ClearedHistory(history) /\ texels' = texels
DrainsColumn ==
    \E advance \in Nat, change, allocates \in BOOLEAN :
        LET column == NextColumn(stream, advance, change)
        IN  TurnWithColumn(column, EnsuredHistory(column, allocates))
Prepares ==
    /\ \/ callback.step = "acquired" /\ callback.deferred
       \/ callback.step \in {"draining", "drained"}
    /\ Building /\ callback' = [callback EXCEPT !.step = "prepared"]
    /\ FrameChanged(building)
    /\ frames'[building].texture = history.textureRevision
    /\ frames'[building].uploads = frames[building].uploads
    /\ frames'[building].submission = frames[building].submission
    /\ frames'[building].slot = frames[building].slot
    /\ frames'[building].admission = frames[building].admission
    /\ frames'[building].epoch = frames[building].epoch
    /\ frames'[building].transaction = frames[building].transaction
    /\ frames'[building].succeeded = frames[building].succeeded
    /\ frames'[building].completion = frames[building].completion
    /\ frames'[building].presentation = frames[building].presentation
    /\ SlotWritten(frames[building].slot, history.ring, FrameValidity)
    /\ FrameValidity \subseteq history.ring.valid
    /\ UNCHANGED <<owner, gate, gpu, telemetry, resets>>

\* A step of the completed handler that changes the frame's stage alone
Handles(f, from, to) ==
    /\ f \in DOMAIN frames /\ frames[f].completion = from
    /\ FrameChanged(f) /\ SameWork(f)
    /\ frames'[f].completion = to /\ frames'[f].presentation = frames[f].presentation
    /\ frames'[f].submission = frames[f].submission
    /\ UNCHANGED <<owner, callback, gpu, telemetry, resets>>
Publishes(f) ==
    /\ Handles(f, "ran", "published") /\ frames[f].transaction # 0
    /\ gate' = ResultPublished(gate, frames[f].transaction, frames[f].succeeded)
    /\ slots' = slots
Opens(f) ==
    Handles(f, "published", "opened") /\ gate' = Opened(gate) /\ slots' = slots
Releases(f) ==
    /\ \/ Handles(f, "opened", "released")
       \/ Handles(f, "ran", "released") /\ frames[f].transaction = 0
    /\ SlotReleased(f) /\ slots' \in [1 .. BufferCount -> SlotStates] /\ gate' = gate

\* The steps of the two callbacks that leave timing and outcome
TimesGpu(f) ==
    /\ frames[f].completion = "released"
    /\ \E time \in Nat : frames'[f].submission = WithGpuCompletion(frames[f].submission, time)
    /\ frames'[f].completion = IF MayEmit(frames'[f].submission) THEN "emits" ELSE AfterTiming(f)
    /\ frames'[f].presentation = frames[f].presentation
    /\ telemetry' = telemetry
Emits(f) ==
    /\ frames'[f].submission = Emitted(frames[f].submission)
    /\ \/ /\ frames[f].completion = "emits" /\ frames'[f].completion = AfterTiming(f)
          /\ frames'[f].presentation = frames[f].presentation
       \/ /\ frames[f].presentation = "emits" /\ frames'[f].presentation = "timed"
          /\ frames'[f].completion = frames[f].completion
    /\ TelemetryChanged(frames[f].epoch) /\ SamePresented(frames[f].epoch)
    /\ telemetry'[frames[f].epoch].skipped = telemetry[frames[f].epoch].skipped
    /\ telemetry'[frames[f].epoch].samples = telemetry[frames[f].epoch].samples + 1
    /\ telemetry'[frames[f].epoch].latency =
          WithSample(telemetry[frames[f].epoch].latency, frames'[f].submission.sample,
                     budget.capacity)
TimesPresentation(f) ==
    /\ frames[f].presentation = "none" /\ frames[f].completion \notin {"none", "queued"}
    /\ \E time \in Nat : frames'[f].submission = WithPresentation(frames[f].submission, time)
    /\ frames'[f].presentation = IF MayEmit(frames'[f].submission) THEN "emits" ELSE "timed"
    /\ frames'[f].completion = frames[f].completion
    /\ telemetry' = telemetry
\* A failed frame, or one that was not shown
SkipsFrame(f) ==
    /\ frames'[f].submission = Skipped(frames[f].submission)
    /\ \/ /\ frames[f].completion = "failed" /\ frames'[f].completion = "done"
          /\ frames'[f].presentation = frames[f].presentation
       \/ /\ frames[f].presentation = "timed" /\ frames'[f].presentation = "done"
          /\ frames[f].submission.presented = 0
          /\ frames'[f].completion = frames[f].completion
    /\ IF frames[f].submission.outcome = "unknown" THEN Skips(frames[f].epoch)
       ELSE telemetry' = telemetry
ShowsFrame(f) ==
    /\ frames[f].presentation = "timed" /\ frames'[f].presentation = "done"
    /\ frames'[f].completion = frames[f].completion
    /\ frames[f].submission.presented # 0
    /\ frames'[f].submission = Presented(frames[f].submission)
    /\ TelemetryChanged(frames[f].epoch) /\ SameSamples(frames[f].epoch)
    /\ telemetry'[frames[f].epoch].skipped =
          IF UpgradedSkipped(frames[f].submission) THEN telemetry[frames[f].epoch].skipped - 1
          ELSE telemetry[frames[f].epoch].skipped
    /\ telemetry'[frames[f].epoch].presented = telemetry[frames[f].epoch].presented + 1
    /\ telemetry'[frames[f].epoch].shown =
          WithPresentedFrame(telemetry[frames[f].epoch].shown, frames[f].submission.sequence,
                             frames[f].submission.presented, budget.capacity)
TimesFrame(f) ==
    /\ LateCallback(f)
    /\ telemetry' = telemetry \/ TelemetryChanged(frames[f].epoch)
    /\ TimesGpu(f) \/ Emits(f) \/ TimesPresentation(f) \/ SkipsFrame(f) \/ ShowsFrame(f)

\* Between two display callbacks
Interlude ==
    /\ callback = Idle
    /\ UNCHANGED <<callback, pending, shared, frames, gpu, stream, budget>>
    /\ TelemetryAdvanced /\ resets' \in Nat /\ active' \in BOOLEAN
    /\ settings' \in [columns : ColumnCounts, clear : BOOLEAN]
    /\ HistoryMayClear

StepEffect ==
    \/ Begins \/ Drops \/ Abandons \/ StartsDrain \/ DrainsMarker \/ DrainsColumn \/ Prepares
    \/ CommitUploads \/ CommitDrawing \/ CommitUnencoded \/ Interlude
    \/ \E b \in 1 .. BufferCount : Acquires(b)
    \/ \E f \in DOMAIN frames, ok \in BOOLEAN : Ran(f, ok)
    \/ \E f \in DOMAIN frames : Publishes(f) \/ Opens(f) \/ Releases(f) \/ TimesFrame(f)
    \/ UNCHANGED vars

TypeInv ==
    /\ TypeOK /\ BuildingFrame /\ SlotsHeld /\ QueueInOrder /\ StagingMatches /\ QueuedTextures
    /\ TexturesFollow /\ PresentedLast /\ Epochs /\ HistoriesSorted

LEMMA HandlerEffect ==
    ASSUME TypeOK, NEW f \in DOMAIN frames, NEW from, NEW to \in CompletionStages,
           Handler(f, from, to)
    PROVE  Handles(f, from, to)
<1>. DEFINE r == [frames[f] EXCEPT !.completion = to]
<1>1. frames[f] \in FrameRecords
  BY FramesTyped DEF TypeOK
<1>2. r \in FrameRecords
  BY Zenon, <1>1 DEF FrameRecords
<1>3. /\ r.completion = to /\ r.presentation = frames[f].presentation
      /\ r.submission = frames[f].submission /\ r.slot = frames[f].slot
      /\ r.admission = frames[f].admission /\ r.epoch = frames[f].epoch
      /\ r.texture = frames[f].texture /\ r.uploads = frames[f].uploads
      /\ r.transaction = frames[f].transaction /\ r.succeeded = frames[f].succeeded
  BY <1>1 DEF FrameRecords
<1>4. frames' = [frames EXCEPT ![f] = r]
  BY DEF Handler
<1>. HIDE DEF r
<1>5. FrameChanged(f) /\ frames'[f] = r
  BY <1>2, <1>4, FrameSet DEF FrameChanged, TypeOK
<1>. QED  BY <1>3, <1>5 DEF Handles, SameWork, Handler

LEMMA HandlerSteps ==
    ASSUME TypeOK, NEW f \in DOMAIN frames
    PROVE  /\ PublishUpload(f) => Publishes(f)
           /\ OpenGate(f) => Opens(f)
           /\ ReleaseSlot(f) => Releases(f)
BY PublishUploadEffect, HandlerEffect, OpenGateEffect, ReleaseSlotEffect, ReleasedEffect DEF
   CompletionStages, Publishes, Opens, Releases

LEMMA RecordSkippedEffect ==
    ASSUME SharedOK, NEW f, frames[f].epoch \in DOMAIN telemetry, RecordSkipped(f)
    PROVE  IF frames[f].submission.outcome = "unknown" THEN Skips(frames[f].epoch)
           ELSE telemetry' = telemetry
BY SkipEffect DEF RecordSkipped, Skips

LEMMA TimingSteps ==
    ASSUME TypeOK, PresentedLast, Epochs, HistoriesSorted, NEW f \in DOMAIN frames, TimingCallback(f)
    PROVE  TimesFrame(f)
<1>1. LateCallback(f)
  BY TimingCallbackIsLate
<1>2. frames[f].epoch \in DOMAIN telemetry /\ frames[f] \in FrameRecords
  BY FramesTyped DEF Epochs, TypeOK
<1>3. frames'[f].submission.sample \in SampleRecords /\ frames[f].submission \in Submissions
  BY <1>1, ElementOfSeq, LenProperties, FieldsTyped, <1>2 DEF LateCallback, FrameChanged,
     Submissions
<1>4. CASE RecordGpuCompletion(f)
  BY <1>1, <1>4, RecordGpuCompletionEffect DEF TimesFrame, TimesGpu, TypeOK
<1>5. CASE EmitFromCompletion(f) \/ EmitFromPresentation(f)
  BY <1>5, EmitFromCompletionEffect, EmitFromPresentationEffect, <1>2, <1>3, SampleEffect, <1>1 DEF
     TypeOK, TimesFrame, Emits
<1>6. CASE RecordPresentation(f)
  BY <1>1, <1>6, RendererAssumption, RecordPresentationEffect
     DEF TimesFrame, TimesPresentation, TypeOK
<1>7. ASSUME RecordSkipped(f),
             frames'[f].submission = Skipped(frames[f].submission),
             \/ /\ frames[f].completion = "failed" /\ frames'[f].completion = "done"
                /\ frames'[f].presentation = frames[f].presentation
             \/ /\ frames[f].presentation = "timed" /\ frames'[f].presentation = "done"
                /\ frames[f].submission.presented = 0
                /\ frames'[f].completion = frames[f].completion
      PROVE  TimesFrame(f)
  BY <1>2, <1>7, RecordSkippedEffect, <1>1 DEF TypeOK, Skips, TimesFrame, SkipsFrame
<1>8. CASE FailedFrame(f)
  BY <1>7, <1>8, FailedFrameEffect DEF TypeOK
<1>9. CASE FinishPresentation(f)
  BY <1>9, FinishPresentationEffect, <1>7, <1>2, <1>3, PresentedEffect, <1>1 DEF TypeOK, TimesFrame,
     ShowsFrame
<1>. QED  BY <1>4, <1>5, <1>6, <1>8, <1>9 DEF TimingCallback

LEMMA InterludeSteps ==
    ASSUME TypeOK, ResetTelemetry \/ Deactivate \/ Activate \/ ChangeDuration
    PROVE  Interlude
<1>1. /\ resets \in Nat /\ active \in BOOLEAN /\ epoch + 1 \in Nat /\ telemetry \in Seq(Telemetries)
      /\ settings \in [columns : ColumnCounts, clear : BOOLEAN]
  <2>1. epoch \in Nat
    BY EpochTyped DEF TypeOK
  <2>. QED
    BY <2>1 DEF TypeOK, OwnerOK, SharedOK
<1>2. /\ callback = Idle
      /\ UNCHANGED <<callback, pending, shared, frames, gpu, stream, budget>>
  BY DEF ResetTelemetry, Deactivate, Activate, ChangeDuration, Between
<1>3. CASE ResetTelemetry
  <2>1. TelemetryAdvanced
    BY <1>3, TelemetryStays, TelemetryBegins DEF ResetTelemetry, TypeOK
  <2>. QED  BY <1>1, <1>2, <1>3, <2>1 DEF ResetTelemetry, Interlude, HistoryMayClear
<1>4. CASE Deactivate
  <2>1. TelemetryAdvanced /\ telemetry' = AppliedTelemetry
    BY <1>4, AppliedAdvances DEF Deactivate, TypeOK
  <2>2. resets' = Len(telemetry') /\ Len(telemetry') \in Nat
    BY <1>4, <2>1 DEF Deactivate, TelemetryAdvanced
  <2>. QED  BY <1>1, <1>2, <1>4, <2>1, <2>2 DEF Deactivate, Interlude, HistoryMayClear
<1>5. CASE Activate
  <2>1. TelemetryAdvanced
    BY <1>5, TelemetryBegins DEF Activate, TypeOK
  <2>2. settings' \in [columns : ColumnCounts, clear : BOOLEAN]
    BY <1>1, <1>5 DEF Activate
  <2>. QED  BY <1>1, <1>2, <1>5, <2>1, <2>2 DEF Activate, Interlude, HistoryMayClear
<1>6. CASE ChangeDuration
  <2>1. TelemetryAdvanced
    BY <1>6, TelemetryStays DEF ChangeDuration, TypeOK
  <2>2. settings' \in [columns : ColumnCounts, clear : BOOLEAN]
    BY <1>1, <1>6 DEF ChangeDuration
  <2>. QED  BY <1>1, <1>2, <1>6, <2>1, <2>2 DEF ChangeDuration, Interlude, HistoryMayClear
<1>. QED  BY <1>3, <1>4, <1>5, <1>6

LEMMA StepEffects ==
    ASSUME TypeInv, [Next]_vars
    PROVE  StepEffect
<1>1. /\ TypeOK /\ BuildingFrame /\ SlotsHeld /\ QueueInOrder /\ StagingMatches
      /\ QueuedTextures /\ PresentedLast /\ Epochs /\ HistoriesSorted
  BY DEF TypeInv
<1>2. ASSUME BeginCallback  PROVE Begins
  BY <1>1, <1>2, BeginCallbackEffect DEF Begins
<1>3. ASSUME AcquireSlot  PROVE \E b \in 1 .. BufferCount : Acquires(b)
  BY <1>1, <1>3, AcquireSlotEffect DEF Acquires
<1>4. ASSUME DropFrame  PROVE Drops
  BY <1>1, <1>4, DropFrameEffect DEF Drops, Skips
<1>5. ASSUME AbandonFrame  PROVE Abandons
  BY <1>1, <1>5, AbandonFrameEffect DEF Abandons, Skips
<1>6. ASSUME BeginDrain  PROVE StartsDrain
  BY <1>1, <1>6, BeginDrainEffect DEF StartsDrain, HistoryMayClear
<1>7. ASSUME DrainMarker  PROVE DrainsMarker
  BY <1>1, <1>7, DrainMarkerEffect DEF DrainsMarker
<1>8. ASSUME DrainColumn  PROVE DrainsColumn
  BY <1>1, <1>8, DrainColumnEffect DEF DrainsColumn
<1>9. ASSUME PrepareFrame  PROVE Prepares
  BY <1>1, <1>9, PrepareFrameEffect DEF Prepares
<1>10. ASSUME CommitFrame  PROVE CommitUploads \/ CommitDrawing \/ CommitUnencoded
  BY <1>1, <1>10, CommitFrameEffect
<1>11. ASSUME GpuRuns  PROVE \E f \in DOMAIN frames, ok \in BOOLEAN : Ran(f, ok)
  BY <1>1, <1>11, GpuRunsEffect
<1>12. ASSUME NEW f \in DOMAIN frames, PublishUpload(f) \/ OpenGate(f) \/ ReleaseSlot(f)
       PROVE  Publishes(f) \/ Opens(f) \/ Releases(f)
  BY <1>1, <1>12, HandlerSteps
<1>13. ASSUME NEW f \in DOMAIN frames, TimingCallback(f)  PROVE TimesFrame(f)
  BY <1>1, <1>13, TimingSteps
<1>14. ASSUME ResetTelemetry \/ Deactivate \/ Activate \/ ChangeDuration  PROVE Interlude
  BY <1>1, <1>14, InterludeSteps
<1>15. CASE Next
  <2>1. \/ BeginCallback \/ AcquireSlot \/ DropFrame \/ AbandonFrame
        \/ BeginDrain \/ DrainMarker \/ DrainColumn \/ PrepareFrame
        \/ CommitFrame \/ GpuRuns
        \/ \E f \in DOMAIN frames :
              PublishUpload(f) \/ OpenGate(f) \/ ReleaseSlot(f) \/ TimingCallback(f)
        \/ ResetTelemetry \/ Deactivate \/ Activate \/ ChangeDuration
        \/ UNCHANGED vars
    BY <1>15 DEF Next, Finished, TimingCallback
  <2>. QED
    BY <1>2, <1>3, <1>4, <1>5, <1>6, <1>7, <1>8, <1>9, <1>10, <1>11, <1>12, <1>13, <1>14, <2>1
       DEF StepEffect
<1>. QED  BY <1>15 DEF StepEffect

(***************************************************************************)
(* Type correctness of the next state                                      *)
(***************************************************************************)
LEMMA HistoryClears ==
    ASSUME TypeOK, HistoryMayClear
    PROVE  history' \in Histories
BY HistoriesTyped, 0 \in Nat DEF TypeOK, OwnerOK, HistoryMayClear

LEMMA StepTyped ==
    ASSUME OwnerOK, NEW step \in Steps, callback' = [callback EXCEPT !.step = step]
    PROVE  /\ callback' \in [step : Steps, deferred : BOOLEAN, sequence : Nat, drained : Nat]
           /\ callback'.step = step /\ callback'.deferred = callback.deferred
           /\ callback'.sequence = callback.sequence
BY DEF OwnerOK

LEMMA IdleTyped ==
    Idle \in [step : Steps, deferred : BOOLEAN, sequence : Nat, drained : Nat]
    /\ Idle.step = "idle" /\ Idle.deferred = FALSE
BY DEF Idle, Steps

LEMMA OwnerTyped ==
    ASSUME TypeOK, BuildingFrame, SlotsHeld, StepEffect
    PROVE  OwnerOK'
<1>1. OwnerOK
  BY DEF TypeOK
<1>2. /\ budget \in Budgets /\ active \in BOOLEAN
      /\ callback \in [step : Steps, deferred : BOOLEAN, sequence : Nat, drained : Nat]
      /\ history \in Histories
      /\ pending \in [upload : Uploads, transaction : Nat]
      /\ settings \in [columns : ColumnCounts, clear : BOOLEAN]
      /\ stream \in [sequence : Nat, slot : Nat, generation : Nat \ {0}]
      /\ resets \in Nat
  BY DEF TypeOK, OwnerOK
<1>3. {"idle", "resolved", "acquired", "draining", "drained", "prepared"} \subseteq Steps
  BY DEF Steps
<1>4. NoUpload \in Uploads
  BY DEF NoUpload, Uploads
<1>5. CASE Begins
  <2>1. /\ TelemetryAdvanced /\ resets' = Len(telemetry')
        /\ callback' = [step |-> "resolved", deferred |-> gate.inFlight,
                        sequence |-> telemetry'[Len(telemetry')].callbacks, drained |-> 0]
        /\ UNCHANGED <<active, settings, slots, frames, gpu, stream, changes, budget>>
    BY <1>5 DEF Begins
  <2>2. resets' \in Nat /\ Len(telemetry') \in DOMAIN telemetry'
    <3>. DEFINE now == Len(telemetry')
    <3>1. now \in {epoch, epoch + 1} /\ epoch \in Nat \ {0} /\ DOMAIN telemetry' = 1 .. now
          /\ resets' = now
      BY <2>1 DEF TelemetryAdvanced
    <3>. HIDE DEF now
    <3>2. now \in Nat /\ now \in 1 .. now
      BY <3>1
    <3>. QED  BY <3>1, <3>2 DEF now
  <2>6. HistoryMayClear
    BY <1>5 DEF Begins, HistoryMayClear
  <2>8. pending' \in [upload : Uploads, transaction : Nat]
    BY <1>2, <1>4, <1>5 DEF Begins
  <2>. QED
    BY <1>2, <2>1, <2>2, <1>3, ElementOfSeq, TelemetryTyped, <2>6, <2>8, HistoryClears DEF OwnerOK,
       TypeOK, SharedOK, TelemetryAdvanced
<1>6. CASE \E b \in 1 .. BufferCount : Acquires(b)
  BY <1>6, <1>1, <1>2, <1>3, StepTyped DEF Acquires, OwnerOK, owner
<1>7. CASE Drops
  BY <1>2, <1>7, IdleTyped DEF Drops, OwnerOK, owner
<1>8. CASE Abandons
  BY <1>8, <1>2, IdleTyped, HistoryClears DEF Abandons, HistoryMayClear, OwnerOK
<1>9. CASE StartsDrain
  BY <1>9, <1>2, <1>1, <1>3, StepTyped, HistoryClears DEF StartsDrain, OwnerOK
<1>10. CASE DrainsMarker
  BY <1>10, <1>2, HistoryClears DEF DrainsMarker, HistoryMayClear, DrainTurn, TurnStays, OwnerOK
<1>11. CASE DrainsColumn
  <2>1. PICK advance \in Nat, change \in BOOLEAN, allocates \in BOOLEAN :
           TurnWithColumn(NextColumn(stream, advance, change),
                          EnsuredHistory(NextColumn(stream, advance, change), allocates))
    BY <1>11 DEF DrainsColumn
  <2>. DEFINE column == NextColumn(stream, advance, change)
              h == EnsuredHistory(column, allocates)
  <2>2. h \in Histories
    BY EnsuredTyped
  <2>. HIDE DEF column, h
  <2>3. TurnWithColumn(column, h)
    BY <2>1 DEF column, h
  <2>4. DrainTurn(column) /\ TurnStays
    BY <2>3 DEF TurnWithColumn
  <2>5. /\ column \in [sequence : Nat, slot : Nat, generation : Nat \ {0}] /\ stream' = column
        /\ UNCHANGED <<active, pending, settings, resets, budget>> /\ Building
    BY <2>4 DEF DrainTurn
  <2>7. [h EXCEPT !.signature = ColumnSignature(column)] \in Histories
    BY <2>2, <2>5, HeldTyped DEF Histories
  <2>8. history' \in Histories
    <3>1. CASE TurnWithoutTexture(column, h)
      BY <2>2, <3>1 DEF TurnWithoutTexture
    <3>2. CASE TurnRefused(column, h)
      BY <2>7, <3>2 DEF TurnRefused
    <3>3. CASE TurnAppended(column, h)
      <4>. DEFINE ring == AppendColumn(h.ring, column.slot, column.sequence).ring
      <4>2. ring \in Rings
        BY <3>3, <2>2, <2>5, RingAppended DEF TurnAppended, Histories
      <4>3. history' = [h EXCEPT !.signature = ColumnSignature(column), !.ring = ring]
        BY <3>3 DEF TurnAppended
      <4>. HIDE DEF ring
      <4>4. [[h EXCEPT !.signature = ColumnSignature(column)] EXCEPT !.ring = ring] \in Histories
        BY Zenon, <2>7, <4>2 DEF Histories
      <4>. QED  BY <4>3, <4>4
    <3>. QED  BY <2>3, <3>1, <3>2, <3>3 DEF TurnWithColumn
  <2>. QED  BY <1>2, <2>5, <2>8, <2>4 DEF OwnerOK, TurnStays
<1>12. CASE Prepares
  BY <1>12, <1>1, <1>2, <1>3, StepTyped DEF Prepares, OwnerOK, owner
<1>13. CASE CommitUploads \/ CommitDrawing \/ CommitUnencoded
  <2>3. pending' \in [upload : Uploads, transaction : Nat]
    <3>1. CASE CommitUploads
      <4>2. ColumnsOf(frames[building].uploads) \in SUBSET Nat
        BY <3>1, BuildingTyped, FieldsTyped, ElementOfSeq, LenProperties DEF ColumnsOf,
           CommitUploads, Committed
      <4>3. pending.transaction + 1 \in Nat /\ history.revision \in Nat
            /\ history.textureRevision \in Nat
        BY <1>2 DEF Histories
      <4>. QED  BY <3>1, <4>2, <4>3 DEF CommitUploads, Uploads
    <3>2. CASE CommitDrawing \/ CommitUnencoded
      BY <1>2, <3>2 DEF CommitDrawing, CommitUnencoded
    <3>. QED  BY <1>13, <3>1, <3>2
  <2>. QED
    BY <1>2, <1>13, <2>3, IdleTyped, HistoryClears DEF OwnerOK, CommitUploads, CommitDrawing,
       CommitUnencoded, Committed, HistoryMayClear
<1>14. CASE Interlude
  BY <1>2, <1>14, HistoryClears DEF Interlude, OwnerOK
<1>15. CASE \/ \E f \in DOMAIN frames, ok \in BOOLEAN : Ran(f, ok)
            \/ \E f \in DOMAIN frames : Publishes(f) \/ Opens(f) \/ Releases(f) \/ TimesFrame(f)
            \/ UNCHANGED vars
  <2>1. UNCHANGED <<owner, callback, resets>>
    BY <1>15 DEF Ran, Publishes, Opens, Releases, Handles, TimesFrame, LateCallback, vars, owner
  <2>. QED  BY <1>2, <2>1 DEF OwnerOK, owner
<1>. QED
  BY <1>5, <1>6, <1>7, <1>8, <1>9, <1>10, <1>11, <1>12, <1>13, <1>14, <1>15 DEF StepEffect

LEMMA GateTyped ==
    ASSUME SharedOK, NEW n \in Nat, NEW ok \in BOOLEAN
    PROVE  LET Gates == [inFlight : BOOLEAN, transaction : Nat, completed : Nat, succeeded : BOOLEAN]
           IN  /\ [gate EXCEPT !.completed = 0] \in Gates
               /\ Begun(gate, n) \in Gates
               /\ ResultPublished(gate, n, ok) \in Gates
               /\ Opened(gate) \in Gates
BY DEF SharedOK, Begun, ResultPublished, Opened

LEMMA ColumnSteps ==
    ASSUME DrainsColumn
    PROVE  /\ \E uploads, rows : UploadsPrepared(building, uploads, rows)
           /\ callback.step = "draining" /\ Building /\ TurnStays
           /\ UNCHANGED <<active, pending, settings, gate, queue, screen, telemetry, resets, changes,
                          budget>>
<1>1. PICK advance \in Nat, change \in BOOLEAN, allocates \in BOOLEAN :
         TurnWithColumn(NextColumn(stream, advance, change),
                        EnsuredHistory(NextColumn(stream, advance, change), allocates))
  BY DEF DrainsColumn
<1>. DEFINE column == NextColumn(stream, advance, change)
            h == EnsuredHistory(column, allocates)
<1>. HIDE DEF column, h
<1>2. TurnWithColumn(column, h)
  BY <1>1 DEF column, h
<1>. QED  BY <1>2 DEF DrainTurn, TurnWithColumn, TurnWithoutTexture, TurnRefused, TurnAppended

LEMMA SharedTyped ==
    ASSUME TypeOK, BuildingFrame, SlotsHeld, StepEffect
    PROVE  SharedOK'
<1>. DEFINE Gates == [inFlight : BOOLEAN, transaction : Nat, completed : Nat, succeeded : BOOLEAN]
<1>1. /\ slots \in [1 .. BufferCount -> SlotStates] /\ gate \in Gates
      /\ frames \in Seq(FrameRecords) /\ queue \in Seq(Nat) /\ texels \in Seq(Textures)
      /\ telemetry \in Seq(Telemetries) /\ Len(telemetry) > 0
  BY DEF TypeOK, SharedOK
<1>2. frames' \in Seq(FrameRecords)
  <2>1. \/ frames' = frames
        \/ \E f : FrameChanged(f)
        \/ \E r : FrameAdded(r)
    <3>1. CASE DrainsColumn
      BY <3>1, ColumnSteps DEF UploadsPrepared
    <3>2. CASE \E b \in 1 .. BufferCount : Acquires(b)
      BY <3>2 DEF Acquires
    <3>3. CASE \/ \E f \in DOMAIN frames, ok \in BOOLEAN : Ran(f, ok)
               \/ \E f \in DOMAIN frames : Publishes(f) \/ Opens(f) \/ Releases(f) \/ TimesFrame(f)
      BY <3>3 DEF Ran, Publishes, Opens, Releases, Handles, TimesFrame, LateCallback
    <3>4. CASE \/ Begins \/ Drops \/ Abandons \/ StartsDrain \/ DrainsMarker \/ Prepares
               \/ CommitUploads \/ CommitDrawing \/ CommitUnencoded \/ Interlude \/ UNCHANGED vars
      BY <3>4 DEF Begins, Drops, Abandons, StartsDrain, DrainsMarker, UploadsPrepared, Prepares,
           CommitUploads, CommitDrawing, CommitUnencoded, Committed, Interlude, vars
    <3>. QED  BY <3>1, <3>2, <3>3, <3>4 DEF StepEffect
  <2>. QED  BY <1>1, <2>1 DEF FrameChanged, FrameAdded
<1>3. slots' \in [1 .. BufferCount -> SlotStates]
  <2>1. \/ slots' = slots
        \/ slots' \in [1 .. BufferCount -> SlotStates]
        \/ \E b : SlotChanged(b)
    <3>1. CASE DrainsColumn
      BY <3>1, ColumnSteps DEF UploadsPrepared
    <3>2. CASE \E b \in 1 .. BufferCount : Acquires(b)
      BY <3>2 DEF Acquires
    <3>3. CASE \/ \E f \in DOMAIN frames, ok \in BOOLEAN : Ran(f, ok)
               \/ \E f \in DOMAIN frames : Publishes(f) \/ Opens(f) \/ Releases(f) \/ TimesFrame(f)
      BY <3>3 DEF Ran, Publishes, Opens, Releases, Handles, TimesFrame, LateCallback, shared
    <3>4. CASE \/ Begins \/ Drops \/ Abandons \/ StartsDrain \/ DrainsMarker \/ Prepares
               \/ CommitUploads \/ CommitDrawing \/ CommitUnencoded \/ Interlude \/ UNCHANGED vars
      BY <3>4 DEF Begins, Drops, Abandons, StartsDrain, DrainsMarker, UploadsPrepared, Prepares,
           SlotWritten, CommitUploads, CommitDrawing, CommitUnencoded, Interlude, vars, shared
    <3>. QED  BY <3>1, <3>2, <3>3, <3>4 DEF StepEffect
  <2>. QED  BY <1>1, <2>1 DEF SlotChanged
<1>4. gate' \in Gates
  <2>1. pending.transaction + 1 \in Nat
    BY DEF TypeOK, OwnerOK
  <2>2. \A f \in DOMAIN frames : frames[f].transaction \in Nat /\ frames[f].succeeded \in BOOLEAN
    BY FramesTyped, FieldsTyped DEF TypeOK
  <2>3. \/ gate' = gate \/ gate' = [gate EXCEPT !.completed = 0]
        \/ gate' = Begun(gate, pending.transaction + 1) \/ gate' = Opened(gate)
        \/ \E f \in DOMAIN frames :
              gate' = ResultPublished(gate, frames[f].transaction, frames[f].succeeded)
    BY DEF StepEffect, Begins, Acquires, Drops, Abandons, StartsDrain, DrainsMarker, DrainsColumn,
           TurnWithColumn, DrainTurn, Prepares, CommitUploads, CommitDrawing, CommitUnencoded,
           Ran, Publishes, Opens, Releases, TimesFrame, LateCallback, Interlude, vars, shared
  <2>4. SharedOK
    BY DEF TypeOK
  <2>5. \A n \in Nat, ok \in BOOLEAN :
           /\ [gate EXCEPT !.completed = 0] \in Gates /\ Begun(gate, n) \in Gates
           /\ ResultPublished(gate, n, ok) \in Gates /\ Opened(gate) \in Gates
    BY <2>4, GateTyped
  <2>. HIDE DEF Gates
  <2>6. [gate EXCEPT !.completed = 0] \in Gates /\ Opened(gate) \in Gates
    BY <2>5, 0 \in Nat, TRUE \in BOOLEAN
  <2>7. Begun(gate, pending.transaction + 1) \in Gates
    BY <2>1, <2>5
  <2>8. \A f \in DOMAIN frames :
           ResultPublished(gate, frames[f].transaction, frames[f].succeeded) \in Gates
    BY <2>2, <2>5
  <2>. QED  BY <1>1, <2>3, <2>6, <2>7, <2>8 DEF Gates
<1>5. queue' \in Seq(Nat)
  <2>1. CASE CommitUploads \/ CommitDrawing \/ CommitUnencoded
    <3>1. queue' = Append(queue, building) /\ Building
      BY <2>1 DEF CommitUploads, CommitDrawing, CommitUnencoded, Committed
    <3>2. building \in Nat
      BY <3>1, BuildingTyped
    <3>. QED  BY <1>1, <3>1, <3>2, Appended
  <2>2. CASE ~(CommitUploads \/ CommitDrawing \/ CommitUnencoded)
    <3>1. queue' = queue \/ queue' \in Seq(Nat)
      BY <2>2 DEF StepEffect, Begins, Acquires, Drops, Abandons, StartsDrain, DrainsMarker,
           DrainsColumn, TurnWithColumn, DrainTurn, Prepares, Ran, Publishes,
           Opens, Releases, Handles, TimesFrame, LateCallback, Interlude, vars, gpu
    <3>. QED  BY <1>1, <3>1
  <2>. QED  BY <2>1, <2>2
<1>6. texels' \in Seq(Textures)
  <2>1. CASE DrainsColumn
    <3>1. PICK advance \in Nat, change \in BOOLEAN, allocates \in BOOLEAN :
             TurnWithColumn(NextColumn(stream, advance, change),
                            EnsuredHistory(NextColumn(stream, advance, change), allocates))
      BY <2>1 DEF DrainsColumn
    <3>. DEFINE h == EnsuredHistory(NextColumn(stream, advance, change), allocates)
    <3>2. h \in Histories
      BY EnsuredTyped
    <3>3. texels' = texels \/ texels' = Append(texels, BlankTexture(h.texture))
      BY <3>1 DEF TurnWithColumn
    <3>. HIDE DEF h
    <3>4. h.texture \in Nat
      BY <3>2 DEF Histories
    <3>5. BlankTexture(h.texture) \in [0 .. h.texture - 1 -> Texels]
      BY DEF BlankTexture, BlankTexel, Texels
    <3>6. BlankTexture(h.texture) \in Textures
      BY <3>4, <3>5 DEF Textures
    <3>. DEFINE blank == BlankTexture(h.texture)
    <3>7. blank \in Textures /\ (texels' = texels \/ texels' = Append(texels, blank))
      BY <3>3, <3>6
    <3>. HIDE DEF blank
    <3>8. texels \in Seq(Textures)
      BY <1>1
    <3>9. Append(texels, blank) \in Seq(Textures)
      BY <3>7, <3>8, Appended
    <3>. QED  BY <3>7, <3>8, <3>9
  <2>2. CASE ~DrainsColumn
    <3>1. texels' = texels \/ texels' \in Seq(Textures)
      BY <2>2 DEF StepEffect, Begins, Acquires, Drops, Abandons, StartsDrain, DrainsMarker,
           Prepares, CommitUploads, CommitDrawing, CommitUnencoded, Committed, Ran, Publishes,
           Opens, Releases, Handles, TimesFrame, LateCallback, Interlude, vars, gpu
    <3>. QED  BY <1>1, <3>1
  <2>. QED  BY <2>1, <2>2
<1>7. telemetry' \in Seq(Telemetries) /\ Len(telemetry') > 0
  <2>1. \/ telemetry' = telemetry \/ TelemetryAdvanced \/ \E e : TelemetryChanged(e)
    BY DEF StepEffect, Begins, Acquires, Drops, Abandons, Skips, StartsDrain, DrainsMarker,
           DrainsColumn, TurnWithColumn, DrainTurn, Prepares, CommitUploads, CommitDrawing,
           CommitUnencoded, Committed, Ran, Publishes, Opens, Releases, Handles, TimesFrame,
           Interlude, vars
  <2>2. CASE TelemetryAdvanced
    <3>. DEFINE now == Len(telemetry')
    <3>1. now \in {epoch, epoch + 1} /\ epoch \in Nat \ {0} /\ telemetry' \in Seq(Telemetries)
      BY <2>2 DEF TelemetryAdvanced
    <3>. HIDE DEF now
    <3>2. now > 0
      BY <3>1
    <3>. QED  BY <3>1, <3>2 DEF now
  <2>3. CASE \E e : TelemetryChanged(e)
    BY <1>1, <2>3 DEF TelemetryChanged
  <2>. QED  BY <1>1, <2>1, <2>2, <2>3
<1>. QED  BY <1>2, <1>3, <1>4, <1>5, <1>6, <1>7 DEF SharedOK

LEMMA NextTyped ==
    ASSUME TypeOK, BuildingFrame, SlotsHeld, StepEffect
    PROVE  TypeOK'
BY OwnerTyped, SharedTyped DEF TypeOK

(***************************************************************************)
(* The frame being built stays the newest, and unfinished                  *)
(***************************************************************************)
LEMMA BuildingKept ==
    ASSUME TypeInv, StepEffect
    PROVE  BuildingFrame'
<1>1. /\ TypeOK /\ BuildingFrame /\ SlotsHeld
      /\ Len(frames) \in Nat /\ DOMAIN frames = 1 .. Len(frames)
      /\ frames # <<>> <=> Len(frames) > 0
  BY FramesTyped DEF TypeInv, TypeOK
<1>2. Building => building \in DOMAIN frames
  BY <1>1, BuildingTyped
<1>4. Len(frames') \in Nat /\ DOMAIN frames' = 1 .. Len(frames') /\ (frames' # <<>> <=> Len(frames') > 0)
  BY <1>1, NextTyped, EmptySeq, LenProperties DEF TypeOK, SharedOK
<1>5. CASE \/ Begins \/ StartsDrain \/ Interlude \/ UNCHANGED vars
  <2>1. frames' = frames /\ (Building' => Building /\ telemetry' = telemetry)
    BY <1>5 DEF Idle, Begins, StartsDrain, Interlude, vars, Building, BuildingSteps
  <2>. QED  BY <1>1, <2>1 DEF BuildingFrame, building, epoch
<1>6. CASE Drops
  <2>1. PICK r : FrameAdded(r) /\ FreshFrame(r, 0)
    BY <1>6 DEF Drops
  <2>. QED
    BY <1>1, <2>1, <1>6 DEF BuildingFrame, FrameAdded, FreshFrame, Drops, Building, BuildingSteps,
       Idle
<1>7. CASE Abandons \/ CommitUploads \/ CommitDrawing \/ CommitUnencoded
  <2>1. ~Building' /\ Building /\ FrameChanged(building)
    BY <1>7 DEF Abandons, CommitUploads, CommitDrawing, CommitUnencoded, Committed, Building,
                BuildingSteps, Idle
  <2>. QED
    BY <1>1, <2>1, <1>2, <1>7 DEF BuildingFrame, FrameChanged, Abandons, SameWork, CommitUploads,
       CommitDrawing, CommitUnencoded, Committed
<1>8. CASE DrainsMarker \/ DrainsColumn \/ Prepares
  <2>1. /\ Building /\ FrameChanged(building) /\ telemetry' = telemetry
        /\ frames'[building].submission = frames[building].submission
        /\ frames'[building].epoch = frames[building].epoch
        /\ frames'[building].transaction = frames[building].transaction
        /\ frames'[building].completion = frames[building].completion
        /\ frames'[building].presentation = frames[building].presentation
    BY <1>8, ColumnSteps DEF DrainsMarker, UploadsPrepared, Prepares, DrainTurn
  <2>. QED  BY <1>1, <1>2, <1>4, <2>1 DEF BuildingFrame, FrameChanged, building, epoch
<1>9. CASE \E b \in 1 .. BufferCount : Acquires(b)
  <2>1. PICK b \in 1 .. BufferCount : Acquires(b)
    BY <1>9
  <2>. DEFINE r == NewFrame(b)
  <2>2. FreshFrame(r, b) /\ r.submission.outcome = "unknown"
    BY <1>1, NewFrameTyped
  <2>3. FrameAdded(r) /\ telemetry' = telemetry
    BY <2>1 DEF Acquires
  <2>. HIDE DEF r
  <2>. QED  BY <1>1, <1>4, <2>2, <2>3 DEF BuildingFrame, FrameAdded, FreshFrame, building, epoch
<1>10. CASE \E f \in DOMAIN frames, ok \in BOOLEAN : Ran(f, ok)
  <2>1. PICK f \in DOMAIN frames, ok \in BOOLEAN : Ran(f, ok)
    BY <1>10
  <2>2. /\ FrameChanged(f) /\ frames[f].completion = "queued" /\ frames'[f].completion = "ran"
        /\ UNCHANGED <<callback, telemetry>>
    BY <2>1 DEF Ran
  <2>. QED  BY <1>1, <1>2, <1>4, <2>2 DEF BuildingFrame, FrameChanged, building, epoch, Building
<1>11. CASE \E f \in DOMAIN frames : Publishes(f) \/ Opens(f) \/ Releases(f)
  <2>1. PICK f \in DOMAIN frames : Publishes(f) \/ Opens(f) \/ Releases(f)
    BY <1>11
  <2>2. /\ FrameChanged(f) /\ frames[f].completion # "none" /\ frames'[f].completion # "none"
        /\ UNCHANGED <<callback, telemetry>>
    BY <2>1 DEF Publishes, Opens, Releases, Handles
  <2>. QED  BY <1>1, <1>2, <1>4, <2>2 DEF BuildingFrame, FrameChanged, building, epoch, Building
<1>12. CASE \E f \in DOMAIN frames : TimesFrame(f)
  <2>1. PICK f \in DOMAIN frames : TimesFrame(f)
    BY <1>12
  <2>2. /\ FrameChanged(f) /\ frames[f].completion # "none" /\ frames'[f].completion # "none"
        /\ callback' = callback /\ epoch' = epoch
    BY <2>1 DEF TimesFrame, LateCallback, LateStages, TelemetryChanged, epoch
  <2>. QED  BY <1>1, <1>2, <1>4, <2>2 DEF BuildingFrame, FrameChanged, building, Building
<1>. QED
  BY <1>5, <1>6, <1>7, <1>8, <1>9, <1>10, <1>11, <1>12 DEF StepEffect

\* A frame's slot is its own from the callback to the release
LEMMA SlotsKept ==
    ASSUME TypeInv, StepEffect
    PROVE  SlotsHeld'
<1>1. /\ TypeOK /\ BuildingFrame /\ SlotsHeld
      /\ Len(frames) \in Nat /\ DOMAIN frames = 1 .. Len(frames)
      /\ slots \in [1 .. BufferCount -> SlotStates]
  BY FramesTyped DEF TypeInv, TypeOK, SharedOK
<1>2. Building => building \in DOMAIN frames /\ frames[building].slot \in 1 .. BufferCount
  BY <1>1, BuildingTyped
<1>. DEFINE Working == {"queued", "ran", "published", "opened"}
\* Nothing held before, or a frame's slot given back
<1>3. ASSUME DOMAIN frames' = DOMAIN frames,
             \A f \in DOMAIN frames : frames'[f].slot = frames[f].slot
                                      /\ frames'[f].admission = frames[f].admission,
             \A f \in DOMAIN frames : Holds(f)' => Holds(f),
             \A f \in DOMAIN frames : Holds(f)' =>
                slots'[frames[f].slot].admission = slots[frames[f].slot].admission
      PROVE  SlotsHeld'
  BY <1>1, <1>3 DEF SlotsHeld
<1>4. CASE \/ Begins \/ StartsDrain \/ Interlude \/ UNCHANGED vars
  <2>1. frames' = frames /\ slots' = slots /\ (Building' => Building)
    BY <1>4 DEF Begins, StartsDrain, Interlude, vars, shared, Building, BuildingSteps, Idle
  <2>. QED  BY <1>3, <2>1 DEF Holds, building
<1>5. CASE Drops
  <2>1. PICK r : FrameAdded(r) /\ FreshFrame(r, 0)
    BY <1>5 DEF Drops
  <2>2. ~Building' /\ slots' = slots
    BY <1>5 DEF Drops, Building, BuildingSteps, Idle, shared
  <2>3. \A f \in 1 .. building + 1 : Holds(f)' => f \in 1 .. building /\ Holds(f)
    BY <1>1, <2>1, <2>2 DEF Holds, FrameAdded, FreshFrame
  <2>4. \A f \in 1 .. building : frames'[f] = frames[f]
    BY <2>1 DEF FrameAdded
  <2>5. DOMAIN frames' = 1 .. building + 1 /\ DOMAIN frames = 1 .. building
    BY <2>1 DEF FrameAdded
  <2>. QED  BY <1>1, <2>2, <2>3, <2>4, <2>5 DEF SlotsHeld
<1>6. CASE Abandons
  <2>1. ~Building' /\ Building /\ FrameChanged(building) /\ SameWork(building)
        /\ SlotReleased(building) /\ frames'[building].completion = "none"
    BY <1>6 DEF Abandons, Building, BuildingSteps, Idle
  <2>2. \A f \in DOMAIN frames : Holds(f)' => Holds(f) /\ f # building
    BY <1>2, <2>1 DEF Holds, FrameChanged
  <2>. QED
    BY <1>2, <1>3, <2>1, <2>2, <1>1 DEF FrameChanged, SameWork, SlotsHeld, SlotReleased, Holds
<1>7. CASE CommitUploads \/ CommitDrawing \/ CommitUnencoded
  <2>1. /\ ~Building' /\ Building /\ FrameChanged(building)
        /\ frames'[building].slot = frames[building].slot
        /\ frames'[building].admission = frames[building].admission
    BY <1>7 DEF CommitUploads, CommitDrawing, CommitUnencoded, Committed, Building,
                BuildingSteps, Idle
  <2>2. \A f \in DOMAIN frames : Holds(f)' => Holds(f)
    BY <1>2, <2>1 DEF Holds, FrameChanged
  <2>. QED
    BY <1>3, <2>1, <2>2, <1>1, <1>2, <1>7 DEF FrameChanged, SlotsHeld, CommitUploads, CommitDrawing,
       CommitUnencoded, SlotWritten, SlotChanged
<1>8. CASE DrainsMarker \/ DrainsColumn \/ Prepares
  <2>1. /\ Building /\ FrameChanged(building) /\ SlotChanged(frames[building].slot)
        /\ slots'[frames[building].slot].admission = slots[frames[building].slot].admission
        /\ frames'[building].slot = frames[building].slot
        /\ frames'[building].admission = frames[building].admission
        /\ frames'[building].completion = frames[building].completion
    BY <1>8, ColumnSteps DEF DrainsMarker, UploadsPrepared, Prepares, DrainTurn, SlotWritten
  <2>2. \A f \in DOMAIN frames : Holds(f)' => Holds(f)
    BY <1>2, <2>1 DEF Holds, FrameChanged, building
  <2>. QED  BY <1>3, <2>1, <2>2, <1>1, <1>2 DEF FrameChanged, SlotsHeld, SlotChanged
<1>9. CASE \E b \in 1 .. BufferCount : Acquires(b)
  <2>1. PICK b \in 1 .. BufferCount : Acquires(b)
    BY <1>9
  <2>. DEFINE r == NewFrame(b)
  <2>2. FreshFrame(r, b) /\ r.admission = slots[b].admission + 1
    BY <1>1, NewFrameTyped
  <2>3. /\ FrameAdded(r) /\ SlotChanged(b) /\ slots'[b].admission = slots[b].admission + 1
        /\ slots[b].admission % 2 = 0 /\ callback.step = "resolved"
    BY <2>1 DEF Acquires
  <2>. HIDE DEF r
  <2>4. ~Building /\ slots[b].admission \in Nat /\ building' = building + 1
    BY <1>1, <2>3, SlotTyped DEF Building, BuildingSteps, FrameAdded, building
  <2>5. DOMAIN frames' = 1 .. building + 1 /\ DOMAIN frames = 1 .. building /\ building \in Nat
    BY <2>3 DEF FrameAdded
  <2>6. \A f \in 1 .. building : frames'[f] = frames[f] /\ (Holds(f)' => Holds(f)) /\ f # building + 1
    BY <2>3, <2>4, <2>5 DEF FrameAdded, Holds
  <2>7. \A f \in 1 .. building : Holds(f) =>
           /\ frames[f].slot \in 1 .. BufferCount /\ frames[f].slot # b
           /\ slots'[frames[f].slot].admission = frames[f].admission
           /\ frames[f].admission % 2 = 1
    BY <1>1, <2>3, <2>5 DEF SlotsHeld, SlotChanged
  <2>8. frames'[building + 1].slot = b /\ frames'[building + 1].admission = slots[b].admission + 1
        /\ (slots[b].admission + 1) % 2 = 1
    BY <2>2, <2>3, <2>4 DEF FrameAdded, FreshFrame
  <2>9. \A f \in DOMAIN frames' : f \in 1 .. building \/ f = building + 1
    BY <2>5
  <2>. QED  BY <2>3, <2>6, <2>7, <2>8, <2>9, <1>1, <2>5 DEF SlotsHeld
<1>10. CASE \E f \in DOMAIN frames, ok \in BOOLEAN : Ran(f, ok)
  <2>1. PICK f \in DOMAIN frames, ok \in BOOLEAN : Ran(f, ok)
    BY <1>10
  <2>. QED  BY <1>3, <2>1 DEF FrameChanged, Holds, Building, building, Ran, shared
<1>11. CASE \E f \in DOMAIN frames : Publishes(f) \/ Opens(f)
  <2>1. PICK f \in DOMAIN frames : Publishes(f) \/ Opens(f)
    BY <1>11
  <2>. QED
    BY <1>3, <2>1 DEF FrameChanged, SameWork, Holds, Building, building, Publishes, Opens, Handles
<1>12. CASE \E f \in DOMAIN frames : Releases(f)
  <2>1. PICK f \in DOMAIN frames : Releases(f)
    BY <1>12
  <2>2. /\ FrameChanged(f) /\ SameWork(f) /\ SlotReleased(f) /\ callback' = callback
        /\ frames[f].completion \in Working /\ frames'[f].completion = "released"
    BY <2>1 DEF Releases, Handles
  <2>4. Holds(f) /\ \A g \in DOMAIN frames : Holds(g)' => Holds(g) /\ g # f
    BY <2>2, <1>1 DEF Holds, FrameChanged, Building, building, BuildingFrame
  <2>. QED  BY <1>3, <2>2, <2>4, <1>1 DEF FrameChanged, SameWork, SlotsHeld, SlotReleased
<1>13. CASE \E f \in DOMAIN frames : TimesFrame(f)
  <2>1. PICK f \in DOMAIN frames : TimesFrame(f)
    BY <1>13
  <2>2. /\ FrameChanged(f) /\ SameWork(f) /\ slots' = slots /\ callback' = callback
        /\ \/ frames'[f].completion = frames[f].completion
           \/ frames'[f].completion \in LateStages
    BY <2>1 DEF TimesFrame, LateCallback, shared
  <2>. QED  BY <1>3, <2>2 DEF FrameChanged, SameWork, Holds, Building, building, LateStages
<1>. QED
  BY <1>4, <1>5, <1>6, <1>7, <1>8, <1>9, <1>10, <1>11, <1>12, <1>13 DEF StepEffect

(***************************************************************************)
(* The queue                                                               *)
(***************************************************************************)
LEMMA QueueKept ==
    ASSUME TypeInv, StepEffect
    PROVE  QueueInOrder'
<1>1. /\ TypeOK /\ BuildingFrame /\ SlotsHeld /\ QueueInOrder
      /\ Len(frames) \in Nat /\ DOMAIN frames = 1 .. Len(frames)
      /\ queue \in Seq(Nat)
  BY FramesTyped DEF TypeInv, TypeOK, SharedOK
<1>2. Building => building \in DOMAIN frames /\ frames[building].completion = "none"
  BY <1>1, BuildingTyped
<1>3. Len(queue) \in Nat /\ DOMAIN queue = 1 .. Len(queue)
  BY <1>1, LenProperties
<1>4. ASSUME queue' = queue, DOMAIN frames \subseteq DOMAIN frames',
             \A f \in DOMAIN frames :
                frames'[f].completion = "queued" <=> frames[f].completion = "queued",
             \A f \in DOMAIN frames' \ DOMAIN frames : frames'[f].completion # "queued"
      PROVE  QueueInOrder'
  BY <1>1, <1>4 DEF QueueInOrder
<1>5. CASE \/ Begins \/ StartsDrain \/ Interlude \/ UNCHANGED vars
  BY <1>4, <1>5 DEF Begins, StartsDrain, Interlude, vars, gpu
<1>6. CASE Drops \/ \E b \in 1 .. BufferCount : Acquires(b)
  <2>1. CASE Drops
    <3>1. PICK r : FrameAdded(r) /\ FreshFrame(r, 0)
      BY <2>1 DEF Drops
    <3>. QED  BY <1>4, <3>1, <2>1 DEF FrameAdded, FreshFrame, Drops, gpu
  <2>2. CASE \E b \in 1 .. BufferCount : Acquires(b)
    <3>1. PICK b \in 1 .. BufferCount : Acquires(b)
      BY <2>2
    <3>. DEFINE r == NewFrame(b)
    <3>2. FreshFrame(r, b)
      BY <1>1, NewFrameTyped
    <3>3. FrameAdded(r) /\ queue' = queue
      BY <3>1 DEF Acquires, gpu
    <3>. HIDE DEF r
    <3>. QED  BY <1>4, <3>2, <3>3 DEF FrameAdded, FreshFrame
  <2>. QED  BY <1>6, <2>1, <2>2
<1>7. CASE Abandons \/ DrainsMarker \/ DrainsColumn \/ Prepares
  BY <1>2, <1>7, ColumnSteps, <1>4 DEF Abandons, DrainsMarker, UploadsPrepared, Prepares, DrainTurn,
     gpu, FrameChanged
<1>8. CASE CommitUploads \/ CommitDrawing \/ CommitUnencoded
  <2>1. /\ Building /\ FrameChanged(building) /\ queue' = Append(queue, building)
        /\ frames'[building].completion = "queued"
    BY <1>8 DEF CommitUploads, CommitDrawing, CommitUnencoded, Committed
  <2>2. building \in DOMAIN frames /\ frames[building].completion = "none" /\ building \in Nat
    BY <1>2, <2>1, <1>1 DEF building
  <2>3. /\ DOMAIN queue' = 1 .. Len(queue) + 1 /\ queue'[Len(queue) + 1] = building
        /\ \A i \in 1 .. Len(queue) : queue'[i] = queue[i]
    BY <1>1, <1>3, <2>1, <2>2, Appended
  <2>4. \A i \in 1 .. Len(queue) : queue[i] \in DOMAIN frames /\ queue[i] # building
           /\ frames[queue[i]].completion = "queued"
    BY <1>1, <1>3, <2>2 DEF QueueInOrder
  <2>5. \A i \in 1 .. Len(queue) : queue[i] < building
    BY <1>1, <2>4 DEF building
  <2>7. \A f \in DOMAIN frames' :
           frames'[f].completion = "queued" => \E i \in DOMAIN queue' : queue'[i] = f
    <3>. SUFFICES ASSUME NEW f \in DOMAIN frames', frames'[f].completion = "queued"
                  PROVE  \E i \in DOMAIN queue' : queue'[i] = f
      OBVIOUS
    <3>1. CASE f = building
      BY <1>3, <2>3, <3>1
    <3>2. CASE f # building
      <4>1. PICK i \in DOMAIN queue : queue[i] = f
        BY <1>1, <2>1, <3>2 DEF QueueInOrder, FrameChanged
      <4>. QED  BY <1>3, <2>3, <4>1
    <3>. QED  BY <3>1, <3>2
  <2>8. \A i, j \in DOMAIN queue' : i < j => queue'[i] < queue'[j]
    <3>. SUFFICES ASSUME NEW i \in DOMAIN queue', NEW j \in DOMAIN queue', i < j
                  PROVE  queue'[i] < queue'[j]
      OBVIOUS
    <3>1. i \in 1 .. Len(queue) /\ j \in 1 .. Len(queue) + 1
      BY <1>3, <2>3
    <3>2. CASE j = Len(queue) + 1
      BY <2>3, <2>5, <3>1, <3>2
    <3>3. CASE j # Len(queue) + 1
      <4>. QED  BY <1>1, <1>3, <2>3, <3>1, <3>3 DEF QueueInOrder
    <3>. QED  BY <3>2, <3>3
  <2>. QED  BY <1>3, <2>1, <2>2, <2>3, <2>4, <2>7, <2>8 DEF QueueInOrder, FrameChanged
<1>9. CASE \E f \in DOMAIN frames, ok \in BOOLEAN : Ran(f, ok)
  <2>1. PICK f \in DOMAIN frames, ok \in BOOLEAN : Ran(f, ok)
    BY <1>9
  <2>2. /\ FrameChanged(f) /\ frames[f].completion = "queued" /\ frames'[f].completion = "ran"
        /\ f = queue[1] /\ Len(queue) \in Nat \ {0} /\ DOMAIN queue' = 1 .. Len(queue) - 1
        /\ \A i \in 1 .. Len(queue) - 1 : queue'[i] = queue[i + 1]
    BY <2>1 DEF Ran
  <2>3. \A i, j \in 1 .. Len(queue) : i < j => queue[i] < queue[j]
    BY <1>1, <1>3 DEF QueueInOrder
  <2>4. \A i \in 1 .. Len(queue) : queue[i] \in DOMAIN frames /\ queue[i] \in Nat
                                   /\ frames[queue[i]].completion = "queued"
    BY <1>1, <1>3 DEF QueueInOrder
  <2>5. \A i \in 1 .. Len(queue) - 1 :
           i + 1 \in 1 .. Len(queue) /\ 1 < i + 1 /\ 1 \in 1 .. Len(queue)
    BY <2>2
  <2>6. \A i \in 1 .. Len(queue) - 1 : queue[i + 1] # f
    <3>. TAKE i \in 1 .. Len(queue) - 1
    <3>. QED  BY <2>2, <2>3, <2>4, <2>5
  <2>7. \A i \in DOMAIN queue' :
           queue'[i] \in DOMAIN frames' /\ frames'[queue'[i]].completion = "queued"
    <3>. TAKE i \in DOMAIN queue'
    <3>1. queue'[i] = queue[i + 1] /\ queue[i + 1] # f /\ i + 1 \in 1 .. Len(queue)
      BY <2>2, <2>5, <2>6
    <3>. QED  BY <2>2, <2>4, <3>1 DEF FrameChanged
  <2>8. \A i, j \in DOMAIN queue' : i < j => queue'[i] < queue'[j]
    <3>. SUFFICES ASSUME NEW i \in DOMAIN queue', NEW j \in DOMAIN queue', i < j
                  PROVE  queue'[i] < queue'[j]
      OBVIOUS
    <3>. QED  BY <2>2, <2>3
  <2>9. \A g \in DOMAIN frames' :
           frames'[g].completion = "queued" => \E i \in DOMAIN queue' : queue'[i] = g
    <3>. SUFFICES ASSUME NEW g \in DOMAIN frames', frames'[g].completion = "queued"
                  PROVE  \E i \in DOMAIN queue' : queue'[i] = g
      OBVIOUS
    <3>1. g # f /\ g \in DOMAIN frames /\ frames[g].completion = "queued"
      BY <2>2 DEF FrameChanged
    <3>2. PICK i \in 1 .. Len(queue) : queue[i] = g
      BY <1>1, <1>3, <3>1 DEF QueueInOrder
    <3>4. i - 1 \in 1 .. Len(queue) - 1 /\ (i - 1) + 1 = i
      BY <2>2, <3>1, <3>2
    <3>. QED  BY <2>2, <3>2, <3>4
  <2>. QED  BY <2>7, <2>8, <2>9 DEF QueueInOrder
<1>10. CASE \E f \in DOMAIN frames : Publishes(f) \/ Opens(f) \/ Releases(f) \/ TimesFrame(f)
  <2>1. PICK f \in DOMAIN frames : Publishes(f) \/ Opens(f) \/ Releases(f) \/ TimesFrame(f)
    BY <1>10
  <2>2. FrameChanged(f) /\ queue' = queue
        /\ (frames'[f].completion = "queued" <=> frames[f].completion = "queued")
    BY <2>1 DEF Publishes, Opens, Releases, Handles, TimesFrame, LateCallback, LateStages, gpu
  <2>. QED  BY <1>4, <2>2 DEF FrameChanged
<1>. QED  BY <1>5, <1>6, <1>7, <1>8, <1>9, <1>10 DEF StepEffect

(***************************************************************************)
(* The rows of a frame's uploads and the textures                          *)
(***************************************************************************)
\* What a turn with a column prepares keeps a row for every upload
LEMMA ColumnRows ==
    ASSUME TypeInv, DrainsColumn
    PROVE  \E uploads \in Seq(Nat), rows \in Seq(Texels) :
              UploadsPrepared(building, uploads, rows) /\ Len(rows) >= Len(uploads)
<1>1. PICK advance \in Nat, change \in BOOLEAN, allocates \in BOOLEAN :
         TurnWithColumn(NextColumn(stream, advance, change),
                        EnsuredHistory(NextColumn(stream, advance, change), allocates))
  BY DEF DrainsColumn
<1>. DEFINE column == NextColumn(stream, advance, change)
            h == EnsuredHistory(column, allocates)
<1>2. h \in Histories /\ TypeOK /\ BuildingFrame /\ SlotsHeld /\ StagingMatches
  BY EnsuredTyped DEF TypeInv
<1>. HIDE DEF column, h
<1>3. TurnWithColumn(column, h)
  BY <1>1 DEF column, h
<1>4. Building /\ column \in [sequence : Nat, slot : Nat, generation : Nat \ {0}]
      /\ h.ring \in Rings
  BY <1>2, <1>3 DEF TurnWithColumn, DrainTurn, Histories
<1>. DEFINE uploads == HeldUploads(column)
            rows == HeldRows(column)
<1>6. uploads \in Seq(Nat) /\ rows \in Seq(Texels) /\ ColumnTexel(column) \in Texels
  BY <1>2, <1>4, HeldTyped
<1>8. Len(rows) >= Len(uploads)
  BY <1>2, <1>4, BuildingTyped DEF HeldUploads, HeldRows, StagingMatches
<1>. HIDE DEF uploads, rows
<1>9. CASE UploadsPrepared(building, uploads, rows)
  BY <1>6, <1>8, <1>9
<1>10. CASE TurnAppended(column, h)
  <2>. DEFINE c == AppendColumn(h.ring, column.slot, column.sequence).column
              more == Append(uploads, c)
              texel == ColumnTexel(column)
              staged == Append(rows, texel)
  <2>1. ~RefusedColumn(h.ring, column.slot, column.sequence)
        /\ UploadsPrepared(building, more, staged)
    BY <1>10 DEF TurnAppended, uploads, rows
  <2>2. c \in Nat
    BY <1>4, <2>1, RingAppended
  <2>. HIDE DEF c, texel
  <2>3. more \in Seq(Nat) /\ Len(more) = Len(uploads) + 1 /\ Len(uploads) \in Nat
    BY <1>6, <2>2, Appended
  <2>5. staged \in Seq(Texels) /\ Len(staged) = Len(rows) + 1 /\ Len(rows) \in Nat
    BY <1>6, Appended DEF texel
  <2>. HIDE DEF more, staged
  <2>. QED  BY <2>1, <2>3, <2>5, <1>8
<1>. QED  BY <1>3, <1>9, <1>10 DEF TurnWithColumn, TurnWithoutTexture, TurnRefused, uploads, rows

\* A frame whose uploads are to come
Works(f) == frames[f].completion = "queued" \/ (Building /\ f = building)

LEMMA RowsKept ==
    ASSUME TypeInv, StepEffect
    PROVE  StagingMatches'
<1>1. /\ TypeOK /\ BuildingFrame /\ SlotsHeld /\ StagingMatches
      /\ Len(frames) \in Nat /\ DOMAIN frames = 1 .. Len(frames)
  BY FramesTyped DEF TypeInv, TypeOK
<1>2. Building => building \in DOMAIN frames /\ frames[building].slot \in 1 .. BufferCount
                  /\ frames[building].completion = "none"
  BY <1>1, BuildingTyped
<1>3. /\ \A f \in DOMAIN frames : Works(f) => Holds(f) /\ frames[f].slot \in 1 .. BufferCount
      /\ \A f, g \in DOMAIN frames :
            Works(f) /\ Holds(g) /\ f # g => frames[f].slot # frames[g].slot
      /\ \A f \in DOMAIN frames : Works(f) =>
            Len(slots[frames[f].slot].staging) >= Len(frames[f].uploads)
  BY <1>1 DEF Works, Holds, SlotsHeld, StagingMatches
<1>4. ASSUME \A f \in DOMAIN frames' : Works(f)' =>
                /\ f \in DOMAIN frames /\ Works(f)
                /\ frames'[f].slot = frames[f].slot
                /\ frames'[f].uploads = frames[f].uploads
                /\ slots'[frames[f].slot].staging = slots[frames[f].slot].staging
      PROVE  StagingMatches'
  <2>. SUFFICES ASSUME NEW f \in DOMAIN frames', Works(f)'
                PROVE  Len(slots'[frames'[f].slot].staging) >= Len(frames'[f].uploads)
    BY DEF Works, StagingMatches
  <2>. QED  BY <1>3, <1>4
<1>5. CASE \/ Begins \/ StartsDrain \/ Interlude \/ UNCHANGED vars
  <2>1. frames' = frames /\ slots' = slots /\ (Building' => Building)
    BY <1>5 DEF Begins, StartsDrain, Interlude, vars, shared, Building, BuildingSteps, Idle
  <2>. QED  BY <1>4, <2>1 DEF Works, building
<1>6. CASE Drops
  <2>1. PICK r : FrameAdded(r) /\ FreshFrame(r, 0)
    BY <1>6 DEF Drops
  <2>2. ~Building' /\ slots' = slots
    BY <1>6 DEF Drops, Building, BuildingSteps, Idle, shared
  <2>. QED  BY <1>4, <2>1, <2>2 DEF Works, FrameAdded, FreshFrame
<1>7. CASE Abandons
  <2>1. ~Building' /\ Building /\ FrameChanged(building)
        /\ SlotReleased(building) /\ frames'[building].completion = "none"
    BY <1>7 DEF Abandons, Building, BuildingSteps, Idle
  <2>2. \A f \in DOMAIN frames' : Works(f)' => f \in DOMAIN frames /\ Works(f) /\ f # building
    BY <1>2, <2>1 DEF Works, FrameChanged
  <2>3. \A f \in DOMAIN frames' : Works(f)' =>
           slots'[frames[f].slot].staging = slots[frames[f].slot].staging
    BY <1>3, <2>1, <2>2 DEF SlotReleased
  <2>. QED  BY <1>4, <2>1, <2>2, <2>3 DEF FrameChanged
<1>8. CASE CommitDrawing \/ CommitUploads \/ CommitUnencoded
  <2>1. /\ ~Building' /\ Building /\ FrameChanged(building)
        /\ frames'[building].slot = frames[building].slot
        /\ \/ frames'[building].uploads = frames[building].uploads
           \/ frames'[building].uploads = <<>>
    BY <1>8 DEF CommitUploads, CommitDrawing, CommitUnencoded, Committed, Building,
                BuildingSteps, Idle
  <2>2. \A b \in 1 .. BufferCount : slots'[b].staging = slots[b].staging
    BY <1>2, <1>8, <2>1 DEF CommitUploads, CommitDrawing, CommitUnencoded, SlotWritten, SlotChanged
  <2>3. \A f \in DOMAIN frames' : Works(f)' => f \in DOMAIN frames /\ Works(f)
    BY <2>1 DEF Works, FrameChanged
  <2>4. slots'[frames[building].slot].staging \in Seq(Texels)
        /\ Len(slots'[frames[building].slot].staging) >= 0
    <3>1. slots[frames[building].slot].staging \in Seq(Texels)
      BY <1>1, <2>1, BuildingTyped, SlotTyped
    <3>2. slots'[frames[building].slot].staging = slots[frames[building].slot].staging
      BY <1>2, <2>1, <2>2
    <3>. HIDE DEF building
    <3>. QED  BY <3>1, <3>2, LenProperties
  <2>5. ASSUME NEW f \in DOMAIN frames', Works(f)'
        PROVE  Len(slots'[frames'[f].slot].staging) >= Len(frames'[f].uploads)
    <3>1. CASE f # building
      BY <1>3, <2>1, <2>2, <2>3, <2>5, <3>1 DEF FrameChanged
    <3>2. CASE f = building /\ frames'[building].uploads = frames[building].uploads
      BY <1>3, <2>1, <2>2, <2>3, <2>5, <3>2
    <3>3. CASE f = building /\ frames'[building].uploads = <<>>
      BY <2>1, <2>4, <3>3
    <3>. QED  BY <2>1, <3>1, <3>2, <3>3
  <2>. QED  BY <2>5 DEF StagingMatches, Works
<1>9. CASE Prepares
  <2>1. /\ Building /\ FrameChanged(building) /\ SlotWritten(frames[building].slot, history.ring, FrameValidity)
        /\ frames'[building].slot = frames[building].slot
        /\ frames'[building].uploads = frames[building].uploads
        /\ frames'[building].completion = frames[building].completion
    BY <1>9 DEF Prepares
  <2>2. \A f \in DOMAIN frames' : Works(f)' => f \in DOMAIN frames /\ Works(f)
    BY <1>2, <2>1 DEF Works, FrameChanged, building
  <2>3. \A b \in 1 .. BufferCount : slots'[b].staging = slots[b].staging
    BY <2>1 DEF SlotWritten, SlotChanged
  <2>. QED  BY <1>3, <1>4, <2>1, <2>2, <2>3 DEF FrameChanged
<1>10. CASE DrainsMarker \/ DrainsColumn
  <2>1. Building
    BY <1>10, ColumnSteps DEF DrainsMarker, DrainTurn
  <2>2. PICK uploads \in Seq(Nat), rows \in Seq(Texels) :
           UploadsPrepared(building, uploads, rows) /\ Len(rows) >= Len(uploads)
    <3>1. CASE DrainsMarker
      <4>1. <<>> \in Seq(Nat) /\ <<>> \in Seq(Texels) /\ Len(<<>>) >= Len(<<>>)
        OBVIOUS
      <4>. QED  BY <3>1, <4>1 DEF DrainsMarker
    <3>2. CASE DrainsColumn
      BY <3>2, ColumnRows
    <3>. QED  BY <1>10, <3>1, <3>2
  <2>3. \A f \in DOMAIN frames' : Works(f)' => f \in DOMAIN frames /\ Works(f)
    BY <1>2, <2>1, <2>2 DEF Works, UploadsPrepared, FrameChanged, building
  <2>4. Holds(building)
    BY <2>1 DEF Holds
  <2>5. ASSUME NEW f \in DOMAIN frames', Works(f)'
        PROVE  Len(slots'[frames'[f].slot].staging) >= Len(frames'[f].uploads)
    <3>1. CASE f # building
      <4>1. f \in DOMAIN frames /\ Works(f) /\ frames[f].slot # frames[building].slot
            /\ frames[f].slot \in 1 .. BufferCount
        BY <1>2, <1>3, <2>1, <2>3, <2>4, <2>5, <3>1
      <4>. QED  BY <1>3, <2>2, <3>1, <4>1 DEF UploadsPrepared, FrameChanged, SlotChanged
    <3>2. CASE f = building
      BY <2>2, <3>2 DEF UploadsPrepared
    <3>. QED  BY <3>1, <3>2
  <2>. QED  BY <2>5 DEF StagingMatches, Works
<1>11. CASE \E b \in 1 .. BufferCount : Acquires(b)
  <2>1. PICK b \in 1 .. BufferCount : Acquires(b)
    BY <1>11
  <2>. DEFINE r == NewFrame(b)
  <2>2. FreshFrame(r, b)
    BY <1>1, NewFrameTyped
  <2>3. /\ FrameAdded(r) /\ SlotChanged(b) /\ slots'[b].staging = <<>>
        /\ slots[b].admission % 2 = 0 /\ callback.step = "resolved"
    BY <2>1 DEF Acquires
  <2>. HIDE DEF r
  <2>4. ~Building /\ building' = building + 1
    BY <2>3 DEF Building, BuildingSteps, FrameAdded, building
  <2>5. \A f \in 1 .. building : frames'[f] = frames[f] /\ (Works(f)' => Works(f))
    BY <1>1, <2>3, <2>4 DEF FrameAdded, Works
  <2>6. \A f \in 1 .. building : Works(f) => frames[f].slot # b
    BY <1>1, <1>3, <2>3 DEF SlotsHeld, FrameAdded
  <2>7. ASSUME NEW f \in DOMAIN frames', Works(f)'
        PROVE  Len(slots'[frames'[f].slot].staging) >= Len(frames'[f].uploads)
    <3>1. f \in 1 .. building \/ f = building + 1
      BY <2>3 DEF FrameAdded
    <3>2. CASE f = building + 1
      BY <2>2, <2>3, <3>2 DEF FrameAdded, FreshFrame
    <3>3. CASE f \in 1 .. building
      BY <1>3, <2>3, <2>5, <2>6, <2>7, <3>3 DEF FrameAdded, SlotChanged
    <3>. QED  BY <3>1, <3>2, <3>3
  <2>. QED  BY <2>7 DEF StagingMatches, Works
<1>12. CASE \E f \in DOMAIN frames, ok \in BOOLEAN : Ran(f, ok)
  <2>1. PICK f \in DOMAIN frames, ok \in BOOLEAN : Ran(f, ok)
    BY <1>12
  <2>2. /\ FrameChanged(f) /\ frames[f].completion = "queued" /\ frames'[f].completion = "ran"
        /\ callback' = callback /\ slots' = slots
    BY <2>1 DEF Ran, shared
  <2>3. Building => f # building
    BY <1>2, <2>2
  <2>. QED  BY <1>4, <2>2, <2>3 DEF FrameChanged, Works, Building, building
<1>13. CASE \E f \in DOMAIN frames : Publishes(f) \/ Opens(f) \/ Releases(f) \/ TimesFrame(f)
  <2>1. PICK f \in DOMAIN frames : Publishes(f) \/ Opens(f) \/ Releases(f) \/ TimesFrame(f)
    BY <1>13
  <2>2. FrameChanged(f) /\ SameWork(f) /\ callback' = callback
        /\ (frames'[f].completion = "queued" <=> frames[f].completion = "queued")
    BY <2>1 DEF Publishes, Opens, Releases, Handles, TimesFrame, LateCallback, LateStages
  <2>3. \A b \in 1 .. BufferCount : slots'[b].staging = slots[b].staging
    BY <2>1 DEF Publishes, Opens, Releases, SlotReleased, TimesFrame, LateCallback, shared
  <2>4. \A g \in DOMAIN frames' : Works(g)' => g \in DOMAIN frames /\ Works(g)
    BY <2>2 DEF FrameChanged, Works, Building, building
  <2>. QED  BY <1>3, <1>4, <2>2, <2>3, <2>4 DEF FrameChanged, SameWork
<1>. QED
  BY <1>5, <1>6, <1>7, <1>8, <1>9, <1>10, <1>11, <1>12, <1>13 DEF StepEffect

\* The texture a turn with a column draws on: the one there, or one more
LEMMA EnsuredRevision ==
    ASSUME TypeOK, NEW column, NEW allocates \in BOOLEAN
    PROVE  LET h == EnsuredHistory(column, allocates)
           IN  \/ /\ h.textureRevision = history.textureRevision /\ h.texture = history.texture
                  /\ h.texture = settings.columns
               \/ /\ h.textureRevision = history.textureRevision + 1
                  /\ history.texture # settings.columns
<1>. DEFINE base == IF MustClear(history.signature, ColumnSignature(column))
                    THEN ClearedHistory(history) ELSE history
<1>2. base \in Histories /\ base.textureRevision = history.textureRevision
      /\ base.texture = history.texture
  BY RendererAssumption, HistoriesTyped DEF TypeOK, OwnerOK
<1>3. EnsuredHistory(column, allocates) = EnsuredTexture(base, settings.columns, allocates)
  BY DEF EnsuredHistory
<1>. HIDE DEF base
<1>4. CASE base.texture = settings.columns
  BY <1>4, <1>2, <1>3 DEF EnsuredTexture, Histories
<1>5. CASE base.texture # settings.columns
  <2>. DEFINE n == IF allocates THEN settings.columns ELSE 0
  <2>. HIDE DEF n
  <2>. QED  BY <1>2, <1>3, <1>5 DEF Histories, EnsuredTexture
<1>. QED  BY <1>4, <1>5

\* A turn with a column appends the texture its history asks for
LEMMA ColumnTextures ==
    ASSUME TypeInv, DrainsColumn
    PROVE  /\ history'.textureRevision = Len(texels') /\ Len(texels') > 0
           /\ DOMAIN texels \subseteq DOMAIN texels'
<1>1. PICK advance \in Nat, change \in BOOLEAN, allocates \in BOOLEAN :
         TurnWithColumn(NextColumn(stream, advance, change),
                        EnsuredHistory(NextColumn(stream, advance, change), allocates))
  BY DEF DrainsColumn
<1>. DEFINE column == NextColumn(stream, advance, change)
            h == EnsuredHistory(column, allocates)
<1>2. h \in Histories /\ TypeOK /\ TexturesFollow
  BY EnsuredTyped DEF TypeInv
<1>3. h.textureRevision \in {history.textureRevision, history.textureRevision + 1}
  BY <1>2, EnsuredRevision
<1>4. history \in Histories /\ texels \in Seq(Textures) /\ Len(texels) > 0
      /\ history.textureRevision = Len(texels)
  BY <1>2 DEF TypeOK, OwnerOK, SharedOK, TexturesFollow
<1>. HIDE DEF column, h
<1>5. TurnWithColumn(column, h)
  BY <1>1 DEF column, h
<1>6. history'.textureRevision = h.textureRevision
  BY <1>2, <1>5 DEF TurnWithColumn, TurnWithoutTexture, TurnRefused, TurnAppended, Histories
<1>7. history.textureRevision \in Nat /\ DOMAIN texels = 1 .. Len(texels)
  BY <1>4, LenProperties DEF Histories
<1>8. texels' = IF h.textureRevision = history.textureRevision THEN texels
                ELSE Append(texels, BlankTexture(h.texture))
  BY <1>5 DEF TurnWithColumn
<1>. DEFINE blank == BlankTexture(h.texture)
            more == Append(texels, blank)
<1>. HIDE DEF blank
<1>11. Len(more) = Len(texels) + 1 /\ DOMAIN more = 1 .. Len(texels) + 1
  BY <1>2, <1>4, Appended DEF blank, BlankTexture, BlankTexel, Texels, Textures, Histories
<1>. HIDE DEF more
<1>12. CASE h.textureRevision = history.textureRevision
  BY <1>4, <1>6, <1>8, <1>12
<1>13. CASE h.textureRevision = history.textureRevision + 1
  <2>1. texels' = more
    BY <1>7, <1>8, <1>13 DEF blank, more
  <2>. QED  BY <1>4, <1>6, <1>7, <1>11, <1>13, <2>1
<1>. QED  BY <1>3, <1>12, <1>13

LEMMA TexturesKept ==
    ASSUME TypeInv, StepEffect
    PROVE  QueuedTextures' /\ TexturesFollow'
<1>1. /\ TypeOK /\ BuildingFrame /\ SlotsHeld /\ QueuedTextures /\ TexturesFollow
      /\ Len(frames) \in Nat /\ DOMAIN frames = 1 .. Len(frames)
      /\ history \in Histories
  BY FramesTyped DEF TypeInv, TypeOK, OwnerOK
<1>2. Building => building \in DOMAIN frames /\ frames[building].completion = "none"
  BY <1>1, BuildingTyped
<1>3. Idle.step # "prepared" /\ (callback.step = "prepared" => Building)
      /\ (callback'.step = "prepared" => Building')
  BY DEF Idle, Building, BuildingSteps
<1>4. history' = history \/ history' = ClearedHistory(history)
      => history'.textureRevision = history.textureRevision
  BY <1>1, HistoriesTyped
<1>5. texels \in Seq(Textures) /\ Len(texels) \in Nat /\ DOMAIN texels = 1 .. Len(texels)
  BY <1>1, LenProperties DEF TypeOK, SharedOK
\* Textures stay, and a frame newly queued was ready
<1>6. ASSUME texels' = texels, HistoryMayClear,
             \A f \in DOMAIN frames' : frames'[f].completion = "queued" =>
                /\ f \in DOMAIN frames /\ frames'[f].texture = frames[f].texture
                /\ \/ frames[f].completion = "queued"
                   \/ callback.step = "prepared" /\ f = building,
             callback'.step = "prepared" =>
                \/ /\ callback.step = "prepared" /\ building' = building
                   /\ frames'[building].texture = frames[building].texture
                \/ history' = history /\ frames'[building'].texture = history.textureRevision
      PROVE  QueuedTextures' /\ TexturesFollow'
  BY <1>4, <1>6, <1>1, <1>5 DEF HistoryMayClear, TexturesFollow, QueuedTextures
<1>7. CASE \/ Begins \/ StartsDrain \/ Interlude \/ UNCHANGED vars
  <2>2. callback'.step = "prepared" => callback.step = "prepared"
    BY <1>1, StepTyped, <1>7 DEF StartsDrain, TypeOK, Steps, Begins, Interlude, vars
  <2>. QED
    BY <1>6, <1>7, <2>2 DEF building, Begins, StartsDrain, Interlude, vars, gpu, HistoryMayClear
<1>8. CASE Drops
  <2>1. PICK r : FrameAdded(r) /\ FreshFrame(r, 0)
    BY <1>8 DEF Drops
  <2>. QED  BY <1>6, <2>1, <1>3, <1>8 DEF FrameAdded, FreshFrame, Drops, gpu, owner, HistoryMayClear
<1>9. CASE Abandons
  BY <1>3, <1>9, <1>6 DEF Abandons, gpu, HistoryMayClear, FrameChanged
<1>10. CASE CommitUploads \/ CommitDrawing \/ CommitUnencoded
  BY <1>3, <1>10, <1>6 DEF CommitUploads, CommitDrawing, CommitUnencoded, Committed,
     HistoryMayClear, FrameChanged
<1>11. CASE Prepares
  BY <1>11, <1>2, <1>6 DEF Prepares, gpu, owner, HistoryMayClear, FrameChanged, building
<1>12. CASE DrainsMarker
  BY <1>12, <1>2, <1>6 DEF DrainsMarker, UploadsPrepared, DrainTurn, TurnStays, HistoryMayClear,
     FrameChanged
<1>13. CASE DrainsColumn
  BY <1>13, ColumnSteps, ColumnTextures, <1>1, <1>2 DEF TurnStays, UploadsPrepared, TexturesFollow,
     QueuedTextures, FrameChanged
<1>14. CASE \E b \in 1 .. BufferCount : Acquires(b)
  <2>1. PICK b \in 1 .. BufferCount : Acquires(b)
    BY <1>14
  <2>. DEFINE r == NewFrame(b)
  <2>2. FreshFrame(r, b)
    BY <1>1, NewFrameTyped
  <2>3. FrameAdded(r) /\ texels' = texels /\ HistoryMayClear
        /\ callback' = [callback EXCEPT !.step = "acquired"]
    BY <2>1 DEF Acquires, gpu, owner, HistoryMayClear
  <2>. HIDE DEF r
  <2>. QED  BY <1>6, <2>2, <2>3, <1>1, StepTyped DEF FrameAdded, FreshFrame, TypeOK, Steps
<1>15. CASE \E f \in DOMAIN frames, ok \in BOOLEAN : Ran(f, ok)
  <2>1. PICK f \in DOMAIN frames, ok \in BOOLEAN : Ran(f, ok)
    BY <1>15
  <2>2. /\ FrameChanged(f) /\ frames'[f].completion = "ran" /\ callback' = callback
        /\ frames'[f].texture = frames[f].texture
        /\ history' = history /\ DOMAIN texels' = DOMAIN texels /\ Len(texels') = Len(texels)
    BY <2>1 DEF Ran, owner
  <2>. QED  BY <1>1, <2>2, <1>2, <1>3 DEF QueuedTextures, FrameChanged, TexturesFollow, building
<1>16. CASE \E f \in DOMAIN frames : Publishes(f) \/ Opens(f) \/ Releases(f) \/ TimesFrame(f)
  <2>1. PICK f \in DOMAIN frames : Publishes(f) \/ Opens(f) \/ Releases(f) \/ TimesFrame(f)
    BY <1>16
  <2>2. FrameChanged(f) /\ frames'[f].texture = frames[f].texture /\ callback' = callback
        /\ (frames'[f].completion = "queued" <=> frames[f].completion = "queued")
        /\ texels' = texels /\ HistoryMayClear
    BY <2>1 DEF Publishes, Opens, Releases, Handles, TimesFrame, LateCallback, LateStages,
                SameWork, gpu, owner, HistoryMayClear
  <2>. QED  BY <1>6, <2>2, <1>2, <1>3 DEF FrameChanged, building
<1>. QED
  BY <1>7, <1>8, <1>9, <1>10, <1>11, <1>12, <1>13, <1>14, <1>15, <1>16 DEF StepEffect

(***************************************************************************)
(* Outcomes and epochs                                                     *)
(***************************************************************************)
\* The fields the callbacks leave in a submission
LEMMA SubmissionFields ==
    ASSUME NEW s \in Submissions, NEW n \in Nat
    PROVE  LET gpuDone == WithGpuCompletion(s, n)
               shown   == WithPresentation(s, n)
           IN  /\ gpuDone.outcome = s.outcome /\ gpuDone.presented = s.presented
               /\ gpuDone.sequence = s.sequence /\ gpuDone.sample = s.sample
               /\ gpuDone.events = s.events \cup {"gpu"}
               /\ shown.outcome = s.outcome /\ shown.sequence = s.sequence
               /\ shown.sample = s.sample /\ shown.presented = n
               /\ shown.events = s.events \cup {"presented"}
               /\ Emitted(s).outcome = s.outcome /\ Emitted(s).presented = s.presented
               /\ Emitted(s).sequence = s.sequence
               /\ Emitted(s).sample = classifyFrameLatency(s)
               /\ Emitted(s).events = s.events \cup {"emitted"}
               /\ Skipped(s).outcome = IF s.outcome = "unknown" THEN "skipped" ELSE s.outcome
               /\ Skipped(s).presented = s.presented /\ Skipped(s).sequence = s.sequence
               /\ Skipped(s).events = s.events /\ Skipped(s).sample = s.sample
               /\ Presented(s).outcome = "presented" /\ Presented(s).presented = s.presented
               /\ Presented(s).sequence = s.sequence /\ Presented(s).events = s.events
               /\ Presented(s).sample = s.sample
<1>3. /\ Emitted(s).outcome = s.outcome /\ Emitted(s).presented = s.presented
      /\ Emitted(s).sequence = s.sequence
      /\ Emitted(s).sample = classifyFrameLatency(s)
      /\ Emitted(s).events = s.events \cup {"emitted"}
  <2>. DEFINE x == classifyFrameLatency(s)
  <2>1. Emitted(s) = [s EXCEPT !.events = @ \cup {"emitted"}, !.sample = x]
    BY DEF Emitted
  <2>. HIDE DEF x
  <2>. QED  BY <2>1 DEF x, Submissions
<1>4. /\ Skipped(s).outcome = IF s.outcome = "unknown" THEN "skipped" ELSE s.outcome
      /\ Skipped(s).presented = s.presented /\ Skipped(s).sequence = s.sequence
      /\ Skipped(s).events = s.events /\ Skipped(s).sample = s.sample
  BY DEF Skipped, NewlySkipped, Submissions
<1>5. /\ Presented(s).outcome = "presented" /\ Presented(s).presented = s.presented
      /\ Presented(s).sequence = s.sequence /\ Presented(s).events = s.events
      /\ Presented(s).sample = s.sample
  BY DEF Presented, Submissions
<1>. QED  BY <1>3, <1>4, <1>5 DEF WithGpuCompletion, Submissions, WithPresentation

\* A step that is no callback of the frames leaves their timing alone
LEMMA TimingStays ==
    ASSUME TypeInv, StepEffect, ~ \E f \in DOMAIN frames : TimesFrame(f)
    PROVE  /\ DOMAIN frames \subseteq DOMAIN frames'
           /\ \A f \in DOMAIN frames :
                 /\ frames'[f].epoch = frames[f].epoch
                 /\ frames'[f].presentation = frames[f].presentation
                 /\ \/ frames'[f].submission.outcome = frames[f].submission.outcome
                    \/ Abandons /\ f = building
                       /\ frames'[f].submission.outcome = "skipped"
                 /\ frames'[f].submission.presented = frames[f].submission.presented
                 /\ frames'[f].submission.sequence = frames[f].submission.sequence
                 /\ frames'[f].submission.events = frames[f].submission.events
                 /\ frames'[f].submission.sample = frames[f].submission.sample
           /\ \A f \in DOMAIN frames' \ DOMAIN frames :
                 /\ f = building + 1 /\ frames' # frames
                 /\ frames'[f].completion = "none" /\ frames'[f].presentation = "none"
                 /\ frames'[f].epoch = epoch /\ callback.step = "resolved"
                 /\ frames'[f].submission.sequence = callback.sequence
                 /\ frames'[f].submission.events = {}
                 /\ \/ Drops /\ frames'[f].submission.outcome = "skipped"
                    \/ ~Drops /\ frames'[f].submission.outcome = "unknown"
<1>. DEFINE Same(f) == /\ frames'[f].epoch = frames[f].epoch
                       /\ frames'[f].presentation = frames[f].presentation
                       /\ frames'[f].submission.outcome = frames[f].submission.outcome
                       /\ frames'[f].submission.presented = frames[f].submission.presented
                       /\ frames'[f].submission.sequence = frames[f].submission.sequence
                       /\ frames'[f].submission.events = frames[f].submission.events
                       /\ frames'[f].submission.sample = frames[f].submission.sample
<1>1. /\ TypeOK /\ BuildingFrame /\ SlotsHeld
      /\ Len(frames) \in Nat /\ DOMAIN frames = 1 .. Len(frames)
  BY FramesTyped DEF TypeInv, TypeOK
<1>2. ASSUME NEW f, FrameChanged(f), f \in DOMAIN frames => Same(f)
      PROVE  DOMAIN frames' = DOMAIN frames /\ \A g \in DOMAIN frames : Same(g)
  BY <1>2 DEF FrameChanged
<1>3. CASE \/ Begins \/ StartsDrain \/ Interlude \/ UNCHANGED vars
  BY <1>3 DEF Begins, StartsDrain, Interlude, vars
<1>4. CASE Drops
  <2>1. PICK r : FrameAdded(r) /\ FreshFrame(r, 0) /\ r.submission.outcome = "skipped"
    BY <1>4 DEF Drops
  <2>3. DOMAIN frames' = 1 .. building + 1 /\ DOMAIN frames = 1 .. building /\ building \in Nat
        /\ frames'[building + 1] = r /\ \A g \in 1 .. building : frames'[g] = frames[g]
    BY <2>1 DEF FrameAdded
  <2>. QED  BY <1>4, <2>1, <2>3 DEF FreshFrame, Drops
<1>5. CASE \E b \in 1 .. BufferCount : Acquires(b)
  <2>1. PICK b \in 1 .. BufferCount : Acquires(b)
    BY <1>5
  <2>. DEFINE r == NewFrame(b)
  <2>2. FreshFrame(r, b) /\ r.submission.outcome = "unknown"
    BY <1>1, NewFrameTyped
  <2>3. FrameAdded(r) /\ callback.step = "resolved"
        /\ callback' = [callback EXCEPT !.step = "acquired"]
    BY <2>1 DEF Acquires
  <2>. HIDE DEF r
  <2>5. DOMAIN frames' = 1 .. building + 1 /\ DOMAIN frames = 1 .. building /\ building \in Nat
        /\ frames'[building + 1] = r /\ \A g \in 1 .. building : frames'[g] = frames[g]
    BY <2>3 DEF FrameAdded
  <2>6. frames' # frames
    BY <2>5
  <2>. QED  BY <2>2, <2>3, <1>1, StepTyped, <2>5, <2>6 DEF FreshFrame, TypeOK, Steps, Drops, Idle
<1>6. CASE Abandons
  <2>1. Building /\ FrameChanged(building) /\ SameWork(building)
        /\ frames'[building].presentation = "none"
        /\ frames'[building].submission = Skipped(frames[building].submission)
    BY <1>6 DEF Abandons
  <2>2. building \in DOMAIN frames /\ frames[building].submission \in Submissions
        /\ frames[building].submission.outcome = "unknown"
        /\ frames[building].presentation = "none"
    BY <1>1, <2>1, BuildingTyped, FieldsTyped
  <2>. QED  BY <1>6, <2>1, <2>2, SubmissionFields DEF FrameChanged, SameWork
<1>7. CASE CommitUploads \/ CommitDrawing \/ CommitUnencoded
  BY <1>7, <1>2 DEF CommitUploads, CommitDrawing, CommitUnencoded, Committed
<1>8. CASE DrainsMarker \/ DrainsColumn \/ Prepares
  BY <1>8, ColumnSteps, <1>2 DEF DrainsMarker, UploadsPrepared, Prepares
<1>9. CASE \/ \E f \in DOMAIN frames, ok \in BOOLEAN : Ran(f, ok)
           \/ \E f \in DOMAIN frames : Publishes(f) \/ Opens(f) \/ Releases(f)
  <2>1. PICK f \in DOMAIN frames : \/ \E ok \in BOOLEAN : Ran(f, ok)
                                   \/ Publishes(f) \/ Opens(f) \/ Releases(f)
    BY <1>9
  <2>. QED  BY <1>2, <2>1 DEF Ran, Publishes, Opens, Releases, Handles, SameWork
<1>. QED
  BY <1>3, <1>4, <1>5, <1>6, <1>7, <1>8, <1>9 DEF StepEffect

LEMMA PresentedStays ==
    ASSUME TypeInv, StepEffect
    PROVE  PresentedLast'
<1>1. /\ TypeOK /\ BuildingFrame /\ SlotsHeld /\ PresentedLast
      /\ Len(frames) \in Nat /\ DOMAIN frames = 1 .. Len(frames)
      /\ \A f \in DOMAIN frames : frames[f].submission \in Submissions
  BY FramesTyped, FieldsTyped DEF TypeInv, TypeOK
<1>2. CASE \E f \in DOMAIN frames : TimesFrame(f)
  <2>1. PICK f \in DOMAIN frames : TimesFrame(f)
    BY <1>2
  <2>2. FrameChanged(f) /\ frames[f].completion # "none" /\ frames'[f].completion # "none"
    BY <2>1 DEF TimesFrame, LateCallback, LateStages
  <2>. DEFINE s == frames[f].submission
              After == frames'[f].submission.outcome = "presented" =>
                          frames'[f].presentation = "done" /\ frames'[f].submission.presented # 0
  <2>3. s \in Submissions
        /\ (s.outcome = "presented" => frames[f].presentation = "done" /\ s.presented # 0)
    BY <1>1 DEF PresentedLast
  <2>4. CASE TimesGpu(f)
    <3>1. PICK time \in Nat : frames'[f].submission = WithGpuCompletion(s, time)
      BY <2>4 DEF TimesGpu
    <3>2. frames'[f].presentation = frames[f].presentation
      BY <2>4 DEF TimesGpu
    <3>. HIDE DEF s
    <3>. QED  BY <1>1, <2>2, <2>3, <3>1, <3>2, SubmissionFields DEF PresentedLast, FrameChanged
  <2>5. CASE Emits(f)
    <3>1. /\ frames'[f].submission = Emitted(s)
          /\ \/ frames'[f].presentation = frames[f].presentation
             \/ frames[f].presentation = "emits"
      BY <2>5 DEF Emits
    <3>. HIDE DEF s
    <3>2. After
      BY <2>3, <3>1, SubmissionFields, 0 \in Nat
    <3>. QED  BY <1>1, <2>2, <3>2 DEF PresentedLast, FrameChanged
  <2>6. CASE TimesPresentation(f)
    <3>1. PICK time \in Nat : frames'[f].submission = WithPresentation(s, time)
      BY <2>6 DEF TimesPresentation
    <3>2. frames[f].presentation = "none"
      BY <2>6 DEF TimesPresentation
    <3>. HIDE DEF s
    <3>. QED  BY <1>1, <2>2, <2>3, <3>1, <3>2, SubmissionFields DEF PresentedLast, FrameChanged
  <2>7. CASE SkipsFrame(f)
    <3>1. /\ frames'[f].submission = Skipped(s)
          /\ \/ frames'[f].presentation = frames[f].presentation
             \/ frames[f].presentation = "timed"
      BY <2>7 DEF SkipsFrame
    <3>. HIDE DEF s
    <3>2. After
      BY <2>3, <3>1, SubmissionFields, 0 \in Nat
    <3>. QED  BY <1>1, <2>2, <3>2 DEF PresentedLast, FrameChanged
  <2>8. CASE ShowsFrame(f)
    <3>1. /\ frames'[f].submission = Presented(s) /\ frames'[f].presentation = "done"
          /\ s.presented # 0
      BY <2>8 DEF ShowsFrame
    <3>. HIDE DEF s
    <3>2. After
      BY <2>3, <3>1, SubmissionFields, 0 \in Nat
    <3>. QED  BY <1>1, <2>2, <3>2 DEF PresentedLast, FrameChanged
  <2>. QED  BY <2>1, <2>4, <2>5, <2>6, <2>7, <2>8 DEF TimesFrame
<1>3. CASE ~ \E f \in DOMAIN frames : TimesFrame(f)
  <2>2. \A f \in DOMAIN frames : frames'[f].completion = "none" => frames[f].completion = "none"
    <3>1. CASE \/ Begins \/ StartsDrain \/ Interlude \/ UNCHANGED vars
      BY <3>1 DEF Begins, StartsDrain, Interlude, vars
    <3>2. CASE Drops \/ \E b \in 1 .. BufferCount : Acquires(b)
      BY <3>2 DEF Drops, Acquires, FrameAdded
    <3>3. CASE \/ Abandons \/ CommitUploads \/ CommitDrawing \/ CommitUnencoded
               \/ DrainsMarker \/ DrainsColumn \/ Prepares
      <4>1. Building /\ FrameChanged(building)
        BY <3>3, ColumnSteps DEF Abandons, CommitUploads, CommitDrawing, CommitUnencoded, Committed,
             DrainsMarker, DrainTurn, UploadsPrepared, Prepares
      <4>. QED  BY <4>1, <1>1, BuildingTyped DEF FrameChanged
    <3>4. CASE \/ \E f \in DOMAIN frames, ok \in BOOLEAN : Ran(f, ok)
               \/ \E f \in DOMAIN frames : Publishes(f) \/ Opens(f) \/ Releases(f)
      <4>1. PICK f \in DOMAIN frames : \/ \E ok \in BOOLEAN : Ran(f, ok)
                                       \/ Publishes(f) \/ Opens(f) \/ Releases(f)
        BY <3>4
      <4>. QED  BY <4>1 DEF FrameChanged, Ran, Publishes, Opens, Releases, Handles
    <3>. QED  BY <1>3, <3>1, <3>2, <3>3, <3>4 DEF StepEffect
  <2>. QED  BY <1>1, <1>3, TimingStays, <2>2 DEF PresentedLast
<1>. QED  BY <1>2, <1>3

\* A callback of a frame leaves its number, its epoch and what others may see
LEMMA TimesFrameKeeps ==
    ASSUME TypeInv, NEW f \in DOMAIN frames, TimesFrame(f)
    PROVE  /\ FrameChanged(f) /\ frames'[f].epoch = frames[f].epoch
           /\ frames'[f].submission.sequence = frames[f].submission.sequence
           /\ UNCHANGED <<owner, callback, shared, gpu, resets>>
<1>. DEFINE s == frames[f].submission
<1>2. \/ \E time \in Nat : frames'[f].submission = WithGpuCompletion(s, time)
      \/ \E time \in Nat : frames'[f].submission = WithPresentation(s, time)
      \/ frames'[f].submission = Emitted(s)
      \/ frames'[f].submission = Skipped(s)
      \/ frames'[f].submission = Presented(s)
  BY DEF TimesFrame, TimesGpu, Emits, TimesPresentation, SkipsFrame, ShowsFrame
<1>3. s \in Submissions
  BY FramesTyped, FieldsTyped DEF TypeInv, TypeOK
<1>. HIDE DEF s
<1>4. frames'[f].submission.sequence = s.sequence
  BY <1>2, <1>3, SubmissionFields, 0 \in Nat
<1>. QED  BY <1>4 DEF TimesFrame, LateCallback, SameWork, s

\* A step that begins no epoch leaves the callbacks counted
LEMMA CallbacksCounted ==
    ASSUME TypeInv, StepEffect, ~Begins, ~Interlude
    PROVE  /\ DOMAIN telemetry' = DOMAIN telemetry /\ Len(telemetry') = Len(telemetry)
           /\ \A e \in DOMAIN telemetry : telemetry'[e].callbacks = telemetry[e].callbacks
<1>1. telemetry' = telemetry \/ \E e : TelemetryChanged(e)
  <2>1. CASE DrainsColumn
    BY <2>1, ColumnSteps
  <2>2. CASE \E b \in 1 .. BufferCount : Acquires(b)
    BY <2>2 DEF Acquires
  <2>3. CASE \/ \E f \in DOMAIN frames, ok \in BOOLEAN : Ran(f, ok)
             \/ \E f \in DOMAIN frames : Publishes(f) \/ Opens(f) \/ Releases(f) \/ TimesFrame(f)
    BY <2>3 DEF Ran, Publishes, Opens, Releases, Handles, TimesFrame
  <2>4. CASE \/ Drops \/ Abandons \/ StartsDrain \/ DrainsMarker \/ Prepares
             \/ CommitUploads \/ CommitDrawing \/ CommitUnencoded \/ UNCHANGED vars
    BY <2>4 DEF Drops, Abandons, Skips, StartsDrain, DrainsMarker, DrainTurn, Prepares,
         CommitUploads, CommitDrawing, CommitUnencoded, Committed, vars
  <2>. QED  BY <2>1, <2>2, <2>3, <2>4 DEF StepEffect
<1>. QED  BY <1>1 DEF TelemetryChanged

\* ... and a callback that goes on has the number it began with
LEMMA CallbackGoesOn ==
    ASSUME TypeInv, StepEffect, ~Begins
    PROVE  /\ callback'.step # "idle" =>
                 callback.step # "idle" /\ callback'.sequence = callback.sequence
           /\ callback'.step = "resolved" => callback' = callback
<1>1. OwnerOK /\ Idle.step = "idle"
  BY DEF TypeInv, TypeOK, Idle
<1>2. CASE StartsDrain
  BY <1>2, <1>1, StepTyped DEF StartsDrain, Steps
<1>3. CASE Prepares
  BY <1>3, <1>1, StepTyped DEF Prepares, Steps
<1>4. CASE \E b \in 1 .. BufferCount : Acquires(b)
  BY <1>4, <1>1, StepTyped DEF Acquires, Steps
<1>5. CASE DrainsColumn
  BY <1>5, ColumnSteps DEF TurnStays
<1>6. CASE DrainsMarker
  BY <1>6 DEF DrainsMarker, DrainTurn, TurnStays
<1>7. CASE \/ \E f \in DOMAIN frames, ok \in BOOLEAN : Ran(f, ok)
           \/ \E f \in DOMAIN frames : Publishes(f) \/ Opens(f) \/ Releases(f) \/ TimesFrame(f)
  BY <1>7 DEF Ran, Publishes, Opens, Releases, Handles, TimesFrame, LateCallback
<1>8. CASE \/ Drops \/ Abandons \/ CommitUploads \/ CommitDrawing \/ CommitUnencoded
  BY <1>1, <1>8 DEF Drops, Abandons, CommitUploads, CommitDrawing, CommitUnencoded, Committed
<1>9. CASE Interlude \/ UNCHANGED vars
  BY <1>9 DEF Interlude, vars
<1>. QED  BY <1>2, <1>3, <1>4, <1>5, <1>6, <1>7, <1>8, <1>9 DEF StepEffect

LEMMA EpochsKept ==
    ASSUME TypeInv, StepEffect
    PROVE  Epochs'
<1>1. /\ TypeOK /\ BuildingFrame /\ SlotsHeld /\ Epochs /\ SharedOK
      /\ Len(frames) \in Nat /\ DOMAIN frames = 1 .. Len(frames) /\ building = Len(frames)
  BY FramesTyped DEF TypeInv, TypeOK, building
<1>2. /\ epoch \in Nat \ {0} /\ DOMAIN telemetry = 1 .. epoch /\ epoch = Len(telemetry)
      /\ \A e \in DOMAIN telemetry : telemetry[e].callbacks \in Nat
  BY <1>1, EpochTyped, TelemetryTyped DEF epoch
<1>3. \A f \in DOMAIN frames :
         frames[f].epoch \in Nat /\ frames[f].submission.sequence \in Nat
  BY <1>1, FramesTyped, FieldsTyped DEF Submissions
<1>4. /\ \A f \in DOMAIN frames :
            /\ frames[f].epoch \in 1 .. epoch
            /\ frames[f].submission.sequence \in 1 .. telemetry[frames[f].epoch].callbacks
      /\ \A f, g \in DOMAIN frames :
            /\ frames[f].epoch = frames[g].epoch
            /\ frames[f].submission.sequence = frames[g].submission.sequence
            => f = g
      /\ callback.step # "idle" =>
            callback.sequence = telemetry[epoch].callbacks /\ callback.sequence # 0
      /\ callback.step = "resolved" =>
            \A f \in DOMAIN frames :
                frames[f].epoch = epoch => frames[f].submission.sequence # callback.sequence
  BY <1>1, <1>2 DEF Epochs
<1>5. CASE Begins \/ Interlude
  <2>1. TelemetryAdvanced /\ frames' = frames
    BY <1>5 DEF Begins, Interlude
  <2>2. \A e \in 1 .. epoch :
           telemetry'[e].callbacks \in Nat /\ telemetry'[e].callbacks >= telemetry[e].callbacks
    <3>1. telemetry' \in Seq(Telemetries) /\ DOMAIN telemetry' = 1 .. Len(telemetry')
          /\ Len(telemetry') \in {epoch, epoch + 1}
          /\ \A e \in 1 .. epoch : telemetry'[e].callbacks >= telemetry[e].callbacks
      BY <2>1 DEF TelemetryAdvanced
    <3>. DEFINE now == Len(telemetry')
    <3>4. epoch \in Nat /\ DOMAIN telemetry' = 1 .. now /\ now \in {epoch, epoch + 1}
      BY <1>2, <3>1
    <3>. HIDE DEF epoch, now
    <3>2. \A e \in 1 .. epoch : e \in DOMAIN telemetry'
      BY <3>4
    <3>. QED  BY <3>1, <3>2, ElementOfSeq, TelemetryTyped
  <2>3. DOMAIN telemetry' = 1 .. Len(telemetry') /\ Len(telemetry') \in {epoch, epoch + 1}
        /\ Len(telemetry') = epoch'
    BY <2>1 DEF TelemetryAdvanced, epoch
  <2>4. \A f \in DOMAIN frames' :
           /\ frames'[f].epoch \in DOMAIN telemetry'
           /\ frames'[f].submission.sequence \in 1 .. telemetry'[frames'[f].epoch].callbacks
    <3>. SUFFICES ASSUME NEW f \in DOMAIN frames
                  PROVE  /\ frames[f].epoch \in DOMAIN telemetry'
                         /\ frames[f].submission.sequence \in
                               1 .. telemetry'[frames[f].epoch].callbacks
      BY <2>1
    <3>1. frames[f].epoch \in 1 .. epoch
          /\ frames[f].submission.sequence \in 1 .. telemetry[frames[f].epoch].callbacks
      BY <1>4
    <3>. QED  BY <1>2, <2>3, <3>1, <2>2
  <2>5. \A f, g \in DOMAIN frames' :
            /\ frames'[f].epoch = frames'[g].epoch
            /\ frames'[f].submission.sequence = frames'[g].submission.sequence
            => f = g
    BY <1>4, <2>1
  <2>6. CASE Interlude
    BY <2>6, <2>4, <2>5 DEF Interlude, Idle, Epochs
  <2>7. CASE Begins
    <3>1. callback'.sequence = telemetry'[Len(telemetry')].callbacks
          /\ telemetry'[Len(telemetry')].callbacks =
                IF Len(telemetry') = epoch THEN telemetry[epoch].callbacks + 1 ELSE 1
      BY <2>7 DEF Begins
    <3>2. telemetry[epoch].callbacks \in Nat
      BY <1>2
    <3>4. \A f \in DOMAIN frames' :
             frames'[f].epoch = epoch' => frames'[f].submission.sequence # callback'.sequence
      <4>. SUFFICES ASSUME NEW f \in DOMAIN frames, frames[f].epoch = epoch'
                    PROVE  frames[f].submission.sequence # callback'.sequence
        BY <2>1
      <4>. QED  BY <1>3, <2>3, <3>1, <3>2, <1>4, <1>2
    <3>. QED  BY <2>3, <2>4, <2>5, <3>1, <3>2, <3>4 DEF Epochs
  <2>. QED  BY <1>5, <2>6, <2>7
<1>6. CASE ~Begins /\ ~Interlude
  <2>1. /\ DOMAIN telemetry' = 1 .. epoch /\ epoch' = epoch
        /\ \A e \in 1 .. epoch : telemetry'[e].callbacks = telemetry[e].callbacks
    BY <1>2, <1>6, CallbacksCounted DEF epoch
  <2>2. /\ callback'.step # "idle" =>
              callback.step # "idle" /\ callback'.sequence = callback.sequence
        /\ callback'.step = "resolved" => callback' = callback
    BY <1>6, CallbackGoesOn
  <2>4. \A f \in DOMAIN frames :
           /\ f \in DOMAIN frames' /\ frames'[f].epoch = frames[f].epoch
           /\ frames'[f].submission.sequence = frames[f].submission.sequence
    BY TimesFrameKeeps, TimingStays DEF FrameChanged
  <2>5. \A f \in DOMAIN frames' \ DOMAIN frames :
           /\ f = building + 1 /\ frames' # frames
           /\ frames'[f].epoch = epoch /\ callback.step = "resolved"
           /\ frames'[f].submission.sequence = callback.sequence
    BY TimesFrameKeeps, TimingStays DEF FrameChanged
  <2>6. \A f \in DOMAIN frames' :
           /\ frames'[f].epoch \in DOMAIN telemetry'
           /\ frames'[f].submission.sequence \in 1 .. telemetry'[frames'[f].epoch].callbacks
    <3>. TAKE f \in DOMAIN frames'
    <3>1. CASE f \in DOMAIN frames
      BY <1>4, <2>1, <2>4, <3>1
    <3>2. CASE f \notin DOMAIN frames
      BY <1>2, <1>4, <2>1, <2>5, <3>2
    <3>. QED  BY <3>1, <3>2
  <2>8. callback'.step = "resolved" =>
          \A f \in DOMAIN frames' :
              frames'[f].epoch = epoch' => frames'[f].submission.sequence # callback'.sequence
    <3>. SUFFICES ASSUME callback'.step = "resolved", NEW f \in DOMAIN frames',
                         frames'[f].epoch = epoch'
                  PROVE  frames'[f].submission.sequence # callback'.sequence
      OBVIOUS
    <3>2. f \in DOMAIN frames
      <4>1. CASE DOMAIN frames' = DOMAIN frames
        BY <4>1
      <4>2. CASE Drops \/ \E b \in 1 .. BufferCount : Acquires(b)
        BY <1>1, StepTyped, <4>2 DEF Drops, Idle, Acquires, TypeOK, Steps
      <4>3. DOMAIN frames' = DOMAIN frames \/ Drops \/ \E b \in 1 .. BufferCount : Acquires(b)
        <5>1. CASE DrainsColumn
          BY <5>1, ColumnSteps DEF UploadsPrepared, FrameChanged
        <5>2. CASE \/ \E g \in DOMAIN frames, ok \in BOOLEAN : Ran(g, ok)
                   \/ \E g \in DOMAIN frames :
                         Publishes(g) \/ Opens(g) \/ Releases(g) \/ TimesFrame(g)
          BY <5>2 DEF Ran, Publishes, Opens, Releases, Handles, TimesFrame, LateCallback, FrameChanged
        <5>3. CASE \/ Abandons \/ StartsDrain \/ DrainsMarker \/ Prepares
                   \/ CommitUploads \/ CommitDrawing \/ CommitUnencoded \/ UNCHANGED vars
          BY <5>3 DEF Abandons, StartsDrain, DrainsMarker, UploadsPrepared, Prepares,
             CommitUploads, CommitDrawing, CommitUnencoded, Committed, vars, FrameChanged
        <5>. QED  BY <1>6, <5>1, <5>2, <5>3 DEF StepEffect
      <4>. QED  BY <4>1, <4>2, <4>3
    <3>. QED  BY <1>4, <2>1, <2>4, <2>2, <3>2
  <2>. QED  BY <1>2, <1>4, <2>1, <2>2, <2>6, <2>4, <2>5, <2>8 DEF Epochs
<1>. QED  BY <1>5, <1>6

\* What a step leaves of the telemetry of one epoch
LEMMA TelemetrySteps ==
    ASSUME TypeInv, StepEffect
    PROVE  \/ telemetry' = telemetry
           \/ TelemetryAdvanced /\ frames' = frames
           \/ Skips(epoch) /\ (Drops \/ Abandons)
           \/ \E f \in DOMAIN frames : TimesFrame(f) /\ TelemetryChanged(frames[f].epoch)
<1>1. CASE Begins \/ Interlude
  BY <1>1 DEF Begins, Interlude
<1>2. CASE Drops \/ Abandons
  BY <1>2 DEF Drops, Abandons
<1>3. CASE \E f \in DOMAIN frames : TimesFrame(f)
  BY <1>3 DEF TimesFrame
<1>4. CASE DrainsColumn
  BY <1>4, ColumnSteps
<1>5. CASE \/ \E f \in DOMAIN frames, ok \in BOOLEAN : Ran(f, ok)
           \/ \E f \in DOMAIN frames : Publishes(f) \/ Opens(f) \/ Releases(f)
           \/ \E b \in 1 .. BufferCount : Acquires(b)
  BY <1>5 DEF Ran, Publishes, Opens, Releases, Handles, Acquires
<1>6. CASE \/ StartsDrain \/ DrainsMarker \/ Prepares
           \/ CommitUploads \/ CommitDrawing \/ CommitUnencoded \/ UNCHANGED vars
  BY <1>6 DEF StartsDrain, DrainsMarker, DrainTurn, Prepares,
       CommitUploads, CommitDrawing, CommitUnencoded, Committed, vars
<1>. QED  BY <1>1, <1>2, <1>3, <1>4, <1>5, <1>6 DEF StepEffect

\* The histories of one epoch a callback of a frame changes
LEMMA FrameTelemetry ==
    ASSUME TypeInv, NEW f \in DOMAIN frames, TimesFrame(f),
           TelemetryChanged(frames[f].epoch)
    PROVE  LET e == frames[f].epoch
           IN  \/ SamePresented(e) /\ SameSamples(e)
               \/ /\ Emits(f) /\ SamePresented(e)
                  /\ telemetry'[e].latency =
                        WithSample(telemetry[e].latency, frames'[f].submission.sample, budget.capacity)
                  /\ frames'[f].submission.sample \in SampleRecords
               \/ /\ ShowsFrame(f) /\ SameSamples(e)
                  /\ telemetry'[e].shown =
                        WithShown(telemetry[e].shown,
                                  [sequence |-> frames[f].submission.sequence,
                                   time |-> frames[f].submission.presented], budget.capacity)
<1>1. frames[f].submission \in Submissions
  BY FramesTyped, FieldsTyped DEF TypeInv, TypeOK
<1>2. CASE TimesGpu(f) \/ TimesPresentation(f)
  BY <1>2 DEF TimesGpu, TimesPresentation, SamePresented, SameSamples
<1>3. CASE SkipsFrame(f)
  BY <1>3 DEF SkipsFrame, Skips, SamePresented, SameSamples
<1>4. CASE Emits(f)
  <2>1. frames'[f].submission = Emitted(frames[f].submission)
    BY <1>4 DEF Emits
  <2>2. frames'[f].submission.sample \in SampleRecords
    <3>. DEFINE s == frames[f].submission
    <3>1. s \in Submissions /\ frames'[f].submission = Emitted(s)
      BY <1>1, <2>1
    <3>. HIDE DEF s
    <3>2. Emitted(s).sample = classifyFrameLatency(s) /\ classifyFrameLatency(s) \in SampleRecords
      BY <3>1, SubmissionFields, SubmissionsTyped, 0 \in Nat
    <3>. QED  BY <3>1, <3>2
  <2>. QED  BY <1>4, <2>2 DEF Emits
<1>5. CASE ShowsFrame(f)
  BY <1>1, <1>5, ShownRecorded DEF Submissions, ShowsFrame
<1>. QED  BY <1>2, <1>3, <1>4, <1>5 DEF TimesFrame

LEMMA BudgetKept ==
    ASSUME TypeInv, StepEffect
    PROVE  budget' = budget
<1>1. CASE DrainsColumn
  BY <1>1, ColumnSteps
<1>2. CASE \E f \in DOMAIN frames : TimesFrame(f)
  BY <1>2, TimesFrameKeeps DEF owner
<1>3. CASE \/ \E f \in DOMAIN frames, ok \in BOOLEAN : Ran(f, ok)
           \/ \E f \in DOMAIN frames : Publishes(f) \/ Opens(f) \/ Releases(f)
           \/ \E b \in 1 .. BufferCount : Acquires(b)
  BY <1>3 DEF Ran, Publishes, Opens, Releases, Handles, Acquires, owner
<1>4. CASE \/ Begins \/ Drops \/ Abandons \/ Interlude
           \/ StartsDrain \/ DrainsMarker \/ Prepares
           \/ CommitUploads \/ CommitDrawing \/ CommitUnencoded \/ UNCHANGED vars
  BY <1>4 DEF Begins, Drops, Abandons, Interlude, StartsDrain, DrainsMarker, DrainTurn, Prepares,
       CommitUploads, CommitDrawing, CommitUnencoded, Committed, vars, owner
<1>. QED  BY <1>1, <1>2, <1>3, <1>4 DEF StepEffect

LEMMA SortedKept ==
    ASSUME TypeInv, StepEffect
    PROVE  HistoriesSorted'
<1>1. /\ TypeOK /\ Epochs /\ HistoriesSorted /\ SharedOK /\ OwnerOK
  BY DEF TypeInv, TypeOK
<1>2. budget' = budget /\ budget.capacity \in Nat \ {0}
  BY <1>1, BudgetKept, CapacityTyped, RendererAssumption
<1>3. \A e \in DOMAIN telemetry : telemetry[e].latency \in Seq(SampleRecords)
                                  /\ telemetry[e].shown \in Seq(ShownFrames)
  BY <1>1, EpochTyped, TelemetryTyped
<1>. DEFINE Sorted(t) == /\ SamplesSorted(t.latency) /\ Len(t.latency) <= budget.capacity
                         /\ FramesSorted(t.shown) /\ Len(t.shown) <= budget.capacity
<1>4. \A e \in DOMAIN telemetry : Sorted(telemetry[e])
  BY <1>1 DEF HistoriesSorted
<1>5. SUFFICES ASSUME NEW e \in DOMAIN telemetry' PROVE Sorted(telemetry'[e])
  BY <1>2 DEF HistoriesSorted
<1>6. CASE telemetry' = telemetry
  BY <1>4, <1>6
<1>7. CASE TelemetryAdvanced
  <2>1. CASE e \in 1 .. epoch
    BY <1>7, <2>1, <1>4 DEF TelemetryAdvanced, SameCounts, SamePresented, SameSamples
  <2>2. CASE e \notin 1 .. epoch
    <3>1. telemetry'[e].latency = <<>> /\ telemetry'[e].shown = <<>>
      <4>. DEFINE now == Len(telemetry')
      <4>2. now = epoch + 1 => telemetry'[epoch + 1].latency = <<>>
                               /\ telemetry'[epoch + 1].shown = <<>>
        BY <1>7 DEF TelemetryAdvanced
      <4>. HIDE DEF now, epoch
      <4>. QED  BY <2>2, <1>7, <4>2 DEF TelemetryAdvanced
    <3>. QED  BY <1>2, <3>1 DEF SamplesSorted, FramesSorted
  <2>. QED  BY <2>1, <2>2
<1>8. CASE Skips(epoch)
  BY <1>8, <1>4 DEF Skips, TelemetryChanged, SamePresented, SameSamples
<1>9. CASE \E f \in DOMAIN frames : TimesFrame(f) /\ TelemetryChanged(frames[f].epoch)
  <2>1. PICK f \in DOMAIN frames : TimesFrame(f) /\ TelemetryChanged(frames[f].epoch)
    BY <1>9
  <2>2. e \in DOMAIN telemetry /\ (e # frames[f].epoch => telemetry'[e] = telemetry[e])
    BY <2>1 DEF TelemetryChanged
  <2>3. CASE e # frames[f].epoch
    BY <1>4, <2>2, <2>3
  <2>4. CASE e = frames[f].epoch
    <3>1. CASE SamePresented(e) /\ SameSamples(e)
      BY <1>4, <2>2, <3>1 DEF SamePresented, SameSamples
    <3>2. CASE /\ SamePresented(e)
               /\ telemetry'[e].latency = WithSample(telemetry[e].latency,
                                             frames'[f].submission.sample, budget.capacity)
               /\ frames'[f].submission.sample \in SampleRecords
      <4>. DEFINE h == telemetry[e].latency
                  x == frames'[f].submission.sample
                  n == budget.capacity
      <4>. HIDE DEF h, x, n
      <4>. QED  BY <1>4, <2>2, <3>2, <1>2, <1>3, SampleKept DEF SamePresented, n
    <3>3. CASE /\ SameSamples(e)
               /\ telemetry'[e].shown =
                     WithShown(telemetry[e].shown,
                               [sequence |-> frames[f].submission.sequence,
                                time |-> frames[f].submission.presented], budget.capacity)
      <4>. DEFINE h == telemetry[e].shown
                  x == [sequence |-> frames[f].submission.sequence,
                        time |-> frames[f].submission.presented]
                  n == budget.capacity
      <4>2. x \in ShownFrames
        BY <1>1, FramesTyped, FieldsTyped DEF Submissions, ShownFrames
      <4>3. h \in Seq(ShownFrames) /\ n \in Nat \ {0} /\ Len(h) <= n
            /\ FramesSorted(h) /\ telemetry'[e].shown = WithShown(h, x, n)
        BY <1>2, <1>3, <1>4, <2>2, <3>3
      <4>. HIDE DEF h, x, n
      <4>. QED  BY <1>4, <2>2, <3>3, <4>3, <4>2, FrameKept DEF SameSamples, n
    <3>. QED  BY <2>1, <2>4, <3>1, <3>2, <3>3, FrameTelemetry
  <2>. QED  BY <2>3, <2>4
<1>. QED  BY <1>6, <1>7, <1>8, <1>9, TelemetrySteps

LEMMA TypeKept ==
    ASSUME TypeInv, [Next]_vars
    PROVE  StepEffect /\ TypeInv'
<1>1. StepEffect
  BY StepEffects
<1>5. StagingMatches' /\ QueuedTextures' /\ TexturesFollow'
  BY <1>1, RowsKept, TexturesKept
<1>6. PresentedLast' /\ Epochs' /\ HistoriesSorted'
  BY <1>1, PresentedStays, EpochsKept, SortedKept
<1>. QED  BY <1>1, NextTyped, BuildingKept, SlotsKept, QueueKept, <1>5, <1>6 DEF TypeInv

LEMMA TypeInit ==
    ASSUME Init
    PROVE  TypeInv
<1>1. /\ frames = <<>> /\ queue = <<>> /\ callback = Idle /\ telemetry = <<FreshTelemetry>>
      /\ texels = <<BlankTexture(0)>> /\ gate = ClosedGate /\ budget \in Budgets
  BY DEF Init
<1>2. DOMAIN frames = {} /\ DOMAIN queue = {} /\ ~Building /\ callback.step = "idle"
  BY <1>1 DEF Building, BuildingSteps, Idle
<1>3. OwnerOK
  <2>4. pending \in [upload : Uploads, transaction : Nat]
    BY DEF Init, NoUpload, Uploads
  <2>6. settings \in [columns : ColumnCounts, clear : BOOLEAN]
    BY <1>1, RendererAssumption DEF Init
  <2>7. active \in BOOLEAN /\ resets \in Nat
        /\ stream \in [sequence : Nat, slot : Nat, generation : Nat \ {0}]
    BY DEF Init
  <2>. QED
    BY <1>1, IdleTyped, <2>4, <2>6, <2>7 DEF OwnerOK, Init, Histories, EmptyRing, Rings,
       NoSignature, Signatures
<1>4. FreshTelemetry \in Telemetries
  BY DEF FreshTelemetry, Telemetries
<1>5. /\ telemetry \in Seq(Telemetries) /\ Len(telemetry) = 1 /\ DOMAIN telemetry = {1}
      /\ telemetry[1] = FreshTelemetry
  <2>. DEFINE t == FreshTelemetry
  <2>1. t \in Telemetries /\ telemetry = <<t>>
    BY <1>1, <1>4
  <2>. HIDE DEF t
  <2>. QED  BY <2>1 DEF t
<1>6. texels \in Seq(Textures) /\ Len(texels) = 1
  <2>. DEFINE t == BlankTexture(0)
  <2>2. t \in Textures
    BY 0 \in Nat DEF Textures, BlankTexture, BlankTexel, Texels
  <2>3. texels = <<t>>
    BY <1>1
  <2>. HIDE DEF t
  <2>. QED  BY <2>2, <2>3
<1>7. SharedOK
  BY <1>1, <1>5, <1>6 DEF ClosedGate, SharedOK, FreshSlot, SlotStates, Init
<1>9. TexturesFollow
  BY <1>2, <1>6 DEF Init, TexturesFollow
<1>10. PresentedLast /\ Epochs
  BY <1>2 DEF PresentedLast, Epochs
<1>11. HistoriesSorted
  BY <1>5, <1>3, CapacityTyped, RendererAssumption DEF FreshTelemetry, HistoriesSorted,
     SamplesSorted, FramesSorted
<1>. QED
  BY <1>3, <1>7, <1>2, <1>9, <1>10, <1>11 DEF TypeInv, TypeOK, BuildingFrame, SlotsHeld,
     QueueInOrder, StagingMatches, QueuedTextures

(***************************************************************************)
(* The upload in flight and the gate                                       *)
(***************************************************************************)
\* A frame keeps its side of the gate
GateSide(f) ==
    /\ frames'[f].transaction = frames[f].transaction
    /\ frames[f].transaction # 0 =>
          \/ /\ frames'[f].completion = frames[f].completion
             /\ frames'[f].succeeded = frames[f].succeeded
          \/ /\ {frames[f].completion, frames'[f].completion} \subseteq BehindGate
             /\ frames'[f].succeeded = frames[f].succeeded
          \/ {frames[f].completion, frames'[f].completion} \subseteq {"queued", "ran"}
    /\ frames'[f].completion \in {"published", "opened"} => frames'[f].transaction # 0

LEMMA GateStays ==
    ASSUME GateFollows, gate' = gate, pending' = pending,
           DOMAIN frames \subseteq DOMAIN frames',
           pending.transaction \in Nat,
           \A f \in DOMAIN frames : GateSide(f),
           \A f \in DOMAIN frames' \ DOMAIN frames :
              frames'[f].transaction = 0 /\ frames'[f].completion = "none"
    PROVE  GateFollows'
<1>1. \A f \in DOMAIN frames' : frames'[f].transaction # 0 =>
         f \in DOMAIN frames /\ frames'[f].transaction = frames[f].transaction
  BY DEF GateSide
<1>2. \A f \in DOMAIN frames' : UploadFrame(f)' => f \in DOMAIN frames /\ UploadFrame(f)
  BY <1>1 DEF UploadFrame
<1>3. \A f \in DOMAIN frames : UploadFrame(f)' <=> UploadFrame(f)
  BY <1>1 DEF UploadFrame, GateSide
<1>5. \A f \in DOMAIN frames' :
        UploadFrame(f)' =>
           \/ frames'[f].completion \in {"queued", "ran"} /\ gate.inFlight
           \/ frames'[f].completion = "published" /\ gate.inFlight /\ Answered(f)'
           \/ frames'[f].completion \in BehindGate /\ ~gate.inFlight /\ Answered(f)'
  <2>. SUFFICES ASSUME NEW f \in DOMAIN frames', UploadFrame(f)'
                PROVE  \/ frames'[f].completion \in {"queued", "ran"} /\ gate.inFlight
                       \/ frames'[f].completion = "published" /\ gate.inFlight /\ Answered(f)'
                       \/ frames'[f].completion \in BehindGate /\ ~gate.inFlight /\ Answered(f)'
    OBVIOUS
  <2>1. f \in DOMAIN frames /\ UploadFrame(f) /\ GateSide(f)
    BY <1>2
  <2>. QED  BY <2>1 DEF GateSide, Answered, BehindGate, GateFollows, UploadFrame
<1>7. \A f \in DOMAIN frames' :
         frames'[f].completion \in {"published", "opened"} => frames'[f].transaction # 0
  BY DEF GateSide
<1>8. \A f \in DOMAIN frames' : frames'[f].transaction <= pending.transaction
  <2>. TAKE f \in DOMAIN frames'
  <2>1. CASE f \in DOMAIN frames
    BY <2>1 DEF GateFollows, GateSide
  <2>2. CASE f \notin DOMAIN frames
    BY <2>2
  <2>. QED  BY <2>1, <2>2
<1>9. \A f, g \in DOMAIN frames' :
        frames'[f].transaction = frames'[g].transaction /\ frames'[f].transaction # 0 => f = g
  <2>. SUFFICES ASSUME NEW f \in DOMAIN frames', NEW g \in DOMAIN frames',
                       frames'[f].transaction = frames'[g].transaction, frames'[f].transaction # 0
                PROVE  f = g
    OBVIOUS
  <2>. QED  BY <1>1 DEF GateFollows
<1>. QED  BY <1>3, <1>5, <1>1, <1>7, <1>8, <1>9 DEF GateFollows, GateSide, BehindGate

\* The gate opened: the answer is in, and the record of the upload goes
LEMMA GateRead ==
    ASSUME TypeInv, GateFollows, Begins
    PROVE  GateFollows'
<1>1. frames' = frames /\ pending \in [upload : Uploads, transaction : Nat]
      /\ gate \in [inFlight : BOOLEAN, transaction : Nat, completed : Nat, succeeded : BOOLEAN]
  BY DEF Begins, TypeInv, TypeOK, OwnerOK, SharedOK
<1>2. CASE gate.inFlight
  BY <1>2, <1>1, GateStays DEF Begins, GateSide, GateFollows
<1>3. CASE ~gate.inFlight
  <2>2. pending'.upload = NoUpload /\ NoUpload.transaction = 0
        /\ pending'.transaction = pending.transaction
        /\ ~gate'.inFlight /\ gate'.completed = 0
    BY <1>1, <1>3 DEF NoUpload, Begins
  <2>4. \A f \in DOMAIN frames :
           frames[f].transaction # 0 => frames[f].completion \in BehindGate
    BY <1>3 DEF GateFollows
  <2>. QED  BY <1>1, <2>2, <2>4 DEF GateFollows, UploadFrame
<1>. QED  BY <1>2, <1>3

\* An upload begins when no other is pending
LEMMA GateBegun ==
    ASSUME TypeInv, GateFollows, UploadsBelong, CommitUploads
    PROVE  GateFollows' /\ pending.upload = NoUpload
<1>1. /\ TypeOK /\ BuildingFrame /\ SlotsHeld
      /\ pending \in [upload : Uploads, transaction : Nat]
      /\ gate \in [inFlight : BOOLEAN, transaction : Nat, completed : Nat, succeeded : BOOLEAN]
  BY DEF TypeInv, TypeOK, OwnerOK, SharedOK
<1>2. /\ Committed(TRUE, pending.transaction + 1) /\ frames[building].uploads # <<>>
      /\ pending'.transaction = pending.transaction + 1
      /\ pending'.upload.transaction = pending.transaction + 1
      /\ gate' = Begun(gate, pending.transaction + 1)
  BY DEF CommitUploads
<1>3. Building /\ callback.step = "prepared" /\ FrameChanged(building)
      /\ frames'[building].transaction = pending.transaction + 1
      /\ frames'[building].completion = "queued"
  BY <1>2 DEF Committed
<1>4. building \in DOMAIN frames
  BY <1>1, <1>3, BuildingTyped
<1>5. pending.upload = NoUpload
  BY <1>2, <1>3 DEF UploadsBelong, Building, BuildingSteps
<1>. DEFINE T == pending.transaction + 1
<1>6. T \in Nat /\ T # 0 /\ NoUpload.transaction = 0 /\ pending.transaction < T
  BY <1>1 DEF NoUpload
<1>7. \A f \in DOMAIN frames : f # building =>
         /\ frames'[f] = frames[f] /\ frames[f].transaction <= pending.transaction
         /\ frames[f].transaction # T
         /\ frames[f].transaction # 0 => frames[f].completion \in BehindGate
  BY <1>5, <1>6, FramesTyped, FieldsTyped, <1>1, <1>3 DEF UploadFrame, TypeInv, TypeOK, GateFollows,
     FrameChanged
<1>. HIDE DEF T
<1>10. frames'[building].transaction = T /\ pending'.upload.transaction = T
       /\ pending'.transaction = T
  BY <1>2, <1>3 DEF T
<1>11. \A f \in DOMAIN frames' : UploadFrame(f)' <=> f = building
  BY <1>3, <1>4, <1>6, <1>7, <1>10 DEF UploadFrame, FrameChanged
<1>12. DOMAIN frames' = DOMAIN frames /\ building \in DOMAIN frames'
  BY <1>3, <1>4 DEF FrameChanged
<1>13. \A f \in DOMAIN frames' :
         UploadFrame(f)' => frames'[f].completion \in {"queued", "ran"} /\ gate'.inFlight
  BY <1>3, <1>1, <1>2, <1>11 DEF Begun
<1>14. \A f \in DOMAIN frames' :
         frames'[f].transaction # 0 /\ ~UploadFrame(f)' => frames'[f].completion \in BehindGate
  BY <1>7, <1>11, <1>12
<1>15. \A f \in DOMAIN frames' :
          frames'[f].completion \in {"published", "opened"} => frames'[f].transaction # 0
  BY <1>3, <1>7, <1>12 DEF GateFollows
<1>16. \A f \in DOMAIN frames' : frames'[f].transaction <= T
  <2>. TAKE f \in DOMAIN frames'
  <2>1. CASE f = building
    BY <1>6, <1>10, <2>1
  <2>2. CASE f # building
    BY <1>12, FramesTyped, FieldsTyped, <1>7, <2>2, <1>1, <1>6 DEF TypeInv, TypeOK
  <2>. QED  BY <2>1, <2>2
<1>17. \A f, g \in DOMAIN frames' :
        frames'[f].transaction = frames'[g].transaction /\ frames'[f].transaction # 0 => f = g
  BY <1>7, <1>10, <1>12 DEF GateFollows
<1>18. \E f \in DOMAIN frames' : UploadFrame(f)'
  BY <1>11, <1>12
<1>19. GateFollows'
  BY <1>6, <1>2, <1>10, <1>13, <1>14, <1>15, <1>16, <1>17, <1>18 DEF GateFollows
<1>. QED  BY <1>5, <1>19

\* The completed handler publishes the result of the upload, then opens the gate
LEMMA GateAnswered ==
    ASSUME TypeInv, GateFollows, NEW f \in DOMAIN frames, Publishes(f) \/ Opens(f)
    PROVE  GateFollows'
<1>1. gate \in [inFlight : BOOLEAN, transaction : Nat, completed : Nat, succeeded : BOOLEAN]
      /\ \A g \in DOMAIN frames : frames[g].transaction \in Nat /\ frames[g].succeeded \in BOOLEAN
  BY FramesTyped, FieldsTyped DEF TypeInv, TypeOK, SharedOK
<1>2. /\ pending' = pending /\ FrameChanged(f) /\ SameWork(f)
      /\ \/ frames[f].completion = "ran" /\ frames'[f].completion = "published"
            /\ frames[f].transaction # 0
            /\ gate' = ResultPublished(gate, frames[f].transaction, frames[f].succeeded)
         \/ frames[f].completion = "published" /\ frames'[f].completion = "opened"
            /\ gate' = Opened(gate)
  BY DEF Publishes, Opens, Handles, owner
<1>3. frames[f].transaction # 0 /\ UploadFrame(f)
  BY <1>2 DEF GateFollows, BehindGate
<1>4. pending.upload # NoUpload
  BY <1>3 DEF UploadFrame, NoUpload
<1>5. DOMAIN frames' = DOMAIN frames
      /\ \A g \in DOMAIN frames : /\ frames'[g].transaction = frames[g].transaction
                                  /\ UploadFrame(g)' <=> UploadFrame(g)
                                  /\ g # f => frames'[g] = frames[g] /\ ~UploadFrame(g)
  BY <1>2, <1>3 DEF FrameChanged, SameWork, UploadFrame, GateFollows
<1>6. \/ frames'[f].completion = "published" /\ gate'.inFlight /\ Answered(f)'
      \/ frames'[f].completion \in BehindGate /\ ~gate'.inFlight /\ Answered(f)'
  <2>1. CASE frames[f].completion = "ran"
    <3>. DEFINE ok == frames[f].succeeded
                n == frames[f].transaction
    <3>3. frames'[f].succeeded = ok /\ frames'[f].transaction = n
          /\ gate' = [gate EXCEPT !.succeeded = ok, !.completed = n, !.transaction = 0]
      BY <1>2, <2>1 DEF SameWork, ResultPublished
    <3>. HIDE DEF ok, n
    <3>. QED  BY <1>2, <2>1, <3>3, <1>1, <1>3 DEF Answered, GateFollows, BehindGate
  <2>2. CASE frames[f].completion = "published"
    BY <1>3, <2>2, <1>2, <1>1, <1>5 DEF GateFollows, BehindGate, Opened, SameWork, Answered
  <2>. QED  BY <1>2, <2>1, <2>2
<1>9. \A g \in DOMAIN frames' :
         frames'[g].completion \in {"published", "opened"} => frames'[g].transaction # 0
  BY <1>3, <1>5 DEF GateFollows
<1>10. \A g \in DOMAIN frames' : frames'[g].transaction <= pending.transaction
  BY <1>5 DEF GateFollows
<1>11. \A g, h \in DOMAIN frames' :
        frames'[g].transaction = frames'[h].transaction /\ frames'[g].transaction # 0 => g = h
  BY <1>5 DEF GateFollows
<1>12. /\ pending.upload.transaction # 0
       /\ pending.upload.transaction = pending.transaction
       /\ \E g \in DOMAIN frames' : UploadFrame(g)'
  BY <1>3, <1>4, <1>5 DEF GateFollows
<1>. QED  BY <1>2, <1>4, <1>5, <1>6, <1>3, <1>9, <1>10, <1>11, <1>12 DEF GateFollows

LEMMA GateKept ==
    ASSUME TypeInv, GateFollows, UploadsBelong, StepEffect
    PROVE  GateFollows'
<1>1. /\ TypeOK /\ BuildingFrame /\ SlotsHeld
      /\ Len(frames) \in Nat /\ DOMAIN frames = 1 .. Len(frames)
      /\ pending.transaction \in Nat
  BY FramesTyped DEF TypeInv, TypeOK, OwnerOK
<1>2. Building => /\ building \in DOMAIN frames /\ frames[building].completion = "none"
                  /\ frames[building].transaction = 0
  BY <1>1, BuildingTyped
<1>3. \A f \in DOMAIN frames :
         frames[f].completion \in {"published", "opened"} => frames[f].transaction # 0
  BY DEF GateFollows
<1>4. ASSUME NEW f, FrameChanged(f), gate' = gate, pending' = pending,
             f \in DOMAIN frames => GateSide(f)
      PROVE  GateFollows'
  BY <1>3, <1>4, <1>1, GateStays DEF FrameChanged, GateSide
<1>5. CASE StartsDrain \/ Interlude \/ UNCHANGED vars
  BY <1>5, <1>3, <1>1, GateStays DEF StartsDrain, Interlude, vars, shared, GateSide
<1>6. CASE Begins
  BY <1>6, GateRead
<1>7. CASE CommitUploads
  BY <1>7, GateBegun
<1>8. CASE \E f \in DOMAIN frames : Publishes(f) \/ Opens(f)
  BY <1>8, GateAnswered
<1>9. CASE Drops \/ \E b \in 1 .. BufferCount : Acquires(b)
  <2>1. \E r : FrameAdded(r) /\ r.transaction = 0 /\ r.completion = "none"
    <3>1. CASE Drops
      <4>1. PICK r : FrameAdded(r) /\ FreshFrame(r, 0)
        BY <3>1 DEF Drops
      <4>. QED  BY <4>1 DEF FreshFrame
    <3>2. CASE \E b \in 1 .. BufferCount : Acquires(b)
      <4>1. PICK b \in 1 .. BufferCount : Acquires(b)
        BY <3>2
      <4>. DEFINE r == NewFrame(b)
      <4>2. FreshFrame(r, b)
        BY <1>1, NewFrameTyped
      <4>3. FrameAdded(r)
        BY <4>1 DEF Acquires
      <4>. HIDE DEF r
      <4>. QED  BY <4>2, <4>3 DEF FreshFrame
    <3>. QED  BY <1>9, <3>1, <3>2
  <2>4. \A f \in DOMAIN frames' \ DOMAIN frames :
           frames'[f].transaction = 0 /\ frames'[f].completion = "none"
    BY <2>1 DEF FrameAdded
  <2>5. DOMAIN frames \subseteq DOMAIN frames'
    BY <2>1 DEF FrameAdded
  <2>. QED
    BY <1>1, <1>9, <1>3, <2>1, <2>4, <2>5, GateStays DEF Drops, Acquires, shared, owner, GateSide,
       FrameAdded
<1>10. CASE \/ Abandons \/ CommitDrawing \/ CommitUnencoded
            \/ DrainsMarker \/ DrainsColumn \/ Prepares
  <2>1. /\ FrameChanged(building) /\ Building /\ gate' = gate /\ pending' = pending
        /\ frames'[building].completion \in {"none", "queued"}
    <3>1. CASE Abandons
      BY <3>1 DEF Abandons
    <3>2. CASE CommitDrawing \/ CommitUnencoded
      BY <3>2 DEF CommitDrawing, CommitUnencoded, Committed
    <3>3. CASE DrainsMarker \/ Prepares
      BY <1>2, <3>3 DEF DrainsMarker, UploadsPrepared, DrainTurn, Prepares, owner
    <3>4. CASE DrainsColumn
      BY <1>2, <3>4, ColumnSteps DEF UploadsPrepared
    <3>. QED  BY <1>10, <3>1, <3>2, <3>3, <3>4
  <2>2. frames'[building].transaction = frames[building].transaction
    BY <1>2, <1>10, <2>1, ColumnSteps DEF Abandons, SameWork, CommitDrawing, CommitUnencoded, Committed,
       DrainsMarker, UploadsPrepared, Prepares
  <2>. QED  BY <1>4, <2>1, <1>2, <2>2 DEF GateSide
<1>11. CASE \E f \in DOMAIN frames, ok \in BOOLEAN : Ran(f, ok)
  <2>1. PICK f \in DOMAIN frames, ok \in BOOLEAN : Ran(f, ok)
    BY <1>11
  <2>. QED  BY <1>4, <2>1 DEF Ran, shared, owner, GateSide
<1>12. CASE \E f \in DOMAIN frames : Releases(f)
  <2>1. PICK f \in DOMAIN frames : Releases(f)
    BY <1>12
  <2>. QED  BY <1>4, <2>1 DEF Releases, Handles, SameWork, owner, GateSide, BehindGate
<1>13. CASE \E f \in DOMAIN frames : TimesFrame(f)
  <2>1. PICK f \in DOMAIN frames : TimesFrame(f)
    BY <1>13
  <2>. QED
    BY <1>4, <2>1, <1>3 DEF TimesFrame, LateCallback, shared, owner, LateStages, SameWork, GateSide,
       BehindGate
<1>. QED
  BY <1>5, <1>6, <1>7, <1>8, <1>9, <1>10, <1>11, <1>12, <1>13 DEF StepEffect

LEMMA UploadsKept ==
    ASSUME TypeInv, GateFollows, UploadsBelong, StepEffect
    PROVE  UploadsBelong'
<1>1. /\ TypeOK /\ BuildingFrame /\ SlotsHeld
      /\ Len(frames) \in Nat /\ DOMAIN frames = 1 .. Len(frames)
      /\ pending \in [upload : Uploads, transaction : Nat]
      /\ callback \in [step : Steps, deferred : BOOLEAN, sequence : Nat, drained : Nat]
  BY FramesTyped DEF TypeInv, TypeOK, OwnerOK
<1>2. Building => /\ building \in DOMAIN frames /\ frames[building].completion = "none"
                  /\ frames[building].transaction = 0
  BY <1>1, BuildingTyped
<1>. DEFINE Queued == \A f \in DOMAIN frames :
                         /\ frames[f].completion = "queued" =>
                               /\ frames[f].uploads # <<>> => frames[f].transaction # 0
                               /\ UploadFrame(f) =>
                                     ColumnsOf(frames[f].uploads) = pending.upload.columns
                         /\ frames[f].completion \notin {"none", "queued"} =>
                               frames[f].uploads = <<>>
            Deferred == callback.step \in BuildingSteps \cup {"resolved"} =>
                           (callback.deferred <=> pending.upload # NoUpload)
            Nothing == Building /\ (callback.deferred \/ callback.step = "acquired")
                          => frames[building].uploads = <<>>
            Drained == callback.step \in {"draining", "drained"} => ~callback.deferred
<1>3. Queued /\ Deferred /\ Nothing /\ Drained
  BY DEF UploadsBelong
<1>4. SUFFICES Queued' /\ Deferred' /\ Nothing' /\ Drained'
  BY DEF UploadsBelong
\* One frame changes, and what it had to upload stays or goes
<1>5. ASSUME DOMAIN frames \subseteq DOMAIN frames', pending' = pending,
             \A f \in DOMAIN frames :
                /\ frames'[f].transaction = frames[f].transaction
                /\ \/ frames'[f].uploads = frames[f].uploads
                      /\ (frames'[f].completion = frames[f].completion
                          \/ {frames'[f].completion, frames[f].completion} \cap {"none", "queued"} = {})
                   \/ frames'[f].completion # "queued" /\ frames'[f].uploads = <<>>
                   \/ frames'[f].completion = "none"
                   \/ frames'[f].completion = "queued" /\ frames'[f].transaction = 0
                      /\ frames'[f].uploads = <<>>,
             \A f \in DOMAIN frames' \ DOMAIN frames : frames'[f].completion = "none"
      PROVE  Queued'
  <2>. SUFFICES ASSUME NEW f \in DOMAIN frames'
                PROVE  /\ frames'[f].completion = "queued" =>
                             /\ frames'[f].uploads # <<>> => frames'[f].transaction # 0
                             /\ UploadFrame(f)' =>
                                   ColumnsOf(frames'[f].uploads) = pending.upload.columns
                       /\ frames'[f].completion \notin {"none", "queued"} =>
                             frames'[f].uploads = <<>>
    BY <1>5
  <2>1. CASE f \notin DOMAIN frames
    BY <1>5, <2>1
  <2>2. CASE f \in DOMAIN frames
    <3>1. UploadFrame(f)' <=> UploadFrame(f)
      BY <1>5, <2>2 DEF UploadFrame
    <3>2. UploadFrame(f) => frames[f].transaction # 0
      BY DEF UploadFrame
    <3>. QED  BY <1>3, <1>5, <2>2, <3>1, <3>2
  <2>. QED  BY <2>1, <2>2
<1>6. CASE UNCHANGED vars
  BY <1>3, <1>6 DEF vars, UploadFrame, Building, building
<1>7. CASE Interlude
  BY <1>7, <1>3 DEF Interlude, shared, UploadFrame, Building, building
<1>8. CASE Begins
  <2>1. frames' = frames /\ callback'.step = "resolved" /\ callback'.deferred = gate.inFlight
    BY <1>8 DEF Begins
  <2>2. Nothing' /\ Drained'
    BY <2>1 DEF Building, BuildingSteps
  <2>3. CASE gate.inFlight
    BY <1>8, <2>3, <1>3, <2>1, <2>2 DEF Begins, UploadFrame, GateFollows
  <2>4. CASE ~gate.inFlight
    <3>2. pending'.upload = NoUpload /\ NoUpload.transaction = 0
      BY <1>1, <1>8, <2>4 DEF NoUpload, Begins
    <3>. QED  BY <2>2, <1>3, <2>1, <3>2, <2>4 DEF UploadFrame
  <2>. QED  BY <2>3, <2>4
<1>9. CASE StartsDrain
  BY <1>9, <1>1, StepTyped, <1>3 DEF StartsDrain, TypeOK, Steps, UploadFrame, BuildingSteps
<1>10. CASE \E b \in 1 .. BufferCount : Acquires(b)
  <2>1. PICK b \in 1 .. BufferCount : Acquires(b)
    BY <1>10
  <2>. DEFINE r == NewFrame(b)
  <2>2. FreshFrame(r, b)
    BY <1>1, NewFrameTyped
  <2>3. FrameAdded(r) /\ callback.step = "resolved" /\ pending' = pending
        /\ callback' = [callback EXCEPT !.step = "acquired"]
    BY <2>1 DEF Acquires, owner
  <2>. HIDE DEF r
  <2>5. /\ DOMAIN frames = 1 .. building /\ DOMAIN frames' = 1 .. building + 1
        /\ building' = building + 1
        /\ frames'[building + 1] = r /\ \A f \in 1 .. building : frames'[f] = frames[f]
        /\ building \in Nat
    BY <2>3 DEF FrameAdded, building
  <2>7. Nothing'
    BY <2>2, <2>5 DEF FreshFrame
  <2>. QED  BY <1>3, <2>3, <1>1, StepTyped, <2>5, <2>2, <1>5, <2>7 DEF TypeOK, Steps, FreshFrame
<1>11. CASE Drops
  <2>1. PICK r : FrameAdded(r) /\ FreshFrame(r, 0)
    BY <1>11 DEF Drops
  <2>2. pending' = pending /\ callback'.step = "idle" /\ ~Building'
    BY <1>11 DEF Drops, owner, Idle, Building, BuildingSteps
  <2>5. Queued'
    BY <1>5, <2>2, <2>1 DEF FrameAdded, FreshFrame
  <2>. QED  BY <2>2, <2>5 DEF BuildingSteps
<1>12. CASE Abandons \/ CommitDrawing \/ CommitUnencoded
  <2>1. /\ FrameChanged(building) /\ Building /\ pending' = pending
        /\ callback'.step = "idle" /\ ~Building'
        /\ \/ frames'[building].completion = "none"
           \/ frames'[building].completion = "queued" /\ frames'[building].uploads = <<>>
        /\ frames'[building].transaction = 0
    BY <1>2, <1>12 DEF Abandons, SameWork, Idle, Building, BuildingSteps, CommitDrawing,
       CommitUnencoded, Committed
  <2>. QED  BY <2>1, <1>2, <1>5 DEF BuildingSteps, FrameChanged
<1>13. CASE CommitUploads
  <2>1. /\ FrameChanged(building) /\ Building
        /\ callback'.step = "idle" /\ ~Building'
        /\ frames'[building].completion = "queued"
        /\ frames'[building].uploads = frames[building].uploads
        /\ frames'[building].transaction = pending.transaction + 1
        /\ pending'.upload.columns = ColumnsOf(frames[building].uploads)
        /\ pending'.upload.transaction = pending.transaction + 1
    BY <1>13 DEF CommitUploads, Committed, Idle, Building, BuildingSteps
  <2>2. pending.transaction + 1 # 0 /\ pending.transaction \in Nat
    BY <1>1
  <2>3. \A f \in DOMAIN frames : f # building => frames'[f] = frames[f] /\ ~UploadFrame(f)'
    <3>. SUFFICES ASSUME NEW f \in DOMAIN frames, f # building
                  PROVE  frames'[f] = frames[f] /\ ~UploadFrame(f)'
      OBVIOUS
    <3>. QED
      BY <2>1, <2>2, FramesTyped, FieldsTyped DEF FrameChanged, UploadFrame, TypeInv, TypeOK,
         GateFollows
  <2>4. Queued'
    <3>. SUFFICES ASSUME NEW f \in DOMAIN frames
                  PROVE  /\ frames'[f].completion = "queued" =>
                               /\ frames'[f].uploads # <<>> => frames'[f].transaction # 0
                               /\ UploadFrame(f)' =>
                                     ColumnsOf(frames'[f].uploads) = pending'.upload.columns
                         /\ frames'[f].completion \notin {"none", "queued"} =>
                               frames'[f].uploads = <<>>
      BY <2>1 DEF FrameChanged
    <3>1. CASE f = building
      BY <2>1, <2>2, <3>1
    <3>2. CASE f # building
      BY <1>3, <2>3, <3>2
    <3>. QED  BY <3>1, <3>2
  <2>. QED  BY <2>1, <2>4 DEF BuildingSteps
<1>14. CASE DrainsMarker \/ DrainsColumn
  BY <1>14, ColumnSteps, <1>2, <1>5, <1>3 DEF DrainsMarker, DrainTurn, UploadsPrepared, TurnStays,
     FrameChanged, Building, BuildingSteps
<1>15. CASE Prepares
  BY <1>15, <1>1, StepTyped, <1>2, <1>5, <1>3 DEF Prepares, owner, TypeOK, Steps, FrameChanged,
     building, Building, BuildingSteps
<1>16. CASE \/ \E f \in DOMAIN frames, ok \in BOOLEAN : Ran(f, ok)
            \/ \E f \in DOMAIN frames : Publishes(f) \/ Opens(f) \/ Releases(f) \/ TimesFrame(f)
  <2>1. PICK f \in DOMAIN frames :
           \/ \E ok \in BOOLEAN : Ran(f, ok)
           \/ Publishes(f) \/ Opens(f) \/ Releases(f) \/ TimesFrame(f)
    BY <1>16
  <2>2. FrameChanged(f) /\ callback' = callback /\ pending' = pending
        /\ frames'[f].transaction = frames[f].transaction
        /\ \/ frames'[f].uploads = frames[f].uploads
              /\ (frames'[f].completion = frames[f].completion
                  \/ {frames'[f].completion, frames[f].completion} \cap {"none", "queued"} = {})
           \/ frames'[f].completion # "queued" /\ frames'[f].uploads = <<>>
        /\ frames[f].completion # "none"
    <3>1. CASE \E ok \in BOOLEAN : Ran(f, ok)
      BY <3>1 DEF Ran, owner
    <3>2. CASE Publishes(f) \/ Opens(f) \/ Releases(f)
      BY <3>2 DEF Publishes, Opens, Releases, Handles, SameWork, owner
    <3>3. CASE TimesFrame(f)
      BY <3>3 DEF TimesFrame, LateCallback, LateStages, SameWork, owner
    <3>. QED  BY <2>1, <3>1, <3>2, <3>3
  <2>3. \A g \in DOMAIN frames : g # f => frames'[g] = frames[g]
    BY <2>2 DEF FrameChanged
  <2>7. Nothing'
    BY <1>2, <1>3, <2>2, <2>3 DEF FrameChanged, building, Building
  <2>. QED  BY <1>5, <2>2, <2>3, <2>7, <1>3 DEF FrameChanged
<1>. QED
  BY <1>6, <1>7, <1>8, <1>9, <1>10, <1>11, <1>12, <1>13, <1>14, <1>15, <1>16 DEF StepEffect

(***************************************************************************)
(* SuccessfulUploadIsKept: a record of an upload that clears the history   *)
(* is one of a frame that failed                                           *)
(***************************************************************************)
LEMMA UploadClears ==
    ASSUME TypeInv, GateFollows, BeginCallback, history'.revision # history.revision
    PROVE  \E f \in DOMAIN frames :
              /\ frames[f].transaction = pending.upload.transaction
              /\ ~frames[f].succeeded
<1>2. /\ ~gate.inFlight
      /\ Resolution(pending.upload, gate, history.revision, history.textureRevision)
            = "clearHistory"
  BY BeginCallbackEffect DEF TypeInv, TypeOK, OwnerOK
<1>3. pending.upload # NoUpload
  BY <1>2 DEF Resolution, GateFollows
<1>4. PICK f \in DOMAIN frames : UploadFrame(f)
  BY <1>3 DEF GateFollows
<1>5. Answered(f)
  BY <1>2, <1>4 DEF GateFollows
<1>. QED  BY <1>2, <1>3, <1>4, <1>5 DEF Answered, UploadFrame, Resolution

(***************************************************************************)
(* Outcomes                                                                *)
(***************************************************************************)
WithOutcome(e, outcome) ==
    {f \in DOMAIN frames : frames[f].epoch = e /\ frames[f].submission.outcome = outcome}

LEMMA OutcomesFinite ==
    ASSUME SharedOK, NEW e, NEW outcome
    PROVE  IsFiniteSet(WithOutcome(e, outcome)) /\ Cardinality(WithOutcome(e, outcome)) \in Nat
BY FramesTyped, FS_Interval, 1 \in Int, Len(frames) \in Int, FS_Subset, FS_CardinalityType DEF
   WithOutcome

\* No frame's outcome changes, and a new one has none
LEMMA OutcomesStay ==
    ASSUME DOMAIN frames \subseteq DOMAIN frames',
           \A f \in DOMAIN frames :
              /\ frames'[f].epoch = frames[f].epoch
              /\ frames'[f].submission.outcome = frames[f].submission.outcome,
           \A f \in DOMAIN frames' \ DOMAIN frames : frames'[f].submission.outcome = "unknown"
    PROVE  \A e : WithOutcome(e, "skipped")' = WithOutcome(e, "skipped")
               /\ WithOutcome(e, "presented")' = WithOutcome(e, "presented")
BY DEF WithOutcome

\* One frame has another outcome than before, or its first
LEMMA OutcomeMoves ==
    ASSUME NEW f \in DOMAIN frames', DOMAIN frames' = DOMAIN frames \cup {f},
           \A g \in DOMAIN frames : frames'[g].epoch = frames[g].epoch,
           \A g \in DOMAIN frames : g # f =>
              frames'[g].submission.outcome = frames[g].submission.outcome,
           NEW e, NEW outcome
    PROVE  /\ e = frames'[f].epoch /\ frames'[f].submission.outcome = outcome =>
                 WithOutcome(e, outcome)' = WithOutcome(e, outcome) \cup {f}
           /\ e # frames'[f].epoch \/ frames'[f].submission.outcome # outcome =>
                 WithOutcome(e, outcome)' = WithOutcome(e, outcome) \ {f}
BY DEF WithOutcome

\* ... and the sizes follow
LEMMA OutcomeCounts ==
    ASSUME SharedOK, NEW f \in DOMAIN frames', DOMAIN frames' = DOMAIN frames \cup {f},
           \A g \in DOMAIN frames : frames'[g].epoch = frames[g].epoch,
           \A g \in DOMAIN frames : g # f =>
              frames'[g].submission.outcome = frames[g].submission.outcome,
           NEW e, NEW outcome
    PROVE  LET before == f \in DOMAIN frames /\ frames[f].submission.outcome = outcome
               after  == frames'[f].submission.outcome = outcome
               count  == Cardinality(WithOutcome(e, outcome))
           IN  /\ count \in Nat
               /\ Cardinality(WithOutcome(e, outcome)') =
                     IF e = frames'[f].epoch /\ after /\ ~before THEN count + 1
                     ELSE IF e = frames'[f].epoch /\ before /\ ~after THEN count - 1
                     ELSE count
<1>. DEFINE S == WithOutcome(e, outcome)
<1>1. IsFiniteSet(S) /\ Cardinality(S) \in Nat
  BY OutcomesFinite
<1>2. f \in S <=> f \in DOMAIN frames /\ frames[f].submission.outcome = outcome
                  /\ frames'[f].epoch = e
  BY DEF WithOutcome
<1>3. /\ e = frames'[f].epoch /\ frames'[f].submission.outcome = outcome =>
            WithOutcome(e, outcome)' = S \cup {f}
      /\ e # frames'[f].epoch \/ frames'[f].submission.outcome # outcome =>
            WithOutcome(e, outcome)' = S \ {f}
  BY OutcomeMoves
<1>. HIDE DEF S
<1>6. CASE e = frames'[f].epoch /\ frames'[f].submission.outcome = outcome
  BY <1>1, <1>2, <1>3, FS_AddElement, <1>6 DEF S
<1>7. CASE e # frames'[f].epoch \/ frames'[f].submission.outcome # outcome
  BY <1>1, <1>2, <1>3, FS_RemoveElement, <1>7 DEF S
<1>. QED  BY <1>6, <1>7

LEMMA OutcomesSame ==
    ASSUME OutcomesCountedOnce, SharedOK,
           DOMAIN telemetry' = DOMAIN telemetry,
           \A e \in DOMAIN telemetry :
              /\ telemetry'[e].skipped = telemetry[e].skipped
              /\ telemetry'[e].presented = telemetry[e].presented,
           \A e : WithOutcome(e, "skipped")' = WithOutcome(e, "skipped")
               /\ WithOutcome(e, "presented")' = WithOutcome(e, "presented")
    PROVE  OutcomesCountedOnce'
<1>1. ASSUME NEW e \in DOMAIN telemetry
      PROVE  /\ telemetry'[e].skipped = Cardinality(WithOutcome(e, "skipped")')
             /\ telemetry'[e].presented = Cardinality(WithOutcome(e, "presented")')
  <2>1. /\ telemetry[e].skipped = Cardinality(WithOutcome(e, "skipped"))
        /\ telemetry[e].presented = Cardinality(WithOutcome(e, "presented"))
    BY DEF OutcomesCountedOnce, WithOutcome
  <2>. QED  BY <2>1
<1>. QED  BY <1>1 DEF OutcomesCountedOnce, WithOutcome

\* A skip of a frame that had no outcome is counted in its epoch
LEMMA OutcomeSkipped ==
    ASSUME OutcomesCountedOnce, SharedOK, NEW f \in DOMAIN frames',
           DOMAIN frames' = DOMAIN frames \cup {f},
           \A g \in DOMAIN frames : frames'[g].epoch = frames[g].epoch,
           \A g \in DOMAIN frames : g # f =>
              frames'[g].submission.outcome = frames[g].submission.outcome,
           f \in DOMAIN frames => frames[f].submission.outcome = "unknown",
           frames'[f].submission.outcome = "skipped",
           frames'[f].epoch \in DOMAIN telemetry, Skips(frames'[f].epoch)
    PROVE  OutcomesCountedOnce'
<1>. DEFINE d == frames'[f].epoch
<1>1. /\ DOMAIN telemetry' = DOMAIN telemetry
      /\ \A e \in DOMAIN telemetry : e # d => telemetry'[e] = telemetry[e]
      /\ telemetry'[d].skipped = telemetry[d].skipped + 1
      /\ telemetry'[d].presented = telemetry[d].presented
  BY DEF Skips, TelemetryChanged, SamePresented
<1>. HIDE DEF d
<1>2. ASSUME NEW e \in DOMAIN telemetry
      PROVE  /\ telemetry'[e].skipped = Cardinality(WithOutcome(e, "skipped")')
             /\ telemetry'[e].presented = Cardinality(WithOutcome(e, "presented")')
  <2>2. Cardinality(WithOutcome(e, "skipped")') =
           IF e = d THEN Cardinality(WithOutcome(e, "skipped")) + 1
           ELSE Cardinality(WithOutcome(e, "skipped"))
    BY OutcomeCounts DEF d
  <2>3. Cardinality(WithOutcome(e, "presented")') = Cardinality(WithOutcome(e, "presented"))
    BY OutcomeCounts
  <2>. QED  BY <1>1, <2>2, <2>3 DEF OutcomesCountedOnce, WithOutcome
<1>. QED  BY <1>1, <1>2 DEF OutcomesCountedOnce, WithOutcome

\* A presentation counts the frame once, and takes a skip back
LEMMA OutcomeShown ==
    ASSUME OutcomesCountedOnce, TypeInv, NEW f \in DOMAIN frames, TimesFrame(f), ShowsFrame(f)
    PROVE  OutcomesCountedOnce'
<1>. DEFINE d == frames[f].epoch
<1>1. /\ DOMAIN frames' = DOMAIN frames
      /\ \A g \in DOMAIN frames : g # f => frames'[g] = frames[g]
      /\ frames'[f].epoch = d
  BY DEF TimesFrame, LateCallback, FrameChanged, SameWork
<1>3. /\ frames'[f].submission.outcome = "presented"
      /\ frames[f].submission.outcome \in {"unknown", "skipped"}
  BY FramesTyped, FieldsTyped, SubmissionFields, 0 \in Nat DEF ShowsFrame, TypeInv, PresentedLast,
     Submissions, TypeOK
<1>4. /\ DOMAIN telemetry' = DOMAIN telemetry /\ d \in DOMAIN telemetry
      /\ \A e \in DOMAIN telemetry : e # d => telemetry'[e] = telemetry[e]
      /\ telemetry'[d].skipped = IF frames[f].submission.outcome = "skipped"
                                 THEN telemetry[d].skipped - 1 ELSE telemetry[d].skipped
      /\ telemetry'[d].presented = telemetry[d].presented + 1
  BY DEF ShowsFrame, TelemetryChanged, UpgradedSkipped, TypeInv, Epochs
<1>. HIDE DEF d
<1>5. SharedOK
  BY DEF TypeInv, TypeOK
<1>6. ASSUME NEW e \in DOMAIN telemetry
      PROVE  /\ telemetry'[e].skipped = Cardinality(WithOutcome(e, "skipped")')
             /\ telemetry'[e].presented = Cardinality(WithOutcome(e, "presented")')
  <2>0. /\ f \in DOMAIN frames' /\ DOMAIN frames' = DOMAIN frames \cup {f}
        /\ \A g \in DOMAIN frames : frames'[g].epoch = frames[g].epoch
        /\ \A g \in DOMAIN frames : g # f =>
              frames'[g].submission.outcome = frames[g].submission.outcome
    BY <1>1 DEF d
  <2>2. Cardinality(WithOutcome(e, "skipped")') =
           IF e = d /\ frames[f].submission.outcome = "skipped"
           THEN Cardinality(WithOutcome(e, "skipped")) - 1
           ELSE Cardinality(WithOutcome(e, "skipped"))
    BY <1>1, <1>3, <1>5, <2>0, OutcomeCounts
  <2>3. Cardinality(WithOutcome(e, "presented")') =
           IF e = d THEN Cardinality(WithOutcome(e, "presented")) + 1
           ELSE Cardinality(WithOutcome(e, "presented"))
    BY <1>1, <1>3, <1>5, <2>0, OutcomeCounts
  <2>. QED  BY <1>4, <2>2, <2>3 DEF OutcomesCountedOnce, WithOutcome
<1>. QED  BY <1>4, <1>6 DEF OutcomesCountedOnce, WithOutcome

\* A frame's callback that leaves its outcome leaves the counts
LEMMA OutcomeUntouched ==
    ASSUME OutcomesCountedOnce, TypeInv, NEW f \in DOMAIN frames, TimesFrame(f),
           \/ TimesGpu(f) \/ Emits(f) \/ TimesPresentation(f)
           \/ SkipsFrame(f) /\ frames[f].submission.outcome # "unknown"
    PROVE  OutcomesCountedOnce'
<1>2. frames[f].submission \in Submissions
  BY FramesTyped, FieldsTyped DEF TypeInv, TypeOK
<1>3. frames'[f].submission.outcome = frames[f].submission.outcome
  <2>1. CASE TimesGpu(f)
    <3>1. PICK time \in Nat : frames'[f].submission = WithGpuCompletion(frames[f].submission, time)
      BY <2>1 DEF TimesGpu
    <3>. QED  BY <1>2, <3>1, SubmissionFields
  <2>2. CASE TimesPresentation(f)
    <3>1. PICK time \in Nat : frames'[f].submission = WithPresentation(frames[f].submission, time)
      BY <2>2 DEF TimesPresentation
    <3>. QED  BY <1>2, <3>1, SubmissionFields
  <2>3. CASE Emits(f)
    BY <2>3, <1>2, SubmissionFields, 0 \in Nat DEF Emits
  <2>4. CASE SkipsFrame(f) /\ frames[f].submission.outcome # "unknown"
    BY <2>4, <1>2, SubmissionFields, 0 \in Nat DEF SkipsFrame
  <2>. QED  BY <2>1, <2>2, <2>3, <2>4
<1>5. \A e : WithOutcome(e, "skipped")' = WithOutcome(e, "skipped")
          /\ WithOutcome(e, "presented")' = WithOutcome(e, "presented")
  BY <1>3, OutcomesStay DEF TimesFrame, LateCallback, FrameChanged, SameWork
<1>. QED
  BY <1>5, OutcomesSame DEF TimesGpu, TimesPresentation, Emits, SkipsFrame, TelemetryChanged,
     SamePresented, TypeInv, TypeOK

\* Epochs begin with nothing counted
LEMMA OutcomesAdvance ==
    ASSUME OutcomesCountedOnce, TypeInv, TelemetryAdvanced, frames' = frames
    PROVE  OutcomesCountedOnce'
<1>. DEFINE last == Len(telemetry')
<1>1. /\ epoch \in Nat \ {0} /\ DOMAIN telemetry = 1 .. epoch /\ DOMAIN telemetry' = 1 .. last
      /\ last \in {epoch, epoch + 1}
      /\ \A e \in 1 .. epoch : /\ telemetry'[e].skipped = telemetry[e].skipped
                               /\ telemetry'[e].presented = telemetry[e].presented
      /\ last = epoch + 1 => /\ telemetry'[epoch + 1].skipped = 0
                             /\ telemetry'[epoch + 1].presented = 0
  BY DEF TelemetryAdvanced, SameCounts, SamePresented
<1>. HIDE DEF last
<1>2. \A e, outcome : WithOutcome(e, outcome)' = WithOutcome(e, outcome)
  BY DEF WithOutcome
<1>3. ASSUME NEW e \in DOMAIN telemetry'
      PROVE  /\ telemetry'[e].skipped = Cardinality(WithOutcome(e, "skipped")')
             /\ telemetry'[e].presented = Cardinality(WithOutcome(e, "presented")')
  <2>1. CASE e \in 1 .. epoch
    <3>1. /\ telemetry[e].skipped = Cardinality(WithOutcome(e, "skipped"))
          /\ telemetry[e].presented = Cardinality(WithOutcome(e, "presented"))
      BY <1>1, <2>1 DEF OutcomesCountedOnce, WithOutcome
    <3>. QED  BY <1>1, <1>2, <2>1, <3>1
  <2>2. CASE e \notin 1 .. epoch
    <3>1. e = epoch + 1 /\ last = epoch + 1
      BY <1>1, <2>2
    <3>2. \A outcome : WithOutcome(e, outcome) = {}
      BY <1>1, <2>2 DEF WithOutcome, TypeInv, Epochs
    <3>. QED  BY <1>1, <1>2, <3>1, <3>2, FS_EmptySet
  <2>. QED  BY <2>1, <2>2
<1>. QED  BY <1>3 DEF OutcomesCountedOnce, WithOutcome

LEMMA OutcomesKept ==
    ASSUME OutcomesCountedOnce, TypeInv, StepEffect
    PROVE  OutcomesCountedOnce'
<1>0. SharedOK /\ \A f \in DOMAIN frames : frames[f].epoch \in DOMAIN telemetry
  BY DEF TypeInv, TypeOK, Epochs
<1>1. ASSUME NEW f \in DOMAIN frames, TimesFrame(f)
      PROVE  OutcomesCountedOnce'
  <2>1. CASE ShowsFrame(f)
    BY <1>1, <2>1, OutcomeShown
  <2>2. CASE SkipsFrame(f) /\ frames[f].submission.outcome = "unknown"
    <3>1. /\ DOMAIN frames' = DOMAIN frames \cup {f} /\ f \in DOMAIN frames'
          /\ \A g \in DOMAIN frames : g # f => frames'[g] = frames[g]
          /\ frames'[f].epoch = frames[f].epoch
      BY <1>1 DEF TimesFrame, LateCallback, FrameChanged, SameWork
    <3>3. frames'[f].submission = Skipped(frames[f].submission) /\ Skips(frames'[f].epoch)
      BY <2>2, <3>1 DEF SkipsFrame
    <3>4. frames'[f].submission.outcome = "skipped"
      BY <2>2, FramesTyped, FieldsTyped, <3>3, SubmissionFields, 0 \in Nat DEF TypeInv, TypeOK
    <3>. QED  BY <1>0, <2>2, <3>1, <3>3, <3>4, OutcomeSkipped
  <2>3. CASE \/ TimesGpu(f) \/ Emits(f) \/ TimesPresentation(f)
             \/ SkipsFrame(f) /\ frames[f].submission.outcome # "unknown"
    BY <1>1, <2>3, OutcomeUntouched
  <2>. QED  BY <2>1, <2>2, <2>3, <1>1 DEF TimesFrame
<1>2. ASSUME ~ \E f \in DOMAIN frames : TimesFrame(f), Drops
      PROVE  OutcomesCountedOnce'
  <2>1. PICK r : FrameAdded(r) /\ FreshFrame(r, 0) /\ r.submission.outcome = "skipped"
    BY <1>2 DEF Drops
  <2>. DEFINE f == building + 1
  <2>. HIDE DEF f
  <2>. QED  BY <1>0, <2>1, <1>2, EpochTyped, OutcomeSkipped DEF Drops, FrameAdded, FreshFrame
<1>3. ASSUME ~ \E f \in DOMAIN frames : TimesFrame(f), Abandons
      PROVE  OutcomesCountedOnce'
  <2>1. /\ building \in DOMAIN frames /\ frames[building] \in FrameRecords
        /\ frames[building].submission.outcome = "unknown" /\ frames[building].epoch = epoch
    BY <1>3, BuildingTyped DEF TypeInv, Abandons
  <2>2. /\ DOMAIN frames' = DOMAIN frames \cup {building} /\ building \in DOMAIN frames'
        /\ \A g \in DOMAIN frames : g # building => frames'[g] = frames[g]
        /\ frames'[building].epoch = epoch
        /\ frames'[building].submission = Skipped(frames[building].submission)
        /\ Skips(epoch)
    BY <1>3, <2>1 DEF Abandons, FrameChanged, SameWork
  <2>4. /\ \A g \in DOMAIN frames : frames'[g].epoch = frames[g].epoch
        /\ \A g \in DOMAIN frames : g # building =>
              frames'[g].submission.outcome = frames[g].submission.outcome
    BY <2>1, <2>2
  <2>5. Skips(frames'[building].epoch) /\ frames'[building].epoch \in DOMAIN telemetry
    BY <1>0, <2>2, EpochTyped
  <2>. QED
    BY <1>0, <2>1, <2>2, FieldsTyped, SubmissionFields, 0 \in Nat, <2>4, <2>5, OutcomeSkipped
<1>4. ASSUME ~ \E f \in DOMAIN frames : TimesFrame(f), ~Drops, ~Abandons
      PROVE  OutcomesCountedOnce'
  BY TelemetrySteps, <1>4, OutcomesAdvance, TimingStays, OutcomesStay, <1>0, OutcomesSame
<1>. QED  BY <1>1, <1>2, <1>3, <1>4

LEMMA OutcomesInit ==
    ASSUME Init
    PROVE  OutcomesCountedOnce
BY FS_EmptySet DEF Init, FreshTelemetry, WithOutcome, OutcomesCountedOnce

(***************************************************************************)
(* Timing                                                                  *)
(***************************************************************************)
\* What is classified does not depend on the events or the outcome
LEMMA SameClass ==
    ASSUME NEW s \in Submissions
    PROVE  /\ classifyFrameLatency(Emitted(s)) = classifyFrameLatency(s)
           /\ classifyFrameLatency(Skipped(s)) = classifyFrameLatency(s)
           /\ classifyFrameLatency(Presented(s)) = classifyFrameLatency(s)
<1>1. ASSUME NEW t, t.sequence = s.sequence, t.callback = s.callback, t.cpuReady = s.cpuReady,
             t.gpu = s.gpu, t.presented = s.presented
      PROVE  classifyFrameLatency(t) = classifyFrameLatency(s)
  BY <1>1 DEF classifyFrameLatency
<1>. DEFINE Same(t) == /\ t.sequence = s.sequence /\ t.callback = s.callback
                       /\ t.cpuReady = s.cpuReady /\ t.gpu = s.gpu /\ t.presented = s.presented
<1>4. Same(Presented(s))
  BY DEF Presented, Submissions
<1>. QED  BY <1>1, <1>4 DEF Emitted, Submissions, Skipped

AfterGpu == {"emits", "failed", "done"}

\* A step that is no callback of the frames leaves those behind the GPU alone
LEMMA LateStays ==
    ASSUME TypeInv, StepEffect, ~ \E f \in DOMAIN frames : TimesFrame(f), NEW g \in DOMAIN frames
    PROVE  /\ frames[g].completion \in AfterGpu => frames'[g] = frames[g]
           /\ frames[g].completion \notin AfterGpu => frames'[g].completion \notin AfterGpu
<1>1. CASE frames' = frames
  BY <1>1
<1>2. CASE frames' # frames /\ Building /\ FrameChanged(building) /\ frames[building].completion = "none"
           /\ frames'[building].completion \in {"none", "queued"}
  BY <1>2 DEF FrameChanged, AfterGpu
<1>3. ASSUME \E r : FrameAdded(r)
      PROVE  frames'[g] = frames[g]
  BY <1>3 DEF FrameAdded
<1>4. CASE \E f \in DOMAIN frames : /\ FrameChanged(f)
                                    /\ frames[f].completion \in {"queued", "ran", "published", "opened"}
                                    /\ frames'[f].completion \in {"ran", "published", "opened", "released"}
  BY <1>4 DEF FrameChanged, AfterGpu
<1>5. Building => frames[building].completion = "none"
  BY DEF TypeInv, BuildingFrame
<1>6. CASE Begins \/ Interlude \/ StartsDrain \/ UNCHANGED vars
  BY <1>1, <1>6 DEF Begins, Interlude, StartsDrain, vars
<1>7. CASE Drops \/ \E b \in 1 .. BufferCount : Acquires(b)
  BY <1>3, <1>7 DEF Drops, Acquires
<1>8. CASE Abandons
  BY <1>1, <1>2, <1>5, <1>8 DEF Abandons
<1>9. CASE DrainsMarker
  BY <1>1, <1>2, <1>5, <1>9 DEF DrainsMarker, DrainTurn, UploadsPrepared
<1>10. CASE DrainsColumn
  BY <1>10, ColumnSteps, <1>1, <1>2, <1>5 DEF UploadsPrepared
<1>11. CASE Prepares
  BY <1>1, <1>2, <1>5, <1>11 DEF Prepares
<1>12. CASE CommitUploads \/ CommitDrawing \/ CommitUnencoded
  BY <1>1, <1>2, <1>5, <1>12 DEF CommitUploads, CommitDrawing, CommitUnencoded, Committed
<1>13. CASE \/ \E f \in DOMAIN frames, ok \in BOOLEAN : Ran(f, ok)
            \/ \E f \in DOMAIN frames : Publishes(f) \/ Opens(f) \/ Releases(f)
  BY <1>4, <1>13 DEF Ran, Publishes, Opens, Releases, Handles
<1>. QED  BY <1>6, <1>7, <1>8, <1>9, <1>10, <1>11, <1>12, <1>13 DEF StepEffect

\* A callback of a frame moves its timing on
LEMMA FrameTimingSteps ==
    ASSUME TypeInv, NEW f \in DOMAIN frames, FrameTiming(frames[f]), TimesFrame(f)
    PROVE  FrameTiming(frames'[f])
<1>. DEFINE s == frames[f].submission
            t == frames'[f].submission
<1>1. s \in Submissions /\ frames[f].completion \in CompletionStages
      /\ frames[f].presentation \in PresentationStages
  BY FramesTyped, FieldsTyped DEF TypeInv, TypeOK
<1>0. AfterTiming(f) \in {"done", "failed"}
  BY DEF AfterTiming
<1>2. FrameTiming(frames[f])
  OBVIOUS
<1>3. CASE TimesGpu(f)
  <2>1. PICK time \in Nat : t = WithGpuCompletion(s, time)
    BY <1>3 DEF TimesGpu
  <2>. HIDE DEF s, t
  <2>. QED
    BY <1>0, <1>2, <1>1, <2>1, SubmissionFields, <1>3 DEF FrameTiming, BothTimes, MayEmit, s, t,
       TimesGpu
<1>4. CASE TimesPresentation(f)
  <2>1. PICK time \in Nat : t = WithPresentation(s, time)
    BY <1>4 DEF TimesPresentation
  <2>. QED
    BY <1>2, <1>1, <2>1, SubmissionFields, <1>4 DEF FrameTiming, BothTimes, MayEmit,
       TimesPresentation
<1>5. CASE Emits(f)
  BY <1>5, <1>1, SubmissionFields, SameClass, 0 \in Nat, <1>0, <1>2 DEF Emits, FrameTiming,
     BothTimes
<1>6. CASE SkipsFrame(f) \/ ShowsFrame(f)
  BY <1>6, <1>1, SubmissionFields, SameClass, 0 \in Nat, <1>2 DEF SkipsFrame, ShowsFrame,
     FrameTiming, BothTimes
<1>. QED  BY <1>3, <1>4, <1>5, <1>6 DEF TimesFrame

LEMMA TimingKept ==
    ASSUME TypeInv, TimingEvents, StepEffect
    PROVE  TimingEvents'
<1>1. ASSUME NEW f \in DOMAIN frames, TimesFrame(f)
      PROVE  TimingEvents'
  BY <1>1, FrameTimingSteps DEF TimingEvents, TimesFrame, LateCallback, FrameChanged
<1>2. ASSUME ~ \E f \in DOMAIN frames : TimesFrame(f), NEW g \in DOMAIN frames'
      PROVE  FrameTiming(frames'[g])
  BY <1>2, TimingStays, LateStays DEF FrameTiming, BothTimes, TimingEvents, AfterGpu
<1>. QED  BY <1>1, <1>2 DEF TimingEvents

LEMMA TimingInit ==
    ASSUME Init
    PROVE  TimingEvents
BY DEF Init, TimingEvents

\* A sequence without repetition is as long as it has members
LEMMA DistinctSize ==
    ASSUME NEW n \in Nat, NEW S, NEW g \in [1 .. n -> S],
           \A i, j \in 1 .. n : g[i] = g[j] => i = j,
           \A x \in S : \E i \in 1 .. n : g[i] = x
    PROVE  IsFiniteSet(S) /\ Cardinality(S) = n
<1>2. ExistsBijection(1 .. n, S)
  BY DEF ExistsBijection, Bijection, Injection, Surjection, IsInjective
<1>. QED  BY <1>2, FS_Interval, 1 \in Int, n \in Int, FS_Bijection

\* h holds the newest n samples of T
HoldsNewest(h, T, n) ==
    /\ Range(h) \subseteq T
    /\ Len(h) < n => T \subseteq Range(h)
    /\ \A s \in T \ Range(h) : LatencyEarlier(s, h[1])

LEMMA NewestSample ==
    ASSUME NEW h \in Seq(SampleRecords), NEW x \in SampleRecords, NEW n \in Nat \ {0},
           Len(h) <= n, SamplesSorted(h), NEW T \in SUBSET SampleRecords,
           HoldsNewest(h, T, n), x.sequence # 0, \A s \in T : s.sequence # x.sequence
    PROVE  HoldsNewest(WithSample(h, x, n), IF x.presented = 0 THEN T ELSE T \cup {x}, n)
<1>. DEFINE t == WithSample(h, x, n)
<1>1. /\ t \in Seq(SampleRecords) /\ Len(t) <= n
      /\ RefusesSample(h, x, n) => t = h
      /\ ~RefusesSample(h, x, n) =>
            /\ x \in Range(t) /\ Range(t) \subseteq Range(h) \cup {x}
            /\ Len(h) < n => Len(t) = Len(h) + 1 /\ Range(h) \subseteq Range(t)
            /\ Len(h) = n =>
                  /\ Len(t) = n /\ Range(h) \ {h[1]} \subseteq Range(t)
                  /\ LatencyEarlier(h[1], t[1])
  BY SampleKept
<1>. HIDE DEF t
<1>2. DOMAIN h = 1 .. Len(h) /\ Len(h) \in Nat
  OBVIOUS
<1>0. Len(h) < n \/ Len(h) = n
  <2>1. Len(h) \in Nat /\ n \in Nat /\ Len(h) <= n
    BY <1>2
  <2>. QED  BY <2>1
<1>3. CASE x.presented = 0
  BY <1>1, <1>3 DEF RefusesSample, t
<1>4. CASE x.presented # 0 /\ RefusesSample(h, x, n)
  <2>1. t = h
    BY <1>1, <1>4
  <2>2. \A i \in DOMAIN h : h[i].sequence # x.sequence
    BY DEF HoldsNewest, Range
  <2>3. Len(h) = n /\ ~LatencyEarlier(h[1], x)
    BY <1>4, <2>2 DEF RefusesSample
  <2>4. h[1] \in SampleRecords /\ h[1].sequence # x.sequence
    BY <1>2, <2>2, <2>3
  <2>5. LatencyEarlier(x, h[1])
    BY <2>3, <2>4, SamplesOrdered
  <2>. QED  BY <1>4, <2>1, <2>3, <2>5 DEF HoldsNewest, t
<1>5. CASE x.presented # 0 /\ ~RefusesSample(h, x, n)
  <2>1. Range(t) \subseteq T \cup {x}
    BY <1>1, <1>5 DEF HoldsNewest
  <2>2. CASE Len(h) < n
    <3>1. T \cup {x} \subseteq Range(t)
      BY <1>1, <1>5, <2>2 DEF HoldsNewest
    <3>. QED  BY <1>5, <2>1, <3>1 DEF HoldsNewest, t
  <2>3. CASE Len(h) = n
    <3>1. /\ Len(t) = n /\ Range(h) \ {h[1]} \subseteq Range(t) /\ LatencyEarlier(h[1], t[1])
          /\ x \in Range(t)
      BY <1>1, <1>5, <2>3
    <3>2. h[1] \in SampleRecords /\ t[1] \in SampleRecords
      BY <1>1, <1>2, <2>3, <3>1
    <3>3. ASSUME NEW s \in (T \cup {x}) \ Range(t)
          PROVE  LatencyEarlier(s, t[1])
      <4>1. s \in T /\ s \in SampleRecords
        BY <3>1, <3>3
      <4>2. CASE s = h[1]
        BY <3>1, <4>2
      <4>3. CASE s # h[1]
        <5>1. s \notin Range(h)
          BY <3>1, <3>3, <4>3
        <5>2. LatencyEarlier(s, h[1])
          BY <4>1, <5>1 DEF HoldsNewest
        <5>. QED  BY <3>1, <3>2, <4>1, <5>2, SamplesOrdered
      <4>. QED  BY <4>2, <4>3
    <3>. QED  BY <1>5, <2>1, <3>1, <3>3 DEF HoldsNewest, t
  <2>. QED  BY <1>0, <2>2, <2>3
<1>. QED  BY <1>3, <1>4, <1>5

\* ... and then as many of them as there are, or as there is room for
LEMMA NewestCounted ==
    ASSUME NEW h \in Seq(SampleRecords), NEW n \in Nat \ {0}, Len(h) <= n, SamplesSorted(h),
           NEW T \in SUBSET SampleRecords, IsFiniteSet(T), HoldsNewest(h, T, n)
    PROVE  /\ Cardinality(Range(h)) = SmallerOf(Cardinality(T), n)
           /\ \A k \in Range(h), s \in T \ Range(h) : LatencyEarlier(s, k)
<1>1. DOMAIN h = 1 .. Len(h) /\ Len(h) \in Nat /\ h \in [1 .. Len(h) -> Range(h)]
  BY DEF Range
<1>0. Len(h) < n \/ Len(h) = n
  <2>1. Len(h) \in Nat /\ n \in Nat /\ Len(h) <= n
    BY <1>1
  <2>. QED  BY <2>1
<1>2. \A i \in 1 .. Len(h) : h[i] \in SampleRecords
  OBVIOUS
<1>3. ASSUME NEW i \in 1 .. Len(h), NEW j \in 1 .. Len(h), h[i] = h[j]
      PROVE  i = j
  BY <1>2, SamplesOrdered, <1>1, <1>3 DEF SamplesSorted
<1>4. \A x \in Range(h) : \E i \in 1 .. Len(h) : h[i] = x
  BY <1>1 DEF Range
<1>5. Cardinality(Range(h)) = Len(h)
  BY <1>1, <1>3, <1>4, DistinctSize
<1>6. Range(h) \subseteq T
  BY DEF HoldsNewest
<1>7. Cardinality(T) \in Nat /\ Len(h) <= Cardinality(T)
  BY <1>5, <1>6, FS_CardinalityType, FS_Subset
<1>8. Cardinality(Range(h)) = SmallerOf(Cardinality(T), n)
  <2>1. CASE Len(h) < n
    <3>1. T = Range(h)
      BY <1>6, <2>1 DEF HoldsNewest
    <3>. QED  BY <1>5, <2>1, <3>1 DEF SmallerOf
  <2>2. CASE Len(h) = n
    BY <1>5, <1>7, <2>2 DEF SmallerOf
  <2>. QED  BY <1>0, <2>1, <2>2
<1>9. ASSUME NEW k \in Range(h), NEW s \in T \ Range(h)
      PROVE  LatencyEarlier(s, k)
  <2>1. PICK i \in 1 .. Len(h) : h[i] = k
    BY <1>4
  <2>2. LatencyEarlier(s, h[1]) /\ 1 \in 1 .. Len(h)
    BY <1>1 DEF HoldsNewest
  <2>3. CASE i = 1
    BY <2>1, <2>2, <2>3
  <2>4. CASE i # 1
    BY <1>1, <2>2, <2>4, <1>2, <2>1, SamplesOrdered DEF SamplesSorted
  <2>. QED  BY <2>3, <2>4
<1>. QED  BY <1>8, <1>9

TimesOf(h) == {h[i].time : i \in DOMAIN h}

\* h holds the frames of the newest n presentation times of T
ShowsNewest(h, T, n) ==
    /\ TimesOf(h) \subseteq T
    /\ Len(h) < n => T \subseteq TimesOf(h)
    /\ \A t \in T \ TimesOf(h) : t < h[1].time

LEMMA NewestFrame ==
    ASSUME NEW h \in Seq(ShownFrames), NEW x \in ShownFrames, NEW n \in Nat \ {0},
           Len(h) <= n, FramesSorted(h), NEW T \in SUBSET Nat,
           ShowsNewest(h, T, n), x.sequence # 0, x.time # 0
    PROVE  ShowsNewest(WithShown(h, x, n), T \cup {x.time}, n)
<1>. DEFINE t == WithShown(h, x, n)
<1>1. /\ t \in Seq(ShownFrames) /\ Len(t) <= n
      /\ RefusesPresentation(h, x.sequence, x.time, n) => t = h
      /\ ~RefusesPresentation(h, x.sequence, x.time, n) =>
            /\ x \in Range(t) /\ Range(t) \subseteq Range(h) \cup {x}
            /\ Len(h) < n => Len(t) = Len(h) + 1 /\ Range(h) \subseteq Range(t)
            /\ Len(h) = n =>
                  /\ Len(t) = n /\ Range(h) \ {h[1]} \subseteq Range(t)
                  /\ ShownEarlier(h[1], t[1])
  BY FrameKept
<1>. HIDE DEF t
<1>2. DOMAIN h = 1 .. Len(h) /\ Len(h) \in Nat /\ x.time \in Nat
  BY DEF ShownFrames
<1>0. Len(h) < n \/ Len(h) = n
  <2>1. Len(h) \in Nat /\ n \in Nat /\ Len(h) <= n
    BY <1>2
  <2>. QED  BY <2>1
<1>3. CASE RefusesPresentation(h, x.sequence, x.time, n)
  <2>1. t = h
    BY <1>1, <1>3
  <2>2. CASE x.time \in TimesOf(h)
    BY <2>2, <2>1 DEF ShowsNewest, t
  <2>3. CASE x.time \notin TimesOf(h)
    <3>1. Len(h) = n /\ x.time <= h[1].time
      BY <1>3, <2>3 DEF RefusesPresentation, TimesOf
    <3>2. h[1].time \in Nat /\ x.time # h[1].time
      <4>1. 1 \in DOMAIN h /\ h[1] \in ShownFrames
        BY <1>2, <3>1
      <4>. QED  BY <2>3, <4>1 DEF TimesOf, ShownFrames
    <3>. QED  BY <2>1, <3>1, <1>2, <3>2 DEF t, ShowsNewest
  <2>. QED  BY <2>2, <2>3
<1>4. CASE ~RefusesPresentation(h, x.sequence, x.time, n)
  <2>1. TimesOf(t) \subseteq T \cup {x.time} /\ x.time \in TimesOf(t)
    <3>2. \A r \in Range(h) : r.time \in T
      BY DEF Range, TimesOf, ShowsNewest
    <3>. QED  BY <1>1, <1>4, <3>2 DEF TimesOf, Range
  <2>2. CASE Len(h) < n
    <3>1. TimesOf(h) \subseteq TimesOf(t)
      <4>1. \A r \in Range(h) : r \in Range(t)
        BY <1>1, <1>4, <2>2
      <4>. QED  BY <4>1 DEF TimesOf, Range
    <3>. QED  BY <2>1, <2>2, <3>1 DEF ShowsNewest, t
  <2>3. CASE Len(h) = n
    <3>1. /\ Len(t) = n /\ Range(h) \ {h[1]} \subseteq Range(t) /\ h[1].time < t[1].time
      BY <1>1, <1>4, <2>3 DEF ShownEarlier
    <3>2. h[1].time \in Nat /\ t[1].time \in Nat
      <4>1. h[1] \in ShownFrames /\ t[1] \in ShownFrames
        BY <1>1, <1>2, <2>3, <3>1
      <4>. QED  BY <4>1 DEF ShownFrames
    <3>3. ASSUME NEW k \in (T \cup {x.time}) \ TimesOf(t)
          PROVE  k < t[1].time
      <4>1. k \in T /\ k \in Nat
        BY <1>2, <2>1, <3>3
      <4>2. CASE k = h[1].time
        BY <3>1, <4>2
      <4>3. CASE k # h[1].time
        <5>1. k \notin TimesOf(h)
          <6>1. ASSUME NEW i \in DOMAIN h, h[i].time = k
                PROVE  FALSE
            BY <4>3, <6>1, <3>1, <3>3 DEF Range, TimesOf
          <6>. QED  BY <6>1 DEF TimesOf
        <5>. QED  BY <3>1, <3>2, <4>1, <5>1 DEF ShowsNewest
      <4>. QED  BY <4>2, <4>3
    <3>. QED  BY <2>1, <3>1, <3>3 DEF ShowsNewest, t
  <2>. QED  BY <1>0, <2>2, <2>3
<1>. QED  BY <1>3, <1>4

LEMMA FramesCounted ==
    ASSUME NEW h \in Seq(ShownFrames), NEW n \in Nat \ {0}, Len(h) <= n, FramesSorted(h),
           NEW T \in SUBSET Nat, IsFiniteSet(T), ShowsNewest(h, T, n)
    PROVE  /\ Len(h) = SmallerOf(Cardinality(T), n)
           /\ \A t \in T : t \in TimesOf(h) \/ t < h[1].time
           /\ \A i \in 1 .. Len(h) - 1 : Intervals(h)[i].time > 0
<1>. DEFINE g == [i \in 1 .. Len(h) |-> h[i].time]
<1>1. DOMAIN h = 1 .. Len(h) /\ Len(h) \in Nat
  OBVIOUS
<1>0. Len(h) < n \/ Len(h) = n
  <2>1. Len(h) \in Nat /\ n \in Nat /\ Len(h) <= n
    BY <1>1
  <2>. QED  BY <2>1
<1>2. \A i \in 1 .. Len(h) : h[i].time \in Nat
  <2>1. \A i \in 1 .. Len(h) : h[i] \in ShownFrames
    OBVIOUS
  <2>. QED  BY <2>1 DEF ShownFrames
<1>3. \A i, j \in 1 .. Len(h) : i < j => h[i].time < h[j].time
  BY <1>1 DEF FramesSorted, ShownEarlier
<1>4. Cardinality(TimesOf(h)) = Len(h)
  <2>1. g \in [1 .. Len(h) -> TimesOf(h)]
    BY <1>1 DEF TimesOf
  <2>2. \A x \in TimesOf(h) : \E i \in 1 .. Len(h) : g[i] = x
    BY <1>1 DEF TimesOf
  <2>3. \A i, j \in 1 .. Len(h) : g[i] = g[j] => i = j
    BY <1>1, <1>2, <1>3
  <2>. QED  BY <1>1, <2>1, <2>2, <2>3, DistinctSize
<1>5. TimesOf(h) \subseteq T
  BY DEF ShowsNewest
<1>6. Cardinality(T) \in Nat /\ Len(h) <= Cardinality(T)
  BY <1>4, <1>5, FS_CardinalityType, FS_Subset
<1>7. Len(h) = SmallerOf(Cardinality(T), n)
  <2>1. CASE Len(h) < n
    <3>1. T = TimesOf(h)
      BY <1>5, <2>1 DEF ShowsNewest
    <3>. QED  BY <1>4, <2>1, <3>1 DEF SmallerOf
  <2>2. CASE Len(h) = n
    BY <1>6, <2>2 DEF SmallerOf
  <2>. QED  BY <1>0, <2>1, <2>2
<1>8. ASSUME NEW i \in 1 .. Len(h) - 1
      PROVE  Intervals(h)[i].time > 0
  BY <1>1, <1>8, <1>2, <1>3 DEF Intervals
<1>. QED  BY <1>7, <1>8 DEF ShowsNewest

Timed(e) == {s \in Samples(e) : s.presented # 0}
EmittedFrames(e) ==
    {f \in DOMAIN frames : frames[f].epoch = e /\ "emitted" \in frames[f].submission.events}
PresentedFrames(e) ==
    {f \in DOMAIN frames : frames[f].epoch = e /\ frames[f].submission.outcome = "presented"}
PresentedTimes(e) == {frames[f].submission.presented : f \in PresentedFrames(e)}

\* The histories hold the newest of what the frames published
LatencyKept ==
    \A e \in DOMAIN telemetry :
        /\ telemetry[e].samples = Cardinality(Samples(e))
        /\ HoldsNewest(telemetry[e].latency, Timed(e), budget.capacity)
ShownKept ==
    \A e \in DOMAIN telemetry :
        ShowsNewest(telemetry[e].shown, PresentedTimes(e), budget.capacity)

LEMMA SampleMembers ==
    ASSUME NEW e
    PROVE  Samples(e) = {frames[f].submission.sample : f \in EmittedFrames(e)}
BY DEF Samples, EmittedFrames

\* What the frames of an epoch published is finite and of its type
LEMMA PublishedTyped ==
    ASSUME TypeInv, NEW e
    PROVE  /\ Samples(e) \subseteq SampleRecords /\ IsFiniteSet(Samples(e))
           /\ Timed(e) \subseteq SampleRecords /\ IsFiniteSet(Timed(e))
           /\ PresentedTimes(e) \subseteq Nat /\ IsFiniteSet(PresentedTimes(e))
<1>3. IsFiniteSet(EmittedFrames(e)) /\ IsFiniteSet(PresentedFrames(e))
  BY FramesTyped, FS_Interval, 1 \in Int, Len(frames) \in Int, FS_Subset DEF EmittedFrames,
     PresentedFrames, TypeInv, TypeOK
<1>4. IsFiniteSet(Samples(e))
  <2>. DEFINE g == [f \in EmittedFrames(e) |-> frames[f].submission.sample]
  <2>1. g \in Surjection(EmittedFrames(e), Samples(e))
    BY SampleMembers DEF Surjection
  <2>. QED  BY <1>3, <2>1, FS_Surjection
<1>5. IsFiniteSet(PresentedTimes(e))
  <2>. DEFINE g == [f \in PresentedFrames(e) |-> frames[f].submission.presented]
  <2>1. g \in Surjection(PresentedFrames(e), PresentedTimes(e))
    BY DEF Surjection, PresentedTimes
  <2>. QED  BY <1>3, <2>1, FS_Surjection
<1>7. Timed(e) \subseteq Samples(e)
  BY DEF Timed
<1>. QED
  BY <1>4, <1>5, FramesTyped, FieldsTyped, <1>7, FS_Subset DEF Samples, PresentedTimes,
     PresentedFrames, Submissions, TypeInv, TypeOK

\* A frame's number is its own in its epoch, so a new sample is one more
LEMMA NumbersDiffer ==
    ASSUME TypeInv, TimingEvents, NEW f \in DOMAIN frames,
           "emitted" \notin frames[f].submission.events
    PROVE  \A s \in Samples(frames[f].epoch) : s.sequence # frames[f].submission.sequence
<1>1. ASSUME NEW s \in Samples(frames[f].epoch)
      PROVE  s.sequence # frames[f].submission.sequence
  <2>1. PICK g \in EmittedFrames(frames[f].epoch) : s = frames[g].submission.sample
    BY SampleMembers
  <2>2. /\ g \in DOMAIN frames /\ frames[g].epoch = frames[f].epoch /\ g # f
        /\ s = classifyFrameLatency(frames[g].submission)
    BY <2>1 DEF EmittedFrames, TimingEvents, FrameTiming
  <2>. QED  BY <2>2 DEF TypeInv, Epochs, classifyFrameLatency
<1>. QED  BY <1>1

\* Nothing is published
LEMMA SamplesStay ==
    ASSUME DOMAIN frames \subseteq DOMAIN frames',
           \A f \in DOMAIN frames :
              /\ frames'[f].epoch = frames[f].epoch
              /\ frames'[f].submission.sample = frames[f].submission.sample
              /\ "emitted" \in frames'[f].submission.events
                 <=> "emitted" \in frames[f].submission.events,
           \A f \in DOMAIN frames' \ DOMAIN frames : "emitted" \notin frames'[f].submission.events,
           NEW e
    PROVE  Samples(e)' = Samples(e) /\ Timed(e)' = Timed(e)
BY DEF Samples, Timed

LEMMA TimesStay ==
    ASSUME DOMAIN frames \subseteq DOMAIN frames',
           \A f \in DOMAIN frames :
              /\ frames'[f].epoch = frames[f].epoch
              /\ frames'[f].submission.presented = frames[f].submission.presented
                 \/ "presented" \notin {frames[f].submission.outcome, frames'[f].submission.outcome}
              /\ frames'[f].submission.outcome = "presented"
                 <=> frames[f].submission.outcome = "presented",
           \A f \in DOMAIN frames' \ DOMAIN frames : frames'[f].submission.outcome # "presented",
           NEW e
    PROVE  PresentedTimes(e)' = PresentedTimes(e)
BY DEF PresentedTimes, PresentedFrames

LEMMA LatencySame ==
    ASSUME LatencyKept, DOMAIN telemetry' = DOMAIN telemetry, budget' = budget,
           \A e \in DOMAIN telemetry : SameSamples(e),
           \A e : Samples(e)' = Samples(e) /\ Timed(e)' = Timed(e)
    PROVE  LatencyKept'
<1>1. ASSUME NEW e \in DOMAIN telemetry
      PROVE  /\ telemetry'[e].samples = Cardinality(Samples(e)')
             /\ HoldsNewest(telemetry'[e].latency, Timed(e)', budget'.capacity)
  BY DEF LatencyKept, SameSamples
<1>. QED  BY <1>1 DEF LatencyKept

LEMMA ShownSame ==
    ASSUME ShownKept, DOMAIN telemetry' = DOMAIN telemetry, budget' = budget,
           \A e \in DOMAIN telemetry : telemetry'[e].shown = telemetry[e].shown,
           \A e : PresentedTimes(e)' = PresentedTimes(e)
    PROVE  ShownKept'
<1>1. ASSUME NEW e \in DOMAIN telemetry
      PROVE  ShowsNewest(telemetry'[e].shown, PresentedTimes(e)', budget'.capacity)
  BY DEF ShownKept
<1>. QED  BY <1>1 DEF ShownKept

\* The sample of a frame is published, in its epoch alone
LEMMA LatencyEmits ==
    ASSUME TypeInv, TimingEvents, LatencyKept, NEW f \in DOMAIN frames, TimesFrame(f), Emits(f)
    PROVE  LatencyKept'
<1>. DEFINE d == frames[f].epoch
            x == frames'[f].submission.sample
            s == frames[f].submission
<1>1. /\ DOMAIN frames' = DOMAIN frames
      /\ \A g \in DOMAIN frames : g # f => frames'[g] = frames[g]
      /\ frames'[f].epoch = d /\ budget' = budget
  BY DEF TimesFrame, LateCallback, FrameChanged, SameWork, owner
<1>2. s \in Submissions
  BY FramesTyped, FieldsTyped DEF TypeInv, TypeOK
<1>3. "emitted" \notin s.events
  BY DEF Emits, TimingEvents, FrameTiming
<1>4. /\ x = classifyFrameLatency(s) /\ x \in SampleRecords
      /\ "emitted" \in frames'[f].submission.events
  BY <1>2, SubmissionFields, SubmissionsTyped, 0 \in Nat DEF Emits
<1>5. x.sequence = s.sequence /\ s.sequence # 0
  BY <1>4 DEF classifyFrameLatency, TypeInv, Epochs
<1>6. /\ d \in DOMAIN telemetry /\ DOMAIN telemetry' = DOMAIN telemetry
      /\ \A e \in DOMAIN telemetry : e # d => telemetry'[e] = telemetry[e]
      /\ telemetry'[d].samples = telemetry[d].samples + 1
      /\ telemetry'[d].latency = WithSample(telemetry[d].latency, x, budget.capacity)
  BY DEF Emits, TelemetryChanged, TypeInv, Epochs
<1>7. \A y \in Samples(d) : y.sequence # x.sequence
  BY <1>3, <1>5, NumbersDiffer
<1>8. \A e : Samples(e)' = IF e = d THEN Samples(e) \cup {x} ELSE Samples(e)
  <2>1. ASSUME NEW e
        PROVE  EmittedFrames(e)' = IF e = d THEN EmittedFrames(e) \cup {f} ELSE EmittedFrames(e)
    BY <1>1, <1>3, <1>4 DEF EmittedFrames
  <2>2. ASSUME NEW e
        PROVE  Samples(e)' = {frames'[g].submission.sample : g \in EmittedFrames(e)'}
    BY DEF Samples, EmittedFrames
  <2>3. f \notin EmittedFrames(d)
    BY <1>3 DEF EmittedFrames
  <2>4. \A e : \A g \in EmittedFrames(e) : g # f => frames'[g] = frames[g]
    BY <1>1 DEF EmittedFrames
  <2>5. \A e : f \in EmittedFrames(e) => e = d
    BY DEF EmittedFrames
  <2>6. ASSUME NEW e
        PROVE  Samples(e)' = IF e = d THEN Samples(e) \cup {x} ELSE Samples(e)
    <3>. HIDE DEF d, x
    <3>1. CASE e = d
      BY <2>1, <2>2, <3>1, <2>3, <2>4, SampleMembers DEF x
    <3>2. CASE e # d
      BY <2>1, <2>2, <3>2, <2>4, <2>5, SampleMembers
    <3>. QED  BY <3>1, <3>2
  <2>. QED  BY <2>6
<1>9. \A e : Timed(e)' = IF e = d /\ x.presented # 0 THEN Timed(e) \cup {x} ELSE Timed(e)
  BY <1>8 DEF Timed
<1>10. budget.capacity \in Nat \ {0}
  BY RendererAssumption, CapacityTyped DEF TypeInv, TypeOK
<1>. HIDE DEF d, x, s
<1>11. ASSUME NEW e \in DOMAIN telemetry
       PROVE  /\ telemetry'[e].samples = Cardinality(Samples(e)')
              /\ HoldsNewest(telemetry'[e].latency, Timed(e)', budget'.capacity)
  <2>1. /\ telemetry[e].samples = Cardinality(Samples(e))
        /\ HoldsNewest(telemetry[e].latency, Timed(e), budget.capacity)
    BY DEF LatencyKept
  <2>2. CASE e # d
    BY <1>1, <1>6, <1>8, <1>9, <2>1, <2>2
  <2>3. CASE e = d
    <3>3. Cardinality(Samples(d) \cup {x}) = Cardinality(Samples(d)) + 1
      BY <1>7, PublishedTyped, FS_AddElement
    <3>6. /\ telemetry[d].latency \in Seq(SampleRecords)
          /\ Len(telemetry[d].latency) <= budget.capacity /\ SamplesSorted(telemetry[d].latency)
      BY <1>6, <2>3, EpochTyped, TelemetryTyped DEF TypeInv, HistoriesSorted, TypeOK
    <3>8. HoldsNewest(WithSample(telemetry[d].latency, x, budget.capacity),
                      IF x.presented = 0 THEN Timed(d) ELSE Timed(d) \cup {x}, budget.capacity)
      BY <1>4, <1>5, <1>10, <2>1, <2>3, <3>6, <1>7, PublishedTyped, NewestSample DEF Timed
    <3>10. /\ telemetry'[e].latency = WithSample(telemetry[d].latency, x, budget.capacity)
           /\ budget'.capacity = budget.capacity
      BY <1>1, <1>6, <2>3
    <3>. QED  BY <1>6, <1>8, <2>1, <2>3, <3>3, <3>8, <1>9, <3>10
  <2>. QED  BY <2>2, <2>3
<1>. QED  BY <1>6, <1>11 DEF LatencyKept

\* Any other callback of a frame leaves the samples
LEMMA LatencyUntouched ==
    ASSUME TypeInv, LatencyKept, NEW f \in DOMAIN frames, TimesFrame(f),
           TimesGpu(f) \/ TimesPresentation(f) \/ SkipsFrame(f) \/ ShowsFrame(f)
    PROVE  LatencyKept'
<1>1. /\ DOMAIN frames' = DOMAIN frames
      /\ \A g \in DOMAIN frames : g # f => frames'[g] = frames[g]
      /\ frames'[f].epoch = frames[f].epoch /\ budget' = budget
  BY DEF TimesFrame, LateCallback, FrameChanged, SameWork, owner
<1>2. frames[f].submission \in Submissions
  BY FramesTyped, FieldsTyped DEF TypeInv, TypeOK
<1>3. /\ frames'[f].submission.sample = frames[f].submission.sample
      /\ "emitted" \in frames'[f].submission.events <=> "emitted" \in frames[f].submission.events
  <2>1. CASE TimesGpu(f)
    <3>1. PICK time \in Nat : frames'[f].submission = WithGpuCompletion(frames[f].submission, time)
      BY <2>1 DEF TimesGpu
    <3>. QED  BY <1>2, <3>1, SubmissionFields
  <2>2. CASE TimesPresentation(f)
    <3>1. PICK time \in Nat : frames'[f].submission = WithPresentation(frames[f].submission, time)
      BY <2>2 DEF TimesPresentation
    <3>. QED  BY <1>2, <3>1, SubmissionFields
  <2>3. CASE SkipsFrame(f) \/ ShowsFrame(f)
    BY <2>3, <1>2, SubmissionFields, 0 \in Nat DEF SkipsFrame, ShowsFrame
  <2>. QED  BY <2>1, <2>2, <2>3
<1>. QED
  BY <1>1, <1>3, SamplesStay, LatencySame DEF TimesGpu, TimesPresentation, SkipsFrame, Skips,
     ShowsFrame, TelemetryChanged, SameSamples

LEMMA LatencyAdvance ==
    ASSUME TypeInv, LatencyKept, TelemetryAdvanced, frames' = frames, budget' = budget
    PROVE  LatencyKept'
<1>. DEFINE last == Len(telemetry')
<1>1. /\ epoch \in Nat \ {0} /\ DOMAIN telemetry = 1 .. epoch /\ DOMAIN telemetry' = 1 .. last
      /\ last \in {epoch, epoch + 1}
      /\ \A e \in 1 .. epoch : /\ telemetry'[e].samples = telemetry[e].samples
                               /\ telemetry'[e].latency = telemetry[e].latency
      /\ last = epoch + 1 => /\ telemetry'[epoch + 1].samples = 0
                             /\ telemetry'[epoch + 1].latency = <<>>
  BY DEF TelemetryAdvanced, SameCounts, SameSamples
<1>. HIDE DEF last
<1>2. \A e : Samples(e)' = Samples(e) /\ Timed(e)' = Timed(e)
  BY DEF Samples, Timed
<1>3. ASSUME NEW e \in DOMAIN telemetry'
      PROVE  /\ telemetry'[e].samples = Cardinality(Samples(e)')
             /\ HoldsNewest(telemetry'[e].latency, Timed(e)', budget'.capacity)
  <2>1. CASE e \in 1 .. epoch
    BY <1>1, <2>1, <1>2 DEF LatencyKept
  <2>2. CASE e \notin 1 .. epoch
    <3>5. Samples(e)' = {} /\ Timed(e)' = {}
      BY <1>2, <1>1, <2>2 DEF Samples, Timed, TypeInv, Epochs
    <3>6. HoldsNewest(<<>>, {}, budget'.capacity)
      BY DEF HoldsNewest, Range
    <3>. QED  BY <1>1, <2>2, <3>5, <3>6, FS_EmptySet
  <2>. QED  BY <2>1, <2>2
<1>. QED  BY <1>3 DEF LatencyKept

LEMMA LatencyStays ==
    ASSUME TypeInv, TimingEvents, LatencyKept, StepEffect
    PROVE  LatencyKept'
<1>1. ASSUME NEW f \in DOMAIN frames, TimesFrame(f)
      PROVE  LatencyKept'
  BY <1>1, LatencyEmits, LatencyUntouched DEF TimesFrame
<1>2. ASSUME ~ \E f \in DOMAIN frames : TimesFrame(f)
      PROVE  LatencyKept'
  BY TelemetrySteps, BudgetKept, LatencyAdvance, <1>2, TimingStays, SamplesStay, LatencySame DEF
     Skips, TelemetryChanged, SameSamples
<1>. QED  BY <1>1, <1>2

\* A frame is presented: its time is one more of its epoch
LEMMA ShownShows ==
    ASSUME TypeInv, ShownKept, NEW f \in DOMAIN frames, TimesFrame(f), ShowsFrame(f)
    PROVE  ShownKept'
<1>. DEFINE d == frames[f].epoch
            s == frames[f].submission
            x == [sequence |-> s.sequence, time |-> s.presented]
<1>1. /\ DOMAIN frames' = DOMAIN frames
      /\ \A g \in DOMAIN frames : g # f => frames'[g] = frames[g]
      /\ frames'[f].epoch = d /\ budget' = budget
  BY DEF TimesFrame, LateCallback, FrameChanged, SameWork, owner
<1>2. s \in Submissions /\ s.sequence \in Nat /\ s.presented \in Nat
  BY FramesTyped, FieldsTyped DEF TypeInv, TypeOK, Submissions
<1>3. s.outcome # "presented" /\ s.presented # 0
  BY DEF ShowsFrame, TypeInv, PresentedLast
<1>4. frames'[f].submission.outcome = "presented" /\ frames'[f].submission.presented = s.presented
  BY <1>2, SubmissionFields, 0 \in Nat DEF ShowsFrame
<1>5. s.sequence # 0
  BY DEF TypeInv, Epochs
<1>6. x \in ShownFrames /\ x.time = s.presented /\ x.sequence = s.sequence
  BY <1>2, ShownRecorded
<1>7. /\ d \in DOMAIN telemetry /\ DOMAIN telemetry' = DOMAIN telemetry
      /\ \A e \in DOMAIN telemetry : e # d => telemetry'[e] = telemetry[e]
      /\ telemetry'[d].shown =
            WithPresentedFrame(telemetry[d].shown, s.sequence, s.presented, budget.capacity)
  BY DEF ShowsFrame, TelemetryChanged, TypeInv, Epochs
<1>8. telemetry'[d].shown = WithShown(telemetry[d].shown, x, budget.capacity)
  BY <1>2, <1>7, ShownRecorded
<1>9. \A e : PresentedTimes(e)' = IF e = d THEN PresentedTimes(e) \cup {s.presented}
                                 ELSE PresentedTimes(e)
  <2>1. ASSUME NEW e
        PROVE  PresentedFrames(e)' = IF e = d THEN PresentedFrames(e) \cup {f}
                                    ELSE PresentedFrames(e)
    BY <1>1, <1>3, <1>4 DEF PresentedFrames
  <2>2. ASSUME NEW e
        PROVE  PresentedTimes(e)' = {frames'[g].submission.presented : g \in PresentedFrames(e)'}
    BY DEF PresentedTimes, PresentedFrames
  <2>4. \A e : \A g \in PresentedFrames(e) :
           frames'[g].submission.presented = frames[g].submission.presented
    BY <1>1, <1>3 DEF PresentedFrames
  <2>5. ASSUME NEW e
        PROVE  PresentedTimes(e)' = IF e = d THEN PresentedTimes(e) \cup {s.presented}
                                   ELSE PresentedTimes(e)
    <3>. HIDE DEF d
    <3>1. CASE e = d
      BY <2>1, <2>2, <3>1, <1>4, <2>4 DEF PresentedTimes
    <3>2. CASE e # d
      BY <2>1, <2>2, <3>2, <2>4 DEF PresentedTimes
    <3>. QED  BY <3>1, <3>2
  <2>. QED  BY <2>5
<1>10. budget.capacity \in Nat \ {0}
  BY RendererAssumption, CapacityTyped DEF TypeInv, TypeOK
<1>. HIDE DEF d, x, s
<1>11. ASSUME NEW e \in DOMAIN telemetry
       PROVE  ShowsNewest(telemetry'[e].shown, PresentedTimes(e)', budget'.capacity)
  <2>1. ShowsNewest(telemetry[e].shown, PresentedTimes(e), budget.capacity)
    BY DEF ShownKept
  <2>2. CASE e # d
    BY <1>1, <1>7, <1>9, <2>1, <2>2
  <2>3. CASE e = d
    <3>2. /\ telemetry[d].shown \in Seq(ShownFrames)
          /\ Len(telemetry[d].shown) <= budget.capacity /\ FramesSorted(telemetry[d].shown)
      BY <1>7, <2>3, EpochTyped, TelemetryTyped DEF TypeInv, HistoriesSorted, TypeOK
    <3>4. ShowsNewest(WithShown(telemetry[d].shown, x, budget.capacity),
                      PresentedTimes(d) \cup {x.time}, budget.capacity)
      BY <1>3, <1>5, <1>6, <1>10, <2>1, <2>3, <3>2, PublishedTyped, NewestFrame
    <3>. QED  BY <3>4, <1>6, <1>9, <2>3, <1>1, <1>8
  <2>. QED  BY <2>2, <2>3
<1>. QED  BY <1>7, <1>11 DEF ShownKept

LEMMA ShownUntouched ==
    ASSUME TypeInv, ShownKept, NEW f \in DOMAIN frames, TimesFrame(f),
           TimesGpu(f) \/ Emits(f) \/ TimesPresentation(f) \/ SkipsFrame(f)
    PROVE  ShownKept'
<1>1. /\ DOMAIN frames' = DOMAIN frames
      /\ \A g \in DOMAIN frames : g # f => frames'[g] = frames[g]
      /\ frames'[f].epoch = frames[f].epoch /\ budget' = budget
  BY DEF TimesFrame, LateCallback, FrameChanged, SameWork, owner
<1>2. frames[f].submission \in Submissions
  BY FramesTyped, FieldsTyped DEF TypeInv, TypeOK
<1>3. /\ frames'[f].submission.outcome = "presented" <=> frames[f].submission.outcome = "presented"
      /\ \/ frames'[f].submission.presented = frames[f].submission.presented
         \/ "presented" \notin {frames[f].submission.outcome, frames'[f].submission.outcome}
  <2>1. CASE TimesGpu(f)
    <3>1. PICK time \in Nat : frames'[f].submission = WithGpuCompletion(frames[f].submission, time)
      BY <2>1 DEF TimesGpu
    <3>. QED  BY <1>2, <3>1, SubmissionFields
  <2>2. CASE TimesPresentation(f)
    <3>1. PICK time \in Nat : frames'[f].submission = WithPresentation(frames[f].submission, time)
      BY <2>2 DEF TimesPresentation
    <3>. QED  BY <2>2, <1>2, <3>1, SubmissionFields DEF TimesPresentation, TypeInv, PresentedLast
  <2>3. CASE Emits(f) \/ SkipsFrame(f)
    BY <2>3, <1>2, SubmissionFields, 0 \in Nat DEF SkipsFrame, Emits
  <2>. QED  BY <2>1, <2>2, <2>3
<1>. QED
  BY <1>1, <1>3, TimesStay, ShownSame DEF TimesGpu, TimesPresentation, SkipsFrame, Skips, Emits,
     TelemetryChanged, SamePresented

LEMMA ShownAdvance ==
    ASSUME TypeInv, ShownKept, TelemetryAdvanced, frames' = frames, budget' = budget
    PROVE  ShownKept'
<1>. DEFINE last == Len(telemetry')
<1>1. /\ epoch \in Nat \ {0} /\ DOMAIN telemetry = 1 .. epoch /\ DOMAIN telemetry' = 1 .. last
      /\ last \in {epoch, epoch + 1}
      /\ \A e \in 1 .. epoch : telemetry'[e].shown = telemetry[e].shown
      /\ last = epoch + 1 => telemetry'[epoch + 1].shown = <<>>
  BY DEF TelemetryAdvanced, SameCounts, SamePresented
<1>. HIDE DEF last
<1>2. \A e : PresentedTimes(e)' = PresentedTimes(e)
  BY DEF PresentedTimes, PresentedFrames
<1>3. ASSUME NEW e \in DOMAIN telemetry'
      PROVE  ShowsNewest(telemetry'[e].shown, PresentedTimes(e)', budget'.capacity)
  <2>1. CASE e \in 1 .. epoch
    BY <1>1, <2>1, <1>2 DEF ShownKept
  <2>2. CASE e \notin 1 .. epoch
    BY <1>1, <2>2, <1>2 DEF PresentedTimes, PresentedFrames, TypeInv, Epochs, TimesOf, ShowsNewest
  <2>. QED  BY <2>1, <2>2
<1>. QED  BY <1>3 DEF ShownKept

LEMMA ShownStays ==
    ASSUME TypeInv, ShownKept, StepEffect
    PROVE  ShownKept'
<1>1. ASSUME NEW f \in DOMAIN frames, TimesFrame(f)
      PROVE  ShownKept'
  BY <1>1, ShownShows, ShownUntouched DEF TimesFrame
<1>2. ASSUME ~ \E f \in DOMAIN frames : TimesFrame(f)
      PROVE  ShownKept'
  BY TelemetrySteps, BudgetKept, ShownAdvance, <1>2, TimingStays, BuildingTyped, TimesStay,
     ShownSame DEF Skips, TelemetryChanged, SamePresented, TypeInv, Abandons
<1>. QED  BY <1>1, <1>2

LEMMA HistoriesInit ==
    ASSUME Init
    PROVE  LatencyKept /\ ShownKept
<1>1. frames = <<>> /\ telemetry = <<FreshTelemetry>>
  BY DEF Init
<1>2. /\ DOMAIN telemetry = {1} /\ telemetry[1].samples = 0
      /\ telemetry[1].latency = <<>> /\ telemetry[1].shown = <<>>
  BY <1>1 DEF FreshTelemetry
<1>3. \A e : Samples(e) = {} /\ Timed(e) = {} /\ PresentedTimes(e) = {}
  BY <1>1 DEF Samples, Timed, PresentedTimes, PresentedFrames
<1>5. HoldsNewest(<<>>, {}, budget.capacity) /\ ShowsNewest(<<>>, {}, budget.capacity)
  BY DEF HoldsNewest, ShowsNewest, Range, TimesOf
<1>. QED  BY <1>2, <1>3, <1>5, FS_EmptySet DEF LatencyKept, ShownKept

(***************************************************************************)
(* What the invariants say                                                 *)
(***************************************************************************)
LEMMA TimingPublished ==
    ASSUME TypeInv, TimingEvents, LatencyKept
    PROVE  TimingPublishedOnce
<1>1. ASSUME NEW f \in DOMAIN frames,
             frames[f].completion = "done", frames[f].presentation = "done"
      PROVE  /\ "emitted" \in frames[f].submission.events
             /\ frames[f].submission.sample = classifyFrameLatency(frames[f].submission)
  BY <1>1 DEF TimingEvents, FrameTiming, BothTimes
<1>2. ASSUME NEW e \in DOMAIN telemetry
      PROVE  LET kept == Range(telemetry[e].latency)
             IN  /\ telemetry[e].samples = Cardinality(Samples(e))
                 /\ kept \subseteq Timed(e)
                 /\ Cardinality(kept) = SmallerOf(Cardinality(Timed(e)), budget.capacity)
                 /\ \A k \in kept, s \in Timed(e) \ kept : LatencyEarlier(s, k)
  BY EpochTyped, TelemetryTyped, PublishedTyped, RendererAssumption, CapacityTyped, NewestCounted
     DEF LatencyKept, TypeInv, TypeOK, HistoriesSorted, HoldsNewest
<1>. QED  BY <1>1, <1>2 DEF TimingPublishedOnce, Timed

LEMMA PacingShown ==
    ASSUME TypeInv, ShownKept
    PROVE  IntervalsArePacing
<1>1. ASSUME NEW e \in DOMAIN telemetry
      PROVE  LET shown == telemetry[e].shown
             IN  /\ \A i \in 1 .. Len(shown) - 1 : Intervals(shown)[i].time > 0
                 /\ Len(shown) = SmallerOf(Cardinality(PresentedTimes(e)), budget.capacity)
                 /\ \A t \in PresentedTimes(e) : t \in TimesOf(shown) \/ t < shown[1].time
  BY EpochTyped, TelemetryTyped, PublishedTyped, RendererAssumption, CapacityTyped, FramesCounted
     DEF ShownKept, TypeInv, TypeOK, HistoriesSorted
<1>. QED  BY <1>1 DEF IntervalsArePacing, PresentedTimes, PresentedFrames, TimesOf

(***************************************************************************)
(* The ring                                                                *)
(***************************************************************************)
\* Once round the ring
LEMMA Round ==
    ASSUME NEW n \in Nat \ {0}, NEW x \in Nat
    PROVE  /\ x % n \in 0 .. n - 1
           /\ x < n => x % n = x
           /\ x >= n /\ x < 2 * n => x % n = x - n
OBVIOUS

\* The columns of a ring, from its oldest place on
LEMMA AtPlaces ==
    ASSUME NEW n \in Nat \ {0}, NEW next \in 0 .. n - 1, NEW k \in 0 .. n
    PROVE  /\ (next + k) % n \in 0 .. n - 1
           /\ (next + k) % n = IF next + k < n THEN next + k ELSE next + k - n
<1>. DEFINE x == next + k
<1>1. x \in Nat /\ x < 2 * n /\ (x < n \/ x >= n)
  OBVIOUS
<1>. HIDE DEF x
<1>2. /\ x % n \in 0 .. n - 1
      /\ x < n => x % n = x
      /\ x >= n /\ x < 2 * n => x % n = x - n
  BY <1>1, Round
<1>. QED  BY <1>2, <1>1 DEF x

\* What a column appended leaves, by the three cases of the code
LEMMA AppendedAgain ==
    ASSUME NEW ring \in Rings, NEW slot \in Nat, NEW sequence \in Nat,
           ring.hasTimeline, slot = ring.lastSlot
    PROVE  LET a == AppendColumn(ring, slot, sequence)
           IN  /\ a.ring.columns = ring.columns /\ a.ring.valid = ring.valid
               /\ a.ring.next = ring.next /\ a.ring.span = ring.span
               /\ a.ring.lastSlot = slot /\ a.ring.hasTimeline
               /\ a.column = (ring.next + ring.columns - 1) % ring.columns
BY DEF AppendColumn, Rings

\* The column behind a gap, or behind none on a ring without a timeline
AppendedBehind(ring, a, slot, gap) ==
    /\ a.ring.columns = ring.columns
    /\ a.column = (ring.next + gap) % ring.columns
    /\ a.ring.next = (a.column + 1) % ring.columns
    /\ a.ring.span <= ring.columns
    /\ a.ring.lastSlot = slot /\ a.ring.hasTimeline
    /\ \A c \in a.ring.valid : \/ c = a.column
                               \/ /\ c \in ring.valid /\ gap < ring.columns
                                  /\ \A i \in 0 .. gap - 1 : c # (ring.next + i) % ring.columns

LEMMA AppendedLater ==
    ASSUME NEW ring \in Rings, NEW slot \in Nat, NEW sequence \in Nat,
           ring.columns # 0, Fits(ring), ring.hasTimeline, slot > ring.lastSlot
    PROVE  AppendedBehind(ring, AppendColumn(ring, slot, sequence), slot, slot - ring.lastSlot - 1)
<1>. DEFINE gap == slot - ring.lastSlot - 1
            skipped == {(ring.next + i) % ring.columns : i \in 0 .. gap - 1}
            gapped == [ring EXCEPT !.valid = IF gap >= ring.columns THEN {} ELSE ring.valid \ skipped,
                                   !.next = (ring.next + gap) % ring.columns,
                                   !.span = IF gap >= ring.columns THEN ring.columns - 1
                                            ELSE SmallerOf(ring.columns, ring.span + gap)]
            ahead == [gapped EXCEPT !.valid = gapped.valid \cup {gapped.next},
                                    !.next = (gapped.next + 1) % ring.columns,
                                    !.span = SmallerOf(ring.columns, gapped.span + 1),
                                    !.lastSlot = slot,
                                    !.lastSequence = sequence,
                                    !.hasTimeline = TRUE]
<1>1. /\ ring.lastSlot \in Nat /\ ring.columns \in Nat \ {0} /\ ring.next \in Nat /\ ring.span \in Nat
  BY DEF Rings
<1>2. gap \in Nat /\ slot # ring.lastSlot
  BY <1>1
<1>3. AppendColumn(ring, slot, sequence) = [ring |-> ahead, column |-> gapped.next]
  BY <1>2 DEF AppendColumn, WithGap
<1>4. /\ gapped.valid = IF gap >= ring.columns THEN {} ELSE ring.valid \ skipped
      /\ gapped.next = (ring.next + gap) % ring.columns
      /\ gapped.span = IF gap >= ring.columns THEN ring.columns - 1
                       ELSE SmallerOf(ring.columns, ring.span + gap)
      /\ gapped.columns = ring.columns
  BY DEF Rings
<1>. HIDE DEF gap, skipped
<1>5. /\ ahead.valid = gapped.valid \cup {gapped.next} /\ ahead.columns = ring.columns
      /\ ahead.next = (gapped.next + 1) % ring.columns
      /\ ahead.span = SmallerOf(ring.columns, gapped.span + 1)
      /\ ahead.lastSlot = slot /\ ahead.hasTimeline
  BY DEF Rings
<1>. HIDE DEF gapped, ahead
<1>7. \A c \in ahead.valid : \/ c = gapped.next
                             \/ /\ c \in ring.valid /\ gap < ring.columns
                                /\ \A i \in 0 .. gap - 1 : c # (ring.next + i) % ring.columns
  <2>1. ASSUME NEW c \in ahead.valid, c # gapped.next
        PROVE  /\ c \in ring.valid /\ gap < ring.columns
               /\ \A i \in 0 .. gap - 1 : c # (ring.next + i) % ring.columns
    BY <1>5, <2>1, <1>4, <1>1, <1>2 DEF skipped
  <2>. QED  BY <2>1
<1>. QED  BY <1>3, <1>4, <1>5, <1>1, <1>2, <1>7 DEF AppendedBehind, gap, SmallerOf

LEMMA AppendedFirst ==
    ASSUME NEW ring \in Rings, NEW slot \in Nat, NEW sequence \in Nat,
           ring.columns # 0, Fits(ring), ~ring.hasTimeline, ring.valid = {}
    PROVE  AppendedBehind(ring, AppendColumn(ring, slot, sequence), slot, 0)
<1>. DEFINE ahead == [ring EXCEPT !.valid = ring.valid \cup {ring.next},
                                  !.next = (ring.next + 1) % ring.columns,
                                  !.span = SmallerOf(ring.columns, ring.span + 1),
                                  !.lastSlot = slot,
                                  !.lastSequence = sequence,
                                  !.hasTimeline = TRUE]
<1>1. ring.columns \in Nat \ {0} /\ ring.next \in Nat /\ ring.span \in Nat /\ ring.next < ring.columns
  BY DEF Rings, Fits
<1>2. AppendColumn(ring, slot, sequence) = [ring |-> ahead, column |-> ring.next]
  BY DEF AppendColumn
<1>3. /\ ahead.valid = {ring.next} /\ ahead.columns = ring.columns
      /\ ahead.next = (ring.next + 1) % ring.columns
      /\ ahead.span = SmallerOf(ring.columns, ring.span + 1)
      /\ ahead.lastSlot = slot /\ ahead.hasTimeline
  BY DEF Rings
<1>. HIDE DEF ahead
<1>5. (ring.next + 0) % ring.columns = ring.next
  <2>1. ring.next + 0 = ring.next
    BY <1>1
  <2>. QED  BY <1>1, <2>1, Round
<1>. QED  BY <1>2, <1>3, <1>1, <1>5 DEF AppendedBehind, SmallerOf

\* A column behind a gap moves the others, and takes the newest place
LEMMA PlacesBehind ==
    ASSUME NEW ring \in Rings, NEW a, NEW slot \in Nat, NEW gap \in Nat,
           ring.columns # 0, Fits(ring), AppendedBehind(ring, a, slot, gap)
    PROVE  /\ a.column \in 0 .. ring.columns - 1
           /\ a.ring.next \in 0 .. ring.columns - 1
           /\ \A k \in 0 .. ring.columns - 1 : At(a.ring, k) \in a.ring.valid =>
                 IF At(a.ring, k) = a.column THEN k = ring.columns - 1
                 ELSE /\ At(a.ring, k) \in ring.valid
                      /\ k + gap + 1 \in 0 .. ring.columns - 1
                      /\ At(ring, k + gap + 1) = At(a.ring, k)
<1>. DEFINE n == ring.columns
            first == ring.next
            p == a.column
            q == a.ring.next
<1>1. n \in Nat \ {0} /\ first \in 0 .. n - 1
  BY DEF Rings, Fits
<1>2. /\ p = (first + gap) % n /\ q = (p + 1) % n /\ a.ring.columns = n
      /\ \A c \in a.ring.valid : \/ c = p
                                 \/ /\ c \in ring.valid /\ gap < n
                                    /\ \A i \in 0 .. gap - 1 : c # (first + i) % n
  BY DEF AppendedBehind
<1>3. \A k : At(a.ring, k) = (q + k) % n /\ At(ring, k) = (first + k) % n
  BY <1>2 DEF At
<1>. HIDE DEF n, first, p, q
<1>4. p \in 0 .. n - 1
  <2>1. first + gap \in Nat
    BY <1>1
  <2>. QED  BY <1>1, <1>2, <2>1, Round
<1>5. q \in 0 .. n - 1 /\ q = IF p + 1 < n THEN p + 1 ELSE 0
  <2>1. 1 \in 0 .. n
    BY <1>1
  <2>2. q \in 0 .. n - 1 /\ q = IF p + 1 < n THEN p + 1 ELSE p + 1 - n
    BY <1>1, <1>2, <1>4, <2>1, AtPlaces
  <2>3. p + 1 < n \/ p + 1 - n = 0
    BY <1>1, <1>4
  <2>. QED  BY <2>2, <2>3
<1>6. ASSUME NEW k \in 0 .. n - 1, (q + k) % n \in a.ring.valid
      PROVE  IF (q + k) % n = p THEN k = n - 1
             ELSE /\ (q + k) % n \in ring.valid
                  /\ k + gap + 1 \in 0 .. n - 1
                  /\ (first + (k + gap + 1)) % n = (q + k) % n
  <2>. DEFINE c == (q + k) % n
  <2>0. k \in 0 .. n
    BY <1>1
  <2>1. c = IF q + k < n THEN q + k ELSE q + k - n
    BY <1>1, <1>5, <2>0, AtPlaces
  <2>2. CASE c = p
    <3>. HIDE DEF c
    <3>1. k = n - 1
      BY <1>1, <1>4, <1>5, <2>1, <2>2
    <3>. QED  BY <2>2, <3>1 DEF c
  <2>3. CASE c # p
    <3>1. /\ c \in ring.valid /\ gap < n
          /\ \A i \in 0 .. gap - 1 : c # (first + i) % n
      BY <1>2, <1>6, <2>3
    <3>. HIDE DEF c
    <3>2. gap \in 0 .. n
      BY <1>1, <3>1
    <3>3. p = IF first + gap < n THEN first + gap ELSE first + gap - n
      BY <1>1, <1>2, <3>2, AtPlaces
    <3>4. k + gap + 1 < n
      <4>1. ASSUME k + gap + 1 >= n
            PROVE  FALSE
        <5>. DEFINE i == k + gap + 1 - n
        <5>1. i \in 0 .. gap /\ i \in 0 .. n
          BY <1>1, <3>1, <4>1
        <5>2. (first + i) % n = IF first + i < n THEN first + i ELSE first + i - n
          BY <1>1, <5>1, AtPlaces
        <5>3. (first + i) % n = c
          <6>1. first + i = first + k + gap + 1 - n
            BY <1>1
          <6>. HIDE DEF i
          <6>. QED  BY <1>1, <1>4, <1>5, <2>1, <3>1, <3>3, <5>1, <5>2, <6>1
        <5>. HIDE DEF i
        <5>4. CASE i = gap
          BY <1>2, <2>3, <5>3, <5>4
        <5>5. CASE i # gap
          <6>1. i \in 0 .. gap - 1
            BY <5>1, <5>5
          <6>. QED  BY <3>1, <5>3, <6>1
        <5>. QED  BY <5>4, <5>5
      <4>2. k + gap + 1 \in Nat /\ n \in Nat
        BY <1>1
      <4>. QED  BY <4>1, <4>2
    <3>5. k + gap + 1 \in 0 .. n - 1 /\ k + gap + 1 \in 0 .. n
      BY <1>1, <3>4
    <3>6. (first + (k + gap + 1)) % n = IF first + (k + gap + 1) < n THEN first + (k + gap + 1)
                                       ELSE first + (k + gap + 1) - n
      BY <1>1, <3>5, AtPlaces
    <3>7. (first + (k + gap + 1)) % n = c
      BY <1>1, <1>4, <1>5, <2>1, <3>1, <3>3, <3>4, <3>6
    <3>. QED  BY <2>3, <3>1, <3>5, <3>7 DEF c
  <2>. QED  BY <2>2, <2>3
<1>. QED  BY <1>3, <1>4, <1>5, <1>6 DEF n, p, q

\* Every column keeps the timeline slot it stands for, the newest stands for its own
LEMMA AppendPlaces ==
    ASSUME NEW ring \in Rings, NEW slot \in Nat, NEW sequence \in Nat,
           ~RefusedColumn(ring, slot, sequence), Fits(ring),
           ~ring.hasTimeline => ring.valid = {}
    PROVE  LET a == AppendColumn(ring, slot, sequence)
           IN  /\ a.ring.columns = ring.columns /\ Fits(a.ring)
               /\ a.ring.lastSlot = slot /\ a.ring.hasTimeline
               /\ \A k \in 0 .. ring.columns - 1 : At(a.ring, k) \in a.ring.valid =>
                     IF At(a.ring, k) = a.column THEN k = ring.columns - 1
                     ELSE \E j \in 0 .. ring.columns - 1 :
                             /\ At(ring, j) = At(a.ring, k) /\ At(ring, j) \in ring.valid
                             /\ ring.lastSlot + j = slot + k
<1>. DEFINE a == AppendColumn(ring, slot, sequence)
            n == ring.columns
            Places == \A k \in 0 .. n - 1 : At(a.ring, k) \in a.ring.valid =>
                         IF At(a.ring, k) = a.column THEN k = n - 1
                         ELSE \E j \in 0 .. n - 1 :
                                 /\ At(ring, j) = At(a.ring, k) /\ At(ring, j) \in ring.valid
                                 /\ ring.lastSlot + j = slot + k
<1>1. /\ n \in Nat \ {0} /\ ring.next \in 0 .. n - 1 /\ ring.lastSlot \in Nat
      /\ ring.valid \subseteq 0 .. n - 1
      /\ ring.hasTimeline => slot >= ring.lastSlot
  BY DEF Rings, Fits, RefusedColumn
<1>2. CASE ring.hasTimeline /\ slot = ring.lastSlot
  <2>1. /\ a.ring.columns = n /\ a.ring.valid = ring.valid /\ a.ring.next = ring.next
        /\ a.ring.span = ring.span /\ a.ring.lastSlot = slot /\ a.ring.hasTimeline
        /\ a.column = (ring.next + n - 1) % n
    BY <1>2, AppendedAgain
  <2>. HIDE DEF a, n
  <2>2. \A k : At(a.ring, k) = At(ring, k) /\ At(ring, k) = (ring.next + k) % n
    BY <2>1 DEF At, n
  <2>3. ASSUME NEW k \in 0 .. n - 1, At(ring, k) = a.column
        PROVE  k = n - 1
    <3>1. n - 1 \in 0 .. n /\ k \in 0 .. n /\ ring.next + n - 1 = ring.next + (n - 1)
      BY <1>1
    <3>2. a.column = IF ring.next + (n - 1) < n THEN ring.next + (n - 1)
                     ELSE ring.next + (n - 1) - n
      BY <1>1, <2>1, <3>1, AtPlaces
    <3>3. At(ring, k) = IF ring.next + k < n THEN ring.next + k ELSE ring.next + k - n
      BY <1>1, <2>2, <3>1, AtPlaces
    <3>. QED  BY <1>1, <2>3, <3>2, <3>3
  <2>. QED  BY <2>1, <1>2, <2>2, <2>3 DEF a, n, Fits
<1>3. ASSUME NEW gap \in Nat, AppendedBehind(ring, a, slot, gap),
             ring.valid # {} => slot = ring.lastSlot + gap + 1
      PROVE  /\ a.ring.columns = n /\ Fits(a.ring) /\ a.ring.lastSlot = slot /\ a.ring.hasTimeline
             /\ Places
  <2>. HIDE DEF a
  <2>2. /\ a.column \in 0 .. n - 1 /\ a.ring.next \in 0 .. n - 1
        /\ \A k \in 0 .. n - 1 : At(a.ring, k) \in a.ring.valid =>
              IF At(a.ring, k) = a.column THEN k = n - 1
              ELSE /\ At(a.ring, k) \in ring.valid
                   /\ k + gap + 1 \in 0 .. n - 1
                   /\ At(ring, k + gap + 1) = At(a.ring, k)
    BY <1>1, <1>3, PlacesBehind
  <2>4. ASSUME NEW k \in 0 .. n - 1, At(a.ring, k) \in a.ring.valid, At(a.ring, k) # a.column
        PROVE  \E j \in 0 .. n - 1 :
                  /\ At(ring, j) = At(a.ring, k) /\ At(ring, j) \in ring.valid
                  /\ ring.lastSlot + j = slot + k
    BY <2>2, <2>4, <1>1, <1>3
  <2>. QED  BY <1>3, <2>2, <1>1, <2>4 DEF Fits, AppendedBehind
<1>4. CASE ring.hasTimeline /\ slot # ring.lastSlot
  <2>. HIDE DEF a
  <2>. QED  BY <1>3, <1>1, <1>4, AppendedLater DEF a
<1>5. CASE ~ring.hasTimeline
  BY <1>1, <1>5, AppendedFirst, <1>3
<1>. QED  BY <1>2, <1>4, <1>5

(***************************************************************************)
(* What a step leaves of the frames whose work is done or queued           *)
(***************************************************************************)
\* A frame keeps its work, and a queued one what its slot holds for it
Kept(f) ==
    /\ SameWork(f)
    /\ frames'[f].completion = "queued" <=> frames[f].completion = "queued"
    /\ frames[f].completion = "queued" =>
          LET s == FrameState(f)
              t == slots'[frames[f].slot]
          IN  /\ t.staging = s.staging /\ t.valid = s.valid /\ t.columns = s.columns
              /\ t.next = s.next /\ t.span = s.span

\* Every frame does, unless it is without work before and after
FramesKept ==
    \A f \in DOMAIN frames' :
        \/ frames'[f].completion = "none" /\ frames'[f].transaction = 0
        \/ f \in DOMAIN frames /\ Kept(f)

Commits == CommitUploads \/ CommitDrawing \/ CommitUnencoded

LEMMA StepKeeps ==
    ASSUME TypeInv, StepEffect, ~Commits,
           ~ \E f \in DOMAIN frames, ok \in BOOLEAN : Ran(f, ok)
    PROVE  FramesKept
<1>1. /\ TypeOK /\ BuildingFrame /\ SlotsHeld
      /\ Len(frames) \in Nat /\ DOMAIN frames = 1 .. Len(frames)
  BY FramesTyped DEF TypeInv, TypeOK
<1>2. Building =>
         /\ building \in DOMAIN frames /\ frames[building].slot \in 1 .. BufferCount
         /\ frames[building].completion = "none" /\ frames[building].transaction = 0
         /\ \A f \in DOMAIN frames : frames[f].completion = "queued" =>
               frames[f].slot \in 1 .. BufferCount /\ frames[f].slot # frames[building].slot
  BY <1>1, BuildingTyped DEF Holds, SlotsHeld
<1>3. \A f \in DOMAIN frames : frames[f].completion = "queued" =>
         frames[f].slot \in 1 .. BufferCount /\ slots[frames[f].slot].admission % 2 = 1
  BY <1>1 DEF SlotsHeld, Holds
<1>4. ASSUME frames' = frames, slots' = slots
      PROVE  FramesKept
  BY <1>4 DEF FramesKept, Kept, SameWork, FrameState
<1>5. CASE \/ Begins \/ StartsDrain \/ Interlude \/ UNCHANGED vars
  BY <1>4, <1>5 DEF Begins, StartsDrain, Interlude, vars, shared
<1>6. ASSUME NEW r, NEW b, FrameAdded(r), FreshFrame(r, b),
             \A f \in DOMAIN frames : frames[f].completion = "queued" =>
                slots'[frames[f].slot] = slots[frames[f].slot]
      PROVE  FramesKept
  BY <1>6 DEF FrameAdded, Kept, SameWork, FrameState, FramesKept, FreshFrame
<1>7. CASE Drops
  BY <1>6, <1>7 DEF Drops, shared
<1>8. CASE \E b \in 1 .. BufferCount : Acquires(b)
  <2>1. PICK b \in 1 .. BufferCount : Acquires(b)
    BY <1>8
  <2>3. \A f \in DOMAIN frames : frames[f].completion = "queued" =>
           slots'[frames[f].slot] = slots[frames[f].slot]
    BY <1>3, <2>1 DEF Acquires, SlotChanged
  <2>. QED  BY <1>6, <1>1, <2>1, NewFrameTyped, <2>3 DEF Acquires
<1>9. ASSUME Building, FrameChanged(building),
             frames'[building].completion = frames[building].completion,
             frames'[building].transaction = frames[building].transaction,
             SlotChanged(frames[building].slot)
      PROVE  FramesKept
  BY <1>2, <1>9 DEF FrameChanged, Kept, SameWork, FrameState, SlotChanged, FramesKept
<1>10. CASE Prepares
  BY <1>9, <1>10 DEF Prepares, SlotWritten
<1>11. CASE DrainsMarker \/ DrainsColumn
  BY <1>11, ColumnSteps, <1>9 DEF DrainsMarker, DrainTurn, UploadsPrepared
<1>12. ASSUME NEW f \in DOMAIN frames, FrameChanged(f), SameWork(f),
              frames'[f].completion # "queued", frames[f].completion # "queued",
              SlotReleased(f) \/ slots' = slots
       PROVE  FramesKept
  BY <1>12, <1>3 DEF SlotReleased, Kept, FrameChanged, SameWork, FrameState, FramesKept
<1>13. CASE Abandons
  BY <1>2, <1>12, <1>13 DEF Abandons
<1>14. CASE \E f \in DOMAIN frames : Publishes(f) \/ Opens(f) \/ Releases(f) \/ TimesFrame(f)
  <2>1. PICK f \in DOMAIN frames : Publishes(f) \/ Opens(f) \/ Releases(f) \/ TimesFrame(f)
    BY <1>14
  <2>2. CASE Publishes(f) \/ Opens(f) \/ Releases(f)
    BY <1>12, <2>2 DEF Publishes, Opens, Releases, Handles
  <2>3. CASE TimesFrame(f)
    <3>1. FrameChanged(f) /\ SameWork(f) /\ slots' = slots
          /\ (\/ frames'[f].completion = frames[f].completion
              \/ {frames[f].completion, frames'[f].completion} \subseteq LateStages)
      BY <2>3 DEF TimesFrame, LateCallback, shared
    <3>2. CASE frames[f].completion = "queued"
      BY <3>1, <3>2 DEF Kept, LateStages, FrameState, FramesKept, FrameChanged, SameWork
    <3>3. CASE frames[f].completion # "queued"
      BY <1>12, <3>1, <3>3 DEF LateStages
    <3>. QED  BY <3>2, <3>3
  <2>. QED  BY <2>1, <2>2, <2>3
<1>. QED
  BY <1>5, <1>7, <1>8, <1>10, <1>11, <1>13, <1>14 DEF StepEffect, Commits

\* What a frame draws depends on its work, its slot and its texture
SameFrame(f) ==
    LET s == slots[frames[f].slot]
        t == slots'[frames[f].slot]
    IN  /\ frames'[f].slot = frames[f].slot /\ frames'[f].uploads = frames[f].uploads
        /\ frames'[f].texture = frames[f].texture
        /\ t.staging = s.staging /\ t.valid = s.valid /\ t.columns = s.columns
        /\ t.next = s.next /\ t.span = s.span

LEMMA FrameStaysTrue ==
    ASSUME NEW f, FrameTrue(f), SameFrame(f), texels'[frames[f].texture] = texels[frames[f].texture]
    PROVE  FrameTrue(f)'
<1>. DEFINE s == slots[frames[f].slot]
            t == slots'[frames[f].slot]
<1>2. PICK generation \in Nat \ {0}, last \in Nat :
         StateTrue(s, frames[f].uploads, texels[frames[f].texture], generation, last)
  BY DEF FrameTrue, FrameState
<1>3. DOMAIN texels[frames[f].texture] = 0 .. s.columns - 1 /\ Fits(s)
  BY DEF FrameTrue, FrameState
<1>. HIDE DEF s, t
<1>. QED  BY <1>3, <1>2 DEF FrameTrue, FrameState, t, Fits, StateTrue, At, SameFrame

LEMMA StaysUndisturbed ==
    ASSUME NEW f, Undisturbed(f), SameFrame(f),
           \A g \in DOMAIN frames' : g < f /\ frames'[g].completion = "queued" =>
              g \in DOMAIN frames /\ frames[g].completion = "queued" /\ SameFrame(g)
    PROVE  Undisturbed(f)'
<1>. SUFFICES ASSUME NEW g \in DOMAIN frames', g < f, frames'[g].completion = "queued",
                     frames'[g].texture = frames'[f].texture,
                     NEW c \in slots'[frames'[f].slot].valid, c \in ColumnsOf(frames'[g].uploads)
              PROVE  c \in ColumnsOf(frames'[f].uploads)
  BY DEF Undisturbed, FrameState
<1>. QED  BY DEF Undisturbed, SameFrame, FrameState

\* The queued frames are true while they and their textures stay
LEMMA FramesStayTrue ==
    ASSUME TypeInv, FramesTrue, FramesKept,
           \A t \in DOMAIN texels : texels'[t] = texels[t]
    PROVE  FramesTrue'
<1>1. ASSUME NEW f \in DOMAIN frames', frames'[f].completion = "queued"
      PROVE  f \in DOMAIN frames /\ frames[f].completion = "queued" /\ SameFrame(f)
  BY <1>1 DEF FramesKept, Kept, SameWork, SameFrame, FrameState
<1>2. ASSUME NEW f \in DOMAIN frames', frames'[f].completion = "queued"
      PROVE  FrameTrue(f)' /\ Undisturbed(f)'
  BY <1>1, <1>2, FrameStaysTrue, StaysUndisturbed DEF FramesTrue, TypeInv, QueuedTextures
<1>. QED  BY <1>2 DEF FramesTrue

(***************************************************************************)
(* The history cleared, or left alone                                      *)
(***************************************************************************)
\* A cleared history has the texture it had and nothing in it
LEMMA HistoryCleared ==
    ASSUME TypeOK, HistoryShape, history' = ClearedHistory(history), texels' = texels
    PROVE  /\ HistoryShape' /\ ColumnsTrue'
           /\ history'.revision = history.revision + 1
           /\ history'.ring.valid = {}
<1>1. history \in Histories /\ history.ring \in Rings /\ history.texture \in Nat
  BY DEF TypeOK, OwnerOK, Histories
<1>2. /\ history'.ring = EmptyRing(history.ring.columns) /\ history'.signature = NoSignature
      /\ history'.revision = history.revision + 1
      /\ history'.texture = history.texture
      /\ history'.textureRevision = history.textureRevision
  BY <1>1, HistoriesTyped
<1>3. /\ history'.ring.columns = history.texture /\ history'.ring.valid = {}
      /\ history'.ring.next = 0 /\ history'.ring.span = 0
  BY <1>2 DEF EmptyRing, HistoryShape
<1>. QED  BY <1>2, <1>3, <1>1 DEF ColumnsTrue, HistoryShape, Fits

\* The same columns are true while the frames that upload them keep their work
LEMMA ColumnsStay ==
    ASSUME ColumnsTrue, texels' = texels, pending' = pending,
           history'.ring = history.ring, history'.signature = history.signature,
           history'.texture = history.texture, history'.textureRevision = history.textureRevision,
           OwnUploads' = OwnUploads,
           \A c \in OwnUploads : Staged(building, c)' = Staged(building, c),
           \A f \in DOMAIN frames' : UploadFrame(f)' =>
              /\ f \in DOMAIN frames /\ UploadFrame(f)
              /\ frames'[f].completion = "queued" <=> frames[f].completion = "queued"
              /\ frames'[f].succeeded = frames[f].succeeded
              /\ frames[f].completion = "queued" => \A c : Staged(f, c)' = Staged(f, c)
    PROVE  ColumnsTrue'
<1>. SUFFICES ASSUME NEW k \in 0 .. history.texture - 1, NEW c \in history.ring.valid,
                     c = At(history.ring, k)
              PROVE  ColumnTrue(c, k)'
  BY DEF ColumnsTrue, At
<1>1. ColumnTrue(c, k)
  BY DEF ColumnsTrue
<1>3. Settled(c, k)' <=> Settled(c, k)
  BY DEF Settled, RingPlaced, Placed
<1>4. ASSUME c \in OwnUploads
      PROVE  ColumnTrue(c, k)'
  BY <1>1, <1>4 DEF ColumnTrue, RingPlaced, Placed
<1>5. ASSUME c \notin OwnUploads, c \in pending.upload.columns
      PROVE  ColumnTrue(c, k)'
  <2>1. InFlightTrue(c, k)
    BY <1>1, <1>5 DEF ColumnTrue
  <2>2. ASSUME NEW f \in DOMAIN frames', UploadFrame(f)'
        PROVE  /\ frames'[f].completion = "queued" => RingPlaced(Staged(f, c), k)'
               /\ frames'[f].completion # "queued" /\ frames'[f].succeeded => Settled(c, k)'
    BY <2>1, <2>2, <1>3 DEF InFlightTrue, RingPlaced, Placed
  <2>. QED  BY <1>5, <2>2 DEF ColumnTrue, InFlightTrue
<1>6. ASSUME c \notin OwnUploads, c \notin pending.upload.columns
      PROVE  ColumnTrue(c, k)'
  BY <1>1, <1>3, <1>6 DEF ColumnTrue
<1>. QED  BY <1>4, <1>5, <1>6

(***************************************************************************)
(* The history a turn with a column finds                                  *)
(***************************************************************************)
Clears(column) == MustClear(history.signature, ColumnSignature(column))

LEMMA EnsuredShape ==
    ASSUME TypeOK, HistoryShape, NEW column, NEW allocates \in BOOLEAN
    PROVE  LET h == EnsuredHistory(column, allocates)
           IN  /\ h.ring.columns = h.texture
               /\ h.texture # 0 => h.texture = settings.columns
               /\ h.textureRevision = history.textureRevision => h.texture = history.texture
               /\ ~Clears(column) =>
                     /\ history.signature = ColumnSignature(column)
                     /\ h.ring = history.ring /\ h.texture = history.texture /\ h.texture # 0
                     /\ h.textureRevision = history.textureRevision
               /\ Clears(column) => h.ring = EmptyRing(h.texture) /\ h.signature = NoSignature
<1>1. /\ history \in Histories /\ history.ring \in Rings
      /\ settings.columns \in Nat /\ settings.columns # 0
  BY RendererAssumption DEF TypeOK, OwnerOK, Histories
<1>. DEFINE base == IF Clears(column) THEN ClearedHistory(history) ELSE history
            count == settings.columns
            n == IF allocates THEN count ELSE 0
            h == EnsuredTexture(base, count, allocates)
<1>2. /\ base \in Histories /\ base.textureRevision = history.textureRevision
      /\ base.texture = history.texture /\ base.ring.columns = history.texture
      /\ base.ring \in Rings
      /\ Clears(column) => base.ring = EmptyRing(history.texture) /\ base.signature = NoSignature
      /\ ~Clears(column) => base = history
  <2>1. CASE Clears(column)
    <3>1. /\ ClearedHistory(history) \in Histories
          /\ ClearedHistory(history).ring = EmptyRing(history.ring.columns)
          /\ ClearedHistory(history).signature = NoSignature
          /\ ClearedHistory(history).texture = history.texture
          /\ ClearedHistory(history).textureRevision = history.textureRevision
      <4>1. 0 \in Nat /\ TRUE \in BOOLEAN
        OBVIOUS
      <4>. QED  BY <1>1, <4>1, HistoriesTyped
    <3>. QED  BY <2>1, <3>1 DEF HistoryShape, EmptyRing, Histories
  <2>2. CASE ~Clears(column)
    BY <1>1, <2>2 DEF HistoryShape
  <2>. QED  BY <2>1, <2>2
<1>3. ~Clears(column) => history.signature = ColumnSignature(column) /\ history.texture = count
  BY DEF Clears, MustClear, HistoryShape, ColumnSignature
<1>4. EnsuredHistory(column, allocates) = h
  BY DEF EnsuredHistory, Clears
<1>. HIDE DEF base
<1>5. CASE base.texture = count
  <2>1. h = [base EXCEPT !.ring = Configured(base.ring, count)]
    BY <1>5 DEF EnsuredTexture
  <2>2. Configured(base.ring, count) = base.ring
    BY <1>2, <1>5 DEF Configured
  <2>3. h.ring = base.ring /\ h.texture = base.texture /\ h.signature = base.signature
        /\ h.textureRevision = base.textureRevision
    BY <1>2, <2>1, <2>2 DEF Histories
  <2>. HIDE DEF h
  <2>. QED  BY <1>1, <1>2, <1>3, <1>4, <1>5, <2>3
<1>6. CASE base.texture # count
  <2>1. h = [base EXCEPT !.revision = base.revision + 1,
                         !.textureRevision = base.textureRevision + 1,
                         !.texture = n, !.ring = Configured(base.ring, n)]
    BY <1>6 DEF EnsuredTexture
  <2>2. Clears(column)
    BY <1>2, <1>3, <1>6
  <2>3. Configured(base.ring, n) = EmptyRing(n)
    BY <1>2, <2>2 DEF Configured, EmptyRing
  <2>4. h.ring = EmptyRing(n) /\ h.texture = n /\ h.signature = base.signature
        /\ h.textureRevision = base.textureRevision + 1
    BY <1>2, <2>1, <2>3 DEF Histories
  <2>5. base.textureRevision \in Nat /\ (n = 0 \/ n = count) /\ EmptyRing(n).columns = n
    BY <1>2 DEF Histories, EmptyRing
  <2>. HIDE DEF h, n
  <2>. QED  BY <1>1, <1>2, <1>4, <2>2, <2>4, <2>5
<1>. QED  BY <1>5, <1>6

\* The frame being built keeps one row for each of its uploads
LEMMA ColumnRowsMatch ==
    ASSUME TypeInv, RowsMatch, DrainsColumn
    PROVE  RowsMatch'
<1>1. PICK advance \in Nat, change \in BOOLEAN, allocates \in BOOLEAN :
         TurnWithColumn(NextColumn(stream, advance, change),
                        EnsuredHistory(NextColumn(stream, advance, change), allocates))
  BY DEF DrainsColumn
<1>. DEFINE column == NextColumn(stream, advance, change)
            h == EnsuredHistory(column, allocates)
<1>2. h \in Histories /\ TypeOK /\ BuildingFrame /\ SlotsHeld
  BY EnsuredTyped DEF TypeInv
<1>. HIDE DEF column, h
<1>3. TurnWithColumn(column, h)
  BY <1>1 DEF column, h
<1>4. Building /\ column \in [sequence : Nat, slot : Nat, generation : Nat \ {0}]
      /\ h.ring \in Rings
  BY <1>2, <1>3 DEF TurnWithColumn, DrainTurn, Histories
<1>5. building \in DOMAIN frames
  BY <1>2, <1>4, BuildingTyped
<1>. DEFINE uploads == HeldUploads(column)
            rows == HeldRows(column)
<1>6. uploads \in Seq(Nat) /\ rows \in Seq(Texels) /\ ColumnTexel(column) \in Texels
  BY <1>2, <1>4, HeldTyped
<1>7. Len(rows) = Len(uploads)
  BY <1>4 DEF HeldUploads, HeldRows, RowsMatch
<1>8. ASSUME NEW u \in Seq(Nat), NEW s \in Seq(Texels), UploadsPrepared(building, u, s),
             Len(s) = Len(u)
      PROVE  RowsMatch'
  BY <1>8 DEF UploadsPrepared, FrameChanged, building, RowsMatch
<1>. HIDE DEF uploads, rows
<1>9. CASE UploadsPrepared(building, uploads, rows)
  BY <1>6, <1>7, <1>8, <1>9
<1>10. CASE TurnAppended(column, h)
  <2>. DEFINE c == AppendColumn(h.ring, column.slot, column.sequence).column
              more == Append(uploads, c)
              texel == ColumnTexel(column)
              staged == Append(rows, texel)
  <2>1. ~RefusedColumn(h.ring, column.slot, column.sequence)
        /\ UploadsPrepared(building, more, staged)
    BY <1>10 DEF TurnAppended, uploads, rows
  <2>2. c \in Nat
    BY <1>4, <2>1, RingAppended
  <2>. HIDE DEF c, texel
  <2>3. more \in Seq(Nat) /\ Len(more) = Len(uploads) + 1
    BY <1>6, <2>2, Appended
  <2>5. staged \in Seq(Texels) /\ Len(staged) = Len(rows) + 1
    BY <1>6, Appended DEF texel
  <2>. HIDE DEF more, staged
  <2>. QED  BY <1>7, <1>8, <2>1, <2>3, <2>5
<1>. QED  BY <1>3, <1>9, <1>10 DEF TurnWithColumn, TurnWithoutTexture, TurnRefused, uploads, rows

LEMMA RowsMatchKept ==
    ASSUME TypeInv, RowsMatch, StepEffect
    PROVE  RowsMatch'
<1>1. /\ TypeOK /\ BuildingFrame /\ SlotsHeld
      /\ Len(frames) \in Nat /\ DOMAIN frames = 1 .. Len(frames)
  BY FramesTyped DEF TypeInv, TypeOK
<1>2. Building => building \in DOMAIN frames /\ frames[building].slot \in 1 .. BufferCount
                  /\ frames[building].completion = "none"
  BY <1>1, BuildingTyped
<1>3. ASSUME Building' => Building, building' = building,
             Building => frames'[building].slot = frames[building].slot
                         /\ frames'[building].uploads = frames[building].uploads,
             Building => slots'[frames[building].slot].staging = slots[frames[building].slot].staging
      PROVE  RowsMatch'
  BY <1>3 DEF RowsMatch
<1>4. CASE \/ Begins \/ StartsDrain \/ Interlude \/ UNCHANGED vars
  <2>1. frames' = frames /\ slots' = slots /\ (Building' => Building)
    BY <1>4 DEF Begins, StartsDrain, Interlude, vars, shared, Building, BuildingSteps, Idle
  <2>. QED  BY <1>3, <2>1 DEF building
<1>5. CASE Drops \/ Abandons \/ Commits
  BY <1>5 DEF Drops, Abandons, Commits, CommitUploads, CommitDrawing, CommitUnencoded, Committed,
              RowsMatch, Building, BuildingSteps, Idle
<1>6. CASE Prepares
  BY <1>6, <1>2, <1>3 DEF Prepares, SlotWritten, SlotChanged, FrameChanged, building
<1>7. CASE DrainsMarker
  BY <1>7 DEF DrainsMarker, UploadsPrepared, FrameChanged, building, RowsMatch
<1>8. CASE DrainsColumn
  BY <1>8, ColumnRowsMatch
<1>9. CASE \E b \in 1 .. BufferCount : Acquires(b)
  <2>1. PICK b \in 1 .. BufferCount : Acquires(b)
    BY <1>9
  <2>. DEFINE r == NewFrame(b)
  <2>2. FreshFrame(r, b)
    BY <1>1, NewFrameTyped
  <2>3. FrameAdded(r) /\ slots'[b].staging = <<>>
    BY <2>1 DEF Acquires
  <2>. HIDE DEF r
  <2>5. frames'[building'].uploads = <<>> /\ slots'[frames'[building'].slot].staging = <<>>
    BY <2>2, <2>3 DEF FreshFrame, FrameAdded, building
  <2>. QED  BY <2>5 DEF RowsMatch
<1>10. CASE \E f \in DOMAIN frames, ok \in BOOLEAN : Ran(f, ok)
  <2>1. PICK f \in DOMAIN frames, ok \in BOOLEAN : Ran(f, ok)
    BY <1>10
  <2>. QED  BY <1>2, <1>3, <2>1 DEF FrameChanged, Building, building, Ran, shared
<1>11. CASE \E f \in DOMAIN frames : Publishes(f) \/ Opens(f) \/ Releases(f) \/ TimesFrame(f)
  <2>1. PICK f \in DOMAIN frames : Publishes(f) \/ Opens(f) \/ Releases(f) \/ TimesFrame(f)
    BY <1>11
  <2>2. FrameChanged(f) /\ SameWork(f) /\ callback' = callback
    BY <2>1 DEF Publishes, Opens, Releases, Handles, TimesFrame, LateCallback
  <2>3. \A b \in 1 .. BufferCount : slots'[b].staging = slots[b].staging
    BY <2>1 DEF Publishes, Opens, Releases, SlotReleased, TimesFrame, LateCallback, shared
  <2>. QED  BY <1>2, <1>3, <2>2, <2>3 DEF FrameChanged, SameWork, Building, building
<1>. QED
  BY <1>4, <1>5, <1>6, <1>7, <1>8, <1>9, <1>10, <1>11 DEF StepEffect, Commits

\* A turn that leaves the ring alone keeps a true history
LEMMA TurnKeepsColumns ==
    ASSUME TypeInv, GateFollows, UploadsBelong, HistoryShape, ColumnsTrue,
           NEW column \in [sequence : Nat, slot : Nat, generation : Nat \ {0}],
           NEW h \in Histories, TurnWithColumn(column, h),
           ~Clears(column), history.signature = ColumnSignature(column),
           h.ring = history.ring, h.texture = history.texture,
           h.textureRevision = history.textureRevision,
           TurnRefused(column, h)
    PROVE  ColumnsTrue'
<1>1. /\ Building /\ callback.step = "draining" /\ TurnStays /\ pending' = pending
      /\ texels' = texels
      /\ UploadsPrepared(building, frames[building].uploads, slots[frames[building].slot].staging)
      /\ history' = [h EXCEPT !.signature = ColumnSignature(column)]
  BY DEF TurnWithColumn, TurnRefused, DrainTurn, HeldUploads, HeldRows, Clears
<1>3. /\ building' = building /\ frames'[building].uploads = frames[building].uploads
      /\ frames'[building].slot = frames[building].slot
      /\ slots'[frames[building].slot].staging = slots[frames[building].slot].staging
  BY <1>1 DEF UploadsPrepared, FrameChanged, building
<1>5. \A c \in OwnUploads : Staged(building, c)' = Staged(building, c)
  BY <1>3 DEF Staged
<1>7. \A f \in DOMAIN frames' : ~UploadFrame(f)'
  BY <1>1 DEF UploadFrame, NoUpload, UploadsBelong, BuildingSteps
<1>. QED  BY <1>1, <1>3, <1>5, <1>7, ColumnsStay DEF Histories, OwnUploads, TurnStays

\* A column appended is in the rows of the frame; the others keep their time
LEMMA TurnAppendsColumn ==
    ASSUME TypeInv, GateFollows, UploadsBelong, HistoryShape, RowsMatch, ColumnsTrue,
           NEW column \in [sequence : Nat, slot : Nat, generation : Nat \ {0}],
           NEW h \in Histories, TurnWithColumn(column, h), TurnAppended(column, h),
           ~Clears(column) =>
              /\ history.signature = ColumnSignature(column)
              /\ h.ring = history.ring /\ h.texture = history.texture
              /\ h.textureRevision = history.textureRevision,
           Clears(column) => h.ring = EmptyRing(h.texture),
           h.ring.columns = h.texture
    PROVE  ColumnsTrue' /\ Fits(history'.ring)
           /\ history'.ring.columns = h.texture /\ history'.ring.hasTimeline
<1>. DEFINE a == AppendColumn(h.ring, column.slot, column.sequence)
            texel == ColumnTexel(column)
            uploads == HeldUploads(column)
            rows == HeldRows(column)
            n == h.texture
<1>1. /\ Building /\ callback.step = "draining" /\ TurnStays /\ pending' = pending
      /\ texels' = IF h.textureRevision = history.textureRevision THEN texels
                   ELSE Append(texels, BlankTexture(h.texture))
      /\ UploadsPrepared(building, Append(uploads, a.column), Append(rows, texel))
      /\ history' = [h EXCEPT !.signature = ColumnSignature(column), !.ring = a.ring]
      /\ ~RefusedColumn(h.ring, column.slot, column.sequence)
  BY DEF TurnWithColumn, TurnAppended, DrainTurn
<1>2. /\ TypeOK /\ BuildingFrame /\ SlotsHeld /\ h.ring \in Rings
      /\ column.slot \in Nat /\ column.sequence \in Nat
  BY DEF TypeInv, Histories
<1>3. Fits(h.ring) /\ (~h.ring.hasTimeline => h.ring.valid = {})
  <2>1. CASE Clears(column)
    <3>1. h.ring.valid = {} /\ h.ring.columns = n /\ h.ring.next = 0 /\ h.ring.span = 0 /\ n \in Nat
      BY <2>1 DEF EmptyRing, Histories
    <3>. QED  BY <3>1 DEF Fits
  <2>2. CASE ~Clears(column)
    BY <2>2 DEF HistoryShape
  <2>. QED  BY <2>1, <2>2
<1>4. /\ a.ring.columns = n /\ Fits(a.ring) /\ a.ring.lastSlot = column.slot /\ a.ring.hasTimeline
      /\ \A k \in 0 .. n - 1 : At(a.ring, k) \in a.ring.valid =>
            IF At(a.ring, k) = a.column THEN k = n - 1
            ELSE \E j \in 0 .. n - 1 :
                    /\ At(h.ring, j) = At(a.ring, k) /\ At(h.ring, j) \in h.ring.valid
                    /\ h.ring.lastSlot + j = column.slot + k
  <2>1. /\ ~RefusedColumn(h.ring, column.slot, column.sequence) /\ h.ring \in Rings
        /\ column.slot \in Nat /\ column.sequence \in Nat
    BY <1>1, <1>2
  <2>. QED  BY <1>3, <2>1, AppendPlaces
<1>5. a.column \in Nat /\ a.ring \in Rings
  BY <1>1, <1>2, RingAppended
<1>6. uploads \in Seq(Nat) /\ rows \in Seq(Texels) /\ texel \in Texels
  BY <1>1, <1>2, HeldTyped
<1>7. Len(rows) = Len(uploads)
  BY <1>1 DEF HeldUploads, HeldRows, RowsMatch
<1>8. texel.generation = column.generation /\ texel.slot = column.slot
  BY DEF ColumnTexel
<1>9. ~Clears(column) => uploads = frames[building].uploads
                         /\ rows = slots[frames[building].slot].staging
  BY DEF HeldUploads, HeldRows, Clears
<1>. HIDE DEF a, texel, uploads, rows
<1>10. /\ history'.ring = a.ring /\ history'.signature = ColumnSignature(column)
       /\ history'.texture = n /\ history'.textureRevision = h.textureRevision
  BY <1>1 DEF Histories
<1>. HIDE DEF n
<1>11. n \in Nat /\ h.ring.lastSlot \in Nat
  BY <1>2 DEF Histories, Rings, n
<1>12. /\ building' = building /\ frames'[building].uploads = Append(uploads, a.column)
       /\ frames'[building].slot = frames[building].slot
       /\ slots'[frames[building].slot].staging = Append(rows, texel)
  BY <1>1 DEF UploadsPrepared, FrameChanged, building
<1>13. pending.upload = NoUpload /\ pending'.upload.columns = {} /\ pending.upload.columns = {}
  BY <1>1 DEF UploadsBelong, BuildingSteps, NoUpload
<1>14. /\ \A t, k : RingPlaced(t, k)' <=> Placed(t, column.generation, column.slot, n, k)
       /\ ~Clears(column) =>
             \A t, k : RingPlaced(t, k) <=> Placed(t, column.generation, h.ring.lastSlot, n, k)
  BY <1>4, <1>10 DEF RingPlaced, Placed, ColumnSignature, n
<1>15. /\ \A c : c \in OwnUploads' <=> c \in ColumnsOf(Append(uploads, a.column))
       /\ ~Clears(column) => OwnUploads = ColumnsOf(uploads)
       /\ \A c : Staged(building, c)' = Append(rows, texel)[LastOf(Append(uploads, a.column), c)]
       /\ ~Clears(column) => \A c : Staged(building, c) = rows[LastOf(uploads, c)]
  BY <1>1, <1>9, <1>12 DEF OwnUploads, TurnStays, Staged
<1>16. ASSUME NEW k \in 0 .. n - 1, NEW c \in a.ring.valid, c = At(a.ring, k)
       PROVE  ColumnTrue(c, k)'
  <2>. DEFINE more == Append(uploads, a.column)
              staged == Append(rows, texel)
  <2>1. /\ c \in ColumnsOf(more) <=> c = a.column \/ c \in ColumnsOf(uploads)
        /\ staged[LastOf(more, a.column)] = texel
        /\ c # a.column /\ c \in ColumnsOf(uploads) =>
              staged[LastOf(more, c)] = rows[LastOf(uploads, c)]
    <3>1. /\ ColumnsOf(more) = ColumnsOf(uploads) \cup {a.column}
          /\ LastOf(more, a.column) = Len(uploads) + 1
          /\ \A e \in ColumnsOf(uploads) \ {a.column} : LastOf(more, e) = LastOf(uploads, e)
      BY <1>5, <1>6, ColumnsAppended
    <3>2. /\ staged[Len(rows) + 1] = texel /\ DOMAIN rows = 1 .. Len(rows)
          /\ \A i \in DOMAIN rows : staged[i] = rows[i]
      BY <1>6, Appended
    <3>3. DOMAIN uploads = DOMAIN rows
      BY <1>6, <1>7, <3>2, LenProperties
    <3>4. \A e \in ColumnsOf(uploads) : LastOf(uploads, e) \in DOMAIN uploads
      BY <1>6, LastUpload
    <3>. HIDE DEF more, staged
    <3>5. staged[LastOf(more, a.column)] = texel
      BY <1>7, <3>1, <3>2
    <3>6. ASSUME c # a.column, c \in ColumnsOf(uploads)
          PROVE  staged[LastOf(more, c)] = rows[LastOf(uploads, c)]
      BY <3>1, <3>2, <3>3, <3>4, <3>6
    <3>. QED  BY <3>1, <3>5, <3>6
  <2>2. /\ c \in OwnUploads' <=> c \in ColumnsOf(more)
        /\ Staged(building, c)' = staged[LastOf(more, c)]
    BY <1>15
  <2>. HIDE DEF more, staged
  <2>3. CASE c = a.column
    <3>1. k = n - 1
      BY <1>4, <1>16, <2>3
    <3>2. c \in OwnUploads' /\ Staged(building, c)' = texel
      BY <2>1, <2>2, <2>3
    <3>3. Placed(texel, column.generation, column.slot, n, k)
      BY <1>8, <1>11, <3>1 DEF Placed
    <3>4. RingPlaced(Staged(building, c), k)'
      BY <1>14, <3>2, <3>3
    <3>. QED  BY <3>2, <3>4 DEF ColumnTrue
  <2>4. CASE c # a.column
    <3>1. PICK j \in 0 .. n - 1 : /\ At(h.ring, j) = c /\ c \in h.ring.valid
                                  /\ h.ring.lastSlot + j = column.slot + k
      BY <1>4, <1>16, <2>4
    <3>2. ~Clears(column)
      BY <3>1 DEF EmptyRing
    <3>3. ColumnTrue(c, j)
      BY <3>1, <3>2 DEF ColumnsTrue, n
    <3>4. ASSUME NEW t, RingPlaced(t, j)
          PROVE  RingPlaced(t, k)'
      <4>1. Placed(t, column.generation, h.ring.lastSlot, n, j)
        BY <1>14, <3>2, <3>4
      <4>2. Placed(t, column.generation, column.slot, n, k)
        <5>1. h.ring.lastSlot + 1 + j = column.slot + 1 + k
          BY <1>2, <1>11, <3>1
        <5>. QED  BY <4>1, <5>1 DEF Placed
      <4>. QED  BY <1>14, <4>2
    <3>5. CASE c \in OwnUploads
      <4>1. c \in ColumnsOf(uploads) /\ RingPlaced(Staged(building, c), j)
            /\ Staged(building, c) = rows[LastOf(uploads, c)]
        BY <1>15, <3>2, <3>3, <3>5 DEF ColumnTrue
      <4>2. c \in OwnUploads' /\ Staged(building, c)' = rows[LastOf(uploads, c)]
        BY <2>1, <2>2, <2>4, <4>1
      <4>3. RingPlaced(Staged(building, c), k)'
        BY <1>14, <3>4, <4>1, <4>2
      <4>. QED  BY <4>2, <4>3 DEF ColumnTrue
    <3>6. CASE c \notin OwnUploads
      <4>1. RingPlaced(texels[history.textureRevision][c], j)
        BY <1>13, <3>3, <3>6 DEF ColumnTrue, Settled
      <4>2. c \notin OwnUploads'
        BY <1>15, <2>1, <2>2, <2>4, <3>2, <3>6
      <4>3. PICK t : t = texels[history.textureRevision][c]
        OBVIOUS
      <4>4. RingPlaced(t, k)' /\ t = texels'[history'.textureRevision][c]
        BY <1>1, <1>10, <3>2, <3>4, <4>1, <4>3
      <4>5. Settled(c, k)'
        BY <4>4 DEF Settled, RingPlaced
      <4>. QED  BY <1>13, <4>2, <4>5 DEF ColumnTrue
    <3>. QED  BY <3>5, <3>6
  <2>. QED  BY <2>3, <2>4
<1>17. ColumnsTrue'
  BY <1>10, <1>16 DEF ColumnsTrue
<1>. QED  BY <1>4, <1>10, <1>17 DEF n

\* A turn with a column keeps a true history, whatever the texture it finds
LEMMA DrainsColumnTrue ==
    ASSUME TypeInv, GateFollows, UploadsBelong, HistoryShape, RowsMatch, ColumnsTrue, DrainsColumn
    PROVE  /\ HistoryShape' /\ ColumnsTrue'
           /\ \A t \in DOMAIN texels : texels'[t] = texels[t]
<1>1. PICK advance \in Nat, change \in BOOLEAN, allocates \in BOOLEAN :
         TurnWithColumn(NextColumn(stream, advance, change),
                        EnsuredHistory(NextColumn(stream, advance, change), allocates))
  BY DEF DrainsColumn
<1>2. PICK column : column = NextColumn(stream, advance, change)
  OBVIOUS
<1>3. PICK h : h = EnsuredHistory(column, allocates)
  OBVIOUS
<1>4. TypeOK /\ h \in Histories /\ TurnWithColumn(column, h)
  BY <1>1, <1>2, <1>3, EnsuredTyped DEF TypeInv
<1>5. column \in [sequence : Nat, slot : Nat, generation : Nat \ {0}]
  BY <1>4 DEF TurnWithColumn, DrainTurn
<1>6. /\ h.ring.columns = h.texture
      /\ h.texture # 0 => h.texture = settings.columns
      /\ h.textureRevision = history.textureRevision => h.texture = history.texture
      /\ ~Clears(column) =>
            /\ history.signature = ColumnSignature(column)
            /\ h.ring = history.ring /\ h.texture = history.texture /\ h.texture # 0
            /\ h.textureRevision = history.textureRevision
      /\ Clears(column) => h.ring = EmptyRing(h.texture) /\ h.signature = NoSignature
  BY <1>3, <1>4, EnsuredShape
\* The texture, and those before it
<1>7. /\ DOMAIN texels'[h.textureRevision] = 0 .. h.texture - 1
      /\ \A t \in DOMAIN texels : texels'[t] = texels[t]
  <2>1. CASE h.textureRevision = history.textureRevision
    BY <1>4, <1>6, <2>1 DEF TurnWithColumn, HistoryShape
  <2>2. CASE h.textureRevision # history.textureRevision
    <3>2. history.textureRevision = Len(texels) /\ texels \in Seq(Textures)
      BY <1>4 DEF TypeInv, TexturesFollow, TypeOK, SharedOK
    <3>. DEFINE blank == BlankTexture(h.texture)
                more == Append(texels, blank)
    <3>3. texels' = more
      BY <1>4, <2>2 DEF TurnWithColumn
    <3>4. blank \in Textures /\ DOMAIN blank = 0 .. h.texture - 1
      BY <1>4 DEF BlankTexture, BlankTexel, Texels, Histories, Textures
    <3>. HIDE DEF blank
    <3>5. /\ more[Len(texels) + 1] = blank
          /\ \A t \in DOMAIN texels : more[t] = texels[t]
      BY <3>2, <3>4, Appended
    <3>. HIDE DEF more
    <3>. QED  BY <1>3, <1>4, <2>2, EnsuredRevision, <3>2, <3>3, <3>4, <3>5
  <2>. QED  BY <2>1, <2>2
<1>8. h.texture \in Nat /\ column.generation # 0
  BY <1>4, <1>5 DEF Histories
<1>. DEFINE signature == ColumnSignature(column)
<1>9. signature.generation # 0 /\ signature.columns = settings.columns /\ signature # NoSignature
  BY <1>8 DEF ColumnSignature, NoSignature
<1>. HIDE DEF signature
<1>10. CASE Clears(column) /\ (TurnWithoutTexture(column, h) \/ TurnRefused(column, h))
  BY <1>4, <1>6, <1>10, <1>8, <1>7, <1>9 DEF TurnWithoutTexture, TurnRefused, Histories, signature,
     EmptyRing, Fits, HistoryShape, ColumnsTrue
<1>11. CASE ~Clears(column) /\ TurnRefused(column, h)
  BY <1>4, <1>5, <1>6, <1>11, TurnKeepsColumns, <1>7 DEF TurnRefused, Histories, HistoryShape
<1>12. CASE TurnAppended(column, h)
  BY <1>4, <1>5, <1>6, <1>12, TurnAppendsColumn, <1>7, <1>9 DEF TurnAppended, Histories, signature,
     HistoryShape
<1>. QED
  BY <1>4, <1>6, <1>10, <1>11, <1>12 DEF TurnWithColumn, TurnWithoutTexture

(***************************************************************************)
(* A frame committed: what it draws is the history                         *)
(***************************************************************************)
\* The frame that is ready draws columns of the ring, and no column that a
\* command buffer before it is still to write
LEMMA ReadyFrame ==
    ASSUME TypeInv, GateFollows, UploadsBelong, HistoryTrue, callback.step = "prepared"
    PROVE  FrameTrue(building) /\ Undisturbed(building)
<1>. DEFINE s == FrameState(building)
            u == frames[building].uploads
            texture == texels[history.textureRevision]
<1>1. /\ TypeOK /\ BuildingFrame /\ SlotsHeld /\ Building
      /\ frames[building].texture = history.textureRevision
      /\ history.signature \in Signatures /\ history.ring \in Rings
  BY DEF TypeInv, TexturesFollow, Building, BuildingSteps, TypeOK, OwnerOK, Histories
<1>2. /\ s.columns = history.texture /\ s.next = history.ring.next
      /\ s.span = history.ring.span /\ s.valid \subseteq history.ring.valid
      /\ s.valid \cap pending.upload.columns = {}
      /\ ColumnsTrue /\ HistoryShape /\ UploadCurrent
  BY DEF HistoryTrue, PreparedFrame
<1>3. OwnUploads = ColumnsOf(u)
  BY DEF OwnUploads
<1>4. \A c : Staged(building, c) = s.staging[LastOf(u, c)]
  BY DEF Staged, FrameState
<1>6. \A k : At(s, k) = At(history.ring, k)
  BY <1>2 DEF At, HistoryShape
<1>. HIDE DEF s, u, texture
<1>7. ASSUME NEW k \in 0 .. s.columns - 1, NEW c \in s.valid, c = At(s, k)
      PROVE  Placed(IF c \in ColumnsOf(u) THEN s.staging[LastOf(u, c)] ELSE texture[c],
                    history.signature.generation, history.ring.lastSlot, s.columns, k)
  BY <1>2, <1>6, <1>7, <1>3, <1>4 DEF ColumnsTrue, ColumnTrue, Settled, RingPlaced, texture
<1>8. StateTrue(s, u, texture, history.signature.generation, history.ring.lastSlot)
  BY <1>7 DEF StateTrue
<1>9. \E generation \in Nat \ {0}, last \in Nat : StateTrue(s, u, texture, generation, last)
  <2>1. CASE s.valid = {}
    BY <2>1 DEF StateTrue
  <2>2. CASE s.valid # {}
    BY <1>1, <1>2, <2>2, <1>8 DEF HistoryShape, Signatures, Rings
  <2>. QED  BY <2>1, <2>2
<1>11. Undisturbed(building)
  <2>. SUFFICES ASSUME NEW g \in DOMAIN frames, g < building, frames[g].completion = "queued",
                       NEW c \in s.valid, c \in ColumnsOf(frames[g].uploads)
                PROVE  FALSE
    BY DEF Undisturbed, s
  <2>2. UploadFrame(g)
    BY ColumnsAppended, 0 \in Nat, <<>> \in Seq(Nat) DEF UploadsBelong, GateFollows, BehindGate
  <2>. QED  BY <1>2, <2>2 DEF UploadsBelong
<1>. QED  BY <1>1, <1>2, <1>9, <1>11 DEF FrameTrue, s, u, texture, HistoryShape, Fits

\* A commit leaves the frames queued before it as they were
LEMMA CommitLeaves ==
    ASSUME TypeInv, FramesTrue, Commits
    PROVE  /\ building \in DOMAIN frames /\ building' = building
           /\ \A f \in DOMAIN frames' : f # building /\ frames'[f].completion = "queued" =>
                 /\ f \in DOMAIN frames /\ f < building /\ frames[f].completion = "queued"
                 /\ SameFrame(f) /\ FrameTrue(f)' /\ Undisturbed(f)'
<1>1. /\ TypeOK /\ BuildingFrame /\ SlotsHeld
      /\ Len(frames) \in Nat /\ DOMAIN frames = 1 .. Len(frames)
  BY FramesTyped DEF TypeInv, TypeOK
<1>2. /\ Building /\ FrameChanged(building) /\ texels' = texels
      /\ SlotChanged(frames[building].slot) \/ slots' = slots
  BY DEF Commits, CommitUploads, CommitDrawing, CommitUnencoded, Committed, SlotWritten
<1>3. building \in DOMAIN frames /\ DOMAIN frames' = DOMAIN frames /\ building' = building
  BY <1>1, <1>2, BuildingTyped DEF FrameChanged, building
<1>4. \A f \in DOMAIN frames : f # building /\ frames[f].completion = "queued" =>
         frames[f].slot \in 1 .. BufferCount /\ frames[f].slot # frames[building].slot
  BY <1>2, <1>1, <1>3 DEF Holds, SlotsHeld
<1>5. ASSUME NEW f \in DOMAIN frames', f # building, frames'[f].completion = "queued"
      PROVE  f \in DOMAIN frames /\ f < building /\ frames[f].completion = "queued" /\ SameFrame(f)
  BY <1>2, <1>5, <1>4, <1>1 DEF FrameChanged, SlotChanged, building, SameFrame
<1>6. ASSUME NEW f \in DOMAIN frames', f # building, frames'[f].completion = "queued"
      PROVE  FrameTrue(f)' /\ Undisturbed(f)'
  <2>1. f \in DOMAIN frames /\ f < building /\ frames[f].completion = "queued" /\ SameFrame(f)
    BY <1>5, <1>6
  <2>2. FrameTrue(f) /\ Undisturbed(f) /\ texels'[frames[f].texture] = texels[frames[f].texture]
    BY <1>2, <2>1 DEF FramesTrue
  <2>4. \A g \in DOMAIN frames' : g < f /\ frames'[g].completion = "queued" =>
           g \in DOMAIN frames /\ frames[g].completion = "queued" /\ SameFrame(g)
    <3>. SUFFICES ASSUME NEW g \in DOMAIN frames', g < f, frames'[g].completion = "queued"
                  PROVE  g \in DOMAIN frames /\ frames[g].completion = "queued" /\ SameFrame(g)
      OBVIOUS
    <3>. QED  BY <1>5, <2>1, <1>1, <1>3
  <2>. QED  BY <2>1, <2>2, FrameStaysTrue, <2>4, StaysUndisturbed
<1>. QED  BY <1>3, <1>5, <1>6

\* The frame committed as it was made ready
LEMMA CommitTrue ==
    ASSUME TypeInv, GateFollows, UploadsBelong, HistoryTrue, CommitUploads \/ CommitDrawing
    PROVE  FramesTrue'
<1>1. /\ callback.step = "prepared" /\ FrameChanged(building) /\ slots' = slots
      /\ texels' = texels
      /\ frames'[building].slot = frames[building].slot
      /\ frames'[building].uploads = frames[building].uploads
      /\ frames'[building].texture = frames[building].texture
  BY DEF CommitUploads, CommitDrawing, Committed
<1>2. FrameTrue(building) /\ Undisturbed(building) /\ FramesTrue /\ SameFrame(building)
  BY <1>1, ReadyFrame DEF HistoryTrue, SameFrame
<1>3. /\ building \in DOMAIN frames /\ building' = building
      /\ \A f \in DOMAIN frames' : f # building /\ frames'[f].completion = "queued" =>
            /\ f \in DOMAIN frames /\ f < building /\ frames[f].completion = "queued"
            /\ SameFrame(f) /\ FrameTrue(f)' /\ Undisturbed(f)'
  BY <1>2, CommitLeaves DEF Commits
<1>4. PICK b : b = building
  OBVIOUS
<1>. QED
  BY <1>3, <1>4, <1>1, <1>2, FrameStaysTrue, FramesTyped, StaysUndisturbed DEF FramesTrue, TypeInv,
     TypeOK

\* The frame whose uploads could not be encoded draws nothing of the history
LEMMA UnencodedTrue ==
    ASSUME TypeInv, GateFollows, UploadsBelong, HistoryTrue, CommitUnencoded
    PROVE  FramesTrue'
<1>1. /\ callback.step = "prepared" /\ FrameChanged(building)
      /\ SlotWritten(frames[building].slot, EmptyRing(history.ring.columns), {})
      /\ texels' = texels
      /\ frames'[building].slot = frames[building].slot
      /\ frames'[building].texture = frames[building].texture
  BY DEF CommitUnencoded, Committed
<1>2. FramesTrue /\ HistoryShape /\ frames[building].texture = history.textureRevision
  BY <1>1 DEF HistoryTrue, TypeInv, TexturesFollow
<1>4. PICK b : b = building
  OBVIOUS
<1>. DEFINE t == slots'[frames'[b].slot]
<1>5. /\ t.valid = {} /\ t.columns = history.ring.columns /\ t.next = 0 /\ t.span = 0
  BY <1>1, <1>4 DEF SlotWritten, EmptyRing
<1>. HIDE DEF t
<1>8. Fits(t)
  BY <1>5 DEF Fits, TypeInv, TypeOK, OwnerOK, Histories, Rings
<1>9. \E generation \in Nat \ {0}, last \in Nat :
         StateTrue(t, frames'[b].uploads, texels'[frames'[b].texture], generation, last)
  BY <1>5 DEF StateTrue
<1>10. FrameTrue(b)'
  BY <1>1, <1>2, <1>4, <1>5, <1>8, <1>9 DEF FrameTrue, FrameState, t, HistoryShape
<1>. QED
  BY <1>2, CommitLeaves, <1>4, <1>10, <1>5 DEF FramesTrue, Commits, Undisturbed, FrameState, t

(***************************************************************************)
(* The columns of the history                                              *)
(***************************************************************************)
\* The rows of the frame committed are those of the upload in flight
LEMMA ColumnsCommitted ==
    ASSUME TypeInv, GateFollows, UploadsBelong, HistoryTrue, CommitUploads
    PROVE  ColumnsTrue' /\ UploadCurrent'
<1>. DEFINE T == pending.transaction + 1
<1>1. /\ callback.step = "prepared" /\ Building /\ FrameChanged(building) /\ slots' = slots
      /\ texels' = texels /\ history' = history /\ callback' = Idle
      /\ frames'[building].slot = frames[building].slot
      /\ frames'[building].uploads = frames[building].uploads
      /\ frames'[building].texture = frames[building].texture
      /\ frames'[building].completion = "queued" /\ frames'[building].transaction = T
      /\ pending'.upload = [transaction |-> T, history |-> history.revision,
                            texture |-> history.textureRevision,
                            columns |-> ColumnsOf(frames[building].uploads)]
  BY DEF CommitUploads, Committed
<1>2. /\ TypeOK /\ BuildingFrame /\ SlotsHeld /\ ColumnsTrue
      /\ frames[building].texture = history.textureRevision
      /\ pending.transaction \in Nat
  BY <1>1 DEF TypeInv, TexturesFollow, HistoryTrue, TypeOK, OwnerOK
<1>3. pending.upload = NoUpload
  BY GateBegun
<1>4. building \in DOMAIN frames /\ DOMAIN frames' = DOMAIN frames
  BY <1>1, <1>2, BuildingTyped DEF FrameChanged
<1>5. PICK b : b = building
  OBVIOUS
<1>6. \A f \in DOMAIN frames' : UploadFrame(f)' => f = b
  <2>. SUFFICES ASSUME NEW f \in DOMAIN frames, f # b, frames'[f].transaction = T
                PROVE  FALSE
    BY <1>1, <1>4 DEF UploadFrame
  <2>1. frames[f].transaction = T /\ frames[f].transaction <= pending.transaction
    BY <1>1, <1>5 DEF FrameChanged, GateFollows
  <2>. QED  BY <1>2, <2>1
<1>7. OwnUploads = ColumnsOf(frames[b].uploads) /\ OwnUploads' = {}
  BY <1>1, <1>5 DEF OwnUploads, Idle
<1>8. pending'.upload.columns = OwnUploads /\ pending.upload.columns = {}
  BY <1>1, <1>3, <1>5, <1>7 DEF NoUpload
<1>9. ASSUME NEW k \in 0 .. history.texture - 1, NEW c \in history.ring.valid,
             c = At(history.ring, k)
      PROVE  ColumnTrue(c, k)'
  <2>1. ColumnTrue(c, k)
    BY <1>2, <1>9 DEF ColumnsTrue
  <2>2. \A t : RingPlaced(t, k)' <=> RingPlaced(t, k)
    BY <1>1 DEF RingPlaced, Placed
  <2>3. CASE c \in OwnUploads
    <3>1. RingPlaced(Staged(b, c), k)
      BY <1>5, <2>1, <2>3 DEF ColumnTrue
    <3>2. Staged(b, c)' = Staged(b, c)
      BY <1>1, <1>5 DEF Staged
    <3>3. RingPlaced(Staged(b, c), k)'
      BY <1>1, <3>1, <3>2 DEF RingPlaced, Placed
    <3>4. InFlightTrue(c, k)'
      BY <1>1, <1>5, <1>6, <3>3 DEF InFlightTrue
    <3>. QED  BY <1>7, <1>8, <2>3, <3>4 DEF ColumnTrue
  <2>4. CASE c \notin OwnUploads
    <3>1. Settled(c, k)
      BY <1>8, <2>1, <2>4 DEF ColumnTrue
    <3>2. Settled(c, k)'
      BY <1>1, <3>1 DEF Settled, RingPlaced, Placed
    <3>. QED  BY <1>7, <1>8, <2>4, <3>2 DEF ColumnTrue
  <2>. QED  BY <2>3, <2>4
<1>10. ColumnsTrue'
  BY <1>1, <1>9 DEF ColumnsTrue
<1>11. UploadCurrent'
  <2>1. history.revision \in Nat
    BY <1>2 DEF TypeOK, OwnerOK, Histories
  <2>. QED  BY <1>1, <1>2, <1>5, <1>6, <2>1 DEF UploadCurrent
<1>. QED  BY <1>10, <1>11

\* A callback that finds the gate open: the upload's columns are in the
\* texture, or the history they were for is gone
LEMMA ColumnsRead ==
    ASSUME TypeInv, GateFollows, UploadsBelong, HistoryTrue, Begins, history' = history
    PROVE  ColumnsTrue'
<1>1. /\ frames' = frames /\ slots' = slots /\ texels' = texels
      /\ callback.step = "idle" /\ callback'.step = "resolved"
  BY DEF Begins, Idle, gpu
<1>2. OwnUploads = {} /\ OwnUploads' = {} /\ ColumnsTrue
  BY <1>1 DEF OwnUploads, HistoryTrue
<1>3. CASE pending' = pending
  BY <1>1, <1>2, <1>3, ColumnsStay DEF UploadFrame, Staged
<1>4. CASE pending' # pending
  <2>1. /\ ~gate.inFlight /\ pending' = [pending EXCEPT !.upload = NoUpload]
        /\ \/ Resolution(pending.upload, gate, history.revision,
                         history.textureRevision) # "clearHistory"
           \/ history' = ClearedHistory(history)
    BY <1>4 DEF Begins
  <2>2. history.revision \in Nat /\ history \in Histories
        /\ pending \in [upload : Uploads, transaction : Nat]
    BY DEF TypeInv, TypeOK, OwnerOK, Histories
  <2>3. history' # ClearedHistory(history)
    <3>1. ClearedHistory(history).revision = history.revision + 1
      BY <2>2, HistoriesTyped
    <3>. QED  BY <2>2, <3>1
  <2>4. pending'.upload.columns = {}
    BY <2>1, <2>2 DEF NoUpload
  <2>5. ASSUME NEW k \in 0 .. history.texture - 1, NEW c \in history.ring.valid,
               c = At(history.ring, k)
        PROVE  Settled(c, k)
    <3>1. ColumnTrue(c, k)
      BY <1>2, <2>5 DEF ColumnsTrue
    <3>2. CASE c \notin pending.upload.columns
      BY <1>2, <3>1, <3>2 DEF ColumnTrue
    <3>3. CASE c \in pending.upload.columns
      <4>1. pending.upload # NoUpload
        BY <3>3 DEF NoUpload
      <4>2. PICK f \in DOMAIN frames : UploadFrame(f)
        BY <4>1 DEF GateFollows
      <4>3. frames[f].completion \in BehindGate /\ Answered(f)
        BY <2>1, <4>2 DEF GateFollows
      <4>4. gate.completed # 0 /\ gate.completed = pending.upload.transaction
            /\ gate.succeeded = frames[f].succeeded
        BY <4>2, <4>3 DEF UploadFrame, Answered
      <4>6. gate.succeeded
        BY <2>1, <2>3, <4>1, <4>4, <2>5 DEF Resolution, HistoryTrue, UploadCurrent
      <4>. QED  BY <4>2, <4>3, <4>4, <4>6, <1>2, <3>1, <3>3 DEF InFlightTrue, BehindGate, ColumnTrue
    <3>. QED  BY <3>2, <3>3
  <2>6. ASSUME NEW k \in 0 .. history.texture - 1, NEW c \in history.ring.valid,
               c = At(history.ring, k)
        PROVE  ColumnTrue(c, k)'
    BY <1>1, <2>5, <2>6, <1>2, <2>4 DEF Settled, RingPlaced, Placed, ColumnTrue
  <2>. QED  BY <2>6 DEF ColumnsTrue
<1>. QED  BY <1>3, <1>4

(***************************************************************************)
(* The history over every step but the GPU's                               *)
(***************************************************************************)
GpuStep == \E f \in DOMAIN frames, ok \in BOOLEAN : Ran(f, ok)

\* The frame of the upload in flight keeps its work
LEMMA UploadKept ==
    ASSUME FramesKept, pending' = pending
    PROVE  \A f \in DOMAIN frames' : UploadFrame(f)' =>
              /\ f \in DOMAIN frames /\ UploadFrame(f)
              /\ frames'[f].texture = frames[f].texture
              /\ frames'[f].completion = "queued" <=> frames[f].completion = "queued"
              /\ frames'[f].succeeded = frames[f].succeeded
              /\ frames[f].completion = "queued" => \A c : Staged(f, c)' = Staged(f, c)
<1>. SUFFICES ASSUME NEW f \in DOMAIN frames', UploadFrame(f)'
              PROVE  /\ f \in DOMAIN frames /\ UploadFrame(f)
                     /\ frames'[f].texture = frames[f].texture
                     /\ frames'[f].completion = "queued" <=> frames[f].completion = "queued"
                     /\ frames'[f].succeeded = frames[f].succeeded
                     /\ frames[f].completion = "queued" => \A c : Staged(f, c)' = Staged(f, c)
  OBVIOUS
<1>1. f \in DOMAIN frames /\ Kept(f)
  BY DEF FramesKept, UploadFrame
<1>3. ASSUME frames[f].completion = "queued", NEW c
      PROVE  Staged(f, c)' = Staged(f, c)
  BY <1>1, <1>3 DEF Staged, Kept, SameWork, FrameState
<1>. QED  BY <1>1, <1>3 DEF Kept, SameWork, UploadFrame

\* Nothing the columns are in changes
LEMMA ColumnsUntouched ==
    ASSUME HistoryShape, ColumnsTrue, FramesKept, history' = history, pending' = pending,
           texels' = texels, OwnUploads' = OwnUploads,
           \A c \in OwnUploads : Staged(building, c)' = Staged(building, c)
    PROVE  HistoryShape' /\ ColumnsTrue'
BY UploadKept, ColumnsStay DEF HistoryShape

\* A step of a frame's callbacks leaves the rows of the frame being built
LEMMA CallbackLeaves ==
    ASSUME TypeInv, NEW f \in DOMAIN frames,
           Publishes(f) \/ Opens(f) \/ Releases(f) \/ TimesFrame(f)
    PROVE  /\ UNCHANGED <<history, pending, callback, texels, screen>> /\ building' = building
           /\ Building =>
                 /\ frames'[building].uploads = frames[building].uploads
                 /\ frames'[building].slot = frames[building].slot
                 /\ LET s == FrameState(building)
                        t == slots'[frames[building].slot]
                    IN  /\ t.staging = s.staging /\ t.valid = s.valid /\ t.columns = s.columns
                        /\ t.next = s.next /\ t.span = s.span
<1>1. UNCHANGED <<history, pending, callback, texels, screen>>
  BY DEF Publishes, Opens, Releases, TimesFrame, LateCallback, Handles, owner, gpu, shared
<1>2. FrameChanged(f) /\ SameWork(f)
  BY DEF Publishes, Opens, Releases, TimesFrame, LateCallback, Handles
<1>4. ASSUME Building
      PROVE  building \in DOMAIN frames /\ frames[building].slot \in 1 .. BufferCount
  BY <1>4, BuildingTyped DEF TypeInv
<1>5. SlotReleased(f) \/ slots' = slots
  BY DEF Publishes, Opens, Releases, TimesFrame, LateCallback, shared
<1>. QED  BY <1>1, <1>2, <1>4, <1>5 DEF FrameChanged, SameWork, SlotReleased, FrameState, building

LEMMA HistoryKept ==
    ASSUME TypeInv, GateFollows, UploadsBelong, HistoryTrue, StepEffect, ~GpuStep
    PROVE  HistoryShape' /\ ColumnsTrue'
<1>1. /\ TypeOK /\ BuildingFrame /\ SlotsHeld
      /\ HistoryShape /\ ColumnsTrue /\ RowsMatch
  BY DEF TypeInv, HistoryTrue
<1>2. ASSUME history' = ClearedHistory(history), texels' = texels
      PROVE  HistoryShape' /\ ColumnsTrue'
  BY <1>1, <1>2, HistoryCleared
<1>3. ~Commits => FramesKept
  BY StepKeeps DEF GpuStep
<1>4. ASSUME ~Commits, history' = history, pending' = pending, texels' = texels,
             OwnUploads = {}, OwnUploads' = {}
      PROVE  HistoryShape' /\ ColumnsTrue'
  BY <1>1, <1>3, <1>4, ColumnsUntouched
<1>5. ColumnsOf(<<>>) = {}
  BY ColumnsAppended, 0 \in Nat, <<>> \in Seq(Nat)
<1>6. Commits => callback.step = "prepared" /\ callback' = Idle /\ texels' = texels
  BY DEF Commits, CommitUploads, CommitDrawing, CommitUnencoded, Committed
<1>7. CASE Begins
  BY <1>7, <1>1, ColumnsRead, <1>2 DEF Begins, gpu, HistoryShape
<1>8. CASE Interlude
  BY <1>8, <1>6, <1>2, <1>4 DEF Interlude, gpu, HistoryMayClear, OwnUploads, Idle
<1>9. CASE StartsDrain
  BY <1>9, <1>5, <1>6, <1>2, <1>4 DEF StartsDrain, gpu, HistoryMayClear, UploadsBelong, Building,
     BuildingSteps, OwnUploads, building
<1>10. CASE Drops \/ \E b \in 1 .. BufferCount : Acquires(b)
  <2>1. /\ callback.step = "resolved" /\ callback'.step \in {"idle", "acquired"}
        /\ history' = history /\ pending' = pending /\ texels' = texels
    <3>1. CASE Drops
      BY <3>1 DEF Drops, owner, gpu, Idle
    <3>2. CASE \E b \in 1 .. BufferCount : Acquires(b)
      <4>1. PICK b \in 1 .. BufferCount : Acquires(b)
        BY <3>2
      <4>. QED  BY <4>1, <1>1, StepTyped DEF Acquires, owner, gpu, TypeOK, Steps
    <3>. QED  BY <1>10, <3>1, <3>2
  <2>. QED  BY <1>4, <2>1, <1>6 DEF OwnUploads
<1>11. CASE Abandons
  <2>1. /\ callback.step \in AbandonSteps /\ callback' = Idle /\ pending' = pending
        /\ texels' = texels /\ frames'[building].completion = "none"
        /\ history' = IF frames[building].uploads # <<>> THEN ClearedHistory(history)
                      ELSE history
    BY <1>11 DEF Abandons, gpu
  <2>2. CASE frames[building].uploads = <<>>
    BY <1>5, <2>1, <2>2, <1>4 DEF OwnUploads, Idle, Commits, CommitUploads, CommitDrawing,
       CommitUnencoded, Committed
  <2>. QED  BY <1>2, <2>1, <2>2
<1>12. CASE DrainsMarker
  BY <1>2, <1>12 DEF DrainsMarker
<1>13. CASE DrainsColumn
  BY <1>1, <1>13, DrainsColumnTrue
<1>14. CASE Prepares
  <2>1. /\ Building /\ history' = history /\ pending' = pending /\ texels' = texels
        /\ callback'.step = "prepared"
        /\ frames'[building].uploads = frames[building].uploads
        /\ frames'[building].slot = frames[building].slot
        /\ slots'[frames[building].slot].staging = slots[frames[building].slot].staging
        /\ FrameChanged(building) /\ callback.step # "prepared"
    BY <1>1, <1>14, StepTyped DEF Prepares, SlotWritten, owner, gpu, TypeOK, Steps
  <2>2. building' = building /\ ~Commits
    BY <1>6, <2>1 DEF FrameChanged, building, Idle
  <2>3. CASE callback.step = "acquired" /\ callback.deferred
    BY <2>1, <2>3, <1>5, <2>2, <1>4 DEF UploadsBelong, OwnUploads
  <2>4. CASE callback.step \in {"draining", "drained"}
    BY <2>1, <2>2, <2>4, <1>1, <1>3, ColumnsUntouched DEF OwnUploads, Staged
  <2>. QED  BY <1>14, <2>3, <2>4 DEF Prepares
<1>15. CASE CommitUploads
  BY <1>1, <1>6, <1>15, ColumnsCommitted DEF Commits, CommitUploads, HistoryShape
<1>16. CASE CommitDrawing
  <2>1. /\ frames[building].uploads = <<>> /\ history' = history /\ pending' = pending
        /\ slots' = slots /\ FrameChanged(building) /\ frames'[building].transaction = 0
    BY <1>16 DEF CommitDrawing, Committed
  <2>2. OwnUploads = {} /\ OwnUploads' = {} /\ texels' = texels
    BY <1>5, <1>6, <1>16, <2>1 DEF OwnUploads, Idle, Commits
  <2>3. \A f \in DOMAIN frames' : UploadFrame(f)' =>
           /\ f \in DOMAIN frames /\ UploadFrame(f)
           /\ frames'[f].completion = "queued" <=> frames[f].completion = "queued"
           /\ frames'[f].succeeded = frames[f].succeeded
           /\ frames[f].completion = "queued" => \A c : Staged(f, c)' = Staged(f, c)
    <3>. SUFFICES ASSUME NEW f \in DOMAIN frames', UploadFrame(f)'
                  PROVE  f \in DOMAIN frames /\ frames'[f] = frames[f]
      BY <2>1 DEF UploadFrame, Staged
    <3>. QED  BY <2>1 DEF UploadFrame, FrameChanged
  <2>. QED  BY <1>1, <2>1, <2>2, <2>3, ColumnsStay DEF HistoryShape
<1>17. CASE CommitUnencoded
  BY <1>2, <1>6, <1>17 DEF CommitUnencoded, Commits
<1>18. CASE \E f \in DOMAIN frames : Publishes(f) \/ Opens(f) \/ Releases(f) \/ TimesFrame(f)
  <2>1. PICK f \in DOMAIN frames : Publishes(f) \/ Opens(f) \/ Releases(f) \/ TimesFrame(f)
    BY <1>18
  <2>2. /\ UNCHANGED <<history, pending, callback, texels>> /\ building' = building
        /\ Building =>
              /\ frames'[building].uploads = frames[building].uploads
              /\ frames'[building].slot = frames[building].slot
              /\ slots'[frames[building].slot].staging = slots[frames[building].slot].staging
    BY <2>1, CallbackLeaves DEF FrameState
  <2>4. ASSUME NEW c \in OwnUploads
        PROVE  Staged(building, c)' = Staged(building, c)
    BY <2>4, <2>2 DEF OwnUploads, Building, BuildingSteps, Staged
  <2>. QED
    BY <1>1, <1>3, <2>2, <2>4, <1>6, ColumnsUntouched DEF OwnUploads, Building, BuildingSteps, Idle
<1>19. CASE UNCHANGED vars
  BY <1>19, <1>6, <1>1, <1>3, ColumnsUntouched DEF vars, OwnUploads, Staged, building, Idle
<1>. QED
  BY <1>7, <1>8, <1>9, <1>10, <1>11, <1>12, <1>13, <1>14, <1>15, <1>16, <1>17, <1>18, <1>19
     DEF StepEffect, GpuStep

LEMMA UploadCurrentKept ==
    ASSUME TypeInv, GateFollows, UploadsBelong, HistoryTrue, StepEffect, ~GpuStep
    PROVE  UploadCurrent'
<1>1. /\ TypeOK /\ HistoryShape /\ UploadCurrent /\ BuildingFrame /\ SlotsHeld
      /\ history.revision \in Nat /\ history \in Histories
  BY DEF TypeInv, HistoryTrue, TypeOK, OwnerOK, Histories
<1>2. /\ ClearedHistory(history).revision = history.revision + 1
      /\ ClearedHistory(history).ring.valid = {}
  <2>2. /\ ClearedHistory(history).revision = history.revision + 1
        /\ ClearedHistory(history).ring = EmptyRing(history.ring.columns)
    BY <1>1, HistoriesTyped
  <2>. QED  BY <2>2 DEF EmptyRing
<1>3. ASSUME pending' = pending, HistoryMayClear,
             \A f \in DOMAIN frames' : UploadFrame(f)' =>
                f \in DOMAIN frames /\ UploadFrame(f) /\ frames'[f].texture = frames[f].texture
      PROVE  UploadCurrent'
  <2>. SUFFICES ASSUME pending.upload # NoUpload
                PROVE  UploadCurrent'
    BY <1>3 DEF UploadCurrent
  <2>2. CASE history' = history
    BY <1>1, <1>3, <2>2 DEF UploadCurrent
  <2>3. CASE history' = ClearedHistory(history)
    BY <1>1, <1>2, <2>3, <1>3 DEF UploadCurrent, TypeOK, OwnerOK, Uploads
  <2>. QED  BY <1>3, <2>2, <2>3 DEF HistoryMayClear
<1>4. ASSUME pending' = pending, HistoryMayClear, ~Commits
      PROVE  UploadCurrent'
  BY <1>4, StepKeeps, <1>3, UploadKept DEF GpuStep
<1>5. Commits => callback.step = "prepared" /\ callback' = Idle /\ Building /\ FrameChanged(building)
  BY DEF Commits, CommitUploads, CommitDrawing, CommitUnencoded, Committed
<1>6. CASE CommitUploads
  BY <1>6, ColumnsCommitted
<1>7. CASE CommitDrawing \/ CommitUnencoded
  <2>1. pending' = pending /\ HistoryMayClear /\ frames'[building].transaction = 0
        /\ FrameChanged(building)
    BY <1>7 DEF CommitDrawing, CommitUnencoded, Committed, HistoryMayClear
  <2>2. ASSUME NEW f \in DOMAIN frames', UploadFrame(f)'
        PROVE  f \in DOMAIN frames /\ UploadFrame(f) /\ frames'[f].texture = frames[f].texture
    BY <2>1, <2>2 DEF UploadFrame, FrameChanged
  <2>. QED  BY <1>3, <2>1, <2>2
<1>8. CASE Begins
  BY <1>5, <1>8, <1>4, <1>1 DEF Begins, HistoryMayClear, Idle, TypeOK, OwnerOK, UploadCurrent
<1>9. CASE DrainsMarker \/ DrainsColumn
  BY <1>9, ColumnSteps DEF DrainsMarker, DrainTurn, UploadsBelong, BuildingSteps, UploadCurrent
<1>10. CASE Interlude \/ StartsDrain \/ Drops \/ Abandons \/ Prepares \/ UNCHANGED vars
  <2>2. ~Commits
    <3>1. CASE Interlude \/ StartsDrain \/ Drops
      BY <1>5, <3>1 DEF Interlude, StartsDrain, Drops, Idle
    <3>2. CASE Abandons
      BY <3>2 DEF Abandons, Commits, CommitUploads, CommitDrawing, CommitUnencoded, Committed
    <3>3. CASE Prepares
      BY <1>5, <3>3 DEF Prepares
    <3>4. CASE UNCHANGED vars
      BY <1>5, <3>4 DEF vars, Idle
    <3>. QED  BY <1>10, <3>1, <3>2, <3>3, <3>4
  <2>. QED
    BY <1>4, <1>10, <2>2 DEF Interlude, StartsDrain, Drops, Abandons, Prepares, vars, owner,
       HistoryMayClear
<1>11. CASE \E b \in 1 .. BufferCount : Acquires(b)
  BY <1>11, <1>4, <1>5 DEF Acquires, owner, HistoryMayClear
<1>12. CASE \E f \in DOMAIN frames : Publishes(f) \/ Opens(f) \/ Releases(f) \/ TimesFrame(f)
  BY <1>12, CallbackLeaves, <1>5, <1>4 DEF HistoryMayClear, Idle
<1>. QED
  BY <1>6, <1>7, <1>8, <1>9, <1>10, <1>11, <1>12 DEF StepEffect, GpuStep

\* The frame made ready has the ring's columns, without those in flight
LEMMA PreparedFrameKept ==
    ASSUME TypeInv, GateFollows, UploadsBelong, HistoryTrue, StepEffect, ~GpuStep
    PROVE  PreparedFrame'
<1>1. /\ TypeOK /\ BuildingFrame /\ SlotsHeld /\ HistoryShape /\ PreparedFrame
  BY DEF TypeInv, HistoryTrue
<1>2. ASSUME callback'.step # "prepared"
      PROVE  PreparedFrame'
  BY <1>2 DEF PreparedFrame
<1>3. CASE Begins \/ Interlude \/ Drops \/ Abandons
  BY <1>2, <1>3 DEF Begins, Interlude, Drops, Abandons, Idle
<1>4. CASE Commits
  BY <1>2, <1>4 DEF Commits, CommitUploads, CommitDrawing, CommitUnencoded, Committed, Idle
<1>5. CASE StartsDrain
  BY <1>1, <1>2, <1>5, StepTyped DEF StartsDrain, TypeOK, Steps
<1>6. CASE \E b \in 1 .. BufferCount : Acquires(b)
  BY <1>1, <1>2, <1>6, StepTyped DEF Acquires, TypeOK, Steps
<1>7. CASE DrainsMarker \/ DrainsColumn
  BY <1>2, <1>7, ColumnSteps DEF DrainsMarker, TurnStays
<1>8. CASE Prepares
  <2>1. PICK b : b = building
    OBVIOUS
  <2>. DEFINE t == slots'[frames[b].slot]
  <2>2. /\ Building /\ FrameChanged(b) /\ frames'[b].slot = frames[b].slot
        /\ history' = history /\ pending' = pending
        /\ SlotWritten(frames[b].slot, history.ring, FrameValidity)
        /\ FrameValidity \subseteq history.ring.valid
    BY <1>8, <2>1 DEF Prepares, owner
  <2>4. /\ t.valid = FrameValidity /\ t.columns = history.ring.columns
        /\ t.next = history.ring.next /\ t.span = history.ring.span
    BY <2>2 DEF SlotWritten
  <2>. HIDE DEF t
  <2>6. FrameState(building)' = t
    BY <2>2, <2>1 DEF FrameState, t, FrameChanged, building
  <2>. QED
    BY <1>1, <2>2, <2>4, <2>6 DEF PreparedFrame, HistoryShape, FrameValidity, RenderValidity,
       UploadsBelong, Building, NoUpload
<1>9. CASE \E f \in DOMAIN frames : Publishes(f) \/ Opens(f) \/ Releases(f) \/ TimesFrame(f)
  <2>1. PICK f \in DOMAIN frames : Publishes(f) \/ Opens(f) \/ Releases(f) \/ TimesFrame(f)
    BY <1>9
  <2>2. UNCHANGED <<history, pending, callback>> /\ building' = building
    BY <2>1, CallbackLeaves
  <2>. SUFFICES ASSUME callback.step = "prepared"
                PROVE  PreparedFrame'
    BY <2>2 DEF PreparedFrame
  <2>4. PICK s : s = FrameState(building)
    OBVIOUS
  <2>5. PICK t : t = FrameState(building)'
    OBVIOUS
  <2>7. t.valid = s.valid /\ t.columns = s.columns /\ t.next = s.next /\ t.span = s.span
    BY <2>1, <2>4, <2>2, <2>5, CallbackLeaves DEF FrameState, Building, BuildingSteps
  <2>. QED  BY <2>2, <2>5, <2>7, <1>1, <2>4 DEF PreparedFrame
<1>10. CASE UNCHANGED vars
  BY <1>1, <1>10 DEF PreparedFrame, vars, FrameState, building
<1>. QED
  BY <1>3, <1>4, <1>5, <1>6, <1>7, <1>8, <1>9, <1>10 DEF StepEffect, GpuStep, Commits

LEMMA FramesTrueKept ==
    ASSUME TypeInv, GateFollows, UploadsBelong, HistoryTrue, StepEffect, ~GpuStep
    PROVE  FramesTrue'
<1>1. CASE Commits
  BY <1>1, CommitTrue, UnencodedTrue DEF Commits
<1>2. CASE ~Commits
  <2>2. \A t \in DOMAIN texels : texels'[t] = texels[t]
    <3>1. CASE DrainsColumn
      BY <3>1, DrainsColumnTrue DEF HistoryTrue
    <3>2. CASE \E f \in DOMAIN frames : Publishes(f) \/ Opens(f) \/ Releases(f) \/ TimesFrame(f)
      BY <3>2, CallbackLeaves
    <3>3. CASE \E b \in 1 .. BufferCount : Acquires(b)
      BY <3>3 DEF Acquires, gpu
    <3>4. CASE Begins \/ Interlude \/ Drops \/ Abandons \/ StartsDrain \/ DrainsMarker \/ Prepares
      BY <3>4 DEF Begins, Interlude, Drops, Abandons, StartsDrain, DrainsMarker, Prepares, gpu
    <3>5. CASE UNCHANGED vars
      BY <3>5 DEF vars
    <3>. QED
      BY <1>2, <3>1, <3>2, <3>3, <3>4, <3>5 DEF StepEffect, GpuStep, Commits
  <2>. QED  BY <1>2, StepKeeps, <2>2, FramesStayTrue DEF HistoryTrue, GpuStep
<1>. QED  BY <1>1, <1>2

(***************************************************************************)
(* A command buffer runs                                                   *)
(***************************************************************************)
\* The command buffer that runs is the oldest, and writes its uploads alone
LEMMA RanOldest ==
    ASSUME TypeInv, GateFollows, UploadsBelong, NEW f, NEW ok \in BOOLEAN, Ran(f, ok)
    PROVE  /\ f \in DOMAIN frames /\ frames[f].completion = "queued"
           /\ \A g \in DOMAIN frames : frames[g].completion = "queued" /\ g # f => f < g
           /\ \/ ColumnsOf(frames[f].uploads) = {}
              \/ UploadFrame(f) /\ ColumnsOf(frames[f].uploads) = pending.upload.columns
           /\ Building => building # f
           /\ building' = building
<1>1. f \in DOMAIN frames /\ frames[f].completion = "queued" /\ f = queue[1] /\ queue # <<>>
      /\ Len(queue) \in Nat \ {0} /\ DOMAIN queue = 1 .. Len(queue) /\ Len(frames') = Len(frames)
  BY DEF Ran, FrameChanged
<1>2. ASSUME NEW g \in DOMAIN frames, frames[g].completion = "queued", g # f
      PROVE  f < g
  <2>1. PICK i \in DOMAIN queue : queue[i] = g
    BY <1>2 DEF TypeInv, QueueInOrder
  <2>2. i # 1 /\ 1 \in DOMAIN queue
    BY <1>1, <1>2, <2>1
  <2>. QED  BY <1>1, <2>1, <2>2 DEF TypeInv, QueueInOrder
<1>. QED
  BY <1>1, <1>2, ColumnsAppended, 0 \in Nat, <<>> \in Seq(Nat) DEF building, UploadsBelong,
     GateFollows, BehindGate, TypeInv, BuildingFrame

\* What that leaves in the textures
LEMMA RanTexels ==
    ASSUME NEW f, NEW ok \in BOOLEAN, Ran(f, ok)
    PROVE  /\ \A t \in DOMAIN texels : DOMAIN texels'[t] = DOMAIN texels[t]
           /\ \A t \in DOMAIN texels : \A c :
                 c \in DOMAIN texels[t] /\ ~(t = frames[f].texture /\ c \in ColumnsOf(frames[f].uploads))
                 => texels'[t][c] = texels[t][c]
           /\ ok => \A c \in ColumnsOf(frames[f].uploads) :
                       c \in DOMAIN texels[frames[f].texture] =>
                          texels'[frames[f].texture][c] = Staged(f, c)
<1>. DEFINE t0 == frames[f].texture
            u == UploadedTexture(frames[f], ok)
<1>1. /\ t0 \in DOMAIN texels /\ texels'[t0] = u /\ DOMAIN u = DOMAIN texels[t0]
      /\ \A t \in DOMAIN texels : t # t0 => texels'[t] = texels[t]
  BY DEF Ran
<1>2. \A c \in DOMAIN texels[t0] :
         u[c] = IF c \notin ColumnsOf(frames[f].uploads) THEN texels[t0][c]
                ELSE IF ok THEN Staged(f, c) ELSE BlankTexel
  BY DEF UploadedTexture, Staged
<1>. HIDE DEF u, t0
<1>3. /\ \A t \in DOMAIN texels : DOMAIN texels'[t] = DOMAIN texels[t]
      /\ \A t \in DOMAIN texels : \A c :
            c \in DOMAIN texels[t] /\ ~(t = t0 /\ c \in ColumnsOf(frames[f].uploads))
            => texels'[t][c] = texels[t][c]
      /\ ok => \A c \in ColumnsOf(frames[f].uploads) :
                  c \in DOMAIN texels[t0] => texels'[t0][c] = Staged(f, c)
  BY <1>1, <1>2
<1>. QED  BY <1>3 DEF t0

LEMMA RanColumns ==
    ASSUME TypeInv, GateFollows, UploadsBelong, HistoryTrue, NEW f, NEW ok \in BOOLEAN, Ran(f, ok)
    PROVE  HistoryShape' /\ ColumnsTrue' /\ UploadCurrent' /\ PreparedFrame'
<1>1. /\ FrameChanged(f) /\ frames'[f].succeeded = ok /\ frames'[f].completion = "ran"
      /\ frames'[f].slot = frames[f].slot /\ frames'[f].texture = frames[f].texture
      /\ frames'[f].transaction = frames[f].transaction
      /\ history' = history /\ pending' = pending /\ callback' = callback /\ slots' = slots
  BY DEF Ran, owner, shared
<1>2. /\ HistoryShape /\ ColumnsTrue /\ UploadCurrent /\ PreparedFrame
      /\ history.ring \in Rings /\ history.texture \in Nat
      /\ history.textureRevision \in DOMAIN texels
  BY DEF TypeInv, TypeOK, SharedOK, TexturesFollow, HistoryTrue, OwnerOK, Histories
<1>3. /\ f \in DOMAIN frames /\ frames[f].completion = "queued"
      /\ \/ ColumnsOf(frames[f].uploads) = {}
         \/ UploadFrame(f) /\ ColumnsOf(frames[f].uploads) = pending.upload.columns
      /\ Building => building # f
      /\ building' = building
  BY RanOldest
<1>4. DOMAIN frames' = DOMAIN frames /\ \A g \in DOMAIN frames : g # f => frames'[g] = frames[g]
  BY <1>1 DEF FrameChanged
<1>5. Building => frames'[building] = frames[building]
  BY <1>3, <1>4, BuildingTyped DEF TypeInv
<1>6. OwnUploads' = OwnUploads /\ \A c \in OwnUploads : Staged(building, c)' = Staged(building, c)
  BY <1>1, <1>3, <1>5 DEF OwnUploads, Staged, Building, BuildingSteps
<1>9. PreparedFrame'
  BY <1>1, <1>2, <1>3, <1>5 DEF PreparedFrame, FrameState, Building, BuildingSteps
<1>10. ASSUME NEW k \in 0 .. history.texture - 1, NEW c \in history.ring.valid,
              c = At(history.ring, k)
       PROVE  ColumnTrue(c, k)'
  <2>. DEFINE rev == history.textureRevision
  <2>1. ColumnTrue(c, k)
    BY <1>2, <1>10 DEF ColumnsTrue
  <2>2. c \in DOMAIN texels[rev]
    BY <1>2 DEF HistoryShape, Fits
  <2>3. ~(rev = frames[f].texture /\ c \in ColumnsOf(frames[f].uploads))
        => (Settled(c, k)' <=> Settled(c, k))
    BY <1>2, <2>2, RanTexels, <1>1 DEF Settled, RingPlaced, Placed
  <2>4. CASE c \in OwnUploads
    BY <2>1, <2>4, <1>6, <1>1 DEF ColumnTrue, RingPlaced, Placed
  <2>5. CASE c \notin OwnUploads /\ c \notin pending.upload.columns
    BY <1>3, <2>1, <2>5, <2>3, <1>1, <1>6 DEF ColumnTrue
  <2>6. CASE c \notin OwnUploads /\ c \in pending.upload.columns
    <3>1. InFlightTrue(c, k)
      BY <2>1, <2>6 DEF ColumnTrue
    <3>2. ASSUME NEW g \in DOMAIN frames', UploadFrame(g)'
          PROVE  /\ frames'[g].completion = "queued" => RingPlaced(Staged(g, c), k)'
                 /\ frames'[g].completion # "queued" /\ frames'[g].succeeded => Settled(c, k)'
      <4>1. g \in DOMAIN frames /\ UploadFrame(g)
        BY <1>1, <1>4, <3>2 DEF UploadFrame
      <4>2. /\ frames[g].completion = "queued" => RingPlaced(Staged(g, c), k)
            /\ frames[g].completion # "queued" /\ frames[g].succeeded => Settled(c, k)
        BY <3>1, <4>1 DEF InFlightTrue
      <4>3. CASE g = f
        <5>1. frames[f].texture = rev
          BY <2>6, <1>2, <4>1, <4>3 DEF NoUpload, UploadCurrent
        <5>2. ColumnsOf(frames[f].uploads) = pending.upload.columns
          BY <1>3, <4>1, <4>3 DEF UploadsBelong
        <5>3. ok => texels'[rev][c] = Staged(f, c)
          <6>2. ok => texels'[frames[f].texture][c] = Staged(f, c)
            BY <2>2, <2>6, <5>1, <5>2, RanTexels
          <6>. QED  BY <5>1, <6>2
        <5>. QED  BY <1>1, <4>3, <5>3, <1>3, <4>2 DEF Settled, RingPlaced, Placed
      <4>4. CASE g # f
        BY <1>3, <4>1, <4>4, <2>3, <1>1, <1>4, <4>2 DEF UploadFrame, GateFollows, Staged,
           RingPlaced, Placed
      <4>. QED  BY <4>3, <4>4
    <3>. QED  BY <1>1, <1>6, <2>6, <3>2 DEF ColumnTrue, InFlightTrue
  <2>. QED  BY <2>4, <2>5, <2>6
<1>11. ColumnsTrue'
  BY <1>1, <1>10 DEF ColumnsTrue
<1>. QED  BY <1>1, <1>2, RanTexels, <1>4, <1>9, <1>11 DEF HistoryShape, UploadCurrent, UploadFrame

\* The frames behind it draw what they drew
LEMMA RanFrames ==
    ASSUME TypeInv, GateFollows, UploadsBelong, HistoryTrue, NEW f, NEW ok \in BOOLEAN, Ran(f, ok)
    PROVE  FramesTrue'
<1>1. /\ FrameChanged(f) /\ frames'[f].completion = "ran" /\ slots' = slots
      /\ DOMAIN texels' = DOMAIN texels
  BY DEF Ran, shared
<1>2. FramesTrue /\ QueuedTextures
  BY DEF HistoryTrue, TypeInv
<1>3. /\ f \in DOMAIN frames /\ frames[f].completion = "queued"
      /\ \A g \in DOMAIN frames : frames[g].completion = "queued" /\ g # f => f < g
  BY RanOldest
<1>4. \A g \in DOMAIN frames' : frames'[g].completion = "queued" =>
         g \in DOMAIN frames /\ g # f /\ frames[g].completion = "queued" /\ SameFrame(g)
  BY <1>1 DEF FrameChanged, SameFrame
<1>5. ASSUME NEW g \in DOMAIN frames', frames'[g].completion = "queued"
      PROVE  FrameTrue(g)' /\ Undisturbed(g)'
  <2>. DEFINE s == FrameState(g)
              u == frames[g].uploads
              t == frames[g].texture
  <2>1. g \in DOMAIN frames /\ g # f /\ frames[g].completion = "queued" /\ SameFrame(g)
        /\ frames'[g] = frames[g]
    BY <1>1, <1>4, <1>5 DEF FrameChanged
  <2>2. FrameTrue(g) /\ Undisturbed(g) /\ f < g /\ t \in DOMAIN texels
    BY <1>2, <1>3, <2>1 DEF FramesTrue, QueuedTextures
  <2>3. PICK generation \in Nat \ {0}, last \in Nat : StateTrue(s, u, texels[t], generation, last)
    BY <2>2 DEF FrameTrue
  <2>4. DOMAIN texels[t] = 0 .. s.columns - 1 /\ Fits(s)
    BY <2>2 DEF FrameTrue
  <2>5. ASSUME NEW c \in s.valid, c \notin ColumnsOf(u)
        PROVE  texels'[t][c] = texels[t][c]
    <3>1. c \in DOMAIN texels[t]
      BY <2>4 DEF Fits
    <3>. QED  BY <2>2, <3>1, <1>3, <2>5, RanTexels DEF Undisturbed
  <2>. HIDE DEF s, u, t
  <2>8. /\ FrameState(g)' = s /\ frames'[g].uploads = u /\ frames'[g].texture = t
    BY <1>1, <2>1 DEF FrameState, s, u, t
  <2>9. FrameTrue(g)'
    BY <2>4, <2>2, RanTexels, <2>3, <2>5, <2>8 DEF FrameTrue, StateTrue
  <2>. QED  BY <2>9, <1>4, <2>1, <2>2, StaysUndisturbed
<1>. QED  BY <1>5 DEF FramesTrue

\* What a frame draws is at its own distance in time from everything else it draws
LEMMA DrawnTrue ==
    ASSUME NEW s, NEW texture, NEW uploads, Fits(s), s.columns \in Nat, s.next \in Nat,
           s.span \in Nat, NEW generation, NEW last,
           NEW drawn,
           \A c \in s.valid :
              drawn[c] = IF c \in ColumnsOf(uploads) THEN s.staging[LastOf(uploads, c)]
                         ELSE texture[c],
           StateTrue(s, uploads, texture, generation, last),
           NEW pair \in Drawn(s, drawn)
    PROVE  \E k \in 0 .. s.columns - 1, c \in s.valid :
              pair = <<k, drawn[c]>> /\ Placed(drawn[c], generation, last, s.columns, k)
<1>1. PICK k \in 0 .. s.columns - 1 :
         \E c \in PhysicalColumn(s, k) \cap s.valid : pair = <<k, drawn[c]>>
  BY DEF Drawn
<1>2. PICK c \in PhysicalColumn(s, k) \cap s.valid : pair = <<k, drawn[c]>>
  BY <1>1
<1>3. c = At(s, k)
  <2>. DEFINE n == s.columns
              empty == s.columns - s.span
              oldest == (s.next + s.columns - s.span) % s.columns
  <2>1. n \in Nat \ {0} /\ s.next \in 0 .. n - 1 /\ empty \in 0 .. n /\ k \in 0 .. n - 1
        /\ s.next + s.columns - s.span = s.next + empty
    BY <1>1 DEF Fits
  <2>2. k >= empty /\ c = (oldest + (k - empty)) % n
    BY <1>2, <2>1 DEF PhysicalColumn
  <2>3. oldest = (s.next + empty) % n
    BY <2>1
  <2>4. At(s, k) = (s.next + k) % n
    BY DEF At
  <2>. HIDE DEF n, empty, oldest
  <2>9. n \in Nat \ {0} /\ s.next \in 0 .. n - 1 /\ empty \in 0 .. n /\ k \in 0 .. n
    BY <2>1
  <2>5. oldest = IF s.next + empty < n THEN s.next + empty ELSE s.next + empty - n
    BY <2>3, <2>9, AtPlaces
  <2>. DEFINE x == oldest + (k - empty)
  <2>7. x \in Nat /\ c = x % n /\ (x = s.next + k \/ x = s.next + k - n) /\ x < 2 * n
    BY <2>1, <2>2, <2>5
  <2>. HIDE DEF x
  <2>8. /\ x < n => x % n = x
        /\ x >= n /\ x < 2 * n => x % n = x - n
    BY <2>1, <2>7, Round
  <2>11. PICK m \in Nat, y \in Nat : m = n /\ y = s.next
    BY <2>9
  <2>14. At(s, k) = IF y + k < m THEN y + k ELSE y + k - m
    BY <2>9, AtPlaces, <2>4, <2>11
  <2>15. c = IF x < m THEN x ELSE x - m
    BY <2>1, <2>7, <2>8, <2>11
  <2>16. x \in Nat
    BY <2>7
  <2>. QED  BY <2>1, <2>11, <2>7, <2>14, <2>15, <2>16
<1>. QED  BY <1>2, <1>3 DEF StateTrue

\* ... and so is everything a command buffer that succeeds leaves on the screen
LEMMA RanShows ==
    ASSUME TypeInv, GateFollows, UploadsBelong, HistoryTrue, ShownHistoryIsTrue,
           NEW f, NEW ok \in BOOLEAN, Ran(f, ok)
    PROVE  ShownHistoryIsTrue'
<1>1. CASE ~ok
  BY <1>1 DEF Ran, ShownHistoryIsTrue
<1>2. CASE ok
  <2>. DEFINE s == slots[frames[f].slot]
              uploads == frames[f].uploads
              texture == texels[frames[f].texture]
              drawn == UploadedTexture(frames[f], ok)
  <2>1. /\ f \in DOMAIN frames /\ frames[f].completion = "queued" /\ screen' = Drawn(s, drawn)
        /\ frames[f].texture \in DOMAIN texels /\ DOMAIN drawn = DOMAIN texture
    BY <1>2 DEF Ran
  <2>2. /\ frames[f] \in FrameRecords /\ frames[f].slot \in 1 .. BufferCount
        /\ slots \in [1 .. BufferCount -> SlotStates] /\ s \in SlotStates
        /\ texels \in Seq(Textures)
        /\ Len(s.staging) >= Len(uploads)
    BY <2>1, FramesTyped DEF TypeInv, TypeOK, SharedOK, SlotsHeld, Holds, StagingMatches
  <2>3. s.columns \in Nat /\ s.next \in Nat /\ s.span \in Nat
    BY <2>2, SlotTyped
  <2>4. FrameTrue(f)
    BY <2>1 DEF HistoryTrue, FramesTrue
  <2>5. DOMAIN texture = 0 .. s.columns - 1 /\ Fits(s)
    BY <2>4 DEF FrameTrue, FrameState
  <2>6. PICK generation \in Nat \ {0}, last \in Nat :
           StateTrue(s, uploads, texture, generation, last)
    BY <2>4 DEF FrameTrue, FrameState
  <2>7. \A c \in s.valid :
           drawn[c] = IF c \in ColumnsOf(uploads) THEN s.staging[LastOf(uploads, c)]
                      ELSE texture[c]
    BY <1>2, <2>5 DEF UploadedTexture, Fits
  <2>8. drawn \in Textures
    BY <1>2, <2>1, <2>2, UploadedTyped
  <2>9. \A c \in s.valid : drawn[c] \in Texels
    <3>1. PICK n \in Nat : drawn \in [0 .. n - 1 -> Texels]
      BY <2>8 DEF Textures
    <3>. HIDE DEF drawn, s
    <3>. QED  BY <3>1, <2>1, <2>5 DEF Fits
  <2>. HIDE DEF drawn, s, uploads, texture
  <2>10. ASSUME NEW a \in screen', NEW b \in screen'
         PROVE  /\ a[2] # BlankTexel
                /\ a[2].generation = b[2].generation
                /\ a[2].slot + b[1] = b[2].slot + a[1]
    <3>1. PICK k \in 0 .. s.columns - 1, c \in s.valid :
             a = <<k, drawn[c]>> /\ Placed(drawn[c], generation, last, s.columns, k)
      BY <2>1, <2>3, <2>5, <2>6, <2>7, <2>10, DrawnTrue
    <3>2. PICK l \in 0 .. s.columns - 1, d \in s.valid :
             b = <<l, drawn[d]>> /\ Placed(drawn[d], generation, last, s.columns, l)
      BY <2>1, <2>3, <2>5, <2>6, <2>7, <2>10, DrawnTrue
    <3>4. drawn[c].slot \in Nat /\ drawn[d].slot \in Nat
      BY <2>9 DEF Texels
    <3>5. /\ drawn[c].generation = generation /\ drawn[d].generation = generation
          /\ drawn[c].slot + s.columns = last + 1 + k
          /\ drawn[d].slot + s.columns = last + 1 + l
      BY <3>1, <3>2 DEF Placed
    <3>7. drawn[c] # BlankTexel
      BY <3>5 DEF BlankTexel
    <3>. QED  BY <3>1, <3>2, <3>5, <2>3, <2>6, <3>4, <3>7
  <2>. QED  BY <2>10 DEF ShownHistoryIsTrue
<1>. QED  BY <1>1, <1>2

HistoryInv == TypeInv /\ GateFollows /\ UploadsBelong /\ HistoryTrue /\ ShownHistoryIsTrue

LEMMA HistoryInit ==
    ASSUME Init
    PROVE  HistoryTrue /\ ShownHistoryIsTrue
<1>1. /\ callback = Idle /\ frames = <<>> /\ screen = {} /\ texels = <<BlankTexture(0)>>
      /\ history = [ring |-> EmptyRing(0), signature |-> NoSignature, revision |-> 1,
                    texture |-> 0, textureRevision |-> 1]
      /\ pending.upload = NoUpload
  BY DEF Init
<1>2. /\ history.ring = EmptyRing(0) /\ history.signature = NoSignature /\ history.texture = 0
      /\ history.textureRevision = 1 /\ DOMAIN frames = {} /\ callback.step = "idle"
      /\ texels[1] = BlankTexture(0)
  BY <1>1 DEF Idle
<1>3. history.ring.columns = 0 /\ history.ring.valid = {} /\ history.ring.span = 0
  BY <1>2 DEF EmptyRing
<1>6. RowsMatch /\ PreparedFrame
  BY <1>2 DEF RowsMatch, PreparedFrame, Building, BuildingSteps
<1>. QED
  BY <1>1, <1>2, <1>3, <1>6 DEF HistoryTrue, ShownHistoryIsTrue, BlankTexture, Fits, HistoryShape,
     ColumnsTrue, UploadCurrent, FramesTrue

LEMMA ScreenStays ==
    ASSUME StepEffect, TypeInv, ~GpuStep
    PROVE  screen' = screen
<1>1. CASE DrainsColumn
  BY <1>1, ColumnSteps
<1>2. CASE \E f \in DOMAIN frames : Publishes(f) \/ Opens(f) \/ Releases(f) \/ TimesFrame(f)
  BY <1>2, CallbackLeaves
<1>3. CASE \E b \in 1 .. BufferCount : Acquires(b)
  BY <1>3 DEF Acquires, gpu
<1>4. CASE Begins \/ Interlude \/ Drops \/ Abandons \/ StartsDrain \/ DrainsMarker \/ Prepares
  BY <1>4 DEF Begins, Interlude, Drops, Abandons, StartsDrain, DrainsMarker, DrainTurn, Prepares, gpu
<1>5. CASE CommitUploads \/ CommitDrawing \/ CommitUnencoded \/ UNCHANGED vars
  BY <1>5 DEF CommitUploads, CommitDrawing, CommitUnencoded, Committed, vars
<1>. QED  BY <1>1, <1>2, <1>3, <1>4, <1>5 DEF StepEffect, GpuStep

LEMMA HistoryTrueKept ==
    ASSUME HistoryInv, StepEffect
    PROVE  HistoryTrue' /\ ShownHistoryIsTrue'
<1>1. RowsMatch'
  BY RowsMatchKept DEF HistoryInv, HistoryTrue
<1>2. CASE GpuStep
  <2>1. PICK f \in DOMAIN frames, ok \in BOOLEAN : Ran(f, ok)
    BY <1>2 DEF GpuStep
  <2>. QED  BY <1>1, <2>1, RanColumns, RanFrames, RanShows DEF HistoryTrue, HistoryInv
<1>3. CASE ~GpuStep
  BY <1>3, HistoryKept, UploadCurrentKept, PreparedFrameKept, FramesTrueKept, ScreenStays, <1>1 DEF
     HistoryInv, ShownHistoryIsTrue, HistoryTrue
<1>. QED  BY <1>2, <1>3

(***************************************************************************)
(* The theorems                                                            *)
(***************************************************************************)
\* What the frames, the slots, the queue, the textures and the telemetry are
\* at every moment: of their types; a slot belongs to one frame from the
\* callback that takes it to the completion that gives it back; the queue
\* holds the committed frames in order, each with a row for every upload and
\* with the texture it was prepared for; every frame has a number of its own
\* in its epoch; the histories are in order and within their capacity.
THEOREM FramesStructured == Spec => []TypeInv
<1>1. Init => TypeInv
  BY TypeInit
<1>2. TypeInv /\ [Next]_vars => TypeInv'
  BY TypeKept
<1>. QED  BY <1>1, <1>2, PTL DEF Spec

LEMMA GateInit ==
    ASSUME Init
    PROVE  GateFollows /\ UploadsBelong
BY DEF Init, GateFollows, ClosedGate, UploadsBelong, Idle, Building, BuildingSteps

GateInv == TypeInv /\ GateFollows /\ UploadsBelong

\* The answer of the gate is that of the upload the message thread recorded:
\* a history is thrown away at a callback only when that upload failed
\* (resolvePendingSpectrogramUpload and the completed handler's order).
THEOREM UploadsKeepHistory == Spec => SuccessfulUploadIsKept
<1>1. Init => GateInv
  BY TypeInit, GateInit DEF GateInv
<1>2. GateInv /\ [Next]_vars => GateInv'
  BY TypeKept, GateKept, UploadsKept DEF GateInv
<1>3. GateInv /\ [Next]_vars =>
        [BeginCallback /\ history'.revision # history.revision
         => \E f \in DOMAIN frames :
               /\ frames[f].transaction = pending.upload.transaction
               /\ ~frames[f].succeeded]_vars
  BY UploadClears DEF GateInv
<1>. QED  BY <1>1, <1>2, <1>3, PTL DEF Spec, SuccessfulUploadIsKept

\* Skipped and presented frames are counted once each, in the epoch they
\* began in (recordSkippedPresentation, recordPresentedDrawable).
THEOREM OutcomesCounted == Spec => []OutcomesCountedOnce
<1>1. Init => TypeInv /\ OutcomesCountedOnce
  BY TypeInit, OutcomesInit
<1>2. TypeInv /\ OutcomesCountedOnce /\ [Next]_vars => (TypeInv /\ OutcomesCountedOnce)'
  BY TypeKept, OutcomesKept
<1>. QED  BY <1>1, <1>2, PTL DEF Spec

TimingInv == TypeInv /\ TimingEvents /\ LatencyKept

\* The two callbacks of a frame publish one sample, and the history keeps the
\* newest (publishTimingEvent, FrameLatencyHistory::record).
THEOREM TimingOnce == Spec => []TimingPublishedOnce
<1>1. Init => TimingInv
  BY TypeInit, TimingInit, HistoriesInit DEF TimingInv
<1>2. TimingInv /\ [Next]_vars => TimingInv'
  BY TypeKept, TimingKept, LatencyStays DEF TimingInv
<1>3. TimingInv => TimingPublishedOnce
  BY TimingPublished DEF TimingInv
<1>. QED  BY <1>1, <1>2, <1>3, PTL DEF Spec

\* The presented frames kept are the newest, one for each time
\* (PresentedFrameHistory::recordPresentation).
THEOREM PacingIntervals == Spec => []IntervalsArePacing
<1>1. Init => TypeInv /\ ShownKept
  BY TypeInit, HistoriesInit
<1>2. TypeInv /\ ShownKept /\ [Next]_vars => (TypeInv /\ ShownKept)'
  BY TypeKept, ShownStays
<1>3. TypeInv /\ ShownKept => IntervalsArePacing
  BY PacingShown
<1>. QED  BY <1>1, <1>2, <1>3, PTL DEF Spec

\* What is on the screen is the history: every texel drawn was uploaded, all
\* are of one generation, each at its own distance in time from the others.
\* Every column the ring calls valid is in the rows of the frame being built,
\* in those of the upload in flight or in the texture, and a committed frame
\* draws what nothing queued before it still overwrites
\* (copySpectrogramRenderValidity, encodeSpectrogramUploads, the ring).
THEOREM ShownHistory == Spec => []ShownHistoryIsTrue
<1>1. Init => HistoryInv
  BY TypeInit, GateInit, HistoryInit DEF HistoryInv
<1>2. HistoryInv /\ [Next]_vars => HistoryInv'
  BY TypeKept, GateKept, UploadsKept, HistoryTrueKept DEF HistoryInv
<1>3. HistoryInv => ShownHistoryIsTrue
  BY DEF HistoryInv
<1>. QED  BY <1>1, <1>2, <1>3, PTL DEF Spec
=============================================================================
