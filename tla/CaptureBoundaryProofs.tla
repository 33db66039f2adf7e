------------------------ MODULE CaptureBoundaryProofs ------------------------
(***************************************************************************)
(* What holds of captures, gaps and boundaries for any number of blocks,     *)
(* lifecycle changes, refused markers, discards and slots: a change is not   *)
(* undone by the worker, audio from the two sides of a gap never meets, and  *)
(* recovery follows the delivery of the boundary.                          *)
(***************************************************************************)
EXTENDS CaptureBoundary, TLAPS

-----------------------------------------------------------------------------
(***************************************************************************)
(* Types.                                                                  *)
(***************************************************************************)
Blocks == [pc : {"idle", "publish", "store", "count"}, life : Nat, input : Inputs,
           dropped : BOOLEAN]
Uses == {"boundary", "republish", "result"}
WorkerPoints == {"idle", "start", "marker", "putMarker", "check", "put", "await", "advance",
                 "acquire", "chunk", "meters", "meter", "reading", "finish"}
Workers == [pc : WorkerPoints, job : Nat, capture : Nat, life : Nat, atStart : Nat,
            resume : BOOLEAN, use : Uses, input : Inputs, turn : Nat,
            changed : BOOLEAN, processed : BOOLEAN]
Episodes == [phase : {"steady", "publishing", "awaiting", "recovering"}, revision : Nat,
             generation : Nat, marker : BOOLEAN, dirty : BOOLEAN, pending : BOOLEAN,
             covered : Nat, raw : Inputs, meter : Inputs]
FramesOut == [generation : Nat, boundary : BOOLEAN]

LifecycleTypes ==
    /\ active \in [capture : Nat, life : Nat]
    /\ current \in [capture : Nat, life : Nat, job : Nat]
    /\ counter \in Nat
    /\ job \in [generation : Nat, requested : BOOLEAN]
    /\ change \in [op : Changes \cup {"none"},
                   pc : {"none", "close", "cancel", "wait", "open"}]

InputTypes ==
    /\ captured \in Nat /\ analyzed \in Nat /\ requested \in Nat
    /\ block \in Blocks
    /\ loss \in [revision : Nat, life : Nat, acknowledged : Nat]
    /\ raw \in Seq(Inputs) /\ meter \in Inputs

WorkTypes == worker \in Workers /\ episode \in Episodes /\ applied \in Nat

DeliveryTypes ==
    /\ awaiting \in [frame : Nat, marker : Nat]
    /\ frame \in FramesOut /\ markers \subseteq Nat
    /\ message \in [pc : {"idle", "checkFrame", "ackFrame", "checkMarker", "ackMarker",
                          "discard"}, held : FramesOut]
    /\ seen \in [frames : SUBSET Nat, markers : SUBSET Nat, lost : BOOLEAN]

Types == LifecycleTypes /\ InputTypes /\ WorkTypes /\ DeliveryTypes

-----------------------------------------------------------------------------
(***************************************************************************)
(* Lifecycles.  A change of lifecycle takes the generation away before it    *)
(* waits for the worker, a job that has been admitted works for the          *)
(* generation that is current, and no job starts while a change waits.       *)
(***************************************************************************)
Closing == {"activate", "deactivate", "format"}

ChangeControl ==
    /\ change.op = "none" <=> change.pc = "none"
    /\ change.pc = "open" => change.op \in {"activate", "format"}
    /\ change.op \in Closing => active.capture = 0
    /\ change.op \in Closing /\ change.pc # "close" => active.life = 0
    /\ change.pc \in {"wait", "open"} => ~job.requested
    /\ change.pc = "open" => worker.pc = "idle"

Generations ==
    /\ active.life # 0 => active.life = current.life
    /\ worker.pc # "idle" => worker.life = current.life /\ worker.capture = current.capture
    /\ worker.pc \notin {"idle", "start"} => worker.life # 0 /\ worker.capture # 0
    /\ active.capture <= counter /\ current.capture <= counter /\ current.life <= counter

Lifecycles == ChangeControl /\ Generations

-----------------------------------------------------------------------------
(***************************************************************************)
(* Stamps.  Lifecycles enter the samples in order, a revision announced is   *)
(* at most one ahead of the blocks counted, and every input bears a stamp   *)
(* that has been announced.                                                *)
(***************************************************************************)
Producing ==
    /\ loss.life <= counter
    /\ current.life # 0 => loss.life <= current.life
    /\ block.pc # "idle" =>
           /\ block.life <= counter /\ loss.life <= block.life
           /\ current.life # 0 => block.life <= current.life
    /\ loss.revision <= captured + (IF block.pc \in {"store", "count"} THEN 1 ELSE 0)

Announced ==
    {i \in Inputs : /\ i.life <= loss.life
                    /\ i.life = loss.life => i.revision <= loss.revision}

Stamped ==
    /\ raw \in Seq(Announced)
    /\ {meter, block.input, worker.input, episode.raw, episode.meter} \subseteq Announced

-----------------------------------------------------------------------------
(***************************************************************************)
(* Sides.  The gap an episode is about stays the latest until it is          *)
(* acknowledged; what is analysed is stamped with the gap applied.           *)
(***************************************************************************)
InEpisode ==
    episode.phase # "steady" =>
        /\ current.life # 0 /\ change.pc # "open" /\ loss.life = current.life
        /\ episode.revision = applied /\ applied = loss.revision
        /\ loss.acknowledged < applied

BetweenEpisodes ==
    episode.phase = "steady" /\ (current.life # 0 \/ change.pc = "open") =>
        /\ applied = loss.acknowledged
        /\ applied # 0 => loss.life = current.life /\ applied <= loss.revision

Opening == change.pc = "open" => content = {} /\ applied = 0

Analysable == [life |-> current.life, revision |-> applied]
Sides == InEpisode /\ BetweenEpisodes /\ Opening /\ content \subseteq {Analysable}

-----------------------------------------------------------------------------
(***************************************************************************)
(* Delivery.  A boundary that is no longer awaited has been accepted by the  *)
(* renderer.                                                               *)
(***************************************************************************)
Points ==
    /\ episode.phase # "steady" => episode.generation = current.capture /\ current.capture # 0
    /\ worker.pc \in {"marker", "putMarker"} =>
           episode.phase = "publishing" /\ ~episode.marker /\ worker.use = "boundary"
    /\ worker.pc \in {"check", "put"} /\ worker.use = "boundary" =>
           episode.phase = "publishing" /\ episode.marker
    /\ worker.pc \in {"check", "put"} /\ worker.use = "republish" =>
           episode.phase = "recovering"
    /\ worker.pc = "await" => episode.phase = "awaiting"

FrameDelivered(g) == awaiting.frame = g \/ g \in seen.frames
MarkerDelivered(g) == awaiting.marker = g \/ g \in seen.markers

Delivering ==
    /\ worker.pc = "putMarker" => MarkerDelivered(current.capture)
    /\ worker.pc = "put" /\ worker.use = "boundary" => FrameDelivered(current.capture)
    /\ episode.phase # "steady" /\ episode.marker => MarkerDelivered(current.capture)
    /\ episode.phase \in {"awaiting", "recovering"} =>
           episode.marker /\ FrameDelivered(current.capture)
    /\ episode.phase = "recovering" =>
           current.capture \in seen.frames /\ current.capture \in seen.markers

\* A generation the worker cannot await any more
Past(g) ==
    IF change.pc = "open" THEN g < counter
    ELSE g # current.capture \/ current.capture = 0

Accepted ==
    /\ message.pc = "ackFrame" =>
           message.held.generation \in seen.frames \/ Past(message.held.generation)
    /\ message.pc = "ackMarker" =>
           message.held.generation \in seen.markers \/ Past(message.held.generation)

OutBound ==
    /\ frame.generation <= counter
    /\ message.pc # "discard" => message.held.generation <= counter
    /\ \A g \in markers : g <= counter

Delivery == Points /\ Delivering /\ Accepted /\ OutBound

IInv == Types /\ Lifecycles /\ Producing /\ Stamped /\ Sides /\ Delivery

\* The initial state has the types
LEMMA InitTypes == Init => Types
BY DEF Init, Types, LifecycleTypes, InputTypes, WorkTypes, DeliveryTypes, NoBlock, NoInput,
       Blocks, Inputs, IdleWorker, Workers, WorkerPoints, Uses, Steady, Episodes, NoFrame,
       FramesOut, NothingSeen, Changes

\* Taking an element away leaves a sequence of the others
LEMMA RemoveElements ==
    ASSUME NEW S, NEW s \in Seq(S), NEW k \in DOMAIN s
    PROVE  RemoveAt(s, k) \in Seq(S)
<1>1. k \in 1..Len(s) /\ Len(s) \in Nat /\ k \in Nat
  OBVIOUS
<1>2. SubSeq(s, 1, k - 1) \in Seq(S)
  BY <1>1
<1>3. SubSeq(s, k + 1, Len(s)) \in Seq(S)
  BY <1>1
<1>. QED  BY <1>2, <1>3 DEF RemoveAt

\* The audio thread keeps the types
LEMMA TypesAudio ==
    ASSUME Types, BlockAdmits \/ AudioSteps
    PROVE  Types'
<1>1. LifecycleTypes' /\ WorkTypes' /\ DeliveryTypes'
  BY DEF Types, LifecycleTypes, WorkTypes, DeliveryTypes, BlockAdmits, AudioSteps,
         BlockPublishes, BlockStores, BlockCounts, workVars
<1>2. CASE BlockAdmits
  <2>1. block' \in Blocks
    BY <1>2 DEF BlockAdmits, Types, LifecycleTypes, NoBlock, NoInput, Blocks, Inputs
  <2>. QED  BY <1>1, <1>2, <2>1 DEF BlockAdmits, Types, InputTypes, workVars
<1>3. CASE BlockPublishes
  <2> DEFINE entered == Entered(block.life)
             full == Len(entered.raw) + Held >= SlotCount
             dropped == full /\ entered.raw = << >>
             revision == IF full THEN LossRevision(entered.revision) ELSE entered.revision
  <2>1. entered.revision \in Nat /\ entered.raw \in Seq(Inputs)
    BY DEF Entered, Types, InputTypes
  <2>2. /\ raw' = IF full /\ ~dropped THEN Tail(entered.raw) ELSE entered.raw
        /\ loss' = [loss EXCEPT !.life = block.life, !.revision = revision]
        /\ block' = [block EXCEPT !.pc = "store", !.dropped = dropped,
                                  !.input = [life |-> block.life, revision |-> revision]]
    BY <1>3 DEF BlockPublishes
  <2> HIDE DEF entered
  <2>3. revision \in Nat
    BY <2>1 DEF LossRevision, Types, InputTypes
  <2>4. dropped \in BOOLEAN /\ (full /\ ~dropped => entered.raw # << >>)
    OBVIOUS
  <2> HIDE DEF full, dropped, revision
  <2>5. raw' \in Seq(Inputs)
    BY <2>1, <2>2, <2>4
  <2>6. block.life \in Nat /\ block \in Blocks
    BY DEF Types, InputTypes, Blocks
  <2>7. loss' \in [revision : Nat, life : Nat, acknowledged : Nat]
    BY <2>2, <2>3, <2>6 DEF Types, InputTypes
  <2>8. block' \in Blocks
    BY <2>2, <2>3, <2>4, <2>6 DEF Blocks, Inputs
  <2>. QED  BY <1>1, <1>3, <2>5, <2>7, <2>8
            DEF BlockPublishes, Types, InputTypes, workVars
<1>4. CASE BlockStores
  <2>1. block.input \in Inputs /\ block' \in Blocks
    BY <1>4 DEF BlockStores, Types, InputTypes, Blocks
  <2>2. raw' \in Seq(Inputs)
    BY <1>4, <2>1 DEF BlockStores, Types, InputTypes
  <2>. QED  BY <1>1, <1>4, <2>1, <2>2 DEF BlockStores, Types, InputTypes, workVars
<1>5. CASE BlockCounts
  <2>1. block' \in Blocks
    BY <1>5 DEF BlockCounts, NoBlock, NoInput, Blocks, Inputs
  <2>. QED  BY <1>1, <1>5, <2>1 DEF BlockCounts, Types, InputTypes, workVars
<1>. QED  BY <1>2, <1>3, <1>4, <1>5 DEF AudioSteps

\* An episode begins with a generation of its own
LEMMA TypesBegins ==
    ASSUME Types, NEW r \in Nat, NEW chunk \in Inputs, NEW reading \in Inputs,
           BeginsEpisode(r, chunk, reading)
    PROVE  /\ active' \in [capture : Nat, life : Nat]
           /\ current' \in [capture : Nat, life : Nat, job : Nat]
           /\ counter' \in Nat /\ WorkTypes' /\ markers' \subseteq Nat
<1>1. CASE MayBegin /\ WinsGeneration
  <2>1. /\ counter' = counter + 1 /\ counter + 1 \in Nat
        /\ active' = [active EXCEPT !.capture = counter + 1]
        /\ current' = [current EXCEPT !.capture = counter + 1]
        /\ applied' = r
        /\ episode' = [Steady EXCEPT !.phase = "publishing", !.revision = r,
                                     !.generation = counter + 1, !.meter = reading]
        /\ markers' \subseteq markers
        /\ worker' = [worker EXCEPT !.pc = "marker", !.use = "boundary",
                                    !.capture = counter + 1, !.input = chunk]
    BY <1>1 DEF BeginsEpisode, Types, LifecycleTypes
  <2>2. worker' \in Workers
    BY <2>1 DEF Types, WorkTypes, Workers, WorkerPoints, Uses
  <2>3. episode' \in Episodes
    BY <2>1 DEF Steady, NoInput, Episodes, Inputs
  <2>4. active' \in [capture : Nat, life : Nat] /\ current' \in [capture : Nat, life : Nat, job : Nat]
    BY <2>1 DEF Types, LifecycleTypes
  <2>. QED  BY <2>1, <2>2, <2>3, <2>4 DEF Types, WorkTypes, DeliveryTypes
<1>2. CASE ~(MayBegin /\ WinsGeneration)
  <2>1. /\ worker' = IdleWorker /\ episode' = [episode EXCEPT !.meter = reading]
        /\ UNCHANGED <<active, current, counter, applied, markers>>
    BY <1>2 DEF BeginsEpisode
  <2>2. worker' \in Workers
    BY <2>1 DEF IdleWorker, NoInput, Workers, WorkerPoints, Uses, Inputs
  <2>3. episode' \in Episodes
    BY <2>1 DEF Types, WorkTypes, Episodes
  <2>. QED  BY <2>1, <2>2, <2>3 DEF Types, LifecycleTypes, WorkTypes, DeliveryTypes
<1>. QED  BY <1>1, <1>2

\* Input analysed or ignored
LEMMA TypesAnalysed ==
    ASSUME Types, NEW next \in Workers, Analysed(next) \/ Ignored(next), applied' = applied
    PROVE  WorkTypes'
<1>1. CASE Ignored(next)
  BY <1>1 DEF Ignored, Types, WorkTypes
<1>2. CASE Analysed(next)
  <2>1. worker' = [next EXCEPT !.changed = TRUE,
                               !.processed = @ \/ episode.phase = "recovering"]
    BY <1>2 DEF Analysed
  <2>2. (next.processed \/ episode.phase = "recovering") \in BOOLEAN
    OBVIOUS
  <2>3. worker' \in Workers
    BY <2>1, <2>2 DEF Workers
  <2>4. worker.atStart \in Nat /\ episode \in Episodes
    BY DEF Types, WorkTypes, Workers
  <2>5. episode' \in Episodes
    <3>1. CASE episode.phase # "recovering"
      BY <1>2, <2>4, <3>1 DEF Analysed
    <3>2. CASE episode.phase = "recovering"
      <4>1. PICK c \in Nat : episode' = [episode EXCEPT !.dirty = TRUE, !.covered = c]
        <5>1. (IF episode.covered = 0 THEN worker.atStart ELSE episode.covered) \in Nat
          BY <2>4 DEF Episodes
        <5>. QED  BY <1>2, <3>2, <5>1 DEF Analysed
      <4>. QED  BY <2>4, <4>1 DEF Episodes
    <3>. QED  BY <3>1, <3>2
  <2>. QED  BY <2>3, <2>5 DEF Types, WorkTypes
<1>. QED  BY <1>1, <1>2

\* The worker's next turns
LEMMA TypesNext ==
    ASSUME Types
    PROVE  /\ NextTurn \in Workers /\ WithoutReading \in Workers /\ IdleWorker \in Workers
           /\ \A p \in WorkerPoints : Go(p) \in Workers
<1>1. worker \in Workers /\ NoInput \in Inputs
  BY DEF Types, WorkTypes, NoInput, Inputs
<1>2. NextTurn \in Workers
  <2>1. PICK t \in Nat, p \in {"advance", "meters"} :
            NextTurn = [worker EXCEPT !.input = NoInput, !.turn = t, !.pc = p]
    <3>1. worker.turn \in Nat /\ worker.turn + 1 \in Nat
      BY <1>1 DEF Workers
    <3>. QED  BY <3>1 DEF NextTurn
  <2>. QED  BY <1>1, <2>1 DEF Workers, WorkerPoints
<1>3. WithoutReading \in Workers
  BY <1>1 DEF WithoutReading, Workers, WorkerPoints
<1>4. IdleWorker \in Workers
  BY <1>1 DEF IdleWorker, Workers, WorkerPoints, Uses
<1>5. ASSUME NEW p \in WorkerPoints PROVE Go(p) \in Workers
  BY <1>1 DEF Go, Workers
<1>. QED  BY <1>2, <1>3, <1>4, <1>5

\* What the worker reads of the samples
LEMMA TypesObserved ==
    ASSUME Types
    PROVE  /\ Observed \in Nat /\ Minimum \in Nat
           /\ \A life \in Nat : Published(life) \in Nat
           /\ worker.input \in Inputs /\ worker.input.revision \in Nat
           /\ NoInput \in Inputs
BY DEF Types, WorkTypes, InputTypes, Observed, Minimum, Published, Later, Workers, Episodes,
       Inputs, NoInput

\* The worker keeps the types
LEMMA TypesWorker ==
    ASSUME Types, WorkerSteps \/ MarkerRefused
    PROVE  Types'
<1> USE DEF captureVars, workVars
<1>1. CASE JobStarts
  <2>1. worker' \in Workers
    BY <1>1 DEF JobStarts, IdleWorker, NoInput, Types, LifecycleTypes, InputTypes, Workers,
                WorkerPoints, Uses, Inputs
  <2>2. job' \in [generation : Nat, requested : BOOLEAN]
    BY <1>1 DEF JobStarts, Types, LifecycleTypes
  <2>. QED  BY <1>1, <2>1, <2>2
            DEF JobStarts, Types, LifecycleTypes, InputTypes, WorkTypes, DeliveryTypes
<1>2. CASE JobEnters
  <2>1. worker \in Workers /\ episode \in Episodes
    BY DEF Types, WorkTypes
  <2>2. worker' \in Workers
    <3>1. [worker EXCEPT !.resume = TRUE, !.use = "boundary",
                         !.pc = IF episode.marker THEN "check" ELSE "marker"] \in Workers
      BY <2>1 DEF Workers, WorkerPoints, Uses
    <3>2. [worker EXCEPT !.pc = "check", !.use = "republish"] \in Workers
      BY <2>1 DEF Workers, WorkerPoints, Uses
    <3>3. IdleWorker \in Workers /\ Go("await") \in Workers /\ Go("advance") \in Workers
      BY TypesNext DEF WorkerPoints
    <3>. QED  BY <1>2, <3>1, <3>2, <3>3 DEF JobEnters
  <2>3. episode' \in Episodes
    BY <1>2, <2>1 DEF JobEnters, Episodes
  <2>. QED  BY <1>2, <2>2, <2>3
            DEF JobEnters, Types, LifecycleTypes, InputTypes, WorkTypes, DeliveryTypes
<1>3. CASE JobAwaits
  <2>1. worker' \in Workers
    <3>1. IdleWorker \in Workers /\ Go("advance") \in Workers
      BY TypesNext DEF WorkerPoints
    <3>. QED  BY <1>3, <3>1 DEF JobAwaits
  <2>2. episode' \in Episodes
    BY <1>3 DEF JobAwaits, Types, WorkTypes, Episodes
  <2>. QED  BY <1>3, <2>1, <2>2
            DEF JobAwaits, Types, LifecycleTypes, InputTypes, WorkTypes, DeliveryTypes
<1>4. CASE JobAdvances
  <2>1. Published(worker.life) \in Nat /\ NoInput \in Inputs
    BY TypesObserved DEF Types, WorkTypes, Workers
  <2>2. CASE BeginsEpisode(Published(worker.life), NoInput, NoInput)
    BY <1>4, <2>1, <2>2, TypesBegins
       DEF JobAdvances, Types, LifecycleTypes, InputTypes, WorkTypes, DeliveryTypes
  <2>3. CASE /\ worker' = Go(IF worker.pc = "meters" THEN "meter" ELSE "acquire")
             /\ episode' = IF episode.phase = "steady" THEN episode ELSE
                    [episode EXCEPT !.revision = Later(@, Published(worker.life))]
             /\ UNCHANGED <<active, current, counter, applied, content, markers>>
    <3>1. worker' \in Workers
      BY <2>3, TypesNext DEF WorkerPoints
    <3>2. episode \in Episodes /\ Later(episode.revision, Published(worker.life)) \in Nat
      BY <2>1 DEF Types, WorkTypes, Episodes, Later
    <3>3. episode' \in Episodes
      BY <2>3, <3>2 DEF Episodes
    <3>. QED  BY <1>4, <2>3, <3>1, <3>3
              DEF JobAdvances, Types, LifecycleTypes, InputTypes, WorkTypes, DeliveryTypes
  <2>. QED  BY <1>4, <2>2, <2>3 DEF JobAdvances
<1>5. CASE JobAwaitsMarker \/ MarkerRefused
  <2>1. worker' \in Workers
    <3>1. IdleWorker \in Workers /\ Go("putMarker") \in Workers
      BY TypesNext DEF WorkerPoints
    <3>. QED  BY <1>5, <3>1 DEF JobAwaitsMarker, MarkerRefused
  <2>2. awaiting' \in [frame : Nat, marker : Nat]
    BY <1>5 DEF JobAwaitsMarker, MarkerRefused, Types, WorkTypes, DeliveryTypes, Workers
  <2>3. LifecycleTypes' /\ InputTypes'
    BY <1>5 DEF JobAwaitsMarker, MarkerRefused, Types, LifecycleTypes, InputTypes
  <2>4. WorkTypes'
    BY <1>5, <2>1 DEF JobAwaitsMarker, MarkerRefused, Types, WorkTypes
  <2>5. DeliveryTypes'
    BY <1>5, <2>2 DEF JobAwaitsMarker, MarkerRefused, Types, DeliveryTypes
  <2>. QED  BY <2>3, <2>4, <2>5 DEF Types
<1>6. CASE JobPutsMarker
  <2>1. worker' \in Workers
    BY <1>6, TypesNext DEF JobPutsMarker, WorkerPoints
  <2>2. episode' \in Episodes
    BY <1>6 DEF JobPutsMarker, Types, WorkTypes, Episodes
  <2>3. markers' \subseteq Nat
    BY <1>6 DEF JobPutsMarker, Types, WorkTypes, DeliveryTypes, Workers
  <2>. QED  BY <1>6, <2>1, <2>2, <2>3
            DEF JobPutsMarker, Types, LifecycleTypes, InputTypes, WorkTypes, DeliveryTypes
<1>7. CASE JobChecksFrame
  <2>1. worker' \in Workers
    <3>1. IdleWorker \in Workers /\ Go("put") \in Workers
      BY TypesNext DEF WorkerPoints
    <3>. QED  BY <1>7, <3>1 DEF JobChecksFrame
  <2>2. awaiting' \in [frame : Nat, marker : Nat] /\ analyzed' \in Nat
    BY <1>7 DEF JobChecksFrame, Types, WorkTypes, InputTypes, DeliveryTypes, Workers
  <2>. QED  BY <1>7, <2>1, <2>2
            DEF JobChecksFrame, Types, LifecycleTypes, InputTypes, WorkTypes, DeliveryTypes
<1>8. CASE JobPutsFrame
  <2>1. worker \in Workers /\ episode \in Episodes /\ Steady \in Episodes
    BY DEF Types, WorkTypes, Steady, NoInput, Episodes, Inputs
  <2>2. worker' \in Workers
    <3>1. IdleWorker \in Workers /\ Go("await") \in Workers
      BY TypesNext DEF WorkerPoints
    <3>. QED  BY <1>8, <3>1 DEF JobPutsFrame
  <2>3. episode' \in Episodes
    <3>1. RetainedChunk \in Inputs /\ episode.raw \in Inputs
      BY <2>1, TypesObserved DEF RetainedChunk, Episodes
    <3>2. [episode EXCEPT !.phase = "awaiting",
                          !.raw = IF worker.resume THEN @ ELSE RetainedChunk] \in Episodes
      BY <2>1, <3>1 DEF Episodes
    <3>. QED  BY <1>8, <2>1, <3>2 DEF JobPutsFrame
  <2>4. frame' \in FramesOut
    BY <1>8, <2>1 DEF JobPutsFrame, FramesOut, Workers
  <2>5. applied' \in Nat /\ loss' \in [revision : Nat, life : Nat, acknowledged : Nat]
    BY <1>8, <2>1 DEF JobPutsFrame, Episodes, Types, InputTypes, WorkTypes
  <2>6. analyzed' \in Nat
    BY <1>8, <2>1 DEF JobPutsFrame, CoveredRevision, Episodes, Workers, Types, InputTypes
  <2>. QED  BY <1>8, <2>2, <2>3, <2>4, <2>5, <2>6
            DEF JobPutsFrame, Types, LifecycleTypes, InputTypes, WorkTypes, DeliveryTypes
<1>9. CASE JobAcquires
  <2>1. worker \in Workers /\ episode \in Episodes /\ NoInput \in Inputs
    BY TypesObserved DEF Types, WorkTypes
  <2>2. ASSUME NEW input \in Inputs
        PROVE  [worker EXCEPT !.pc = "chunk", !.input = input] \in Workers
    BY <2>1 DEF Workers, WorkerPoints
  <2>3. episode' \in Episodes
    BY <1>9, <2>1 DEF JobAcquires, Episodes
  <2>4. CASE episode.phase = "recovering" /\ episode.raw # NoInput
    <3>1. episode.raw \in Inputs
      BY <2>1 DEF Episodes
    <3>2. worker' \in Workers
      BY <1>9, <2>2, <2>4, <3>1 DEF JobAcquires
    <3>. QED  BY <1>9, <2>3, <2>4, <3>2
              DEF JobAcquires, Types, LifecycleTypes, InputTypes, WorkTypes, DeliveryTypes
  <2>5. CASE /\ ~(episode.phase = "recovering" /\ episode.raw # NoInput)
             /\ worker' = [Go("meters") EXCEPT !.turn = 0] /\ raw' = raw
    <3>1. worker' = [Go("meters") EXCEPT !.turn = 0] /\ raw' = raw
      BY <2>5
    <3>2. worker' \in Workers
      BY <2>1, <3>1 DEF Go, Workers, WorkerPoints
    <3>. QED  BY <1>9, <2>3, <3>1, <3>2
              DEF JobAcquires, Types, LifecycleTypes, InputTypes, WorkTypes, DeliveryTypes
  <2>6. CASE \E i \in DOMAIN raw :
                 /\ worker' = [worker EXCEPT !.pc = "chunk", !.input = raw[i]]
                 /\ raw' = RemoveAt(raw, i)
    <3>1. PICK k \in DOMAIN raw :
              /\ worker' = [worker EXCEPT !.pc = "chunk", !.input = raw[k]]
              /\ raw' = RemoveAt(raw, k)
      BY <2>6
    <3>2. raw \in Seq(Inputs)
      BY DEF Types, InputTypes
    <3>3. raw[k] \in Inputs
      BY <3>2
    <3>4. raw' \in Seq(Inputs)
      BY <3>1, <3>2, RemoveElements
    <3>5. worker' \in Workers
      BY <2>2, <3>1, <3>3
    <3>. QED  BY <1>9, <2>3, <3>4, <3>5
              DEF JobAcquires, Types, LifecycleTypes, InputTypes, WorkTypes, DeliveryTypes
  <2>. QED  BY <1>9, <2>4, <2>5, <2>6 DEF JobAcquires
<1>10. CASE JobTakesChunk
  <2>1. /\ Observed \in Nat /\ worker.input \in Inputs /\ NoInput \in Inputs
        /\ NextTurn \in Workers
    BY TypesObserved, TypesNext
  <2>2. CASE BeginsEpisode(Observed, worker.input, NoInput)
    BY <1>10, <2>1, <2>2, TypesBegins
       DEF JobTakesChunk, Types, LifecycleTypes, InputTypes, WorkTypes, DeliveryTypes
  <2>3. CASE /\ Ignored(NextTurn) \/ Analysed(NextTurn)
             /\ UNCHANGED <<active, current, counter, applied, markers>>
    <3>1. WorkTypes'
      BY <2>1, <2>3, TypesAnalysed
    <3>. QED  BY <1>10, <2>3, <3>1
              DEF JobTakesChunk, Types, LifecycleTypes, InputTypes, WorkTypes, DeliveryTypes
  <2>. QED  BY <1>10, <2>2, <2>3 DEF JobTakesChunk
<1>11. CASE JobTakesReading
  <2>1. worker \in Workers /\ episode \in Episodes /\ NoInput \in Inputs
        /\ meter \in Inputs /\ episode.meter \in Inputs
    BY TypesObserved DEF Types, WorkTypes, InputTypes, Episodes
  <2>2. ASSUME NEW input \in Inputs
        PROVE  [worker EXCEPT !.pc = "reading", !.input = input] \in Workers
    BY <2>1 DEF Workers, WorkerPoints
  <2>3. worker' \in Workers
    BY <1>11, <2>1, <2>2 DEF JobTakesReading
  <2>4. [episode EXCEPT !.meter = NoInput] \in Episodes
    BY <2>1 DEF Episodes
  <2>5. episode' \in Episodes /\ meter' \in Inputs
    BY <1>11, <2>1, <2>4 DEF JobTakesReading
  <2>. QED  BY <1>11, <2>3, <2>5
            DEF JobTakesReading, Types, LifecycleTypes, InputTypes, WorkTypes, DeliveryTypes
<1>12. CASE JobUsesReading
  <2> DEFINE kept == IF worker.input.revision >= Observed THEN worker.input ELSE NoInput
  <2>1. /\ Observed \in Nat /\ kept \in Inputs /\ NoInput \in Inputs
        /\ WithoutReading \in Workers
    BY TypesObserved, TypesNext
  <2>2. CASE BeginsEpisode(Observed, NoInput, kept)
    BY <1>12, <2>1, <2>2, TypesBegins
       DEF JobUsesReading, Types, LifecycleTypes, InputTypes, WorkTypes, DeliveryTypes
  <2>3. CASE /\ Ignored(WithoutReading) \/ Analysed(WithoutReading)
             /\ UNCHANGED <<active, current, counter, applied, markers>>
    <3>1. WorkTypes'
      BY <2>1, <2>3, TypesAnalysed
    <3>. QED  BY <1>12, <2>3, <3>1
              DEF JobUsesReading, Types, LifecycleTypes, InputTypes, WorkTypes, DeliveryTypes
  <2>. QED  BY <1>12, <2>2, <2>3 DEF JobUsesReading
<1>13. CASE JobFinishes
  <2>1. worker \in Workers /\ episode \in Episodes /\ IdleWorker \in Workers
    BY TypesNext DEF Types, WorkTypes
  <2>2. worker' \in Workers /\ episode' \in Episodes
    BY <1>13, <2>1 DEF JobFinishes, Workers, WorkerPoints, Uses, Episodes
  <2>3. analyzed' \in Nat
    BY <1>13, <2>1 DEF JobFinishes, Workers, Types, InputTypes
  <2>. QED  BY <1>13, <2>2, <2>3
            DEF JobFinishes, Types, LifecycleTypes, InputTypes, WorkTypes, DeliveryTypes
<1>. QED  BY <1>1, <1>2, <1>3, <1>4, <1>5, <1>6, <1>7, <1>8, <1>9, <1>10, <1>11, <1>12, <1>13
          DEF WorkerSteps

\* The message thread keeps the types
LEMMA TypesMessage ==
    ASSUME Types, MessageSteps \/ Discard
    PROVE  Types'
<1> USE DEF captureVars, workVars
<1>1. InputTypes' /\ WorkTypes'
  BY DEF Types, InputTypes, WorkTypes, MessageSteps, Tick, TakeFrame, CheckFrame, AckFrame,
         TakeMarker, CheckMarker, AckMarker, DiscardColumns, Discard
<1>2. LifecycleTypes'
  BY DEF Types, LifecycleTypes, MessageSteps, Tick, TakeFrame, CheckFrame, AckFrame,
         TakeMarker, CheckMarker, AckMarker, DiscardColumns, Discard
<1>3. message.held \in FramesOut /\ IdleMessage.held \in FramesOut /\ frame \in FramesOut
  BY DEF Types, DeliveryTypes, IdleMessage, NoFrame, FramesOut
<1>4. CASE Tick
  BY <1>1, <1>2, <1>4 DEF Tick, Types, DeliveryTypes
<1>5. CASE TakeFrame
  BY <1>1, <1>2, <1>3, <1>5 DEF TakeFrame, Types, DeliveryTypes, NoFrame, FramesOut
<1>6. CASE CheckFrame \/ CheckMarker
  <2>1. message' \in [pc : {"idle", "checkFrame", "ackFrame", "checkMarker", "ackMarker",
                            "discard"}, held : FramesOut]
    BY <1>3, <1>6 DEF CheckFrame, CheckMarker, IdleMessage, Types, DeliveryTypes
  <2>2. message.held.generation \in Nat
    BY <1>3 DEF FramesOut
  <2>3. seen' \in [frames : SUBSET Nat, markers : SUBSET Nat, lost : BOOLEAN]
    BY <1>6, <2>2 DEF CheckFrame, CheckMarker, Types, DeliveryTypes
  <2>. QED  BY <1>1, <1>2, <1>6, <2>1, <2>3 DEF CheckFrame, CheckMarker, Types, DeliveryTypes
<1>7. CASE AckFrame \/ AckMarker
  <2>1. awaiting' \in [frame : Nat, marker : Nat]
    BY <1>7 DEF AckFrame, AckMarker, AckOf, Types, DeliveryTypes
  <2>2. message' \in [pc : {"idle", "checkFrame", "ackFrame", "checkMarker", "ackMarker",
                            "discard"}, held : FramesOut]
    BY <1>3, <1>7 DEF AckFrame, AckMarker, IdleMessage
  <2>. QED  BY <1>1, <1>2, <1>7, <2>1, <2>2 DEF AckFrame, AckMarker, Types, DeliveryTypes
<1>8. CASE TakeMarker
  <2>1. PICK g \in markers :
            /\ message' = [pc |-> "checkMarker", held |-> [generation |-> g, boundary |-> TRUE]]
            /\ markers' = markers \ {g}
    BY <1>8 DEF TakeMarker
  <2>2. [generation |-> g, boundary |-> TRUE] \in FramesOut
    BY DEF FramesOut, Types, DeliveryTypes
  <2>. QED  BY <1>1, <1>2, <1>8, <2>1, <2>2 DEF TakeMarker, Types, DeliveryTypes
<1>9. CASE Discard
  <2>1. [generation |-> awaiting.marker, boundary |-> FALSE] \in FramesOut
    BY DEF FramesOut, Types, DeliveryTypes
  <2>. QED  BY <1>1, <1>2, <1>9, <2>1 DEF Discard, Types, DeliveryTypes
<1>10. CASE DiscardColumns
  <2>1. PICK lost \in BOOLEAN : seen' = [seen EXCEPT !.lost = lost]
    BY <1>10 DEF DiscardColumns, Types, DeliveryTypes
  <2>2. seen' \in [frames : SUBSET Nat, markers : SUBSET Nat, lost : BOOLEAN]
    BY <2>1 DEF Types, DeliveryTypes
  <2>3. message' \in [pc : {"idle", "checkFrame", "ackFrame", "checkMarker", "ackMarker",
                            "discard"}, held : FramesOut]
    BY <1>3, <1>10 DEF DiscardColumns, IdleMessage
  <2>. QED  BY <1>1, <1>2, <1>10, <2>2, <2>3 DEF DiscardColumns, Types, DeliveryTypes
<1>. QED  BY <1>4, <1>5, <1>6, <1>7, <1>8, <1>9, <1>10 DEF MessageSteps

LifecycleSteps ==
    \/ \E op \in Changes : CloseGeneration(op)
    \/ Reconfigure \/ ChangeSteps

\* A change of lifecycle keeps the types
LEMMA TypesChange ==
    ASSUME Types, LifecycleSteps
    PROVE  Types'
<1> USE DEF captureVars, workVars
<1>1. Steady \in Episodes /\ NoInput \in Inputs /\ NothingAwaited \in [frame : Nat, marker : Nat]
      /\ NothingSeen \in [frames : SUBSET Nat, markers : SUBSET Nat, lost : BOOLEAN]
  BY DEF Steady, NoInput, Episodes, Inputs, NothingAwaited, NothingSeen
<1>2. CASE \E op \in Changes : CloseGeneration(op)
  <2>1. PICK op \in Changes : CloseGeneration(op)
    BY <1>2
  <2>. QED  BY <2>1 DEF CloseGeneration, Types, LifecycleTypes, InputTypes, WorkTypes,
                        DeliveryTypes
<1>3. CASE CloseLifecycle \/ Reconfigure \/ CancelJobs
  <2>1. InputTypes' /\ WorkTypes' /\ DeliveryTypes'
    BY <1>3 DEF CloseLifecycle, Reconfigure, CancelJobs, Types, InputTypes, WorkTypes,
                DeliveryTypes
  <2>2. CASE CloseLifecycle
    BY <2>1, <2>2 DEF CloseLifecycle, Types, LifecycleTypes
  <2>3. CASE Reconfigure
    BY <2>1, <2>3 DEF Reconfigure, Changes, Types, LifecycleTypes
  <2>4. CASE CancelJobs
    BY <2>1, <2>4 DEF CancelJobs, Types, LifecycleTypes
  <2>. QED  BY <1>3, <2>2, <2>3, <2>4
<1>4. CASE Deactivates
  <2>1. LifecycleTypes'
    BY <1>4 DEF Deactivates, Done, Types, LifecycleTypes
  <2>2. WorkTypes' /\ InputTypes'
    BY <1>1, <1>4 DEF Deactivates, Types, WorkTypes, InputTypes
  <2>3. DeliveryTypes'
    BY <1>1, <1>4 DEF Deactivates, Types, DeliveryTypes
  <2>. QED  BY <2>1, <2>2, <2>3 DEF Types
<1>5. CASE Begins
  <2>1. counter' \in Nat /\ counter' = counter + 1 /\ Published(counter + 1) \in Nat
    BY <1>5, TypesObserved DEF Begins, Types, LifecycleTypes
  <2>2. LifecycleTypes'
    BY <1>5, <2>1 DEF Begins, Types, LifecycleTypes
  <2>3. loss' \in [revision : Nat, life : Nat, acknowledged : Nat] /\ applied' \in Nat
    BY <1>5, <2>1 DEF Begins, Types, InputTypes
  <2>4. raw' \in Seq(Inputs)
    BY <1>5 DEF Begins, Types, InputTypes
  <2>5. WorkTypes'
    BY <1>1, <1>5, <2>3 DEF Begins, Types, WorkTypes
  <2>6. InputTypes'
    BY <1>1, <1>5, <2>3, <2>4 DEF Begins, Types, InputTypes
  <2>7. frame' \in FramesOut
    BY <1>5, <2>1 DEF Begins, FramesOut
  <2>8. DeliveryTypes'
    BY <1>1, <1>5, <2>7 DEF Begins, Types, DeliveryTypes
  <2>. QED  BY <2>2, <2>5, <2>6, <2>8 DEF Types
<1>6. CASE Opens
  BY <1>6 DEF Opens, Done, Types, LifecycleTypes, InputTypes, WorkTypes, DeliveryTypes
<1>7. CASE Reconfigured
  <2>1. frame' \in FramesOut
    BY <1>7 DEF Reconfigured, FrameAfterReconfiguration, FramesOut, Types, LifecycleTypes,
                DeliveryTypes
  <2>. QED  BY <1>7, <2>1 DEF Reconfigured, Done, Types, LifecycleTypes, InputTypes,
                              WorkTypes, DeliveryTypes
<1>. QED  BY <1>2, <1>3, <1>4, <1>5, <1>6, <1>7 DEF LifecycleSteps, ChangeSteps

-----------------------------------------------------------------------------
(***************************************************************************)
(* The steps of a job: it starts, begins an episode, or goes on for the      *)
(* generation it has been admitted with.                                   *)
(***************************************************************************)
EpisodeBegins ==
    /\ MayBegin /\ WinsGeneration
    /\ worker.pc \notin {"idle", "start"}
    /\ counter' = counter + 1
    /\ active' = [active EXCEPT !.capture = counter + 1]
    /\ current' = [current EXCEPT !.capture = counter + 1]
    /\ worker'.pc = "marker" /\ worker'.life = worker.life
    /\ worker'.capture = counter + 1
    /\ UNCHANGED <<job, change>>

Admitted == /\ worker.life = active.life /\ worker.capture = active.capture
            /\ active.life # 0 /\ active.capture # 0

GoesOn ==
    /\ UNCHANGED <<active, current, counter, change, job>>
    /\ worker.pc # "idle"
    /\ \/ worker'.pc = "idle"
       \/ /\ worker'.life = worker.life /\ worker'.capture = worker.capture
          /\ worker'.pc # "start"
          /\ worker.pc = "start" => Admitted

\* An episode begins or the job ends
LEMMA BeginsOrEnds ==
    ASSUME Types, NEW r, NEW chunk, NEW reading, BeginsEpisode(r, chunk, reading),
           worker.pc \notin {"idle", "start"}, UNCHANGED <<job, change>>
    PROVE  EpisodeBegins \/ GoesOn
<1>1. CASE MayBegin /\ WinsGeneration
  BY <1>1 DEF BeginsEpisode, EpisodeBegins, Types, WorkTypes, Workers
<1>2. CASE ~(MayBegin /\ WinsGeneration)
  BY <1>2 DEF BeginsEpisode, GoesOn, IdleWorker
<1>. QED  BY <1>1, <1>2

\* Analysing or ignoring an input, a job goes on
LEMMA TurnGoesOn ==
    ASSUME Types, worker.pc \notin {"idle", "start"}, NEW next \in {NextTurn, WithoutReading},
           Ignored(next) \/ Analysed(next),
           UNCHANGED <<active, current, counter, change, job>>
    PROVE  GoesOn
<1>1. /\ next.life = worker.life /\ next.capture = worker.capture
      /\ next.pc \notin {"idle", "start"} /\ next \in Workers
  <2>1. CASE next = NextTurn
    BY <2>1, TypesNext DEF NextTurn, Types, WorkTypes, Workers
  <2>2. CASE next = WithoutReading
    BY <2>2, TypesNext DEF WithoutReading, Types, WorkTypes, Workers
  <2>. QED  BY <2>1, <2>2
<1>2. CASE Ignored(next)
  BY <1>1, <1>2 DEF Ignored, GoesOn
<1>3. CASE Analysed(next)
  BY <1>1, <1>3 DEF Analysed, GoesOn, Workers
<1>. QED  BY <1>2, <1>3

\* Every step of the worker is one of the three
LEMMA WorkerCases ==
    ASSUME Types, WorkerSteps \/ MarkerRefused
    PROVE  JobStarts \/ EpisodeBegins \/ GoesOn
<1>0. worker \in Workers
  BY DEF Types, WorkTypes
<1>1. CASE JobEnters
  <2>1. CASE ~(JobValid /\ CaptureActive)
    BY <1>1, <2>1 DEF JobEnters, GoesOn, IdleWorker
  <2>2. CASE JobValid /\ CaptureActive
    <3>1. Admitted
      BY <2>2 DEF JobValid, LifeHolds, CaptureHolds, CaptureActive, Admitted
    <3>2. worker'.life = worker.life /\ worker'.capture = worker.capture /\ worker'.pc # "start"
      BY <1>0, <1>1, <2>2 DEF JobEnters, Go, Workers
    <3>. QED  BY <1>1, <3>1, <3>2 DEF JobEnters, GoesOn
  <2>. QED  BY <2>1, <2>2
<1>2. CASE JobAwaits \/ JobAwaitsMarker \/ JobPutsMarker \/ MarkerRefused
  BY <1>0, <1>2 DEF JobAwaits, JobAwaitsMarker, JobPutsMarker, MarkerRefused, GoesOn, Go,
                    IdleWorker, Workers
<1>3. CASE JobChecksFrame \/ JobPutsFrame \/ JobFinishes
  <2>1. CASE JobChecksFrame
    BY <1>0, <2>1 DEF JobChecksFrame, GoesOn, Go, IdleWorker, Workers
  <2>2. CASE JobPutsFrame
    BY <1>0, <2>2 DEF JobPutsFrame, GoesOn, Go, IdleWorker, Workers
  <2>3. CASE JobFinishes
    BY <1>0, <2>3 DEF JobFinishes, GoesOn, IdleWorker, Workers
  <2>. QED  BY <1>3, <2>1, <2>2, <2>3
<1>4. CASE JobAcquires
  <2>1. /\ worker'.life = worker.life /\ worker'.capture = worker.capture
        /\ worker'.pc \in {"chunk", "meters"}
    BY <1>0, <1>4 DEF JobAcquires, Go, Workers
  <2>. QED  BY <1>4, <2>1 DEF JobAcquires, GoesOn
<1>5. CASE JobTakesReading
  BY <1>0, <1>5 DEF JobTakesReading, GoesOn, Workers
<1>6. CASE JobAdvances
  <2>1. CASE BeginsEpisode(Published(worker.life), NoInput, NoInput)
    BY <1>6, <2>1, BeginsOrEnds DEF JobAdvances
  <2>2. CASE /\ worker' = Go(IF worker.pc = "meters" THEN "meter" ELSE "acquire")
             /\ UNCHANGED <<active, current, counter, applied, content, markers>>
    BY <1>0, <1>6, <2>2 DEF JobAdvances, GoesOn, Go, Workers
  <2>. QED  BY <1>6, <2>1, <2>2 DEF JobAdvances
<1>7. CASE JobTakesChunk
  <2>1. worker.pc = "chunk" /\ UNCHANGED <<job, change>>
    BY <1>7 DEF JobTakesChunk
  <2>2. CASE BeginsEpisode(Observed, worker.input, NoInput)
    BY <2>1, <2>2, BeginsOrEnds
  <2>3. CASE /\ Ignored(NextTurn) \/ Analysed(NextTurn)
             /\ UNCHANGED <<active, current, counter, applied, markers>>
    BY <2>1, <2>3, TurnGoesOn
  <2>. QED  BY <1>7, <2>2, <2>3 DEF JobTakesChunk
<1>8. CASE JobUsesReading
  <2> DEFINE kept == IF worker.input.revision >= Observed THEN worker.input ELSE NoInput
  <2>1. worker.pc = "reading" /\ UNCHANGED <<job, change>>
    BY <1>8 DEF JobUsesReading
  <2>2. CASE BeginsEpisode(Observed, NoInput, kept)
    BY <2>1, <2>2, BeginsOrEnds
  <2>3. CASE /\ Ignored(WithoutReading) \/ Analysed(WithoutReading)
             /\ UNCHANGED <<active, current, counter, applied, markers>>
    BY <2>1, <2>3, TurnGoesOn
  <2>. QED  BY <1>8, <2>2, <2>3 DEF JobUsesReading
<1>. QED  BY <1>1, <1>2, <1>3, <1>4, <1>5, <1>6, <1>7, <1>8 DEF WorkerSteps

-----------------------------------------------------------------------------
(***************************************************************************)
(* Lifecycles.                                                             *)
(***************************************************************************)
\* Steps of the audio thread and of the message thread have no part in them
LEMMA LifecyclesOthers ==
    ASSUME Types, Lifecycles, BlockAdmits \/ AudioSteps \/ MessageSteps \/ Discard
    PROVE  Lifecycles'
<1> USE DEF captureVars, workVars
<1>1. CASE Tick
  <2>1. UNCHANGED <<active, current, counter, worker, change>> /\ change.op = "none"
    BY <1>1 DEF Tick
  <2>2. change.pc = "none"
    BY <2>1 DEF Lifecycles, ChangeControl
  <2>. QED  BY <2>1, <2>2 DEF Lifecycles, ChangeControl, Generations, Closing
<1>2. CASE BlockAdmits \/ AudioSteps \/ (MessageSteps /\ ~Tick) \/ Discard
  <2>1. UNCHANGED <<active, current, counter, worker, change, job>>
    BY <1>2 DEF BlockAdmits, AudioSteps, BlockPublishes, BlockStores, BlockCounts,
                MessageSteps, TakeFrame, CheckFrame, AckFrame, TakeMarker, CheckMarker,
                AckMarker, DiscardColumns, Discard
  <2>. QED  BY <2>1 DEF Lifecycles, ChangeControl, Generations, Closing
<1>. QED  BY <1>1, <1>2 DEF MessageSteps

\* A job works for the current generation, and wins none from a change
LEMMA LifecyclesWorker ==
    ASSUME Types, Lifecycles, WorkerSteps \/ MarkerRefused
    PROVE  Lifecycles'
<1>1. CASE JobStarts
  <2>1. /\ UNCHANGED <<active, current, counter, change>> /\ job.requested
        /\ job' = [job EXCEPT !.requested = FALSE]
        /\ worker'.pc = "start" /\ worker'.life = current.life
        /\ worker'.capture = current.capture
    BY <1>1 DEF JobStarts, IdleWorker
  <2>2. change.pc \notin {"wait", "open"} /\ ~job'.requested
    BY <2>1 DEF Lifecycles, ChangeControl, Types, LifecycleTypes
  <2>. QED  BY <2>1, <2>2 DEF Lifecycles, ChangeControl, Generations, Closing
<1>2. CASE EpisodeBegins
  <2>1. worker.capture # 0 /\ active.capture # 0 /\ change.pc # "open" /\ worker.life # 0
        /\ worker.life = current.life
    BY <1>2 DEF EpisodeBegins, WinsGeneration, Lifecycles, ChangeControl, Generations
  <2>2. change.op \notin Closing
    BY <2>1 DEF Lifecycles, ChangeControl
  <2>3. /\ active'.capture = counter + 1 /\ active'.life = active.life
        /\ current'.capture = counter + 1 /\ current'.life = current.life
        /\ counter + 1 # 0 /\ counter' = counter + 1
        /\ counter + 1 <= counter' /\ \A n \in Nat : n <= counter => n <= counter'
    BY <1>2 DEF EpisodeBegins, Types, LifecycleTypes
  <2>4. ChangeControl'
    BY <1>2, <2>1, <2>2 DEF EpisodeBegins, Lifecycles, ChangeControl
  <2>5. current.life \in Nat
    BY DEF Types, LifecycleTypes
  <2>6. Generations'
    BY <1>2, <2>1, <2>3, <2>5 DEF EpisodeBegins, Lifecycles, Generations
  <2>. QED  BY <2>4, <2>6 DEF Lifecycles
<1>3. CASE GoesOn
  BY <1>3 DEF GoesOn, Admitted, Lifecycles, ChangeControl, Generations, Closing
<1>. QED  BY <1>1, <1>2, <1>3, WorkerCases

\* A change takes the generation away before anything else
LEMMA LifecyclesChange ==
    ASSUME Types, Lifecycles, LifecycleSteps
    PROVE  Lifecycles'
<1> USE DEF captureVars, workVars
<1>1. CASE \E op \in Changes : CloseGeneration(op)
  <2>1. PICK op \in Changes : CloseGeneration(op)
    BY <1>1
  <2>2. /\ UNCHANGED <<current, counter, worker, job>> /\ change' = [op |-> op, pc |-> "close"]
        /\ active' = [active EXCEPT !.capture = 0] /\ op # "reconfigure" /\ op # "none"
    BY <2>1 DEF CloseGeneration, Changes
  <2>3. active'.capture = 0 /\ active'.life = active.life /\ 0 <= counter
    BY <2>2 DEF Types, LifecycleTypes
  <2>. QED  BY <2>2, <2>3 DEF Lifecycles, ChangeControl, Generations, Closing
<1>2. CASE CloseLifecycle
  <2>1. /\ active'.capture = active.capture /\ active'.life = 0
        /\ change'.op = change.op /\ change'.pc = "cancel" /\ change.pc = "close"
        /\ UNCHANGED <<current, counter, worker, job>>
    BY <1>2 DEF CloseLifecycle, Types, LifecycleTypes
  <2>. QED  BY <2>1 DEF Lifecycles, ChangeControl, Generations, Closing
<1>3. CASE Reconfigure
  BY <1>3 DEF Reconfigure, Lifecycles, ChangeControl, Generations, Closing
<1>4. CASE CancelJobs
  <2>1. /\ change'.op = change.op /\ change'.pc = "wait" /\ change.pc = "cancel"
        /\ ~job'.requested /\ UNCHANGED <<active, current, counter, worker>>
    BY <1>4 DEF CancelJobs, Types, LifecycleTypes
  <2>. QED  BY <2>1 DEF Lifecycles, ChangeControl, Generations, Closing
<1>5. CASE Deactivates
  <2>1. /\ change.op = "deactivate" /\ change.pc = "wait" /\ worker.pc = "idle"
        /\ change' = [op |-> "none", pc |-> "none"]
        /\ current'.capture = 0 /\ current'.life = 0 /\ 0 <= counter
        /\ UNCHANGED <<active, counter, worker, job>>
    BY <1>5 DEF Deactivates, Waited, Done, Types, LifecycleTypes
  <2>. QED  BY <2>1 DEF Lifecycles, ChangeControl, Generations, Closing
<1>6. CASE Begins
  <2>1. /\ change.op \in {"activate", "format"} /\ change.pc = "wait" /\ worker.pc = "idle"
        /\ change'.op = change.op /\ change'.pc = "open"
        /\ counter' = counter + 1 /\ \A n \in Nat : n <= counter => n <= counter'
        /\ UNCHANGED <<active, current, worker, job>>
    BY <1>6 DEF Begins, Types, LifecycleTypes
  <2>2. active.capture \in Nat /\ current.capture \in Nat /\ current.life \in Nat
    BY DEF Types, LifecycleTypes
  <2>. QED  BY <2>1, <2>2 DEF Lifecycles, ChangeControl, Generations, Closing
<1>7. CASE Opens
  <2>1. /\ worker.pc = "idle" /\ counter <= counter
        /\ change' = [op |-> "none", pc |-> "none"]
        /\ current' = [capture |-> counter, life |-> counter, job |-> job.generation]
        /\ active' = [capture |-> counter, life |-> counter]
        /\ UNCHANGED <<counter, worker, job>>
    BY <1>7 DEF Opens, Done, Lifecycles, ChangeControl, Types, LifecycleTypes
  <2>. QED  BY <2>1 DEF Lifecycles, ChangeControl, Generations, Closing
<1>8. CASE Reconfigured
  <2>1. /\ change' = [op |-> "none", pc |-> "none"] /\ change.pc = "wait"
        /\ current'.capture = current.capture /\ current'.life = current.life
        /\ UNCHANGED <<active, counter, worker>>
    BY <1>8 DEF Reconfigured, Waited, Done, Types, LifecycleTypes
  <2>. QED  BY <2>1 DEF Lifecycles, ChangeControl, Generations, Closing
<1>. QED  BY <1>1, <1>2, <1>3, <1>4, <1>5, <1>6, <1>7, <1>8 DEF LifecycleSteps, ChangeSteps

-----------------------------------------------------------------------------
(***************************************************************************)
(* The producer.                                                           *)
(***************************************************************************)
\* Naturals, as the steps of the producer and of the lifecycles use them
LEMMA NatFacts ==
    \A x, y, z \in Nat :
        /\ x <= y => x <= y + 1
        /\ x <= y /\ y <= z => x <= z
        /\ x <= y + 0 => x <= y
        /\ y <= y + 1 /\ x <= x /\ 0 <= x
        /\ x <= y => x < y + 1
OBVIOUS

\* The producer enters lifecycles in order and announces one revision at a time
LEMMA ProducingAudio ==
    ASSUME Types, Lifecycles, Producing, BlockAdmits \/ AudioSteps
    PROVE  Producing'
<1> USE DEF captureVars, workVars
<1>0. /\ counter \in Nat /\ current.life \in Nat /\ active.life \in Nat /\ captured \in Nat
      /\ loss.life \in Nat /\ loss.revision \in Nat /\ block.life \in Nat /\ block \in Blocks
      /\ loss.acknowledged \in Nat
  BY DEF Types, LifecycleTypes, InputTypes, Blocks
<1>1. CASE BlockAdmits
  <2>1. /\ block'.pc = "publish" /\ block'.life = active.life /\ active.life # 0
        /\ block.pc = "idle" /\ UNCHANGED <<current, counter, captured, loss>>
    BY <1>1 DEF BlockAdmits, NoBlock, CaptureActive
  <2>2. active.life = current.life /\ active.life <= counter
    BY <2>1 DEF Lifecycles, Generations
  <2>. QED  BY <1>0, <2>1, <2>2, NatFacts DEF Producing
<1>2. CASE BlockPublishes
  <2> DEFINE entered == Entered(block.life)
             full == Len(entered.raw) + Held >= SlotCount
             dropped == full /\ entered.raw = << >>
             revision == IF full THEN LossRevision(entered.revision) ELSE entered.revision
  <2>1. /\ loss' = [loss EXCEPT !.life = block.life, !.revision = revision]
        /\ block' = [block EXCEPT !.pc = "store", !.dropped = dropped,
                                  !.input = [life |-> block.life, revision |-> revision]]
        /\ block.pc = "publish" /\ UNCHANGED <<current, counter, captured>>
    BY <1>2 DEF BlockPublishes
  <2>2. loss.revision <= captured
    BY <1>0, <2>1, NatFacts DEF Producing
  <2>3. revision <= captured + 1
    <3>1. entered.revision \in Nat /\ entered.revision <= captured
      BY <1>0, <2>2 DEF Entered
    <3>2. LossRevision(entered.revision) \in {captured + 1, entered.revision}
      BY DEF LossRevision
    <3>. QED  BY <1>0, <3>1, <3>2
  <2> HIDE DEF entered, full, dropped, revision
  <2>4. loss'.life = block.life /\ loss'.revision = revision
    BY <2>1 DEF Types, InputTypes
  <2>5. block'.pc = "store" /\ block'.life = block.life
    BY <1>0, <2>1 DEF Blocks
  <2>. QED  BY <1>0, <2>1, <2>3, <2>4, <2>5, NatFacts DEF Producing
<1>3. CASE BlockStores
  <2>1. /\ block'.pc = "count" /\ block'.life = block.life /\ block.pc = "store"
        /\ UNCHANGED <<current, counter, captured, loss>>
    BY <1>0, <1>3 DEF BlockStores, Blocks
  <2>. QED  BY <2>1 DEF Producing
<1>4. CASE BlockCounts
  <2>1. /\ block'.pc = "idle" /\ block.pc = "count" /\ captured' = captured + 1
        /\ UNCHANGED <<current, counter, loss>>
    BY <1>4 DEF BlockCounts, NoBlock
  <2>2. loss.revision <= captured' + 0
    BY <1>0, <2>1 DEF Producing
  <2>. QED  BY <2>1, <2>2 DEF Producing
<1>. QED  BY <1>1, <1>2, <1>3, <1>4 DEF AudioSteps

\* The other threads announce nothing
LEMMA LossKept ==
    ASSUME Types, WorkerSteps \/ MarkerRefused \/ MessageSteps \/ Discard \/ LifecycleSteps
    PROVE  /\ captured' = captured /\ block' = block
           /\ loss'.life = loss.life /\ loss'.revision = loss.revision
<1> USE DEF captureVars, workVars
<1>1. CASE JobPutsFrame
  BY <1>1 DEF JobPutsFrame, Types, InputTypes
<1>2. CASE Begins
  BY <1>2 DEF Begins, Types, InputTypes
<1>3. CASE (WorkerSteps /\ ~JobPutsFrame) \/ MarkerRefused
  BY <1>3 DEF WorkerSteps, MarkerRefused, JobStarts, JobEnters, JobAwaits, JobAdvances,
              JobAwaitsMarker, JobPutsMarker, JobChecksFrame, JobAcquires, JobTakesChunk,
              JobTakesReading, JobUsesReading, JobFinishes
<1>4. CASE MessageSteps \/ Discard
  BY <1>4 DEF MessageSteps, Discard, Tick, TakeFrame, CheckFrame, AckFrame, TakeMarker,
              CheckMarker, AckMarker, DiscardColumns
<1>5. CASE LifecycleSteps /\ ~Begins
  BY <1>5 DEF LifecycleSteps, ChangeSteps, CloseGeneration, Reconfigure, CloseLifecycle,
              CancelJobs, Deactivates, Opens, Reconfigured
<1>. QED  BY <1>1, <1>2, <1>3, <1>4, <1>5

\* A lifecycle that opens is the newest
LEMMA ProducingOthers ==
    ASSUME Types, Types', Lifecycles, Producing,
           WorkerSteps \/ MarkerRefused \/ MessageSteps \/ Discard \/ LifecycleSteps
    PROVE  Producing'
<1>0. /\ counter \in Nat /\ counter' \in Nat /\ block.life \in Nat /\ loss.life \in Nat
      /\ current.life \in Nat
  BY DEF Types, LifecycleTypes, InputTypes, Blocks
<1>1. /\ captured' = captured /\ block' = block
      /\ loss'.life = loss.life /\ loss'.revision = loss.revision
  BY LossKept
<1>2. counter' = counter \/ counter' = counter + 1
  <2>1. CASE WorkerSteps \/ MarkerRefused
    BY <2>1, WorkerCases DEF JobStarts, EpisodeBegins, GoesOn
  <2>2. CASE MessageSteps \/ Discard
    BY <2>2 DEF MessageSteps, Discard, Tick, TakeFrame, CheckFrame, AckFrame, TakeMarker,
                CheckMarker, AckMarker, DiscardColumns
  <2>3. CASE LifecycleSteps
    BY <2>3 DEF LifecycleSteps, ChangeSteps, CloseGeneration, Reconfigure, CloseLifecycle,
                CancelJobs, Deactivates, Begins, Opens, Reconfigured
  <2>. QED  BY <2>1, <2>2, <2>3
<1>3. current'.life \in {current.life, 0, counter}
  <2>1. CASE WorkerSteps \/ MarkerRefused
    BY <2>1, WorkerCases DEF JobStarts, EpisodeBegins, GoesOn, Types, LifecycleTypes
  <2>2. CASE MessageSteps \/ Discard
    BY <2>2 DEF MessageSteps, Discard, Tick, TakeFrame, CheckFrame, AckFrame, TakeMarker,
                CheckMarker, AckMarker, DiscardColumns
  <2>3. CASE LifecycleSteps
    <3>1. CASE Deactivates \/ Opens \/ Reconfigured
      <4>1. CASE Deactivates
        BY <4>1 DEF Deactivates, Types, LifecycleTypes
      <4>2. CASE Opens
        BY <4>2 DEF Opens
      <4>3. CASE Reconfigured
        BY <4>3 DEF Reconfigured, Types, LifecycleTypes
      <4>. QED  BY <3>1, <4>1, <4>2, <4>3
    <3>2. CASE CloseLifecycle \/ CancelJobs \/ Begins \/ Reconfigure
      BY <3>2 DEF CloseLifecycle, CancelJobs, Begins, Reconfigure
    <3>3. CASE \E op \in Changes : CloseGeneration(op)
      BY <3>3 DEF CloseGeneration
    <3>. QED  BY <2>3, <3>1, <3>2, <3>3 DEF LifecycleSteps, ChangeSteps
  <2>. QED  BY <2>1, <2>2, <2>3
<1>4. loss.life <= counter' /\ (block.pc # "idle" => block.life <= counter')
  BY <1>0, <1>2, NatFacts DEF Producing
<1>5. current'.life # 0 =>
          loss.life <= current'.life /\ (block.pc # "idle" => block.life <= current'.life)
  BY <1>3 DEF Producing
<1>. QED  BY <1>1, <1>4, <1>5 DEF Producing

-----------------------------------------------------------------------------
(***************************************************************************)
(* Stamps.                                                                 *)
(***************************************************************************)
\* No input bears no stamp, and a sequence stays one of a larger set
LEMMA StampFacts ==
    ASSUME Types
    PROVE  /\ NoInput \in Announced
           /\ \A S, T, s : S \subseteq T /\ s \in Seq(S) => s \in Seq(T)
<1>1. NoInput \in Announced
  BY DEF Announced, NoInput, Inputs, Types, InputTypes
<1>2. ASSUME NEW S, NEW T, NEW s, S \subseteq T, s \in Seq(S) PROVE s \in Seq(T)
  <2>1. Len(s) \in Nat /\ s = [k \in 1..Len(s) |-> s[k]] /\ \A k \in 1..Len(s) : s[k] \in S
    BY <1>2
  <2>2. \A k \in 1..Len(s) : s[k] \in T
    BY <1>2, <2>1
  <2>. QED  BY <2>1, <2>2
<1>. QED  BY <1>1, <1>2

\* What has been announced stays announced
LEMMA AnnouncedKept ==
    ASSUME Types, Lifecycles, Producing, Next
    PROVE  Announced \subseteq Announced'
<1>1. CASE loss'.life = loss.life /\ loss'.revision = loss.revision
  BY <1>1 DEF Announced
<1>2. CASE BlockPublishes
  <2> DEFINE entered == Entered(block.life)
             full == Len(entered.raw) + Held >= SlotCount
             revision == IF full THEN LossRevision(entered.revision) ELSE entered.revision
  <2>1. loss' = [loss EXCEPT !.life = block.life, !.revision = revision]
        /\ block.pc = "publish"
    BY <1>2 DEF BlockPublishes
  <2>2. /\ captured \in Nat /\ loss.life \in Nat /\ loss.revision \in Nat /\ block.life \in Nat
        /\ loss \in [revision : Nat, life : Nat, acknowledged : Nat]
    BY DEF Types, InputTypes, Blocks
  <2>3. loss.revision <= captured /\ loss.life <= block.life
    BY <2>1, <2>2, NatFacts DEF Producing
  <2>4. CASE loss.life = block.life
    <3>1. entered.revision = loss.revision
      BY <2>4 DEF Entered
    <3>2. revision \in {loss.revision, captured + 1}
      BY <3>1 DEF LossRevision
    <3> HIDE DEF revision
    <3>3. loss'.life = loss.life /\ loss'.revision = revision /\ loss.revision <= revision
          /\ revision \in Nat
      BY <2>1, <2>2, <2>3, <2>4, <3>2
    <3>. QED  BY <2>2, <3>3 DEF Announced, Inputs
  <2>5. CASE loss.life # block.life
    <3> HIDE DEF revision
    <3>1. loss'.life = block.life /\ loss.life < block.life
      BY <2>1, <2>2, <2>3, <2>5
    <3>. QED  BY <2>2, <3>1 DEF Announced, Inputs
  <2>. QED  BY <2>4, <2>5
<1>3. CASE BlockAdmits \/ BlockStores \/ BlockCounts
  BY <1>1, <1>3 DEF BlockAdmits, BlockStores, BlockCounts
<1>4. CASE WorkerSteps \/ MarkerRefused \/ MessageSteps \/ Discard \/ LifecycleSteps
  BY <1>1, <1>4, LossKept
<1>. QED  BY <1>2, <1>3, <1>4 DEF Next, AudioSteps, LifecycleSteps

\* The audio thread stamps a block with the revision it has announced
LEMMA StampedAudio ==
    ASSUME Types, Types', Lifecycles, Producing, Stamped, BlockAdmits \/ AudioSteps
    PROVE  Stamped'
<1> USE DEF captureVars, workVars
<1>1. Announced \subseteq Announced'
  BY AnnouncedKept DEF Next
<1>2. UNCHANGED <<worker, episode>>
  BY DEF BlockAdmits, AudioSteps, BlockPublishes, BlockStores, BlockCounts
<1>3. raw \in Seq(Announced) /\ meter \in Announced /\ block.input \in Announced
      /\ worker.input \in Announced /\ episode.raw \in Announced /\ episode.meter \in Announced
  BY DEF Stamped
<1>4. raw \in Seq(Announced') /\ NoInput \in Announced'
  BY <1>1, <1>3, StampFacts
<1>5. CASE BlockAdmits \/ BlockCounts
  <2>1. UNCHANGED <<raw, meter>> /\ block'.input = NoInput
    <3>1. CASE BlockAdmits
      BY <3>1 DEF BlockAdmits, NoBlock
    <3>2. CASE BlockCounts
      BY <3>2 DEF BlockCounts, NoBlock
    <3>. QED  BY <1>5, <3>1, <3>2
  <2>. QED  BY <1>1, <1>2, <1>3, <1>4, <2>1 DEF Stamped
<1>6. CASE BlockPublishes
  <2> DEFINE entered == Entered(block.life)
             full == Len(entered.raw) + Held >= SlotCount
             dropped == full /\ entered.raw = << >>
             revision == IF full THEN LossRevision(entered.revision) ELSE entered.revision
  <2>1. /\ raw' = IF full /\ ~dropped THEN Tail(entered.raw) ELSE entered.raw
        /\ loss' = [loss EXCEPT !.life = block.life, !.revision = revision]
        /\ block' = [block EXCEPT !.pc = "store", !.dropped = dropped,
                                  !.input = [life |-> block.life, revision |-> revision]]
        /\ meter' = meter
    BY <1>6 DEF BlockPublishes
  <2>2. entered.raw \in Seq(Announced) /\ (full /\ ~dropped => entered.raw # << >>)
    BY <1>3 DEF Entered
  <2> HIDE DEF entered, full, dropped, revision
  <2>3. raw' \in Seq(Announced)
    BY <2>1, <2>2
  <2>4. raw' \in Seq(Announced')
    BY <1>1, <2>3, StampFacts
  <2>5. /\ loss'.life = block.life /\ loss'.revision = revision
        /\ block'.input = [life |-> block.life, revision |-> revision]
    BY <2>1 DEF Types, InputTypes, Blocks
  <2>6. loss'.life \in Nat /\ loss'.revision \in Nat
    BY DEF Types, InputTypes
  <2>7. block'.input \in Announced'
    BY <2>5, <2>6 DEF Announced, Inputs
  <2>. QED  BY <1>1, <1>2, <1>3, <2>1, <2>4, <2>7 DEF Stamped
<1>7. CASE BlockStores
  <2>1. /\ raw' = IF block.dropped THEN raw ELSE Append(raw, block.input)
        /\ meter' = block.input /\ block' = [block EXCEPT !.pc = "count"]
    BY <1>7 DEF BlockStores
  <2>2. block'.input = block.input
    BY <2>1 DEF Types, InputTypes, Blocks
  <2>3. raw' \in Seq(Announced)
    BY <1>3, <2>1
  <2>4. raw' \in Seq(Announced')
    BY <1>1, <2>3, StampFacts
  <2>. QED  BY <1>1, <1>2, <1>3, <2>1, <2>2, <2>4 DEF Stamped
<1>. QED  BY <1>5, <1>6, <1>7 DEF AudioSteps

\* The input the worker holds: what it held, has taken, or nothing
InputsHeld ==
    /\ raw' \in Seq(Announced)
    /\ meter' \in Announced /\ worker'.input \in Announced
    /\ episode'.raw \in Announced /\ episode'.meter \in Announced

\* Beginning an episode, the worker holds no other input
LEMMA HeldBegins ==
    ASSUME Types, Stamped, NEW r, NEW chunk \in Announced, NEW reading \in Announced,
           BeginsEpisode(r, chunk, reading), UNCHANGED <<raw, meter>>
    PROVE  InputsHeld
<1>1. NoInput \in Announced
  BY StampFacts
<1>2. CASE MayBegin /\ WinsGeneration
  <2>1. /\ episode' = [Steady EXCEPT !.phase = "publishing", !.revision = r,
                                     !.generation = counter + 1, !.meter = reading]
        /\ worker' = [worker EXCEPT !.pc = "marker", !.use = "boundary",
                                    !.capture = counter + 1, !.input = chunk]
    BY <1>2 DEF BeginsEpisode
  <2>2. episode'.raw = NoInput /\ episode'.meter = reading /\ worker'.input = chunk
    BY <2>1 DEF Steady, Types, WorkTypes, Workers
  <2>. QED  BY <1>1, <2>2 DEF InputsHeld, Stamped
<1>3. CASE ~(MayBegin /\ WinsGeneration)
  <2>1. worker' = IdleWorker /\ episode' = [episode EXCEPT !.meter = reading]
    BY <1>3 DEF BeginsEpisode
  <2>2. worker'.input = NoInput /\ episode'.raw = episode.raw /\ episode'.meter = reading
    BY <2>1 DEF IdleWorker, Types, WorkTypes, Episodes
  <2>. QED  BY <1>1, <2>2 DEF InputsHeld, Stamped
<1>. QED  BY <1>2, <1>3

\* Having analysed or ignored an input, the worker holds none
LEMMA HeldAnalysed ==
    ASSUME Types, Stamped, NEW next \in {NextTurn, WithoutReading},
           Ignored(next) \/ Analysed(next), UNCHANGED <<raw, meter>>
    PROVE  InputsHeld
<1>1. NoInput \in Announced
  BY StampFacts
<1>2. next.input = NoInput /\ next \in Workers
  <2>1. CASE next = NextTurn
    BY <2>1, TypesNext DEF NextTurn, Types, WorkTypes, Workers
  <2>2. CASE next = WithoutReading
    BY <2>2, TypesNext DEF WithoutReading, Types, WorkTypes, Workers
  <2>. QED  BY <2>1, <2>2
<1>3. worker'.input = NoInput
  BY <1>2 DEF Ignored, Analysed, Workers
<1>4. episode'.raw = episode.raw /\ episode'.meter = episode.meter
  BY DEF Ignored, Analysed, Types, WorkTypes, Episodes
<1>. QED  BY <1>1, <1>3, <1>4 DEF InputsHeld, Stamped

\* Every step of the worker
LEMMA HeldWorker ==
    ASSUME Types, Stamped, WorkerSteps \/ MarkerRefused
    PROVE  InputsHeld
<1> USE DEF captureVars, workVars
<1>0. worker \in Workers /\ episode \in Episodes /\ NoInput \in Announced
  BY StampFacts DEF Types, WorkTypes
<1>1. raw \in Seq(Announced) /\ meter \in Announced /\ worker.input \in Announced
      /\ episode.raw \in Announced /\ episode.meter \in Announced
  BY DEF Stamped
<1>2. CASE JobStarts
  <2>1. worker'.input = NoInput /\ UNCHANGED <<raw, meter, episode>>
    BY <1>2 DEF JobStarts, IdleWorker
  <2>. QED  BY <1>0, <1>1, <2>1 DEF InputsHeld
<1>3. CASE JobEnters
  <2>1. worker'.input \in {worker.input, NoInput}
    BY <1>0, <1>3 DEF JobEnters, Go, IdleWorker, Workers
  <2>2. episode'.raw = episode.raw /\ episode'.meter = episode.meter /\ UNCHANGED <<raw, meter>>
    BY <1>0, <1>3 DEF JobEnters, Episodes
  <2>. QED  BY <1>0, <1>1, <2>1, <2>2 DEF InputsHeld
<1>4. CASE JobAwaits
  <2>1. worker'.input \in {worker.input, NoInput}
    BY <1>0, <1>4 DEF JobAwaits, Go, IdleWorker, Workers
  <2>2. episode'.raw = episode.raw /\ episode'.meter = episode.meter /\ UNCHANGED <<raw, meter>>
    BY <1>0, <1>4 DEF JobAwaits, Episodes
  <2>. QED  BY <1>0, <1>1, <2>1, <2>2 DEF InputsHeld
<1>5. CASE JobAdvances
  <2>1. CASE BeginsEpisode(Published(worker.life), NoInput, NoInput)
    BY <1>0, <1>5, <2>1, HeldBegins DEF JobAdvances
  <2>2. CASE /\ worker' = Go(IF worker.pc = "meters" THEN "meter" ELSE "acquire")
             /\ episode' = IF episode.phase = "steady" THEN episode ELSE
                    [episode EXCEPT !.revision = Later(@, Published(worker.life))]
    <3>1. worker'.input = worker.input
      BY <1>0, <2>2 DEF Go, Workers
    <3>2. episode'.raw = episode.raw /\ episode'.meter = episode.meter
      BY <1>0, <2>2 DEF Episodes
    <3>3. UNCHANGED <<raw, meter>>
      BY <1>5 DEF JobAdvances
    <3>. QED  BY <1>1, <3>1, <3>2, <3>3 DEF InputsHeld
  <2>. QED  BY <1>5, <2>1, <2>2 DEF JobAdvances
<1>6. CASE JobAwaitsMarker \/ MarkerRefused \/ JobChecksFrame
  <2>1. worker'.input \in {worker.input, NoInput}
    <3>1. IdleWorker.input = NoInput /\ Go("putMarker").input = worker.input
          /\ Go("put").input = worker.input
      BY <1>0 DEF Go, IdleWorker, Workers
    <3>. QED  BY <1>6, <3>1 DEF JobAwaitsMarker, MarkerRefused, JobChecksFrame
  <2>2. UNCHANGED <<raw, meter, episode>>
    BY <1>6 DEF JobAwaitsMarker, MarkerRefused, JobChecksFrame
  <2>. QED  BY <1>0, <1>1, <2>1, <2>2 DEF InputsHeld
<1>7. CASE JobPutsMarker
  <2>1. worker'.input = worker.input /\ UNCHANGED <<raw, meter>>
        /\ episode'.raw = episode.raw /\ episode'.meter = episode.meter
    BY <1>0, <1>7 DEF JobPutsMarker, Go, Workers, Episodes
  <2>. QED  BY <1>1, <2>1 DEF InputsHeld
<1>8. CASE JobPutsFrame
  <2>1. worker'.input \in {worker.input, NoInput} /\ UNCHANGED <<raw, meter>>
    BY <1>0, <1>8 DEF JobPutsFrame, Go, IdleWorker, Workers
  <2>2. RetainedChunk \in Announced
    BY <1>0, <1>1 DEF RetainedChunk
  <2>3. PICK x \in {episode.raw, RetainedChunk} :
            episode' = episode \/ episode' = Steady
            \/ episode' = [episode EXCEPT !.phase = "awaiting", !.raw = x]
    BY <1>8 DEF JobPutsFrame
  <2>4. episode'.raw \in {episode.raw, x, NoInput}
        /\ episode'.meter \in {episode.meter, NoInput}
    <3>1. CASE episode' = episode
      BY <3>1
    <3>2. CASE episode' = Steady
      BY <3>2 DEF Steady
    <3>3. CASE episode' = [episode EXCEPT !.phase = "awaiting", !.raw = x]
      BY <1>0, <3>3 DEF Episodes
    <3>. QED  BY <2>3, <3>1, <3>2, <3>3
  <2>. QED  BY <1>0, <1>1, <2>1, <2>2, <2>4 DEF InputsHeld
<1>9. CASE JobAcquires
  <2>1. CASE episode.phase = "recovering" /\ episode.raw # NoInput
    <3>1. /\ worker'.input = episode.raw /\ episode'.raw = NoInput
          /\ episode'.meter = episode.meter /\ UNCHANGED <<raw, meter>>
      BY <1>0, <1>9, <2>1 DEF JobAcquires, Workers, Episodes
    <3>. QED  BY <1>0, <1>1, <3>1 DEF InputsHeld
  <2>2. CASE /\ worker' = [Go("meters") EXCEPT !.turn = 0]
             /\ UNCHANGED <<raw, episode>>
    <3>1. worker'.input = worker.input /\ UNCHANGED <<raw, meter, episode>>
      BY <1>0, <1>9, <2>2 DEF JobAcquires, Go, Workers
    <3>. QED  BY <1>1, <3>1 DEF InputsHeld
  <2>3. CASE /\ episode' = episode
             /\ \E i \in DOMAIN raw :
                    /\ worker' = [worker EXCEPT !.pc = "chunk", !.input = raw[i]]
                    /\ raw' = RemoveAt(raw, i)
    <3>1. PICK k \in DOMAIN raw :
              /\ worker' = [worker EXCEPT !.pc = "chunk", !.input = raw[k]]
              /\ raw' = RemoveAt(raw, k)
      BY <2>3
    <3>2. raw[k] \in Announced
      BY <1>1
    <3>3. raw' \in Seq(Announced)
      BY <1>1, <3>1, RemoveElements
    <3>4. worker'.input = raw[k]
      BY <1>0, <3>1 DEF Workers
    <3>5. UNCHANGED <<episode, meter>>
      BY <1>9, <2>3 DEF JobAcquires
    <3>. QED  BY <1>1, <3>2, <3>3, <3>4, <3>5 DEF InputsHeld
  <2>. QED  BY <1>9, <2>1, <2>2, <2>3 DEF JobAcquires
<1>10. CASE JobTakesChunk
  <2>1. UNCHANGED <<raw, meter>>
    BY <1>10 DEF JobTakesChunk
  <2>2. CASE BeginsEpisode(Observed, worker.input, NoInput)
    BY <1>0, <1>1, <2>1, <2>2, HeldBegins
  <2>3. CASE Ignored(NextTurn) \/ Analysed(NextTurn)
    BY <2>1, <2>3, HeldAnalysed
  <2>. QED  BY <1>10, <2>2, <2>3 DEF JobTakesChunk
<1>11. CASE JobTakesReading
  <2>1. CASE episode.phase = "recovering" /\ episode.meter # NoInput
    <3>1. /\ worker'.input = episode.meter /\ episode'.meter = NoInput
          /\ episode'.raw = episode.raw /\ UNCHANGED <<raw, meter>>
      BY <1>0, <1>11, <2>1 DEF JobTakesReading, Workers, Episodes
    <3>. QED  BY <1>0, <1>1, <3>1 DEF InputsHeld
  <2>2. CASE ~(episode.phase = "recovering" /\ episode.meter # NoInput)
    <3>1. worker'.input = meter /\ meter' = NoInput /\ UNCHANGED <<raw, episode>>
      BY <1>0, <1>11, <2>2 DEF JobTakesReading, Workers
    <3>. QED  BY <1>0, <1>1, <3>1 DEF InputsHeld
  <2>. QED  BY <2>1, <2>2
<1>12. CASE JobUsesReading
  <2> DEFINE kept == IF worker.input.revision >= Observed THEN worker.input ELSE NoInput
  <2>1. UNCHANGED <<raw, meter>> /\ kept \in Announced
    BY <1>0, <1>1, <1>12 DEF JobUsesReading
  <2>2. CASE BeginsEpisode(Observed, NoInput, kept)
    BY <1>0, <2>1, <2>2, HeldBegins
  <2>3. CASE Ignored(WithoutReading) \/ Analysed(WithoutReading)
    BY <2>1, <2>3, HeldAnalysed
  <2>. QED  BY <1>12, <2>2, <2>3 DEF JobUsesReading
<1>13. CASE JobFinishes
  <2>1. worker'.input \in {worker.input, NoInput}
    BY <1>0, <1>13 DEF JobFinishes, IdleWorker, Workers
  <2>2. episode'.raw = episode.raw /\ episode'.meter = episode.meter /\ UNCHANGED <<raw, meter>>
    BY <1>0, <1>13 DEF JobFinishes, Episodes
  <2>. QED  BY <1>0, <1>1, <2>1, <2>2 DEF InputsHeld
<1>. QED  BY <1>2, <1>3, <1>4, <1>5, <1>6, <1>7, <1>8, <1>9, <1>10, <1>11, <1>12, <1>13
          DEF WorkerSteps

\* The other threads stamp nothing
LEMMA StampedOthers ==
    ASSUME Types, Lifecycles, Producing, Stamped,
           WorkerSteps \/ MarkerRefused \/ MessageSteps \/ Discard \/ LifecycleSteps
    PROVE  Stamped'
<1> USE DEF captureVars, workVars
<1>1. Announced \subseteq Announced' /\ block' = block /\ block.input \in Announced
  BY AnnouncedKept, LossKept DEF Next, LifecycleSteps, Stamped
<1>2. NoInput \in Announced
  BY StampFacts
<1>3. CASE WorkerSteps \/ MarkerRefused
  BY <1>1, <1>3, HeldWorker, StampFacts DEF InputsHeld, Stamped
<1>4. CASE UNCHANGED <<raw, meter, worker, episode>>
  BY <1>1, <1>4, StampFacts DEF Stamped
<1>5. CASE MessageSteps \/ Discard
  BY <1>4, <1>5 DEF MessageSteps, Discard, Tick, TakeFrame, CheckFrame, AckFrame, TakeMarker,
              CheckMarker, AckMarker, DiscardColumns
<1>6. CASE Begins \/ Deactivates
  <2>1. worker' = worker /\ episode'.raw = NoInput /\ episode'.meter = NoInput
    BY <1>6 DEF Begins, Deactivates, Steady
  <2>2. raw' \in Seq(Announced) /\ meter' \in Announced
    <3>1. raw' \in {raw, << >>} /\ meter' \in {meter, NoInput}
      BY <1>6 DEF Begins, Deactivates
    <3>2. << >> \in Seq(Announced)
      OBVIOUS
    <3>. QED  BY <1>2, <3>1, <3>2 DEF Stamped
  <2>3. raw' \in Seq(Announced')
    BY <1>1, <2>2, StampFacts
  <2>. QED  BY <1>1, <1>2, <2>1, <2>2, <2>3 DEF Stamped
<1>7. CASE LifecycleSteps /\ ~Begins /\ ~Deactivates
  BY <1>4, <1>7 DEF LifecycleSteps, ChangeSteps, CloseGeneration, Reconfigure, CloseLifecycle,
              CancelJobs, Opens, Reconfigured
<1>. QED  BY <1>3, <1>5, <1>6, <1>7

-----------------------------------------------------------------------------
(***************************************************************************)
(* Episodes: a job begins one at the latest gap, or leaves the episode as    *)
(* it is and analyses input stamped with the gap applied.                  *)
(***************************************************************************)
NewEpisode ==
    /\ episode.phase = "steady" /\ current.life # 0 /\ change.pc # "open"
    /\ loss.life = current.life /\ applied < loss.revision
    /\ applied' = loss.revision /\ content' = {}
    /\ episode'.phase = "publishing" /\ episode'.revision = loss.revision
    /\ episode'.generation = counter + 1 /\ ~episode'.marker
    /\ counter' = counter + 1
    /\ current'.life = current.life /\ current'.capture = counter + 1
    /\ worker'.pc = "marker" /\ worker'.use = "boundary"
    /\ markers' \subseteq markers
    /\ UNCHANGED <<loss, change, awaiting, frame, message, seen>>

SameEpisode ==
    /\ UNCHANGED <<applied, loss, change, current, counter>>
    /\ episode'.phase = episode.phase /\ episode'.revision = episode.revision
    /\ episode'.generation = episode.generation /\ episode'.marker = episode.marker
    /\ content' \subseteq content \cup {Analysable}

\* A gap that is newer than the one applied is the latest of the lifecycle
LEMMA BeginsAtGap ==
    ASSUME Types, Lifecycles, Producing, Stamped,
           worker.pc \notin {"idle", "start"},
           NEW r, r > applied,
           \/ r = Published(worker.life)
           \/ r = Observed /\ worker.input.life = worker.life,
           episode.phase = "steady", NEW chunk, NEW reading, BeginsEpisode(r, chunk, reading),
           UNCHANGED <<loss, change, awaiting, frame, message, seen>>
    PROVE  NewEpisode \/ SameEpisode
<1>0. /\ worker \in Workers /\ applied \in Nat /\ loss.revision \in Nat /\ loss.life \in Nat
      /\ current.life \in Nat /\ worker.life \in Nat /\ worker.input \in Inputs
  BY DEF Types, LifecycleTypes, InputTypes, WorkTypes, Workers
<1>1. /\ worker.life = current.life /\ worker.life # 0 /\ worker.capture # 0
      /\ change.pc # "open" /\ loss.life <= current.life
  BY DEF Lifecycles, Generations, ChangeControl, Producing
<1>2. loss.life = current.life /\ r = loss.revision
  <2>1. Published(worker.life) \in Nat
        /\ (Published(worker.life) # 0 => loss.life = worker.life)
        /\ (loss.life = worker.life => Published(worker.life) = loss.revision)
    BY <1>0 DEF Published
  <2>2. CASE r = Published(worker.life)
    BY <1>0, <1>1, <2>1, <2>2
  <2>3. CASE r = Observed /\ worker.input.life = worker.life
    <3>1. /\ worker.input.life = worker.life /\ worker.input.life <= loss.life
          /\ worker.input.life = loss.life => worker.input.revision <= loss.revision
      BY <2>3 DEF Stamped, Announced
    <3>2. loss.life = worker.life /\ worker.input.revision <= loss.revision
      BY <1>0, <1>1, <3>1
    <3>3. Observed = loss.revision
      BY <1>0, <2>1, <3>2 DEF Observed, Later, Inputs
    <3>. QED  BY <1>1, <2>3, <3>2, <3>3
  <2>. QED  BY <2>2, <2>3
<1>3. CASE MayBegin /\ WinsGeneration
  <2>1. /\ counter' = counter + 1
        /\ current' = [current EXCEPT !.capture = counter + 1]
        /\ applied' = r /\ content' = {} /\ markers' \subseteq markers
        /\ episode' = [Steady EXCEPT !.phase = "publishing", !.revision = r,
                                     !.generation = counter + 1, !.meter = reading]
        /\ worker' = [worker EXCEPT !.pc = "marker", !.use = "boundary",
                                    !.capture = counter + 1, !.input = chunk]
    BY <1>3 DEF BeginsEpisode
  <2>2. current'.life = current.life /\ current'.capture = counter + 1
    BY <2>1 DEF Types, LifecycleTypes
  <2>3. /\ episode'.phase = "publishing" /\ episode'.revision = r
        /\ episode'.generation = counter + 1 /\ ~episode'.marker
    BY <2>1 DEF Steady
  <2>4. worker'.pc = "marker" /\ worker'.use = "boundary"
    BY <1>0, <2>1 DEF Workers
  <2>5. applied < loss.revision
    BY <1>0, <1>2
  <2>. QED  BY <1>1, <1>2, <2>1, <2>2, <2>3, <2>4, <2>5 DEF NewEpisode
<1>4. CASE ~(MayBegin /\ WinsGeneration)
  <2>1. /\ episode' = [episode EXCEPT !.meter = reading]
        /\ UNCHANGED <<active, current, counter, applied, content, markers>>
    BY <1>4 DEF BeginsEpisode
  <2>. QED  BY <2>1 DEF SameEpisode, Types, WorkTypes, Episodes
<1>. QED  BY <1>3, <1>4

\* Input that shows no newer gap and is not from before the gap applied is from
\* after that gap
LEMMA AnalysedAtGap ==
    ASSUME Types, Lifecycles, Producing, Stamped, Sides, NEW next,
           worker.pc \notin {"idle", "start"}, worker.input.life = worker.life,
           ~(Observed > Minimum /\ episode.phase = "steady"),
           IF BeforeGap THEN Ignored(next) ELSE Analysed(next),
           UNCHANGED <<applied, loss, change, current, counter>>
    PROVE  SameEpisode
<1>0. /\ worker \in Workers /\ applied \in Nat /\ loss.revision \in Nat /\ loss.life \in Nat
      /\ current.life \in Nat /\ worker.input \in Inputs /\ episode \in Episodes
      /\ worker.input.revision \in Nat /\ worker.input.life \in Nat
  BY DEF Types, LifecycleTypes, InputTypes, WorkTypes, Workers, Inputs
<1>1. worker.life = current.life /\ current.life # 0 /\ loss.life <= current.life
  BY DEF Lifecycles, Generations, Producing
<1>2. CASE BeforeGap
  BY <1>2 DEF Ignored, SameEpisode
<1>3. CASE ~BeforeGap
  <2>1. Analysed(next)
    BY <1>3
  <2>2. /\ worker.input.life <= loss.life
        /\ worker.input.life = loss.life => worker.input.revision <= loss.revision
    BY DEF Stamped, Announced
  <2>3. worker.input.revision <= loss.revision /\ worker.input.life = current.life
    BY <1>0, <1>1, <2>2
  <2>4. worker.input.revision = applied
    <3>1. CASE episode.phase = "steady"
      <4>1. Minimum = applied
        BY <3>1 DEF Minimum
      <4>2. ~(Observed > applied) /\ ~(worker.input.revision < applied)
        BY <1>3, <3>1, <4>1 DEF BeforeGap
      <4>3. Published(worker.life) \in Nat
        BY <1>0 DEF Published
      <4>4. worker.input.revision <= Observed /\ Observed \in Nat
        BY <1>0, <4>3 DEF Observed, Later
      <4>. QED  BY <1>0, <4>2, <4>4
    <3>2. CASE episode.phase # "steady"
      <4>1. episode.revision = applied /\ applied = loss.revision
        BY <3>2 DEF Sides, InEpisode
      <4>2. Minimum = applied
        BY <4>1 DEF Minimum
      <4>. QED  BY <1>0, <1>3, <2>3, <4>1, <4>2 DEF BeforeGap
    <3>. QED  BY <3>1, <3>2
  <2>5. worker.input = Analysable
    BY <1>0, <2>3, <2>4 DEF Analysable, Inputs
  <2>6. content' = content \cup {worker.input}
    BY <2>1 DEF Analysed
  <2>7. /\ episode'.phase = episode.phase /\ episode'.revision = episode.revision
        /\ episode'.generation = episode.generation /\ episode'.marker = episode.marker
    BY <1>0, <2>1 DEF Analysed, Episodes
  <2>. QED  BY <2>5, <2>6, <2>7 DEF SameEpisode
<1>. QED  BY <1>2, <1>3

Deliver == JobAwaits \/ JobPutsMarker \/ JobPutsFrame

\* Every step of the worker but those that deliver the boundary
LEMMA EpisodeCases ==
    ASSUME Types, Lifecycles, Producing, Stamped, Sides, WorkerSteps \/ MarkerRefused
    PROVE  NewEpisode \/ SameEpisode \/ Deliver
<1> USE DEF captureVars, workVars
<1>0. worker \in Workers /\ episode \in Episodes
  BY DEF Types, WorkTypes
<1>1. CASE JobStarts \/ JobAwaitsMarker \/ MarkerRefused \/ JobChecksFrame
  BY <1>1 DEF JobStarts, JobAwaitsMarker, MarkerRefused, JobChecksFrame, SameEpisode
<1>2. CASE JobEnters
  <2>1. /\ episode'.phase = episode.phase /\ episode'.revision = episode.revision
        /\ episode'.generation = episode.generation /\ episode'.marker = episode.marker
    BY <1>0, <1>2 DEF JobEnters, Episodes
  <2>. QED  BY <1>2, <2>1 DEF JobEnters, SameEpisode
<1>3. CASE JobAcquires \/ JobTakesReading \/ JobFinishes
  <2>1. /\ episode'.phase = episode.phase /\ episode'.revision = episode.revision
        /\ episode'.generation = episode.generation /\ episode'.marker = episode.marker
    <3>1. CASE JobAcquires
      BY <1>0, <3>1 DEF JobAcquires, Episodes
    <3>2. CASE JobTakesReading
      BY <1>0, <3>2 DEF JobTakesReading, Episodes
    <3>3. CASE JobFinishes
      BY <1>0, <3>3 DEF JobFinishes, Episodes
    <3>. QED  BY <1>3, <3>1, <3>2, <3>3
  <2>2. UNCHANGED <<applied, loss, change, current, counter, content>>
    BY <1>3 DEF JobAcquires, JobTakesReading, JobFinishes
  <2>. QED  BY <2>1, <2>2 DEF SameEpisode
<1>4. CASE JobAdvances
  <2>1. worker.pc \notin {"idle", "start"}
        /\ UNCHANGED <<loss, change, awaiting, frame, message, seen>>
    BY <1>4 DEF JobAdvances
  <2>2. CASE Published(worker.life) > applied /\ episode.phase = "steady"
    <3>1. BeginsEpisode(Published(worker.life), NoInput, NoInput)
      BY <1>4, <2>2 DEF JobAdvances
    <3>. QED  BY <2>1, <2>2, <3>1, BeginsAtGap
  <2>3. CASE ~(Published(worker.life) > applied /\ episode.phase = "steady")
    <3>1. /\ episode' = IF episode.phase = "steady" THEN episode ELSE
                 [episode EXCEPT !.revision = Later(@, Published(worker.life))]
          /\ UNCHANGED <<current, counter, applied, content>>
      BY <1>4, <2>3 DEF JobAdvances
    <3>2. episode.phase # "steady" =>
              Later(episode.revision, Published(worker.life)) = episode.revision
      <4>1. ASSUME episode.phase # "steady"
            PROVE  episode.revision = loss.revision /\ loss.revision \in Nat
        BY <4>1 DEF Sides, InEpisode, Types, InputTypes
      <4>2. Published(worker.life) \in {0, loss.revision}
        BY DEF Published
      <4>. QED  BY <4>1, <4>2 DEF Later
    <3>3. /\ episode'.phase = episode.phase /\ episode'.revision = episode.revision
          /\ episode'.generation = episode.generation /\ episode'.marker = episode.marker
      BY <1>0, <3>1, <3>2 DEF Episodes
    <3>. QED  BY <2>1, <3>1, <3>3 DEF SameEpisode
  <2>. QED  BY <2>2, <2>3
<1>5. CASE JobTakesChunk
  <2>1. worker.pc \notin {"idle", "start"}
        /\ UNCHANGED <<loss, change, awaiting, frame, message, seen>>
    BY <1>5 DEF JobTakesChunk
  <2>2. CASE worker.input.life # worker.life
    BY <1>5, <2>1, <2>2 DEF JobTakesChunk, Ignored, SameEpisode
  <2>3. CASE worker.input.life = worker.life /\ Observed > Minimum /\ episode.phase = "steady"
    <3>1. BeginsEpisode(Observed, worker.input, NoInput) /\ Minimum = applied
      BY <1>5, <2>3 DEF JobTakesChunk, Minimum
    <3>. QED  BY <2>1, <2>3, <3>1, BeginsAtGap
  <2>4. CASE worker.input.life = worker.life /\ ~(Observed > Minimum /\ episode.phase = "steady")
    <3>1. /\ IF BeforeGap THEN Ignored(NextTurn) ELSE Analysed(NextTurn)
          /\ UNCHANGED <<current, counter, applied>>
      BY <1>5, <2>4 DEF JobTakesChunk
    <3>. QED  BY <2>1, <2>4, <3>1, AnalysedAtGap
  <2>. QED  BY <2>2, <2>3, <2>4
<1>6. CASE JobUsesReading
  <2> DEFINE kept == IF worker.input.revision >= Observed THEN worker.input ELSE NoInput
  <2>1. worker.pc \notin {"idle", "start"}
        /\ UNCHANGED <<loss, change, awaiting, frame, message, seen>>
    BY <1>6 DEF JobUsesReading
  <2>2. CASE worker.input.life # worker.life
    BY <1>6, <2>1, <2>2 DEF JobUsesReading, Ignored, SameEpisode
  <2>3. CASE worker.input.life = worker.life /\ Observed > Minimum /\ episode.phase = "steady"
    <3>1. BeginsEpisode(Observed, NoInput, kept) /\ Minimum = applied
      BY <1>6, <2>3 DEF JobUsesReading, Minimum
    <3>. QED  BY <2>1, <2>3, <3>1, BeginsAtGap
  <2>4. CASE worker.input.life = worker.life /\ ~(Observed > Minimum /\ episode.phase = "steady")
    <3>1. /\ IF BeforeGap THEN Ignored(WithoutReading) ELSE Analysed(WithoutReading)
          /\ UNCHANGED <<current, counter, applied>>
      BY <1>6, <2>4 DEF JobUsesReading
    <3>. QED  BY <2>1, <2>4, <3>1, AnalysedAtGap
  <2>. QED  BY <2>2, <2>3, <2>4
<1>. QED  BY <1>1, <1>2, <1>3, <1>4, <1>5, <1>6 DEF WorkerSteps, Deliver

-----------------------------------------------------------------------------
(***************************************************************************)
(* Sides.                                                                  *)
(***************************************************************************)
\* A gap in the capture opens no revision while an episode goes on
LEMMA SidesAudio ==
    ASSUME Types, Lifecycles, Producing, Sides, BlockAdmits \/ AudioSteps
    PROVE  Sides'
<1> USE DEF captureVars, workVars
<1>0. UNCHANGED <<current, change, episode, applied, content>>
  BY DEF BlockAdmits, AudioSteps, BlockPublishes, BlockStores, BlockCounts
<1>1. CASE UNCHANGED loss
  BY <1>0, <1>1 DEF Sides, InEpisode, BetweenEpisodes, Opening, Analysable
<1>2. CASE BlockPublishes
  <2> DEFINE entered == Entered(block.life)
             full == Len(entered.raw) + Held >= SlotCount
             revision == IF full THEN LossRevision(entered.revision) ELSE entered.revision
  <2>1. loss' = [loss EXCEPT !.life = block.life, !.revision = revision]
        /\ block.pc = "publish"
    BY <1>2 DEF BlockPublishes
  <2>2. /\ captured \in Nat /\ loss.life \in Nat /\ loss.revision \in Nat /\ block.life \in Nat
        /\ current.life \in Nat /\ applied \in Nat /\ loss.acknowledged \in Nat
        /\ loss \in [revision : Nat, life : Nat, acknowledged : Nat]
    BY DEF Types, LifecycleTypes, WorkTypes, InputTypes, Blocks
  <2>3. /\ loss.revision <= captured /\ loss.life <= block.life
        /\ current.life # 0 => block.life <= current.life
    BY <2>1, <2>2, NatFacts DEF Producing
  <2>4. loss.life = block.life => revision = loss.revision \/ revision = captured + 1
    BY DEF Entered, LossRevision
  <2>5. loss.life = block.life /\ loss.revision # 0 /\ loss.revision # loss.acknowledged =>
            revision = loss.revision
    BY DEF Entered, LossRevision
  <2> HIDE DEF revision
  <2>6. /\ loss'.life = block.life /\ loss'.revision = revision
        /\ loss'.acknowledged = loss.acknowledged
    BY <2>1, <2>2
  <2>7. InEpisode'
    <3> SUFFICES ASSUME episode.phase # "steady"
                 PROVE  loss'.life = current.life /\ loss'.revision = loss.revision
      BY <1>0, <2>6 DEF Sides, InEpisode
    <3>1. /\ current.life # 0 /\ loss.life = current.life /\ applied = loss.revision
          /\ loss.acknowledged < applied
      BY DEF Sides, InEpisode
    <3>2. block.life = loss.life
      BY <2>2, <2>3, <3>1
    <3>3. loss.revision # 0 /\ loss.revision # loss.acknowledged
      BY <2>2, <3>1
    <3>. QED  BY <2>5, <2>6, <3>1, <3>2, <3>3
  <2>8. BetweenEpisodes'
    <3> SUFFICES ASSUME episode.phase = "steady", current.life # 0 \/ change.pc = "open",
                        applied # 0
                 PROVE  loss'.life = current.life /\ applied <= loss'.revision
      BY <1>0, <2>6 DEF Sides, BetweenEpisodes
    <3>1. loss.life = current.life /\ applied <= loss.revision /\ change.pc # "open"
      BY DEF Sides, BetweenEpisodes, Opening
    <3>2. block.life = loss.life
      BY <2>2, <2>3, <3>1
    <3>3. revision = loss.revision \/ revision = captured + 1
      BY <2>4, <3>2
    <3>. QED  BY <2>2, <2>3, <2>6, <3>1, <3>2, <3>3
  <2>. QED  BY <1>0, <2>7, <2>8 DEF Sides, Opening, Analysable
<1>3. CASE BlockAdmits \/ BlockStores \/ BlockCounts
  BY <1>1, <1>3 DEF BlockAdmits, BlockStores, BlockCounts
<1>. QED  BY <1>2, <1>3 DEF AudioSteps

\* The worker: a new episode begins with nothing analysed, and completing the
\* recovery acknowledges the gap that has been applied
LEMMA SidesWorker ==
    ASSUME Types, Lifecycles, Producing, Stamped, Sides, Points, WorkerSteps \/ MarkerRefused
    PROVE  Sides'
<1> USE DEF captureVars, workVars
<1>0. /\ applied \in Nat /\ loss.acknowledged \in Nat /\ episode \in Episodes
      /\ worker \in Workers /\ loss \in [revision : Nat, life : Nat, acknowledged : Nat]
  BY DEF Types, WorkTypes, InputTypes
<1>1. CASE NewEpisode
  <2>1. loss.acknowledged < loss.revision
    <3>1. applied = loss.acknowledged
      BY <1>1 DEF NewEpisode, Sides, BetweenEpisodes
    <3>. QED  BY <1>1, <3>1 DEF NewEpisode
  <2>. QED  BY <1>1, <2>1 DEF NewEpisode, Sides, InEpisode, BetweenEpisodes, Opening, Analysable
<1>2. CASE SameEpisode
  <2>1. change.pc = "open" => content' = content
    <3>1. ASSUME change.pc = "open" PROVE content' = content
      <4>1. worker.pc = "idle"
        BY <3>1 DEF Lifecycles, ChangeControl
      <4>2. ~job.requested
        BY <3>1 DEF Lifecycles, ChangeControl
      <4>. QED  BY <4>1, <4>2 DEF WorkerSteps, MarkerRefused, JobStarts, JobEnters, JobAwaits,
                   JobAdvances, JobAwaitsMarker, JobPutsMarker, JobChecksFrame, JobPutsFrame,
                   JobAcquires, JobTakesChunk, JobTakesReading, JobUsesReading, JobFinishes
    <3>. QED  BY <3>1
  <2>2. InEpisode' /\ BetweenEpisodes'
    BY <1>2 DEF SameEpisode, Sides, InEpisode, BetweenEpisodes
  <2>3. Opening'
    BY <1>2, <2>1 DEF SameEpisode, Sides, Opening
  <2>4. (content \subseteq {Analysable})'
    BY <1>2 DEF SameEpisode, Sides, Analysable
  <2>. QED  BY <2>2, <2>3, <2>4 DEF Sides
<1>3. CASE JobAwaits \/ JobPutsMarker
  <2>1. /\ UNCHANGED <<current, change, loss, applied, content>>
        /\ episode'.revision = episode.revision
        /\ episode'.phase = "steady" <=> episode.phase = "steady"
    <3>1. CASE JobAwaits
      <4>1. episode.phase = "awaiting"
        BY <3>1 DEF JobAwaits, Points
      <4>. QED  BY <1>0, <3>1, <4>1 DEF JobAwaits, Episodes
    <3>2. CASE JobPutsMarker
      BY <1>0, <3>2 DEF JobPutsMarker, Episodes
    <3>. QED  BY <1>3, <3>1, <3>2
  <2>. QED  BY <2>1 DEF Sides, InEpisode, BetweenEpisodes, Opening, Analysable
<1>4. CASE JobPutsFrame
  <2>0. UNCHANGED <<current, change, content>>
    BY <1>4 DEF JobPutsFrame
  <2>1. CASE worker.use = "boundary"
    <3>1. /\ episode' = [episode EXCEPT !.phase = "awaiting",
                                 !.raw = IF worker.resume THEN @ ELSE RetainedChunk]
          /\ UNCHANGED <<applied, loss>> /\ worker.pc = "put"
      BY <1>4, <2>1 DEF JobPutsFrame
    <3>2. episode.phase # "steady"
      BY <2>1, <3>1 DEF Points
    <3>3. episode'.phase # "steady" /\ episode'.revision = episode.revision
      BY <1>0, <3>1 DEF Episodes
    <3>. QED  BY <2>0, <3>1, <3>2, <3>3 DEF Sides, InEpisode, BetweenEpisodes, Opening, Analysable
  <2>2. CASE worker.use # "boundary" /\ Completes
    <3>1. /\ applied' = episode.revision /\ episode' = Steady /\ worker.pc = "put"
          /\ loss' = [loss EXCEPT !.acknowledged = episode.revision]
      BY <1>4, <2>2 DEF JobPutsFrame
    <3>2. episode.phase = "recovering"
      BY <2>2, <3>1 DEF Completes, Points
    <3>3. /\ current.life # 0 /\ change.pc # "open" /\ loss.life = current.life
          /\ episode.revision = applied /\ applied = loss.revision
      BY <3>2 DEF Sides, InEpisode
    <3>4. /\ applied' = applied /\ loss'.life = loss.life /\ loss'.revision = loss.revision
          /\ loss'.acknowledged = applied /\ episode'.phase = "steady" /\ applied <= applied
      BY <1>0, <3>1, <3>3 DEF Steady
    <3>5. BetweenEpisodes'
      BY <2>0, <3>3, <3>4 DEF BetweenEpisodes
    <3>6. InEpisode' /\ Opening'
      BY <2>0, <3>3, <3>4 DEF InEpisode, Opening
    <3>. QED  BY <2>0, <3>4, <3>5, <3>6 DEF Sides, Analysable
  <2>3. CASE worker.use # "boundary" /\ ~Completes
    <3>1. UNCHANGED <<applied, loss, episode>>
      BY <1>4, <2>3 DEF JobPutsFrame
    <3>. QED  BY <2>0, <3>1 DEF Sides, InEpisode, BetweenEpisodes, Opening, Analysable
  <2>. QED  BY <2>1, <2>2, <2>3
<1>. QED  BY <1>1, <1>2, <1>3, <1>4, EpisodeCases DEF Deliver

\* A lifecycle that ends or begins leaves nothing analysed behind
LEMMA SidesOthers ==
    ASSUME Types, Types', Lifecycles, Producing, Sides,
           MessageSteps \/ Discard \/ LifecycleSteps
    PROVE  Sides'
<1> USE DEF captureVars, workVars
<1>1. CASE MessageSteps \/ Discard
  <2>1. UNCHANGED <<current, change, loss, episode, applied, content>>
    BY <1>1 DEF MessageSteps, Discard, Tick, TakeFrame, CheckFrame, AckFrame, TakeMarker,
                CheckMarker, AckMarker, DiscardColumns
  <2>. QED  BY <2>1 DEF Sides, InEpisode, BetweenEpisodes, Opening, Analysable
<1>2. CASE (\E op \in Changes : CloseGeneration(op)) \/ CloseLifecycle \/ Reconfigure \/ CancelJobs
  <2>1. UNCHANGED <<current, loss, episode, applied, content>>
    BY <1>2 DEF CloseGeneration, CloseLifecycle, Reconfigure, CancelJobs
  <2>2. change'.pc # "open" /\ change.pc # "open"
    <3>1. CASE \E op \in Changes : CloseGeneration(op)
      <4>1. PICK op \in Changes : CloseGeneration(op)
        BY <3>1
      <4>. QED  BY <4>1 DEF CloseGeneration, Starts, Lifecycles, ChangeControl
    <3>2. CASE Reconfigure
      BY <3>2 DEF Reconfigure, Starts, Lifecycles, ChangeControl
    <3>3. CASE CloseLifecycle \/ CancelJobs
      BY <3>3 DEF CloseLifecycle, CancelJobs, Types, LifecycleTypes
    <3>. QED  BY <1>2, <3>1, <3>2, <3>3
  <2>. QED  BY <2>1, <2>2 DEF Sides, InEpisode, BetweenEpisodes, Opening, Analysable
<1>3. CASE Deactivates
  <2>1. /\ current'.life = 0 /\ episode'.phase = "steady" /\ content' = {} /\ change'.pc = "none"
    BY <1>3 DEF Deactivates, Done, Steady, Types, LifecycleTypes
  <2>. QED  BY <2>1 DEF Sides, InEpisode, BetweenEpisodes, Opening
<1>4. CASE Begins
  <2>1. Published(counter + 1) = 0
    <3>1. loss.life \in Nat /\ counter \in Nat /\ loss.life <= counter
      BY DEF Producing, Types, LifecycleTypes, InputTypes
    <3>2. loss.life # counter + 1
      BY <3>1
    <3>. QED  BY <3>2 DEF Published
  <2>2. /\ applied' = 0 /\ episode'.phase = "steady" /\ content' = {} /\ loss'.acknowledged = 0
    BY <1>4, <2>1 DEF Begins, Steady, Types, InputTypes
  <2>. QED  BY <2>2 DEF Sides, InEpisode, BetweenEpisodes, Opening
<1>5. CASE Opens
  <2>1. /\ change.pc = "open" /\ change'.pc = "none"
        /\ UNCHANGED <<loss, episode, applied, content>>
    BY <1>5 DEF Opens, Done
  <2>2. content = {} /\ applied = 0
    BY <2>1 DEF Sides, Opening
  <2>3. episode.phase = "steady"
    BY <2>1 DEF Sides, InEpisode
  <2>4. applied = loss.acknowledged
    BY <2>1, <2>3 DEF Sides, BetweenEpisodes
  <2>. QED  BY <2>1, <2>2, <2>3, <2>4 DEF Sides, InEpisode, BetweenEpisodes, Opening
<1>6. CASE Reconfigured
  <2>1. /\ change.pc = "wait" /\ change'.pc = "none" /\ current'.life = current.life
        /\ UNCHANGED <<loss, episode, applied, content>>
    BY <1>6 DEF Reconfigured, Waited, Done, Types, LifecycleTypes
  <2>. QED  BY <2>1 DEF Sides, InEpisode, BetweenEpisodes, Opening, Analysable
<1>. QED  BY <1>1, <1>2, <1>3, <1>4, <1>5, <1>6 DEF LifecycleSteps, ChangeSteps

-----------------------------------------------------------------------------
(***************************************************************************)
(* Delivery.                                                               *)
(***************************************************************************)
\* Reading the capture, a job goes on reading, ends, or begins an episode
LEMMA ReadingTurns ==
    ASSUME Types, JobAdvances \/ JobTakesChunk \/ JobUsesReading
    PROVE  \/ counter' = counter + 1
           \/ worker'.pc \in {"idle", "acquire", "meter", "advance", "meters", "finish"}
<1>0. worker \in Workers
  BY DEF Types, WorkTypes
<1>1. ASSUME NEW r, NEW chunk, NEW reading, BeginsEpisode(r, chunk, reading)
      PROVE  counter' = counter + 1 \/ worker'.pc = "idle"
  BY <1>1 DEF BeginsEpisode, IdleWorker
<1>2. NextTurn.pc \in {"advance", "meters"} /\ WithoutReading.pc = "finish"
      /\ NextTurn \in Workers /\ WithoutReading \in Workers
  BY <1>0, TypesNext DEF NextTurn, WithoutReading, Workers
<1>3. ASSUME NEW next \in {NextTurn, WithoutReading}, Ignored(next) \/ Analysed(next)
      PROVE  worker'.pc = next.pc
  BY <1>2, <1>3 DEF Ignored, Analysed, Workers
<1>4. CASE JobAdvances
  <2>1. CASE worker' = Go(IF worker.pc = "meters" THEN "meter" ELSE "acquire")
    BY <1>0, <2>1 DEF Go, Workers
  <2>. QED  BY <1>1, <1>4, <2>1 DEF JobAdvances
<1>5. CASE JobTakesChunk
  <2>1. CASE Ignored(NextTurn) \/ Analysed(NextTurn)
    BY <1>2, <1>3, <2>1
  <2>. QED  BY <1>1, <1>5, <2>1 DEF JobTakesChunk
<1>6. CASE JobUsesReading
  <2>1. CASE Ignored(WithoutReading) \/ Analysed(WithoutReading)
    BY <1>2, <1>3, <2>1
  <2>. QED  BY <1>1, <1>6, <2>1 DEF JobUsesReading
<1>. QED  BY <1>4, <1>5, <1>6

Harmless == {"idle", "start", "marker", "advance", "acquire", "chunk", "meters", "meter",
             "reading", "finish", "await", "check"}

\* The points a job passes on the way to the renderer
LEMMA PointsWorker ==
    ASSUME Types, Lifecycles, Producing, Stamped, Sides, Points, WorkerSteps \/ MarkerRefused
    PROVE  Points'
<1> USE DEF captureVars, workVars
<1>0. worker \in Workers /\ episode \in Episodes /\ counter \in Nat /\ counter + 1 # counter
      /\ counter + 1 # 0
  BY DEF Types, WorkTypes, LifecycleTypes
<1>1. CASE NewEpisode
  BY <1>0, <1>1 DEF NewEpisode, Points
<1>2. CASE JobAwaits
  <2>1. /\ worker'.pc \in {"idle", "advance"} /\ UNCHANGED current
        /\ episode'.generation = episode.generation
        /\ episode.phase = "awaiting" /\ episode'.phase # "steady"
    BY <1>0, <1>2 DEF JobAwaits, Points, Go, IdleWorker, Workers, Episodes
  <2>. QED  BY <2>1 DEF Points
<1>3. CASE JobPutsMarker
  <2>1. /\ worker'.pc = "check" /\ worker'.use = worker.use /\ UNCHANGED current
        /\ episode'.generation = episode.generation /\ episode'.phase = episode.phase
        /\ episode'.marker /\ worker.pc = "putMarker"
    BY <1>0, <1>3 DEF JobPutsMarker, Go, Workers, Episodes
  <2>. QED  BY <2>1 DEF Points
<1>4. CASE JobPutsFrame
  <2>0. UNCHANGED current /\ worker.pc = "put"
    BY <1>4 DEF JobPutsFrame
  <2>1. CASE worker.use = "boundary"
    <3>1. /\ episode' = [episode EXCEPT !.phase = "awaiting",
                                 !.raw = IF worker.resume THEN @ ELSE RetainedChunk]
          /\ worker' = IF worker.resume THEN Go("await") ELSE IdleWorker
      BY <1>4, <2>1 DEF JobPutsFrame
    <3>2. episode'.generation = episode.generation /\ episode'.phase = "awaiting"
      BY <1>0, <3>1 DEF Episodes
    <3>3. worker'.pc \in {"await", "idle"}
      BY <1>0, <3>1 DEF Go, IdleWorker, Workers
    <3>4. episode.phase = "publishing"
      BY <2>0, <2>1 DEF Points
    <3>. QED  BY <2>0, <3>2, <3>3, <3>4 DEF Points
  <2>2. CASE worker.use # "boundary"
    <3>1. worker'.pc = "idle" /\ (episode' = episode \/ episode'.phase = "steady")
      BY <1>4, <2>2 DEF JobPutsFrame, IdleWorker, Steady
    <3>. QED  BY <2>0, <3>1 DEF Points
  <2>. QED  BY <2>1, <2>2
<1>5. CASE SameEpisode /\ ~Deliver
  <2>0. /\ UNCHANGED <<current, counter>> /\ episode'.phase = episode.phase
        /\ episode'.generation = episode.generation /\ episode'.marker = episode.marker
    BY <1>5 DEF SameEpisode
  <2>1. CASE worker'.pc \notin {"marker", "putMarker", "check", "put", "await"}
    BY <2>0, <2>1 DEF Points
  <2>2. CASE JobStarts \/ MarkerRefused
    <3>1. CASE JobStarts
      BY <2>1, <3>1 DEF JobStarts, IdleWorker
    <3>2. CASE MarkerRefused
      BY <2>1, <3>2 DEF MarkerRefused, IdleWorker
    <3>. QED  BY <2>2, <3>1, <3>2
  <2>3. CASE JobEnters
    <3>1. CASE ~(JobValid /\ CaptureActive)
      BY <2>1, <2>3, <3>1 DEF JobEnters, IdleWorker
    <3>2. CASE JobValid /\ CaptureActive /\ episode.phase = "publishing"
      <4>1. worker' = [worker EXCEPT !.resume = TRUE, !.use = "boundary",
                                     !.pc = IF episode.marker THEN "check" ELSE "marker"]
        BY <2>3, <3>2 DEF JobEnters, DirtyRecovery
      <4>2. worker'.use = "boundary"
            /\ worker'.pc = (IF episode.marker THEN "check" ELSE "marker")
        BY <1>0, <4>1 DEF Workers
      <4>3. episode.marker \in BOOLEAN
        BY <1>0 DEF Episodes
      <4>. QED  BY <2>0, <3>2, <4>2, <4>3 DEF Points
    <3>3. CASE JobValid /\ CaptureActive /\ episode.phase = "awaiting"
      <4>1. worker'.pc = "await"
        BY <1>0, <2>3, <3>3 DEF JobEnters, DirtyRecovery, Go, Workers
      <4>. QED  BY <2>0, <3>3, <4>1 DEF Points
    <3>4. CASE JobValid /\ CaptureActive /\ DirtyRecovery
      <4>1. episode.phase = "recovering"
        BY <3>4 DEF DirtyRecovery
      <4>2. worker'.pc = "check" /\ worker'.use = "republish"
        BY <1>0, <2>3, <3>4, <4>1 DEF JobEnters, Workers
      <4>. QED  BY <2>0, <4>1, <4>2 DEF Points
    <3>5. CASE /\ JobValid /\ CaptureActive /\ ~DirtyRecovery
               /\ episode.phase \notin {"publishing", "awaiting"}
      <4>1. worker'.pc = "advance"
        BY <1>0, <2>3, <3>5 DEF JobEnters, Go, Workers
      <4>. QED  BY <2>1, <4>1
    <3>. QED  BY <3>1, <3>2, <3>3, <3>4, <3>5
  <2>4. CASE JobAwaitsMarker
    <3>1. worker.pc = "marker" /\ (worker'.pc = "idle"
          \/ (worker'.pc = "putMarker" /\ worker'.use = worker.use))
      BY <1>0, <2>4 DEF JobAwaitsMarker, Go, IdleWorker, Workers
    <3>. QED  BY <2>0, <3>1 DEF Points
  <2>5. CASE JobChecksFrame
    <3>1. worker.pc = "check" /\ (worker'.pc = "idle"
          \/ (worker'.pc = "put" /\ worker'.use = worker.use))
      BY <1>0, <2>5 DEF JobChecksFrame, Go, IdleWorker, Workers
    <3>. QED  BY <2>0, <3>1 DEF Points
  <2>6. CASE JobFinishes
    <3>1. worker'.pc = "idle" \/ (worker'.pc = "check" /\ worker'.use = "result")
      BY <1>0, <2>6 DEF JobFinishes, IdleWorker, Workers
    <3>. QED  BY <2>0, <3>1 DEF Points
  <2>7. CASE JobAcquires \/ JobTakesReading
    <3>1. worker'.pc \in {"chunk", "meters", "reading"}
      BY <1>0, <2>7 DEF JobAcquires, JobTakesReading, Go, Workers
    <3>. QED  BY <2>1, <3>1
  <2>8. CASE JobAdvances \/ JobTakesChunk \/ JobUsesReading
    BY <1>0, <2>0, <2>1, <2>8, ReadingTurns
  <2>. QED  BY <1>5, <2>2, <2>3, <2>4, <2>5, <2>6, <2>7, <2>8 DEF WorkerSteps, Deliver
<1>. QED  BY <1>1, <1>2, <1>3, <1>4, <1>5, EpisodeCases DEF Deliver

\* The worker awaits what it delivers, and recovers when nothing is awaited
LEMMA DeliveringWorker ==
    ASSUME Types, Lifecycles, Producing, Stamped, Sides, Points, Delivering,
           WorkerSteps \/ MarkerRefused
    PROVE  Delivering'
<1> USE DEF captureVars, workVars
<1>0. worker \in Workers /\ episode \in Episodes
      /\ awaiting \in [frame : Nat, marker : Nat]
  BY DEF Types, WorkTypes, DeliveryTypes
<1>1. worker.pc \notin {"idle", "start"} => worker.capture = current.capture /\ worker.capture # 0
  BY DEF Lifecycles, Generations
<1>2. CASE NewEpisode
  BY <1>2 DEF NewEpisode, Delivering
<1>3. CASE JobAwaits
  <2>1. CASE Awaited
    <3>1. worker'.pc = "idle" /\ UNCHANGED <<episode, current, awaiting, seen>>
      BY <1>3, <2>1 DEF JobAwaits, IdleWorker
    <3>. QED  BY <3>1 DEF Delivering, FrameDelivered, MarkerDelivered
  <2>2. CASE ~Awaited
    <3>1. /\ worker'.pc = "advance" /\ episode'.marker = episode.marker
          /\ episode.phase = "awaiting" /\ UNCHANGED <<current, awaiting, seen>>
      BY <1>0, <1>3, <2>2 DEF JobAwaits, Points, Go, Workers, Episodes
    <3>2. awaiting.frame = 0 /\ awaiting.marker = 0 /\ current.capture # 0
      BY <1>1, <1>3, <2>2 DEF JobAwaits, Awaited
    <3>3. /\ episode.marker /\ current.capture \in seen.frames
          /\ current.capture \in seen.markers
      BY <3>1, <3>2 DEF Delivering, FrameDelivered, MarkerDelivered
    <3>. QED  BY <3>1, <3>3 DEF Delivering, FrameDelivered, MarkerDelivered
  <2>. QED  BY <2>1, <2>2
<1>4. CASE JobPutsMarker
  <2>1. /\ worker'.pc = "check" /\ UNCHANGED <<current, awaiting, seen>>
        /\ episode'.phase = episode.phase /\ worker.pc = "putMarker"
    BY <1>0, <1>4 DEF JobPutsMarker, Go, Workers, Episodes
  <2>2. episode.phase = "publishing"
    BY <2>1 DEF Points
  <2>. QED  BY <2>1, <2>2 DEF Delivering, FrameDelivered, MarkerDelivered
<1>5. CASE JobPutsFrame
  <2>0. UNCHANGED <<current, awaiting, seen>> /\ worker.pc = "put"
    BY <1>5 DEF JobPutsFrame
  <2>1. CASE worker.use = "boundary"
    <3>0. /\ episode' = [episode EXCEPT !.phase = "awaiting",
                                 !.raw = IF worker.resume THEN @ ELSE RetainedChunk]
          /\ worker' = IF worker.resume THEN Go("await") ELSE IdleWorker
      BY <1>5, <2>1 DEF JobPutsFrame
    <3>1. episode'.marker = episode.marker /\ episode'.phase = "awaiting"
      BY <1>0, <3>0 DEF Episodes
    <3>3. worker'.pc \in {"await", "idle"}
      BY <1>0, <3>0 DEF Go, IdleWorker, Workers
    <3>2. episode.phase = "publishing" /\ episode.marker
      BY <2>0, <2>1 DEF Points
    <3>. QED  BY <2>0, <2>1, <3>1, <3>2, <3>3
              DEF Delivering, FrameDelivered, MarkerDelivered
  <2>2. CASE worker.use # "boundary"
    <3>1. worker'.pc = "idle" /\ (episode' = episode \/ episode'.phase = "steady")
      BY <1>5, <2>2 DEF JobPutsFrame, IdleWorker, Steady
    <3>. QED  BY <2>0, <3>1 DEF Delivering, FrameDelivered, MarkerDelivered
  <2>. QED  BY <2>1, <2>2
<1>6. CASE SameEpisode /\ ~Deliver
  <2>0. /\ UNCHANGED <<current, counter>> /\ episode'.phase = episode.phase
        /\ episode'.marker = episode.marker
    BY <1>6 DEF SameEpisode
  <2>1. CASE JobAwaitsMarker
    <3>1. worker.pc = "marker" /\ UNCHANGED seen
      BY <2>1 DEF JobAwaitsMarker
    <3>2. CASE /\ awaiting' = [awaiting EXCEPT !.marker = worker.capture]
               /\ worker' = Go("putMarker")
      <4>1. awaiting'.marker = current.capture /\ awaiting'.frame = awaiting.frame
            /\ worker'.pc = "putMarker"
        BY <1>0, <1>1, <3>1, <3>2 DEF Go, Workers
      <4>. QED  BY <2>0, <3>1, <4>1 DEF Delivering, FrameDelivered, MarkerDelivered
    <3>3. CASE UNCHANGED awaiting /\ worker' = IdleWorker
      BY <2>0, <3>1, <3>3 DEF Delivering, FrameDelivered, MarkerDelivered, IdleWorker
    <3>. QED  BY <2>1, <3>2, <3>3 DEF JobAwaitsMarker
  <2>2. CASE MarkerRefused
    <3>1. /\ worker.pc = "putMarker" /\ UNCHANGED seen /\ worker'.pc = "idle"
          /\ awaiting'.frame = awaiting.frame
      BY <1>0, <2>2 DEF MarkerRefused, IdleWorker
    <3>2. episode.phase = "publishing" /\ ~episode.marker
      BY <3>1 DEF Points
    <3>. QED  BY <2>0, <3>1, <3>2 DEF Delivering, FrameDelivered, MarkerDelivered
  <2>3. CASE JobChecksFrame
    <3>1. worker.pc = "check" /\ UNCHANGED seen
      BY <2>3 DEF JobChecksFrame
    <3>2. CASE JobValid
      <4>1. /\ worker'.pc = "put" /\ worker'.use = worker.use
            /\ awaiting'.marker = awaiting.marker
            /\ awaiting'.frame = IF worker.use = "boundary" THEN worker.capture
                                 ELSE awaiting.frame
        BY <1>0, <2>3, <3>2 DEF JobChecksFrame, Go, Workers
      <4>2. CASE worker.use = "boundary"
        <5>1. awaiting'.frame = current.capture
          BY <1>1, <3>1, <4>1, <4>2
        <5>. QED  BY <2>0, <3>1, <4>1, <5>1 DEF Delivering, FrameDelivered, MarkerDelivered
      <4>3. CASE worker.use # "boundary"
        BY <2>0, <3>1, <4>1, <4>3 DEF Delivering, FrameDelivered, MarkerDelivered
      <4>. QED  BY <4>2, <4>3
    <3>3. CASE ~JobValid
      <4>1. worker'.pc = "idle" /\ UNCHANGED awaiting
        BY <2>3, <3>3 DEF JobChecksFrame, IdleWorker
      <4>. QED  BY <2>0, <3>1, <4>1 DEF Delivering, FrameDelivered, MarkerDelivered
    <3>. QED  BY <3>2, <3>3
  <2>4. CASE worker'.pc \in Harmless /\ UNCHANGED <<awaiting, seen>>
    BY <2>0, <2>4 DEF Delivering, FrameDelivered, MarkerDelivered, Harmless
  <2>5. CASE JobStarts \/ JobEnters \/ JobFinishes
    <3>1. worker'.pc \in Harmless
      <4>1. CASE JobStarts
        BY <4>1 DEF JobStarts, Harmless
      <4>2. CASE JobEnters
        BY <1>0, <4>2 DEF JobEnters, Go, IdleWorker, Workers, Harmless
      <4>3. CASE JobFinishes
        BY <1>0, <4>3 DEF JobFinishes, IdleWorker, Workers, Harmless
      <4>. QED  BY <2>5, <4>1, <4>2, <4>3
    <3>2. UNCHANGED <<awaiting, seen>>
      BY <2>5 DEF JobStarts, JobEnters, JobFinishes
    <3>. QED  BY <2>4, <3>1, <3>2
  <2>6. CASE JobAcquires \/ JobTakesReading
    <3>1. worker'.pc \in Harmless /\ UNCHANGED <<awaiting, seen>>
      BY <1>0, <2>6 DEF JobAcquires, JobTakesReading, Go, Workers, Harmless
    <3>. QED  BY <2>4, <3>1
  <2>7. CASE JobAdvances \/ JobTakesChunk \/ JobUsesReading
    <3>1. counter + 1 # counter
      BY DEF Types, LifecycleTypes
    <3>2. worker'.pc \in Harmless
      BY <2>0, <2>7, <3>1, ReadingTurns DEF Harmless
    <3>3. UNCHANGED <<awaiting, seen>>
      BY <2>7 DEF JobAdvances, JobTakesChunk, JobUsesReading
    <3>. QED  BY <2>4, <3>2, <3>3
  <2>. QED  BY <1>6, <2>1, <2>2, <2>3, <2>5, <2>6, <2>7 DEF WorkerSteps, Deliver
<1>. QED  BY <1>2, <1>3, <1>4, <1>5, <1>6, EpisodeCases DEF Deliver

\* What the renderer accepts and what is on its way, while the worker runs
LEMMA AcceptedWorker ==
    ASSUME Types, Lifecycles, Producing, Stamped, Sides, Accepted, OutBound,
           WorkerSteps \/ MarkerRefused
    PROVE  Accepted' /\ OutBound'
<1> USE DEF captureVars, workVars
<1>0. /\ counter \in Nat /\ message.held.generation \in Nat /\ frame.generation \in Nat
      /\ markers \subseteq Nat
  BY DEF Types, LifecycleTypes, DeliveryTypes, FramesOut
<1>1. UNCHANGED <<message, seen>>
  BY DEF WorkerSteps, MarkerRefused, JobStarts, JobEnters, JobAwaits, JobAdvances,
         JobAwaitsMarker, JobPutsMarker, JobChecksFrame, JobPutsFrame, JobAcquires,
         JobTakesChunk, JobTakesReading, JobUsesReading, JobFinishes
<1>2. CASE NewEpisode
  <2>1. /\ counter' = counter + 1 /\ current'.capture = counter + 1 /\ change'.pc # "open"
        /\ frame' = frame /\ markers' \subseteq markers
    BY <1>2 DEF NewEpisode
  <2>2. \A g \in Nat : g <= counter => g <= counter + 1 /\ g # counter + 1
    BY <1>0
  <2>3. OutBound'
    BY <1>0, <1>1, <2>1, <2>2 DEF OutBound
  <2>4. message.pc \in {"ackFrame", "ackMarker"} => message.held.generation # counter + 1
    BY <1>0, <2>2 DEF OutBound
  <2>. QED  BY <1>1, <2>1, <2>3, <2>4 DEF Accepted, Past
<1>3. CASE ~NewEpisode
  <2>1. UNCHANGED <<change, current, counter>>
    BY <1>3, EpisodeCases
       DEF SameEpisode, Deliver, JobAwaits, JobPutsMarker, JobPutsFrame
  <2>2. Accepted'
    BY <1>1, <2>1 DEF Accepted, Past
  <2>3. \/ frame' = frame
        \/ frame'.generation = worker.capture /\ worker.pc = "put"
    <3>1. CASE JobPutsFrame
      BY <3>1 DEF JobPutsFrame
    <3>2. CASE ~JobPutsFrame
      BY <3>2 DEF WorkerSteps, MarkerRefused, JobStarts, JobEnters, JobAwaits, JobAdvances,
         JobAwaitsMarker, JobPutsMarker, JobChecksFrame, JobAcquires, JobTakesChunk,
         JobTakesReading, JobUsesReading, JobFinishes
    <3>. QED  BY <3>1, <3>2
  <2>4. \/ markers' \subseteq markers
        \/ markers' = markers \cup {worker.capture} /\ worker.pc = "putMarker"
    <3>1. CASE JobAdvances \/ JobTakesChunk \/ JobUsesReading
      BY <3>1 DEF JobAdvances, JobTakesChunk, JobUsesReading, BeginsEpisode
    <3>2. CASE ~(JobAdvances \/ JobTakesChunk \/ JobUsesReading)
      BY <3>2 DEF WorkerSteps, MarkerRefused, JobStarts, JobEnters, JobAwaits,
         JobAwaitsMarker, JobPutsMarker, JobChecksFrame, JobPutsFrame, JobAcquires,
         JobTakesReading, JobFinishes
    <3>. QED  BY <3>1, <3>2
  <2>5. worker.pc # "idle" => worker.capture <= counter
    BY DEF Lifecycles, Generations
  <2>. QED  BY <1>1, <2>1, <2>2, <2>3, <2>4, <2>5 DEF OutBound
<1>. QED  BY <1>2, <1>3

\* The renderer acknowledges only what it has accepted
LEMMA DeliveryMessage ==
    ASSUME Types, Lifecycles, Sides, Delivery, MessageSteps \/ Discard
    PROVE  Delivery'
<1> USE DEF captureVars, workVars
<1>0. /\ UNCHANGED <<worker, episode, current, counter, change>>
      /\ awaiting \in [frame : Nat, marker : Nat] /\ 0 <= counter
      /\ seen \in [frames : SUBSET Nat, markers : SUBSET Nat, lost : BOOLEAN]
  BY DEF MessageSteps, Discard, Tick, TakeFrame, CheckFrame, AckFrame, TakeMarker,
         CheckMarker, AckMarker, DiscardColumns, Types, LifecycleTypes, DeliveryTypes
<1>1. Points'
  BY <1>0 DEF Delivery, Points
<1>2. CASE Tick
  <2>1. UNCHANGED <<awaiting, seen, message, frame, markers>>
    BY <1>2 DEF Tick
  <2>. QED  BY <1>0, <1>1, <2>1
            DEF Delivery, Delivering, FrameDelivered, MarkerDelivered, Accepted, Past, OutBound
<1>3. CASE TakeFrame \/ TakeMarker
  <2>1. UNCHANGED <<awaiting, seen>> /\ message'.pc \in {"checkFrame", "checkMarker"}
    BY <1>3 DEF TakeFrame, TakeMarker
  <2>2. OutBound'
    BY <1>0, <1>3 DEF TakeFrame, TakeMarker, Delivery, OutBound, NoFrame
  <2>. QED  BY <1>0, <1>1, <2>1, <2>2
            DEF Delivery, Delivering, FrameDelivered, MarkerDelivered, Accepted
<1>4. CASE CheckFrame \/ CheckMarker
  <2>1. UNCHANGED <<awaiting, frame, markers>>
        /\ seen.frames \subseteq seen'.frames /\ seen.markers \subseteq seen'.markers
    BY <1>0, <1>4 DEF CheckFrame, CheckMarker
  <2>2. /\ message'.pc = "ackFrame" => message'.held.generation \in seen'.frames
        /\ message'.pc = "ackMarker" => message'.held.generation \in seen'.markers
    <3>0. message.pc \in {"checkFrame", "checkMarker"}
          /\ message \in [pc : {"idle", "checkFrame", "ackFrame", "checkMarker", "ackMarker",
                                "discard"}, held : FramesOut]
      BY <1>4 DEF CheckFrame, CheckMarker, Types, DeliveryTypes
    <3>1. CASE CheckFrame
      BY <1>0, <3>0, <3>1 DEF CheckFrame, IdleMessage
    <3>2. CASE CheckMarker
      BY <1>0, <3>0, <3>2 DEF CheckMarker, IdleMessage
    <3>. QED  BY <1>4, <3>1, <3>2
  <2>3. Delivering'
    BY <1>0, <2>1 DEF Delivery, Delivering, FrameDelivered, MarkerDelivered
  <2>4. message.pc # "discard"
        /\ (message'.held = message.held \/ message'.held.generation = 0)
    <3>1. CASE CheckFrame
      BY <3>1 DEF CheckFrame, IdleMessage, NoFrame, Types, DeliveryTypes
    <3>2. CASE CheckMarker
      BY <3>2 DEF CheckMarker, IdleMessage, NoFrame, Types, DeliveryTypes
    <3>. QED  BY <1>4, <3>1, <3>2
  <2>5. OutBound'
    BY <1>0, <2>1, <2>4 DEF Delivery, OutBound
  <2>. QED  BY <1>1, <2>2, <2>3, <2>5 DEF Delivery, Accepted
<1>5. CASE AckFrame \/ AckMarker
  <2>1. UNCHANGED <<seen, frame, markers>> /\ message'.pc = "idle"
        /\ message'.held.generation = 0
    BY <1>5 DEF AckFrame, AckMarker, IdleMessage, NoFrame
  <2>2. ASSUME current.capture # 0, change.pc # "open"
        PROVE  /\ FrameDelivered(current.capture) =>
                      awaiting'.frame = current.capture \/ current.capture \in seen.frames
               /\ MarkerDelivered(current.capture) =>
                      awaiting'.marker = current.capture \/ current.capture \in seen.markers
    <3>1. CASE AckFrame
      <4>1. /\ awaiting'.frame = (IF awaiting.frame = message.held.generation THEN 0
                                  ELSE awaiting.frame)
            /\ awaiting'.marker = awaiting.marker /\ message.pc = "ackFrame"
        BY <1>0, <3>1 DEF AckFrame, AckOf
      <4>2. message.held.generation = current.capture => current.capture \in seen.frames
        BY <2>2, <4>1 DEF Delivery, Accepted, Past
      <4>. QED  BY <4>1, <4>2 DEF FrameDelivered, MarkerDelivered
    <3>2. CASE AckMarker
      <4>1. /\ awaiting'.marker = (IF awaiting.marker = message.held.generation THEN 0
                                   ELSE awaiting.marker)
            /\ awaiting'.frame = awaiting.frame /\ message.pc = "ackMarker"
        BY <1>0, <3>2 DEF AckMarker, AckOf
      <4>2. message.held.generation = current.capture => current.capture \in seen.markers
        BY <2>2, <4>1 DEF Delivery, Accepted, Past
      <4>. QED  BY <4>1, <4>2 DEF FrameDelivered, MarkerDelivered
    <3>. QED  BY <1>5, <3>1, <3>2
  <2>3. /\ episode.phase # "steady" => current.capture # 0 /\ change.pc # "open"
        /\ worker.pc \in {"put", "putMarker"} => current.capture # 0 /\ change.pc # "open"
    BY DEF Delivery, Points, Sides, InEpisode, Lifecycles, Generations, ChangeControl
  <2>4. Delivering'
    <3> DEFINE f == awaiting'.frame = current.capture \/ current.capture \in seen.frames
               m == awaiting'.marker = current.capture \/ current.capture \in seen.markers
    <3>1. /\ worker.pc = "putMarker" => m
          /\ worker.pc = "put" /\ worker.use = "boundary" => f
          /\ episode.phase # "steady" /\ episode.marker => m
          /\ episode.phase \in {"awaiting", "recovering"} => f
      BY <2>2, <2>3 DEF Delivery, Delivering
    <3>2. /\ (FrameDelivered(current.capture))' <=> f
          /\ (MarkerDelivered(current.capture))' <=> m
      BY <1>0, <2>1 DEF FrameDelivered, MarkerDelivered
    <3> HIDE DEF f, m
    <3>. QED  BY <1>0, <2>1, <3>1, <3>2 DEF Delivery, Delivering
  <2>5. OutBound'
    BY <1>0, <2>1 DEF Delivery, OutBound
  <2>. QED  BY <1>1, <2>1, <2>4, <2>5 DEF Delivery, Accepted
<1>6. CASE Discard \/ DiscardColumns
  <2>1. /\ UNCHANGED <<awaiting, frame>> /\ markers' \subseteq markers
        /\ seen'.frames = seen.frames /\ seen'.markers = seen.markers
        /\ message'.pc = "discard" \/ (message'.pc = "idle" /\ message'.held.generation = 0)
    BY <1>0, <1>6 DEF Discard, DiscardColumns, IdleMessage, NoFrame
  <2>2. Delivering'
    BY <1>0, <2>1 DEF Delivery, Delivering, FrameDelivered, MarkerDelivered
  <2>3. OutBound' /\ Accepted'
    BY <1>0, <2>1 DEF Delivery, OutBound, Accepted
  <2>. QED  BY <1>1, <2>2, <2>3 DEF Delivery
<1>. QED  BY <1>2, <1>3, <1>4, <1>5, <1>6 DEF MessageSteps

\* A lifecycle that ends or begins has no episode, and no boundary of an earlier
\* one is of its generation
LEMMA DeliveryChange ==
    ASSUME Types, Lifecycles, Sides, Delivery, LifecycleSteps
    PROVE  Delivery'
<1> USE DEF captureVars, workVars
<1>0. /\ counter \in Nat /\ message.held.generation \in Nat /\ frame.generation \in Nat
      /\ markers \subseteq Nat /\ UNCHANGED <<worker, message>>
  BY DEF Types, LifecycleTypes, DeliveryTypes, FramesOut, LifecycleSteps, ChangeSteps,
         CloseGeneration, Reconfigure, CloseLifecycle, CancelJobs, Deactivates, Begins, Opens,
         Reconfigured
<1>1. CASE (\E op \in Changes : CloseGeneration(op)) \/ CloseLifecycle \/ Reconfigure \/ CancelJobs
  <2>1. UNCHANGED <<current, counter, episode, awaiting, frame, markers, seen>>
    BY <1>1 DEF CloseGeneration, CloseLifecycle, Reconfigure, CancelJobs
  <2>2. change'.pc # "open" /\ change.pc # "open"
    <3>1. CASE \E op \in Changes : CloseGeneration(op)
      <4>1. PICK op \in Changes : CloseGeneration(op)
        BY <3>1
      <4>. QED  BY <4>1 DEF CloseGeneration, Starts, Lifecycles, ChangeControl
    <3>2. CASE Reconfigure
      BY <3>2 DEF Reconfigure, Starts, Lifecycles, ChangeControl
    <3>3. CASE CloseLifecycle \/ CancelJobs
      BY <3>3 DEF CloseLifecycle, CancelJobs, Types, LifecycleTypes
    <3>. QED  BY <1>1, <3>1, <3>2, <3>3
  <2>3. Points' /\ Delivering'
    BY <1>0, <2>1 DEF Delivery, Points, Delivering, FrameDelivered, MarkerDelivered
  <2>. QED  BY <1>0, <2>1, <2>2, <2>3 DEF Delivery, Accepted, Past, OutBound
<1>2. CASE Deactivates
  <2>1. /\ worker.pc = "idle" /\ episode'.phase = "steady" /\ change'.pc = "none"
        /\ current'.capture = 0 /\ markers' \subseteq markers /\ UNCHANGED <<counter, frame>>
    BY <1>2 DEF Deactivates, Waited, Done, Steady, Types, LifecycleTypes
  <2>2. Points' /\ Delivering'
    BY <1>0, <2>1 DEF Points, Delivering
  <2>3. Accepted' /\ OutBound'
    BY <1>0, <2>1 DEF Delivery, Accepted, Past, OutBound
  <2>. QED  BY <2>2, <2>3 DEF Delivery
<1>3. CASE Begins
  <2>1. /\ worker.pc = "idle" /\ episode'.phase = "steady" /\ change'.pc = "open"
        /\ counter' = counter + 1 /\ markers' \subseteq markers
        /\ frame'.generation = counter + 1
    BY <1>3 DEF Begins, Steady, Types, LifecycleTypes
  <2>2. Points' /\ Delivering'
    BY <1>0, <2>1 DEF Points, Delivering
  <2>3. \A g \in Nat : g <= counter => g <= counter + 1 /\ g < counter + 1
    BY <1>0
  <2>4. counter + 1 <= counter + 1
    BY <1>0
  <2>5. OutBound'
    BY <1>0, <2>1, <2>3, <2>4 DEF Delivery, OutBound
  <2>6. message.pc # "discard" => message.held.generation < counter + 1
    BY <1>0, <2>3 DEF Delivery, OutBound
  <2>7. Accepted'
    BY <1>0, <2>1, <2>6 DEF Accepted, Past
  <2>. QED  BY <2>2, <2>5, <2>7 DEF Delivery
<1>4. CASE Opens
  <2>1. /\ change.pc = "open" /\ change'.pc = "none" /\ current'.capture = counter
        /\ UNCHANGED <<counter, episode, frame, markers, seen>>
    BY <1>4 DEF Opens, Done
  <2>2. worker.pc = "idle" /\ episode.phase = "steady"
    BY <2>1 DEF Lifecycles, ChangeControl, Sides, InEpisode
  <2>3. Points' /\ Delivering'
    BY <1>0, <2>1, <2>2 DEF Points, Delivering
  <2>4. \A g \in Nat : g < counter => g # counter
    BY <1>0
  <2>5. Accepted' /\ OutBound'
    BY <1>0, <2>1, <2>4 DEF Delivery, Accepted, Past, OutBound
  <2>. QED  BY <2>3, <2>5 DEF Delivery
<1>5. CASE Reconfigured
  <2>1. /\ change.pc = "wait" /\ change'.pc = "none" /\ current'.capture = current.capture
        /\ markers' \subseteq markers /\ UNCHANGED <<counter, episode, seen, awaiting>>
    BY <1>5 DEF Reconfigured, Waited, Done, Types, LifecycleTypes
  <2>2. frame'.generation <= counter
    BY <1>5 DEF Reconfigured, FrameAfterReconfiguration, Delivery, OutBound, Lifecycles,
                Generations
  <2>3. Points' /\ Delivering'
    BY <1>0, <2>1 DEF Delivery, Points, Delivering, FrameDelivered, MarkerDelivered
  <2>. QED  BY <1>0, <2>1, <2>2, <2>3 DEF Delivery, Accepted, Past, OutBound
<1>. QED  BY <1>1, <1>2, <1>3, <1>4, <1>5 DEF LifecycleSteps, ChangeSteps

\* The audio thread has no part in the delivery
LEMMA DeliveryAudio ==
    ASSUME Types, Delivery, BlockAdmits \/ AudioSteps
    PROVE  Delivery'
<1>1. UNCHANGED <<worker, episode, current, counter, change, awaiting, seen, message, frame,
                  markers>>
  BY DEF BlockAdmits, AudioSteps, BlockPublishes, BlockStores, BlockCounts, workVars
<1>. QED  BY <1>1 DEF Delivery, Points, Delivering, FrameDelivered, MarkerDelivered, Accepted,
                      Past, OutBound

-----------------------------------------------------------------------------
(***************************************************************************)
(* The invariant.                                                          *)
(***************************************************************************)
\* The initial state satisfies the invariant
LEMMA InitIInv == Init => IInv
<1> SUFFICES ASSUME Init PROVE IInv
  OBVIOUS
<1>1. Types
  BY InitTypes
<1>2. Lifecycles
  BY DEF Init, Lifecycles, ChangeControl, Generations, Closing, IdleWorker
<1>3. Producing
  BY DEF Init, Producing, NoBlock
<1>4. Stamped
  <2>1. << >> \in Seq(Announced) /\ NoInput \in Announced
    BY <1>1, StampFacts
  <2>2. /\ raw = << >> /\ meter = NoInput /\ block.input = NoInput /\ worker.input = NoInput
        /\ episode.raw = NoInput /\ episode.meter = NoInput
    BY DEF Init, NoBlock, IdleWorker, Steady
  <2>. QED  BY <2>1, <2>2 DEF Stamped
<1>5. Sides
  BY DEF Init, Sides, InEpisode, BetweenEpisodes, Opening, Steady
<1>6. Delivery
  BY DEF Init, Delivery, Points, Delivering, Accepted, OutBound, Steady, IdleWorker, NoFrame
<1>. QED  BY <1>1, <1>2, <1>3, <1>4, <1>5, <1>6 DEF IInv

\* Every step preserves the invariant
LEMMA NextIInv == IInv /\ [Next]_vars => IInv'
<1> SUFFICES ASSUME IInv, [Next]_vars PROVE IInv'
  OBVIOUS
<1>0. Types /\ Lifecycles /\ Producing /\ Stamped /\ Sides /\ Delivery
      /\ Points /\ Delivering /\ Accepted /\ OutBound
  BY DEF IInv, Delivery
<1>1. CASE BlockAdmits \/ AudioSteps
  <2>1. Types' /\ Lifecycles'
    BY <1>0, <1>1, TypesAudio, LifecyclesOthers
  <2>2. Producing' /\ Stamped'
    BY <1>0, <1>1, <2>1, ProducingAudio, StampedAudio
  <2>3. Sides' /\ Delivery'
    BY <1>0, <1>1, SidesAudio, DeliveryAudio
  <2>. QED  BY <2>1, <2>2, <2>3 DEF IInv
<1>2. CASE WorkerSteps \/ MarkerRefused
  <2>1. Types' /\ Lifecycles'
    BY <1>0, <1>2, TypesWorker, LifecyclesWorker
  <2>2. Producing' /\ Stamped'
    BY <1>0, <1>2, <2>1, ProducingOthers, StampedOthers
  <2>3. Sides'
    BY <1>0, <1>2, SidesWorker
  <2>4. Points' /\ Delivering'
    BY <1>0, <1>2, PointsWorker, DeliveringWorker
  <2>5. Accepted' /\ OutBound'
    BY <1>0, <1>2, AcceptedWorker
  <2>. QED  BY <2>1, <2>2, <2>3, <2>4, <2>5 DEF IInv, Delivery
<1>3. CASE MessageSteps \/ Discard
  <2>1. Types' /\ Lifecycles'
    BY <1>0, <1>3, TypesMessage, LifecyclesOthers
  <2>2. Producing' /\ Stamped'
    BY <1>0, <1>3, <2>1, ProducingOthers, StampedOthers
  <2>3. Sides' /\ Delivery'
    BY <1>0, <1>3, <2>1, SidesOthers, DeliveryMessage
  <2>. QED  BY <2>1, <2>2, <2>3 DEF IInv
<1>4. CASE LifecycleSteps
  <2>1. Types' /\ Lifecycles'
    BY <1>0, <1>4, TypesChange, LifecyclesChange
  <2>2. Producing' /\ Stamped'
    BY <1>0, <1>4, <2>1, ProducingOthers, StampedOthers
  <2>3. Sides' /\ Delivery'
    BY <1>0, <1>4, <2>1, SidesOthers, DeliveryChange
  <2>. QED  BY <2>1, <2>2, <2>3 DEF IInv
<1>5. CASE UNCHANGED vars
  <2> USE <1>5 DEF vars, workVars, captureVars
  <2>1. Types' /\ Lifecycles'
    BY <1>0 DEF Types, LifecycleTypes, InputTypes, WorkTypes, DeliveryTypes, Lifecycles,
                ChangeControl, Generations, Closing
  <2>2. Producing' /\ Stamped'
    BY <1>0 DEF Producing, Stamped, Announced
  <2>3. Sides'
    BY <1>0 DEF Sides, InEpisode, BetweenEpisodes, Opening, Analysable
  <2>4. Delivery'
    BY <1>0 DEF Delivery, Points, Delivering, FrameDelivered, MarkerDelivered, Accepted,
                Past, OutBound
  <2>. QED  BY <2>1, <2>2, <2>3, <2>4 DEF IInv
<1>. QED  BY <1>1, <1>2, <1>3, <1>4, <1>5 DEF Next, LifecycleSteps

\* The strengthening of the invariants is an invariant
THEOREM BoundaryInvariant == Spec => []IInv
BY InitIInv, NextIInv, PTL DEF Spec

-----------------------------------------------------------------------------
(***************************************************************************)
(* The promises.                                                           *)
(***************************************************************************)
\* closeCapture(): however a gap and a change of lifecycle meet, the worker's
\* compare-exchange does not bring back the generation the change took away
THEOREM ChangeIsNotUndone == Spec => []CaptureNotResurrected
<1>1. IInv => CaptureNotResurrected
  BY DEF IInv, Lifecycles, ChangeControl, Closing, CaptureNotResurrected
<1>. QED  BY <1>1, BoundaryInvariant, PTL

\* handleCaptureDiscontinuity(): what the analysers hold is from one side of
\* every gap, through any number of gaps, recoveries and lifecycles
THEOREM SidesNeverMeet == Spec => []OneSideOfGap
<1>1. IInv => OneSideOfGap
  <2> SUFFICES ASSUME IInv, NEW i \in content
               PROVE  i = [life |-> current.life,
                           revision |-> IF episode.phase = "recovering" THEN episode.revision
                                        ELSE applied]
    BY DEF OneSideOfGap
  <2>1. i = [life |-> current.life, revision |-> applied]
    BY DEF IInv, Sides, Analysable
  <2>2. episode.phase = "recovering" => episode.revision = applied
    BY DEF IInv, Sides, InEpisode
  <2>. QED  BY <2>1, <2>2
<1>. QED  BY <1>1, BoundaryInvariant, PTL

\* The recovery begins when the renderer has accepted the boundary frame and the
\* boundary marker of the episode, whatever was refused, discarded or taken late
THEOREM BoundaryBeforeRecovery == Spec => []RecoveryAfterDelivery
<1>1. IInv => RecoveryAfterDelivery
  BY DEF IInv, Delivery, Points, Delivering, RecoveryAfterDelivery
<1>. QED  BY <1>1, BoundaryInvariant, PTL

=============================================================================
