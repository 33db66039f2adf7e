-------------------- MODULE SharedAnalysisSchedulerProofs --------------------
(***************************************************************************)
(* What holds of the shared scheduler for any set of clients, any finite     *)
(* set of workers and any bound on the generations.                          *)
(***************************************************************************)
EXTENDS SharedAnalysisScheduler, SequenceTheorems, TLAPS

-----------------------------------------------------------------------------
(***************************************************************************)
(* The ready queue: a duplicate-free sequence of clients.                    *)
(***************************************************************************)
\* Pushing a client that has no entry adds one, at the end.
LEMMA AppendQueue ==
    ASSUME NEW q \in Seq(Clients), IsInjective(q), NEW c \in Clients, ~Contains(q, c)
    PROVE  /\ Append(q, c) \in Seq(Clients)
           /\ IsInjective(Append(q, c))
           /\ \A x : Contains(Append(q, c), x) <=> Contains(q, x) \/ x = c
BY AppendProperties, LenProperties DEF Contains, IsInjective

\* Popping the head removes exactly that client's entry.
LEMMA TailQueue ==
    ASSUME NEW q \in Seq(Clients), IsInjective(q), q # <<>>
    PROVE  /\ Tail(q) \in Seq(Clients)
           /\ IsInjective(Tail(q))
           /\ Head(q) \in Clients
           /\ Contains(q, Head(q))
           /\ \A x : Contains(Tail(q), x) <=> Contains(q, x) /\ x # Head(q)
<1>1. /\ Tail(q) \in Seq(Clients)
      /\ Head(q) = q[1]
      /\ Head(q) \in Clients
      /\ Len(q) \in Nat \ {0}
      /\ DOMAIN q = 1..Len(q)
      /\ DOMAIN Tail(q) = 1..(Len(q) - 1)
      /\ \A i \in 1..(Len(q) - 1) : Tail(q)[i] = q[i + 1]
  BY HeadTailProperties, LenProperties, EmptySeq
<1>2. IsInjective(Tail(q))
  BY <1>1 DEF IsInjective
<1>3. Contains(q, Head(q))
  BY <1>1 DEF Contains
<1>4. ASSUME NEW x PROVE Contains(Tail(q), x) <=> Contains(q, x) /\ x # Head(q)
  <2>1. ASSUME Contains(Tail(q), x) PROVE Contains(q, x) /\ x # Head(q)
    BY <1>1, <2>1 DEF Contains, IsInjective
  <2>2. ASSUME Contains(q, x), x # Head(q) PROVE Contains(Tail(q), x)
    <3>1. PICK i \in DOMAIN q : q[i] = x
      BY <2>2 DEF Contains
    <3>2. i - 1 \in DOMAIN Tail(q) /\ Tail(q)[i - 1] = x
      BY <1>1, <2>2, <3>1
    <3>. QED  BY <3>2 DEF Contains
  <2>. QED  BY <2>1, <2>2
<1>. QED  BY <1>1, <1>2, <1>3, <1>4

\* Removing position k keeps every other element in its order.
LEMMA RemoveAtProperties ==
    ASSUME NEW S, NEW q \in Seq(S), NEW k \in 1..Len(q)
    PROVE  /\ RemoveAt(q, k) \in Seq(S)
           /\ Len(RemoveAt(q, k)) = Len(q) - 1
           /\ \A i \in 1..(k - 1) : RemoveAt(q, k)[i] = q[i]
           /\ \A i \in k..(Len(q) - 1) : RemoveAt(q, k)[i] = q[i + 1]
<1> DEFINE a == SubSeq(q, 1, k - 1)
           b == SubSeq(q, k + 1, Len(q))
<1>1. a \in Seq(S) /\ Len(a) = k - 1
  OBVIOUS
<1>2. b \in Seq(S) /\ Len(b) = Len(q) - k
  OBVIOUS
<1>3. \A i \in 1..(k - 1) : a[i] = q[i]
  OBVIOUS
<1>4. \A i \in 1..(Len(q) - k) : b[i] = q[k + i]
  OBVIOUS
<1>5. RemoveAt(q, k) = a \o b
  BY DEF RemoveAt
<1> HIDE DEF a, b
<1>6. /\ a \o b \in Seq(S)
      /\ Len(a \o b) = Len(a) + Len(b)
      /\ \A i \in 1..(Len(a) + Len(b)) : (a \o b)[i] = IF i <= Len(a) THEN a[i] ELSE b[i - Len(a)]
  BY <1>1, <1>2, ConcatProperties
<1>7. Len(a \o b) = Len(q) - 1
  BY <1>1, <1>2, <1>6
<1>8. ASSUME NEW i \in 1..(k - 1) PROVE (a \o b)[i] = q[i]
  <2>1. i \in 1..(Len(a) + Len(b)) /\ i <= Len(a)
    BY <1>1, <1>2
  <2>. QED  BY <1>3, <1>6, <2>1
<1>9. ASSUME NEW i \in k..(Len(q) - 1) PROVE (a \o b)[i] = q[i + 1]
  <2>1. i \in 1..(Len(a) + Len(b)) /\ ~(i <= Len(a)) /\ i - Len(a) = i - k + 1
        /\ i - k + 1 \in 1..(Len(q) - k) /\ k + (i - k + 1) = i + 1
    BY <1>1, <1>2
  <2>2. (a \o b)[i] = b[i - k + 1]
    BY <1>6, <2>1
  <2>3. b[i - k + 1] = q[k + (i - k + 1)]
    BY <1>4, <2>1
  <2>. QED  BY <2>1, <2>2, <2>3
<1>. QED  BY <1>5, <1>6, <1>7, <1>8, <1>9

\* eraseQueuedEntriesFor removes the client's entry and keeps every other one.
LEMMA EraseQueue ==
    ASSUME NEW q \in Seq(Clients), IsInjective(q), NEW c \in Clients
    PROVE  /\ RemoveFirst(q, c) \in Seq(Clients)
           /\ IsInjective(RemoveFirst(q, c))
           /\ \A x : Contains(RemoveFirst(q, c), x) <=> Contains(q, x) /\ x # c
<1>1. DOMAIN q = 1..Len(q) /\ Len(q) \in Nat
  BY LenProperties
<1>2. CASE ~Contains(q, c)
  <2>1. RemoveFirst(q, c) = q
    BY <1>1, <1>2 DEF RemoveFirst, Contains
  <2>. QED  BY <1>2, <2>1 DEF Contains
<1>3. CASE Contains(q, c)
  <2> DEFINE S == {i \in 1..Len(q) : q[i] = c}
             r == RemoveFirst(q, c)
  <2>1. PICK k \in 1..Len(q) : q[k] = c
    BY <1>1, <1>3 DEF Contains
  <2>2. S = {k}
    BY <1>1, <2>1 DEF IsInjective
  <2>3. SelectInSeq(q, LAMBDA v : v = c) = k
    <3>1. SelectInSeq(q, LAMBDA v : v = c) = Min(S)
      BY <2>2 DEF SelectInSeq
    <3>2. Min(S) = k
      BY <2>2 DEF Min
    <3>. QED  BY <3>1, <3>2
  <2>4. r = RemoveAt(q, k)
    BY <2>1, <2>3 DEF RemoveFirst
  <2>5. /\ r \in Seq(Clients)
        /\ Len(r) = Len(q) - 1
        /\ \A i \in 1..(k - 1) : r[i] = q[i]
        /\ \A i \in k..(Len(q) - 1) : r[i] = q[i + 1]
    BY <2>4, RemoveAtProperties
  <2> HIDE DEF r
  <2>6. DOMAIN r = 1..(Len(q) - 1)
    BY <2>5, LenProperties
  <2>7. IsInjective(r)
    <3>1. SUFFICES ASSUME NEW i \in 1..(Len(q) - 1), NEW j \in 1..(Len(q) - 1),
                          r[i] = r[j]
                   PROVE  i = j
      BY <2>6 DEF IsInjective
    <3> DEFINE at(n) == IF n < k THEN n ELSE n + 1
    <3>2. /\ at(i) \in 1..Len(q) /\ r[i] = q[at(i)]
          /\ at(j) \in 1..Len(q) /\ r[j] = q[at(j)]
      BY <1>1, <2>1, <2>5
    <3>3. at(i) = at(j)
      <4> HIDE DEF at
      <4>. QED  BY <1>1, <3>1, <3>2 DEF IsInjective
    <3>. QED  BY <1>1, <2>1, <3>3
  <2>8. ASSUME NEW x PROVE Contains(r, x) <=> Contains(q, x) /\ x # c
    <3>1. ASSUME Contains(r, x) PROVE Contains(q, x) /\ x # c
      <4>1. PICK i \in 1..(Len(q) - 1) : r[i] = x
        BY <2>5, <3>1 DEF Contains
      <4>2. PICK j \in 1..Len(q) : q[j] = x /\ j # k
        BY <1>1, <2>1, <2>5, <4>1
      <4>. QED  BY <1>1, <2>1, <4>2 DEF Contains, IsInjective
    <3>2. ASSUME Contains(q, x), x # c PROVE Contains(r, x)
      <4>1. PICK i \in 1..Len(q) : q[i] = x /\ i # k
        BY <1>1, <2>1, <3>2 DEF Contains
      <4>2. CASE i < k
        BY <1>1, <2>1, <2>5, <2>6, <4>1, <4>2 DEF Contains
      <4>3. CASE i > k
        <5>1. i - 1 \in DOMAIN r /\ r[i - 1] = x
          BY <1>1, <2>1, <2>5, <2>6, <4>1, <4>3
        <5>. QED  BY <5>1 DEF Contains
      <4>. QED  BY <1>1, <2>1, <4>1, <4>2, <4>3
    <3>. QED  BY <3>1, <3>2
  <2>. QED  BY <2>5, <2>7, <2>8 DEF r
<1>. QED  BY <1>2, <1>3

-----------------------------------------------------------------------------
(***************************************************************************)
(* The inductive invariant.                                                *)
(***************************************************************************)
\* A worker holds a client's state and target exactly between pop and release,
\* and a stop flag exists only while a job runs.
JobShape ==
    /\ \A w \in Workers :
          workerPc[w] \in {"executing", "releasing"} <=> job[w] # NoClient
    /\ runningStopFlag \subseteq running

\* A thread inside a blocking call retains the service through its client.
CallersRetainService ==
    /\ \A c \in Clients : call[c] # "none" => c \in owners
    /\ \A c \in idleWaiters : call[c] # "none"

IInv ==
    /\ TypeOK
    /\ JobShape
    /\ CallersRetainService
    /\ OneExecutionPerClient
    /\ QueueMatchesFlags
    /\ RequestsAccountedFor
    /\ StaleWorkStopped
    /\ QuietAfterWait
    /\ NoLostWakeup

USE SchedulerAssumption

LEMMA InitIInv == Init => IInv
<1> SUFFICES ASSUME Init PROVE IInv
  OBVIOUS
<1> USE DEF Init, ClientsInit, ServiceInit
<1>1. TypeOK
  BY EmptySeq DEF TypeOK, Generations, FirstGeneration
<1>2. JobShape /\ CallersRetainService
  BY DEF JobShape, CallersRetainService
<1>3. OneExecutionPerClient
  BY DEF OneExecutionPerClient, Executing
<1>4. QueueMatchesFlags
  BY DEF QueueMatchesFlags, Contains, IsInjective
<1>5. RequestsAccountedFor
  BY DEF RequestsAccountedFor, Outstanding
<1>6. StaleWorkStopped /\ QuietAfterWait /\ NoLostWakeup
  BY DEF StaleWorkStopped, Executing, QuietAfterWait, NoLostWakeup
<1>. QED  BY <1>1, <1>2, <1>3, <1>4, <1>5, <1>6 DEF IInv

LEMMA RequestAcceptedStep ==
    ASSUME IInv, NEW c \in Clients, RequestAccepted(c)
    PROVE  IInv'
<1> USE DEF IInv
<1>1. /\ readyQueue' \in Seq(Clients)
      /\ IsInjective(readyQueue')
      /\ \A x \in Clients : Contains(readyQueue', x) <=> x \in queued'
      /\ readyQueue' # <<>> => readyWaiters' # Workers
      /\ readyWaiters' \subseteq Workers
  <2>1. CASE FollowsUp(c) \/ c \in queued
    BY <2>1 DEF RequestAccepted, QueueMatchesFlags, NoLostWakeup, TypeOK
  <2>2. CASE ~FollowsUp(c) /\ c \notin queued
    <3>1. /\ readyQueue \in Seq(Clients)
          /\ IsInjective(readyQueue)
          /\ ~Contains(readyQueue, c)
          /\ readyQueue' = Append(readyQueue, c)
      BY <2>2 DEF RequestAccepted, QueueMatchesFlags, TypeOK
    <3>2. readyWaiters' # Workers /\ readyWaiters' \subseteq Workers
      BY <2>2 DEF RequestAccepted, NotifyOneWorker, TypeOK
    <3>. QED  BY <2>2, <3>1, <3>2, AppendQueue DEF RequestAccepted, QueueMatchesFlags
  <2>. QED  BY <2>1, <2>2
<1>2. TypeOK'
  <2>1. /\ FollowUpsReplaced(c) \in Int
        /\ QueuedOnly(c) \in Int
        /\ currentGeneration[c] \in Generations
    BY DEF FollowUpsReplaced, QueuedOnly, TypeOK
  <2>2. CASE FollowsUp(c)
    <3>1. followUpGeneration' \in [Clients -> Generations]
      BY <2>1, <2>2 DEF TypeOK, RequestAccepted
    <3>2. ledger' \in [Clients -> Int]
      BY <2>1, <2>2 DEF TypeOK, RequestAccepted
    <3>. QED  BY <1>1, <2>2, <3>1, <3>2 DEF TypeOK, RequestAccepted, ownerVars, workerVars
  <2>3. CASE ~FollowsUp(c)
    <3>1. queuedGeneration' \in [Clients -> Generations]
      BY <2>1, <2>3 DEF TypeOK, RequestAccepted
    <3>2. ledger' \in [Clients -> Int]
      BY <2>1, <2>3 DEF TypeOK, RequestAccepted
    <3>. QED  BY <1>1, <2>3, <3>1, <3>2 DEF TypeOK, RequestAccepted, ownerVars, workerVars
  <2>. QED  BY <2>2, <2>3
<1>3. JobShape' /\ CallersRetainService'
  BY DEF JobShape, CallersRetainService, RequestAccepted, ownerVars, workerVars
<1>4. OneExecutionPerClient'
  BY DEF OneExecutionPerClient, Executing, RequestAccepted, workerVars
<1>5. QueueMatchesFlags'
  BY <1>1 DEF QueueMatchesFlags, RequestAccepted, FollowsUp
<1>6. RequestsAccountedFor'
  <2>1. CASE FollowsUp(c)
    BY <2>1 DEF RequestsAccountedFor, Outstanding, RequestAccepted, TypeOK, FollowUpsReplaced
  <2>2. CASE ~FollowsUp(c)
    BY <2>2 DEF RequestsAccountedFor, Outstanding, RequestAccepted, TypeOK, QueuedOnly
  <2>. QED  BY <2>1, <2>2
<1>7. StaleWorkStopped'
  BY DEF StaleWorkStopped, Executing, RequestAccepted, TypeOK, workerVars, RequestRefused,
         TargetExpired, ownerVars
<1>8. QuietAfterWait'
  BY DEF QuietAfterWait, RequestAccepted
<1>9. NoLostWakeup'
  BY <1>1 DEF NoLostWakeup, RequestAccepted, IsIdle
<1>. QED  BY <1>2, <1>3, <1>4, <1>5, <1>6, <1>7, <1>8, <1>9
\* Owners only change who holds the service and the targets.
LEMMA OwnerStep ==
    ASSUME IInv, NEW c \in Clients, OwnerNext(c)
    PROVE  IInv'
<1> USE DEF IInv, OwnerNext, Acquire, CreateClient, DropTarget, ReleaseService,
            clientVars, flagVars, genVars, callVars, workerVars
<1>1. TypeOK'
  BY DEF TypeOK
<1>2. JobShape' /\ OneExecutionPerClient'
  BY DEF JobShape, OneExecutionPerClient, Executing
<1>3. CallersRetainService'
  BY DEF CallersRetainService
<1>4. QueueMatchesFlags' /\ RequestsAccountedFor'
  BY DEF QueueMatchesFlags, RequestsAccountedFor, Outstanding
<1>5. StaleWorkStopped'
  BY DEF StaleWorkStopped, Executing, TargetExpired
<1>6. QuietAfterWait' /\ NoLostWakeup'
  BY DEF QuietAfterWait, NoLostWakeup, IsIdle
<1>. QED  BY <1>1, <1>2, <1>3, <1>4, <1>5, <1>6

\* A rejected request closes at most the client of an expired target, which no
\* worker executes.
LEMMA RequestRejectedStep ==
    ASSUME IInv, NEW c \in Clients, RequestRejected(c)
    PROVE  IInv'
<1> USE DEF IInv, RequestRejected, AcceptingAfterRefusal, ownerVars, genVars, callVars, workerVars
<1>1. TypeOK'
  BY DEF TypeOK
<1>2. JobShape' /\ OneExecutionPerClient' /\ CallersRetainService'
  BY DEF JobShape, OneExecutionPerClient, Executing, CallersRetainService
<1>3. QueueMatchesFlags' /\ RequestsAccountedFor'
  BY DEF QueueMatchesFlags, RequestsAccountedFor, Outstanding
<1>4. StaleWorkStopped'
  <2>1. CASE TargetExpired(c)
    <3>1. Executing(c) = {} /\ c \notin running /\ c \notin followUpRequested
      BY <2>1 DEF TargetExpired, Executing, OneExecutionPerClient, QueueMatchesFlags
    <3>. QED  BY <2>1, <3>1 DEF StaleWorkStopped, Executing, TargetExpired
  <2>2. CASE ~TargetExpired(c)
    BY <2>2 DEF StaleWorkStopped, Executing, TargetExpired
  <2>. QED  BY <2>1, <2>2
<1>5. QuietAfterWait' /\ NoLostWakeup'
  BY DEF QuietAfterWait, NoLostWakeup, IsIdle
<1>. QED  BY <1>1, <1>2, <1>3, <1>4, <1>5

\* What the two cancelling calls do to the queue and to the accounts.
LEMMA CancelOutstandingEffect ==
    ASSUME IInv, NEW c \in Clients, CancelOutstanding(c)
    PROVE  /\ readyQueue' \in Seq(Clients)
           /\ IsInjective(readyQueue')
           /\ \A x \in Clients : Contains(readyQueue', x) <=> x \in queued'
           /\ readyQueue' # <<>> => readyQueue # <<>>
           /\ ledger' \in [Clients -> Int]
           /\ \A x \in Clients : ledger'[x] = Outstanding(x)'
           /\ queued' = queued \ {c}
           /\ followUpRequested' = followUpRequested \ {c}
<1> USE DEF IInv
<1>1. /\ readyQueue \in Seq(Clients)
      /\ IsInjective(readyQueue)
      /\ readyQueue' = RemoveFirst(readyQueue, c)
  BY DEF TypeOK, QueueMatchesFlags, CancelOutstanding, ErasedQueue
<1>2. /\ readyQueue' \in Seq(Clients)
      /\ IsInjective(readyQueue')
      /\ \A x : Contains(readyQueue', x) <=> Contains(readyQueue, x) /\ x # c
  BY <1>1, EraseQueue
<1>3. \A x \in Clients : Contains(readyQueue', x) <=> x \in queued'
  BY <1>2 DEF CancelOutstanding, QueueMatchesFlags
<1>4. readyQueue' # <<>> => readyQueue # <<>>
  <2>1. ASSUME readyQueue = <<>> PROVE RemoveFirst(readyQueue, c) = <<>>
    BY <2>1 DEF RemoveFirst
  <2>. QED  BY <1>1, <2>1
<1>5. ledger[c] \in Int /\ Outstanding(c) \in Int
  BY DEF TypeOK, Outstanding
<1>6. ledger' \in [Clients -> Int]
  BY <1>5 DEF TypeOK, CancelOutstanding
<1>7. ASSUME NEW x \in Clients PROVE ledger'[x] = Outstanding(x)'
  <2>1. CASE x = c
    <3>1. ledger'[c] = ledger[c] - Outstanding(c)
      BY DEF CancelOutstanding, TypeOK
    <3>2. Outstanding(c)' = 0
      BY DEF Outstanding, CancelOutstanding
    <3>. QED  BY <1>5, <2>1, <3>1, <3>2 DEF RequestsAccountedFor
  <2>2. CASE x # c
    BY <2>2 DEF CancelOutstanding, TypeOK, RequestsAccountedFor, Outstanding
  <2>. QED  BY <2>1, <2>2
<1>. QED  BY <1>2, <1>3, <1>4, <1>6, <1>7 DEF CancelOutstanding

LEMMA CancelAndAdvanceStep ==
    ASSUME IInv, NEW c \in Clients, CancelAndAdvanceGeneration(c)
    PROVE  IInv'
<1> USE DEF IInv
<1>1. CancelOutstanding(c) /\ runningStopFlag' = RaisedStopFlag(c)
  BY DEF CancelAndAdvanceGeneration, CancelOutstanding
<1>2. currentGeneration' \in [Clients -> Generations]
  <2>1. currentGeneration[c] + 1 \in Generations
    BY DEF CancelAndAdvanceGeneration, TypeOK, Generations
  <2>. QED  BY <2>1 DEF CancelAndAdvanceGeneration, TypeOK
<1>3. TypeOK'
  BY <1>1, <1>2, CancelOutstandingEffect
     DEF TypeOK, CancelAndAdvanceGeneration, RaisedStopFlag, NotifyIdle, ownerVars, workerVars
<1>4. JobShape' /\ OneExecutionPerClient' /\ CallersRetainService'
  BY <1>1 DEF JobShape, OneExecutionPerClient, Executing, CallersRetainService,
              CancelAndAdvanceGeneration, RaisedStopFlag, NotifyIdle, ownerVars, workerVars
<1>5. QueueMatchesFlags'
  BY <1>1, CancelOutstandingEffect DEF QueueMatchesFlags, CancelAndAdvanceGeneration
<1>6. RequestsAccountedFor'
  BY <1>1, CancelOutstandingEffect DEF RequestsAccountedFor
<1>7. StaleWorkStopped'
  BY <1>1, CancelOutstandingEffect
     DEF StaleWorkStopped, Executing, OneExecutionPerClient, CancelAndAdvanceGeneration, RaisedStopFlag,
         TargetExpired, TypeOK, ownerVars, workerVars
<1>8. QuietAfterWait'
  BY <1>1, CancelOutstandingEffect DEF QuietAfterWait, CancelAndAdvanceGeneration
<1>9. NoLostWakeup'
  BY <1>1, CancelOutstandingEffect DEF NoLostWakeup, CancelAndAdvanceGeneration, NotifyIdle
<1>. QED  BY <1>3, <1>4, <1>5, <1>6, <1>7, <1>8, <1>9

LEMMA WaitUntilIdleStep ==
    ASSUME IInv, NEW c \in Clients, WaitUntilIdle(c)
    PROVE  IInv'
<1> USE DEF IInv, WaitUntilIdle, ownerVars, clientVars, flagVars, genVars, workerVars
<1>1. TypeOK'
  BY DEF TypeOK
<1>2. JobShape' /\ OneExecutionPerClient'
  BY DEF JobShape, OneExecutionPerClient, Executing
<1>3. CallersRetainService'
  BY DEF CallersRetainService, CanCall, TypeOK
<1>4. QueueMatchesFlags' /\ RequestsAccountedFor'
  BY DEF QueueMatchesFlags, RequestsAccountedFor, Outstanding
<1>5. StaleWorkStopped'
  BY DEF StaleWorkStopped, Executing, TargetExpired
<1>6. QuietAfterWait' /\ NoLostWakeup'
  BY DEF QuietAfterWait, NoLostWakeup, IsIdle
<1>. QED  BY <1>1, <1>2, <1>3, <1>4, <1>5, <1>6

\* What both forms of cancelAndWait() share.
CloseClient(c) ==
    /\ accepting' = accepting \ {c}
    /\ CancelOutstanding(c)
    /\ runningStopFlag' = RaisedStopFlag(c)
    /\ readyWaiters' = {}
    /\ UNCHANGED <<ownerVars, running, genVars, workerVars, shutdown>>

LEMMA CloseClientEffect ==
    ASSUME IInv, NEW c \in Clients, CloseClient(c)
    PROVE  /\ JobShape' /\ OneExecutionPerClient' /\ QueueMatchesFlags'
           /\ RequestsAccountedFor' /\ StaleWorkStopped'
           /\ readyQueue' # <<>> => readyWaiters' # Workers
<1> USE DEF IInv, CloseClient
<1>1. JobShape' /\ OneExecutionPerClient'
  BY DEF JobShape, OneExecutionPerClient, Executing, RaisedStopFlag, workerVars
<1>2. QueueMatchesFlags'
  BY CancelOutstandingEffect DEF QueueMatchesFlags
<1>3. RequestsAccountedFor'
  BY CancelOutstandingEffect DEF RequestsAccountedFor
<1>4. StaleWorkStopped'
  BY CancelOutstandingEffect
     DEF StaleWorkStopped, Executing, OneExecutionPerClient, RaisedStopFlag, TargetExpired,
         ownerVars, genVars, workerVars
<1>. QED  BY <1>1, <1>2, <1>3, <1>4

LEMMA CancelAndWaitStep ==
    ASSUME IInv, NEW c \in Clients, CancelAndWait(c)
    PROVE  IInv'
<1> USE DEF IInv
<1>1. CloseClient(c)
  BY DEF CancelAndWait, CancelOutstanding, CloseClient, NotifyAllWorkers
<1>2. TypeOK'
  BY <1>1, CancelOutstandingEffect
     DEF CloseClient, TypeOK, CancelAndWait, RaisedStopFlag, NotifyIdle, ownerVars, genVars, workerVars
<1>3. CallersRetainService'
  BY DEF CallersRetainService, CancelAndWait, CanCall, NotifyIdle, TypeOK, ownerVars
<1>4. c \notin queued' /\ c \notin followUpRequested'
  BY <1>1, CancelOutstandingEffect DEF CloseClient
<1>5. QuietAfterWait'
  BY <1>1, <1>4, CancelOutstandingEffect DEF CloseClient, QuietAfterWait, CancelAndWait
<1>6. \A x \in idleWaiters' : ~IsIdle(x)'
  BY <1>1 DEF CloseClient, CancelAndWait, NotifyIdle, IsIdle
<1>. QED  BY <1>1, <1>2, <1>3, <1>5, <1>6, CloseClientEffect DEF NoLostWakeup

LEMMA CancelAndWaitFromJobStep ==
    ASSUME IInv, NEW c \in Clients, CancelAndWaitFromJob(c)
    PROVE  IInv'
<1> USE DEF IInv
<1>1. CloseClient(c)
  BY DEF CancelAndWaitFromJob, CancelOutstanding, CloseClient, NotifyAllWorkers
<1>2. TypeOK'
  BY <1>1, CancelOutstandingEffect
     DEF CloseClient, TypeOK, CancelAndWaitFromJob, RaisedStopFlag, NotifyIdle, ownerVars, genVars,
         workerVars
<1>3. CallersRetainService'
  BY DEF CallersRetainService, CancelAndWaitFromJob, NotifyIdle, ownerVars
<1>4. QuietAfterWait'
  BY <1>1, CancelOutstandingEffect DEF CloseClient, QuietAfterWait, CancelAndWaitFromJob
<1>5. \A x \in idleWaiters' : ~IsIdle(x)'
  BY DEF CancelAndWaitFromJob, NotifyIdle
<1>. QED  BY <1>1, <1>2, <1>3, <1>4, <1>5, CloseClientEffect DEF NoLostWakeup

\* Steps that only move threads between running and sleeping on a condition.
LEMMA WaiterStep ==
    ASSUME IInv,
           (\E c \in Clients : WaiterReturns(c) \/ WaiterSleepsAgain(c)) \/ SpuriousWakeup
    PROVE  IInv'
<1> USE DEF IInv, WaiterReturns, WaiterSleepsAgain, SpuriousWakeup, ownerVars, clientVars, flagVars,
            genVars, workerVars
<1>1. TypeOK'
  BY DEF TypeOK
<1>2. JobShape' /\ OneExecutionPerClient'
  BY DEF JobShape, OneExecutionPerClient, Executing
<1>3. CallersRetainService'
  BY DEF CallersRetainService, TypeOK
<1>4. QueueMatchesFlags' /\ RequestsAccountedFor'
  BY DEF QueueMatchesFlags, RequestsAccountedFor, Outstanding
<1>5. StaleWorkStopped'
  BY DEF StaleWorkStopped, Executing, TargetExpired
<1>6. QuietAfterWait'
  BY DEF QuietAfterWait, IsIdle
<1>7. NoLostWakeup'
  BY DEF NoLostWakeup, IsIdle, TypeOK
<1>. QED  BY <1>1, <1>2, <1>3, <1>4, <1>5, <1>6, <1>7

LEMMA WorkerLoopStep ==
    ASSUME IInv, NEW w \in Workers,
           WorkerSleeps(w) \/ WorkerExits(w) \/ WorkerReleasesTarget(w)
    PROVE  IInv'
<1> USE DEF IInv, WorkerSleeps, WorkerExits, WorkerReleasesTarget, AwakeInLoop, ownerVars, clientVars,
            flagVars, genVars, callVars, workerVars
<1>1. TypeOK'
  BY DEF TypeOK
<1>2. JobShape'
  BY DEF JobShape, TypeOK
<1>3. \A x \in Clients : Executing(x)' = Executing(x)
  BY DEF Executing, TypeOK
<1>4. OneExecutionPerClient'
  BY <1>3 DEF OneExecutionPerClient
<1>5. CallersRetainService'
  BY DEF CallersRetainService
<1>6. QueueMatchesFlags' /\ RequestsAccountedFor'
  BY DEF QueueMatchesFlags, RequestsAccountedFor, Outstanding
<1>7. \A x \in Clients : TargetExpired(x) => TargetExpired(x)'
  BY DEF TargetExpired, TypeOK
<1>8. StaleWorkStopped'
  BY <1>3, <1>7 DEF StaleWorkStopped
<1>9. QuietAfterWait' /\ NoLostWakeup'
  BY DEF QuietAfterWait, NoLostWakeup, IsIdle
<1>. QED  BY <1>1, <1>2, <1>4, <1>5, <1>6, <1>8, <1>9

\* What taking the head entry does, whether its job runs or is discarded.
LEMMA PopEffect ==
    ASSUME IInv, readyQueue # <<>>, readyQueue' = Tail(readyQueue),
           queued' = queued \ {Head(readyQueue)}
    PROVE  /\ Head(readyQueue) \in Clients
           /\ Head(readyQueue) \in queued
           /\ readyQueue' \in Seq(Clients)
           /\ IsInjective(readyQueue')
           /\ \A x \in Clients : Contains(readyQueue', x) <=> x \in queued'
<1>1. readyQueue \in Seq(Clients) /\ IsInjective(readyQueue)
  BY DEF IInv, TypeOK, QueueMatchesFlags
<1>. QED  BY <1>1, TailQueue DEF IInv, QueueMatchesFlags

LEMMA WorkerDiscardsStep ==
    ASSUME IInv, NEW w \in Workers, WorkerDiscards(w)
    PROVE  IInv'
<1> DEFINE c == Head(readyQueue)
<1> USE DEF IInv
<1>1. /\ c \in Clients
      /\ c \in queued
      /\ readyQueue' \in Seq(Clients)
      /\ IsInjective(readyQueue')
      /\ \A x \in Clients : Contains(readyQueue', x) <=> x \in queued'
      /\ queued' = queued \ {c}
  BY PopEffect DEF WorkerDiscards
<1>2. /\ ledger' = [ledger EXCEPT ![c] = @ - 1]
      /\ accepting' \in {accepting, accepting \ {c}}
  BY <1>1 DEF WorkerDiscards, QueuedOnly
<1>3. c \notin running /\ c \notin followUpRequested
  BY <1>1 DEF QueueMatchesFlags
<1> USE DEF ownerVars, genVars, workerVars, NotifyIdle
<1>4. ledger' \in [Clients -> Int]
  BY <1>1, <1>2 DEF TypeOK
<1>5. UNCHANGED <<owners, registered, targetHeld, running, followUpRequested, genVars,
                  runningStopFlag, call, drained, readyWaiters, workerVars, shutdown>>
      /\ idleWaiters' = {} /\ AwakeInLoop(w)
  BY DEF WorkerDiscards
<1> HIDE DEF c
<1>6. TypeOK'
  BY <1>1, <1>2, <1>4, <1>5 DEF TypeOK
<1>7. JobShape' /\ OneExecutionPerClient' /\ CallersRetainService'
  BY <1>5 DEF JobShape, OneExecutionPerClient, Executing, CallersRetainService
<1>8. QueueMatchesFlags'
  BY <1>1, <1>5 DEF QueueMatchesFlags
<1>9. RequestsAccountedFor'
  BY <1>1, <1>2, <1>3, <1>5 DEF RequestsAccountedFor, Outstanding, TypeOK
<1>10. StaleWorkStopped'
  <2>1. Executing(c) = {}
    BY <1>1, <1>3 DEF OneExecutionPerClient
  <2>. QED  BY <1>1, <1>2, <1>3, <1>5, <2>1 DEF StaleWorkStopped, Executing, TargetExpired
<1>11. QuietAfterWait'
  BY <1>1, <1>5 DEF QuietAfterWait
<1>12. NoLostWakeup'
  BY <1>5 DEF NoLostWakeup, AwakeInLoop
<1>. QED  BY <1>6, <1>7, <1>8, <1>9, <1>10, <1>11, <1>12

LEMMA WorkerStartsStep ==
    ASSUME IInv, NEW w \in Workers, WorkerStarts(w)
    PROVE  IInv'
<1> DEFINE c == Head(readyQueue)
<1> USE DEF IInv
<1>1. /\ c \in Clients
      /\ c \in queued
      /\ readyQueue' \in Seq(Clients)
      /\ IsInjective(readyQueue')
      /\ \A x \in Clients : Contains(readyQueue', x) <=> x \in queued'
      /\ queued' = queued \ {c}
  BY PopEffect DEF WorkerStarts
<1>2. /\ running' = running \cup {c}
      /\ runningStopFlag' = runningStopFlag \ {c}
      /\ ledger' = [ledger EXCEPT ![c] = @ - 1]
      /\ job' = [job EXCEPT ![w] = c]
      /\ jobGeneration' = [jobGeneration EXCEPT ![w] = queuedGeneration[c]]
      /\ workerPc' = [workerPc EXCEPT ![w] = "executing"]
      /\ AwakeInLoop(w)
      /\ c \in accepting /\ queuedGeneration[c] = currentGeneration[c]
  BY DEF WorkerStarts, JobIsVoid
<1>3. UNCHANGED <<owners, registered, targetHeld, accepting, followUpRequested, queuedGeneration,
                  followUpGeneration, currentGeneration, call, idleWaiters, drained, readyWaiters,
                  shutdown>>
  BY DEF WorkerStarts, ownerVars, genVars, callVars
<1>4. c \notin running /\ c \notin followUpRequested /\ Executing(c) = {} /\ c \notin drained
  BY <1>1 DEF QueueMatchesFlags, OneExecutionPerClient, QuietAfterWait
<1> HIDE DEF c
<1>5. TypeOK'
  <2>1. ledger' \in [Clients -> Int]
    BY <1>1, <1>2 DEF TypeOK
  <2>2. job' \in [Workers -> Clients \cup {NoClient}]
    BY <1>1, <1>2 DEF TypeOK
  <2>3. jobGeneration' \in [Workers -> Generations]
    BY <1>1, <1>2 DEF TypeOK
  <2>4. workerPc' \in [Workers -> {"loop", "executing", "releasing", "exited"}]
    BY <1>2 DEF TypeOK
  <2>. QED  BY <1>1, <1>2, <1>3, <2>1, <2>2, <2>3, <2>4 DEF TypeOK
<1>6. JobShape' /\ CallersRetainService'
  BY <1>1, <1>2, <1>3 DEF JobShape, CallersRetainService, TypeOK
<1>7. \A v \in Workers : \A x \in Clients :
         v \in Executing(x)' <=> IF v = w THEN x = c ELSE v \in Executing(x)
  <2>1. \A v \in Workers : /\ workerPc'[v] = IF v = w THEN "executing" ELSE workerPc[v]
                           /\ job'[v] = IF v = w THEN c ELSE job[v]
    BY <1>2 DEF TypeOK
  <2>. QED  BY <2>1 DEF Executing
<1>8. OneExecutionPerClient'
  <2>1. SUFFICES ASSUME NEW x \in Clients
                 PROVE  /\ (x \in running <=> Executing(x) # {})'
                        /\ \A u, v \in Executing(x)' : u = v
    BY DEF OneExecutionPerClient
  <2>2. Executing(x) \subseteq Workers /\ Executing(x)' \subseteq Workers /\ w \notin Executing(x)
    BY <1>2 DEF Executing, AwakeInLoop
  <2>3. CASE x = c
    BY <1>2, <1>4, <1>7, <2>2, <2>3
  <2>4. CASE x # c
    BY <1>2, <1>7, <2>2, <2>4 DEF OneExecutionPerClient
  <2>. QED  BY <2>3, <2>4
<1>9. QueueMatchesFlags'
  BY <1>1, <1>2, <1>3, <1>4 DEF QueueMatchesFlags
<1>10. RequestsAccountedFor'
  BY <1>1, <1>2, <1>3, <1>4 DEF RequestsAccountedFor, Outstanding, TypeOK
<1>11. \A x \in Clients : x # c /\ TargetExpired(x) => TargetExpired(x)'
  BY <1>1, <1>2, <1>3 DEF TargetExpired, TypeOK
<1>12. \A v \in Workers : v # w => jobGeneration'[v] = jobGeneration[v]
  BY <1>2 DEF TypeOK
<1>13. jobGeneration'[w] = currentGeneration[c]
  BY <1>2 DEF TypeOK
<1>14. StaleWorkStopped'
  <2>1. SUFFICES ASSUME NEW x \in Clients
                 PROVE  /\ x \in queued' => queuedGeneration'[x] = currentGeneration'[x]
                        /\ x \in queued' => x \in accepting' \/ TargetExpired(x)'
                        /\ x \in followUpRequested' =>
                              followUpGeneration'[x] = currentGeneration'[x] /\ x \in accepting'
                        /\ \A v \in Executing(x)' :
                             \/ x \in runningStopFlag'
                             \/ x \in accepting' /\ jobGeneration'[v] = currentGeneration'[x]
    BY DEF StaleWorkStopped
  <2>2. Executing(x)' \subseteq Workers
    BY DEF Executing
  <2>3. CASE x = c
    BY <1>1, <1>2, <1>3, <1>4, <1>7, <1>13, <2>2, <2>3
  <2>4. CASE x # c
    BY <1>1, <1>2, <1>3, <1>7, <1>11, <1>12, <2>2, <2>4 DEF StaleWorkStopped
  <2>. QED  BY <2>3, <2>4
<1>15. QuietAfterWait'
  BY <1>1, <1>2, <1>3, <1>4 DEF QuietAfterWait
<1>16. NoLostWakeup'
  BY <1>1, <1>2, <1>3 DEF NoLostWakeup, IsIdle, AwakeInLoop
<1>. QED  BY <1>5, <1>6, <1>8, <1>9, <1>10, <1>14, <1>15, <1>16

LEMMA WorkerFinishesStep ==
    ASSUME IInv, NEW w \in Workers, WorkerFinishes(w)
    PROVE  IInv'
<1> DEFINE c == job[w]
           requeue == /\ ~stopping
                      /\ c \in accepting
                      /\ c \in followUpRequested
                      /\ followUpGeneration[c] = currentGeneration[c]
<1> USE DEF IInv
<1>1. /\ workerPc[w] = "executing"
      /\ workerPc' = [workerPc EXCEPT ![w] = "releasing"]
      /\ running' = running \ {c}
      /\ runningStopFlag' = runningStopFlag \ {c}
      /\ followUpRequested' = followUpRequested \ {c}
      /\ idleWaiters' = {}
      /\ UNCHANGED <<owners, registered, targetHeld, accepting, followUpGeneration,
                     currentGeneration, call, drained, job, jobGeneration, shutdown>>
  BY DEF WorkerFinishes, NotifyIdle, ownerVars
<1>2. requeue => /\ queued' = queued \cup {c}
                 /\ queuedGeneration' = [queuedGeneration EXCEPT ![c] = followUpGeneration[c]]
                 /\ readyQueue' = Append(readyQueue, c)
                 /\ NotifyOneWorker
                 /\ ledger' = ledger
  BY DEF WorkerFinishes, Requeued
<1>3. ~requeue => /\ ledger' = [ledger EXCEPT ![c] = @ - FollowUpsReplaced(c)]
                  /\ UNCHANGED <<queued, queuedGeneration, readyQueue, readyWaiters>>
  BY DEF WorkerFinishes
<1>4. c \in Clients /\ w \in Executing(c) /\ Executing(c) = {w}
  BY <1>1 DEF TypeOK, JobShape, Executing, OneExecutionPerClient
<1>5. c \in running /\ c \notin queued /\ c \notin drained
  BY <1>4 DEF OneExecutionPerClient, QueueMatchesFlags, QuietAfterWait
<1>6. /\ readyQueue' \in Seq(Clients)
      /\ IsInjective(readyQueue')
      /\ \A x \in Clients : Contains(readyQueue', x) <=> x \in queued'
      /\ readyQueue' # <<>> => readyWaiters' # Workers
      /\ readyWaiters' \subseteq Workers
  <2>1. CASE ~requeue
    BY <1>3, <2>1 DEF TypeOK, QueueMatchesFlags, NoLostWakeup
  <2>2. CASE requeue
    <3>1. /\ readyQueue \in Seq(Clients)
          /\ IsInjective(readyQueue)
          /\ ~Contains(readyQueue, c)
      BY <1>4, <1>5 DEF TypeOK, QueueMatchesFlags
    <3>2. readyWaiters' # Workers /\ readyWaiters' \subseteq Workers
      BY <1>2, <2>2 DEF NotifyOneWorker, TypeOK
    <3>3. readyQueue' = Append(readyQueue, c) /\ queued' = queued \cup {c}
      BY <1>2, <2>2
    <3> HIDE DEF c
    <3>4. /\ readyQueue' \in Seq(Clients)
          /\ IsInjective(readyQueue')
          /\ \A x : Contains(readyQueue', x) <=> Contains(readyQueue, x) \/ x = c
      BY <1>4, <3>1, <3>3, AppendQueue
    <3>. QED  BY <3>2, <3>3, <3>4 DEF QueueMatchesFlags
  <2>. QED  BY <2>1, <2>2
<1>7. requeue => /\ queued' = queued \cup {c}
                 /\ c \in accepting /\ c \in followUpRequested
                 /\ followUpGeneration[c] = currentGeneration[c]
  BY <1>2
<1> HIDE DEF c, requeue
<1>8. TypeOK'
  <2>1. workerPc' \in [Workers -> {"loop", "executing", "releasing", "exited"}]
    BY <1>1 DEF TypeOK
  <2>2. ledger' \in [Clients -> Int]
    BY <1>2, <1>3, <1>4 DEF TypeOK, FollowUpsReplaced
  <2>3. queuedGeneration' \in [Clients -> Generations]
    BY <1>2, <1>3, <1>4 DEF TypeOK
  <2>4. queued' \subseteq Clients
    BY <1>2, <1>3, <1>4 DEF TypeOK
  <2>. QED  BY <1>1, <1>4, <1>6, <2>1, <2>2, <2>3, <2>4 DEF TypeOK
<1>9. JobShape' /\ CallersRetainService'
  BY <1>1 DEF JobShape, CallersRetainService, TypeOK
<1>10. \A v \in Workers : \A x \in Clients :
          v \in Executing(x)' <=> v # w /\ v \in Executing(x)
  BY <1>1 DEF Executing, TypeOK
<1>11. OneExecutionPerClient'
  <2>1. SUFFICES ASSUME NEW x \in Clients
                 PROVE  /\ (x \in running <=> Executing(x) # {})'
                        /\ \A u, v \in Executing(x)' : u = v
    BY DEF OneExecutionPerClient
  <2>2. Executing(x) \subseteq Workers /\ Executing(x)' \subseteq Workers
    BY DEF Executing
  <2>3. CASE x = c
    BY <1>1, <1>4, <1>10, <2>2, <2>3
  <2>4. CASE x # c
    <3>1. w \notin Executing(x)
      BY <1>4, <2>4 DEF Executing
    <3>. QED  BY <1>1, <1>10, <2>2, <2>4, <3>1 DEF OneExecutionPerClient
  <2>. QED  BY <2>3, <2>4
<1>12. QueueMatchesFlags'
  BY <1>1, <1>2, <1>3, <1>4, <1>6 DEF QueueMatchesFlags
<1>13. RequestsAccountedFor'
  <2>1. CASE requeue
    BY <1>1, <1>2, <1>4, <1>5, <1>7, <2>1 DEF RequestsAccountedFor, Outstanding, TypeOK
  <2>2. CASE ~requeue
    BY <1>1, <1>3, <1>4, <1>5, <2>2 DEF RequestsAccountedFor, Outstanding, TypeOK, FollowUpsReplaced
  <2>. QED  BY <2>1, <2>2
<1>14. StaleWorkStopped'
  <2>1. SUFFICES ASSUME NEW x \in Clients
                 PROVE  /\ x \in queued' => queuedGeneration'[x] = currentGeneration'[x]
                        /\ x \in queued' => x \in accepting' \/ TargetExpired(x)'
                        /\ x \in followUpRequested' =>
                              followUpGeneration'[x] = currentGeneration'[x] /\ x \in accepting'
                        /\ \A v \in Executing(x)' :
                             \/ x \in runningStopFlag'
                             \/ x \in accepting' /\ jobGeneration'[v] = currentGeneration'[x]
    BY DEF StaleWorkStopped
  <2>2. Executing(x)' \subseteq Workers /\ (TargetExpired(x) => TargetExpired(x)')
    BY <1>1 DEF Executing, TargetExpired
  <2>3. CASE x = c
    <3>1. Executing(x)' = {}
      BY <1>4, <1>10, <2>2, <2>3
    <3>2. x \in queued' => requeue
      BY <1>3, <1>5, <2>3
    <3>3. requeue => queuedGeneration'[c] = followUpGeneration[c]
      BY <1>2, <1>4 DEF TypeOK
    <3>. QED  BY <1>1, <1>7, <2>3, <3>1, <3>2, <3>3
  <2>4. CASE x # c
    <3>1. /\ x \in queued' => x \in queued
          /\ queuedGeneration'[x] = queuedGeneration[x]
      BY <1>2, <1>3, <2>4 DEF TypeOK
    <3>. QED  BY <1>1, <1>10, <2>2, <2>4, <3>1 DEF StaleWorkStopped
  <2>. QED  BY <2>3, <2>4
<1>15. QuietAfterWait'
  BY <1>1, <1>2, <1>3, <1>5 DEF QuietAfterWait
<1>16. NoLostWakeup'
  BY <1>1, <1>6 DEF NoLostWakeup
<1>. QED  BY <1>8, <1>9, <1>11, <1>12, <1>13, <1>14, <1>15, <1>16

\* Nobody waits for a client of a service without owners.
LEMMA ShutdownStep ==
    ASSUME IInv, ShutdownNext
    PROVE  IInv'
<1> USE DEF IInv
<1>1. CASE ShutdownMarks
  <2> USE <1>1 DEF ShutdownMarks, ownerVars, genVars, callVars, workerVars
  <2>1. idleWaiters = {}
    BY DEF CallersRetainService, TypeOK
  <2>2. ledger' \in [Clients -> Int]
    BY DEF TypeOK, Outstanding
  <2>3. TypeOK'
    BY <2>2, EmptySeq DEF TypeOK
  <2>4. JobShape' /\ OneExecutionPerClient' /\ CallersRetainService'
    BY DEF JobShape, OneExecutionPerClient, Executing, CallersRetainService
  <2>5. QueueMatchesFlags'
    BY DEF QueueMatchesFlags, Contains, IsInjective
  <2>6. RequestsAccountedFor'
    BY DEF RequestsAccountedFor, Outstanding, TypeOK
  <2>7. StaleWorkStopped'
    BY DEF StaleWorkStopped, OneExecutionPerClient, Executing
  <2>8. QuietAfterWait' /\ NoLostWakeup'
    BY <2>1 DEF QuietAfterWait, NoLostWakeup
  <2>. QED  BY <2>3, <2>4, <2>5, <2>6, <2>7, <2>8
<1>2. CASE ShutdownNotifies \/ ShutdownJoins
  <2> USE <1>2 DEF ShutdownNotifies, ShutdownJoins, NotifyAllWorkers, NotifyIdle, ownerVars,
                   clientVars, flagVars, genVars, callVars, workerVars
  <2>1. TypeOK'
    BY DEF TypeOK
  <2>2. JobShape' /\ OneExecutionPerClient' /\ CallersRetainService'
    BY DEF JobShape, OneExecutionPerClient, Executing, CallersRetainService
  <2>3. QueueMatchesFlags' /\ RequestsAccountedFor'
    BY DEF QueueMatchesFlags, RequestsAccountedFor, Outstanding
  <2>4. StaleWorkStopped'
    BY DEF StaleWorkStopped, Executing, TargetExpired
  <2>5. QuietAfterWait' /\ NoLostWakeup'
    BY DEF QuietAfterWait, NoLostWakeup, IsIdle
  <2>. QED  BY <2>1, <2>2, <2>3, <2>4, <2>5
<1>. QED  BY <1>1, <1>2 DEF ShutdownNext

LEMMA NextIInv == IInv /\ [Next]_vars => IInv'
<1> SUFFICES ASSUME IInv, [Next]_vars PROVE IInv'
  OBVIOUS
<1>1. CASE \E c \in Clients : OwnerNext(c)
  BY <1>1, OwnerStep
<1>2. CASE \E c \in Clients : ClientNext(c)
  BY <1>2, RequestRejectedStep, RequestAcceptedStep, CancelAndAdvanceStep, WaitUntilIdleStep,
     CancelAndWaitStep, CancelAndWaitFromJobStep, WaiterStep DEF ClientNext
<1>3. CASE \E w \in Workers : WorkerNext(w)
  BY <1>3, WorkerLoopStep, WorkerDiscardsStep, WorkerStartsStep, WorkerFinishesStep DEF WorkerNext
<1>4. CASE SpuriousWakeup
  BY <1>4, WaiterStep
<1>5. CASE ShutdownNext
  BY <1>5, ShutdownStep
<1>6. CASE UNCHANGED vars
  <2> USE <1>6 DEF IInv, vars, ownerVars, clientVars, flagVars, genVars, callVars, workerVars
  <2>1. TypeOK' /\ JobShape' /\ OneExecutionPerClient' /\ CallersRetainService'
    BY DEF TypeOK, JobShape, OneExecutionPerClient, Executing, CallersRetainService
  <2>2. QueueMatchesFlags' /\ RequestsAccountedFor' /\ StaleWorkStopped'
    BY DEF QueueMatchesFlags, RequestsAccountedFor, Outstanding, StaleWorkStopped, Executing,
           TargetExpired
  <2>3. QuietAfterWait' /\ NoLostWakeup'
    BY DEF QuietAfterWait, NoLostWakeup, IsIdle
  <2>. QED  BY <2>1, <2>2, <2>3
<1>. QED  BY <1>1, <1>2, <1>3, <1>4, <1>5, <1>6 DEF Next

\* The step form of ClosedForGood.
CloseStep ==
    \A c \in Clients :
        /\ c \notin accepting => c \notin accepting' /\ (c \in running' => c \in running)
        /\ c \in runningStopFlag /\ c \in running' => c \in runningStopFlag'

LEMMA NextCloses == IInv /\ [Next]_vars => CloseStep
<1> SUFFICES ASSUME IInv, [Next]_vars PROVE CloseStep
  OBVIOUS
<1> USE DEF ownerVars, clientVars, flagVars, genVars
<1>1. ASSUME NEW c \in Clients, OwnerNext(c) PROVE CloseStep
  BY <1>1 DEF CloseStep, OwnerNext, Acquire, CreateClient, DropTarget, ReleaseService
<1>2. ASSUME NEW c \in Clients, ClientNext(c) PROVE CloseStep
  BY <1>2 DEF CloseStep, ClientNext, RequestRejected, AcceptingAfterRefusal, RequestAccepted,
              CancelAndAdvanceGeneration, CancelOutstanding, RaisedStopFlag, WaitUntilIdle,
              CancelAndWait, CancelAndWaitFromJob, WaiterReturns, WaiterSleepsAgain
<1>3. ASSUME NEW w \in Workers, WorkerNext(w) PROVE CloseStep
  <2>1. CASE WorkerStarts(w)
    <3>1. Head(readyQueue) \in queued
      BY <2>1, PopEffect, <1>3 DEF WorkerStarts, JobIsVoid
    <3>2. Head(readyQueue) \notin runningStopFlag
      BY <3>1 DEF IInv, TypeOK, JobShape, QueueMatchesFlags
    <3>. QED  BY <2>1, <3>2 DEF CloseStep, WorkerStarts, JobIsVoid
  <2>2. CASE ~WorkerStarts(w)
    BY <1>3, <2>2 DEF CloseStep, WorkerNext, WorkerSleeps, WorkerExits, WorkerDiscards,
                      WorkerFinishes, WorkerReleasesTarget
  <2>. QED  BY <2>1, <2>2
<1>4. CASE SpuriousWakeup
  BY <1>4 DEF CloseStep, SpuriousWakeup
<1>5. CASE ShutdownNext
  BY <1>5 DEF CloseStep, ShutdownNext, ShutdownMarks, ShutdownNotifies, ShutdownJoins
<1>6. CASE UNCHANGED vars
  BY <1>6 DEF CloseStep, vars
<1>. QED  BY <1>1, <1>2, <1>3, <1>4, <1>5, <1>6 DEF Next

-----------------------------------------------------------------------------
\* IInv is inductive, so it holds of every reachable state.
THEOREM Invariance == Spec => []IInv
BY InitIInv, NextIInv, PTL DEF Spec

\* Every variable keeps its type.
THEOREM TypeCorrect == Spec => []TypeOK
BY Invariance, PTL DEF IInv

\* The scheduler never lets two workers execute jobs of one client.
THEOREM OneExecution == Spec => []OneExecutionPerClient
BY Invariance, PTL DEF IInv

\* The ready queue and the per-client flags agree, without duplicates.
THEOREM QueueConsistent == Spec => []QueueMatchesFlags
BY Invariance, PTL DEF IInv

\* submitted = executed + cancelled + outstanding, whatever path work takes.
THEOREM Accounting == Spec => []RequestsAccountedFor
BY Invariance, PTL DEF IInv

\* Superseded or closed work never waits, and is told to stop when it runs.
THEOREM StaleStopped == Spec => []StaleWorkStopped
BY Invariance, PTL DEF IInv

\* After a wait has returned nothing of the client runs until it asks again.
THEOREM Quiet == Spec => []QuietAfterWait
BY Invariance, PTL DEF IInv

\* No caller and not all workers sleep while what they wait for is there.
THEOREM WakeupsDelivered == Spec => []NoLostWakeup
BY Invariance, PTL DEF IInv

\* cancelAndWait() is permanent, and a stop once requested is never withdrawn.
THEOREM ClosedStaysClosed == Spec => ClosedForGood
<1>1. IInv /\ [Next]_vars => [CloseStep]_vars
  BY NextCloses
<1>. QED  BY <1>1, Invariance, PTL DEF Spec, ClosedForGood, CloseStep
=============================================================================
