----------------------- MODULE SharedAnalysisScheduler -----------------------
(***************************************************************************)
(* The process-local worker pool every plugin instance shares               *)
(* (src/src/analysis/SharedAnalysisScheduler.{h,cpp}).  A client is one      *)
(* SharedAnalysisScheduler::Client with its State; one plugin instance owns  *)
(* the client, a strong reference to the service and one to the job target.  *)
(*                                                                         *)
(* Every critical section under Impl::mutex is one action.  The two          *)
(* condition variables are wait sets: readyWaiters are the workers blocked   *)
(* in readyCondition, idleWaiters the clients whose caller is blocked in     *)
(* idleCondition.  A thread that leaves a wait set, notified or not, takes   *)
(* the mutex again and re-evaluates its predicate in a later action.         *)
(*                                                                         *)
(* One incarnation of the service is modelled, from its first acquire() to   *)
(* the join of its workers.  Request timing, which never influences the      *)
(* scheduling, is left out.  The counters are unbounded in the code: ledger  *)
(* keeps submitted - executed - cancelled, which is what they promise.       *)
(***************************************************************************)
EXTENDS Integers, Sequences, FiniteSets, SequencesExt

CONSTANTS
    Clients,        \* plugin instances, one client each
    Workers,        \* the workers the first acquire() starts
    SharedClients,  \* clients that further threads, the client's own job
                    \* included, call while the controlling thread waits
    MaxGeneration,  \* bound: cancelAndAdvanceGeneration() calls, plus one
    NoClient        \* the job of a worker that holds none

ASSUME SchedulerAssumption ==
    /\ Workers # {}             \* acquire(0) throws
    /\ IsFiniteSet(Workers)
    /\ SharedClients \subseteq Clients
    /\ MaxGeneration \in Nat \ {0}
    /\ NoClient \notin Clients

VARIABLES
    owners,             \* plugin instances holding the service Ptr
    registered,         \* clients createClient() has returned
    targetHeld,         \* clients whose owner still holds the job target
    accepting,          \* clients whose State::accepting is set; likewise:
    queued,             \* State::queued
    running,            \* State::running
    followUpRequested,  \* State::followUpRequested
    queuedGeneration,   \* State::queuedGeneration
    followUpGeneration, \* State::followUpGeneration
    currentGeneration,  \* State::currentGeneration
    runningStopFlag,    \* clients whose State::runningStopFlag exists and is set
    ledger,             \* submitted - executed - cancelled
    call,               \* what the controlling thread of the client blocks in
    idleWaiters,        \* clients whose caller sleeps on idleCondition
    drained,            \* history: clients whose caller waited, nothing asked since
    readyQueue,         \* Impl::readyQueue
    readyWaiters,       \* workers that sleep on readyCondition
    workerPc,           \* control point of each worker thread
    job,                \* the state a worker has popped
    jobGeneration,      \* JobContext::generation() of its job
    shutdown            \* progress of Impl::shutdown()

flagVars   == <<accepting, queued, running, followUpRequested>>
genVars    == <<queuedGeneration, followUpGeneration, currentGeneration>>
clientVars == <<flagVars, genVars, runningStopFlag, ledger>>
callVars   == <<call, idleWaiters, drained>>
ownerVars  == <<owners, registered, targetHeld>>
workerVars == <<workerPc, job, jobGeneration>>
vars == <<ownerVars, clientVars, callVars, readyQueue, readyWaiters,
          workerVars, shutdown>>

Generations == 1..MaxGeneration
stopping == shutdown # "open"

FirstGeneration == 1

TypeOK ==
    /\ owners \subseteq Clients
    /\ registered \subseteq Clients
    /\ targetHeld \subseteq Clients
    /\ accepting \subseteq Clients
    /\ queued \subseteq Clients
    /\ running \subseteq Clients
    /\ followUpRequested \subseteq Clients
    /\ queuedGeneration \in [Clients -> Generations]
    /\ followUpGeneration \in [Clients -> Generations]
    /\ currentGeneration \in [Clients -> Generations]
    /\ runningStopFlag \subseteq Clients
    /\ ledger \in [Clients -> Int]
    /\ call \in [Clients -> {"none", "waitUntilIdle", "cancelAndWait"}]
    /\ idleWaiters \subseteq Clients
    /\ drained \subseteq Clients
    /\ readyQueue \in Seq(Clients)
    /\ readyWaiters \subseteq Workers
    /\ workerPc \in [Workers -> {"loop", "executing", "releasing", "exited"}]
    /\ job \in [Workers -> Clients \cup {NoClient}]
    /\ jobGeneration \in [Workers -> Generations]
    /\ shutdown \in {"open", "marked", "joining", "joined"}

(***************************************************************************)
(* The service has just been constructed by the acquire() of one instance.   *)
(***************************************************************************)
ClientsInit ==
    /\ \E c \in Clients : owners = {c}
    /\ registered = {}
    /\ targetHeld = Clients
    /\ accepting = Clients
    /\ queued = {}
    /\ running = {}
    /\ followUpRequested = {}
    /\ queuedGeneration = [c \in Clients |-> FirstGeneration]
    /\ followUpGeneration = [c \in Clients |-> FirstGeneration]
    /\ currentGeneration = [c \in Clients |-> FirstGeneration]
    /\ runningStopFlag = {}
    /\ ledger = [c \in Clients |-> 0]
    /\ call = [c \in Clients |-> "none"]
    /\ idleWaiters = {}
    /\ drained = {}

ServiceInit ==
    /\ readyQueue = <<>>
    /\ readyWaiters = {}
    /\ job = [w \in Workers |-> NoClient]
    /\ jobGeneration = [w \in Workers |-> FirstGeneration]
    /\ shutdown = "open"

Init ==
    /\ ClientsInit
    /\ ServiceInit
    /\ workerPc = [w \in Workers |-> "loop"]

-----------------------------------------------------------------------------
(***************************************************************************)
(* Helpers.                                                                *)
(***************************************************************************)
\* Impl::isIdle
NothingPending(c) == c \notin queued /\ c \notin followUpRequested
IsIdle(c) == c \notin queued /\ c \notin running /\ c \notin followUpRequested

\* weak_ptr<JobClient>::expired(): the owner has let go and no worker has a
\* temporary reference
TargetExpired(c) ==
    /\ c \notin targetHeld
    /\ \A w \in Workers : job[w] # c

\* The service is retained by the caller (SharedAnalysisScheduler.h:21-23), and
\* the controlling thread is free, or another thread may call as well
CanCall(c) ==
    /\ c \in registered
    /\ c \in owners
    /\ call[c] = "none" \/ c \in SharedClients

\* The submissions a cancellation discards
QueuedOnly(c) == IF c \in queued THEN 1 ELSE 0
Outstanding(c) == (IF c \in queued THEN 1 ELSE 0) + (IF c \in followUpRequested THEN 1 ELSE 0)

\* Impl::eraseQueuedEntriesFor; a client has at most one entry
ErasedQueue(c) == RemoveFirst(readyQueue, c)

\* The retained follow-up goes behind the waiting peers
Requeued(c) == Append(readyQueue, c)

\* Stores into *runningStopFlag, which exists while a job runs
StopFlagKept(c) == runningStopFlag
RaisedStopFlag(c) == runningStopFlag \cup (running \cap {c})

\* readyCondition.notify_one(): any one sleeping worker
NotifyOneWorker ==
    IF readyWaiters = {}
    THEN UNCHANGED readyWaiters
    ELSE \E w \in readyWaiters : readyWaiters' = readyWaiters \ {w}

\* readyCondition.notify_all()
NotifyNoWorker == UNCHANGED readyWaiters
NotifyAllWorkers == readyWaiters' = {}

\* idleCondition.notify_all()
NotifyNobodyIdle == UNCHANGED idleWaiters
NotifyIdle == idleWaiters' = {}

-----------------------------------------------------------------------------
(***************************************************************************)
(* Owners.                                                                 *)
(***************************************************************************)
\* acquire() by a further instance returns the existing service
Acquire(c) ==
    /\ owners # {}
    /\ c \notin owners
    /\ c \notin registered
    /\ owners' = owners \cup {c}
    /\ UNCHANGED <<registered, targetHeld, clientVars, callVars, readyQueue,
                   readyWaiters, workerVars, shutdown>>

CreateClient(c) ==
    /\ c \in owners
    /\ c \notin registered
    /\ c \in targetHeld
    /\ ~stopping
    /\ registered' = registered \cup {c}
    /\ UNCHANGED <<owners, targetHeld, clientVars, callVars, readyQueue,
                   readyWaiters, workerVars, shutdown>>

\* The instance lets go of its job target; a worker may still hold it
DropTarget(c) ==
    /\ c \in registered
    /\ c \in targetHeld
    /\ targetHeld' = targetHeld \ {c}
    /\ UNCHANGED <<owners, registered, clientVars, callVars, readyQueue,
                   readyWaiters, workerVars, shutdown>>

\* The instance lets go of the service, with work outstanding or not.  A call
\* in progress holds a reference of its own.
ReleaseService(c) ==
    /\ c \in owners
    /\ call[c] = "none"
    /\ owners' = owners \ {c}
    /\ UNCHANGED <<registered, targetHeld, clientVars, callVars, readyQueue,
                   readyWaiters, workerVars, shutdown>>

-----------------------------------------------------------------------------
(***************************************************************************)
(* Client calls.                                                           *)
(***************************************************************************)
RequestRefused(c) == stopping \/ c \notin accepting \/ TargetExpired(c)

\* A refused request closes the client of an expired target
AcceptingAfterRefusal(c) == IF TargetExpired(c) THEN accepting \ {c} ELSE accepting

RequestRejected(c) ==
    /\ CanCall(c)
    /\ RequestRefused(c)
    /\ accepting' = AcceptingAfterRefusal(c)
    /\ UNCHANGED <<ownerVars, queued, running, followUpRequested, genVars,
                   runningStopFlag, ledger, callVars, readyQueue, readyWaiters,
                   workerVars, shutdown>>

\* Work requested while a job of the client runs is retained as its follow-up
NeverFollowsUp(c) == FALSE
FollowsUp(c) == c \in running

\* The retained follow-up a new one replaces counts as cancelled
FollowUpsReplaced(c) == IF c \in followUpRequested THEN 1 ELSE 0

\* request(): the accepted submission replaces the retained follow-up or the
\* queued entry, whose submission is then cancelled, or joins the queue
RequestAccepted(c) ==
    /\ CanCall(c)
    /\ ~RequestRefused(c)
    /\ drained' = drained \ {c}
    /\ \/ /\ FollowsUp(c)
          /\ ledger' = [ledger EXCEPT ![c] = @ + 1 - FollowUpsReplaced(c)]
          /\ followUpRequested' = followUpRequested \cup {c}
          /\ followUpGeneration' = [followUpGeneration EXCEPT ![c] = currentGeneration[c]]
          /\ UNCHANGED <<queued, queuedGeneration, readyQueue, readyWaiters>>
       \/ /\ ~FollowsUp(c)
          /\ ledger' = [ledger EXCEPT ![c] = @ + 1 - QueuedOnly(c)]
          /\ queued' = queued \cup {c}
          /\ queuedGeneration' = [queuedGeneration EXCEPT ![c] = currentGeneration[c]]
          /\ IF c \in queued
             THEN UNCHANGED <<readyQueue, readyWaiters>>
             ELSE readyQueue' = Append(readyQueue, c) /\ NotifyOneWorker
          /\ UNCHANGED <<followUpRequested, followUpGeneration>>
    /\ UNCHANGED <<ownerVars, accepting, running, currentGeneration,
                   runningStopFlag, call, idleWaiters, workerVars, shutdown>>

\* Impl::cancelQueued followed by eraseQueuedEntriesFor, and the stop flag of a
\* running job: the part the two cancelling calls share
CancelOutstanding(c) ==
    /\ ledger' = [ledger EXCEPT ![c] = @ - Outstanding(c)]
    /\ queued' = queued \ {c}
    /\ followUpRequested' = followUpRequested \ {c}
    /\ readyQueue' = ErasedQueue(c)
    /\ runningStopFlag' = RaisedStopFlag(c)

CancelAndAdvanceGeneration(c) ==
    /\ CanCall(c)
    /\ currentGeneration[c] < MaxGeneration
    /\ currentGeneration' = [currentGeneration EXCEPT ![c] = @ + 1]
    /\ CancelOutstanding(c)
    /\ NotifyIdle
    /\ UNCHANGED <<ownerVars, accepting, running, queuedGeneration,
                   followUpGeneration, call, drained, readyWaiters, workerVars,
                   shutdown>>

\* waitUntilIdle() by another thread than the job's: returns at once when idle
WaitUntilIdle(c) ==
    /\ CanCall(c)
    /\ call[c] = "none"
    /\ \/ /\ IsIdle(c)
          /\ drained' = drained \cup {c}
          /\ UNCHANGED <<call, idleWaiters>>
       \/ /\ ~IsIdle(c)
          /\ call' = [call EXCEPT ![c] = "waitUntilIdle"]
          /\ idleWaiters' = idleWaiters \cup {c}
          /\ UNCHANGED drained
    /\ UNCHANGED <<ownerVars, clientVars, readyQueue, readyWaiters, workerVars,
                   shutdown>>

\* cancelAndWait(), also the Client destructor, by another thread than the job's
CancelAndWait(c) ==
    /\ CanCall(c)
    /\ call[c] = "none"
    /\ accepting' = accepting \ {c}
    /\ CancelOutstanding(c)
    /\ NotifyAllWorkers
    /\ \/ /\ c \in running
          /\ call' = [call EXCEPT ![c] = "cancelAndWait"]
          /\ idleWaiters' = {c}
          /\ UNCHANGED drained
       \/ /\ c \notin running
          /\ drained' = drained \cup {c}
          /\ NotifyIdle
          /\ UNCHANGED call
    /\ UNCHANGED <<ownerVars, running, genVars, workerVars, shutdown>>

\* cancelAndWait() from the client's own execute(): refuses to wait for itself
CancelAndWaitFromJob(c) ==
    /\ CanCall(c)
    /\ c \in SharedClients
    /\ \E w \in Workers : workerPc[w] = "executing" /\ job[w] = c
    /\ accepting' = accepting \ {c}
    /\ CancelOutstanding(c)
    /\ NotifyAllWorkers
    /\ NotifyIdle
    /\ UNCHANGED <<ownerVars, running, genVars, call, drained, workerVars, shutdown>>

\* A caller that left idleCondition evaluates isIdle under the mutex
WaiterReturns(c) ==
    /\ call[c] # "none"
    /\ c \notin idleWaiters
    /\ IsIdle(c)
    /\ call' = [call EXCEPT ![c] = "none"]
    /\ drained' = drained \cup {c}
    /\ UNCHANGED <<ownerVars, clientVars, idleWaiters, readyQueue, readyWaiters,
                   workerVars, shutdown>>

WaiterSleepsAgain(c) ==
    /\ call[c] # "none"
    /\ c \notin idleWaiters
    /\ ~IsIdle(c)
    /\ idleWaiters' = idleWaiters \cup {c}
    /\ UNCHANGED <<ownerVars, clientVars, call, drained, readyQueue,
                   readyWaiters, workerVars, shutdown>>

SpuriousWakeup ==
    /\ \/ /\ \E w \in readyWaiters : readyWaiters' = readyWaiters \ {w}
          /\ UNCHANGED idleWaiters
       \/ /\ \E c \in idleWaiters : idleWaiters' = idleWaiters \ {c}
          /\ UNCHANGED readyWaiters
    /\ UNCHANGED <<ownerVars, clientVars, call, drained, readyQueue, workerVars,
                   shutdown>>

-----------------------------------------------------------------------------
(***************************************************************************)
(* Worker threads (Impl::workerLoop).                                      *)
(***************************************************************************)
AwakeInLoop(w) == workerPc[w] = "loop" /\ w \notin readyWaiters

WorkerSleeps(w) ==
    /\ AwakeInLoop(w)
    /\ ~stopping
    /\ readyQueue = <<>>
    /\ readyWaiters' = readyWaiters \cup {w}
    /\ UNCHANGED <<ownerVars, clientVars, callVars, readyQueue, workerVars, shutdown>>

WorkerExits(w) ==
    /\ AwakeInLoop(w)
    /\ stopping
    /\ workerPc' = [workerPc EXCEPT ![w] = "exited"]
    /\ UNCHANGED <<ownerVars, clientVars, callVars, readyQueue, readyWaiters,
                   job, jobGeneration, shutdown>>

\* A popped entry that must not run: left over, of a closed client, of a
\* superseded generation or of an expired target
JobIsVoid(c) ==
    \/ c \notin queued
    \/ c \notin accepting
    \/ queuedGeneration[c] # currentGeneration[c]
    \/ TargetExpired(c)

WorkerDiscards(w) ==
    /\ AwakeInLoop(w)
    /\ ~stopping
    /\ readyQueue # <<>>
    /\ LET c == Head(readyQueue) IN
         /\ JobIsVoid(c)
         /\ queued' = queued \ {c}
         /\ ledger' = [ledger EXCEPT ![c] = @ - QueuedOnly(c)]
         /\ accepting' = IF c \in queued /\ queuedGeneration[c] = currentGeneration[c]
                         THEN accepting \ {c}
                         ELSE accepting
    /\ readyQueue' = Tail(readyQueue)
    /\ NotifyIdle
    /\ UNCHANGED <<ownerVars, running, followUpRequested, genVars,
                   runningStopFlag, call, drained, readyWaiters, workerVars,
                   shutdown>>

WorkerStarts(w) ==
    /\ AwakeInLoop(w)
    /\ ~stopping
    /\ readyQueue # <<>>
    /\ LET c == Head(readyQueue) IN
         /\ ~JobIsVoid(c)
         /\ queued' = queued \ {c}
         /\ running' = running \cup {c}
         /\ runningStopFlag' = runningStopFlag \ {c}
         /\ ledger' = [ledger EXCEPT ![c] = @ - 1]
         /\ job' = [job EXCEPT ![w] = c]
         /\ jobGeneration' = [jobGeneration EXCEPT ![w] = queuedGeneration[c]]
    /\ workerPc' = [workerPc EXCEPT ![w] = "executing"]
    /\ readyQueue' = Tail(readyQueue)
    /\ UNCHANGED <<ownerVars, accepting, followUpRequested, genVars, callVars,
                   readyWaiters, shutdown>>

\* execute() has returned or thrown; the retained follow-up goes to the back of
\* the queue unless it has been superseded
WorkerFinishes(w) ==
    /\ workerPc[w] = "executing"
    /\ workerPc' = [workerPc EXCEPT ![w] = "releasing"]
    /\ LET c == job[w]
           requeue == /\ ~stopping
                      /\ c \in accepting
                      /\ c \in followUpRequested
                      /\ followUpGeneration[c] = currentGeneration[c]
       IN /\ running' = running \ {c}
          /\ runningStopFlag' = runningStopFlag \ {c}
          /\ followUpRequested' = followUpRequested \ {c}
          /\ \/ /\ requeue
                /\ queued' = queued \cup {c}
                /\ queuedGeneration' = [queuedGeneration EXCEPT ![c] = followUpGeneration[c]]
                /\ readyQueue' = Requeued(c)
                /\ NotifyOneWorker
                /\ UNCHANGED ledger
             \/ /\ ~requeue
                /\ ledger' = [ledger EXCEPT ![c] = @ - FollowUpsReplaced(c)]
                /\ UNCHANGED <<queued, queuedGeneration, readyQueue, readyWaiters>>
    /\ NotifyIdle
    /\ UNCHANGED <<ownerVars, accepting, followUpGeneration, currentGeneration,
                   call, drained, job, jobGeneration, shutdown>>

\* target.reset() outside the mutex
WorkerReleasesTarget(w) ==
    /\ workerPc[w] = "releasing"
    /\ workerPc' = [workerPc EXCEPT ![w] = "loop"]
    /\ job' = [job EXCEPT ![w] = NoClient]
    /\ UNCHANGED <<ownerVars, clientVars, callVars, readyQueue, readyWaiters,
                   jobGeneration, shutdown>>

-----------------------------------------------------------------------------
(***************************************************************************)
(* Impl::shutdown() on the thread that released the last reference.  The     *)
(* notifications follow the critical section, then come the joins.           *)
(***************************************************************************)
ShutdownMarks ==
    /\ owners = {}
    /\ shutdown = "open"
    /\ shutdown' = "marked"
    /\ accepting' = accepting \ registered
    /\ ledger' = [c \in Clients |-> ledger[c] - Outstanding(c)]
    /\ queued' = {}
    /\ followUpRequested' = {}
    /\ runningStopFlag' = runningStopFlag \cup running
    /\ readyQueue' = <<>>
    /\ UNCHANGED <<ownerVars, running, genVars, callVars, readyWaiters, workerVars>>

ShutdownNotifies ==
    /\ shutdown = "marked"
    /\ shutdown' = "joining"
    /\ NotifyAllWorkers
    /\ NotifyIdle
    /\ UNCHANGED <<ownerVars, clientVars, call, drained, readyQueue, workerVars>>

ShutdownJoins ==
    /\ shutdown = "joining"
    /\ \A w \in Workers : workerPc[w] = "exited"
    /\ shutdown' = "joined"
    /\ UNCHANGED <<ownerVars, clientVars, callVars, readyQueue, readyWaiters, workerVars>>

-----------------------------------------------------------------------------
OwnerNext(c) ==
    \/ Acquire(c)
    \/ CreateClient(c)
    \/ DropTarget(c)
    \/ ReleaseService(c)

ClientNext(c) ==
    \/ RequestRejected(c)
    \/ RequestAccepted(c)
    \/ CancelAndAdvanceGeneration(c)
    \/ WaitUntilIdle(c)
    \/ CancelAndWait(c)
    \/ CancelAndWaitFromJob(c)
    \/ WaiterReturns(c)
    \/ WaiterSleepsAgain(c)

WorkerNext(w) ==
    \/ WorkerSleeps(w)
    \/ WorkerExits(w)
    \/ WorkerDiscards(w)
    \/ WorkerStarts(w)
    \/ WorkerFinishes(w)
    \/ WorkerReleasesTarget(w)

ShutdownNext == ShutdownMarks \/ ShutdownNotifies \/ ShutdownJoins

Next ==
    \/ \E c \in Clients : OwnerNext(c) \/ ClientNext(c)
    \/ \E w \in Workers : WorkerNext(w)
    \/ SpuriousWakeup
    \/ ShutdownNext

Spec == Init /\ [][Next]_vars

(***************************************************************************)
(* Threads that have work keep running and execute() returns.  Nothing       *)
(* obliges an owner to call, to let go, or a thread to wake spuriously.      *)
(***************************************************************************)
Fairness ==
    /\ \A w \in Workers : WF_vars(WorkerNext(w))
    /\ \A c \in Clients : WF_vars(WaiterReturns(c) \/ WaiterSleepsAgain(c))
    /\ WF_vars(ShutdownNext)

FairSpec == Spec /\ Fairness

-----------------------------------------------------------------------------
(***************************************************************************)
(* Safety.                                                                 *)
(***************************************************************************)
Executing(c) == {w \in Workers : workerPc[w] = "executing" /\ job[w] = c}

\* Two workers never execute jobs of the same client at once, and State::running
\* tells exactly whether one does: execute() needs no lock of its own.
OneExecutionPerClient ==
    \A c \in Clients :
        /\ c \in running <=> Executing(c) # {}
        /\ \A v, w \in Executing(c) : v = w

\* A client has a ready-queue entry exactly when State::queued says so, never two,
\* and a job is queued, or retained as follow-up of a running one, never both.
QueueMatchesFlags ==
    /\ \A c \in Clients : c \in queued <=> Contains(readyQueue, c)
    /\ IsInjective(readyQueue)
    /\ \A c \in Clients : c \in queued => c \notin running
    /\ \A c \in Clients : c \in followUpRequested => c \in running

\* Every accepted request is executed, cancelled or still outstanding, over every
\* coalescing, cancelling and shutdown path (Counters in the header).
RequestsAccountedFor ==
    \A c \in Clients : ledger[c] = Outstanding(c)

\* What waits to run is of the current generation, and a running job whose
\* generation has been superseded, or whose client has been closed, has been told
\* to stop through its JobContext.
StaleWorkStopped ==
    \A c \in Clients :
        /\ c \in queued => queuedGeneration[c] = currentGeneration[c]
        /\ c \in queued => c \in accepting \/ TargetExpired(c)
        /\ c \in followUpRequested => followUpGeneration[c] = currentGeneration[c] /\ c \in accepting
        /\ \A w \in Executing(c) :
             \/ c \in runningStopFlag
             \/ c \in accepting /\ jobGeneration[w] = currentGeneration[c]

\* Once waitUntilIdle() or cancelAndWait() has returned true and no request has been
\* made since, no job of the client runs or waits: the caller may release what the
\* job reads (AnalysisCoordinator::beginGeneration relies on it).
QuietAfterWait ==
    \A c \in Clients :
        c \in drained => c \notin queued /\ c \notin running /\ c \notin followUpRequested

\* No wakeup is lost: a caller sleeps on idleCondition only while its client is
\* busy, and while entries are queued the workers do not all sleep.
NoLostWakeup ==
    /\ \A c \in idleWaiters : ~IsIdle(c)
    /\ readyQueue # <<>> => readyWaiters # Workers

\* cancelAndWait() is permanent: a client that has stopped accepting never accepts
\* and never starts again, and its generation-stop flag is never withdrawn while
\* the job it addresses still runs.
ClosedForGood ==
    [][\A c \in Clients :
          /\ c \notin accepting => c \notin accepting' /\ (c \in running' => c \in running)
          /\ c \in runningStopFlag /\ c \in running' => c \in runningStopFlag']_vars

(***************************************************************************)
(* Liveness.                                                               *)
(***************************************************************************)

\* cancelAndWait() always returns; waitUntilIdle() returns unless other threads
\* keep asking for work of the same client.
WaitersReturn ==
    /\ \A c \in Clients : call[c] = "cancelAndWait" ~> call[c] = "none"
    /\ \A c \in Clients \ SharedClients : call[c] # "none" ~> call[c] = "none"

\* The last owner's release joins every worker.
ShutdownCompletes == owners = {} ~> shutdown = "joined"
=============================================================================
