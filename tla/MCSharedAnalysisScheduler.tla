---------------------- MODULE MCSharedAnalysisScheduler ----------------------
(***************************************************************************)
(* The scheduler with two clients, in one of two instances that a behaviour *)
(* chooses at its start: a pool of two workers whose clients do not advance  *)
(* their generation, and a pool of one worker (the other has never started,  *)
(* so it has exited) whose clients do.                                       *)
(***************************************************************************)
EXTENDS SharedAnalysisScheduler

VARIABLE pool   \* the workers acquire() has started

CONSTANTS client1, client2, worker1, worker2, nobody

TwoClients == {client1, client2}
TwoWorkers == {worker1, worker2}
OnlyFirst == {client1}

MCInit ==
    /\ pool \in {{worker1}, TwoWorkers}
    /\ ClientsInit
    /\ ServiceInit
    /\ workerPc = [w \in Workers |-> IF w \in pool THEN "loop" ELSE "exited"]

MCNext ==
    /\ Next
    /\ pool = TwoWorkers => UNCHANGED currentGeneration
    /\ UNCHANGED pool

\* Neither restriction takes a step away that Fairness obliges
MCSpec == MCInit /\ [][MCNext]_<<vars, pool>> /\ Fairness
=============================================================================
