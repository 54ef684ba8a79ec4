---------------------------- MODULE ReadyQueues ----------------------------
(***************************************************************************)
(* What kernel/scheduler.c promises of its three process queues to threads *)
(* that share them: each is a FIFO queue, and putting a process in or      *)
(* taking one out is a single step.                                        *)
(***************************************************************************)
EXTENDS Sequences

CONSTANTS Level, Process, level_of

VARIABLE ready

Init == ready = [l \in Level |-> <<>>]

Enter(p) == ready' = [ready EXCEPT ![level_of[p]] = Append(ready[level_of[p]], p)]

Leave(l) == ready[l] # <<>> /\ ready' = [ready EXCEPT ![l] = Tail(ready[l])]

Next == (\E p \in Process : Enter(p)) \/ (\E l \in Level : Leave(l))

Spec == Init /\ [][Next]_ready

=============================================================================
