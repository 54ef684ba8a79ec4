------------------------------ MODULE Scheduler ------------------------------
(***************************************************************************)
(* kernel/scheduler.c: the three queues of process pointers.  A queue is   *)
(* the sequence of the pointers its nodes hold, front first; the size      *)
(* field the menu prints is its length.                                    *)
(***************************************************************************)
EXTENDS Types, Sequences

VARIABLE queues

init_scheduler == queues = [p \in Priorities |-> <<>>]

queue_enqueue(priority, process) ==
    queues' = [queues EXCEPT ![priority] = Append(queues[priority], process)]

\* destroy_queue frees the nodes, not the processes they point to.
destroy_queues == queues' = [p \in Priorities |-> <<>>]

Queued(priority) == {queues[priority][k] : k \in 1 .. Len(queues[priority])}

=============================================================================
