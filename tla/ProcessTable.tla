---------------------------- MODULE ProcessTable ----------------------------
(***************************************************************************)
(* kernel/process.c: process control blocks, the table of pointers to them *)
(* and the two counters.  PCBs live on the C heap: create_process obtains  *)
(* one from malloc, terminate_process frees it, and an address that was    *)
(* freed may be handed out again.  heap[a] = NULL says that no block is    *)
(* allocated at a.  Each function holds resource_lock while it changes the *)
(* table, so each is one step.                                             *)
(***************************************************************************)
EXTENDS Types

CONSTANTS
    Addr,         \* addresses malloc may return for a PCB
    FIRST_PID     \* initial value of next_pid

\* system_pid is the fork's child, named by the MiniOS pid it was made for;
\* the three *_required fields are the vector req.
PCB == [pid : Nat, state : States, priority : Priorities, req : Amounts,
        system_pid : Nat]

ASSUME TableAssumption ==
    /\ FIRST_PID \in Nat \ {0}
    /\ NULL \notin Addr
    /\ NULL \notin PCB

VARIABLES running_processes, process_count, next_pid, heap

tableVars == <<running_processes, process_count, next_pid, heap>>

TableTypeOK ==
    /\ running_processes \in [Slots -> Addr \union {NULL}]
    /\ process_count \in Int
    /\ next_pid \in Nat \ {0}
    /\ heap \in [Addr -> PCB \union {NULL}]

init_process_manager ==
    /\ running_processes = [i \in Slots |-> NULL]
    /\ process_count = 0
    /\ next_pid = FIRST_PID
    /\ heap = [a \in Addr |-> NULL]

Occupied == {i \in Slots : running_processes[i] # NULL}

\* The slot the search loops of the file stop at: the first one holding p.
FirstHolding(slot, p) ==
    /\ running_processes[slot] = p
    /\ \A j \in Slots : j < slot => running_processes[j] # p

\* create_process returns a, the block malloc found.
create_process(a, priority, req) ==
    /\ process_count < MAX_PROCESSES
    /\ heap[a] = NULL
    /\ heap' = [heap EXCEPT ![a] =
                   [pid |-> next_pid, state |-> "NEW", priority |-> priority,
                    req |-> req, system_pid |-> 0]]
    /\ next_pid' = next_pid + 1
    /\ \E slot \in Slots :
          /\ FirstHolding(slot, NULL)
          /\ running_processes' = [running_processes EXCEPT ![slot] = a]
    /\ process_count' = process_count + 1

\* create_process returns NULL: the limit is reached, malloc finds no memory,
\* or (the PCB is freed, its pid is spent) no slot is empty.
create_process_fails ==
    /\ next_pid' = IF process_count < MAX_PROCESSES /\ Occupied = Slots
                   THEN next_pid + 1 ELSE next_pid
    /\ UNCHANGED <<running_processes, process_count, heap>>

\* The process the pid search of find_process_by_pid stops at.
find_process_by_pid(pid, process) ==
    \E i \in Occupied :
        /\ running_processes[i] = process
        /\ heap[process].pid = pid
        /\ \A j \in Occupied : j < i => heap[running_processes[j]].pid # pid

\* Mutant: the PCB is freed while its slot still points to it.
terminate_process_keeps_slot(process) ==
    /\ process_count' = process_count - 1
    /\ heap' = [heap EXCEPT ![process] = NULL]
    /\ UNCHANGED <<running_processes, next_pid>>

terminate_process(process) ==
    /\ running_processes' =
          [i \in Slots |-> IF FirstHolding(i, process) THEN NULL
                                                       ELSE running_processes[i]]
    /\ process_count' = process_count - 1
    /\ heap' = [heap EXCEPT ![process] = NULL]
    /\ UNCHANGED next_pid

\* main's shutdown loop: every PCB is freed, the counter is left as it is.
free_all_processes ==
    /\ running_processes' = [i \in Slots |-> NULL]
    /\ heap' = [a \in Addr |->
                   IF \E i \in Slots : running_processes[i] = a THEN NULL
                                                                ELSE heap[a]]
    /\ UNCHANGED <<process_count, next_pid>>

=============================================================================
