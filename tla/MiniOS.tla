------------------------------- MODULE MiniOS -------------------------------
(***************************************************************************)
(* main.c and lib/app_framework.c: the menu loop, the launch of an         *)
(* application and the kill of a process, over the Banker, the memory      *)
(* manager, the process table and the scheduler queues.                    *)
(*                                                                         *)
(* The program has one thread.  pc names the kernel call the menu handler  *)
(* makes next, call holds the handler's local variables.  Launching runs   *)
(*    request -> allocate -> create -> enqueue -> fork -> pause            *)
(* and every failure on the way undoes, in the order of the code,          *)
(*    deallocate -> release -> terminate -> pause,                         *)
(* which is also the order of the kill menu.  At "pause" the program waits *)
(* for Enter before it comes back to the head of the loop.  Between any two*)
(* calls SIGINT may arrive and an application's OS process may exit.       *)
(***************************************************************************)
EXTENDS Banker, Memory, ProcessTable, Scheduler

CONSTANTS
    available_apps,   \* app id -> [priority, req], the table in app_framework.c
    MaxPid            \* bound: no application is launched once next_pid is above it

Apps == DOMAIN available_apps

ASSUME AppsAssumption ==
    /\ Apps \subseteq Nat \ {0}
    /\ \A a \in Apps : /\ available_apps[a].priority \in Priorities
                       /\ available_apps[a].req \in Amounts
                       /\ available_apps[a].req["ram"] > 0
    /\ \A a, b \in Apps : a % MAX_PROCESSES = b % MAX_PROCESSES => a = b
ASSUME MaxPidAssumption == MaxPid \in Nat

VARIABLES
    pc,
    call,             \* [id, priority, req, process] of the handler in progress
    system_running,   \* the flag signal_handler clears
    os_running        \* OS processes of launched applications that have not exited

osVars == <<pc, call, system_running, os_running>>
vars == <<bankerVars, memoryVars, tableVars, queues, osVars>>

Labels == {"head", "menu", "request", "allocate", "create", "enqueue", "fork",
           "deallocate", "release", "terminate", "pause", "cleanup", "halted"}

Calls == [id : Nat, priority : Priorities, req : Amounts,
          process : Addr \union {NULL}]
NoCall == [id |-> 0, priority |-> "low", req |-> Zero, process |-> NULL]

TypeOK ==
    /\ BankerTypeOK /\ MemoryTypeOK /\ TableTypeOK
    /\ queues \in [Priorities -> Seq(Addr)]
    /\ pc \in Labels
    /\ call \in Calls
    /\ system_running \in BOOLEAN
    /\ os_running \in SUBSET Nat

Init ==
    /\ init_banker /\ init_memory_manager /\ init_process_manager /\ init_scheduler
    /\ pc = "head" /\ call = NoCall
    /\ system_running = TRUE /\ os_running = {}

Goto(label) == pc' = label /\ UNCHANGED <<call, system_running, os_running>>

\* The handler is through and says "Press Enter to continue...".
Return == pc' = "pause" /\ call' = NoCall /\ UNCHANGED <<system_running, os_running>>

-----------------------------------------------------------------------------
(* The main loop.  A choice that shows something or names no process ends   *)
(* at "pause"; one that is cancelled, invalid or names no application comes *)
(* back to the head of the loop.  system_running is looked at only there.   *)

\* Mutant: the loop does not look at the flag.
CheckRunning_ignores_flag ==
    /\ pc = "head"
    /\ Goto("menu")
    /\ UNCHANGED <<bankerVars, memoryVars, tableVars, queues>>

CheckRunning ==
    /\ pc = "head"
    /\ Goto(IF system_running THEN "menu" ELSE "cleanup")
    /\ UNCHANGED <<bankerVars, memoryVars, tableVars, queues>>

MenuReturns ==
    /\ pc = "menu"
    /\ Goto("head") \/ Goto("pause")
    /\ UNCHANGED <<bankerVars, memoryVars, tableVars, queues>>

\* getchar: the user presses Enter.  A signal does not end the read.
Enter ==
    /\ pc = "pause"
    /\ Goto("head")
    /\ UNCHANGED <<bankerVars, memoryVars, tableVars, queues>>

LaunchSelected(app_id) ==
    /\ pc = "menu" /\ next_pid <= MaxPid
    /\ pc' = "request"
    /\ call' = [id |-> app_id, priority |-> available_apps[app_id].priority,
                req |-> available_apps[app_id].req, process |-> NULL]
    /\ UNCHANGED <<bankerVars, memoryVars, tableVars, queues, system_running, os_running>>

KillSelected(process) ==
    /\ pc = "menu"
    /\ \E pid \in FIRST_PID .. next_pid - 1 :
          /\ find_process_by_pid(pid, process)
          /\ call' = [id |-> pid, priority |-> heap[process].priority,
                      req |-> heap[process].req, process |-> process]
    /\ pc' = "deallocate"
    /\ UNCHANGED <<bankerVars, memoryVars, tableVars, queues, system_running, os_running>>

ShutdownSelected ==
    /\ pc = "menu"
    /\ pc' = "head" /\ system_running' = FALSE
    /\ UNCHANGED <<bankerVars, memoryVars, tableVars, queues, call, os_running>>

-----------------------------------------------------------------------------
(* launch_application *)

RequestGranted ==
    /\ pc = "request"
    /\ request_granted(call.id, call.req)
    /\ Goto("allocate")
    /\ UNCHANGED <<memoryVars, tableVars, queues>>

RequestDenied ==
    /\ pc = "request"
    /\ request_denied(call.id, call.req)
    /\ Return
    /\ UNCHANGED <<memoryVars, tableVars, queues>>

Allocate ==
    /\ pc = "allocate"
    /\ IF check_memory_available(call.req)
       THEN allocate_memory(call.req) /\ Goto("create")
       ELSE UNCHANGED memoryVars /\ Goto("release")
    /\ UNCHANGED <<bankerVars, tableVars, queues>>

Create(a) ==
    /\ pc = "create"
    /\ create_process(a, call.priority, call.req)
    /\ pc' = "enqueue" /\ call' = [call EXCEPT !.process = a]
    /\ UNCHANGED <<bankerVars, memoryVars, queues, system_running, os_running>>

\* Mutant: the Banker's grant is not undone.
CreateFails_keeps_grant ==
    /\ pc = "create"
    /\ create_process_fails
    /\ Return
    /\ UNCHANGED <<bankerVars, memoryVars, queues>>

\* Mutant: the memory is not given back.
CreateFails_keeps_memory ==
    /\ pc = "create"
    /\ create_process_fails
    /\ Goto("release")
    /\ UNCHANGED <<bankerVars, memoryVars, queues>>

\* Mutant: create_process is called until it succeeds.
CreateFails_retries ==
    /\ pc = "create"
    /\ create_process_fails
    /\ Goto("create")
    /\ UNCHANGED <<bankerVars, memoryVars, queues>>

CreateFails ==
    /\ pc = "create"
    /\ create_process_fails
    /\ Goto("deallocate")
    /\ UNCHANGED <<bankerVars, memoryVars, queues>>

\* Mutant: every process goes to the high priority queue.
Enqueue_always_high ==
    /\ pc = "enqueue"
    /\ heap' = [heap EXCEPT ![call.process].state = "READY"]
    /\ queue_enqueue("high", call.process)
    /\ Goto("fork")
    /\ UNCHANGED <<bankerVars, memoryVars, running_processes, process_count, next_pid>>

Enqueue ==
    /\ pc = "enqueue"
    /\ heap' = [heap EXCEPT ![call.process].state = "READY"]
    /\ queue_enqueue(heap[call.process].priority, call.process)
    /\ Goto("fork")
    /\ UNCHANGED <<bankerVars, memoryVars, running_processes, process_count, next_pid>>

\* launch_in_terminal returns the child's pid.
Fork ==
    /\ pc = "fork"
    /\ LET child == heap[call.process].pid
       IN  /\ heap' = [heap EXCEPT ![call.process].system_pid = child,
                                   ![call.process].state = "RUNNING"]
           /\ os_running' = os_running \union {child}
    /\ pc' = "pause" /\ call' = NoCall
    /\ UNCHANGED <<bankerVars, memoryVars, running_processes, process_count,
                   next_pid, queues, system_running>>

\* Every method of launch_in_terminal failed.
ForkFails ==
    /\ pc = "fork"
    /\ Goto("deallocate")
    /\ UNCHANGED <<bankerVars, memoryVars, tableVars, queues>>

-----------------------------------------------------------------------------
(* The failure paths of launch_application and kill_process_menu.          *)

Deallocate ==
    /\ pc = "deallocate"
    /\ deallocate_memory(call.req)
    /\ Goto("release")
    /\ UNCHANGED <<bankerVars, tableVars, queues>>

Release ==
    /\ pc = "release"
    /\ release_resources(call.id, call.req)
    /\ IF call.process = NULL THEN Return ELSE Goto("terminate")
    /\ UNCHANGED <<memoryVars, tableVars, queues>>

Terminate ==
    /\ pc = "terminate"
    /\ terminate_process(call.process)
    /\ Return
    /\ UNCHANGED <<bankerVars, memoryVars, queues>>

-----------------------------------------------------------------------------
Cleanup ==
    /\ pc = "cleanup"
    /\ free_all_processes
    /\ destroy_queues
    /\ Goto("halted")
    /\ UNCHANGED <<bankerVars, memoryVars>>

\* signal_handler, between any two steps of a program that is still there.
SigInt ==
    /\ pc # "halted" /\ system_running
    /\ system_running' = FALSE
    /\ UNCHANGED <<bankerVars, memoryVars, tableVars, queues, pc, call, os_running>>

\* An application exits by itself; nobody waits for it.
ChildExits(child) ==
    /\ child \in os_running
    /\ os_running' = os_running \ {child}
    /\ UNCHANGED <<bankerVars, memoryVars, tableVars, queues, pc, call, system_running>>

Off == pc = "halted" /\ os_running = {} /\ UNCHANGED vars

UserStep ==
    \/ MenuReturns \/ Enter
    \/ \E app_id \in Apps : LaunchSelected(app_id)
    \/ \E process \in Addr : KillSelected(process)
    \/ ShutdownSelected

ProgramStep ==
    \/ CheckRunning
    \/ RequestGranted \/ RequestDenied
    \/ Allocate
    \/ \E a \in Addr : Create(a)
    \/ CreateFails
    \/ Enqueue
    \/ Fork \/ ForkFails
    \/ Deallocate \/ Release \/ Terminate
    \/ Cleanup

Next ==
    \/ UserStep
    \/ ProgramStep
    \/ SigInt
    \/ \E child \in os_running : ChildExits(child)
    \/ Off

\* The program runs on whenever it is not waiting for input; the user, the
\* signal and the applications owe nobody a step.
Spec == Init /\ [][Next]_vars /\ WF_vars(ProgramStep)

-----------------------------------------------------------------------------
(* Accounting.  A sum over the table is counted unit by unit: one cell      *)
(* <<slot, k>> for the k-th unit the slot accounts for.                     *)

SlotSum(share, bound) ==
    Cardinality({cell \in Slots \X (1 .. bound) : cell[2] <= share[cell[1]]})

\* What resource r the processes of the table hold, the one given up left out.
Owed(slots, pcbs, gone, r) ==
    [i \in Slots |-> IF slots[i] \in {NULL, gone} THEN 0 ELSE pcbs[slots[i]].req[r]]

\* The handler has a request in hand that no process stands for.
Launching == call.process = NULL

BankerGone == IF pc = "terminate" THEN call.process ELSE NULL
BankerShare(r) == Owed(running_processes, heap, BankerGone, r)
BankerInFlight(r) ==
    IF Launching /\ pc \in {"allocate", "create", "deallocate", "release"}
    THEN call.req[r] ELSE 0

MemoryGone == IF pc \in {"release", "terminate"} THEN call.process ELSE NULL
MemoryShare(r) == Owed(running_processes, heap, MemoryGone, r)
MemoryInFlight(r) ==
    IF Launching /\ pc \in {"create", "deallocate"} THEN call.req[r] ELSE 0

\* A handler's pointer is to a live PCB that carries the request the handler
\* undoes, from create_process or find_process_by_pid to the end of the handler:
\* nothing it calls on the way frees the PCB under it.
HandlerConsistent ==
    /\ pc \in {"head", "menu", "pause", "cleanup", "halted"} => call = NoCall
    /\ pc \in {"request", "allocate", "create"} => Launching
    /\ pc \in {"enqueue", "fork", "terminate"} => ~Launching
    /\ ~Launching => /\ heap[call.process] # NULL
                     /\ heap[call.process].req = call.req

\* No process, and no grant on its way to one, is larger than the machine.
WithinMachine ==
    /\ \A a \in Addr : heap[a] # NULL => Fits(heap[a].req, max_resources)
    /\ pc \in {"allocate", "create", "deallocate", "release"} =>
          Fits(call.req, max_resources)

\* What the Banker has free is the machine less what the live processes and
\* the launch in progress were granted.  It holds although launch_application
\* files a grant under the app id and kill_process_menu returns it under the
\* pid: only the rows go wrong, the pool does not.
BankerBalanced ==
    pc # "halted" =>
        \A r \in Res :
            available[r] + SlotSum(BankerShare(r), max_resources[r])
                         + BankerInFlight(r) = max_resources[r]

\* The memory manager's counters likewise.
MemoryBalanced ==
    pc # "halted" =>
        /\ available_ram + SlotSum(MemoryShare("ram"), total_ram)
                         + MemoryInFlight("ram") = total_ram
        /\ available_hdd + SlotSum(MemoryShare("hdd"), total_hdd)
                         + MemoryInFlight("hdd") = total_hdd

\* Both books balance after every call of every launch and kill, on each of the
\* failure paths: nothing is granted twice, kept, or given back to one of the
\* two components only (launch_application, kill_process_menu).
BooksBalanced == BankerBalanced /\ MemoryBalanced

\* Two components keep the same books: a request the Banker granted is always
\* met by allocate_memory, whose failure path in launch_application is dead.
GrantCoversMemory == pc = "allocate" => check_memory_available(call.req)

\* process_count, which create_process trusts for the limit and which is
\* counted down without looking, is the number of occupied slots; so a
\* process below the limit always finds a slot.
CountExact == pc # "halted" => process_count = Cardinality(Occupied)

\* The table and the heap agree through every launch, failure, kill, reuse of
\* an address and shutdown: no PCB is lost, no slot points to freed memory,
\* none is entered twice.
TableOwnsHeap ==
    /\ \A i \in Occupied : heap[running_processes[i]] # NULL
    /\ \A i, j \in Occupied : running_processes[i] = running_processes[j] => i = j
    /\ \A a \in Addr : heap[a] # NULL => \E i \in Slots : running_processes[i] = a

\* A pid names one process for ever (get_next_pid), so the kill menu's search
\* cannot find another process than the one shown.
PidsUnique ==
    \A a, b \in Addr :
        /\ heap[a] # NULL => heap[a].pid < next_pid
        /\ heap[a] # NULL /\ heap[b] # NULL /\ a # b => heap[a].pid # heap[b].pid

\* The process table as its users rely on it: the slots, the heap, the counter,
\* the pids and the pointer in the hand of a launch or kill agree at every step,
\* although addresses are reused (process.c, launch_application,
\* kill_process_menu).
TableConsistent ==
    TableOwnsHeap /\ CountExact /\ PidsUnique /\ HandlerConsistent

\* The invariant the proofs carry from step to step.
IInv ==
    /\ TypeOK
    /\ HandlerConsistent /\ WithinMachine
    /\ TableOwnsHeap /\ CountExact /\ PidsUnique
    /\ BankerBalanced /\ MemoryBalanced

\* The scheduler can find every process that was launched: it is in the queue
\* of its priority from enqueue_process until it is freed.
LiveProcessesQueued ==
    \A a \in Addr :
        heap[a] # NULL /\ heap[a].state # "NEW" => a \in Queued(heap[a].priority)

\* An application is refused only when some resource is short: under this
\* caller, which asks for the whole need of an application at once, the safety
\* check of the Banker never says no, whatever the rows hold after kills under
\* the wrong id.
RefusedOnlyWhenShort ==
    [][pc = "request" /\ pc' = "pause" => ~Fits(call.req, available)]_vars

\* Every launch and every kill comes to its end, whichever call fails.
OperationReturns == pc \in {"request", "deallocate"} ~> pc = "pause"

\* Where the program waits for input, the menu's prompts and "Press Enter".
Waiting == pc \in {"menu", "pause"}

\* A user who answers whatever he is asked: what he chooses is up to him.
UserAnswers == []<>~Waiting

\* Once the flag is cleared, by the menu or by a signal at any moment of any
\* handler, the system gets to the end of main, if only the prompts that are
\* still open are answered: the menu is not shown again, whatever is chosen.
ShutdownCompletes == UserAnswers => (~system_running ~> pc = "halted")

=============================================================================
