---------------------------- MODULE MiniOSProofs ----------------------------
(***************************************************************************)
(* Safety of MiniOS for every machine, every table of applications and     *)
(* every size of the process table, by the inductive invariant IInv.       *)
(***************************************************************************)
EXTENDS MiniOS, BankerProofs

-----------------------------------------------------------------------------
(* SlotSum, the sum over the process table that the accounting is written with *)

Cells(share, bound) == {cell \in Slots \X (1 .. bound) : cell[2] <= share[cell[1]]}

\* A sum over the table is a natural number.
LEMMA SlotSumType ==
    ASSUME NEW share, NEW bound \in Nat
    PROVE  /\ IsFiniteSet(Cells(share, bound))
           /\ SlotSum(share, bound) = Cardinality(Cells(share, bound))
           /\ SlotSum(share, bound) \in Nat
<1>1. IsFiniteSet(Slots)
  BY FS_Interval, SizeAssumption DEF Slots, Index
<1>2. IsFiniteSet(1 .. bound)
  BY FS_Interval
<1>3. IsFiniteSet(Slots \X (1 .. bound))
  BY <1>1, <1>2, FS_Product
<1>4. IsFiniteSet(Cells(share, bound))
  BY <1>3, FS_Subset DEF Cells
<1> QED
  BY <1>4, FS_CardinalityType DEF SlotSum, Cells

\* Giving an empty slot a share adds that share to the sum (create_process, and
\* read backwards the release of a slot's share).
LEMMA SlotSumAdd ==
    ASSUME NEW bound \in Nat, NEW slot \in Slots,
           NEW before \in [Slots -> Nat], NEW after \in [Slots -> Nat],
           before[slot] = 0, after[slot] <= bound,
           \A i \in Slots \ {slot} : after[i] = before[i]
    PROVE  SlotSum(after, bound) = SlotSum(before, bound) + after[slot]
<1> DEFINE new == {slot} \X (1 .. after[slot])
<1>1. /\ IsFiniteSet(new)
      /\ Cardinality(new) = after[slot]
  <2>1. IsFiniteSet({slot}) /\ Cardinality({slot}) = 1
    BY FS_Singleton
  <2>2. IsFiniteSet(1 .. after[slot]) /\ Cardinality(1 .. after[slot]) = after[slot]
    <3>1. after[slot] \in Nat
      OBVIOUS
    <3> QED BY <3>1, FS_Interval
  <2>3. Cardinality(new) = Cardinality({slot}) * Cardinality(1 .. after[slot])
    BY <2>1, <2>2, FS_Product
  <2> QED BY <2>1, <2>2, <2>3, FS_Product
<1>2. Cells(after, bound) = Cells(before, bound) \union new
  <2>1. ASSUME NEW i \in Slots, NEW k \in 1 .. bound
        PROVE  <<i, k>> \in Cells(after, bound) <=>
                  <<i, k>> \in Cells(before, bound) \union new
    <3>1. CASE i = slot
      BY <3>1 DEF Cells
    <3>2. CASE i # slot
      BY <3>2 DEF Cells
    <3> QED BY <3>1, <3>2
  <2>2. new \subseteq Slots \X (1 .. bound)
    OBVIOUS
  <2> QED BY <2>1, <2>2 DEF Cells
<1>3. Cells(before, bound) \cap new = {}
  BY DEF Cells
<1>4. Cardinality(Cells(after, bound)) = Cardinality(Cells(before, bound)) + after[slot]
  <2>1. IsFiniteSet(Cells(before, bound)) /\ Cardinality(Cells(before, bound)) \in Nat
    BY SlotSumType, FS_CardinalityType
  <2>2. Cardinality(Cells(before, bound) \union new) =
          Cardinality(Cells(before, bound)) + Cardinality(new)
             - Cardinality(Cells(before, bound) \cap new)
    BY <1>1, <2>1, FS_Union
  <2>3. Cardinality(Cells(before, bound) \cap new) = 0
    BY <1>3, FS_EmptySet
  <2>4. after[slot] \in Nat
    OBVIOUS
  <2> HIDE DEF new
  <2>5. Cardinality(Cells(after, bound)) =
          Cardinality(Cells(before, bound)) + Cardinality(new)
             - Cardinality(Cells(before, bound) \cap new)
    BY <1>2, <2>2
  <2> QED BY <1>1, <2>1, <2>3, <2>4, <2>5
<1> QED
  BY <1>4, SlotSumType

-----------------------------------------------------------------------------
(* Type correctness *)

\* The initial state has the types.
LEMMA TypeInit == Init => TypeOK
<1> SUFFICES ASSUME Init PROVE TypeOK
  OBVIOUS
<1>1. BankerTypeOK
  BY ZeroType, ResourcesAssumption DEF Init, init_banker, BankerTypeOK
<1>2. MemoryTypeOK
  BY ResourcesAssumption
     DEF Init, init_memory_manager, MemoryTypeOK, total_ram, total_hdd, Amounts, Res
<1>3. TableTypeOK
  BY TableAssumption DEF Init, init_process_manager, TableTypeOK
<1>4. queues \in [Priorities -> Seq(Addr)]
  BY DEF Init, init_scheduler
<1>5. NoCall \in Calls
  BY ZeroType DEF NoCall, Calls, Priorities
<1> QED
  BY <1>1, <1>2, <1>3, <1>4, <1>5 DEF TypeOK, Init, Labels

\* Every step keeps the types; HandlerConsistent gives Enqueue and Fork a PCB to
\* write to, TableOwnsHeap gives KillSelected one to read.
LEMMA TypeStep ==
    TypeOK /\ HandlerConsistent /\ TableOwnsHeap /\ [Next]_vars => TypeOK'
<1> SUFFICES ASSUME TypeOK, HandlerConsistent, TableOwnsHeap, [Next]_vars
             PROVE  TypeOK'
  OBVIOUS
<1> USE DEF TypeOK
<1>0. NoCall \in Calls
  BY ZeroType DEF NoCall, Calls, Priorities
<1>1. CASE UNCHANGED vars
  BY <1>1 DEF vars, bankerVars, memoryVars, tableVars, osVars, BankerTypeOK,
              MemoryTypeOK, TableTypeOK
<1> DEFINE KernelSame == UNCHANGED <<bankerVars, memoryVars, tableVars, queues>>
<1>2. ASSUME KernelSame
      PROVE  /\ BankerTypeOK' /\ MemoryTypeOK' /\ TableTypeOK'
             /\ queues' \in [Priorities -> Seq(Addr)]
  BY <1>2 DEF bankerVars, memoryVars, tableVars, BankerTypeOK, MemoryTypeOK, TableTypeOK
<1>3. CASE CheckRunning
  BY <1>2, <1>3 DEF CheckRunning, Goto, Labels
<1>4. CASE MenuReturns \/ Enter
  BY <1>2, <1>4 DEF MenuReturns, Enter, Goto, Labels
<1>5. ASSUME NEW app_id \in Apps, LaunchSelected(app_id) PROVE TypeOK'
  <2>1. call' \in Calls
    BY <1>5, AppsAssumption DEF LaunchSelected, Calls
  <2> QED BY <1>2, <1>5, <2>1 DEF LaunchSelected, Labels
<1>6. ASSUME NEW process \in Addr, KillSelected(process) PROVE TypeOK'
  <2>1. call' \in Calls
    <3>1. PICK pid \in FIRST_PID .. next_pid - 1 :
             /\ find_process_by_pid(pid, process)
             /\ call' = [id |-> pid, priority |-> heap[process].priority,
                         req |-> heap[process].req, process |-> process]
      BY <1>6 DEF KillSelected
    <3>2. heap[process] \in PCB
      BY <3>1, TableAssumption
         DEF find_process_by_pid, Occupied, TableTypeOK, TableOwnsHeap
    <3> QED BY <3>1, <3>2, TableAssumption DEF Calls, PCB, TableTypeOK
  <2> QED BY <1>2, <1>6, <2>1 DEF KillSelected, Labels
<1>7. CASE ShutdownSelected
  BY <1>2, <1>7 DEF ShutdownSelected, Labels
<1>8. CASE RequestGranted
  <2>1. BankerTypeOK'
    BY <1>8, BankerGrantTypes DEF RequestGranted, Calls
  <2> QED BY <1>8, <2>1 DEF RequestGranted, Goto, Labels, memoryVars, tableVars,
                            MemoryTypeOK, TableTypeOK
<1>9. CASE RequestDenied
  <2>1. BankerTypeOK'
    BY <1>9, BankerDenyTypes DEF RequestDenied, Calls
  <2> QED BY <1>0, <1>9, <2>1 DEF RequestDenied, Return, Labels, memoryVars, tableVars,
                                  MemoryTypeOK, TableTypeOK
<1>10. CASE Allocate
  <2>1. MemoryTypeOK'
    BY <1>10 DEF Allocate, allocate_memory, check_memory_available, memoryVars,
                 MemoryTypeOK, Calls, Amounts, Res
  <2>2. BankerTypeOK' /\ TableTypeOK' /\ queues' \in [Priorities -> Seq(Addr)]
    BY <1>10 DEF Allocate, bankerVars, tableVars, BankerTypeOK, TableTypeOK
  <2> QED BY <1>10, <2>1, <2>2 DEF Allocate, Goto, Labels
<1>11. ASSUME NEW a \in Addr, Create(a) PROVE TypeOK'
  <2>1. TableTypeOK'
    BY <1>11 DEF Create, create_process, TableTypeOK, PCB, States, Calls
  <2>2. call' \in Calls
    BY <1>11 DEF Create, Calls
  <2>3. BankerTypeOK' /\ MemoryTypeOK' /\ queues' \in [Priorities -> Seq(Addr)]
    BY <1>11 DEF Create, bankerVars, memoryVars, BankerTypeOK, MemoryTypeOK
  <2> QED BY <1>11, <2>1, <2>2, <2>3 DEF Create, Labels
<1>12. CASE CreateFails
  <2>1. TableTypeOK'
    BY <1>12 DEF CreateFails, create_process_fails, TableTypeOK
  <2>2. BankerTypeOK' /\ MemoryTypeOK' /\ queues' \in [Priorities -> Seq(Addr)]
    BY <1>12 DEF CreateFails, bankerVars, memoryVars, BankerTypeOK, MemoryTypeOK
  <2> QED BY <1>12, <2>1, <2>2 DEF CreateFails, Goto, Labels
<1>18. CASE ForkFails
  BY <1>2, <1>18 DEF ForkFails, Goto, Labels
<1>13. CASE Deallocate
  <2>1. MemoryTypeOK'
    BY <1>13, ResourcesAssumption
       DEF Deallocate, deallocate_memory, AtMost, total_ram, total_hdd,
           MemoryTypeOK, Calls, Amounts, Res
  <2>2. BankerTypeOK' /\ TableTypeOK' /\ queues' \in [Priorities -> Seq(Addr)]
    BY <1>13 DEF Deallocate, bankerVars, tableVars, BankerTypeOK, TableTypeOK
  <2> QED BY <1>13, <2>1, <2>2 DEF Deallocate, Goto, Labels
<1>14. CASE Release
  <2>1. BankerTypeOK'
    BY <1>14, BankerReleaseTypes DEF Release, Calls
  <2>2. MemoryTypeOK' /\ TableTypeOK' /\ queues' \in [Priorities -> Seq(Addr)]
    BY <1>14 DEF Release, memoryVars, tableVars, MemoryTypeOK, TableTypeOK
  <2> QED BY <1>0, <1>14, <2>1, <2>2 DEF Release, Return, Goto, Labels
<1>15. CASE Terminate
  <2>1. TableTypeOK'
    <3>1. running_processes' \in [Slots -> Addr \union {NULL}]
      BY <1>15 DEF Terminate, terminate_process, TableTypeOK
    <3>2. heap' \in [Addr -> PCB \union {NULL}]
      BY <1>15 DEF Terminate, terminate_process, TableTypeOK
    <3>3. process_count' \in Int /\ next_pid' \in Nat \ {0}
      BY <1>15 DEF Terminate, terminate_process, TableTypeOK
    <3> QED BY <3>1, <3>2, <3>3 DEF TableTypeOK
  <2>2. BankerTypeOK' /\ MemoryTypeOK' /\ queues' \in [Priorities -> Seq(Addr)]
    BY <1>15 DEF Terminate, bankerVars, memoryVars, BankerTypeOK, MemoryTypeOK
  <2> QED BY <1>0, <1>15, <2>1, <2>2 DEF Terminate, Return, Labels
<1>16. CASE Cleanup
  <2>1. TableTypeOK'
    BY <1>16 DEF Cleanup, free_all_processes, TableTypeOK
  <2>2. queues' \in [Priorities -> Seq(Addr)]
    BY <1>16 DEF Cleanup, destroy_queues
  <2>3. BankerTypeOK' /\ MemoryTypeOK'
    BY <1>16 DEF Cleanup, bankerVars, memoryVars, BankerTypeOK, MemoryTypeOK
  <2> QED BY <1>16, <2>1, <2>2, <2>3 DEF Cleanup, Goto, Labels
<1>17. CASE SigInt
  BY <1>2, <1>17 DEF SigInt
<1>19. ASSUME NEW child \in os_running, ChildExits(child) PROVE TypeOK'
  BY <1>2, <1>19 DEF ChildExits
<1>20. CASE Enqueue
  <2>1. call.process \in Addr /\ heap[call.process] \in PCB
    BY <1>20 DEF Enqueue, HandlerConsistent, Launching, Calls, TableTypeOK
  <2>2. TableTypeOK'
    BY <1>20, <2>1 DEF Enqueue, TableTypeOK, PCB, States
  <2>3. queues' \in [Priorities -> Seq(Addr)]
    BY <1>20, <2>1 DEF Enqueue, queue_enqueue, PCB
  <2>4. BankerTypeOK' /\ MemoryTypeOK'
    BY <1>20 DEF Enqueue, bankerVars, memoryVars, BankerTypeOK, MemoryTypeOK
  <2> QED BY <1>20, <2>2, <2>3, <2>4 DEF Enqueue, Goto, Labels
<1>21. CASE Fork
  <2>1. call.process \in Addr /\ heap[call.process] \in PCB
    BY <1>21 DEF Fork, HandlerConsistent, Launching, Calls, TableTypeOK
  <2>2. TableTypeOK'
    BY <1>21, <2>1 DEF Fork, TableTypeOK, PCB, States
  <2>3. os_running' \in SUBSET Nat
    BY <1>21, <2>1 DEF Fork, PCB
  <2>4. BankerTypeOK' /\ MemoryTypeOK' /\ queues' \in [Priorities -> Seq(Addr)]
    BY <1>21 DEF Fork, bankerVars, memoryVars, BankerTypeOK, MemoryTypeOK
  <2> QED BY <1>0, <1>21, <2>2, <2>3, <2>4 DEF Fork, Labels
<1>22. CASE Off
  BY <1>1, <1>22 DEF Off
<1> QED
  BY <1>1, <1>3, <1>4, <1>5, <1>6, <1>7, <1>8, <1>9, <1>10, <1>11, <1>12, <1>13,
     <1>14, <1>15, <1>16, <1>17, <1>18, <1>19, <1>20, <1>21, <1>22
     DEF Next, UserStep, ProgramStep

-----------------------------------------------------------------------------
(* The table and the heap *)

\* A PCB that is allocated has exactly one slot.
LEMMA SlotOfProcess ==
    ASSUME TypeOK, TableOwnsHeap, NEW p \in Addr, heap[p] # NULL
    PROVE  \E slot \in Slots :
              /\ running_processes[slot] = p
              /\ \A i \in Slots : running_processes[i] = p => i = slot
BY TableAssumption DEF TableOwnsHeap, Occupied

\* terminate_process empties that slot and no other.
LEMMA TerminateSlot ==
    ASSUME TypeOK, TableOwnsHeap, NEW p \in Addr, terminate_process(p),
           NEW slot \in Slots, running_processes[slot] = p,
           \A i \in Slots : running_processes[i] = p => i = slot
    PROVE  running_processes' = [running_processes EXCEPT ![slot] = NULL]
<1>1. slot \in Int /\ \A j \in Slots : j < slot => j # slot
  BY SizeAssumption DEF Slots, Index
<1>2. FirstHolding(slot, p)
  BY <1>1 DEF FirstHolding
<1>3. \A i \in Slots : FirstHolding(i, p) => i = slot
  BY DEF FirstHolding
<1> QED BY <1>2, <1>3 DEF terminate_process, TypeOK, TableTypeOK

\* The slots and the PCBs the actions below leave alone.
LEMMA TableUnchanged ==
    ASSUME TableOwnsHeap, PidsUnique, TypeOK,
           UNCHANGED <<running_processes, heap>>,
           next_pid' = next_pid \/ next_pid' = next_pid + 1
    PROVE  TableOwnsHeap' /\ PidsUnique'
<1>1. TableOwnsHeap'
  BY DEF TableOwnsHeap, Occupied
<1>2. PidsUnique'
  BY DEF PidsUnique, TypeOK, TableTypeOK, PCB
<1> QED BY <1>1, <1>2

\* Every step keeps table and heap in agreement and pids apart.
LEMMA TableStep ==
    TypeOK /\ HandlerConsistent /\ TableOwnsHeap /\ PidsUnique /\ [Next]_vars
        => TableOwnsHeap' /\ PidsUnique'
<1> SUFFICES ASSUME TypeOK, HandlerConsistent, TableOwnsHeap, PidsUnique, [Next]_vars
             PROVE  TableOwnsHeap' /\ PidsUnique'
  OBVIOUS
<1>0. call.process \in Addr \union {NULL} /\ NULL \notin Addr
  BY TableAssumption DEF TypeOK, Calls
<1>1. CASE UNCHANGED tableVars
  BY <1>1, TableUnchanged DEF tableVars
<1>2. ASSUME NEW a \in Addr, Create(a) PROVE TableOwnsHeap' /\ PidsUnique'
  <2>1. PICK slot \in Slots :
           /\ FirstHolding(slot, NULL)
           /\ running_processes' = [running_processes EXCEPT ![slot] = a]
    BY <1>2 DEF Create, create_process
  <2> DEFINE new == [pid |-> next_pid, state |-> "NEW", priority |-> call.priority,
                     req |-> call.req, system_pid |-> 0]
  <2>2. /\ heap[a] = NULL /\ heap' = [heap EXCEPT ![a] = new]
        /\ next_pid' = next_pid + 1
    BY <1>2 DEF Create, create_process
  <2>3. new \in PCB /\ new # NULL /\ new.pid = next_pid
    BY TableAssumption DEF PCB, TypeOK, TableTypeOK, Calls, States
  <2> HIDE DEF new
  <2>4. running_processes[slot] = NULL
    BY <2>1 DEF FirstHolding
  <2>5. \A i \in Slots : running_processes[i] # a
    BY <1>0, <2>2 DEF TableOwnsHeap, Occupied
  <2>6. TableOwnsHeap'
    BY <1>0, <2>1, <2>2, <2>3, <2>4, <2>5 DEF TableOwnsHeap, Occupied, TypeOK, TableTypeOK
  <2>7. PidsUnique'
    <3>1. next_pid \in Nat /\ \A b \in Addr : heap[b] # NULL => heap[b].pid \in Nat
      BY DEF TypeOK, TableTypeOK, PCB
    <3> QED BY <2>2, <2>3, <3>1 DEF PidsUnique, TypeOK, TableTypeOK
  <2> QED BY <2>6, <2>7
<1>3. CASE CreateFails
  BY <1>3, TableUnchanged DEF CreateFails, create_process_fails
<1>4. ASSUME call.process \in Addr, heap[call.process] # NULL,
             NEW pcb \in PCB, pcb.pid = heap[call.process].pid,
             heap' = [heap EXCEPT ![call.process] = pcb],
             UNCHANGED <<running_processes, next_pid>>
      PROVE  TableOwnsHeap' /\ PidsUnique'
  <2>1. pcb # NULL
    BY TableAssumption
  <2>2. TableOwnsHeap'
    BY <1>4, <2>1 DEF TableOwnsHeap, Occupied, TypeOK, TableTypeOK
  <2>3. PidsUnique'
    BY <1>4, <2>1 DEF PidsUnique, TypeOK, TableTypeOK
  <2> QED BY <2>2, <2>3
<1>5. CASE Enqueue
  <2>1. call.process \in Addr /\ heap[call.process] # NULL
    BY <1>5, <1>0 DEF Enqueue, HandlerConsistent, Launching
  <2>2. heap[call.process] \in PCB
    BY <2>1 DEF TypeOK, TableTypeOK
  <2> DEFINE pcb == [heap[call.process] EXCEPT !.state = "READY"]
  <2>3. pcb \in PCB /\ pcb.pid = heap[call.process].pid
    BY <2>2 DEF PCB, States
  <2>4. heap' = [heap EXCEPT ![call.process] = pcb]
    BY <1>5 DEF Enqueue
  <2>5. UNCHANGED <<running_processes, next_pid>>
    BY <1>5 DEF Enqueue
  <2> HIDE DEF pcb
  <2> QED BY <1>4, <2>1, <2>3, <2>4, <2>5
<1>6. CASE Fork
  <2>1. call.process \in Addr /\ heap[call.process] # NULL
    BY <1>6, <1>0 DEF Fork, HandlerConsistent, Launching
  <2>2. heap[call.process] \in PCB
    BY <2>1 DEF TypeOK, TableTypeOK
  <2> DEFINE pcb == [heap[call.process] EXCEPT !.system_pid = heap[call.process].pid,
                                               !.state = "RUNNING"]
  <2>3. pcb \in PCB /\ pcb.pid = heap[call.process].pid
    BY <2>2 DEF PCB, States
  <2>4. heap' = [heap EXCEPT ![call.process] = pcb]
    BY <1>6, <2>1 DEF Fork, TypeOK, TableTypeOK
  <2>5. UNCHANGED <<running_processes, next_pid>>
    BY <1>6 DEF Fork
  <2> HIDE DEF pcb
  <2> QED BY <1>4, <2>1, <2>3, <2>4, <2>5
<1>7. CASE Terminate
  <2>1. call.process \in Addr /\ heap[call.process] # NULL
    BY <1>7, <1>0 DEF Terminate, HandlerConsistent, Launching
  <2>2. PICK slot \in Slots :
           /\ running_processes[slot] = call.process
           /\ \A i \in Slots : running_processes[i] = call.process => i = slot
    BY <2>1, SlotOfProcess
  <2>3. running_processes' = [running_processes EXCEPT ![slot] = NULL]
    BY <1>7, <2>1, <2>2, TerminateSlot DEF Terminate
  <2>5. heap' = [heap EXCEPT ![call.process] = NULL] /\ next_pid' = next_pid
    BY <1>7 DEF Terminate, terminate_process
  <2>6. TableOwnsHeap'
    BY <1>0, <2>1, <2>2, <2>3, <2>5 DEF TableOwnsHeap, Occupied, TypeOK, TableTypeOK
  <2>7. PidsUnique'
    BY <2>1, <2>5 DEF PidsUnique, TypeOK, TableTypeOK
  <2> QED BY <2>6, <2>7
<1>8. CASE Cleanup
  <2>1. \A i \in Slots : running_processes'[i] = NULL
    BY <1>8 DEF Cleanup, free_all_processes
  <2>2. \A a \in Addr : heap'[a] = NULL
    BY <1>8 DEF Cleanup, free_all_processes, TableOwnsHeap
  <2> QED BY <2>1, <2>2 DEF TableOwnsHeap, PidsUnique, Occupied
<1> QED
  BY <1>1, <1>2, <1>3, <1>5, <1>6, <1>7, <1>8
     DEF Next, UserStep, ProgramStep, vars, CheckRunning, MenuReturns, Enter, LaunchSelected,
         KillSelected, ShutdownSelected, RequestGranted, RequestDenied, Allocate,
         ForkFails, Deallocate, Release, SigInt, ChildExits, Off

-----------------------------------------------------------------------------
(* The handler's local variables *)

\* The balance of the Banker's books bounds what is available by the machine.
LEMMA AvailableBounded ==
    ASSUME TypeOK, BankerBalanced, pc # "halted"
    PROVE  Fits(available, max_resources)
<1> SUFFICES ASSUME NEW r \in Res PROVE available[r] <= max_resources[r]
  BY DEF Fits
<1>1. max_resources[r] \in Nat /\ available[r] \in Nat
  BY ResourcesAssumption DEF Amounts, TypeOK, BankerTypeOK
<1>2. SlotSum(BankerShare(r), max_resources[r]) \in Nat
  BY <1>1, SlotSumType
<1>3. BankerInFlight(r) \in Nat
  BY DEF BankerInFlight, TypeOK, Calls, Amounts
<1> QED BY <1>1, <1>2, <1>3 DEF BankerBalanced

\* Fits is transitive on vectors of integers.
LEMMA FitsTransitive ==
    ASSUME NEW u \in Amounts, NEW v \in Amounts, NEW w \in Amounts, Fits(u, v), Fits(v, w)
    PROVE  Fits(u, w)
BY DEF Fits, Amounts

\* Every step keeps the handler's pointer and request true, and every request it
\* carries within the machine.
LEMMA HandlerStep ==
    IInv /\ [Next]_vars => HandlerConsistent' /\ WithinMachine'
<1> SUFFICES ASSUME IInv, [Next]_vars PROVE HandlerConsistent' /\ WithinMachine'
  OBVIOUS
<1> USE DEF HandlerConsistent, WithinMachine, Launching
<1>0. /\ TypeOK /\ TableOwnsHeap /\ BankerBalanced
      /\ HandlerConsistent /\ WithinMachine
      /\ NULL \notin Addr /\ NULL \notin PCB
      /\ NoCall.process = NULL
  BY TableAssumption DEF IInv, NoCall
<1>1. CASE UNCHANGED vars
  BY <1>0, <1>1 DEF vars, osVars, tableVars
<1>2. CASE CheckRunning \/ MenuReturns \/ Enter \/ ShutdownSelected
  BY <1>0, <1>2 DEF CheckRunning, MenuReturns, Enter, ShutdownSelected, Goto, tableVars, Labels, TypeOK
<1>3. ASSUME NEW app_id \in Apps, LaunchSelected(app_id)
      PROVE  HandlerConsistent' /\ WithinMachine'
  BY <1>0, <1>3 DEF LaunchSelected, tableVars
<1>4. ASSUME NEW process \in Addr, KillSelected(process)
      PROVE  HandlerConsistent' /\ WithinMachine'
  <2>1. PICK pid \in Nat : find_process_by_pid(pid, process)
                           /\ call' = [id |-> pid, priority |-> heap[process].priority,
                                       req |-> heap[process].req, process |-> process]
    BY <1>4, TableAssumption DEF KillSelected
  <2>2. heap[process] # NULL
    BY <1>0, <2>1 DEF find_process_by_pid, TableOwnsHeap, Occupied
  <2>3. /\ call'.process = process /\ call'.req = heap[process].req
        /\ heap' = heap /\ pc' = "deallocate"
    BY <1>4, <2>1 DEF KillSelected, tableVars
  <2> QED BY <1>0, <2>2, <2>3
<1>5. CASE RequestGranted
  <2>1. Fits(call.req, available)
    BY <1>5 DEF RequestGranted, request_granted, Grants
  <2>2. Fits(available, max_resources)
    BY <1>0, <1>5, AvailableBounded DEF RequestGranted
  <2>3. Fits(call.req, max_resources)
    BY <1>0, <2>1, <2>2, FitsTransitive, ResourcesAssumption DEF TypeOK, BankerTypeOK, Calls
  <2> QED BY <1>0, <1>5, <2>3 DEF RequestGranted, Goto, tableVars
<1>6. CASE RequestDenied
  BY <1>0, <1>6 DEF RequestDenied, Return, tableVars
<1>7. CASE Allocate
  BY <1>0, <1>7 DEF Allocate, Goto, tableVars
<1>8. ASSUME NEW a \in Addr, Create(a) PROVE HandlerConsistent' /\ WithinMachine'
  <2> DEFINE new == [pid |-> next_pid, state |-> "NEW", priority |-> call.priority,
                     req |-> call.req, system_pid |-> 0]
  <2>1. heap' = [heap EXCEPT ![a] = new] /\ pc = "create"
    BY <1>8 DEF Create, create_process
  <2>2. new \in PCB /\ new.req = call.req
    BY <1>0 DEF TypeOK, TableTypeOK, Calls, PCB, States
  <2>3. pc' = "enqueue" /\ call'.process = a /\ call'.req = call.req
    BY <1>0, <1>8 DEF Create, TypeOK, Calls
  <2> HIDE DEF new
  <2> QED BY <1>0, <2>1, <2>2, <2>3 DEF TypeOK, TableTypeOK
<1>9. CASE CreateFails
  BY <1>0, <1>9 DEF CreateFails, create_process_fails, Goto
<1>10. ASSUME call.process \in Addr, heap[call.process] # NULL,
              NEW pcb \in PCB, pcb.req = heap[call.process].req,
              heap' = [heap EXCEPT ![call.process] = pcb],
              \/ pc' = "fork" /\ call' = call
              \/ pc' = "pause" /\ call' = NoCall
       PROVE  HandlerConsistent' /\ WithinMachine'
  <2>1. \A b \in Addr : heap'[b] # NULL => heap[b] # NULL /\ heap'[b].req = heap[b].req
    BY <1>0, <1>10 DEF TypeOK, TableTypeOK
  <2>2. heap'[call.process] # NULL
    BY <1>0, <1>10 DEF TypeOK, TableTypeOK
  <2> QED BY <1>0, <1>10, <2>1, <2>2
<1>11. CASE Enqueue
  <2>1. call.process \in Addr /\ heap[call.process] \in PCB /\ heap[call.process] # NULL
    BY <1>0, <1>11 DEF Enqueue, TypeOK, Calls, TableTypeOK
  <2> DEFINE pcb == [heap[call.process] EXCEPT !.state = "READY"]
  <2>2. pcb \in PCB /\ pcb.req = heap[call.process].req
    BY <2>1 DEF PCB, States
  <2>3. heap' = [heap EXCEPT ![call.process] = pcb] /\ pc' = "fork" /\ call' = call
    BY <1>11 DEF Enqueue, Goto
  <2> HIDE DEF pcb
  <2> QED BY <1>10, <2>1, <2>2, <2>3
<1>12. CASE Fork
  <2>1. call.process \in Addr /\ heap[call.process] \in PCB /\ heap[call.process] # NULL
    BY <1>0, <1>12 DEF Fork, TypeOK, Calls, TableTypeOK
  <2> DEFINE pcb == [heap[call.process] EXCEPT !.system_pid = heap[call.process].pid,
                                               !.state = "RUNNING"]
  <2>2. pcb \in PCB /\ pcb.req = heap[call.process].req
    BY <2>1 DEF PCB, States
  <2>3. heap' = [heap EXCEPT ![call.process] = pcb] /\ pc' = "pause" /\ call' = NoCall
    BY <1>0, <1>12, <2>1 DEF Fork, TypeOK, TableTypeOK
  <2> HIDE DEF pcb
  <2> QED BY <1>10, <2>1, <2>2, <2>3
<1>13. CASE ForkFails
  BY <1>0, <1>13 DEF ForkFails, Goto, tableVars, TypeOK, Calls
<1>14. CASE Deallocate
  BY <1>0, <1>14 DEF Deallocate, Goto, tableVars
<1>15. CASE Release
  BY <1>0, <1>15 DEF Release, Return, Goto, tableVars
<1>16. CASE Terminate
  <2>1. heap' = [heap EXCEPT ![call.process] = NULL] /\ pc' = "pause" /\ call' = NoCall
    BY <1>16 DEF Terminate, terminate_process, Return
  <2> QED BY <1>0, <2>1 DEF TypeOK, TableTypeOK
<1>17. CASE Cleanup
  BY <1>0, <1>17 DEF Cleanup, free_all_processes, Goto
<1>18. CASE SigInt
  BY <1>0, <1>18 DEF SigInt, tableVars
<1>19. ASSUME NEW child \in os_running, ChildExits(child)
       PROVE  HandlerConsistent' /\ WithinMachine'
  BY <1>0, <1>19 DEF ChildExits, tableVars
<1> QED
  BY <1>1, <1>2, <1>3, <1>4, <1>5, <1>6, <1>7, <1>8, <1>9, <1>11, <1>12, <1>13,
     <1>14, <1>15, <1>16, <1>17, <1>18, <1>19
     DEF Next, UserStep, ProgramStep, Off

-----------------------------------------------------------------------------
(* The process counter *)

\* Sets of slots are finite.
LEMMA SlotsFinite == ASSUME NEW S \in SUBSET Slots
                     PROVE  IsFiniteSet(S) /\ Cardinality(S) \in Nat
<1>1. IsFiniteSet(Slots)
  BY FS_Interval, SizeAssumption DEF Slots, Index
<1>2. IsFiniteSet(S)
  BY <1>1, FS_Subset
<1> QED BY <1>2, FS_CardinalityType

\* Every step keeps process_count equal to the number of occupied slots.
LEMMA CountStep == IInv /\ [Next]_vars => CountExact'
<1> SUFFICES ASSUME IInv, [Next]_vars, pc' # "halted" PROVE (process_count = Cardinality(Occupied))'
  BY DEF CountExact
<1>0. /\ TypeOK /\ TableOwnsHeap /\ HandlerConsistent /\ CountExact
      /\ NULL \notin Addr
  BY TableAssumption DEF IInv
<1>1. CASE UNCHANGED <<running_processes, process_count>> /\ pc # "halted"
  BY <1>0, <1>1 DEF CountExact, Occupied
<1>2. ASSUME NEW a \in Addr, Create(a) PROVE (process_count = Cardinality(Occupied))'
  <2>1. PICK slot \in Slots :
           /\ FirstHolding(slot, NULL)
           /\ running_processes' = [running_processes EXCEPT ![slot] = a]
    BY <1>2 DEF Create, create_process
  <2>2. process_count' = process_count + 1 /\ process_count = Cardinality(Occupied)
    BY <1>0, <1>2 DEF Create, create_process, CountExact
  <2>3. slot \notin Occupied /\ Occupied' = Occupied \union {slot}
    BY <1>0, <2>1 DEF Occupied, FirstHolding, TypeOK, TableTypeOK
  <2>4. IsFiniteSet(Occupied)
    BY SlotsFinite DEF Occupied
  <2>5. Cardinality(Occupied \union {slot}) = Cardinality(Occupied) + 1
    BY <2>3, <2>4, FS_AddElement
  <2> QED BY <2>2, <2>3, <2>5
<1>3. CASE Terminate
  <2>1. call.process \in Addr /\ heap[call.process] # NULL
    BY <1>0, <1>3 DEF Terminate, HandlerConsistent, Launching, TypeOK, Calls
  <2>2. PICK slot \in Slots :
           /\ running_processes[slot] = call.process
           /\ \A i \in Slots : running_processes[i] = call.process => i = slot
    BY <1>0, <2>1, SlotOfProcess
  <2>3. running_processes' = [running_processes EXCEPT ![slot] = NULL]
    BY <1>0, <1>3, <2>1, <2>2, TerminateSlot DEF Terminate
  <2>4. process_count' = process_count - 1 /\ process_count = Cardinality(Occupied)
    BY <1>0, <1>3 DEF Terminate, terminate_process, CountExact
  <2>5. slot \in Occupied /\ Occupied' = Occupied \ {slot}
    BY <1>0, <2>1, <2>2, <2>3 DEF Occupied, TypeOK, TableTypeOK
  <2>6. IsFiniteSet(Occupied)
    BY SlotsFinite DEF Occupied
  <2>7. Cardinality(Occupied \ {slot}) = Cardinality(Occupied) - 1
    BY <2>5, <2>6, FS_RemoveElement
  <2> QED BY <2>4, <2>5, <2>7
<1>4. CASE Cleanup
  BY <1>4 DEF Cleanup, Goto
<1> QED
  BY <1>0, <1>1, <1>2, <1>3, <1>4
     DEF Next, UserStep, ProgramStep, vars, osVars, tableVars, CheckRunning, MenuReturns, Enter,
         LaunchSelected, KillSelected, ShutdownSelected, RequestGranted, RequestDenied,
         Allocate, CreateFails, create_process_fails, Enqueue, Fork, ForkFails,
         Deallocate, Release, SigInt, ChildExits, Off

-----------------------------------------------------------------------------
(* The books of the Banker and of the memory manager.  Both are sums of    *)
(* Owed over the table: the lemmas say how a step on the table moves Owed, *)
(* the two that follow do the sums.                                        *)

\* What the processes of a well-formed table hold.
LEMMA OwedType ==
    ASSUME NEW s \in [Slots -> Addr \union {NULL}], NEW h \in [Addr -> PCB \union {NULL}],
           \A i \in Slots : s[i] # NULL => h[s[i]] # NULL, NEW gone, NEW r \in Res
    PROVE  Owed(s, h, gone, r) \in [Slots -> Nat]
BY DEF Owed, PCB, Amounts

\* Leaving out the process of a slot takes its request out of the sum.
LEMMA OwedDrop ==
    ASSUME NEW s \in [Slots -> Addr \union {NULL}], NEW h \in [Addr -> PCB \union {NULL}],
           \A i \in Slots : s[i] # NULL => h[s[i]] # NULL,
           NEW slot \in Slots, s[slot] # NULL,
           \A i \in Slots : s[i] = s[slot] => i = slot,
           NEW r \in Res, NEW bound \in Nat, h[s[slot]].req[r] <= bound
    PROVE  SlotSum(Owed(s, h, NULL, r), bound)
              = SlotSum(Owed(s, h, s[slot], r), bound) + h[s[slot]].req[r]
<1> DEFINE before == Owed(s, h, s[slot], r)
           after == Owed(s, h, NULL, r)
<1>1. before \in [Slots -> Nat] /\ after \in [Slots -> Nat]
  BY OwedType
<1>2. before[slot] = 0 /\ after[slot] = h[s[slot]].req[r]
  BY DEF Owed
<1>3. \A i \in Slots \ {slot} : after[i] = before[i]
  BY DEF Owed
<1> HIDE DEF before, after
<1>4. SlotSum(after, bound) = SlotSum(before, bound) + after[slot]
  BY <1>1, <1>2, <1>3, SlotSumAdd
<1> QED BY <1>2, <1>4 DEF before, after

\* Writing state or system_pid, or leaving the table alone, moves nothing.
LEMMA OwedSame ==
    ASSUME TypeOK, TableOwnsHeap, running_processes' = running_processes,
           \A a \in Addr : heap[a] # NULL => heap'[a].req = heap[a].req,
           NEW gone, NEW r \in Res
    PROVE  Owed(running_processes', heap', gone, r) = Owed(running_processes, heap, gone, r)
BY DEF Owed, TypeOK, TableTypeOK, TableOwnsHeap, Occupied

\* create_process: the new process apart, everyone holds what it held.
LEMMA OwedCreate ==
    ASSUME TypeOK, TableOwnsHeap, NEW a \in Addr, heap[a] = NULL,
           NEW slot \in Slots, running_processes[slot] = NULL,
           NEW pcb \in PCB, heap' = [heap EXCEPT ![a] = pcb],
           running_processes' = [running_processes EXCEPT ![slot] = a], NEW r \in Res
    PROVE  Owed(running_processes', heap', a, r) = Owed(running_processes, heap, NULL, r)
BY TableAssumption DEF Owed, TypeOK, TableTypeOK, TableOwnsHeap, Occupied

\* terminate_process: the terminated process apart, likewise.
LEMMA OwedTerminate ==
    ASSUME TypeOK, TableOwnsHeap, NEW p \in Addr, heap[p] # NULL, terminate_process(p),
           NEW r \in Res
    PROVE  Owed(running_processes', heap', NULL, r) = Owed(running_processes, heap, p, r)
<1>1. PICK slot \in Slots : /\ running_processes[slot] = p
                            /\ \A i \in Slots : running_processes[i] = p => i = slot
  BY SlotOfProcess
<1>2. running_processes' = [running_processes EXCEPT ![slot] = NULL]
  BY <1>1, TerminateSlot
<1>3. heap' = [heap EXCEPT ![p] = NULL]
  BY DEF terminate_process
<1> QED BY <1>1, <1>2, <1>3, TableAssumption
        DEF Owed, TypeOK, TableTypeOK, TableOwnsHeap, Occupied

\* A launch moves its request from the handler to the new process.
LEMMA SumCreate ==
    ASSUME IInv, NEW a \in Addr, Create(a), NEW r \in Res
    PROVE  SlotSum(Owed(running_processes', heap', NULL, r), max_resources[r])
              = SlotSum(Owed(running_processes, heap, NULL, r), max_resources[r]) + call.req[r]
<1>0. TypeOK /\ TableOwnsHeap /\ WithinMachine /\ NULL \notin Addr /\ NULL \notin PCB
  BY TableAssumption DEF IInv
<1>1. PICK slot \in Slots :
         /\ FirstHolding(slot, NULL)
         /\ running_processes' = [running_processes EXCEPT ![slot] = a]
  BY DEF Create, create_process
<1> DEFINE pcb == [pid |-> next_pid, state |-> "NEW", priority |-> call.priority,
                   req |-> call.req, system_pid |-> 0]
<1>2. heap[a] = NULL /\ heap' = [heap EXCEPT ![a] = pcb]
  BY DEF Create, create_process
<1>3. pcb \in PCB /\ pcb.req = call.req
  BY <1>0 DEF TypeOK, TableTypeOK, Calls, PCB, States
<1> HIDE DEF pcb
<1>4. running_processes[slot] = NULL
  BY <1>1 DEF FirstHolding
<1>5. Owed(running_processes', heap', a, r) = Owed(running_processes, heap, NULL, r)
  BY <1>0, <1>1, <1>2, <1>3, <1>4, OwedCreate
<1>6. /\ running_processes' \in [Slots -> Addr \union {NULL}]
      /\ heap' \in [Addr -> PCB \union {NULL}]
      /\ running_processes'[slot] = a /\ a # NULL
      /\ heap'[a] = pcb
  BY <1>0, <1>1, <1>2, <1>3 DEF TypeOK, TableTypeOK
<1>7. \A i \in Slots : running_processes'[i] # NULL => heap'[running_processes'[i]] # NULL
  BY <1>0, <1>1, <1>2, <1>3 DEF TypeOK, TableTypeOK, TableOwnsHeap, Occupied
<1>8. \A i \in Slots : running_processes'[i] = running_processes'[slot] => i = slot
  BY <1>0, <1>1, <1>2, <1>6 DEF TypeOK, TableTypeOK, TableOwnsHeap, Occupied
<1>9. max_resources[r] \in Nat /\ call.req[r] <= max_resources[r]
  BY <1>0, ResourcesAssumption DEF Create, WithinMachine, Fits, Amounts
<1> QED BY <1>3, <1>5, <1>6, <1>7, <1>8, <1>9, OwedDrop

\* A release moves the request of a process from the process to the handler.
LEMMA SumDrop ==
    ASSUME IInv, NEW p \in Addr, heap[p] # NULL, NEW r \in Res
    PROVE  SlotSum(Owed(running_processes, heap, NULL, r), max_resources[r])
              = SlotSum(Owed(running_processes, heap, p, r), max_resources[r]) + heap[p].req[r]
<1>0. TypeOK /\ TableOwnsHeap /\ WithinMachine /\ NULL \notin Addr
  BY TableAssumption DEF IInv
<1>1. PICK slot \in Slots : /\ running_processes[slot] = p
                            /\ \A i \in Slots : running_processes[i] = p => i = slot
  BY <1>0, SlotOfProcess
<1>2. /\ running_processes \in [Slots -> Addr \union {NULL}]
      /\ heap \in [Addr -> PCB \union {NULL}]
      /\ \A i \in Slots : running_processes[i] # NULL => heap[running_processes[i]] # NULL
  BY <1>0 DEF TypeOK, TableTypeOK, TableOwnsHeap, Occupied
<1>3. max_resources[r] \in Nat /\ heap[p].req[r] <= max_resources[r]
  BY <1>0, ResourcesAssumption DEF WithinMachine, Fits, Amounts
<1> QED BY <1>0, <1>1, <1>2, <1>3, OwedDrop

\* Writing to the PCB of the handler's process leaves every request as it is.
LEMMA RequestsKept ==
    ASSUME IInv, Enqueue \/ Fork
    PROVE  \A a \in Addr : heap[a] # NULL => heap'[a].req = heap[a].req
<1>1. call.process \in Addr /\ heap[call.process] \in PCB
  BY TableAssumption DEF IInv, Enqueue, Fork, HandlerConsistent, Launching, TypeOK, Calls, TableTypeOK
<1>2. \A a \in Addr \ {call.process} : heap'[a] = heap[a]
  BY <1>1 DEF Enqueue, Fork, IInv, TypeOK, TableTypeOK
<1>3. heap'[call.process].req = heap[call.process].req
  <2>1. CASE Enqueue
    <3>1. heap'[call.process] = [heap[call.process] EXCEPT !.state = "READY"]
      BY <1>1, <2>1 DEF Enqueue, IInv, TypeOK, TableTypeOK
    <3> QED BY <1>1, <3>1 DEF PCB
  <2>2. CASE Fork
    <3>1. heap'[call.process] = [heap[call.process] EXCEPT
                                    !.system_pid = heap[call.process].pid, !.state = "RUNNING"]
      BY <1>1, <2>2 DEF Fork, IInv, TypeOK, TableTypeOK
    <3> QED BY <1>1, <3>1 DEF PCB
  <2> QED BY <2>1, <2>2
<1> QED BY <1>2, <1>3

\* Every step keeps the Banker's pool the machine less what was granted.
LEMMA BankerStep == IInv /\ [Next]_vars => BankerBalanced'
<1> DEFINE Sum(r) == SlotSum(BankerShare(r), max_resources[r])
           Balance(r) == available[r] + Sum(r) + BankerInFlight(r) = max_resources[r]
<1> SUFFICES ASSUME IInv, [Next]_vars, pc' # "halted", NEW r \in Res
             PROVE  Balance(r)'
  BY DEF BankerBalanced
<1>0. /\ TypeOK /\ TableOwnsHeap /\ HandlerConsistent
      /\ NULL \notin Addr /\ NoCall.process = NULL
      /\ max_resources[r] \in Nat /\ available \in [Res -> Nat] /\ call.req \in [Res -> Nat]
  BY TableAssumption, ResourcesAssumption
     DEF IInv, TypeOK, BankerTypeOK, Calls, Amounts, NoCall
<1>1. pc # "halted"
  BY DEF Next, UserStep, ProgramStep, vars, osVars, CheckRunning, MenuReturns, Enter,
         LaunchSelected, KillSelected, ShutdownSelected, RequestGranted, RequestDenied,
         Allocate, Create, CreateFails, Enqueue, Fork, ForkFails, Deallocate, Release,
         Terminate, Cleanup, SigInt, ChildExits, Off
<1>2. Balance(r)
  BY <1>1 DEF IInv, BankerBalanced
<1>3. Sum(r) \in Nat /\ SlotSum(Owed(running_processes', heap', NULL, r), max_resources[r]) \in Nat
  BY <1>0, SlotSumType
<1>4. ASSUME available' = available, running_processes' = running_processes,
             \A a \in Addr : heap[a] # NULL => heap'[a].req = heap[a].req,
             BankerGone' = BankerGone, BankerInFlight(r)' = BankerInFlight(r)
      PROVE  Balance(r)'
  <2>1. BankerShare(r)' = BankerShare(r)
    BY <1>0, <1>4, OwedSame DEF BankerShare
  <2> QED BY <1>2, <1>4, <2>1
<1> USE DEF Launching
<1>5. CASE UNCHANGED vars
  BY <1>4, <1>5 DEF vars, osVars, tableVars, bankerVars, BankerGone, BankerInFlight
<1>6. CASE CheckRunning \/ MenuReturns \/ Enter \/ ShutdownSelected
  BY <1>4, <1>6 DEF CheckRunning, MenuReturns, Enter, ShutdownSelected, Goto, tableVars, bankerVars,
                    BankerGone, BankerInFlight
<1>7. ASSUME NEW app_id \in Apps, LaunchSelected(app_id) PROVE Balance(r)'
  BY <1>4, <1>7 DEF LaunchSelected, tableVars, bankerVars, BankerGone, BankerInFlight
<1>8. ASSUME NEW process \in Addr, KillSelected(process) PROVE Balance(r)'
  <2>1. call'.process = process
    BY <1>8 DEF KillSelected
  <2> QED BY <1>0, <1>4, <1>8, <2>1 DEF KillSelected, tableVars, bankerVars, BankerGone, BankerInFlight
<1>9. CASE RequestGranted
  <2>1. available'[r] = available[r] - call.req[r]
    BY <1>9 DEF RequestGranted, request_granted, Minus
  <2>2. BankerInFlight(r) = 0 /\ BankerInFlight(r)' = call.req[r]
    BY <1>0, <1>9 DEF RequestGranted, Goto, BankerInFlight, HandlerConsistent
  <2>3. BankerShare(r)' = BankerShare(r)
    BY <1>9 DEF RequestGranted, Goto, BankerShare, BankerGone, tableVars
  <2> QED BY <1>0, <1>2, <1>3, <2>1, <2>2, <2>3
<1>10. CASE RequestDenied
  BY <1>0, <1>4, <1>10 DEF RequestDenied, Return, request_denied, tableVars, BankerGone, BankerInFlight
<1>11. CASE Allocate
  BY <1>4, <1>11 DEF Allocate, Goto, bankerVars, tableVars, BankerGone, BankerInFlight
<1>12. ASSUME NEW a \in Addr, Create(a) PROVE Balance(r)'
  <2>1. available' = available /\ BankerGone = NULL /\ BankerGone' = NULL
    BY <1>12 DEF Create, bankerVars, BankerGone
  <2>2. BankerInFlight(r) = call.req[r] /\ BankerInFlight(r)' = 0
    BY <1>0, <1>12 DEF Create, BankerInFlight, HandlerConsistent
  <2>3. Sum(r)' = Sum(r) + call.req[r]
    BY <1>12, <2>1, SumCreate DEF BankerShare
  <2> QED BY <1>0, <1>2, <1>3, <2>1, <2>2, <2>3
<1>13. CASE CreateFails
  BY <1>4, <1>13 DEF CreateFails, create_process_fails, Goto, bankerVars, BankerGone, BankerInFlight
<1>14. CASE Enqueue \/ Fork
  <2>1. /\ available' = available /\ running_processes' = running_processes
        /\ BankerGone' = BankerGone /\ BankerInFlight(r)' = BankerInFlight(r)
    BY <1>14 DEF Enqueue, Fork, Goto, bankerVars, BankerGone, BankerInFlight
  <2> QED BY <1>4, <1>14, <2>1, RequestsKept
<1>15. CASE ForkFails
  BY <1>0, <1>4, <1>15 DEF ForkFails, Goto, bankerVars, tableVars, BankerGone, BankerInFlight,
                           HandlerConsistent
<1>16. CASE Deallocate
  BY <1>4, <1>16 DEF Deallocate, Goto, bankerVars, tableVars, BankerGone, BankerInFlight
<1>17. CASE Release
  <2>1. available'[r] = available[r] + call.req[r] /\ BankerGone = NULL
    BY <1>17 DEF Release, release_resources, Plus, BankerGone
  <2>2. UNCHANGED <<running_processes, heap>>
    BY <1>17 DEF Release, tableVars
  <2>3. CASE call.process = NULL
    <3>1. BankerInFlight(r) = call.req[r] /\ BankerInFlight(r)' = 0 /\ BankerGone' = NULL
      BY <1>0, <1>17, <2>3 DEF Release, Return, BankerInFlight, BankerGone
    <3>2. Sum(r)' = Sum(r)
      BY <2>1, <2>2, <3>1 DEF BankerShare
    <3> QED BY <1>0, <1>2, <1>3, <2>1, <3>1, <3>2
  <2>4. CASE call.process # NULL
    <3>1. /\ BankerInFlight(r) = 0 /\ BankerInFlight(r)' = 0 /\ BankerGone' = call.process
      BY <1>17, <2>4 DEF Release, Goto, BankerInFlight, BankerGone
    <3>2. call.process \in Addr /\ heap[call.process] # NULL /\ heap[call.process].req = call.req
      BY <1>0, <2>4 DEF HandlerConsistent, TypeOK, Calls
    <3>3. Sum(r) = Sum(r)' + call.req[r]
      BY <2>1, <2>2, <3>1, <3>2, SumDrop DEF BankerShare
    <3>4. Sum(r)' \in Nat
      BY <1>0, SlotSumType
    <3> QED BY <1>0, <1>2, <1>3, <2>1, <3>1, <3>3, <3>4
  <2> QED BY <2>3, <2>4
<1>18. CASE Terminate
  <2>1. call.process \in Addr /\ heap[call.process] # NULL
    BY <1>0, <1>18 DEF Terminate, HandlerConsistent, TypeOK, Calls
  <2>2. BankerGone = call.process /\ BankerGone' = NULL
    BY <1>18 DEF Terminate, Return, BankerGone
  <2>3. BankerShare(r)' = BankerShare(r)
    BY <1>0, <1>18, <2>1, <2>2, OwedTerminate DEF Terminate, BankerShare
  <2>4. available' = available /\ BankerInFlight(r) = 0 /\ BankerInFlight(r)' = 0
    BY <1>18 DEF Terminate, Return, bankerVars, BankerInFlight
  <2> QED BY <1>0, <1>2, <2>3, <2>4
<1>19. CASE SigInt
  BY <1>4, <1>19 DEF SigInt, bankerVars, tableVars, BankerGone, BankerInFlight
<1>20. ASSUME NEW child \in os_running, ChildExits(child) PROVE Balance(r)'
  BY <1>4, <1>20 DEF ChildExits, bankerVars, tableVars, BankerGone, BankerInFlight
<1> QED
  BY <1>5, <1>6, <1>7, <1>8, <1>9, <1>10, <1>11, <1>12, <1>13, <1>14, <1>15, <1>16,
     <1>17, <1>18, <1>19, <1>20 DEF Next, UserStep, ProgramStep, Off, Cleanup, Goto

\* Every step keeps the memory manager's counters the machine less what is in use;
\* in particular the cap of deallocate_memory never takes effect.
LEMMA MemoryStep == IInv /\ [Next]_vars => MemoryBalanced'
<1> DEFINE Held(r) == IF r = "ram" THEN available_ram ELSE available_hdd
           Sum(r) == SlotSum(MemoryShare(r), max_resources[r])
           Balance(r) == Held(r) + Sum(r) + MemoryInFlight(r) = max_resources[r]
<1> SUFFICES ASSUME IInv, [Next]_vars, pc' # "halted", NEW r \in {"ram", "hdd"}
             PROVE  Balance(r)'
  BY DEF MemoryBalanced, total_ram, total_hdd
<1>0. /\ TypeOK /\ TableOwnsHeap /\ HandlerConsistent
      /\ NULL \notin Addr /\ NoCall.process = NULL
      /\ r \in Res /\ max_resources[r] \in Nat /\ call.req \in [Res -> Nat]
      /\ available_ram \in Nat /\ available_hdd \in Nat
  BY TableAssumption, ResourcesAssumption
     DEF IInv, TypeOK, MemoryTypeOK, Calls, Amounts, Res, NoCall
<1>1. pc # "halted"
  BY DEF Next, UserStep, ProgramStep, vars, osVars, CheckRunning, MenuReturns, Enter,
         LaunchSelected, KillSelected, ShutdownSelected, RequestGranted, RequestDenied,
         Allocate, Create, CreateFails, Enqueue, Fork, ForkFails, Deallocate, Release,
         Terminate, Cleanup, SigInt, ChildExits, Off
<1>2. Balance(r)
  BY <1>1 DEF IInv, MemoryBalanced, total_ram, total_hdd
<1>3. Sum(r) \in Nat /\ Sum(r)' \in Nat
  BY <1>0, SlotSumType
<1>4. ASSUME UNCHANGED <<memoryVars, running_processes>>,
             \A a \in Addr : heap[a] # NULL => heap'[a].req = heap[a].req,
             MemoryGone' = MemoryGone, MemoryInFlight(r)' = MemoryInFlight(r)
      PROVE  Balance(r)'
  <2>1. MemoryShare(r)' = MemoryShare(r)
    BY <1>0, <1>4, OwedSame DEF MemoryShare
  <2> QED BY <1>2, <1>4, <2>1 DEF memoryVars
<1> USE DEF Launching
<1>5. CASE UNCHANGED vars
  BY <1>4, <1>5 DEF vars, osVars, tableVars, MemoryGone, MemoryInFlight
<1>6. CASE CheckRunning \/ MenuReturns \/ Enter \/ ShutdownSelected
  BY <1>4, <1>6 DEF CheckRunning, MenuReturns, Enter, ShutdownSelected, Goto, tableVars,
                    MemoryGone, MemoryInFlight
<1>7. ASSUME NEW app_id \in Apps, LaunchSelected(app_id) PROVE Balance(r)'
  BY <1>4, <1>7 DEF LaunchSelected, tableVars, MemoryGone, MemoryInFlight
<1>8. ASSUME NEW process \in Addr, KillSelected(process) PROVE Balance(r)'
  <2>1. call'.process = process
    BY <1>8 DEF KillSelected
  <2> QED BY <1>0, <1>4, <1>8, <2>1 DEF KillSelected, tableVars, MemoryGone, MemoryInFlight
<1>9. CASE RequestGranted \/ RequestDenied
  BY <1>4, <1>9 DEF RequestGranted, RequestDenied, Goto, Return, tableVars,
                    MemoryGone, MemoryInFlight
<1>10. CASE Allocate
  <2>1. Launching /\ running_processes' = running_processes /\ heap' = heap
    BY <1>0, <1>10 DEF Allocate, HandlerConsistent, tableVars
  <2>2. MemoryGone = NULL /\ MemoryGone' = NULL /\ MemoryInFlight(r) = 0
    BY <1>10, <2>1 DEF Allocate, Goto, MemoryGone, MemoryInFlight
  <2>3. Sum(r)' = Sum(r)
    BY <2>1, <2>2 DEF MemoryShare
  <2>4. CASE check_memory_available(call.req)
    <3>1. Held(r)' = Held(r) - call.req[r]
      BY <1>10, <2>4 DEF Allocate, allocate_memory
    <3>2. MemoryInFlight(r)' = call.req[r]
      BY <1>10, <2>1, <2>4 DEF Allocate, Goto, MemoryInFlight
    <3> QED BY <1>0, <1>2, <1>3, <2>2, <2>3, <3>1, <3>2
  <2>5. CASE ~check_memory_available(call.req)
    <3>1. Held(r)' = Held(r) /\ MemoryInFlight(r)' = 0
      BY <1>10, <2>5 DEF Allocate, Goto, memoryVars, MemoryInFlight
    <3> QED BY <1>2, <2>2, <2>3, <3>1
  <2> QED BY <2>4, <2>5
<1>11. ASSUME NEW a \in Addr, Create(a) PROVE Balance(r)'
  <2>1. Held(r)' = Held(r) /\ MemoryGone = NULL /\ MemoryGone' = NULL
    BY <1>11 DEF Create, memoryVars, MemoryGone
  <2>2. MemoryInFlight(r) = call.req[r] /\ MemoryInFlight(r)' = 0
    BY <1>0, <1>11 DEF Create, MemoryInFlight, HandlerConsistent
  <2>3. Sum(r)' = Sum(r) + call.req[r]
    BY <1>0, <1>11, <2>1, SumCreate DEF MemoryShare
  <2> QED BY <1>0, <1>2, <1>3, <2>1, <2>2, <2>3
<1>12. CASE CreateFails
  BY <1>4, <1>12 DEF CreateFails, create_process_fails, Goto, MemoryGone, MemoryInFlight
<1>13. CASE Enqueue \/ Fork
  <2>1. /\ UNCHANGED <<memoryVars, running_processes>>
        /\ MemoryGone' = MemoryGone /\ MemoryInFlight(r)' = MemoryInFlight(r)
    BY <1>13 DEF Enqueue, Fork, Goto, MemoryGone, MemoryInFlight
  <2> QED BY <1>4, <1>13, <2>1, RequestsKept
<1>14. CASE ForkFails
  BY <1>0, <1>4, <1>14 DEF ForkFails, Goto, tableVars, MemoryGone, MemoryInFlight,
                           HandlerConsistent
<1>15. CASE Deallocate
  <2>1. UNCHANGED <<running_processes, heap>> /\ MemoryGone = NULL
        /\ MemoryGone' = call.process /\ MemoryInFlight(r)' = 0
    BY <1>15 DEF Deallocate, Goto, tableVars, MemoryGone, MemoryInFlight
  <2>2. Held(r)' = AtMost(Held(r) + call.req[r], max_resources[r])
    BY <1>0, <1>15 DEF Deallocate, deallocate_memory, total_ram, total_hdd
  <2>3. Sum(r) + MemoryInFlight(r) = Sum(r)' + call.req[r]
    <3>1. CASE call.process = NULL
      <4>1. MemoryInFlight(r) = call.req[r]
        BY <1>15, <3>1 DEF Deallocate, MemoryInFlight
      <4>2. Sum(r)' = Sum(r)
        BY <2>1, <3>1 DEF MemoryShare
      <4> QED BY <1>3, <4>1, <4>2
    <3>2. CASE call.process # NULL
      <4>1. call.process \in Addr /\ heap[call.process] # NULL /\ heap[call.process].req = call.req
        BY <1>0, <3>2 DEF HandlerConsistent, TypeOK, Calls
      <4>2. Sum(r) = Sum(r)' + call.req[r]
        BY <1>0, <2>1, <4>1, SumDrop DEF MemoryShare
      <4>3. MemoryInFlight(r) = 0
        BY <3>2 DEF MemoryInFlight
      <4> QED BY <1>0, <1>3, <4>2, <4>3
    <3> QED BY <3>1, <3>2
  <2>4. MemoryInFlight(r) \in Nat
    BY <1>0 DEF MemoryInFlight
  <2>5. Held(r) + call.req[r] <= max_resources[r]
    BY <1>0, <1>2, <1>3, <2>3, <2>4
  <2> QED BY <1>0, <1>2, <1>3, <2>1, <2>2, <2>3, <2>4, <2>5 DEF AtMost
<1>16. CASE Release
  BY <1>4, <1>16 DEF Release, Goto, Return, tableVars, MemoryGone, MemoryInFlight
<1>17. CASE Terminate
  <2>1. call.process \in Addr /\ heap[call.process] # NULL
    BY <1>0, <1>17 DEF Terminate, HandlerConsistent, TypeOK, Calls
  <2>2. MemoryGone = call.process /\ MemoryGone' = NULL
    BY <1>17 DEF Terminate, Return, MemoryGone
  <2>3. MemoryShare(r)' = MemoryShare(r)
    BY <1>0, <1>17, <2>1, <2>2, OwedTerminate DEF Terminate, MemoryShare
  <2>4. Held(r)' = Held(r) /\ MemoryInFlight(r) = 0 /\ MemoryInFlight(r)' = 0
    BY <1>17 DEF Terminate, Return, memoryVars, MemoryInFlight
  <2> QED BY <1>2, <2>3, <2>4
<1>18. CASE SigInt
  BY <1>4, <1>18 DEF SigInt, tableVars, MemoryGone, MemoryInFlight
<1>19. ASSUME NEW child \in os_running, ChildExits(child) PROVE Balance(r)'
  BY <1>4, <1>19 DEF ChildExits, tableVars, MemoryGone, MemoryInFlight
<1> QED
  BY <1>5, <1>6, <1>7, <1>8, <1>9, <1>10, <1>11, <1>12, <1>13, <1>14, <1>15, <1>16,
     <1>17, <1>18, <1>19 DEF Next, UserStep, ProgramStep, Off, Cleanup, Goto

-----------------------------------------------------------------------------
(* The invariant *)

\* An empty table, nothing handed out: the books balance.
LEMMA InitInvariant == Init => IInv
<1> SUFFICES ASSUME Init PROVE IInv
  OBVIOUS
<1>1. TypeOK
  BY TypeInit
<1>2. \A i \in Slots : running_processes[i] = NULL
  BY DEF Init, init_process_manager
<1>3. /\ \A a \in Addr : heap[a] = NULL
      /\ pc = "head" /\ call = NoCall /\ call.process = NULL
  BY DEF Init, init_process_manager, NoCall
<1>4. HandlerConsistent /\ WithinMachine
  BY <1>3 DEF HandlerConsistent, WithinMachine, Launching
<1>5. TableOwnsHeap /\ PidsUnique
  BY <1>2, <1>3 DEF TableOwnsHeap, PidsUnique, Occupied
<1>6. CountExact
  <2>1. Occupied = {}
    BY <1>2 DEF Occupied
  <2> QED BY <2>1, FS_EmptySet DEF CountExact, Init, init_process_manager
<1>7. ASSUME NEW gone, NEW r \in Res
      PROVE  SlotSum(Owed(running_processes, heap, gone, r), max_resources[r]) = 0
  <2>1. \A i \in Slots : Owed(running_processes, heap, gone, r)[i] = 0
    BY <1>2 DEF Owed
  <2>2. {cell \in Slots \X (1 .. max_resources[r]) :
            cell[2] <= Owed(running_processes, heap, gone, r)[cell[1]]} = {}
    BY <2>1, ResourcesAssumption DEF Amounts
  <2> QED BY <2>2, FS_EmptySet DEF SlotSum
<1>8. BankerBalanced
  BY <1>3, <1>7, ResourcesAssumption
     DEF BankerBalanced, BankerShare, BankerInFlight, Init, init_banker, Amounts
<1>9. MemoryBalanced
  BY <1>3, <1>7, ResourcesAssumption
     DEF MemoryBalanced, MemoryShare, MemoryInFlight, Init, init_memory_manager, Amounts,
         total_ram, total_hdd, Res
<1> QED BY <1>1, <1>4, <1>5, <1>6, <1>8, <1>9 DEF IInv

\* IInv is inductive: it holds in every reachable state of every machine.
THEOREM Invariance == Spec => []IInv
<1>1. IInv /\ [Next]_vars => IInv'
  <2> SUFFICES ASSUME IInv, [Next]_vars PROVE IInv'
    OBVIOUS
  <2>1. TypeOK'
    BY TypeStep DEF IInv
  <2>2. TableOwnsHeap' /\ PidsUnique'
    BY TableStep DEF IInv
  <2>3. HandlerConsistent' /\ WithinMachine'
    BY HandlerStep
  <2> QED BY <2>1, <2>2, <2>3, CountStep, BankerStep, MemoryStep DEF IInv
<1> QED BY InitInvariant, <1>1, PTL DEF Spec

-----------------------------------------------------------------------------
(* What follows *)

\* Types: the pool and the memory counters, above all, never go below zero.
THEOREM TypeCorrect == Spec => []TypeOK
<1>1. IInv => TypeOK
  BY DEF IInv
<1> QED BY Invariance, <1>1, PTL

\* The Banker's pool and the memory counters balance after every call of a launch
\* and of a kill, on the failure paths too.
THEOREM BooksBalance == Spec => []BooksBalanced
<1>1. IInv => BooksBalanced
  BY DEF IInv, BooksBalanced
<1> QED BY Invariance, <1>1, PTL

\* allocate_memory never refuses what the Banker granted.
THEOREM GrantSuffices == Spec => []GrantCoversMemory
<1>1. IInv => GrantCoversMemory
  <2> SUFFICES ASSUME IInv, pc = "allocate" PROVE check_memory_available(call.req)
    BY DEF GrantCoversMemory
  <2>1. Launching /\ BankerGone = NULL /\ MemoryGone = NULL
    BY DEF IInv, HandlerConsistent, BankerGone, MemoryGone
  <2>2. \A r \in Res : BankerShare(r) = MemoryShare(r)
    BY <2>1 DEF BankerShare, MemoryShare
  <2>3. \A r \in Res : /\ max_resources[r] \in Nat /\ available[r] \in Nat
                       /\ call.req[r] \in Nat
                       /\ SlotSum(BankerShare(r), max_resources[r]) \in Nat
    BY SlotSumType, ResourcesAssumption
       DEF IInv, TypeOK, BankerTypeOK, Calls, Amounts
  <2>4. \A r \in Res : /\ BankerInFlight(r) = call.req[r]
                       /\ MemoryInFlight(r) = 0
    BY <2>1 DEF BankerInFlight, MemoryInFlight
  <2>5. available_ram \in Nat /\ available_hdd \in Nat
    BY DEF IInv, TypeOK, MemoryTypeOK
  <2>6. "ram" \in Res /\ "hdd" \in Res
    BY DEF Res
  <2>7. ASSUME NEW r \in Res, NEW held \in Nat,
               held + SlotSum(MemoryShare(r), max_resources[r]) + MemoryInFlight(r)
                  = max_resources[r]
        PROVE  held >= call.req[r]
    <3>1. available[r] + SlotSum(BankerShare(r), max_resources[r]) + BankerInFlight(r)
             = max_resources[r]
      BY DEF IInv, BankerBalanced
    <3>2. SlotSum(MemoryShare(r), max_resources[r]) = SlotSum(BankerShare(r), max_resources[r])
      BY <2>2
    <3>3. BankerInFlight(r) = call.req[r] /\ MemoryInFlight(r) = 0
      BY <2>4
    <3> QED BY <2>3, <2>7, <3>1, <3>2, <3>3
  <2>8. /\ available_ram + SlotSum(MemoryShare("ram"), max_resources["ram"])
              + MemoryInFlight("ram") = max_resources["ram"]
        /\ available_hdd + SlotSum(MemoryShare("hdd"), max_resources["hdd"])
              + MemoryInFlight("hdd") = max_resources["hdd"]
    BY DEF IInv, MemoryBalanced, total_ram, total_hdd
  <2> QED BY <2>5, <2>6, <2>7, <2>8 DEF check_memory_available
<1> QED BY Invariance, <1>1, PTL

\* The process table: pointers, counter and pids agree with the heap, and no
\* handler uses a PCB that was freed or undoes another process's request.
THEOREM TableCorrect == Spec => []TableConsistent
<1>1. IInv => TableConsistent
  BY DEF IInv, TableConsistent
<1> QED BY Invariance, <1>1, PTL

\* No process, and no grant on its way to one, is larger than the machine.
THEOREM MachineBounds == Spec => []WithinMachine
<1>1. IInv => WithinMachine
  BY DEF IInv
<1> QED BY Invariance, <1>1, PTL

Members(queue) == {queue[k] : k \in 1 .. Len(queue)}

\* An enqueued process joins its queue and nobody leaves it.
LEMMA AppendMembers ==
    ASSUME NEW queue \in Seq(Addr), NEW process \in Addr
    PROVE  Members(Append(queue, process)) = Members(queue) \union {process}
<1> DEFINE longer == Append(queue, process)
<1>1. /\ Len(longer) = Len(queue) + 1 /\ Len(queue) \in Nat
      /\ \A k \in 1 .. Len(queue) : longer[k] = queue[k]
      /\ longer[Len(queue) + 1] = process
  OBVIOUS
<1> HIDE DEF longer
<1>2. \A k \in 1 .. Len(longer) : k \in 1 .. Len(queue) \/ k = Len(queue) + 1
  BY <1>1
<1>3. \A k \in 1 .. Len(queue) : k \in 1 .. Len(longer)
  BY <1>1
<1>4. Len(queue) + 1 \in 1 .. Len(longer)
  BY <1>1
<1>5. Members(longer) = Members(queue) \union {process}
  BY <1>1, <1>2, <1>3, <1>4 DEF Members
<1> QED BY <1>5 DEF longer

\* A process that was launched stays in the queue of its priority until its PCB is
\* freed (enqueue_process; nothing in main or app_framework takes one out).
THEOREM QueuesComplete == Spec => []LiveProcessesQueued
<1> DEFINE Ready == pc = "fork" => heap[call.process].state = "READY"
           QInv == LiveProcessesQueued /\ Ready
<1>1. Init => QInv
  BY DEF Init, init_process_manager, LiveProcessesQueued
<1>2. IInv /\ QInv /\ [Next]_vars => QInv'
  <2> SUFFICES ASSUME IInv, QInv, [Next]_vars PROVE QInv'
    OBVIOUS
  <2>0. /\ TypeOK /\ HandlerConsistent /\ TableOwnsHeap /\ NULL \notin Addr
        /\ heap \in [Addr -> PCB \union {NULL}]
        /\ queues \in [Priorities -> Seq(Addr)]
    BY TableAssumption DEF IInv, TypeOK, TableTypeOK
  <2>1. LiveProcessesQueued <=>
          \A a \in Addr : heap[a] # NULL /\ heap[a].state # "NEW"
                             => a \in Members(queues[heap[a].priority])
    BY DEF LiveProcessesQueued, Queued, Members
  <2>2. LiveProcessesQueued' <=>
          \A a \in Addr : heap'[a] # NULL /\ heap'[a].state # "NEW"
                             => a \in Members(queues'[heap'[a].priority])
    BY DEF LiveProcessesQueued, Queued, Members
  <2>3. ASSUME queues' = queues, pc' # "fork",
               \A a \in Addr : heap'[a] # NULL /\ heap'[a].state # "NEW" =>
                  /\ heap[a] # NULL /\ heap[a].state # "NEW"
                  /\ heap'[a].priority = heap[a].priority
        PROVE  QInv'
    BY <2>1, <2>2, <2>3
  <2>4. CASE UNCHANGED <<heap, queues>> /\ (pc' # "fork" \/ UNCHANGED <<pc, call>>)
    BY <2>1, <2>2, <2>4
  <2>5. ASSUME NEW b \in Addr, Create(b) PROVE QInv'
    <3>1. /\ queues' = queues /\ pc' = "enqueue"
          /\ heap' = [heap EXCEPT ![b] = [pid |-> next_pid, state |-> "NEW",
                         priority |-> call.priority, req |-> call.req, system_pid |-> 0]]
      BY <2>5 DEF Create, create_process
    <3> QED BY <2>0, <2>3, <3>1
  <2>6. CASE Enqueue
    <3> DEFINE p == call.process
               pcb == [heap[p] EXCEPT !.state = "READY"]
    <3>1. p \in Addr /\ heap[p] \in PCB /\ heap[p].priority \in Priorities
      BY <2>0, <2>6 DEF Enqueue, HandlerConsistent, Launching, TypeOK, Calls, PCB
    <3>2. /\ heap' = [heap EXCEPT ![p] = pcb] /\ call' = call
          /\ pcb.priority = heap[p].priority /\ pcb.state = "READY"
      BY <2>6, <3>1 DEF Enqueue, Goto, PCB
    <3>3. queues' = [queues EXCEPT ![heap[p].priority] = Append(queues[heap[p].priority], p)]
      BY <2>6 DEF Enqueue, queue_enqueue
    <3> HIDE DEF pcb, p
    <3>4. Members(Append(queues[heap[p].priority], p))
             = Members(queues[heap[p].priority]) \union {p}
      BY <2>0, <3>1, AppendMembers
    <3>5. /\ p \in Members(queues'[heap[p].priority])
          /\ \A q \in Priorities : Members(queues[q]) \subseteq Members(queues'[q])
      BY <2>0, <3>1, <3>3, <3>4
    <3>6. heap'[p] = pcb /\ \A a \in Addr \ {p} : heap'[a] = heap[a]
      BY <2>0, <3>1, <3>2
    <3>7. \A a \in Addr : heap[a] # NULL => heap[a].priority \in Priorities
      BY <2>0 DEF PCB
    <3>8. LiveProcessesQueued'
      BY <2>1, <2>2, <3>2, <3>5, <3>6, <3>7
    <3>9. heap'[call'.process].state = "READY"
      BY <3>2, <3>6 DEF p
    <3> QED BY <3>8, <3>9
  <2>7. CASE Fork
    <3> DEFINE pcb == [heap[call.process] EXCEPT !.system_pid = heap[call.process].pid,
                                                 !.state = "RUNNING"]
    <3>1. call.process \in Addr /\ heap[call.process] \in PCB /\ heap[call.process] # NULL
      BY <2>0, <2>7 DEF Fork, HandlerConsistent, Launching, TypeOK, Calls
    <3>2. /\ heap' = [heap EXCEPT ![call.process] = pcb] /\ queues' = queues
          /\ pc = "fork" /\ pc' = "pause"
      BY <2>0, <2>7, <3>1 DEF Fork
    <3>3. pcb.priority = heap[call.process].priority
      BY <3>1 DEF PCB
    <3> HIDE DEF pcb
    <3> QED BY <2>0, <2>3, <3>1, <3>2, <3>3
  <2>8. CASE Terminate
    <3>1. /\ queues' = queues /\ heap' = [heap EXCEPT ![call.process] = NULL]
          /\ pc' = "pause"
      BY <2>8 DEF Terminate, terminate_process, Return
    <3> QED BY <2>0, <2>3, <3>1
  <2>9. CASE Cleanup
    <3>1. \A a \in Addr : heap'[a] = NULL
      BY <2>0, <2>9 DEF Cleanup, free_all_processes, TableOwnsHeap
    <3> QED BY <2>2, <2>9, <3>1 DEF Cleanup, Goto
  <2> QED
    BY <2>4, <2>5, <2>6, <2>7, <2>8, <2>9
       DEF Next, UserStep, ProgramStep, vars, tableVars, osVars, CheckRunning, MenuReturns, Enter,
           LaunchSelected, KillSelected, ShutdownSelected, RequestGranted, RequestDenied,
           Allocate, CreateFails, create_process_fails, ForkFails, Deallocate, Release,
           SigInt, ChildExits, Off, Goto, Return
<1>3. QInv => LiveProcessesQueued
  OBVIOUS
<1> QED BY Invariance, <1>1, <1>2, <1>3, PTL DEF Spec

-----------------------------------------------------------------------------
(* The rows of the Banker under this caller *)

\* A request is that of an application of the table.
CallIsApp ==
    pc = "request" => call.id \in Apps /\ call.req = available_apps[call.id].req

\* A maximum on record is what the application of that row asks for.
AppRows(mx) ==
    \A i \in Active(mx) : \E a \in Apps : Row(a) = i /\ mx[i] = available_apps[a].req

\* The need of a row that holds something is current; that of any other row is
\* nothing.
RowsCurrent(al, mx, nd) ==
    \A i \in Index : IF al[i] = Zero THEN Fits(nd[i], Zero)
                     ELSE i \in Active(mx) /\ nd[i] = Minus(mx[i], al[i])

\* Whatever kills under the wrong id took from the rows, they can be finished:
\* the last one granted first.
RowsSafe(av, al, mx, nd) ==
    AppRows(mx) /\ RowsCurrent(al, mx, nd) /\ HasCompletionOrder(av, al, nd, Holding(al))

RowsInv == CallIsApp /\ RowsSafe(available, allocation, max_need, need)

LEMMA RowTypes ==
    ASSUME TypeOK
    PROVE  /\ available \in Amounts /\ available \in Vectors
           /\ allocation \in [Index -> Amounts] /\ max_need \in [Index -> Amounts]
           /\ need \in Needs
           /\ call.id \in Nat /\ call.req \in Amounts /\ Row(call.id) \in Index
<1>1. call.id \in Nat /\ call.req \in Amounts
  BY DEF TypeOK, Calls
<1>2. Row(call.id) \in Index
  BY <1>1, RowType
<1> QED BY <1>1, <1>2, AmountsInts DEF TypeOK, BankerTypeOK, Vectors, Needs

\* Known or not, the maximum of the row is the request.
LEMMA RequestIsMaximum ==
    ASSUME TypeOK, RowsInv, pc = "request"
    PROVE  /\ call.req["ram"] \in Nat /\ call.req["ram"] > 0 /\ call.id \in Apps
           /\ MaxNeedAfter(call.id, call.req) = [max_need EXCEPT ![Row(call.id)] = call.req]
<1> DEFINE k == Row(call.id)
<1>1. /\ call.id \in Apps /\ call.req = available_apps[call.id].req /\ AppRows(max_need)
      /\ max_need \in [Index -> Amounts] /\ k \in Index /\ call.req \in Amounts
  BY RowTypes DEF RowsInv, CallIsApp, RowsSafe
<1>2. call.req["ram"] > 0 /\ call.req["ram"] \in Nat
  BY <1>1, AppsAssumption DEF Amounts, Res
<1>3. max_need[k]["ram"] # 0 => max_need[k] = call.req
  <2> SUFFICES ASSUME k \in Active(max_need) PROVE max_need[k] = call.req
    BY <1>1 DEF Active
  <2>1. PICK a \in Apps : Row(a) = k /\ max_need[k] = available_apps[a].req
    BY <1>1 DEF AppRows
  <2>2. a = call.id
    BY <1>1, <2>1, AppsAssumption DEF Row
  <2> QED BY <1>1, <2>1, <2>2
<1>4. MaxNeedAfter(call.id, call.req) = [max_need EXCEPT ![k] = call.req]
  BY <1>1, <1>3 DEF MaxNeedAfter
<1> QED BY <1>1, <1>2, <1>4

\* The state a request that fits would lead to is safe.
LEMMA GrantKeepsRows ==
    ASSUME TypeOK, RowsInv, pc = "request", Fits(call.req, available),
           NEW k, k = Row(call.id),
           NEW mx, mx = MaxNeedAfter(call.id, call.req),
           NEW al, al = AllocationAfter(call.id, call.req),
           NEW nd, nd = [need EXCEPT ![k] = Minus(mx[k], al[k])]
    PROVE  /\ RowsSafe(Minus(available, call.req), al, mx, nd)
           /\ Minus(available, call.req) \in Vectors
           /\ al \in [Index -> Amounts] /\ nd \in Needs
<1> DEFINE req == call.req
           left == Plus(allocation[k], req)
<1>1. /\ available \in Amounts /\ available \in Vectors
      /\ allocation \in [Index -> Amounts] /\ max_need \in [Index -> Amounts]
      /\ need \in Needs /\ req \in Amounts /\ k \in Index
  BY RowTypes
<1>2. /\ req["ram"] \in Nat /\ req["ram"] > 0 /\ call.id \in Apps
      /\ mx = [max_need EXCEPT ![k] = req]
  BY RequestIsMaximum
<1>3. /\ AppRows(max_need) /\ RowsCurrent(allocation, max_need, need)
      /\ HasCompletionOrder(available, allocation, need, Holding(allocation))
      /\ req = available_apps[call.id].req
  BY DEF RowsInv, RowsSafe, CallIsApp
<1> HIDE DEF req
<1>4. /\ left \in Amounts /\ Minus(available, req) \in Vectors
      /\ Minus(req, left) \in Vectors
  <2>1. allocation[k] \in Amounts
    BY <1>1
  <2> QED BY <1>1, <2>1, VectorTypes, AmountsInts DEF Vectors
<1>5. /\ al = [allocation EXCEPT ![k] = left] /\ al \in [Index -> Amounts]
      /\ al[k] = left /\ mx[k] = req
      /\ \A j \in Index \ {k} : al[j] = allocation[j] /\ mx[j] = max_need[j]
  BY <1>1, <1>2, <1>4 DEF AllocationAfter, req
<1>6. /\ nd = [need EXCEPT ![k] = Minus(req, left)] /\ nd \in Needs
      /\ nd[k] = Minus(req, left) /\ \A j \in Index \ {k} : nd[j] = need[j]
  BY <1>1, <1>4, <1>5 DEF Needs
<1>7. /\ \A r \in Res : left[r] = allocation[k][r] + req[r]
      /\ \A r \in Res : allocation[k][r] \in Nat /\ req[r] \in Nat
  BY <1>1 DEF Plus, Amounts
<1>8. left # Zero
  <2>1. left["ram"] > 0 /\ Zero["ram"] = 0
    BY <1>2, <1>7 DEF Zero, Res
  <2> QED BY <2>1
<1>9. Fits(Minus(req, left), Zero)
  BY <1>7 DEF Fits, Minus, Zero
<1> HIDE DEF left
<1>10. AppRows(mx)
  <2> SUFFICES ASSUME NEW i \in Active(mx)
               PROVE  \E a \in Apps : Row(a) = i /\ mx[i] = available_apps[a].req
    BY DEF AppRows
  <2>1. CASE i = k
    BY <1>2, <1>3, <1>5, <2>1 DEF req
  <2>2. CASE i # k
    <3>1. i \in Active(max_need) /\ mx[i] = max_need[i]
      BY <1>5, <2>2 DEF Active
    <3> QED BY <1>3, <3>1 DEF AppRows
  <2> QED BY <2>1, <2>2
<1>11. RowsCurrent(al, mx, nd)
  <2> SUFFICES ASSUME NEW i \in Index
               PROVE  IF al[i] = Zero THEN Fits(nd[i], Zero)
                      ELSE i \in Active(mx) /\ nd[i] = Minus(mx[i], al[i])
    BY DEF RowsCurrent
  <2>1. CASE i = k
    BY <1>2, <1>5, <1>6, <1>8, <2>1 DEF Active
  <2>2. CASE i # k
    BY <1>3, <1>5, <1>6, <2>2 DEF RowsCurrent, Active
  <2> QED BY <2>1, <2>2
<1>12. HasCompletionOrder(Minus(available, req), al, nd, Holding(al))
  <2>1. FullyGranted(k, req, available, Minus(available, req), allocation, al, need, nd)
    <3>1. Fits(req, available)
      BY DEF req
    <3>2. al = [allocation EXCEPT ![k] = Plus(allocation[k], req)]
      BY <1>5 DEF left
    <3> QED BY ONLY <1>1, <1>5, <1>6, <1>8, <1>9, <3>1, <3>2 DEF FullyGranted
  <2> QED BY ONLY <1>3, <2>1, FullGrantOrder
<1> QED BY <1>4, <1>5, <1>6, <1>10, <1>11, <1>12 DEF RowsSafe, req

\* So the safety check never refuses a request that fits.
LEMMA NeverRefused ==
    ASSUME TypeOK, RowsInv, pc = "request", Fits(call.req, available)
    PROVE  Grants(call.id, call.req)
<1> DEFINE k == Row(call.id)
           mx == MaxNeedAfter(call.id, call.req)
           al == AllocationAfter(call.id, call.req)
           nd == [need EXCEPT ![k] = Minus(mx[k], al[k])]
           av == Minus(available, call.req)
<1>1. RowsSafe(av, al, mx, nd) /\ av \in Vectors /\ al \in [Index -> Amounts] /\ nd \in Needs
  BY GrantKeepsRows
<1>2. Grants(call.id, call.req) <=> is_safe_state(av, al, mx, nd, Cardinality(Active(mx)))
  BY DEF Grants, SafeToGrant
<1> HIDE DEF k, mx, al, nd, av
<1>3. Holding(al) \subseteq Active(mx)
  BY <1>1 DEF RowsSafe, RowsCurrent, Holding
<1>4. ASSUME NEW i \in Active(mx) \ Holding(al), NEW r \in Res
      PROVE  nd[i][r] <= av[r] + RowSum(al, Index, r)
  <2>1. i \in Index /\ al[i] = Zero
    BY DEF Active, Holding
  <2>2. nd[i][r] <= 0
    BY <1>1, <2>1 DEF RowsSafe, RowsCurrent, Fits, Zero
  <2>3. nd[i][r] \in Int /\ RowSum(al, Index, r) \in Nat
    BY <1>1, <2>1, NeedsInt, RowSumLaws
  <2>4. av[r] \in Nat
    <3>1. available[r] \in Nat /\ call.req[r] \in Nat /\ call.req[r] <= available[r]
      BY RowTypes DEF Amounts, Fits
    <3> QED BY <3>1 DEF av, Minus
  <2> QED BY <2>2, <2>3, <2>4
<1>5. HasCompletionOrder(av, al, nd, Holding(al))
  BY <1>1 DEF RowsSafe
<1>6. is_safe_state(av, al, mx, nd, Cardinality(Active(mx)))
  BY ONLY <1>1, <1>3, <1>4, <1>5, SearchIsExact
<1> QED BY <1>2, <1>6

LEMMA GrantedRows ==
    ASSUME TypeOK, RowsInv, RequestGranted
    PROVE  RowsInv'
<1>1. /\ pc = "request" /\ pc' = "allocate" /\ Fits(call.req, available)
      /\ available' = Minus(available, call.req)
      /\ allocation' = AllocationAfter(call.id, call.req)
      /\ max_need' = MaxNeedAfter(call.id, call.req)
      /\ need' = [need EXCEPT ![Row(call.id)] =
                    Minus(max_need'[Row(call.id)], allocation'[Row(call.id)])]
  BY DEF RequestGranted, request_granted, Grants, Goto
<1>2. RowsSafe(available', allocation', max_need', need')
  BY <1>1, GrantKeepsRows
<1> QED BY <1>1, <1>2 DEF RowsInv, CallIsApp

\* A refusal is for want of resources, and leaves a maximum behind at most.
LEMMA DeniedRows ==
    ASSUME TypeOK, RowsInv, RequestDenied
    PROVE  RowsInv' /\ ~Fits(call.req, available)
<1> DEFINE k == Row(call.id)
<1>1. pc = "request" /\ request_denied(call.id, call.req) /\ pc' = "pause"
  BY DEF RequestDenied, Return
<1>2. ~Fits(call.req, available)
  BY <1>1, NeverRefused DEF request_denied
<1>3. /\ available' = available /\ allocation' = allocation /\ need' = need
      /\ max_need' = [max_need EXCEPT ![k] = call.req]
  BY <1>1, <1>2, RequestIsMaximum DEF request_denied
<1>4. /\ call.id \in Apps /\ call.req = available_apps[call.id].req /\ k \in Index
      /\ call.req["ram"] \in Nat /\ call.req["ram"] > 0
      /\ max_need \in [Index -> Amounts] /\ max_need'[k] = call.req
      /\ \A j \in Index \ {k} : max_need'[j] = max_need[j]
      /\ RowsSafe(available, allocation, max_need, need)
  BY <1>1, <1>3, RowTypes, RequestIsMaximum DEF RowsInv, CallIsApp
<1>5. AppRows(max_need')
  <2> SUFFICES ASSUME NEW i \in Active(max_need')
               PROVE  \E a \in Apps : Row(a) = i /\ max_need'[i] = available_apps[a].req
    BY DEF AppRows
  <2>1. CASE i = k
    BY <1>4, <2>1
  <2>2. CASE i # k
    BY <1>4, <2>2 DEF RowsSafe, AppRows, Active
  <2> QED BY <2>1, <2>2
<1>6. RowsCurrent(allocation', max_need', need')
  <2> SUFFICES ASSUME NEW i \in Index
               PROVE  IF allocation[i] = Zero THEN Fits(need[i], Zero)
                      ELSE i \in Active(max_need') /\ need[i] = Minus(max_need'[i], allocation[i])
    BY <1>3 DEF RowsCurrent
  <2>1. IF allocation[i] = Zero THEN Fits(need[i], Zero)
        ELSE i \in Active(max_need) /\ need[i] = Minus(max_need[i], allocation[i])
    BY <1>4 DEF RowsSafe, RowsCurrent
  <2>2. i \in Active(max_need) => max_need'[i] = max_need[i]
    <3>1. CASE i = k
      <4> SUFFICES ASSUME k \in Active(max_need) PROVE max_need[k] = call.req
        BY <1>4, <3>1
      <4>1. PICK a \in Apps : Row(a) = k /\ max_need[k] = available_apps[a].req
        BY <1>4 DEF RowsSafe, AppRows
      <4>2. a = call.id
        BY <1>4, <4>1, AppsAssumption DEF Row
      <4> QED BY <1>4, <4>1, <4>2
    <3>2. CASE i # k
      BY <1>4, <3>2
    <3> QED BY <3>1, <3>2
  <2> QED BY <2>1, <2>2 DEF Active
<1> QED BY <1>1, <1>2, <1>3, <1>4, <1>5, <1>6 DEF RowsInv, CallIsApp, RowsSafe

\* A release under whichever id frees at least what it takes from the row.
LEMMA ReleasedRows ==
    ASSUME TypeOK, RowsInv, Release
    PROVE  RowsInv'
<1> DEFINE k == Row(call.id)
           req == call.req
           left == Clamped(Minus(allocation[k], req))
           back == Minus(allocation[k], left)
           other == [need EXCEPT ![k] = Plus(need[k], back)]
<1>1. release_resources(call.id, req) /\ pc' \in {"pause", "terminate"}
  BY DEF Release, Return, Goto
<1>2. /\ available \in Amounts /\ available \in Vectors
      /\ allocation \in [Index -> Amounts] /\ max_need \in [Index -> Amounts]
      /\ need \in Needs /\ req \in Amounts /\ k \in Index
  BY RowTypes
<1>3. /\ AppRows(max_need) /\ RowsCurrent(allocation, max_need, need)
      /\ HasCompletionOrder(available, allocation, need, Holding(allocation))
  BY DEF RowsInv, RowsSafe
<1>4. /\ available' = Plus(available, req)
      /\ allocation' = [allocation EXCEPT ![k] = left]
      /\ max_need' = IF left = Zero THEN [max_need EXCEPT ![k] = Zero] ELSE max_need
      /\ need' = [need EXCEPT ![k] = Minus(max_need'[k], left)]
  BY <1>1 DEF release_resources
<1> HIDE DEF k, req
<1>5. allocation[k] \in Amounts /\ need[k] \in Vectors
  BY <1>2 DEF Needs
<1>6. left \in Amounts
  BY <1>2, <1>5, VectorTypes, AmountsInts
<1>7. ASSUME NEW r \in Res
      PROVE  /\ back[r] = allocation[k][r] - left[r] /\ 0 <= back[r] /\ back[r] <= req[r]
             /\ back[r] \in Nat /\ left[r] \in Nat /\ allocation[k][r] \in Nat /\ req[r] \in Nat
  BY <1>2, <1>5, <1>6 DEF Minus, Clamped, Amounts
<1>8. back \in Amounts
  BY <1>7 DEF Minus, Amounts
<1> HIDE DEF left, back
<1>9. /\ allocation' \in [Index -> Amounts] /\ allocation'[k] = left
      /\ max_need' \in [Index -> Amounts] /\ need' \in Needs
      /\ need'[k] = Minus(max_need'[k], left)
      /\ \A j \in Index \ {k} : /\ allocation'[j] = allocation[j] /\ max_need'[j] = max_need[j]
                                /\ need'[j] = need[j]
  <2>1. allocation' \in [Index -> Amounts] /\ max_need' \in [Index -> Amounts]
    BY <1>2, <1>4, <1>6, ZeroType
  <2>2. Minus(max_need'[k], left) \in Vectors
    BY <1>2, <1>6, <2>1, VectorTypes, AmountsInts DEF Vectors
  <2> QED BY <1>2, <1>4, <1>6, <2>1, <2>2 DEF Needs
<1>10. left = Zero => max_need'[k] = Zero
  BY <1>2, <1>4
<1>11. left # Zero => max_need'[k] = max_need[k] /\ allocation[k] # Zero
  <2> SUFFICES ASSUME left # Zero PROVE allocation[k] # Zero
    BY <1>4
  <2> SUFFICES ASSUME allocation[k] = Zero PROVE left = Zero
    OBVIOUS
  <2>1. \A r \in Res : left[r] = 0
    BY <1>7 DEF Zero
  <2> QED BY <1>6, <2>1 DEF Zero, Amounts
<1>12. AppRows(max_need')
  <2> SUFFICES ASSUME NEW i \in Active(max_need')
               PROVE  \E a \in Apps : Row(a) = i /\ max_need'[i] = available_apps[a].req
    BY DEF AppRows
  <2>1. max_need'[i] = max_need[i]
    <3>1. Zero["ram"] = 0 /\ max_need'[i]["ram"] # 0 /\ i \in Index
      BY DEF Zero, Res, Active
    <3> QED BY <1>9, <1>10, <1>11, <3>1
  <2>2. i \in Active(max_need)
    BY <2>1 DEF Active
  <2> QED BY <1>3, <2>1, <2>2 DEF AppRows
<1>13. Minus(Zero, Zero) = Zero /\ Fits(Zero, Zero)
  BY DEF Minus, Zero, Fits
<1>14. RowsCurrent(allocation', max_need', need')
  <2> SUFFICES ASSUME NEW i \in Index
               PROVE  IF allocation'[i] = Zero THEN Fits(need'[i], Zero)
                      ELSE /\ i \in Active(max_need')
                           /\ need'[i] = Minus(max_need'[i], allocation'[i])
    BY DEF RowsCurrent
  <2>1. IF allocation[i] = Zero THEN Fits(need[i], Zero)
        ELSE i \in Active(max_need) /\ need[i] = Minus(max_need[i], allocation[i])
    BY <1>3 DEF RowsCurrent
  <2>2. CASE i # k
    BY <1>9, <2>1, <2>2 DEF Active
  <2>3. CASE i = k /\ left = Zero
    BY <1>9, <1>10, <1>13, <2>3
  <2>4. CASE i = k /\ left # Zero
    BY <1>9, <1>11, <2>1, <2>4 DEF Active
  <2> QED BY <2>2, <2>3, <2>4
<1>15. /\ other \in Needs /\ other[k] = Plus(need[k], back)
       /\ \A j \in Index \ {k} : other[j] = need[j]
  <2>1. Plus(need[k], back) \in Vectors
    BY <1>5, <1>8, VectorTypes, AmountsInts DEF Vectors
  <2> QED BY <1>2, <2>1 DEF Needs
<1> HIDE DEF other
<1>16. HasCompletionOrder(Plus(available, back), allocation', other, Holding(allocation'))
  <2>1. /\ \A r \in Res : left[r] = allocation[k][r] - back[r]
        /\ \A r \in Res : Plus(available, back)[r] = available[r] + back[r]
    BY <1>7 DEF Plus
  <2>2. \A r \in Res : \A i \in Holding(allocation') :
           other[i][r] = IF i = k THEN need[i][r] + back[r] ELSE need[i][r]
    BY <1>15 DEF Holding, Plus
  <2>3. GivenBack(k, back, left, available, Plus(available, back), allocation, allocation',
                  need, other)
    BY ONLY <1>2, <1>4, <1>6, <1>8, <2>1, <2>2 DEF GivenBack
  <2> QED BY ONLY <1>3, <2>3, GiveBackOrder
<1>17. /\ Plus(available, back) \in Vectors /\ available' \in Vectors
       /\ Fits(Plus(available, back), available')
  <2>1. Plus(available, back) \in Vectors /\ Plus(available, req) \in Vectors
    BY <1>2, <1>8, VectorTypes, AmountsInts DEF Vectors
  <2>2. Fits(Plus(available, back), Plus(available, req))
    <3> SUFFICES ASSUME NEW r \in Res
                 PROVE  Plus(available, back)[r] <= Plus(available, req)[r]
      BY DEF Fits
    <3>1. available[r] \in Nat /\ back[r] \in Nat /\ req[r] \in Nat /\ back[r] <= req[r]
      BY <1>2, <1>7 DEF Amounts
    <3> QED BY <3>1 DEF Plus
  <2> QED BY <1>4, <2>1, <2>2
<1>18. Holding(allocation') \in SUBSET Index /\ \A i \in Holding(allocation') : Fits(need'[i], other[i])
  <2> SUFFICES ASSUME NEW i \in Index, allocation'[i] # Zero PROVE Fits(need'[i], other[i])
    BY DEF Holding
  <2>1. CASE i # k
    <3>1. need'[i] = need[i] /\ other[i] = need[i] /\ need[i] \in [Res -> Int]
      BY <1>2, <1>9, <1>15, <2>1 DEF Needs, Vectors
    <3> QED BY <3>1 DEF Fits
  <2>2. CASE i = k
    <3>1. need[k] = Minus(max_need[k], allocation[k]) /\ need'[k] = Minus(max_need[k], left)
      BY <1>2, <1>3, <1>9, <1>11, <2>2 DEF RowsCurrent
    <3> SUFFICES ASSUME NEW r \in Res PROVE need'[k][r] <= other[k][r]
      BY <2>2 DEF Fits
    <3>2. need'[k][r] = max_need[k][r] - left[r]
      BY <3>1 DEF Minus
    <3>3. other[k][r] = (max_need[k][r] - allocation[k][r]) + back[r]
      BY <1>15, <3>1 DEF Minus, Plus
    <3>4. max_need[k][r] \in Nat
      BY <1>2 DEF Amounts
    <3> QED BY <1>7, <3>2, <3>3, <3>4
  <2> QED BY <2>1, <2>2
<1>19. HasCompletionOrder(available', allocation', need', Holding(allocation'))
  BY ONLY <1>9, <1>15, <1>16, <1>17, <1>18, OrderMore
<1> QED BY <1>1, <1>12, <1>14, <1>19 DEF RowsInv, CallIsApp, RowsSafe

LEMMA RowsInit == Init => RowsInv
<1> SUFFICES ASSUME Init PROVE RowsInv
  OBVIOUS
<1>1. /\ allocation = [i \in Index |-> Zero] /\ max_need = [i \in Index |-> Zero]
      /\ need = [i \in Index |-> Zero] /\ pc = "head"
  BY DEF Init, init_banker
<1>2. Zero["ram"] = 0 /\ Fits(Zero, Zero)
  BY DEF Zero, Res, Fits
<1>3. AppRows(max_need) /\ RowsCurrent(allocation, max_need, need)
  BY <1>1, <1>2 DEF AppRows, Active, RowsCurrent
<1>4. Holding(allocation) = {}
  BY <1>1 DEF Holding
<1>5. HasCompletionOrder(available, allocation, need, {})
  <2>1. [i \in {} |-> 0] \in [{} -> Nat]
    OBVIOUS
  <2> QED BY <2>1, OrderFrom
<1> QED BY <1>1, <1>3, <1>4, <1>5 DEF RowsInv, CallIsApp, RowsSafe

LEMMA RowsStep == TypeOK /\ RowsInv /\ [Next]_vars => RowsInv'
<1> SUFFICES ASSUME TypeOK, RowsInv, [Next]_vars PROVE RowsInv'
  OBVIOUS
<1>1. ASSUME UNCHANGED bankerVars, CallIsApp'
      PROVE  RowsInv'
  BY <1>1 DEF RowsInv, bankerVars
<1>2. CASE RequestGranted \/ RequestDenied \/ Release
  BY <1>2, GrantedRows, DeniedRows, ReleasedRows
<1>3. ASSUME NEW app_id \in Apps, LaunchSelected(app_id)
      PROVE  RowsInv'
  BY <1>1, <1>3 DEF LaunchSelected, CallIsApp
<1>4. CASE \/ UNCHANGED vars \/ SigInt \/ Off
           \/ \E child \in os_running : ChildExits(child)
  BY <1>1, <1>4 DEF RowsInv, CallIsApp, vars, osVars, SigInt, Off, ChildExits
<1>5. CASE \/ CheckRunning \/ MenuReturns \/ Enter \/ ShutdownSelected
           \/ \E process \in Addr : KillSelected(process)
  <2>1. UNCHANGED bankerVars /\ pc' # "request"
    BY <1>5 DEF CheckRunning, MenuReturns, Enter, ShutdownSelected, KillSelected, Goto
  <2> QED BY <1>1, <2>1 DEF CallIsApp
<1>6. CASE \/ Allocate \/ (\E a \in Addr : Create(a)) \/ CreateFails \/ Enqueue
           \/ Fork \/ ForkFails \/ Deallocate \/ Terminate \/ Cleanup
  <2>1. UNCHANGED bankerVars /\ pc' # "request"
    BY <1>6 DEF Allocate, Create, CreateFails, Enqueue, Fork, ForkFails, Deallocate,
                Terminate, Cleanup, Goto, Return
  <2> QED BY <1>1, <2>1 DEF CallIsApp
<1> QED
  BY <1>2, <1>3, <1>4, <1>5, <1>6 DEF Next, UserStep, ProgramStep

\* The Banker's safety check never refuses an application: a launch that fits
\* is granted, whatever rows the kills before it took their release from.
THEOREM Refusals == Spec => RefusedOnlyWhenShort
<1>1. Spec => []RowsInv
  <2>1. Spec => []TypeOK
    BY TypeCorrect
  <2> QED BY <2>1, RowsInit, RowsStep, PTL DEF Spec
<1>2. TypeOK /\ RowsInv /\ [Next]_vars
         => [pc = "request" /\ pc' = "pause" => ~Fits(call.req, available)]_vars
  <2> SUFFICES ASSUME TypeOK, RowsInv, Next, pc = "request", pc' = "pause"
               PROVE  ~Fits(call.req, available)
    OBVIOUS
  <2>1. RequestDenied
    BY DEF Next, UserStep, ProgramStep, CheckRunning, MenuReturns, Enter, LaunchSelected,
           KillSelected, ShutdownSelected, RequestGranted, Allocate, Create, CreateFails,
           Enqueue, Fork, ForkFails, Deallocate, Release, Terminate, Cleanup, SigInt,
           ChildExits, Off, vars, osVars, Goto
  <2> QED BY <2>1, DeniedRows
<1> QED BY <1>1, <1>2, TypeCorrect, PTL DEF Spec, RefusedOnlyWhenShort

=============================================================================
