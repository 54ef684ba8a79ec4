----------------------------- MODULE Dispatcher -----------------------------
(***************************************************************************)
(* kernel/scheduler.c as the kernel API offers it to threads: linked lists *)
(* with a queue_lock each, enqueue_process and get_next_process with the   *)
(* scheduler_lock around it.  The menu loop (MiniOS) is a client with one  *)
(* thread that only enqueues; here any thread may call any of them.        *)
(*                                                                         *)
(* A function that holds a queue_lock from its first access to its last is *)
(* one step.  get_next_process holds the scheduler_lock over several such  *)
(* steps, and enqueue_process does not take that lock.                     *)
(***************************************************************************)
EXTENDS Integers, Sequences, FiniteSets

CONSTANTS
    Thread,       \* threads that call the scheduler
    Process,
    priority,     \* priority[p], fixed when p is created
    Node,         \* addresses malloc may return for a QueueNode
    NULL

Priorities == {"high", "medium", "low"}

\* The order in which get_next_process looks at the queues.
Rank(l) == CASE l = "high" -> 1 [] l = "medium" -> 2 [] l = "low" -> 3
AtRank(n) == CHOOSE l \in Priorities : Rank(l) = n

\* A QueueNode.
Nodes == [process : Process, next : Node \union {NULL}]

ASSUME DispatcherAssumption ==
    /\ priority \in [Process -> Priorities]
    /\ NULL \notin Process \union Node \union Thread \union Nodes
    /\ Cardinality(Node) >= Cardinality(Process)

VARIABLES
    front, rear, size,    \* the fields of each ProcessQueue
    nodes,                \* the QueueNodes: [process, next], NULL where none is allocated
    state,                \* Process.state
    scheduler_lock,       \* the thread that holds it, or NULL
    pc, mine,             \* of each thread: its next step, the process it has in hand
    rank,                 \* of each thread: the queue get_next_process looks at
    found                 \* history: what was queued when the thread took the lock

listVars == <<front, rear, size, nodes>>
threadVars == <<scheduler_lock, pc, mine, rank, found>>
vars == <<listVars, state, threadVars>>

Labels == {"idle", "ready", "push", "lock", "check", "take", "unlock", "switch", "running"}

TypeOK ==
    /\ front \in [Priorities -> Node \union {NULL}]
    /\ rear \in [Priorities -> Node \union {NULL}]
    /\ size \in [Priorities -> Nat]
    /\ nodes \in [Node -> Nodes \union {NULL}]
    /\ state \in [Process -> {"NEW", "READY", "RUNNING", "TERMINATED"}]
    /\ scheduler_lock \in Thread \union {NULL}
    /\ pc \in [Thread -> Labels]
    /\ mine \in [Thread -> Process \union {NULL}]
    /\ rank \in [Thread -> 1 .. 3]
    /\ found \in [Thread -> SUBSET Process]

Init ==
    /\ front = [l \in Priorities |-> NULL] /\ rear = [l \in Priorities |-> NULL]
    /\ size = [l \in Priorities |-> 0]
    /\ nodes = [n \in Node |-> NULL]
    /\ state = [p \in Process |-> "NEW"]
    /\ scheduler_lock = NULL
    /\ pc = [t \in Thread |-> "idle"] /\ mine = [t \in Thread |-> NULL]
    /\ rank = [t \in Thread |-> 1] /\ found = [t \in Thread |-> {}]

-----------------------------------------------------------------------------
(* The linked lists *)

\* The k-th node of queue l, for k up to its size.
NodeAt(l, k) ==
    LET at[j \in 1 .. k] == IF j = 1 THEN front[l] ELSE nodes[at[j - 1]].next
    IN  at[k]

Contents(l) == [k \in 1 .. size[l] |-> nodes[NodeAt(l, k)].process]

QueuedIn(l) == {Contents(l)[k] : k \in 1 .. size[l]}

\* Mutant: the new node goes to the front.
queue_enqueue_at_front(l, process) ==
    \E n \in Node :
        /\ nodes[n] = NULL
        /\ nodes' = [nodes EXCEPT ![n] = [process |-> process, next |-> front[l]]]
        /\ front' = [front EXCEPT ![l] = n]
        /\ rear' = IF rear[l] = NULL THEN [rear EXCEPT ![l] = n] ELSE rear
        /\ size' = [size EXCEPT ![l] = @ + 1]

queue_enqueue(l, process) ==
    \E n \in Node :
        /\ nodes[n] = NULL
        /\ LET node == [process |-> process, next |-> NULL]
           IN  IF rear[l] = NULL
               THEN /\ nodes' = [nodes EXCEPT ![n] = node]
                    /\ front' = [front EXCEPT ![l] = n]
               ELSE /\ nodes' = [nodes EXCEPT ![n] = node, ![rear[l]].next = n]
                    /\ UNCHANGED front
        /\ rear' = [rear EXCEPT ![l] = n]
        /\ size' = [size EXCEPT ![l] = @ + 1]

\* Mutant: rear is left on the node that is freed.
queue_dequeue_keeps_rear(l) ==
    IF front[l] = NULL
    THEN UNCHANGED listVars
    ELSE /\ front' = [front EXCEPT ![l] = nodes[front[l]].next]
         /\ size' = [size EXCEPT ![l] = @ - 1]
         /\ nodes' = [nodes EXCEPT ![front[l]] = NULL]
         /\ UNCHANGED rear

queue_dequeue(l) ==
    IF front[l] = NULL
    THEN UNCHANGED listVars
    ELSE LET n == front[l]
         IN  /\ front' = [front EXCEPT ![l] = nodes[n].next]
             /\ rear' = IF nodes[n].next = NULL THEN [rear EXCEPT ![l] = NULL] ELSE rear
             /\ size' = [size EXCEPT ![l] = @ - 1]
             /\ nodes' = [nodes EXCEPT ![n] = NULL]

\* What queue_dequeue returns.
Dequeued(l) == IF front[l] = NULL THEN NULL ELSE nodes[front[l]].process

-----------------------------------------------------------------------------
Go(t, label) == pc' = [pc EXCEPT ![t] = label]

\* A process no queue and no thread has.
AtLarge(p) ==
    /\ state[p] = "NEW"
    /\ \A l \in Priorities : p \notin QueuedIn(l)
    /\ \A t \in Thread : mine[t] # p

(* enqueue_process *)

Submit(t, p) ==
    /\ pc[t] = "idle" /\ AtLarge(p)
    /\ mine' = [mine EXCEPT ![t] = p]
    /\ Go(t, "ready")
    /\ UNCHANGED <<listVars, state, scheduler_lock, rank, found>>

\* Mutant: the state is not written before the process is visible.
SetReady_skipped(t) ==
    /\ pc[t] = "ready"
    /\ Go(t, "push")
    /\ UNCHANGED <<listVars, state, scheduler_lock, mine, rank, found>>

SetReady(t) ==
    /\ pc[t] = "ready"
    /\ state' = [state EXCEPT ![mine[t]] = "READY"]
    /\ Go(t, "push")
    /\ UNCHANGED <<listVars, scheduler_lock, mine, rank, found>>

Push(t) ==
    /\ pc[t] = "push"
    /\ queue_enqueue(priority[mine[t]], mine[t])
    /\ mine' = [mine EXCEPT ![t] = NULL]
    /\ Go(t, "idle")
    /\ UNCHANGED <<state, scheduler_lock, rank, found>>

(* get_next_process *)

GetNext(t) ==
    /\ pc[t] = "idle"
    /\ Go(t, "lock")
    /\ UNCHANGED <<listVars, state, scheduler_lock, mine, rank, found>>

\* Mutant: the scheduler_lock is not taken.
Lock_not_taken(t) ==
    /\ pc[t] = "lock"
    /\ rank' = [rank EXCEPT ![t] = 1]
    /\ found' = [found EXCEPT ![t] = UNION {QueuedIn(l) : l \in Priorities}]
    /\ Go(t, "check")
    /\ UNCHANGED <<listVars, state, scheduler_lock, mine>>

Lock(t) ==
    /\ pc[t] = "lock" /\ scheduler_lock = NULL
    /\ scheduler_lock' = t
    /\ rank' = [rank EXCEPT ![t] = 1]
    /\ found' = [found EXCEPT ![t] = UNION {QueuedIn(l) : l \in Priorities}]
    /\ Go(t, "check")
    /\ UNCHANGED <<listVars, state, mine>>

\* Mutant: the cascade starts over until a process is there, holding the lock.
Check_waits(t) ==
    /\ pc[t] = "check"
    /\ IF size[AtRank(rank[t])] # 0
       THEN Go(t, "take") /\ UNCHANGED rank
       ELSE /\ rank' = [rank EXCEPT ![t] = IF @ < 3 THEN @ + 1 ELSE 1]
            /\ UNCHANGED pc
    /\ UNCHANGED <<listVars, state, scheduler_lock, mine, found>>

\* queue_is_empty of the queue the cascade has come to.
Check(t) ==
    /\ pc[t] = "check"
    /\ IF size[AtRank(rank[t])] # 0
       THEN Go(t, "take") /\ UNCHANGED rank
       ELSE IF rank[t] < 3
            THEN rank' = [rank EXCEPT ![t] = @ + 1] /\ UNCHANGED pc
            ELSE Go(t, "unlock") /\ UNCHANGED rank
    /\ UNCHANGED <<listVars, state, scheduler_lock, mine, found>>

\* schedule_round_robin, schedule_priority, schedule_fcfs.
Take(t) ==
    /\ pc[t] = "take"
    /\ mine' = [mine EXCEPT ![t] = Dequeued(AtRank(rank[t]))]
    /\ queue_dequeue(AtRank(rank[t]))
    /\ Go(t, "unlock")
    /\ UNCHANGED <<state, scheduler_lock, rank, found>>

Unlock(t) ==
    /\ pc[t] = "unlock"
    /\ scheduler_lock' = NULL
    /\ found' = [found EXCEPT ![t] = {}]
    /\ Go(t, IF mine[t] = NULL THEN "idle" ELSE "switch")
    /\ UNCHANGED <<listVars, state, mine, rank>>

(* context_switch, and the two ends of a process's turn *)

SwitchIn(t) ==
    /\ pc[t] = "switch"
    /\ state' = [state EXCEPT ![mine[t]] = "RUNNING"]
    /\ Go(t, "running")
    /\ UNCHANGED <<listVars, scheduler_lock, mine, rank, found>>

SwitchOut(t) ==
    /\ pc[t] = "running"
    /\ state' = [state EXCEPT ![mine[t]] = "READY"]
    /\ Go(t, "ready")
    /\ UNCHANGED <<listVars, scheduler_lock, mine, rank, found>>

Finish(t) ==
    /\ pc[t] = "running"
    /\ state' = [state EXCEPT ![mine[t]] = "TERMINATED"]
    /\ mine' = [mine EXCEPT ![t] = NULL]
    /\ Go(t, "idle")
    /\ UNCHANGED <<listVars, scheduler_lock, rank, found>>

-----------------------------------------------------------------------------
\* The steps of a call that was made.
CallStep(t) ==
    \/ SetReady(t) \/ Push(t)
    \/ Lock(t) \/ Check(t) \/ Take(t) \/ Unlock(t)
    \/ SwitchIn(t)

ClientStep(t) ==
    \/ \E p \in Process : Submit(t, p)
    \/ GetNext(t) \/ SwitchOut(t) \/ Finish(t)

Next == \E t \in Thread : CallStep(t) \/ ClientStep(t)

\* A thread inside a call runs on; a caller need not call again.
Spec == Init /\ [][Next]_vars /\ \A t \in Thread : WF_vars(CallStep(t))

-----------------------------------------------------------------------------
\* The lists are well formed after any sequence of insertions and removals and
\* any reuse of node addresses: size nodes from front on, the last of them rear
\* and without a successor, and no allocated node outside the lists.
ChainsIntact ==
    /\ TypeOK
    /\ \A l \in Priorities :
          /\ (front[l] = NULL) <=> (size[l] = 0)
          /\ (rear[l] = NULL) <=> (size[l] = 0)
          /\ size[l] > 0 => /\ NodeAt(l, size[l]) = rear[l]
                            /\ nodes[rear[l]] # NULL
                            /\ nodes[rear[l]].next = NULL
    /\ Cardinality({n \in Node : nodes[n] # NULL})
          = size["high"] + size["medium"] + size["low"]

\* A process that can be taken from a queue is READY: no thread runs it, no
\* other queue or place has it (enqueue_process writes the state before the
\* process is visible, without a lock).
QueuedOnceAndReady ==
    \A l \in Priorities : \A j, k \in 1 .. size[l] :
        /\ state[Contents(l)[j]] = "READY"
        /\ priority[Contents(l)[j]] = l
        /\ Contents(l)[j] = Contents(l)[k] => j = k
        /\ \A t \in Thread : mine[t] # Contents(l)[j]

\* get_next_process returns no process while one of higher priority was queued
\* from the time it took the lock, and NULL only if none was: the queue it saw
\* non-empty is still so when it takes from it, and the queues it saw empty
\* held nothing it should have returned.
HighestFirst ==
    \A t \in Thread : pc[t] = "unlock" =>
        \A p \in found[t] : /\ mine[t] # NULL
                            /\ Rank(priority[mine[t]]) <= Rank(priority[p])

\* The three lists are FIFO queues with single-step operations.
Fifo == INSTANCE ReadyQueues WITH
            Level <- Priorities, level_of <- priority,
            ready <- [l \in Priorities |-> Contents(l)]
FifoQueues == Fifo!Spec

\* Whoever holds the scheduler_lock gives it up, on every path of the cascade.
LockReleased ==
    \A t \in Thread : (scheduler_lock = t) ~> (scheduler_lock # t)

=============================================================================
