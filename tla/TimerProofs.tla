---------------------------- MODULE TimerProofs ----------------------------
(***************************************************************************)
(* Proofs about the applications that act at a time of day.  TaskScheduler,*)
(* for every size of the table, every delay and interval, and every        *)
(* interleaving of the task threads with the menu; Clock, for every length *)
(* of a day, of its hours and minutes, every alarm and every time between  *)
(* two rounds that is less than a minute.  The two share no variable and   *)
(* are proved one after the other.                                         *)
(***************************************************************************)
EXTENDS TaskScheduler, Clock, TLAPS

-----------------------------------------------------------------------------
(* TaskScheduler                                                             *)

Labels == {"test", "due", "running", "sleeping", "done", "killed"}

\* The runs of a one-time task: one that has run is out of its loop for good,
\* and until then nothing but its own thread counts a run.
RunsOf(task, label, time) ==
    task.type = "ONCE" =>
        /\ task.run_count \in {0, 1}
        /\ task.run_count = 1 => label \in {"done", "killed"}
        /\ label = "running" \/ task.run_count = 1 => time >= task.execute_time

TasksInv ==
    /\ TypeOK
    /\ thread \in Seq(Labels) /\ Len(thread) = Len(tasks)
    /\ \A i \in 1 .. Len(tasks) : RunsOf(tasks[i], thread[i], now)

-----------------------------------------------------------------------------
LEMMA NewTaskType ==
    ASSUME NEW type \in {"ONCE", "INTERVAL"}, NEW time \in Nat, NEW interval \in Nat
    PROVE  /\ NewTask(type, time, interval) \in Task
           /\ \A label \in {"test"} : \A t \in Nat : RunsOf(NewTask(type, time, interval), label, t)
BY DEF NewTask, Task, Statuses, RunsOf

LEMMA TasksInitInvariant == Init => TasksInv
<1> SUFFICES ASSUME Init PROVE TasksInv
  OBVIOUS
<1> DEFINE a == NewTask("INTERVAL", 0, first_interval)
           b == NewTask("ONCE", 1 + first_delay, 0)
<1>1. a \in Task /\ b \in Task /\ RunsOf(a, "test", 1) /\ RunsOf(b, "test", 1)
  BY NewTaskType, TasksAssumption
<1>2. tasks = <<a, b>> /\ thread = <<"test", "test">> /\ now = 1
  BY DEF Init
<1>3. scheduler_running \in BOOLEAN /\ main = "menu" /\ joining = 0
  BY DEF Init
<1> HIDE DEF a, b
<1>4. tasks \in Seq(Task) /\ Len(tasks) = 2 /\ tasks[1] = a /\ tasks[2] = b
  BY <1>1, <1>2
<1>5. /\ thread \in Seq(Labels) /\ Len(thread) = 2
      /\ \A i \in 1 .. 2 : thread[i] = "test"
  BY <1>2 DEF Labels
<1>6. DOMAIN tasks = 1 .. 2 /\ DOMAIN thread = 1 .. 2
  BY <1>4, <1>5
<1>7. now \in 1 .. MaxTime /\ joining \in 0 .. MAX_TASKS /\ Len(tasks) <= MAX_TASKS
  BY <1>2, <1>3, <1>4, TasksAssumption
<1>8. TypeOK
  BY <1>3, <1>4, <1>5, <1>6, <1>7 DEF TypeOK
<1> QED BY <1>1, <1>2, <1>4, <1>5, <1>8 DEF TasksInv

-----------------------------------------------------------------------------
\* One entry of the table and the step of its thread change.
LEMMA EntryChanges ==
    ASSUME TasksInv, NEW i \in 1 .. Len(tasks), NEW task \in Task, NEW label \in Labels,
           tasks' = [tasks EXCEPT ![i] = task],
           thread' = [thread EXCEPT ![i] = label],
           RunsOf(task, label, now),
           UNCHANGED now, scheduler_running' \in BOOLEAN,
           main' \in {"menu", "exit", "halted"}, joining' \in 0 .. MAX_TASKS
    PROVE  TasksInv'
<1>1. tasks \in Seq(Task) /\ thread \in Seq(Labels) /\ Len(thread) = Len(tasks)
      /\ Len(tasks) \in Nat
  BY DEF TasksInv, TypeOK
<1>2. tasks' \in Seq(Task) /\ Len(tasks') = Len(tasks)
  BY <1>1
<1>3. thread' \in Seq(Labels) /\ Len(thread') = Len(tasks)
  BY <1>1
<1>4. \A j \in 1 .. Len(tasks) : /\ tasks'[j] = IF j = i THEN task ELSE tasks[j]
                                 /\ thread'[j] = IF j = i THEN label ELSE thread[j]
  BY <1>1
<1>5. DOMAIN tasks' = 1 .. Len(tasks) /\ DOMAIN thread' = 1 .. Len(tasks)
  BY <1>2, <1>3
<1>6. \A j \in 1 .. Len(tasks) : thread'[j] \in Labels
  BY <1>3
<1>7. TypeOK'
  BY <1>2, <1>5, <1>6 DEF TasksInv, TypeOK, Labels
<1>8. \A j \in 1 .. Len(tasks) : RunsOf(tasks'[j], thread'[j], now)
  BY <1>4 DEF TasksInv
<1> QED BY <1>2, <1>3, <1>7, <1>8 DEF TasksInv, RunsOf

LEMMA ThreadKeeps ==
    ASSUME TasksInv, NEW i \in DOMAIN thread, ThreadStep(i)
    PROVE  TasksInv'
<1>1. /\ i \in 1 .. Len(tasks) /\ tasks \in Seq(Task) /\ tasks[i] \in Task
      /\ thread \in Seq(Labels) /\ thread[i] \in Labels /\ RunsOf(tasks[i], thread[i], now)
      /\ now \in Nat
  BY DEF TasksInv, TypeOK
<1>2. main \in {"menu", "exit", "halted"} /\ joining \in 0 .. MAX_TASKS
      /\ scheduler_running \in BOOLEAN
  BY DEF TasksInv, TypeOK
<1>3. UNCHANGED <<scheduler_running, now, main, joining>>
  BY DEF ThreadStep, Test, Due, Finish, Wake, mainVars
<1>4. ASSUME NEW label \in Labels, tasks' = tasks, thread' = [thread EXCEPT ![i] = label],
             thread[i] \in {"test", "due", "sleeping"}, label # "running"
      PROVE  TasksInv'
  <2>1. tasks' = [tasks EXCEPT ![i] = tasks[i]]
    BY <1>1, <1>4
  <2>2. RunsOf(tasks[i], label, now)
    BY <1>1, <1>4 DEF RunsOf
  <2> QED BY <1>1, <1>2, <1>3, <1>4, <2>1, <2>2, EntryChanges
<1>5. CASE Test(i) \/ Wake(i)
  BY <1>4, <1>5 DEF Test, Wake, Go, Labels
<1>6. CASE Due(i)
  <2>1. CASE ~IsDue(tasks[i])
    BY <1>4, <1>6, <2>1 DEF Due, Go, Labels
  <2>2. CASE IsDue(tasks[i])
    <3> DEFINE task == [tasks[i] EXCEPT !.status = "RUNNING"]
    <3>1. /\ tasks' = [tasks EXCEPT ![i] = task] /\ thread' = [thread EXCEPT ![i] = "running"]
          /\ thread[i] = "due"
      BY <1>6, <2>2 DEF Due, Go
    <3>2. task \in Task /\ RunsOf(task, "running", now)
      BY <1>1, <2>2, <3>1 DEF Task, Statuses, RunsOf, IsDue
    <3> HIDE DEF task
    <3> QED BY <1>1, <1>2, <1>3, <3>1, <3>2, EntryChanges DEF Labels
  <2> QED BY <2>1, <2>2
<1>7. CASE Finish(i)
  <2> DEFINE task == [tasks[i] EXCEPT
                         !.status = IF tasks[i].type = "ONCE" THEN "COMPLETED" ELSE "PENDING",
                         !.last_run = now, !.run_count = tasks[i].run_count + 1]
             label == IF tasks[i].type = "ONCE" THEN "done" ELSE "sleeping"
  <2>1. thread[i] = "running" /\ thread' = [thread EXCEPT ![i] = label]
    BY <1>7 DEF Finish, Go
  <2>2. tasks' = [tasks EXCEPT ![i] = task]
    BY <1>1, <1>7 DEF Finish
  <2>3. task \in Task /\ label \in Labels
    <3> DEFINE ended == IF tasks[i].type = "ONCE" THEN "COMPLETED" ELSE "PENDING"
               first == [tasks[i] EXCEPT !.status = ended]
               second == [first EXCEPT !.last_run = now]
               third == [second EXCEPT !.run_count = tasks[i].run_count + 1]
    <3>1. ended \in Statuses /\ label \in Labels
      BY DEF Statuses, Labels
    <3>2. tasks[i].run_count + 1 \in Nat
      <4>1. tasks[i] \in Task
        BY <1>1
      <4>2. tasks[i].run_count \in Nat
        BY <4>1 DEF Task
      <4> QED BY <4>2
    <3>3. task = third
      BY <1>1 DEF Task
    <3> HIDE DEF ended
    <3>4. first \in Task
      BY <1>1, <3>1 DEF Task
    <3> HIDE DEF first
    <3>5. second \in Task
      BY <1>1, <3>4 DEF Task
    <3> HIDE DEF second
    <3>6. third \in Task
      BY <3>2, <3>5 DEF Task
    <3> QED BY <3>1, <3>3, <3>6
  <2>4. RunsOf(task, label, now)
    BY <1>1, <2>1 DEF Task, RunsOf
  <2> HIDE DEF task, label
  <2> QED BY <1>1, <1>2, <1>3, <2>1, <2>2, <2>3, <2>4, EntryChanges
<1> QED BY <1>5, <1>6, <1>7 DEF ThreadStep

-----------------------------------------------------------------------------
LEMMA AddKeeps ==
    ASSUME TasksInv, NEW type \in {"ONCE", "INTERVAL"}, NEW time \in Nat, NEW interval \in Nat,
           AddTask(type, time, interval)
    PROVE  TasksInv'
<1> DEFINE task == NewTask(type, time, interval)
<1>1. /\ tasks \in Seq(Task) /\ thread \in Seq(Labels) /\ Len(thread) = Len(tasks)
      /\ Len(tasks) \in Nat /\ now \in Nat /\ MAX_TASKS \in Nat
  BY TasksAssumption DEF TasksInv, TypeOK
<1>2. task \in Task /\ RunsOf(task, "test", now)
  BY <1>1, NewTaskType
<1>3. /\ tasks' = Append(tasks, task) /\ thread' = Append(thread, "test")
      /\ UNCHANGED <<scheduler_running, now, main, joining>> /\ Len(tasks) < MAX_TASKS
  BY DEF AddTask, mainVars
<1> HIDE DEF task
<1>4. tasks' \in Seq(Task) /\ Len(tasks') = Len(tasks) + 1
  BY <1>1, <1>2, <1>3
<1>5. thread' \in Seq(Labels) /\ Len(thread') = Len(tasks) + 1
  BY <1>1, <1>3 DEF Labels
<1>6. \A j \in 1 .. Len(tasks) : tasks'[j] = tasks[j] /\ thread'[j] = thread[j]
  BY <1>1, <1>3
<1>7. tasks'[Len(tasks) + 1] = task /\ thread'[Len(tasks) + 1] = "test"
  BY <1>1, <1>3
<1>8. DOMAIN tasks' = 1 .. Len(tasks) + 1 /\ DOMAIN thread' = 1 .. Len(tasks) + 1
  BY <1>4, <1>5
<1>9. \A j \in 1 .. Len(tasks) + 1 : thread'[j] \in Labels
  BY <1>5
<1>10. Len(tasks') <= MAX_TASKS
  BY <1>1, <1>3, <1>4
<1>11. TypeOK'
  BY <1>3, <1>4, <1>8, <1>9, <1>10 DEF TasksInv, TypeOK, Labels
<1>12. ASSUME NEW j \in 1 .. Len(tasks) + 1
       PROVE  RunsOf(tasks'[j], thread'[j], now)
  <2>1. CASE j \in 1 .. Len(tasks)
    BY <1>6, <2>1 DEF TasksInv
  <2>2. CASE j = Len(tasks) + 1
    BY <1>2, <1>7, <2>2
  <2> QED BY <1>1, <2>1, <2>2
<1> QED BY <1>3, <1>4, <1>5, <1>11, <1>12 DEF TasksInv, RunsOf

\* Cancelling writes the status and nothing that counts runs.
LEMMA CancelKeeps ==
    ASSUME TasksInv, NEW i \in 1 .. Len(tasks),
           tasks' = [tasks EXCEPT ![i].status = "CANCELLED"],
           UNCHANGED <<thread, scheduler_running, now, main>>, joining' \in 0 .. MAX_TASKS
    PROVE  TasksInv'
<1> DEFINE task == [tasks[i] EXCEPT !.status = "CANCELLED"]
<1>1. tasks[i] \in Task /\ thread[i] \in Labels /\ RunsOf(tasks[i], thread[i], now)
      /\ thread \in Seq(Labels) /\ tasks \in Seq(Task) /\ Len(thread) = Len(tasks)
  BY DEF TasksInv, TypeOK
<1>2. task \in Task /\ RunsOf(task, thread[i], now)
  BY <1>1 DEF Task, Statuses, RunsOf
<1>3. tasks' = [tasks EXCEPT ![i] = task]
  BY <1>1
<1>4. thread' = [thread EXCEPT ![i] = thread[i]]
  BY <1>1
<1>5. scheduler_running' \in BOOLEAN /\ main' \in {"menu", "exit", "halted"}
  BY DEF TasksInv, TypeOK
<1> HIDE DEF task
<1> QED BY <1>1, <1>2, <1>3, <1>4, <1>5, EntryChanges

\* The table stays; a thread may have been killed and time may have passed.
LEMMA TableStays ==
    ASSUME TasksInv, UNCHANGED tasks,
           thread' = thread
              \/ thread' = [i \in DOMAIN thread |-> IF thread[i] = "done" THEN "done" ELSE "killed"],
           now' \in 1 .. MaxTime, now' >= now, scheduler_running' \in BOOLEAN,
           main' \in {"menu", "exit", "halted"}, joining' \in 0 .. MAX_TASKS
    PROVE  TasksInv'
<1>1. /\ tasks \in Seq(Task) /\ thread \in Seq(Labels) /\ Len(thread) = Len(tasks)
      /\ Len(tasks) \in Nat /\ now \in Nat /\ now' \in Nat
  BY TasksAssumption DEF TasksInv, TypeOK
<1>2. DOMAIN thread = 1 .. Len(tasks)
  BY <1>1
<1>3. /\ thread' \in Seq(Labels) /\ Len(thread') = Len(tasks)
      /\ \A i \in 1 .. Len(tasks) : thread'[i] \in {thread[i], "done", "killed"}
  <2>1. CASE thread' = thread
    BY <1>1, <2>1
  <2>2. CASE thread' = [i \in DOMAIN thread |-> IF thread[i] = "done" THEN "done" ELSE "killed"]
    <3>1. thread' = [i \in 1 .. Len(tasks) |-> IF thread[i] = "done" THEN "done" ELSE "killed"]
      BY <1>2, <2>2
    <3>2. thread' \in [1 .. Len(tasks) -> Labels]
      BY <3>1 DEF Labels
    <3>3. thread' \in Seq(Labels) /\ Len(thread') = Len(tasks)
      BY <1>1, <3>2
    <3> QED BY <3>1, <3>3
  <2> QED BY <2>1, <2>2
<1>4. DOMAIN thread' = DOMAIN tasks /\ \A i \in DOMAIN thread' : thread'[i] \in Labels
  BY <1>1, <1>3
<1>5. TypeOK'
  BY <1>4 DEF TasksInv, TypeOK, Labels
<1>6. ASSUME NEW i \in 1 .. Len(tasks)
      PROVE  RunsOf(tasks[i], thread'[i], now')
  <2>1. RunsOf(tasks[i], thread[i], now)
    BY DEF TasksInv
  <2>2. tasks[i] \in Task
    BY <1>1
  <2>3. tasks[i].execute_time \in Nat
    BY <2>2 DEF Task
  <2> QED BY <1>1, <1>3, <2>1, <2>3 DEF RunsOf
<1> QED BY <1>3, <1>5, <1>6 DEF TasksInv, RunsOf

LEMMA MenuKeeps ==
    ASSUME TasksInv, UserStep \/ JoinNext \/ ExitReturns \/ Tick \/ UNCHANGED vars
    PROVE  TasksInv'
<1>1. /\ tasks \in Seq(Task) /\ Len(tasks) \in Nat /\ Len(tasks) <= MAX_TASKS
      /\ DOMAIN tasks = 1 .. Len(tasks)
      /\ now \in 1 .. MaxTime /\ MaxTime \in Nat /\ MAX_TASKS \in Nat
      /\ scheduler_running \in BOOLEAN /\ main \in {"menu", "exit", "halted"}
      /\ joining \in 0 .. MAX_TASKS
  BY TasksAssumption DEF TasksInv, TypeOK
<1>2. CASE \E d \in Delay : now + d <= MaxTime /\ AddTask("ONCE", now + d, 0)
  <2>1. PICK d \in Delay : AddTask("ONCE", now + d, 0)
    BY <1>2
  <2>2. now + d \in Nat
    BY <1>1, TasksAssumption
  <2> QED BY <2>1, <2>2, AddKeeps
<1>3. CASE \E n \in Interval : AddTask("INTERVAL", 0, n)
  <2>1. PICK n \in Interval : AddTask("INTERVAL", 0, n)
    BY <1>3
  <2>2. n \in Nat
    BY TasksAssumption
  <2> QED BY <2>1, <2>2, AddKeeps
<1>4. CASE \E i \in DOMAIN tasks : CancelTask(i)
  BY <1>1, <1>4, CancelKeeps DEF CancelTask, mainVars
<1>5. CASE JoinNext
  <2>1. joining + 1 \in 1 .. Len(tasks) /\ joining + 1 \in 0 .. MAX_TASKS
    BY <1>1, <1>5 DEF JoinNext
  <2> QED BY <1>5, <2>1, CancelKeeps DEF JoinNext
<1>6. CASE ExitSelected \/ ExitReturns
  <2>0. now' = now
    BY <1>6 DEF ExitSelected, ExitReturns
  <2>1. now' >= now /\ now' \in 1 .. MaxTime
    BY <1>1, <2>0
  <2> QED BY <1>1, <1>6, <2>1, TableStays DEF ExitSelected, ExitReturns
<1>7. CASE EndOfInput
  <2>1. now' >= now /\ now' \in 1 .. MaxTime
    BY <1>1, <1>7 DEF EndOfInput
  <2> QED BY <1>1, <1>7, <2>1, TableStays DEF EndOfInput
<1>8. CASE Tick
  <2>1. now' >= now /\ now' \in 1 .. MaxTime
    BY <1>1, <1>8 DEF Tick
  <2> QED BY <1>1, <1>8, <2>1, TableStays DEF Tick, mainVars
<1>9. CASE UNCHANGED vars
  <2>1. now' >= now /\ now' \in 1 .. MaxTime
    BY <1>1, <1>9 DEF vars
  <2> QED BY <1>1, <1>9, <2>1, TableStays DEF vars, mainVars
<1> QED BY <1>2, <1>3, <1>4, <1>5, <1>6, <1>7, <1>8, <1>9 DEF UserStep

LEMMA NextKeeps ==
    ASSUME TasksInv, [Next]_vars
    PROVE  TasksInv'
BY ThreadKeeps, MenuKeeps DEF Next, Halted

-----------------------------------------------------------------------------
\* The table, its threads and the count of runs fit together in every state.
THEOREM TasksInvariance == Spec => []TasksInv
<1>1. TasksInv /\ [Next]_vars => TasksInv'
  BY NextKeeps
<1> QED BY TasksInitInvariant, <1>1, PTL DEF Spec

\* A one-time task runs once at most, and not before its time.
THEOREM OnceSafe == Spec => []OnceRunsOnce
<1>1. TasksInv => OnceRunsOnce
  <2> SUFFICES ASSUME TasksInv PROVE OnceRunsOnce
    OBVIOUS
  <2>1. DOMAIN tasks = 1 .. Len(tasks) /\ TypeOK
    BY DEF TasksInv, TypeOK
  <2> QED BY <2>1 DEF TasksInv, RunsOf, OnceRunsOnce
<1> QED BY TasksInvariance, <1>1, PTL

-----------------------------------------------------------------------------
\* A task cancelled while its thread sleeps, or is about to look at the status,
\* is never run again and stays as it is.
THEOREM CancelHolds == Spec => CancelledAsleepStays
<1> DEFINE Stays(i) ==
               tasks[i].status = "CANCELLED" /\ thread[i] \in {"test", "sleeping", "done"} =>
                   /\ tasks'[i] = tasks[i]
                   /\ thread'[i] \in {"test", "sleeping", "done", "killed"}
<1>1. ASSUME TasksInv, [Next]_vars, NEW i \in DOMAIN tasks
      PROVE  Stays(i)
  <2>1. /\ tasks \in Seq(Task) /\ thread \in Seq(Labels) /\ Len(thread) = Len(tasks)
        /\ Len(tasks) \in Nat /\ i \in 1 .. Len(tasks) /\ tasks[i] \in Task
        /\ DOMAIN thread = 1 .. Len(tasks)
    BY <1>1 DEF TasksInv, TypeOK
  <2> SUFFICES ASSUME tasks[i].status = "CANCELLED", thread[i] \in {"test", "sleeping", "done"}
               PROVE  /\ tasks'[i] = tasks[i]
                      /\ thread'[i] \in {"test", "sleeping", "done", "killed"}
    OBVIOUS
  <2>2. ASSUME NEW j \in DOMAIN thread, ThreadStep(j)
        PROVE  tasks'[i] = tasks[i] /\ thread'[i] \in {"test", "sleeping", "done", "killed"}
    <3>1. CASE j = i
      BY <2>1, <2>2, <3>1 DEF ThreadStep, Test, Due, Finish, Wake, Go
    <3>2. CASE j # i
      BY <2>1, <2>2, <3>2 DEF ThreadStep, Test, Due, Finish, Wake, Go
    <3> QED BY <3>1, <3>2
  <2>3. ASSUME NEW task, Len(tasks) < MAX_TASKS,
               tasks' = Append(tasks, task), thread' = Append(thread, "test")
        PROVE  tasks'[i] = tasks[i] /\ thread'[i] = thread[i]
    BY <2>1, <2>3
  <2>4. ASSUME NEW j \in 1 .. Len(tasks), UNCHANGED thread,
               tasks' = [tasks EXCEPT ![j].status = "CANCELLED"]
        PROVE  tasks'[i] = tasks[i]
    BY <2>1, <2>4 DEF Task
  <2>5. CASE \E type, time, interval : AddTask(type, time, interval)
    BY <2>3, <2>5 DEF AddTask
  <2>6. CASE (\E j \in DOMAIN tasks : CancelTask(j)) \/ JoinNext
    <3>1. /\ UNCHANGED thread
          /\ \E j \in 1 .. Len(tasks) : tasks' = [tasks EXCEPT ![j].status = "CANCELLED"]
      <4>1. CASE \E j \in DOMAIN tasks : CancelTask(j)
        <5>1. PICK j \in DOMAIN tasks : CancelTask(j)
          BY <4>1
        <5>2. UNCHANGED thread /\ tasks' = [tasks EXCEPT ![j].status = "CANCELLED"]
          BY <5>1 DEF CancelTask
        <5>3. j \in 1 .. Len(tasks)
          BY <2>1
        <5> QED BY <5>2, <5>3
      <4>2. CASE JoinNext
        <5>1. joining + 1 \in 1 .. Len(tasks)
          BY <1>1, <2>1, <4>2 DEF JoinNext, TasksInv, TypeOK
        <5>2. UNCHANGED thread /\ tasks' = [tasks EXCEPT ![joining + 1].status = "CANCELLED"]
          BY <4>2 DEF JoinNext
        <5> QED BY <5>1, <5>2
      <4> QED BY <2>6, <4>1, <4>2
    <3> QED BY <2>4, <3>1
  <2>7. CASE \/ ExitSelected \/ EndOfInput \/ ExitReturns \/ Tick \/ Halted \/ UNCHANGED vars
    BY <2>1, <2>7 DEF ExitSelected, EndOfInput, ExitReturns, Tick, Halted, vars
  <2> QED BY <1>1, <2>2, <2>5, <2>6, <2>7 DEF Next, UserStep
<1>2. TasksInv /\ [Next]_vars => [\A i \in DOMAIN tasks : Stays(i)]_vars
  BY <1>1
<1> QED BY TasksInvariance, <1>2, PTL DEF Spec, CancelledAsleepStays

-----------------------------------------------------------------------------
(* Clock: numbers                                                            *)

\* Division and remainder of natural numbers.
LEMMA DivMod ==
  ASSUME NEW a \in Nat, NEW b \in Nat \ {0}
  PROVE  /\ a \div b \in Nat /\ a % b \in 0 .. b - 1
         /\ a = b * (a \div b) + (a % b)
OBVIOUS

\* A number written as a multiple and a rest has that quotient and that rest.
LEMMA Quotient ==
  ASSUME NEW b \in Nat \ {0}, NEW q \in Nat, NEW r \in 0 .. b - 1
  PROVE  (b * q + r) \div b = q /\ (b * q + r) % b = r
OBVIOUS

\* A number and the next one have different rests.
LEMMA NextRest ==
  ASSUME NEW a \in Nat, NEW b \in Nat \ {0, 1}
  PROVE  (a + 1) % b # a % b
<1> DEFINE q == a \div b
           r == a % b
<1>1. q \in Nat /\ r \in 0 .. b - 1 /\ a = b * q + r  BY DivMod
<1> HIDE DEF q, r
<1>2. CASE r + 1 < b
  <2>1. a + 1 = b * q + (r + 1) /\ r + 1 \in 0 .. b - 1  BY <1>1, <1>2
  <2>2. (a + 1) % b = r + 1  BY ONLY <2>1, <1>1, b \in Nat \ {0, 1}, Quotient
  <2> QED  BY <2>2, <1>1 DEF r
<1>3. CASE ~(r + 1 < b)
  <2>1. b * (q + 1) = b * q + b  BY <1>1
  <2>2. a + 1 = b * (q + 1) + 0 /\ q + 1 \in Nat  BY <2>1, <1>1, <1>3
  <2>3. (b * (q + 1) + 0) % b = 0  BY <1>1, Quotient
  <2> QED  BY <2>2, <2>3, <1>1, <1>3 DEF r
<1> QED  BY <1>2, <1>3

\* Less than a divisor earlier, the quotient is the same or one less; and it
\* is the same when the next number is the first with another quotient.
LEMMA LittleEarlier ==
  ASSUME NEW a \in Nat, NEW b \in Nat \ {0}, NEW d \in 0 .. b - 1, d <= a
  PROVE  /\ (a - d) \div b \in {a \div b, (a \div b) - 1}
         /\ (a + 1) \div b # a \div b => (a - d) \div b = a \div b
<1> DEFINE q == a \div b
           r == a % b
<1>1. q \in Nat /\ r \in 0 .. b - 1 /\ a = b * q + r  BY DivMod
<1> HIDE DEF q, r
<1>2. CASE d <= r
  <2>1. a - d = b * q + (r - d) /\ r - d \in 0 .. b - 1  BY <1>1, <1>2
  <2>2. (a - d) \div b = q
    BY ONLY <2>1, <1>1, b \in Nat \ {0}, Quotient
  <2> QED  BY <2>2 DEF q
<1>3. CASE ~(d <= r)
  <2>1. q # 0
    BY <1>1, <1>3
  <2>2. b * (q - 1) = b * q - b  BY <1>1
  <2>3. a - d = b * (q - 1) + (b + r - d) /\ b + r - d \in 0 .. b - 1 /\ q - 1 \in Nat
    BY <2>1, <2>2, <1>1, <1>3
  <2>4. (a - d) \div b = q - 1
    BY ONLY <2>3, b \in Nat \ {0}, Quotient
  <2>5. a + 1 = b * q + (r + 1) /\ r + 1 \in 0 .. b - 1  BY <1>1, <1>3
  <2>6. (a + 1) \div b = q  BY ONLY <2>5, <1>1, b \in Nat \ {0}, Quotient
  <2> QED  BY <2>4, <2>6 DEF q
<1> QED  BY <1>2, <1>3

-----------------------------------------------------------------------------
Alarm == [time : (0 .. HOURS - 1) \X (0 .. MINUTES - 1), active : BOOLEAN]

MinuteOf(time) == time \div SECONDS
TimeOf(m) == <<(m \div MINUTES) % HOURS, m % MINUTES>>

\* The live clock went to sleep lag seconds ago: it has seen the minute of
\* that second and left no alarm of it.
Quiet ==
    /\ last_minute = MinuteOf(clock_time - lag) % MINUTES
    /\ \A i \in DOMAIN alarms :
          alarms[i].active => alarms[i].time # TimeOf(MinuteOf(clock_time - lag))

ClockInv ==
    /\ clock_time \in 0 .. MaxClockTime /\ lag \in 0 .. MaxLag /\ lag <= clock_time
    /\ alarms \in Seq(Alarm) /\ Len(alarms) <= MAX_ALARMS
    /\ last_minute \in -1 .. MINUTES - 1
    /\ running \in BOOLEAN /\ left \in Nat
    /\ clock \in {"prompt", "install", "round", "asleep", "timer", "counting", "ended"}
    /\ clock = "counting" => left > 0
    /\ clock = "install" => last_minute = -1
    /\ clock = "round" => last_minute = -1 \/ Quiet
    /\ clock = "asleep" => Quiet

\* The minute and the hour are those of the day, and the clock went to sleep in
\* this minute or the one before.
LEMMA ClockNumbers ==
  ASSUME ClockInv
  PROVE  /\ Minutes \in Nat /\ minute \in 0 .. MINUTES - 1 /\ hour \in 0 .. HOURS - 1
         /\ TimeOf(Minutes) = <<hour, minute>>
         /\ clock_time - lag \in Nat /\ MinuteOf(clock_time - lag) \in {Minutes, Minutes - 1}
         /\ MinuteOf(clock_time - lag) \in Nat
<1>1. Minutes \in Nat
  <2>1. clock_time \in Nat /\ SECONDS \in Nat \ {0}  BY ClockAssumption DEF ClockInv
  <2> QED  BY <2>1, DivMod DEF Minutes
<1>2. minute \in 0 .. MINUTES - 1 /\ Minutes \div MINUTES \in Nat
  BY <1>1, DivMod, ClockAssumption DEF minute
<1>3. hour \in 0 .. HOURS - 1  BY <1>2, DivMod, ClockAssumption DEF hour
<1>4. clock_time - lag \in Nat /\ lag \in 0 .. SECONDS - 1 /\ clock_time \in Nat /\ lag <= clock_time
  BY ClockAssumption DEF ClockInv
<1>5. MinuteOf(clock_time - lag) \in {Minutes, Minutes - 1}
  BY <1>4, LittleEarlier, ClockAssumption DEF MinuteOf, Minutes
<1>6. MinuteOf(clock_time - lag) \in Nat  BY <1>4, DivMod, ClockAssumption DEF MinuteOf
<1> QED  BY <1>1, <1>2, <1>3, <1>4, <1>5, <1>6 DEF TimeOf, hour, minute

\* check_alarms switches the due alarms off and changes nothing else.
LEMMA CheckedIs ==
  ASSUME ClockInv
  PROVE  /\ Checked \in Seq(Alarm) /\ Len(Checked) = Len(alarms)
         /\ DOMAIN Checked = DOMAIN alarms
         /\ \A i \in DOMAIN alarms :
               /\ Checked[i].time = alarms[i].time
               /\ Checked[i].active <=> alarms[i].active /\ ~AlarmDue(alarms[i])
<1>1. alarms \in Seq(Alarm)  BY DEF ClockInv
<1>2. ASSUME NEW i \in DOMAIN alarms
      PROVE  /\ Checked[i] \in Alarm
             /\ Checked[i].time = alarms[i].time
             /\ Checked[i].active <=> alarms[i].active /\ ~AlarmDue(alarms[i])
  <2>1. alarms[i] \in Alarm  BY <1>1, <1>2
  <2>2. [alarms[i] EXCEPT !.active = FALSE] \in Alarm
        /\ [alarms[i] EXCEPT !.active = FALSE].time = alarms[i].time
        /\ [alarms[i] EXCEPT !.active = FALSE].active = FALSE
    BY <2>1 DEF Alarm
  <2>3. Checked[i] = IF AlarmDue(alarms[i]) THEN [alarms[i] EXCEPT !.active = FALSE] ELSE alarms[i]
    BY <1>2 DEF Checked
  <2>4. CASE AlarmDue(alarms[i])  BY <2>2, <2>3, <2>4
  <2>5. CASE ~AlarmDue(alarms[i])  BY <2>1, <2>3, <2>5 DEF Alarm
  <2> QED  BY <2>4, <2>5
<1>3. DOMAIN alarms = 1 .. Len(alarms) /\ Len(alarms) \in Nat  BY <1>1
<1>4. Checked \in [1 .. Len(alarms) -> Alarm]
  <2>1. \A i \in 1 .. Len(alarms) : Checked[i] \in Alarm  BY <1>2, <1>3
  <2>2. Checked = [i \in 1 .. Len(alarms) |-> Checked[i]]  BY <1>3 DEF Checked
  <2> QED  BY ONLY <2>1, <2>2
<1>5. Checked \in Seq(Alarm) /\ Len(Checked) = Len(alarms)  BY <1>3, <1>4
<1> QED  BY <1>2, <1>3, <1>4, <1>5

\* The alarms main sets are alarms, and nothing is shown yet.
LEMMA ClockInitInvariant == ClockInit => ClockInv
<1> SUFFICES ASSUME ClockInit PROVE ClockInv
  OBVIOUS
<1>1. first_alarms \in Seq((0 .. HOURS - 1) \X (0 .. MINUTES - 1))  BY ClockAssumption
<1>2. ASSUME NEW i \in DOMAIN first_alarms  PROVE NewAlarm(first_alarms[i]) \in Alarm
  BY <1>1, <1>2 DEF NewAlarm, Alarm
<1>3. DOMAIN first_alarms = 1 .. Len(first_alarms) /\ Len(first_alarms) \in Nat  BY <1>1
<1>4. alarms \in [1 .. Len(first_alarms) -> Alarm]
  <2>1. alarms = [i \in 1 .. Len(first_alarms) |-> NewAlarm(first_alarms[i])]
    BY <1>3 DEF ClockInit
  <2>2. \A i \in 1 .. Len(first_alarms) : NewAlarm(first_alarms[i]) \in Alarm  BY <1>2, <1>3
  <2> QED  BY ONLY <2>1, <2>2
<1>5. alarms \in Seq(Alarm) /\ Len(alarms) = Len(first_alarms)  BY <1>3, <1>4
<1> QED  BY <1>5, ClockAssumption DEF ClockInit, ClockInv

\* Nothing of what Quiet reads changes but its two times, together.
LEMMA QuietKept ==
  ASSUME Quiet, UNCHANGED <<alarms, last_minute>>, (clock_time - lag)' = clock_time - lag
  PROVE  Quiet'
BY DEF Quiet, MinuteOf, TimeOf

\* After the alarms are checked in a new minute, or need not be in the old
\* one, none of this minute is left.
LEMMA RoundIsQuiet ==
  ASSUME ClockInv, Round
  PROVE  /\ alarms' \in Seq(Alarm) /\ Len(alarms') = Len(alarms)
         /\ Quiet'
<1> USE DEF Round
<1>1. /\ (clock_time - lag)' = clock_time
      /\ last_minute' = minute
      /\ Minutes \in Nat /\ minute = Minutes % MINUTES /\ clock_time \in Nat
  BY ClockNumbers DEF ClockInv, minute
<1>2. MinuteOf((clock_time - lag)') = Minutes /\ TimeOf(Minutes) = <<hour, minute>>
  BY <1>1, ClockNumbers DEF MinuteOf, Minutes
<1>3. CASE minute # last_minute
  <2>1. alarms' = Checked  BY <1>3
  <2>2. ASSUME NEW i \in DOMAIN alarms', alarms'[i].active
        PROVE  alarms'[i].time # <<hour, minute>>
    BY <2>1, <2>2, CheckedIs DEF AlarmDue
  <2> QED  BY <1>1, <1>2, <2>1, <2>2, CheckedIs DEF Quiet, MinuteOf, TimeOf
<1>4. CASE minute = last_minute
  <2>1. Quiet /\ alarms' = alarms
    BY <1>4, ClockNumbers DEF ClockInv
  <2>2. MinuteOf(clock_time - lag) = Minutes
    <3>1. (MinuteOf(clock_time - lag)) % MINUTES = Minutes % MINUTES
      BY <2>1, <1>4, <1>1 DEF Quiet
    <3>2. SUFFICES ASSUME MinuteOf(clock_time - lag) = Minutes - 1  PROVE FALSE
      BY ClockNumbers
    <3>3. Minutes - 1 \in Nat /\ (Minutes - 1) + 1 = Minutes
      BY <3>2, <1>1, ClockNumbers
    <3>4. Minutes % MINUTES # (Minutes - 1) % MINUTES
      BY <3>3, NextRest, ClockAssumption
    <3> QED  BY <3>1, <3>2, <3>4
  <2> QED  BY <1>1, <1>2, <2>1, <2>2 DEF Quiet, MinuteOf, TimeOf, ClockInv
<1> QED  BY <1>3, <1>4

\* Every step keeps the invariant.
LEMMA ClockInvariantKept == ASSUME ClockInv, [ClockNext]_clock_vars PROVE ClockInv'
<1>1. CASE ClockCommand  BY <1>1, ClockAssumption DEF ClockInv, ClockCommand, ClockGo
<1>2. CASE InstallHandler  BY <1>2, QuietKept DEF ClockInv, InstallHandler, ClockGo
<1>3. CASE Round
  <2>1. minute \in -1 .. MINUTES - 1
    BY ClockNumbers, ClockAssumption
  <2> QED  BY <1>3, <2>1, RoundIsQuiet, ClockAssumption DEF ClockInv, Round, ClockGo
<1>4. CASE Awake  BY <1>4, QuietKept DEF ClockInv, Awake, ClockGo
<1>5. CASE LeaveClock  BY <1>5 DEF ClockInv, LeaveClock, ClockGo
<1>6. CASE Interrupt
  <2>1. (clock_time - lag)' = clock_time - lag  BY <1>6 DEF Interrupt
  <2> QED  BY <1>6, <2>1, QuietKept DEF ClockInv, Interrupt, ClockGo
<1>7. ASSUME NEW h \in 0 .. HOURS - 1, NEW m \in 0 .. MINUTES - 1, AlarmCommand(<<h, m>>)
      PROVE  ClockInv'
  <2>1. NewAlarm(<<h, m>>) \in Alarm  BY DEF NewAlarm, Alarm
  <2>2. alarms' \in Seq(Alarm) /\ Len(alarms') <= MAX_ALARMS
    BY <1>7, <2>1, ClockAssumption DEF AlarmCommand, ClockInv
  <2> QED  BY <1>7, <2>2 DEF ClockInv, AlarmCommand
<1>8. ASSUME NEW seconds \in Seconds, TimerCommand(seconds)  PROVE ClockInv'
  BY <1>8, ClockAssumption DEF ClockInv, TimerCommand, ClockGo
<1>9. CASE TimerStep  BY <1>9, ClockAssumption DEF ClockInv, TimerStep, ClockGo
<1>10. CASE CountDown  BY <1>10 DEF ClockInv, CountDown, ClockGo
<1>11. CASE Exit  BY <1>11 DEF ClockInv, Exit, ClockGo
<1>12. CASE ClockTick
  <2>1. clock = "asleep" => (clock_time - lag)' = clock_time - lag  BY <1>12 DEF ClockTick, ClockInv
  <2> QED  BY <1>12, <2>1, QuietKept, ClockAssumption DEF ClockInv, ClockTick
<1>13. CASE UNCHANGED clock_vars
  <2>1. (clock_time - lag)' = clock_time - lag  BY <1>13 DEF clock_vars
  <2> QED  BY <1>13, <2>1, QuietKept DEF ClockInv, clock_vars
<1> QED  BY <1>1, <1>2, <1>3, <1>4, <1>5, <1>6, <1>7, <1>8, <1>9, <1>10, <1>11, <1>12, <1>13
            DEF ClockNext, ClockStep, ClockUserStep, Ended

\* While the live clock sleeps it has seen the minute in which it went to sleep,
\* and no alarm of that minute is left.
THEOREM ClockInvariance == ClockSpec => []ClockInv
<1>1. ClockInit => ClockInv  BY ClockInitInvariant
<1>2. ClockInv /\ [ClockNext]_clock_vars => ClockInv'  BY ClockInvariantKept
<1> QED  BY <1>1, <1>2, PTL DEF ClockSpec

\* A new minute comes while the clock sleeps: it went to sleep in the old one.
LEMMA NoneMissedStep ==
  ASSUME ClockInv, [ClockNext]_clock_vars, clock = "asleep", Minutes' # Minutes
  PROVE  \A i \in DOMAIN alarms : ~(alarms[i].active /\ alarms[i].time = <<hour, minute>>)
<1>1. ClockTick
  <2>1. clock_time' # clock_time  BY DEF Minutes
  <2> QED  BY <2>1 DEF ClockNext, ClockStep, ClockUserStep, Ended, ClockCommand, InstallHandler, Round, Awake,
       LeaveClock, Interrupt, AlarmCommand, TimerCommand, TimerStep, CountDown, Exit, clock_vars
<1>2. Quiet  BY DEF ClockInv
<1>3. MinuteOf(clock_time - lag) = Minutes
  <2>1. clock_time \in Nat /\ lag \in 0 .. SECONDS - 1 /\ lag <= clock_time /\ SECONDS \in Nat \ {0}
    BY ClockAssumption DEF ClockInv
  <2>2. (clock_time + 1) \div SECONDS # clock_time \div SECONDS
    BY <1>1 DEF ClockTick, Minutes
  <2> QED  BY <2>1, <2>2, LittleEarlier DEF MinuteOf, Minutes
<1> QED  BY <1>2, <1>3, ClockNumbers DEF Quiet

\* While the clock is shown no minute goes by with an alarm of it unrung: the
\* clock sleeps for less than a minute and its last round was in that minute.
THEOREM NoAlarmMissed == ClockSpec => NoneMissedWhileShown
<1>1. ASSUME ClockInv, [ClockNext]_clock_vars
      PROVE  [(clock = "asleep" /\ running /\ Minutes' # Minutes) =>
          \A i \in DOMAIN alarms : ~(alarms[i].active /\ alarms[i].time = <<hour, minute>>)]_clock_vars
  BY <1>1, NoneMissedStep
<1> QED  BY <1>1, ClockInvariance, PTL DEF ClockSpec, NoneMissedWhileShown

=============================================================================
