--------------------------- MODULE TaskScheduler ---------------------------
(***************************************************************************)
(* apps/task_scheduler.c: a table of tasks, one thread for each, and the   *)
(* menu in the main thread.  tasks_mutex is taken by the main thread only: *)
(* the task threads read and write their task, status included, without    *)
(* it, so every such access is a step of its own between the main thread's *)
(* steps.                                                                  *)
(***************************************************************************)
EXTENDS Integers, Sequences

CONSTANTS
    MAX_TASKS,
    Delay,              \* what the user answers to "Delay in seconds"
    Interval,           \* and to "Interval in seconds"
    first_interval,     \* the two tasks main adds before the menu
    first_delay,
    MaxTime             \* bound: the clock stops there

ASSUME TasksAssumption ==
    /\ MAX_TASKS \in Nat /\ MAX_TASKS >= 2
    /\ Delay \subseteq Nat /\ Interval \subseteq Nat \ {0}
    /\ first_interval \in Nat \ {0} /\ first_delay \in Nat
    /\ MaxTime \in Nat /\ 1 + first_delay <= MaxTime

VARIABLES
    tasks,                \* the first task_count entries of the table
    thread,               \* thread[i]: the next step of the thread of tasks[i]
    scheduler_running,
    now,                  \* time(NULL)
    main,                 \* "menu", "exit" or "halted"
    joining               \* the thread main waits for while it exits

mainVars == <<main, joining>>
vars == <<tasks, thread, scheduler_running, now, mainVars>>

Statuses == {"PENDING", "RUNNING", "COMPLETED", "CANCELLED"}

Task == [type : {"ONCE", "INTERVAL"}, status : Statuses, execute_time : Nat,
         interval_seconds : Nat, last_run : Nat, run_count : Nat]

TypeOK ==
    /\ tasks \in Seq(Task) /\ Len(tasks) <= MAX_TASKS
    /\ DOMAIN thread = DOMAIN tasks
    /\ \A i \in DOMAIN thread :
          thread[i] \in {"test", "due", "running", "sleeping", "done", "killed"}
    /\ scheduler_running \in BOOLEAN
    /\ now \in 1 .. MaxTime
    /\ main \in {"menu", "exit", "halted"} /\ joining \in 0 .. MAX_TASKS

NewTask(type, execute_time, interval) ==
    [type |-> type, status |-> "PENDING", execute_time |-> execute_time,
     interval_seconds |-> interval, last_run |-> 0, run_count |-> 0]

Init ==
    /\ now = 1
    /\ tasks = <<NewTask("INTERVAL", 0, first_interval),
                 NewTask("ONCE", 1 + first_delay, 0)>>
    /\ thread = <<"test", "test">>
    /\ scheduler_running = TRUE
    /\ main = "menu" /\ joining = 0

-----------------------------------------------------------------------------
(* task_thread *)

Go(i, label) == thread' = [thread EXCEPT ![i] = label]

\* Mutant: the loop runs while the scheduler does.
Test_flag_only(i) ==
    /\ thread[i] = "test"
    /\ Go(i, IF scheduler_running THEN "due" ELSE "done")
    /\ UNCHANGED <<tasks, scheduler_running, now, mainVars>>

Test(i) ==
    /\ thread[i] = "test"
    /\ Go(i, IF scheduler_running /\ tasks[i].status # "CANCELLED" THEN "due" ELSE "done")
    /\ UNCHANGED <<tasks, scheduler_running, now, mainVars>>

\* Mutant: a one-time task runs in its second only.
IsDue_exact(task) ==
    \/ task.type = "ONCE" /\ now = task.execute_time
    \/ task.type = "INTERVAL" /\ \/ task.last_run = 0
                                 \/ now - task.last_run >= task.interval_seconds

IsDue(task) ==
    \/ task.type = "ONCE" /\ now >= task.execute_time
    \/ task.type = "INTERVAL" /\ \/ task.last_run = 0
                                 \/ now - task.last_run >= task.interval_seconds

\* The thread reads the clock and begins the command, or goes to sleep.
Due(i) ==
    /\ thread[i] = "due"
    /\ IF IsDue(tasks[i])
       THEN tasks' = [tasks EXCEPT ![i].status = "RUNNING"] /\ Go(i, "running")
       ELSE UNCHANGED tasks /\ Go(i, "sleeping")
    /\ UNCHANGED <<scheduler_running, now, mainVars>>

\* Mutant: a task that ran once stays in the loop.
Finish_without_break(i) ==
    /\ thread[i] = "running"
    /\ tasks' = [tasks EXCEPT
                    ![i].status = IF tasks[i].type = "ONCE" THEN "COMPLETED" ELSE "PENDING",
                    ![i].last_run = now, ![i].run_count = @ + 1]
    /\ Go(i, "sleeping")
    /\ UNCHANGED <<scheduler_running, now, mainVars>>

\* execute_task returns and the thread writes the status.
Finish(i) ==
    /\ thread[i] = "running"
    /\ tasks' = [tasks EXCEPT
                    ![i].status = IF tasks[i].type = "ONCE" THEN "COMPLETED" ELSE "PENDING",
                    ![i].last_run = now, ![i].run_count = @ + 1]
    /\ Go(i, IF tasks[i].type = "ONCE" THEN "done" ELSE "sleeping")
    /\ UNCHANGED <<scheduler_running, now, mainVars>>

Wake(i) ==
    /\ thread[i] = "sleeping"
    /\ Go(i, "test")
    /\ UNCHANGED <<tasks, scheduler_running, now, mainVars>>

-----------------------------------------------------------------------------
(* The menu *)

\* add_task; on a full table it returns -1 and changes nothing.
AddTask(type, execute_time, interval) ==
    /\ main = "menu"
    /\ Len(tasks) < MAX_TASKS
    /\ tasks' = Append(tasks, NewTask(type, execute_time, interval))
    /\ thread' = Append(thread, "test")
    /\ UNCHANGED <<scheduler_running, now, mainVars>>

CancelTask(i) ==
    /\ main = "menu"
    /\ tasks' = [tasks EXCEPT ![i].status = "CANCELLED"]
    /\ UNCHANGED <<thread, scheduler_running, now, mainVars>>

\* Mutant: the flag is not cleared, the statuses alone are to stop the threads.
ExitSelected_keeps_flag ==
    /\ main = "menu"
    /\ main' = "exit"
    /\ UNCHANGED <<tasks, thread, scheduler_running, now, joining>>

ExitSelected ==
    /\ main = "menu"
    /\ scheduler_running' = FALSE
    /\ main' = "exit"
    /\ UNCHANGED <<tasks, thread, now, joining>>

\* pthread_join returns, or main is about to join the first thread.
Joined == joining > 0 => thread[joining] = "done"

JoinNext ==
    /\ main = "exit" /\ Joined /\ joining < Len(tasks)
    /\ joining' = joining + 1
    /\ tasks' = [tasks EXCEPT ![joining + 1].status = "CANCELLED"]
    /\ UNCHANGED <<thread, scheduler_running, now, main>>

ExitReturns ==
    /\ main = "exit" /\ Joined /\ joining = Len(tasks)
    /\ main' = "halted"
    /\ UNCHANGED <<tasks, thread, scheduler_running, now, joining>>

\* fgets meets the end of the input: main returns, the process ends and with it
\* every thread, wherever it is.
EndOfInput ==
    /\ main = "menu"
    /\ main' = "halted"
    /\ thread' = [i \in DOMAIN thread |-> IF thread[i] = "done" THEN "done" ELSE "killed"]
    /\ UNCHANGED <<tasks, scheduler_running, now, joining>>

Tick ==
    /\ now < MaxTime /\ main # "halted"
    /\ now' = now + 1
    /\ UNCHANGED <<tasks, thread, scheduler_running, mainVars>>

Halted == main = "halted" /\ UNCHANGED vars

-----------------------------------------------------------------------------
ThreadStep(i) == Test(i) \/ Due(i) \/ Finish(i) \/ Wake(i)

UserStep ==
    \/ \E d \in Delay : now + d <= MaxTime /\ AddTask("ONCE", now + d, 0)
    \/ \E n \in Interval : AddTask("INTERVAL", 0, n)
    \/ \E i \in DOMAIN tasks : CancelTask(i)
    \/ ExitSelected \/ EndOfInput

Next ==
    \/ \E i \in DOMAIN thread : ThreadStep(i)
    \/ UserStep
    \/ JoinNext \/ ExitReturns
    \/ Tick \/ Halted

\* Threads are scheduled, sleep and the commands they run return, the clock
\* runs, main joins; the user owes nothing.
Spec ==
    /\ Init /\ [][Next]_vars
    /\ \A i \in 1 .. MAX_TASKS : WF_vars(i \in DOMAIN thread /\ ThreadStep(i))
    /\ WF_vars(JoinNext \/ ExitReturns) /\ WF_vars(Tick)

-----------------------------------------------------------------------------
\* A one-time task runs once at most and never before its time, whatever the
\* menu does to its status meanwhile.
OnceRunsOnce ==
    /\ TypeOK
    /\ \A i \in DOMAIN tasks : tasks[i].type = "ONCE" =>
          /\ tasks[i].run_count + (IF thread[i] = "running" THEN 1 ELSE 0) <= 1
          /\ thread[i] = "running" \/ tasks[i].run_count = 1
                => now >= tasks[i].execute_time

\* What cancel_task does achieve: a task cancelled while its thread sleeps, or
\* is about to look at the status, is never run again and stays cancelled.
CancelledAsleepStays ==
    [][\A i \in DOMAIN tasks :
           tasks[i].status = "CANCELLED" /\ thread[i] \in {"test", "sleeping", "done"} =>
               /\ tasks'[i] = tasks[i]
               /\ thread'[i] \in {"test", "sleeping", "done", "killed"}]_vars

\* A one-time task comes to its end, whether it runs, is cancelled or the
\* program stops: no thread waits for ever.
OnceTaskEnds ==
    \A i \in 1 .. MAX_TASKS :
        (i \in DOMAIN tasks /\ tasks[i].type = "ONCE")
            ~> (i \in DOMAIN thread /\ thread[i] \in {"done", "killed"})

\* Exit ends: every thread that main joins, while it holds tasks_mutex, stops,
\* also one that overwrites the CANCELLED main has just written.
ExitCompletes == main = "exit" ~> main = "halted"

=============================================================================
