# MiniOS in TLA+

MiniOS (SimulateOS) is an operating-system simulator in C: one program, `minios`,
with a menu, a process table, a memory manager, a Banker's Algorithm and a
multilevel scheduler, and fifteen applications that it starts as real OS
processes. This directory holds TLA+ models of its parts, the TLC
configurations that check them and TLAPS proofs about them. Paths below are
relative to `src/`.

## Inventory

| Component | State | Operations | What makes it correct |
|---|---|---|---|
| Banker's Algorithm, `kernel/deadlock.c` | `available`, `allocation`, `max_need`, `need` | `init_banker`, `is_safe_state`, `request_resources`, `release_resources` | nothing is created or lost; `need` is current when it is read; grants exactly when a completion order exists; holders can always be served |
| Memory manager, `kernel/memory.c` | `available_ram`, `available_hdd` and the totals | `allocate_memory`, `deallocate_memory` under `resource_lock` | free plus in use is the machine |
| Process manager, `kernel/process.c` | `running_processes`, `process_count`, `next_pid`, PCBs from `malloc` | create, terminate, find, state updates | table, heap and counter agree; a pid names one process for ever |
| Scheduler, `kernel/scheduler.c` | three linked lists with a lock each, `scheduler_lock` | `enqueue_process`, `get_next_process`, `context_switch` | well-formed lists that behave as FIFO queues; highest priority first; locks are released |
| Launcher, `lib/app_framework.c` | the table of applications | `launch_application`, `launch_in_terminal`, `kill_application` | every failure undoes what came before it |
| Main loop, `main.c` | `system_running`, the globals above | menu, launch, kill, views, SIGINT, cleanup | handlers end, shutdown completes, books balance at every step |
| Boot, `kernel/boot.c`; Settings, `apps/settings.c` | the configuration file, the configuration in Settings | load, edit, save, reload | a boot gets what was saved and no bad number |
| Task Scheduler, `apps/task_scheduler.c` | task table, one thread per task, `scheduler_running` | add, cancel, list, exit | once means once, cancelled while asleep stays cancelled, exit ends |
| Music Player, `apps/music_player.c` | playlist, track, position, modes, a playback thread | play, pause, stop, next, prev, jump, add, remove, repeat, ... | the track is on a song, the position in it, playback ends |
| Notepad, `apps/notepad.c` | lines, `modified`, the file, an auto-save thread | edit, clear, save, exit, end of input | a clean document is on disk, after every load; edits get there |
| File Operations, `apps/file_ops.c` | `current_op`, a progress thread | copy, move, delete | a file is never in neither place; reports are true |
| Minesweeper, `apps/minesweeper.c` | board, two counters, verdict | reveal, flag | the fill is the region, the counters the board, the verdict the rules |
| Clock and Timer, `apps/clock.c` | alarms, the live clock, the timer | alarm, clock, timer, Ctrl-C | an alarm rings in its minute; Ctrl-C leaves |
| IPC and synchronisation, `kernel/ipc.c`, `kernel/sync.c` | kernel objects | thin wrappers without callers | - |
| Calculator, Terminal, Calendar | a history of results, a child process, none | menu commands | - |
| System Monitor, Process Manager, File Explorer, Search Tool, System Info, `lib/utils.c` | none | print | - |

`main.c` calls the kernel directly and has one thread. A launch is a sequence
of calls on four components - Banker, memory, process table, queue - and then a
`fork`; a kill is a sequence of three. The kernel's types carry locks because the
API is meant for threads. Applications share nothing with `minios` but the
configuration file; six of them are modelled, each with the threads it has, and
the configuration file with both its ends.

What is hard in this code: a launch that fails half way; a signal between two
calls; children that exit unobserved; pointers to freed PCBs in the queues;
rows of the Banker's matrices that are addressed by application ids on the way
in and by pids on the way out; in the threaded parts, state written or read
without the lock that others hold, and values read under a lock and used after
it; in everything that writes a file, a truncation that comes long before the
content, results nobody looks at, and kills in between. `PROJECT.json` lists each hazard at its line
with the properties that would catch it.

## Modules

    Types <- Banker, Memory, ProcessTable, Scheduler <- MiniOS <- MiniOSClaims <- MCMiniOS
             Banker <- CompletionOrder <- BankerClients <- MCBanker
                       CompletionOrder <- BankerProofs
             MiniOS, BankerProofs <- MiniOSProofs
             BankerClients, BankerProofs <- BankerClientsProofs
    ReadyQueues <- Dispatcher <- MCDispatcher, DispatcherProofs
    MusicPlayer <- MCMusicPlayer, MusicPlayerProofs    Notepad <- MCNotepad
    Minesweeper <- MCMinesweeper, MinesweeperProofs
    Configuration <- MCConfiguration            Clock <- MCClock
    FileOps, Notepad, Configuration <- FileProofs
    TaskScheduler, Clock <- TimerProofs

Two proof modules are about several applications each: `FileProofs` about those that
keep files, `TimerProofs` about those that act at a time of day. The applications
share no variable; their modules are extended together, one by one proved. So that
they can be, `Notepad`, `Configuration` and `Clock` carry their own names in `Init`,
`Next`, `Spec`, `vars` and `TypeOK` (`NotepadSpec`, `ConfigNext`, `clock_vars`).

**Types** has the vocabulary of `include/types.h`. A triple of RAM, HDD and
cores is a function from `Res`; `int` is unbounded, see "Not modelled".

**Banker** has one action for each outcome of each function of
`kernel/deadlock.c`. `request_granted` and `request_denied` are the two results
of `request_resources`; the refusal is one action with both of its paths, since
they differ in whether `need` is recomputed, and both keep the `max_need` the
call may have written. The safety search is translated as it is: a sweep visits
the rows in index order, and sweeps repeat. Processes are known to the Banker by
the row `pid % MAX_PROCESSES` alone.

**CompletionOrder** says without a search what the safety search looks for: an
order in which the rows that hold something can finish. It is the reference of
`GrantsExactlyWhenSafe`, of `AlwaysSafe` and of the theorems about the search.

**BankerClients** puts callers around it, as the kernel API documents them: the
first request states the maximum, later ones stay within it, releases return
what is held. `Askable` and the three client actions are external to the
repository: `minios` itself uses the Banker in one way only, all at once.
`ClaimsFit`, no claim larger than the machine, is no assumption of the module:
`request_resources` does not check it (see Findings). `MCBanker` asserts it of its
claims, and the theorems that need it name it.

**Memory**, **ProcessTable** and **Scheduler** are the components `minios` uses,
at the granularity of their locks: each function is one step. The heap is
explicit: `create_process` takes any free address, `terminate_process` frees it,
and a queue or a handler may still hold it.

**MiniOS** composes the four with `main.c` and `launch_application`. `pc` is the
next kernel call of the handler in progress, `call` its local variables. Every
call is a step, so SIGINT and the exit of a child can come between any two.
`os_running` is the set of children that have not exited, named by the pid of the
PCB they were forked for. A launch or a kill ends at "Press Enter to continue..."
(`main.c:160`, `196`), the label "pause", where the program waits for `Enter` before
it looks at `system_running` again. A menu choice that changes nothing is
`MenuReturns`, which goes to the head of the loop or to that prompt; the bodies of
the views are output only. Application 3 of `MCMiniOS` is
larger than the machine and is always refused; the other failures are free choices
(`CreateFails`: `malloc`; `ForkFails`: every terminal method failed), because
the environment decides them.

**MiniOSClaims** states what the comments of the Banker's type say of its
matrices and the running system does not keep.

**Dispatcher** models `kernel/scheduler.c` below the level of `Scheduler`: nodes,
`front`, `rear` and `size`, one step per critical section, threads that enqueue,
dispatch, switch and terminate. `enqueue_process` writes the state and enqueues
in two steps and does not take `scheduler_lock`; `get_next_process` takes it,
tests and takes in separate steps. `found` is a history variable: what was
queued when the lock was taken. **ReadyQueues** is the abstract specification,
three FIFO queues with atomic operations; `FifoQueues` states that Dispatcher
implements it under the mapping that reads the linked lists.

**TaskScheduler** models the application: every unlocked read or write of a
task's status is a step between those of the menu. `Test` reads the flag and the
status, `Due` reads the clock and writes RUNNING or sleeps, `Finish` is the end
of the command and the status after it. The main thread joins one thread after
the other. At the end of input `main` returns and every thread dies where it is.

**MusicPlayer** has a step for each part of a playback round between which the
unlocked commands `add` and `repeat` may come: the end of a song, the next
track, the test against `playlist_size`, the stop at the end. `Holding` are the
steps inside `player_mutex`; the locked commands wait for them, and each is one
step. The status display is a step too, because its progress bar divides by the
duration and ends the program if that is 0. Both ends of the input are there:
at the prompt it is `exit`, inside `add` it is a loop without end.

**Notepad** has `text_mutex` and the two callers of `save_to_file`, which empties
the file when it opens it and fills it when it closes it. The auto-save reads
`modified` under the mutex, decides after it, and `exit` reads it without.
Opening may fail, a write may stop anywhere (`WriteStops`, `torn`: the last line has no
newline), and the process may be killed at any step and started again.
`load_from_file` is a step for each line it reads: the file may not open although
there is one (`Start`), a `malloc` may fail and its line is skipped (`LoadLine`), and
a line that fills the buffer, `Long`, is read without its newline, which the next
`fgets` then takes for an empty line (`LoadNewline`). `parted` is TRUE from where one
of these, or a write that stopped, makes the document differ from the file without a
mark in `modified`, to the next save that succeeds; `unsaved` marks an exit without a
save.

**FileOps** copies a file chunk by chunk, with every failure on the way, joins
the progress thread, and on a move removes the source. `current_op` is the one
global record the threads share. `overlooked` marks the two faults the code does
not look for, a failing `fread` and a failing `fclose`; what the properties say of
an operation is said of those without one and between two different paths.

**Minesweeper** unrolls the recursion of `reveal_cell` into the sequence of calls
that are still to be made, in the order of the code's loops. `Reached` is the
reference: the region of a cell by distance, on the board as it was.

**Configuration** joins both readers and the writer of the configuration file:
Settings, started, left and killed at any step, and the boot of a `minios`. A save
that runs out of room leaves some lines and perhaps a beginning of the next value
(`Parts`), the digits of a number included, which the loaders accept. The boot is not
one step: its first read gets what is there (`BootOpens`), and as long as a read has not
met the end of the file it goes on with a file that was emptied and filled meanwhile
(`BootReadsOn`), whose last lines are then read over what it has. Where what was read
before ends inside a line, that and the first of the next read are taken for one line,
which can say anything (`Joints`, `Glued`). A text is a sequence of words, because
`%s` reads the first. `junk` follows a configuration that was never initialised,
`versions` has the configurations saved last and during a boot, and `got` says whether
all reads met whole files, some a part, or a line was made of two.

**Clock** has a clock of its own, `clock_time`, that moves while the program sleeps or
waits at its prompt. A day is shortened to hours of minutes of seconds.
`Interrupt` is SIGINT: it clears the flag where the handler is installed and ends
the program everywhere else.

## Runs

| Run | Bounds | Shows |
|---|---|---|
| `BankerSafety` | 3 rows, 3 callers with claims (3,1,1), (2,1,2), (1,2,1) on a machine of (3,2,2) | consistency of the matrices, the safety search against a brute-force completion order, avoidance of deadlock |
| `MiniOSSafety` | 3 slots, 3 addresses, 3 applications, one larger than the machine, pids 5 to 8; symmetric addresses | the invariants of the composition, and what the Banker refuses |
| `MiniOSProgress` | 2 slots, 3 addresses, 2 applications, pids 5 to 7 | handlers end, shutdown completes if the user answers |
| `DispatcherSafety` | 2 threads, 4 processes on 3 levels, 4 nodes | lists, FIFO refinement, priority order, lock |
| `TasksSafety` | 3 tasks, clock 1 to 3 | the task threads against the menu |
| `MusicPlayerSafety` | songs of 3 and 1 seconds, more of 0 and 1 added, 3 at most | the playback thread against the commands |
| `NotepadSafety` | 3 lines of 3 kinds: empty, short, filling the buffer; 2 failures or kills | the two savers of one document, its file over saves, loads and restarts |
| `FileOpsSafety` | 2 paths, contents of up to 2 chunks of 2 kinds, 2 faults | what a copy, a move and a delete leave, from any contents |
| `MinesweeperRules` | 4 by 4, 2 mines in two layouts, 1 flag at a time | the fill, the counters and the verdict for whole games |
| `ConfigurationSafety` | a number of up to 2 digits and a text of up to 2 words, 2 configurations to a boot | what a boot reads, between and during saves |
| `ClockAlarms` | 2 hours of 2 minutes of 3 seconds, 2 alarms, 18 seconds | alarms and Ctrl-C |
| `ClaimAllocation` | as `MiniOSSafety`, pids to 6 | a counterexample, see Findings |

Why the bounds are enough to meet the cases. In `BankerSafety` the claims add up
to twice the machine, so refusals for shortage and for safety both occur, and the
completion order sometimes runs against the row order, which the mutant with a
single sweep needs. The three pids 3, 7 and 11 fall in rows 0, 1 and 2. In
`MiniOSSafety` four small applications fit the machine and only three slots
exist, so the creation fails at the limit; `next_pid` starts at 5, so the pids 5,
6, 7 and 8 fall in rows 2, 0, 1 and 2, which are also those of the application
ids 2, 3 and 1, and kills hit rows of other launches; three addresses and four launches make addresses come
back while queues still hold them. `MaxPid` stops launches, not kills; it is the
only bound of the module and is a guard of `LaunchSelected`. With `Addr` no larger
than the slots, `malloc` also fails for want of an address. In `DispatcherSafety`
two processes share a level, so lists of length two arise, and as many nodes as
processes make freed nodes be reused. In `TasksSafety` `MaxTime` stops the clock;
a task is added only if its time comes before that, and an interval of 2 with a
clock of 3 makes the first task run twice.

In `MusicPlayerSafety` the second song is shorter than the first, so a removal can
put the position past its end; a song of no length reaches the trap, and a
playlist of three fills up and empties. The volume is 0 or a refused 101. In
`NotepadSafety` three lines hold a line that fills the buffer, the empty one its
newline is read as, and one after it; a full document stops a load in the middle of
such a line. A write can stop between lines and inside one, and two faults let a
failing save or load follow a kill. In `FileOpsSafety` the initial
contents are any, equal ones and a missing destination included, the two paths
may be one, and the second fault can hit the `remove` of a move; one chunk can be
lost and one be left. In `MinesweeperRules` the mines of one layout leave one large
region, which a flag can cut, and those of the other a region between two numbers'
borders; flags may be lifted and set again, so that a fill is resumed from the other
side. In `ConfigurationSafety` the values typed lie below, inside and above the
range, 12 can be cut to 1, and one line stands before the other, so a boot can read the
first of one configuration and the second of another. `MaxVersions` bounds the saves
during one boot: with two it mixes two configurations; a third would be mixed with
them line by line in the same way. In `ClockAlarms` a day passes and its first half comes
again; alarms are set at every minute, the one being shown included.

Every property has a mutant of the code that violates it under the run's own
configuration; mutants stand next to the definition they replace.

## Fairness

`MiniOS`: weak fairness of `ProgramStep`, the calls of the one thread that does
not wait for input. Nothing is assumed of SIGINT, of the children or of what the user
chooses; `ShutdownCompletes` has as its hypothesis `UserAnswers`, that no prompt stays
open for ever, because the flag is not looked at before it is answered.
`OperationReturns` needs no user: it says that a handler comes to its
"Press Enter", whichever call fails.
`Dispatcher`: weak fairness of each thread's steps inside a call. That suffices
for `LockReleased`, since only the holder's own steps are involved; acquiring
`scheduler_lock` would need strong fairness, which POSIX mutexes do not promise,
and no property claims it. `TaskScheduler`: weak fairness of each thread (sleeps and
commands end; a command that never ends makes the join wait for ever, as in the
code), of the joins and of the clock; none of the user. `MusicPlayer`: of the
playback thread and of what main does without input. `Notepad`: of the
auto-save thread and of main inside a command; the auto-save waits for a mutex that
main takes only to save, and `EditsReachFile` speaks of a user who has stopped
typing, so weak fairness is enough. `FileOps`: of the operation in progress and of the
progress thread, which polls. `Clock`: of the program and of the passing of time;
and an assumption on timing, `MaxLag`: the live clock comes round at least once
in a minute. A machine that stops it for longer makes it miss an alarm.
`BankerClients`, `Minesweeper` and `Configuration` assume none and claim no liveness.

## Findings

`ClaimAllocation` ends in a counterexample, quoted with its lines in
`PROJECT.json`: a launch files its grant under the application id, a kill returns
it under the pid; afterwards `allocation` still shows what the pool has.

Seen while modelling, part of the models where they change state, without a run of their own:

In the kernel and the menu. A refused claim larger than the machine stays in
`max_need`, and after a smaller request of the same process, refused as unsafe, every
safety check fails with nothing allocated (`deadlock.c:153`); `minios` does not get
there (`RefusedOnlyWhenShort`), because an application always asks for the same
amount. Killed processes and failed launches stay queued as pointers to freed
memory. The kill menu ends the PCB and not the application; an application that
exits by itself keeps its PCB and resources. SIGINT at an open prompt only clears the
flag, and `signal` of glibc restarts the interrupted read, so nothing happens
until the user answers (`main.c:36` announces a graceful shutdown). The prompt
may be "Press Enter" at the end of the launch or the kill the signal came into. A request above the recorded
`max_need` is granted although `deadlock.c:149` announces the check. `available_cores`
never changes and `total_cores` is 8 whatever the configuration says
(`process.c:25-26`). `MAX_PROCESSES` of the configuration is read and ignored
(`boot.c:59`). `schedule_round_robin` does not re-enqueue as its comment says
(`scheduler.c:224-226`), and nothing in the repository calls `get_next_process`.

In the applications. A task cancelled while it runs, or just before, has its
cancellation overwritten. Removing a song keeps the position, so the progress bar can
pass 100 %; a song of 0:00 ends the player as soon as it is shown playing or paused.
End of input inside the player's `add` and at the menu of File Operations spins for
ever. Notepad reports a save that failed as saved, looks at neither `fprintf` nor
`fclose`, and its auto-save never writes a document that was cleared. A file that it
cannot open at its start is an empty clean document, which the next save writes over
it (`notepad.c:53`); a line for which `malloc` fails is left out in the same way
(`notepad.c:63`), and a line of 255 characters comes back with an empty line after it. A copy onto
the same file empties it, and a move then removes it; a `fread` or `fclose` that fails
during a move removes a source that was not copied. Settings without a configuration file
says that it uses defaults and edits an uninitialised record, which a save makes
permanent; its texts come back cut at the first blank. On a full disk a number can
be saved cut, `RAM_SIZE_MB=20` of 2048, and boots as that (`settings.c:84`,
`boot.c:51`).

## Proofs

The theorems hold for every value of the constants that meets the named
assumptions of the modules, which TLC evaluates in the runs. None of them
assumes a bound: the bounds of the runs (`MaxPid`, `MaxTime`, `MaxClockTime`, `MaxFaults`,
`MaxMishaps`, ...) are constants of any size. What the assumptions do ask for is in
the code: a board has a safe cell (`MINES < SIZE * SIZE`: 15 and 100), an hour has two
minutes at least (60; with one the live clock could not see a new minute), every field
has one default and one line in the file, and a missing file is not a file.

The provers have no induction of their own, and the library's induction theorems
take an operator, which they cannot instantiate. Where an induction is needed it is
made from the well-foundedness of the finite subsets of a finite set:
`LeastNumber` (a non-empty set of naturals has a least member), `LoopInduction` (a
set of states that is kept by each of n steps) and `SetInduction` (a family of
finite sets closed under adding one). With them the recursive functions of the
models - the sweeps of the search, the walk along a list, sums over rows - have
laws that are proved once and cited. `BankerProofs`, `DispatcherProofs` and
`MinesweeperProofs` extend models of unrelated components, and each states
`LeastNumber` and `LoopInduction` for itself.

### The Banker: `BankerProofs`, `BankerClientsProofs`

`BankerProofs` is about the algorithm alone, for any number of rows and any matrices.

| Theorem or lemma | States |
|---|---|
| `SearchResult` | `is_safe_state` is true exactly when its search finishes every process; the search stops only where nobody else can finish, and keeps whatever one visit keeps |
| `SumLaws`, `RowSumLaws`, `RowSumChange` | the fold over a finite set: empty, one more, split, monotone; what changing one row does to a sum |
| `SafeHasOrder`, `OrderIsSafe` | each half of the next line: the order in which rows are marked is a completion order (`OrderExtend`), and the first row of an order that the search left out could have been finished |
| `SearchIsExact` | the sweeps in index order find a completion order whenever there is one |
| `OrderMore`, `GiveBackOrder`, `FullGrantOrder` | what keeps an order: more free, a release, a grant of everything a row may need |

`BankerClientsProofs` has the protocol around it. Its invariant is
`SInv == IInv /\ Books /\ AlwaysSafe`. `IInv` adds to the types `RowOf` - a caller's row
holds what the caller holds, and an unknown maximum goes with an empty allocation -
without which a refused request could give a maximum to a row in use and leave
`need` as it was. `Books` adds that free and allocated make up the machine, that rows
of nobody are empty, and that the need on record of a caller who holds nothing stays
within its claim: the rows that a refusal leaves behind take part in the next search.

| Theorem | States |
|---|---|
| `NeedSafe` | `[]NeedIsCurrent` |
| `Safety` | `[]AlwaysSafe`, whatever the claims |
| `Conservation` | `[]Conserved`, whatever the claims |
| `GrantDecision` | `[]GrantsExactlyWhenSafe`, if `ClaimsFit` |
| `Unwedged` | `[]NeverWedged`, if `ClaimsFit` |

`ClaimsFit` is a hypothesis where it is needed and nowhere else. It came out of the
proof: a process that holds nothing and whose recorded claim is larger than the
machine is never finished by the search, so the algorithm refuses everybody
although the holders have an order. `Safety` does not need it, for such an answer
errs on the safe side. `Unwedged` is the argument of the Banker's Algorithm:
`ServeFirst` takes the first row of a completion order, gives it the rest of its
claim and shows that the order is still one.

### The machine: `MiniOSProofs`

Any positive number of slots, any machine, any set of addresses, any application
table whose ids fall in different rows and whose applications use some RAM, any
first pid above 0. The code's constants meet this (64 slots, ids 1 to 15, pids from
1000, 32 MB at the least in the table at `lib/app_framework.c:16`). The books need one
inductive invariant, `IInv`:

* `TypeOK`;
* `HandlerConsistent`: a handler's pointer is to a live PCB with the handler's
  own request - without it a kill could return another amount than was granted;
* `WithinMachine`: no live request exceeds the machine - without it the count of
  units in the accounting below would be cut off;
* `TableOwnsHeap`, `CountExact`, `PidsUnique`: the table has each live PCB in
  exactly one slot - without it a termination could remove two shares or none;
* `BankerBalanced`, `MemoryBalanced`: free, plus the shares of the table, plus
  what the handler has in hand, is the machine. Which processes count depends on
  how far a failure path or a kill has come (`BankerGone`, `BankerInFlight`,
  `MemoryGone`, `MemoryInFlight`).

The balances make the type invariant inductive in turn: `available` does not go
below 0 because a grant checks, and memory's subtraction does not because it
checks; the clamp in `deallocate_memory` never bites because of the balance, and
the step lemma for memory needs exactly that. `SlotSum` counts the cells
`<<slot, k>>` with `k` up to the slot's share; `SlotSumAdd` says what changing one
slot does.

`Refusals` has an invariant of its own, `RowsInv`, because the Banker's matrices do
not agree with the process table (see Findings): a kill returns resources under the
pid, from the row of another launch or of none. What survives is that the rows
holding something can be finished, the last one granted first. A grant keeps this
because an application always asks for its whole maximum: the row just granted needs
nothing more (`FullGrantOrder`). A release under a wrong id keeps it because whatever
the row loses, and its need grows by, becomes free (`GiveBackOrder`). So the safety
check succeeds on every request that fits, and the rollback at
`kernel/deadlock.c:193` is never run by `minios` (`NeverRefused`).

| Theorem | States |
|---|---|
| `Invariance` | `Spec => []IInv` |
| `TypeCorrect` | `[]TypeOK` |
| `BooksBalance` | `[]BooksBalanced`: both balances |
| `GrantSuffices` | `[]GrantCoversMemory`: from the two balances, memory has at least what the Banker has |
| `TableCorrect` | `[]TableConsistent`: slots, heap, counter, pids and the handler's pointer |
| `MachineBounds` | `[]WithinMachine` |
| `QueuesComplete` | `[]LiveProcessesQueued`, by its own induction over `IInv` |
| `Refusals` | `RefusedOnlyWhenShort`, from `RowsInv` |

### The scheduler: `DispatcherProofs`

Any threads, processes, priorities and nodes. `Chains` reads the lists out of the
nodes; the invariant is `Lists /\ Waiting /\ InHand /\ LockHeld /\ Cascade /\
HighestFirst` with the types:

* `Lists`: the chain of each queue is linked from `front` to `rear`, the chains share
  no node and every allocated node is on one - without the last an insertion could
  take a node that a list still leads to;
* `Waiting`, `InHand`: what is queued is READY, queued once and in no thread's hands,
  and no two threads have the same process - `enqueue_process` writes the state
  without a lock, and this is why nobody else does meanwhile;
* `LockHeld`, `Cascade`: the thread between test and take is the holder of
  `scheduler_lock`; what was queued when it took the lock still is, in a queue
  that it has not passed, and a queue seen non-empty stays so.

`EnterLists` and `LeaveLists` say what `queue_enqueue` and `queue_dequeue` do to the
chains, `EnterLine` and `LeaveLine` what that is for the contents: the step of the
refinement.

| Theorem | States |
|---|---|
| `Invariance` | `Spec => []IInv` |
| `ListsStayIntact` | `[]ChainsIntact` |
| `QueuesHoldTheReady` | `[]QueuedOnceAndReady` |
| `HighestIsTaken` | `[]HighestFirst` |
| `QueuesAreFifo` | `Spec => FifoQueues`: `Push` maps to `Enter`, `Take` to `Leave`, every other step to a stutter |

### The applications

| Theorem | States | The strengthening, and why it is needed |
|---|---|---|
| `TimerProofs!OnceSafe` | `[]OnceRunsOnce` | `RunsOf`: a task that has run once is out of its loop - otherwise nothing but the status, which the menu writes, would keep it from running again |
| `TimerProofs!CancelHolds` | `CancelledAsleepStays` | the same invariant, for the types |
| `TimerProofs!NoAlarmMissed` | `NoneMissedWhileShown` | `Quiet`: the sleeping clock has seen the minute it went to sleep in, and no active alarm is of that minute |
| `MusicPlayerProofs!TrackSafe` | `[]TrackOnSong` | `EndOfSong`: inside a round that ended a song there is a song - no removal can come in between, an addition can |
| `MusicPlayerProofs!OnlyRemoval` | `OnlyRemovalOverruns` | `EndOfSong`: the position has been reset before the track moves |
| `FileProofs!FlagTrue`, `ExitSafe` | `[]CleanMeansSaved`, `[]ExitKeepsWork` | `HolderSaves`: who holds the mutex is saving; `LoadedSoFar`: what a load has made is what it has read, unless `parted` - the document between two `fgets` is not the file's; `LeftClean`, `ThreadEnded`: main leaves its loop clean or with `unsaved`, and ends after the thread |
| `FileProofs!ContentSafe`, `ReportTrue`, `BarBounded` | `[]NothingLost`, `[]OutcomeTrue`, `[]ProgressBounded` | `ContentKept` says at each step where the content is: the destination is a prefix of the source during the loop, and equal to it where the loop ends unless a fault was overlooked; `Counted` ties the counter to the length written |
| `FileProofs!NumbersInRange`, `OneConfiguration` | `[]BootInRange`, `[]BootCoherent` | `Stored`: the file holds nothing but lines of the configuration saved last and beginnings of them, all of them whole if the save ended; `Marked`: a record that was never initialised stays known as such through saves, kills and loads; `Traced`: each value a boot has so far is of a configuration in `versions` |
| `MinesweeperProofs!CountersTrue`, `VerdictTrue` | `[]CountersExact`, `[]VerdictCorrect` | `Verdict`: in the middle of a reveal no mine is open but the cell asked for, and none is pending - without it the win, a comparison of two counts, could be claimed with a mine among the cells counted |
| `MinesweeperProofs!FillExact` | `[]RevealOpensRegion` | `Fill`, see below |

They hold for any table size, delays and clock; any day, alarms and sleeps shorter than
a minute; any playlist and durations, negative ones included; any lines and limits; any
paths, sizes and numbers of faults; any fields, ranges and words; any board.

*Clock.* `Quiet` speaks of the time `clock_time - lag`, at which the program went to
sleep, because time goes on while it sleeps. `run_live_clock` compares the minute
of the hour only; `RoundIsQuiet` needs that the last round was in this minute or the one
before (`LittleEarlier`, from `MaxLag < SECONDS`) and that two successive minutes
differ modulo `MINUTES` (`NextRest`). A new alarm of the minute being shown cannot be
left over: alarms are added at the prompt, and a live clock that starts has
`last_minute = -1` and checks in its first round.

*Configuration.* `ReadLine` says what a loader gets from one line that a save left,
whole or not, `OverLines` what it gets from any such lines over what it had. A whole
file gives what the format keeps of the configuration (`LoadAll`), a part of one values,
beginnings of values and defaults (`LoadOfFile`), and the end of a newer file, read over
an older one, values of either (`RestLines`). Numbers stay in range because the
beginnings of a positive number are positive and no larger (`BeginningsInRange`).

*Minesweeper.* The recursion visits cells depth first and the reference `Reached`
counts distances, so no step of one is a step of the other. Both are compared with a
third thing, the sets that spread: those with the cell asked for and, with every blank
cell, its neighbours that were hidden. `Fill` says that what is open or about to be
opened is in every such set, and that the open cells spread to cells open or about to
be called. When no call is left the open cells are therefore the least set that
spreads. `RegionIsLeast` says the same of `Reached` at distance `SIZE * SIZE`: each
distance either adds a cell or adds none for ever, and there are no more cells than
distances (`ReachedSpreads`); and what spreads holds each distance (`ReachedIsLeast`).
`Reached` is a function defined by recursion over a finite domain; that it is the
function its definition describes is proved first (`IterationExists`, `ReachedIs`).

### Checked by TLC only

Everything that needs fairness - `OperationReturns`, `ShutdownCompletes`,
`LockReleased`, `OnceTaskEnds`, `ExitCompletes`, `PlaybackEnds`, `EditsReachFile`,
`InterruptLeaves` - because liveness and ENABLED are out of the prover's reach. Every
other property of the passing runs, invariant or action property, is a theorem.

## Not modelled

Integer width: the models count in unbounded integers. The balances bound every
sum by the configured total, so in `minios` only the product `hdd_size_gb * 1024`
can overflow. Failing `malloc` in the scheduler, a failing `pthread_create`, NULL
arguments the callers never pass, names, times, messages. Two POSIX facts are
taken from the platform: `signal` restarts the interrupted read, and the end of
`main` ends every thread.

* `kernel/ipc.c` and `kernel/sync.c`: wrappers of one system call each. `main` creates
  and destroys a queue; nothing sends, receives, maps, waits or posts.
* `launch_in_terminal` is one step that yields a child or fails; its four methods
  differ in what they exec. `kill_application` has no caller.
* Calculator: arithmetic on doubles, which TLA+ has no counterpart for.
* Calendar, the display utilities, the boot animation and the read-only
  applications print and keep no state; Terminal runs one child at a time.
* The configuration file edited by hand, as `README.md:206` of the repository invites
  to: nothing checks its numbers, so nothing could be promised of them. Words with a `=`
  in a name, a configuration file larger than one stdio buffer (4096 bytes; Settings
  writes some 250), and more than one MiniOS that boots at a time.
* Two Settings at once, links between paths in File Operations, the drawing of
  boards and bars. Minesweeper's random layout is any set of mines, from
  `Layouts`.

## Plan

Left for later: `kill_application` beside the menu's kill and the chain of launch
methods, should they get callers; two Settings at once over one file; integer width
in the boot's multiplication and in the status view.
