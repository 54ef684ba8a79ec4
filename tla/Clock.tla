------------------------------- MODULE Clock -------------------------------
(***************************************************************************)
(* apps/clock.c: alarms that are looked at by the live clock only, once in *)
(* a minute; the countdown; and Ctrl-C, which leaves the live clock and    *)
(* ends the program everywhere else.  The day is shortened: hours of       *)
(* MINUTES minutes of SECONDS seconds.                                     *)
(***************************************************************************)
EXTENDS Integers, Sequences

CONSTANTS
    MAX_ALARMS,
    HOURS, MINUTES, SECONDS,
    first_alarms,    \* the alarms main sets, as <<hour, minute>>
    Seconds,         \* what the user gives to timer
    MaxLag,          \* bound: the seconds between two rounds of the live clock
    MaxClockTime     \* bound: the seconds the model runs

\* The live clock comes round at least once in a minute, and an hour has more
\* than one, so that last_minute tells a minute from the next.
ASSUME ClockAssumption ==
    /\ MAX_ALARMS \in Nat \ {0} /\ MaxClockTime \in Nat
    /\ HOURS \in Nat \ {0} /\ MINUTES \in Nat \ {0, 1} /\ SECONDS \in Nat \ {0}
    /\ MaxLag \in 1 .. SECONDS - 1
    /\ first_alarms \in Seq((0 .. HOURS - 1) \X (0 .. MINUTES - 1))
    /\ Len(first_alarms) <= MAX_ALARMS /\ Seconds \subseteq Nat \ {0}

VARIABLES
    clock_time,      \* seconds since the program started, at 00:00
    alarms,          \* the first alarm_count entries
    last_minute,     \* local to run_live_clock; -1 at its start
    running,
    left,            \* seconds the timer still counts
    lag,             \* seconds since the live clock or the timer went to sleep
    clock            \* next step of main

clock_vars == <<clock_time, alarms, last_minute, running, left, lag, clock>>

Minutes == clock_time \div SECONDS
minute == Minutes % MINUTES
hour == (Minutes \div MINUTES) % HOURS

ClockTypeOK ==
    /\ clock_time \in 0 .. MaxClockTime
    /\ Len(alarms) <= MAX_ALARMS
    /\ \A i \in DOMAIN alarms :
          alarms[i] \in [time : (0 .. HOURS - 1) \X (0 .. MINUTES - 1), active : BOOLEAN]
    /\ last_minute \in -1 .. MINUTES - 1
    /\ running \in BOOLEAN /\ left \in Nat /\ lag \in 0 .. MaxLag
    /\ clock \in {"prompt", "install", "round", "asleep", "timer", "counting", "ended"}

NewAlarm(time) == [time |-> time, active |-> TRUE]

ClockInit ==
    /\ clock_time = 0
    /\ alarms = [i \in DOMAIN first_alarms |-> NewAlarm(first_alarms[i])]
    /\ last_minute = -1 /\ running = TRUE /\ left = 0 /\ lag = 0
    /\ clock = "prompt"

ClockGo(label) == clock' = label

-----------------------------------------------------------------------------
(* run_live_clock *)

\* Mutant: last_minute outlives the call.
ClockCommand_static ==
    /\ clock = "prompt" /\ ClockGo("install")
    /\ running' = TRUE
    /\ UNCHANGED <<clock_time, alarms, last_minute, left, lag>>

ClockCommand ==
    /\ clock = "prompt" /\ ClockGo("install")
    /\ last_minute' = -1 /\ running' = TRUE
    /\ UNCHANGED <<clock_time, alarms, left, lag>>

\* signal(SIGINT, signal_handler)
InstallHandler ==
    /\ clock = "install" /\ ClockGo("round")
    /\ UNCHANGED <<clock_time, alarms, last_minute, running, left, lag>>

AlarmDue(alarm) == alarm.active /\ alarm.time = <<hour, minute>>

\* check_alarms
Checked ==
    [i \in DOMAIN alarms |->
        IF AlarmDue(alarms[i]) THEN [alarms[i] EXCEPT !.active = FALSE] ELSE alarms[i]]

\* One round of the loop: the alarms, if the minute is a new one, then sleep.
Round ==
    /\ clock = "round" /\ running
    /\ alarms' = IF minute # last_minute THEN Checked ELSE alarms
    /\ last_minute' = minute
    /\ lag' = 0 /\ ClockGo("asleep")
    /\ UNCHANGED <<clock_time, running, left>>

\* sleep(1) returns after a second, or at once when a signal comes.
Awake ==
    /\ clock = "asleep"
    /\ lag > 0 \/ ~running
    /\ ClockGo("round")
    /\ UNCHANGED <<clock_time, alarms, last_minute, running, left, lag>>

\* Mutant: the loop goes on after Ctrl-C.
LeaveClock_never ==
    /\ clock = "round" /\ ~running
    /\ running' = TRUE
    /\ UNCHANGED <<clock_time, alarms, last_minute, left, lag, clock>>

\* The loop ends and the default handler is back.
LeaveClock ==
    /\ clock = "round" /\ ~running
    /\ ClockGo("prompt")
    /\ UNCHANGED <<clock_time, alarms, last_minute, running, left, lag>>

\* signal_handler in the live clock; anywhere else the signal ends the program.
Interrupt ==
    /\ clock # "ended"
    /\ IF clock \in {"round", "asleep"}
       THEN running' = FALSE /\ UNCHANGED clock
       ELSE ClockGo("ended") /\ UNCHANGED running
    /\ UNCHANGED <<clock_time, alarms, last_minute, left, lag>>

-----------------------------------------------------------------------------
(* The other commands *)

\* alarm HH MM: the hour and the minute are tested first.
AlarmCommand(time) ==
    /\ clock = "prompt"
    /\ Len(alarms) < MAX_ALARMS
    /\ alarms' = Append(alarms, NewAlarm(time))
    /\ UNCHANGED <<clock_time, last_minute, running, left, lag, clock>>

TimerCommand(seconds) ==
    /\ clock = "prompt" /\ ClockGo("timer")
    /\ left' = seconds
    /\ UNCHANGED <<clock_time, alarms, last_minute, running, lag>>

\* run_timer: show what is left and sleep, or finish.
TimerStep ==
    /\ clock = "timer"
    /\ ClockGo(IF left > 0 THEN "counting" ELSE "prompt")
    /\ lag' = 0
    /\ UNCHANGED <<clock_time, alarms, last_minute, running, left>>

CountDown ==
    /\ clock = "counting" /\ lag > 0
    /\ left' = left - 1 /\ ClockGo("timer")
    /\ UNCHANGED <<clock_time, alarms, last_minute, running, lag>>

\* exit, or the end of the input.
Exit ==
    /\ clock = "prompt" /\ ClockGo("ended")
    /\ UNCHANGED <<clock_time, alarms, last_minute, running, left, lag>>

\* A second passes.  The steps of a round take no time; between two rounds of
\* the live clock there are at most MaxLag seconds.
ClockTick ==
    /\ clock_time < MaxClockTime /\ clock \in {"prompt", "asleep", "counting"}
    /\ clock_time' = clock_time + 1
    /\ IF clock = "prompt" THEN UNCHANGED lag ELSE lag < MaxLag /\ lag' = lag + 1
    /\ UNCHANGED <<alarms, last_minute, running, left, clock>>

Ended == clock = "ended" /\ UNCHANGED clock_vars

-----------------------------------------------------------------------------
ClockStep == InstallHandler \/ Round \/ Awake \/ LeaveClock \/ TimerStep \/ CountDown

ClockUserStep ==
    \/ ClockCommand \/ Interrupt \/ Exit
    \/ \E h \in 0 .. HOURS - 1, m \in 0 .. MINUTES - 1 : AlarmCommand(<<h, m>>)
    \/ \E seconds \in Seconds : TimerCommand(seconds)

ClockNext == ClockStep \/ ClockUserStep \/ ClockTick \/ Ended

\* The program is scheduled, sleeps end; the user owes nothing.
ClockSpec ==
    /\ ClockInit /\ [][ClockNext]_clock_vars
    /\ WF_clock_vars(ClockStep) /\ WF_clock_vars(ClockTick)

-----------------------------------------------------------------------------
\* While the clock is shown no minute goes by with an alarm of it unrung, also
\* one that was set in that very minute after the clock had been shown in it.
NoneMissedWhileShown ==
    [][(clock = "asleep" /\ running /\ Minutes' # Minutes) =>
          \A i \in DOMAIN alarms :
              ~(alarms[i].active /\ alarms[i].time = <<hour, minute>>)]_clock_vars

\* Ctrl-C leaves the live clock: the loop sees the flag.
InterruptLeaves ==
    (clock = "asleep" /\ ~running) ~> (clock \in {"prompt", "ended"})

=============================================================================
