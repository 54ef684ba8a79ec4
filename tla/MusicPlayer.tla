---------------------------- MODULE MusicPlayer ----------------------------
(***************************************************************************)
(* apps/music_player.c: a playlist, the command loop in the main thread    *)
(* and the playback thread that advances the position once a second.       *)
(* player_mutex guards the playback thread's round, the status display,    *)
(* and every command but add and repeat, which change what a round reads.  *)
(* A song is its duration in seconds.                                      *)
(***************************************************************************)
EXTENDS Integers, Sequences, SequencesExt

CONSTANTS
    MAX_SONGS,
    Duration,        \* what the user answers to "Duration", 0:00 included
    first_songs,     \* the playlist main starts with
    Volume           \* what the user gives to volume

ASSUME PlayerAssumption ==
    /\ MAX_SONGS \in Nat \ {0}
    /\ Duration \subseteq Int /\ Volume \subseteq Int
    /\ first_songs \in Seq(Int) /\ Len(first_songs) <= MAX_SONGS

VARIABLES
    playlist,            \* the first playlist_size entries
    current_track, current_position,
    state, repeat_mode,
    volume, shuffle_mode,    \* shown, and read by nothing else
    thread_running,
    worker,              \* next step of playback_worker
    main                 \* next step of main

playing == <<playlist, current_track, current_position, state, repeat_mode>>
shown == <<volume, shuffle_mode>>
control == <<thread_running, worker, main>>
vars == <<playing, shown, control>>

playlist_size == Len(playlist)
duration_sec(track) == playlist[track + 1]     \* the array counts from 0

RepeatModes == {"off", "all", "one"}

\* Inside the round, where the thread holds player_mutex.
Holding == {"next", "at_end", "stop"}

TypeOK ==
    /\ playlist \in Seq(Int) /\ playlist_size <= MAX_SONGS
    /\ current_track \in Nat /\ current_position \in Nat
    /\ state \in {"STOPPED", "PLAYING", "PAUSED"} /\ repeat_mode \in RepeatModes
    /\ volume \in 0 .. 100 /\ shuffle_mode \in BOOLEAN
    /\ thread_running \in BOOLEAN
    /\ worker \in {"test", "round", "sleep", "done", "killed"} \union Holding
    /\ main \in {"status", "prompt", "join", "spins", "halted", "trapped"}

Init ==
    /\ playlist = first_songs
    /\ current_track = 0 /\ current_position = 0
    /\ state = "STOPPED" /\ repeat_mode = "off"
    /\ volume = 70 /\ shuffle_mode = FALSE
    /\ thread_running = TRUE /\ worker = "test" /\ main = "status"

-----------------------------------------------------------------------------
(* playback_worker *)

Goto(label) == worker' = label /\ UNCHANGED <<thread_running, main>>

Test ==
    /\ worker = "test"
    /\ Goto(IF thread_running THEN "round" ELSE "done")
    /\ UNCHANGED <<playing, shown>>

SongEnds == current_position + 1 >= duration_sec(current_track)

\* The round up to the end of the song.  repeat_mode is read without the lock
\* that its writer ignores.
Round ==
    /\ worker = "round"
    /\ IF state = "PLAYING" /\ playlist_size > 0
       THEN /\ current_position' = IF SongEnds THEN 0 ELSE current_position + 1
            /\ Goto(IF SongEnds /\ repeat_mode # "one" THEN "next" ELSE "sleep")
       ELSE UNCHANGED current_position /\ Goto("sleep")
    /\ UNCHANGED <<playlist, current_track, state, repeat_mode, shown>>

NextTrack ==
    /\ worker = "next"
    /\ current_track' = current_track + 1
    /\ Goto(IF current_track' >= playlist_size THEN "at_end" ELSE "sleep")
    /\ UNCHANGED <<playlist, current_position, state, repeat_mode, shown>>

\* The song was the last one when playlist_size was read.
AtEnd ==
    /\ worker = "at_end"
    /\ current_track' = IF repeat_mode = "all" THEN 0 ELSE current_track
    /\ Goto(IF repeat_mode = "all" THEN "sleep" ELSE "stop")
    /\ UNCHANGED <<playlist, current_position, state, repeat_mode, shown>>

\* Mutant: the player stays PLAYING at the end of the playlist.
StopAtEnd_keeps_playing ==
    /\ worker = "stop"
    /\ current_track' = playlist_size - 1 /\ current_position' = 0
    /\ Goto("sleep")
    /\ UNCHANGED <<playlist, state, repeat_mode, shown>>

\* playlist_size is read again: a song added meanwhile is where it stops.
StopAtEnd ==
    /\ worker = "stop"
    /\ current_track' = playlist_size - 1 /\ current_position' = 0
    /\ state' = "STOPPED"
    /\ Goto("sleep")
    /\ UNCHANGED <<playlist, repeat_mode, shown>>

Wake ==
    /\ worker = "sleep"
    /\ Goto("test")
    /\ UNCHANGED <<playing, shown>>

-----------------------------------------------------------------------------
(* main *)

\* A locked command waits for the end of the round.
Command == main = "prompt" /\ main' = "status" /\ UNCHANGED <<thread_running, worker>>
LockedCommand == Command /\ worker \notin Holding

\* print_player_status.  The progress bar divides by the duration: a song of
\* no length ends the program on a trap.
Status ==
    /\ main = "status" /\ worker \notin Holding
    /\ IF state # "STOPPED" /\ playlist_size > 0 /\ duration_sec(current_track) = 0
       THEN /\ main' = "trapped"
            /\ worker' = IF worker = "done" THEN "done" ELSE "killed"
       ELSE main' = "prompt" /\ UNCHANGED worker
    /\ UNCHANGED <<playing, shown, thread_running>>

Play ==
    /\ LockedCommand
    /\ state' = IF playlist_size > 0 THEN "PLAYING" ELSE state
    /\ UNCHANGED <<playlist, current_track, current_position, repeat_mode, shown>>

Pause ==
    /\ LockedCommand
    /\ state' = IF state = "PLAYING" THEN "PAUSED" ELSE state
    /\ UNCHANGED <<playlist, current_track, current_position, repeat_mode, shown>>

Stop ==
    /\ LockedCommand
    /\ state' = "STOPPED" /\ current_position' = 0
    /\ UNCHANGED <<playlist, current_track, repeat_mode, shown>>

\* Mutant: the position of the song that was left is kept.
GoTo_keeps_position(track) ==
    /\ LockedCommand
    /\ current_track' = track
    /\ UNCHANGED <<playlist, current_position, state, repeat_mode, shown>>

GoTo(track) ==
    /\ LockedCommand
    /\ current_track' = track /\ current_position' = 0
    /\ UNCHANGED <<playlist, state, repeat_mode, shown>>

Next1 == playlist_size > 0 /\ GoTo((current_track + 1) % playlist_size)
Prev == playlist_size > 0 /\ GoTo((current_track - 1 + playlist_size) % playlist_size)
Jump == \E arg \in 1 .. playlist_size : GoTo(arg - 1)

\* Mutant: the track is not moved when the last song goes.
RemoveSong_keeps_track(index) ==
    /\ LockedCommand
    /\ playlist' = RemoveAt(playlist, index + 1)
    /\ current_track' = IF playlist_size = 1 THEN 0 ELSE current_track
    /\ state' = IF playlist_size = 1 THEN "STOPPED" ELSE state
    /\ UNCHANGED <<current_position, repeat_mode, shown>>

\* remove_song with an index in the playlist.  The position stays, also when
\* another song moves to current_track.
RemoveSong(index) ==
    /\ LockedCommand
    /\ playlist' = RemoveAt(playlist, index + 1)
    /\ current_track' =
          CASE playlist_size = 1 -> 0
            [] playlist_size > 1 /\ current_track >= playlist_size - 1 -> playlist_size - 2
            [] OTHER -> current_track
    /\ state' = IF playlist_size = 1 THEN "STOPPED" ELSE state
    /\ UNCHANGED <<current_position, repeat_mode, shown>>

\* add: the entry is written before playlist_size counts it.  No lock.
AddSong(duration) ==
    /\ Command /\ playlist_size < MAX_SONGS
    /\ playlist' = Append(playlist, duration)
    /\ UNCHANGED <<current_track, current_position, state, repeat_mode, shown>>

\* (repeat_mode + 1) % 3, without the lock.
Repeat ==
    /\ Command
    /\ repeat_mode' = CASE repeat_mode = "off" -> "all"
                        [] repeat_mode = "all" -> "one"
                        [] repeat_mode = "one" -> "off"
    /\ UNCHANGED <<playlist, current_track, current_position, state, shown>>

SetVolume(arg) ==
    /\ Command /\ arg \in 0 .. 100
    /\ volume' = arg
    /\ UNCHANGED <<playing, shuffle_mode>>

Shuffle ==
    /\ Command
    /\ shuffle_mode' = ~shuffle_mode
    /\ UNCHANGED <<playing, volume>>

\* list, help, status, an empty line, and every command with an argument that
\* is refused or an empty or a full playlist.
Nothing == Command /\ UNCHANGED <<playing, shown>>

\* exit, or the end of the input at the prompt.
Exit ==
    /\ main = "prompt" /\ main' = "join"
    /\ thread_running' = FALSE
    /\ UNCHANGED <<playing, shown, worker>>

\* The end of the input where add asks for the duration: the loop that skips
\* the rest of the line finds no end of line.
EndOfInputInAdd ==
    /\ main = "prompt" /\ main' = "spins"
    /\ UNCHANGED <<playing, shown, thread_running, worker>>

Joined ==
    /\ main = "join" /\ worker = "done"
    /\ main' = "halted"
    /\ UNCHANGED <<playing, shown, thread_running, worker>>

Ended == main \in {"halted", "trapped"} /\ UNCHANGED vars

-----------------------------------------------------------------------------
WorkerStep == Test \/ Round \/ NextTrack \/ AtEnd \/ StopAtEnd \/ Wake
ProgramStep == Status \/ Joined

UserStep ==
    \/ Play \/ Pause \/ Stop \/ Next1 \/ Prev \/ Jump
    \/ \E index \in 0 .. playlist_size - 1 : RemoveSong(index)
    \/ \E duration \in Duration : AddSong(duration)
    \/ Repeat \/ Shuffle \/ \E arg \in Volume : SetVolume(arg)
    \/ Nothing \/ Exit \/ EndOfInputInAdd

Next == WorkerStep \/ ProgramStep \/ UserStep \/ Ended

\* Both threads are scheduled and sleeps end; the lock is held by the playback
\* thread for a bounded time.  The user owes nothing.
Spec ==
    /\ Init /\ [][Next]_vars
    /\ WF_vars(WorkerStep) /\ WF_vars(ProgramStep)

-----------------------------------------------------------------------------
\* Whoever takes player_mutex finds current_track on a song, or 0 and the
\* player stopped if there is none: whatever add, remove and repeat did to the
\* playlist between the reads of a round.
TrackOnSong ==
    /\ TypeOK
    /\ worker \notin {"at_end", "stop"} =>
          /\ current_track < playlist_size \/ (current_track = 0 /\ playlist_size = 0)
          /\ playlist_size = 0 => state = "STOPPED"

PositionInSong ==
    worker \notin Holding =>
        \/ current_position = 0
        \/ playlist_size > 0 /\ current_position < duration_sec(current_track)

\* The progress bar stays within 100 % unless a song is removed: remove_song
\* keeps the position when another, shorter song moves to current_track, and
\* for the song added next when it empties the playlist.
OnlyRemovalOverruns ==
    [][PositionInSong /\ Len(playlist') >= playlist_size => PositionInSong']_vars

\* With repeat off a player left alone comes to its end, whatever was done to
\* the playlist before.
PlaybackEnds ==
    (<>[](main = "prompt" /\ repeat_mode = "off")) => <>[](state # "PLAYING")

=============================================================================
