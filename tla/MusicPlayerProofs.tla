------------------------- MODULE MusicPlayerProofs -------------------------
(***************************************************************************)
(* Proofs about MusicPlayer, for every playlist, limit, duration the user  *)
(* may give and interleaving of the two threads.                           *)
(***************************************************************************)
EXTENDS MusicPlayer, TLAPS

-----------------------------------------------------------------------------
LEMMA RemovedSong ==
    ASSUME NEW s \in Seq(Int), NEW index \in 0 .. Len(s) - 1
    PROVE  RemoveAt(s, index + 1) \in Seq(Int) /\ Len(RemoveAt(s, index + 1)) = Len(s) - 1
<1>1. Len(s) \in Nat
  OBVIOUS
<1>2. SubSeq(s, 1, index) \in Seq(Int) /\ Len(SubSeq(s, 1, index)) = index
  BY <1>1
<1>3. /\ SubSeq(s, index + 2, Len(s)) \in Seq(Int)
      /\ Len(SubSeq(s, index + 2, Len(s))) = Len(s) - (index + 1)
  BY <1>1
<1>4. (index + 1) - 1 = index /\ (index + 1) + 1 = index + 2
  BY <1>1
<1>5. RemoveAt(s, index + 1)
         = SubSeq(s, 1, (index + 1) - 1) \o SubSeq(s, (index + 1) + 1, Len(s))
  BY DEF RemoveAt
<1>6. RemoveAt(s, index + 1) = SubSeq(s, 1, index) \o SubSeq(s, index + 2, Len(s))
  BY <1>4, <1>5
<1>7. \A a, b \in Seq(Int) : a \o b \in Seq(Int) /\ Len(a \o b) = Len(a) + Len(b)
  OBVIOUS
<1>8. index + (Len(s) - (index + 1)) = Len(s) - 1
  BY <1>1
<1> QED BY <1>2, <1>3, <1>6, <1>7, <1>8

LEMMA AddedSong ==
    ASSUME NEW s \in Seq(Int), NEW duration \in Int
    PROVE  /\ Append(s, duration) \in Seq(Int)
           /\ Len(Append(s, duration)) = Len(s) + 1
           /\ \A i \in 1 .. Len(s) : Append(s, duration)[i] = s[i]
OBVIOUS

LEMMA Remainder ==
    ASSUME NEW a \in Nat, NEW n \in Nat \ {0}
    PROVE  a % n \in 0 .. n - 1
OBVIOUS

-----------------------------------------------------------------------------
\* Inside the round, after the end of a song: there is a song, nobody but the
\* thread moves the track, and the position has been reset.
EndOfSong == worker \in Holding => playlist_size > 0 /\ current_position = 0

IInv == TrackOnSong /\ EndOfSong

LEMMA SizeType ==
    ASSUME TypeOK
    PROVE  playlist_size \in Nat
BY DEF TypeOK, playlist_size

LEMMA InitInvariant == Init => IInv
<1> SUFFICES ASSUME Init PROVE IInv
  OBVIOUS
<1>1. playlist \in Seq(Int) /\ playlist_size <= MAX_SONGS
  BY PlayerAssumption DEF Init, playlist_size
<1>2. current_track = 0 /\ current_position = 0 /\ state = "STOPPED"
  BY DEF Init
<1>3. /\ repeat_mode \in RepeatModes /\ volume \in 0 .. 100
      /\ shuffle_mode \in BOOLEAN /\ thread_running \in BOOLEAN
  <2>1. repeat_mode = "off" /\ volume = 70 /\ shuffle_mode = FALSE /\ thread_running = TRUE
    BY DEF Init
  <2>2. volume \in 0 .. 100
    BY <2>1
  <2> QED BY <2>1, <2>2 DEF RepeatModes
<1>4. worker = "test" /\ main = "status"
  BY DEF Init
<1>5. worker \notin Holding
  BY <1>4 DEF Holding
<1>6. TypeOK
  BY <1>1, <1>2, <1>3, <1>4 DEF TypeOK
<1>7. playlist_size \in Nat
  BY <1>6, SizeType
<1>8. current_track < playlist_size \/ (current_track = 0 /\ playlist_size = 0)
  BY <1>2, <1>7
<1> QED BY <1>2, <1>5, <1>6, <1>8 DEF IInv, TrackOnSong, EndOfSong

-----------------------------------------------------------------------------
LEMMA WorkerKeeps ==
    ASSUME IInv, WorkerStep
    PROVE  IInv'
<1>0. TypeOK /\ playlist_size \in Nat
  BY SizeType DEF IInv, TrackOnSong
<1>1. CASE Test \/ Wake
  <2>1. /\ UNCHANGED <<playing, shown, thread_running, main>>
        /\ worker \in {"test", "sleep"} /\ worker' \in {"round", "done", "test"}
    BY <1>1 DEF Test, Wake, Goto
  <2>2. playlist_size' = playlist_size
    BY <2>1 DEF playing, playlist_size
  <2>3. TypeOK'
    BY <1>0, <2>1, <2>2 DEF playing, shown, TypeOK, Holding
  <2> QED BY <2>1, <2>2, <2>3 DEF playing, IInv, TrackOnSong, EndOfSong, Holding
<1>2. CASE Round
  <2>1. UNCHANGED <<playlist, current_track, state, repeat_mode, shown, thread_running, main>>
    BY <1>2 DEF Round, Goto
  <2>2. current_position' \in Nat
    BY <1>0, <1>2 DEF Round, TypeOK
  <2>3. worker' \in {"next", "sleep"}
    BY <1>2 DEF Round, Goto
  <2>4. worker' = "next" => playlist_size > 0 /\ current_position' = 0
    BY <1>2 DEF Round, Goto
  <2>5. playlist_size' = playlist_size /\ worker = "round"
    BY <1>2, <2>1 DEF Round, playlist_size
  <2>6. TypeOK'
    BY <1>0, <2>1, <2>2, <2>3, <2>5 DEF TypeOK, shown, Holding
  <2> QED
    BY <2>1, <2>3, <2>4, <2>5, <2>6 DEF IInv, TrackOnSong, EndOfSong, Holding
<1>3. CASE NextTrack
  <2>1. /\ UNCHANGED <<playlist, current_position, state, repeat_mode, shown, thread_running, main>>
        /\ current_track' = current_track + 1 /\ worker = "next"
    BY <1>3 DEF NextTrack, Goto
  <2>2. worker' = IF current_track' >= playlist_size THEN "at_end" ELSE "sleep"
    BY <1>3 DEF NextTrack, Goto
  <2>3. playlist_size' = playlist_size /\ playlist_size > 0 /\ current_position = 0
    BY <2>1 DEF playlist_size, IInv, EndOfSong, Holding
  <2>4. current_track' \in Nat
    BY <1>0, <2>1 DEF TypeOK
  <2>5. TypeOK'
    BY <1>0, <2>1, <2>2, <2>3, <2>4 DEF TypeOK, shown, Holding
  <2> QED
    BY <1>0, <2>1, <2>2, <2>3, <2>4, <2>5 DEF IInv, TrackOnSong, EndOfSong, Holding
<1>4. CASE AtEnd
  <2>1. /\ UNCHANGED <<playlist, current_position, state, repeat_mode, shown, thread_running, main>>
        /\ current_track' \in {0, current_track}
        /\ worker' \in {"sleep", "stop"} /\ worker = "at_end"
        /\ worker' = "sleep" => current_track' = 0
    BY <1>4 DEF AtEnd, Goto
  <2>2. playlist_size' = playlist_size /\ playlist_size > 0 /\ current_position = 0
    BY <2>1 DEF playlist_size, IInv, EndOfSong, Holding
  <2>3. TypeOK'
    BY <1>0, <2>1, <2>2 DEF TypeOK, shown, Holding
  <2> QED
    BY <1>0, <2>1, <2>2, <2>3 DEF IInv, TrackOnSong, EndOfSong, Holding
<1>5. CASE StopAtEnd
  <2>1. /\ UNCHANGED <<playlist, repeat_mode, shown, thread_running, main>>
        /\ current_track' = playlist_size - 1 /\ current_position' = 0
        /\ state' = "STOPPED" /\ worker' = "sleep" /\ worker = "stop"
    BY <1>5 DEF StopAtEnd, Goto
  <2>2. playlist_size' = playlist_size /\ playlist_size > 0
    BY <2>1 DEF playlist_size, IInv, EndOfSong, Holding
  <2>3. TypeOK'
    BY <1>0, <2>1, <2>2 DEF TypeOK, shown, Holding
  <2> QED
    BY <1>0, <2>1, <2>2, <2>3 DEF IInv, TrackOnSong, EndOfSong, Holding
<1> QED BY <1>1, <1>2, <1>3, <1>4, <1>5 DEF WorkerStep

-----------------------------------------------------------------------------
\* A locked command finds the round over, so the track on a song.
LEMMA LockedKeeps ==
    ASSUME IInv, LockedCommand, UNCHANGED <<repeat_mode, shown>>,
           playlist' \in Seq(Int), playlist_size' <= playlist_size,
           current_track' \in Nat, current_position' \in Nat,
           state' \in {"STOPPED", "PLAYING", "PAUSED"},
           current_track' < playlist_size' \/ (current_track' = 0 /\ playlist_size' = 0),
           playlist_size' = 0 => state' = "STOPPED"
    PROVE  IInv'
<1>1. TypeOK /\ worker' = worker /\ worker \notin Holding
      /\ main' = "status" /\ thread_running' = thread_running
  BY DEF IInv, TrackOnSong, LockedCommand, Command
<1>2. playlist_size \in Nat /\ playlist_size' \in Nat /\ MAX_SONGS \in Nat
  BY <1>1, SizeType, PlayerAssumption DEF playlist_size
<1>3. playlist_size' <= MAX_SONGS
  BY <1>1, <1>2 DEF TypeOK
<1>4. TypeOK'
  BY <1>1, <1>3 DEF TypeOK, shown
<1> QED BY <1>1, <1>4 DEF IInv, TrackOnSong, EndOfSong

LEMMA GoToKeeps ==
    ASSUME IInv, NEW track \in 0 .. playlist_size - 1, GoTo(track)
    PROVE  IInv'
<1>1. playlist_size \in Nat
  BY SizeType DEF IInv, TrackOnSong
<1>2. /\ LockedCommand /\ UNCHANGED <<repeat_mode, shown>>
      /\ playlist' = playlist /\ state' = state
      /\ current_track' = track /\ current_position' = 0
  BY DEF GoTo
<1>3. playlist_size' = playlist_size /\ playlist_size > 0
  BY <1>1, <1>2 DEF playlist_size
<1>4. playlist \in Seq(Int) /\ state \in {"STOPPED", "PLAYING", "PAUSED"}
  BY DEF IInv, TrackOnSong, TypeOK
<1> QED BY <1>1, <1>2, <1>3, <1>4, LockedKeeps

LEMMA RemoveKeeps ==
    ASSUME IInv, NEW index \in 0 .. playlist_size - 1, RemoveSong(index)
    PROVE  IInv'
<1>1. TypeOK /\ playlist_size \in Nat /\ playlist_size > 0
  BY SizeType DEF IInv, TrackOnSong
<1>2. playlist' \in Seq(Int) /\ playlist_size' = playlist_size - 1
  BY <1>1, RemovedSong DEF RemoveSong, playlist_size, TypeOK
<1>3. /\ LockedCommand /\ UNCHANGED <<current_position, repeat_mode, shown>>
      /\ worker \notin Holding
  BY DEF RemoveSong, LockedCommand
<1>4. current_track < playlist_size /\ current_track \in Nat
  BY <1>1, <1>3 DEF IInv, TrackOnSong, Holding, TypeOK
<1>5. CASE playlist_size = 1
  <2>1. current_track' = 0 /\ state' = "STOPPED"
    BY <1>5 DEF RemoveSong
  <2> QED BY <1>1, <1>2, <1>3, <1>5, <2>1, LockedKeeps DEF TypeOK
<1>6. CASE playlist_size # 1
  <2>1. state' = state
    BY <1>6 DEF RemoveSong
  <2>2. current_track' = IF current_track >= playlist_size - 1 THEN playlist_size - 2
                                                              ELSE current_track
    BY <1>1, <1>4, <1>6 DEF RemoveSong
  <2>3. current_track' \in Nat /\ current_track' < playlist_size'
    BY <1>1, <1>2, <1>4, <1>6, <2>2
  <2>4. playlist_size' <= playlist_size /\ playlist_size' # 0
    BY <1>1, <1>2, <1>6
  <2> QED BY <1>1, <1>2, <1>3, <2>1, <2>3, <2>4, LockedKeeps DEF TypeOK
<1> QED BY <1>5, <1>6

\* add takes no lock: it may come between any two reads of a round.
LEMMA AddKeeps ==
    ASSUME IInv, NEW duration \in Duration, AddSong(duration)
    PROVE  IInv'
<1>1. TypeOK /\ playlist_size \in Nat /\ duration \in Int
  BY SizeType, PlayerAssumption DEF IInv, TrackOnSong
<1>2. playlist' \in Seq(Int) /\ playlist_size' = playlist_size + 1
  BY <1>1, AddedSong DEF AddSong, playlist_size, TypeOK
<1>3. /\ UNCHANGED <<current_track, current_position, state, repeat_mode, shown>>
      /\ UNCHANGED <<thread_running, worker>> /\ main' = "status"
      /\ playlist_size < MAX_SONGS
  BY DEF AddSong, Command
<1>4. playlist_size' <= MAX_SONGS /\ current_track \in Nat
  BY <1>1, <1>2, <1>3, PlayerAssumption DEF TypeOK
<1>5. TypeOK'
  BY <1>1, <1>2, <1>3, <1>4 DEF TypeOK, shown
<1>6. worker \notin {"at_end", "stop"} => current_track' < playlist_size'
  BY <1>1, <1>2, <1>3, <1>4 DEF IInv, TrackOnSong
<1>7. playlist_size' > 0
  BY <1>1, <1>2
<1> QED BY <1>3, <1>5, <1>6, <1>7 DEF IInv, TrackOnSong, EndOfSong

\* What touches neither the playlist nor the track.
LEMMA OtherKeeps ==
    ASSUME IInv,
           UNCHANGED <<playlist, current_track, current_position, state>>,
           repeat_mode' \in RepeatModes, volume' \in 0 .. 100, shuffle_mode' \in BOOLEAN,
           thread_running' \in BOOLEAN,
           main' \in {"status", "prompt", "join", "spins", "halted", "trapped"},
           \/ worker' = worker
           \/ worker \notin Holding /\ worker' \in {"done", "killed"}
    PROVE  IInv'
<1>1. playlist_size' = playlist_size
  BY DEF playlist_size
<1>2. worker' \in {"test", "round", "sleep", "done", "killed"} \union Holding
  BY DEF IInv, TrackOnSong, TypeOK
<1>3. TypeOK'
  BY <1>1, <1>2 DEF IInv, TrackOnSong, TypeOK
<1>4. CASE worker' = worker
  BY <1>1, <1>3, <1>4 DEF IInv, TrackOnSong, EndOfSong
<1>5. CASE worker \notin Holding /\ worker' \in {"done", "killed"}
  <2>1. worker' \notin Holding
    BY <1>5 DEF Holding
  <2>2. worker \notin {"at_end", "stop"}
    BY <1>5 DEF Holding
  <2> QED BY <1>1, <1>3, <2>1, <2>2 DEF IInv, TrackOnSong, EndOfSong
<1> QED BY <1>4, <1>5

LEMMA Cyclic ==
    ASSUME IInv, playlist_size > 0
    PROVE  /\ (current_track + 1) % playlist_size \in 0 .. playlist_size - 1
           /\ (worker \notin Holding =>
                 (current_track - 1 + playlist_size) % playlist_size \in 0 .. playlist_size - 1)
<1>1. current_track \in Nat /\ playlist_size \in Nat \ {0}
  BY SizeType DEF IInv, TrackOnSong, TypeOK
<1>2. current_track + 1 \in Nat /\ current_track - 1 + playlist_size \in Nat
  BY <1>1
<1> QED BY <1>1, <1>2, Remainder

LEMMA UserKeeps ==
    ASSUME IInv, UserStep
    PROVE  IInv'
<1>0. TypeOK /\ playlist_size \in Nat
  BY SizeType DEF IInv, TrackOnSong
<1>1. CASE Play \/ Pause \/ Stop
  <2>0. state \in {"STOPPED", "PLAYING", "PAUSED"}
    BY <1>0 DEF TypeOK
  <2>1. /\ LockedCommand /\ UNCHANGED <<playlist, current_track, repeat_mode, shown>>
        /\ current_position' \in {0, current_position}
        /\ state' \in {"STOPPED", "PLAYING", "PAUSED"}
        /\ (playlist_size = 0 => state' = "STOPPED" \/ state' = state \/ state = "PLAYING")
    <3>1. CASE Play
      BY <1>0, <2>0, <3>1 DEF Play
    <3>2. CASE Pause
      BY <2>0, <3>2 DEF Pause
    <3>3. CASE Stop
      BY <3>3 DEF Stop
    <3> QED BY <1>1, <3>1, <3>2, <3>3
  <2>2. playlist_size' = playlist_size
    BY <2>1 DEF playlist_size
  <2>3. worker \notin {"at_end", "stop"}
    BY <2>1 DEF LockedCommand, Holding
  <2>4. /\ current_track < playlist_size \/ (current_track = 0 /\ playlist_size = 0)
        /\ playlist_size = 0 => state = "STOPPED"
    BY <2>3 DEF IInv, TrackOnSong
  <2> QED BY <1>0, <2>1, <2>2, <2>4, LockedKeeps DEF TypeOK
<1>2. CASE Next1
  BY <1>0, <1>2, Cyclic, GoToKeeps DEF Next1
<1>3. CASE Prev
  <2>1. worker \notin Holding /\ playlist_size > 0
    BY <1>3 DEF Prev, GoTo, LockedCommand
  <2> QED BY <1>3, <2>1, Cyclic, GoToKeeps DEF Prev
<1>4. CASE Jump
  <2>1. PICK arg \in 1 .. playlist_size : GoTo(arg - 1)
    BY <1>4 DEF Jump
  <2>2. arg - 1 \in 0 .. playlist_size - 1
    BY <1>0, <2>1
  <2> QED BY <2>1, <2>2, GoToKeeps
<1>5. CASE \E index \in 0 .. playlist_size - 1 : RemoveSong(index)
  BY <1>5, RemoveKeeps
<1>6. CASE \E duration \in Duration : AddSong(duration)
  BY <1>6, AddKeeps
<1>7. CASE Repeat
  <2>1. /\ UNCHANGED <<playlist, current_track, current_position, state, shown>>
        /\ UNCHANGED <<thread_running, worker>> /\ main' = "status"
    BY <1>7 DEF Repeat, Command
  <2>2. repeat_mode' \in RepeatModes
    BY <1>0, <1>7 DEF Repeat, RepeatModes, TypeOK
  <2> QED BY <1>0, <2>1, <2>2, OtherKeeps DEF TypeOK, shown
<1>8. CASE Shuffle \/ Nothing \/ \E arg \in Volume : SetVolume(arg)
  <2>1. UNCHANGED playing /\ UNCHANGED <<thread_running, worker>> /\ main' = "status"
    BY <1>8 DEF Shuffle, Nothing, SetVolume, Command
  <2>2. volume' \in 0 .. 100 /\ shuffle_mode' \in BOOLEAN
    BY <1>0, <1>8 DEF Shuffle, Nothing, SetVolume, TypeOK, shown
  <2> QED BY <1>0, <2>1, <2>2, OtherKeeps DEF TypeOK, playing
<1>9. CASE Exit \/ EndOfInputInAdd
  <2>1. UNCHANGED <<playing, shown, worker>> /\ main' \in {"join", "spins"}
    BY <1>9 DEF Exit, EndOfInputInAdd
  <2>2. thread_running' \in BOOLEAN
    BY <1>0, <1>9 DEF Exit, EndOfInputInAdd, TypeOK
  <2> QED BY <1>0, <2>1, <2>2, OtherKeeps DEF TypeOK, playing, shown
<1> QED BY <1>1, <1>2, <1>3, <1>4, <1>5, <1>6, <1>7, <1>8, <1>9 DEF UserStep

LEMMA ProgramKeeps ==
    ASSUME IInv, ProgramStep
    PROVE  IInv'
<1>1. /\ UNCHANGED <<playing, shown, thread_running>>
      /\ main' \in {"trapped", "prompt", "halted"}
      /\ \/ worker' = worker
         \/ worker \notin Holding /\ worker' \in {"done", "killed"}
  BY DEF ProgramStep, Status, Joined
<1>2. TypeOK
  BY DEF IInv, TrackOnSong
<1> QED BY <1>1, <1>2, OtherKeeps DEF TypeOK, playing, shown

LEMMA NextKeeps ==
    ASSUME IInv, [Next]_vars
    PROVE  IInv'
<1>1. UNCHANGED vars => IInv'
  BY DEF vars, playing, shown, control, IInv, TrackOnSong, EndOfSong, TypeOK, playlist_size
<1>2. Ended => IInv'
  BY <1>1 DEF Ended
<1> QED BY <1>1, <1>2, WorkerKeeps, UserKeeps, ProgramKeeps DEF Next

-----------------------------------------------------------------------------
\* Every state of both threads keeps the types, the track and the song's end.
THEOREM Invariance == Spec => []IInv
<1>1. IInv /\ [Next]_vars => IInv'
  BY NextKeeps
<1> QED BY InitInvariant, <1>1, PTL DEF Spec

\* Whoever takes player_mutex finds the track on a song, or an empty playlist
\* and the player stopped.
THEOREM TrackSafe == Spec => []TrackOnSong
<1>1. IInv => TrackOnSong
  BY DEF IInv
<1> QED BY Invariance, <1>1, PTL

-----------------------------------------------------------------------------
\* A step that leaves the songs, the track and the position, and is not the
\* end of a round.
LEMMA SameSong ==
    ASSUME PositionInSong, UNCHANGED <<playlist, current_track, current_position>>,
           worker \in Holding => worker' \in Holding
    PROVE  PositionInSong'
BY DEF PositionInSong, playlist_size, duration_sec

LEMMA RoundKeepsPosition ==
    ASSUME IInv, PositionInSong, WorkerStep
    PROVE  PositionInSong'
<1>1. CASE Test \/ Wake
  BY <1>1, SameSong DEF Test, Wake, Goto, playing, Holding
<1>2. CASE Round
  <2>1. playlist' = playlist /\ current_track' = current_track /\ worker = "round"
    BY <1>2 DEF Round
  <2>2. CASE state = "PLAYING" /\ playlist_size > 0
    <3>1. \/ current_position' = 0
          \/ ~SongEnds /\ current_position' = current_position + 1
      BY <1>2, <2>2 DEF Round
    <3>2. CASE ~SongEnds /\ current_position' = current_position + 1
      <4>1. current_track \in Nat /\ current_position \in Nat /\ current_track < playlist_size
            /\ playlist \in Seq(Int) /\ playlist_size \in Nat
        BY <2>1, <2>2, SizeType DEF IInv, TrackOnSong, TypeOK, Holding
      <4>2. current_track + 1 \in 1 .. Len(playlist)
        BY <4>1 DEF playlist_size
      <4>3. duration_sec(current_track) \in Int
        BY <4>1, <4>2 DEF duration_sec
      <4>4. current_position' < duration_sec(current_track)
        BY <3>2, <4>1, <4>3 DEF SongEnds
      <4> QED BY <2>1, <2>2, <4>4 DEF PositionInSong, playlist_size, duration_sec
    <3> QED BY <3>1, <3>2 DEF PositionInSong
  <2>3. CASE ~(state = "PLAYING" /\ playlist_size > 0)
    <3>1. current_position' = current_position
      BY <1>2, <2>3 DEF Round
    <3> QED BY <2>1, <3>1, SameSong DEF Holding
  <2> QED BY <2>2, <2>3
<1>3. CASE NextTrack \/ AtEnd \/ StopAtEnd
  <2>1. worker \in Holding /\ current_position' \in {0, current_position}
    BY <1>3 DEF NextTrack, AtEnd, StopAtEnd, Holding
  <2>2. current_position' = 0
    BY <2>1 DEF IInv, EndOfSong
  <2> QED BY <2>2 DEF PositionInSong
<1> QED BY <1>1, <1>2, <1>3 DEF WorkerStep

LEMMA UserKeepsPosition ==
    ASSUME IInv, PositionInSong, UserStep, Len(playlist') >= playlist_size
    PROVE  PositionInSong'
<1>0. TypeOK /\ playlist_size \in Nat
  BY SizeType DEF IInv, TrackOnSong
<1>1. CASE Stop \/ Next1 \/ Prev \/ Jump
  <2>1. current_position' = 0
    BY <1>1 DEF Stop, Next1, Prev, Jump, GoTo
  <2> QED BY <2>1 DEF PositionInSong
<1>2. CASE \E index \in 0 .. playlist_size - 1 : RemoveSong(index)
  <2>1. PICK index \in 0 .. playlist_size - 1 : RemoveSong(index)
    BY <1>2
  <2>2. Len(playlist') = playlist_size - 1
    BY <1>0, <2>1, RemovedSong DEF RemoveSong, playlist_size, TypeOK
  <2> QED BY <1>0, <2>2
<1>3. CASE \E duration \in Duration : AddSong(duration)
  <2>1. PICK duration \in Duration : AddSong(duration)
    BY <1>3
  <2>2. /\ playlist' = Append(playlist, duration) /\ playlist \in Seq(Int) /\ duration \in Int
        /\ UNCHANGED <<current_track, current_position, worker>>
    BY <1>0, <2>1, PlayerAssumption DEF AddSong, Command, TypeOK
  <2>3. SUFFICES ASSUME worker \notin Holding, current_position # 0
                 PROVE  PositionInSong'
    BY <2>2 DEF PositionInSong
  <2>4. /\ playlist_size > 0 /\ current_position < duration_sec(current_track)
        /\ current_track \in Nat /\ current_track < playlist_size
    BY <1>0, <2>3 DEF PositionInSong, IInv, TrackOnSong, TypeOK, Holding
  <2>5. current_track + 1 \in 1 .. Len(playlist)
    BY <1>0, <2>4 DEF playlist_size
  <2>6. duration_sec(current_track)' = duration_sec(current_track)
    BY <2>2, <2>5, AddedSong DEF duration_sec
  <2>7. playlist_size' > 0
    BY <1>0, <2>2, AddedSong DEF playlist_size
  <2> QED BY <2>2, <2>4, <2>6, <2>7 DEF PositionInSong
<1>4. CASE \/ Play \/ Pause \/ Repeat \/ Shuffle \/ Nothing \/ Exit \/ EndOfInputInAdd
           \/ \E arg \in Volume : SetVolume(arg)
  <2>1. UNCHANGED <<playlist, current_track, current_position, worker>>
    BY <1>4 DEF Play, Pause, Repeat, Shuffle, Nothing, Exit, EndOfInputInAdd, SetVolume,
                LockedCommand, Command, playing
  <2> QED BY <2>1, SameSong
<1> QED BY <1>1, <1>2, <1>3, <1>4 DEF UserStep

\* No step but the removal of a song takes the position out of the song: the
\* progress bar overruns for no other reason.
THEOREM OnlyRemoval == Spec => OnlyRemovalOverruns
<1>1. ASSUME IInv, [Next]_vars
      PROVE  PositionInSong /\ Len(playlist') >= playlist_size => PositionInSong'
  <2>1. UNCHANGED vars \/ Ended \/ ProgramStep
           => UNCHANGED <<playlist, current_track, current_position>>
              /\ (worker \in Holding => worker' \in Holding)
    BY DEF vars, playing, control, Ended, ProgramStep, Status, Joined
  <2> QED BY <1>1, <2>1, SameSong, RoundKeepsPosition, UserKeepsPosition DEF Next
<1>2. IInv /\ [Next]_vars
         => [PositionInSong /\ Len(playlist') >= playlist_size => PositionInSong']_vars
  BY <1>1
<1> QED BY Invariance, <1>2, PTL DEF Spec, OnlyRemovalOverruns
=============================================================================
