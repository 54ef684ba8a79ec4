------------------------------ MODULE Notepad ------------------------------
(***************************************************************************)
(* apps/notepad.c: the document in memory, the file it is saved to, the    *)
(* command loop in the main thread and the auto-save thread.  Both save    *)
(* through save_to_file, which holds text_mutex from the fopen that        *)
(* empties the file to the fclose that fills it.  The program can be       *)
(* killed at any point (the launcher's window is closed, Ctrl-C) and       *)
(* started again; the file is what survives, as far as it was written, and *)
(* load_from_file reads it back line by line.                              *)
(***************************************************************************)
EXTENDS Integers, Sequences

CONSTANTS
    Text,            \* what a line of the file can be
    Blank,           \* the empty one
    Line,            \* lines the user types
    Long,            \* texts that fill the buffer, MAX_LINE_LEN - 1 characters
    Cut,             \* text -> what is left of it when a write stops inside its
                     \* line, all of it without the newline included
    MAX_LINES,
    MaxMishaps       \* bound: how often something fails or the program is killed

ASSUME NotepadAssumption ==
    /\ Blank \in Text /\ Line \subseteq Text \ {Blank}
    /\ Long \subseteq Text \ {Blank}
    /\ Cut \in [Text -> SUBSET (Text \ {Blank})]
    /\ MAX_LINES \in Nat \ {0} /\ MaxMishaps \in Nat

VARIABLES
    lines, modified, running,
    file,            \* the lines SAVE_FILE holds, <<>> also when there is none
    torn,            \* the last of them has no newline
    reading,         \* how many of them load_from_file has read
    text_mutex,      \* inside save_to_file: "main" or "auto"; else "free"
    auto,            \* next step of auto_save_thread
    loop,            \* next step of main
    parted,          \* the document went one way and the file another and the flag
                     \* says nothing: a write nobody checked, a load that lost or
                     \* added a line
    unsaved,         \* history: the loop was left without a save, or its save failed
    mishaps

document == <<lines, modified, running>>
store == <<file, torn, reading, parted>>
notepad_vars == <<document, store, text_mutex, auto, loop, unsaved, mishaps>>

Documents == UNION {[1 .. n -> Text] : n \in 0 .. MAX_LINES}

Loading == loop \in {"load", "newline"}
Loaded == ~Loading /\ loop # "killed"

NotepadTypeOK ==
    /\ lines \in Documents /\ file \in Documents
    /\ torn \in BOOLEAN /\ reading \in 0 .. MAX_LINES
    /\ modified \in BOOLEAN /\ running \in BOOLEAN
    /\ parted \in BOOLEAN /\ unsaved \in BOOLEAN
    /\ text_mutex \in {"free", "main", "auto"}
    /\ auto \in {"sleep", "check", "decide", "save", "test", "done", "killed"}
    /\ loop \in {"load", "newline", "prompt", "save", "exit", "exit_save", "join",
                 "closed", "killed"}
    /\ mishaps \in 0 .. MaxMishaps

NotepadInit ==
    /\ lines = <<>> /\ file = <<>> /\ modified = FALSE /\ running = TRUE
    /\ torn = FALSE /\ reading = 0 /\ parted = FALSE
    /\ text_mutex = "free" /\ auto = "done" /\ loop = "load"
    /\ unsaved = FALSE /\ mishaps = 0

\* Something fails.
Mishap == mishaps < MaxMishaps /\ mishaps' = mishaps + 1

-----------------------------------------------------------------------------
(* save_to_file, called by either thread at its label "save" *)

Saving(who) ==
    IF who = "auto" THEN auto = "save" ELSE loop \in {"save", "exit_save"}

\* save_to_file returns to its caller, which does not learn how it went.
Return(who) ==
    IF who = "auto" THEN auto' = "test" /\ UNCHANGED loop
    ELSE /\ loop' = IF loop = "save" THEN "prompt" ELSE "join"
         /\ UNCHANGED auto

\* fopen with "w" empties the file.
Open(who) ==
    /\ Saving(who) /\ text_mutex = "free"
    /\ text_mutex' = who
    /\ file' = <<>> /\ torn' = FALSE
    /\ UNCHANGED <<document, reading, parted, auto, loop, unsaved, mishaps>>

\* Mutant: the flag is cleared although the file did not open.
OpenFails_clears_flag(who) ==
    /\ Saving(who) /\ text_mutex = "free" /\ Mishap
    /\ modified' = FALSE
    /\ unsaved' = (unsaved \/ (who = "main" /\ loop = "exit_save"))
    /\ Return(who)
    /\ UNCHANGED <<lines, running, store, text_mutex>>

OpenFails(who) ==
    /\ Saving(who) /\ text_mutex = "free" /\ Mishap
    /\ unsaved' = (unsaved \/ (who = "main" /\ loop = "exit_save"))
    /\ Return(who)
    /\ UNCHANGED <<document, store, text_mutex>>

\* The lines reach the file.
Close(who) ==
    /\ text_mutex = who
    /\ file' = lines /\ parted' = FALSE
    /\ modified' = FALSE
    /\ text_mutex' = "free"
    /\ Return(who)
    /\ UNCHANGED <<lines, running, torn, reading, unsaved, mishaps>>

\* A write that stops early leaves some first lines and perhaps a beginning of
\* the next one.
WriteStops ==
    \E n \in 0 .. Len(lines) - 1 :
       \/ file' = SubSeq(lines, 1, n) /\ torn' = FALSE
       \/ /\ \E text \in Cut[lines[n + 1]] : file' = Append(SubSeq(lines, 1, n), text)
          /\ torn' = TRUE

\* Close on a full disk: nothing looks at what fprintf and fclose return.
CloseShort(who) ==
    /\ text_mutex = who /\ Mishap
    /\ WriteStops
    /\ parted' = TRUE
    /\ modified' = FALSE
    /\ text_mutex' = "free"
    /\ Return(who)
    /\ UNCHANGED <<lines, running, reading, unsaved>>

-----------------------------------------------------------------------------
(* auto_save_thread *)

AutoGo(label) ==
    auto' = label /\ UNCHANGED <<document, store, text_mutex, loop, unsaved, mishaps>>

\* sleep returns, then "if (!running) break".
Wake == auto = "sleep" /\ AutoGo(IF running THEN "check" ELSE "done")

\* needs_save, read under the mutex and kept by the label.
Check == auto = "check" /\ text_mutex = "free" /\ AutoGo(IF modified THEN "decide" ELSE "test")

\* Mutant: the auto-save waits for a second line.
Decide_late == auto = "decide" /\ AutoGo(IF Len(lines) > 1 THEN "save" ELSE "test")

\* line_count > 0, read without the mutex.
Decide == auto = "decide" /\ AutoGo(IF Len(lines) > 0 THEN "save" ELSE "test")

\* while (running)
Test == auto = "test" /\ AutoGo(IF running THEN "sleep" ELSE "done")

-----------------------------------------------------------------------------
(* load_from_file: fgets takes a line with its newline, but a line that fills *)
(* the buffer without it                                                     *)

\* The line read next is followed by its newline, which is read as a line.
Split == file[reading + 1] \in Long /\ ~(torn /\ reading + 1 = Len(file))

\* The line is appended; where malloc fails it is skipped.
LoadLine ==
    /\ loop = "load" /\ reading < Len(file) /\ Len(lines) < MAX_LINES
    /\ reading' = reading + 1
    /\ loop' = IF Split THEN "newline" ELSE "load"
    /\ \/ lines' = Append(lines, file[reading + 1]) /\ UNCHANGED <<parted, mishaps>>
       \/ Mishap /\ parted' = TRUE /\ UNCHANGED lines
    /\ UNCHANGED <<modified, running, file, torn, text_mutex, auto, unsaved>>

\* The newline of a long line makes an empty one.
LoadNewline ==
    /\ loop = "newline" /\ Len(lines) < MAX_LINES
    /\ loop' = "load"
    /\ \/ lines' = Append(lines, Blank) /\ parted' = TRUE /\ UNCHANGED mishaps
       \/ Mishap /\ UNCHANGED <<lines, parted>>
    /\ UNCHANGED <<modified, running, file, torn, reading, text_mutex, auto, unsaved>>

\* The end of the file or a full document; the thread starts.  If that fails
\* main returns 1, which ends the program as Killed does.
LoadEnd ==
    /\ Loading
    /\ Len(lines) = MAX_LINES \/ (loop = "load" /\ reading = Len(file))
    /\ auto' = "sleep" /\ loop' = "prompt" /\ reading' = 0
    /\ UNCHANGED <<document, file, torn, parted, text_mutex, unsaved, mishaps>>

-----------------------------------------------------------------------------
(* main *)

MainGo(label) ==
    loop' = label /\ UNCHANGED <<document, store, text_mutex, auto, unsaved, mishaps>>

Edited(text) ==
    /\ loop = "prompt" /\ text_mutex = "free"
    /\ lines' = text /\ modified' = TRUE
    /\ UNCHANGED <<running, store, text_mutex, auto, loop, unsaved, mishaps>>

\* Any other line of input is appended; a full document, or a malloc that
\* fails, leaves everything as it is.
AddLine == Len(lines) < MAX_LINES /\ \E line \in Line : Edited(Append(lines, line))

Clear == Edited(<<>>)

Save == loop = "prompt" /\ MainGo("save")

ExitSelected == loop = "prompt" /\ MainGo("exit")

\* "if (modified)", without the mutex: the auto-save may be under way.
ExitReadsFlag == loop = "exit" /\ MainGo(IF modified THEN "exit_save" ELSE "join")

\* fgets meets the end of the input: the loop is left without a save.
InputEnds ==
    /\ loop = "prompt" /\ loop' = "join"
    /\ running' = FALSE
    /\ unsaved' = TRUE
    /\ UNCHANGED <<lines, modified, store, text_mutex, auto, mishaps>>

ClearRunning ==
    /\ loop = "join" /\ running
    /\ running' = FALSE
    /\ UNCHANGED <<lines, modified, store, text_mutex, auto, loop, unsaved, mishaps>>

\* Mutant: main does not wait for the thread.
AutoJoined_detached == loop = "join" /\ ~running /\ MainGo("closed")

AutoJoined == loop = "join" /\ ~running /\ auto = "done" /\ MainGo("closed")

-----------------------------------------------------------------------------
(* Outside the program *)

\* The process ends where it is; inside save_to_file any part of the document
\* may have reached the file.
Killed ==
    /\ loop \notin {"closed", "killed"} /\ Mishap
    /\ loop' = "killed" /\ auto' = "killed" /\ text_mutex' = "free"
    /\ IF text_mutex = "free" THEN UNCHANGED <<file, torn, parted>>
       ELSE /\ WriteStops \/ (file' = lines /\ torn' = FALSE)
            /\ parted' = TRUE
    /\ UNCHANGED <<document, reading, unsaved>>

\* A new process opens the file.  One that is there but does not open is taken
\* for one that is not: the user gets an empty document.
Start ==
    /\ loop \in {"closed", "killed"}
    /\ lines' = <<>> /\ modified' = FALSE /\ running' = TRUE
    /\ reading' = 0 /\ unsaved' = FALSE
    /\ \/ loop' = "load" /\ parted' = FALSE /\ UNCHANGED <<auto, mishaps>>
       \/ file # <<>> /\ Mishap /\ loop' = "prompt" /\ auto' = "sleep" /\ parted' = TRUE
    /\ UNCHANGED <<file, torn, text_mutex>>

-----------------------------------------------------------------------------
SaveStep(who) == Open(who) \/ OpenFails(who) \/ Close(who) \/ CloseShort(who)
AutoStep == Wake \/ Check \/ Decide \/ Test \/ SaveStep("auto")
LoadStep == LoadLine \/ LoadNewline \/ LoadEnd
MainStep == LoadStep \/ SaveStep("main") \/ ExitReadsFlag \/ ClearRunning \/ AutoJoined
UserStep == AddLine \/ Clear \/ Save \/ ExitSelected \/ InputEnds \/ Killed \/ Start

NotepadNext == AutoStep \/ MainStep \/ UserStep

\* Both threads are scheduled, sleeps end.  text_mutex is contended between two
\* threads of which one sleeps for seconds, so the other gets it.
NotepadSpec ==
    /\ NotepadInit /\ [][NotepadNext]_notepad_vars
    /\ WF_notepad_vars(AutoStep) /\ WF_notepad_vars(MainStep)

-----------------------------------------------------------------------------
\* Once it is loaded, a document that is not marked as modified is line for line
\* what the file holds, however the file came to be: no edit, clear, failing or
\* concurrent save makes the flag lie, and loading brings back what was saved.
\* What can part the two without a mark is named: a write that nobody checks, a
\* file that does not open, a malloc that fails, a line that fills the buffer.
CleanMeansSaved ==
    /\ NotepadTypeOK
    /\ ~modified /\ ~parted /\ Loaded /\ text_mutex = "free" => file = lines

\* The exit command leaves the file with the document, although it reads the
\* flag while the auto-save thread may be saving, unless the save failed or the
\* two were parted unnoticed.
ExitKeepsWork ==
    loop = "closed" /\ ~unsaved /\ ~parted => file = lines

\* A document left alone reaches the file by itself, as long as it has a line
\* (the auto-save does not save an empty one); what the user changed does so
\* even when document and file had parted before.
EditsReachFile ==
    (<>[](loop = "prompt" /\ lines # <<>>)) => <>[](file = lines \/ (parted /\ ~modified))

=============================================================================
