------------------------------ MODULE FileOps ------------------------------
(***************************************************************************)
(* apps/file_ops.c: copy, move and delete, one chunk of a file at a time,  *)
(* and the thread that shows the progress of current_op until it is        *)
(* complete.  A file is the sequence of its chunks; Absent is no file.     *)
(***************************************************************************)
EXTENDS Integers, Sequences

CONSTANTS
    Path,
    Chunk,
    MaxChunks,       \* bound on the size of a file
    MaxFaults,       \* bound on the faults of the file system
    Absent

ASSUME FileOpsAssumption ==
    /\ Path # {} /\ MaxChunks \in Nat /\ MaxFaults \in Nat
    /\ Absent \notin UNION {[1 .. n -> Chunk] : n \in 0 .. MaxChunks}

VARIABLES
    files,
    total_size, bytes_copied, complete,      \* current_op
    progress,        \* the progress thread
    main,            \* next step of main
    op,              \* what main was asked: copy, move or delete, and of what
    original,        \* history: the source when the operation began
    overlooked,      \* history: a fault nobody looked at hit this operation
    outcome,         \* what the operation returned
    faults

current_op == <<total_size, bytes_copied, complete>>
history == <<original, overlooked>>
vars == <<files, current_op, progress, main, op, history, outcome, faults>>

Contents == UNION {[1 .. n -> Chunk] : n \in 0 .. MaxChunks}
Kinds == {"copy", "move", "delete"}
Exists(path) == files[path] # Absent

\* get_file_size: -1 if the file cannot be examined.
get_file_size(path) == IF Exists(path) THEN Len(files[path]) ELSE -1

TypeOK ==
    /\ files \in [Path -> Contents \union {Absent}]
    /\ total_size \in -1 .. MaxChunks /\ bytes_copied \in 0 .. MaxChunks
    /\ complete \in BOOLEAN /\ overlooked \in BOOLEAN
    /\ progress \in {"none", "looking", "done"}
    /\ main \in {"menu", "open", "truncate", "init", "loop", "mark", "join",
                 "remove", "spins", "halted"}
    /\ op \in [kind : Kinds, source : Path, dest : Path]
    /\ original \in Contents \union {Absent}
    /\ outcome \in {"none", "done", "failed"} /\ faults \in 0 .. MaxFaults

Init ==
    /\ files \in [Path -> Contents \union {Absent}]
    /\ total_size = 0 /\ bytes_copied = 0 /\ complete = FALSE
    /\ progress = "none"
    /\ main = "menu" /\ op = CHOOSE o \in [kind : {"delete"}, source : Path, dest : Path] : TRUE
    /\ original = Absent /\ overlooked = FALSE /\ outcome = "none" /\ faults = 0

-----------------------------------------------------------------------------
\* The file system fails; the program sees it in most places.
Fault == faults < MaxFaults /\ faults' = faults + 1
NoFault == UNCHANGED faults

Go(label) == main' = label /\ UNCHANGED op
Back(result) == main' = "menu" /\ outcome' = result /\ UNCHANGED op

\* Choices 1 to 3; a delete that is not confirmed does not begin.
Select(kind, source, dest) ==
    /\ main = "menu"
    /\ op' = [kind |-> kind, source |-> source, dest |-> dest]
    /\ main' = IF kind = "delete" THEN "remove" ELSE "open"
    /\ original' = files[source] /\ overlooked' = FALSE /\ outcome' = "none"
    /\ UNCHANGED <<files, current_op, progress, faults>>

\* copy_file: fopen of the source.
OpenSource ==
    /\ main = "open"
    /\ \/ Exists(op.source) /\ NoFault /\ Go("truncate") /\ UNCHANGED outcome
       \/ ~Exists(op.source) /\ NoFault /\ Back("failed")
       \/ Exists(op.source) /\ Fault /\ Back("failed")
    /\ UNCHANGED <<files, current_op, progress, history>>

\* fopen of the destination with "wb" empties it, also when it is the source.
OpenDest ==
    /\ main = "truncate"
    /\ \/ NoFault /\ files' = [files EXCEPT ![op.dest] = <<>>] /\ Go("init")
          /\ UNCHANGED outcome
       \/ Fault /\ Back("failed") /\ UNCHANGED files
    /\ UNCHANGED <<current_op, progress, history>>

\* Mutant: the count of the last operation is left standing.
InitOp_keeps_counter ==
    /\ main = "init"
    /\ total_size' = get_file_size(op.source) /\ complete' = FALSE
    /\ progress' = "looking"
    /\ Go("loop") /\ NoFault
    /\ UNCHANGED <<files, bytes_copied, history, outcome>>

\* current_op is set under op_mutex, then the thread starts.
InitOp ==
    /\ main = "init"
    /\ total_size' = get_file_size(op.source)
    /\ bytes_copied' = 0 /\ complete' = FALSE
    /\ progress' = "looking"
    /\ Go("loop") /\ NoFault
    /\ UNCHANGED <<files, history, outcome>>

\* How far the source was read: what was written is what was read.
ReadSoFar == Len(files[op.dest])

\* fread and fwrite of one chunk, then the counter under op_mutex.
CopyChunk ==
    /\ main = "loop" /\ ReadSoFar < Len(files[op.source])
    /\ files' = [files EXCEPT ![op.dest] = Append(@, files[op.source][ReadSoFar + 1])]
    /\ bytes_copied' = bytes_copied + 1
    /\ NoFault
    /\ UNCHANGED <<total_size, complete, progress, main, op, history, outcome>>

\* Mutant: a failing write leaves the loop as the end of the file does.
WriteFails_falls_through ==
    /\ main = "loop" /\ ReadSoFar < Len(files[op.source])
    /\ Fault
    /\ Go("mark")
    /\ UNCHANGED <<files, current_op, progress, history, outcome>>

\* fwrite fails: the thread is told without op_mutex, and joined.
WriteFails ==
    /\ main = "loop" /\ ReadSoFar < Len(files[op.source])
    /\ Fault
    /\ complete' = TRUE
    /\ outcome' = "failed" /\ Go("join")
    /\ UNCHANGED <<files, total_size, bytes_copied, progress, history>>

\* fread returns 0 at the end of the source, and also when it fails, which
\* nobody asks about; nor about the last bytes, which fclose writes.
EndOfSource ==
    /\ main = "loop"
    /\ \/ /\ ReadSoFar = Len(files[op.source]) /\ NoFault
          /\ UNCHANGED <<files, overlooked>>
       \/ /\ ReadSoFar < Len(files[op.source]) /\ Fault
          /\ overlooked' = TRUE /\ UNCHANGED files
       \/ /\ ReadSoFar = Len(files[op.source]) /\ ReadSoFar > 0 /\ Fault
          /\ files' = [files EXCEPT ![op.dest] = SubSeq(@, 1, Len(@) - 1)]
          /\ overlooked' = TRUE
    /\ Go("mark")
    /\ UNCHANGED <<current_op, progress, original, outcome>>

\* Mutant: the thread is not told.
MarkComplete_forgotten ==
    /\ main = "mark"
    /\ outcome' = "done" /\ Go("join") /\ NoFault
    /\ UNCHANGED <<files, current_op, progress, history>>

MarkComplete ==
    /\ main = "mark"
    /\ complete' = TRUE
    /\ outcome' = "done" /\ Go("join") /\ NoFault
    /\ UNCHANGED <<files, total_size, bytes_copied, progress, history>>

\* Mutant: a move goes on to its second half whatever the first returned.
Joined_ignores_result ==
    /\ main = "join" /\ progress = "done"
    /\ progress' = "none"
    /\ Go(IF op.kind = "move" THEN "remove" ELSE "menu")
    /\ NoFault
    /\ UNCHANGED <<files, current_op, history, outcome>>

\* pthread_join; copy_file returns, and move_file goes on if it succeeded.
Joined ==
    /\ main = "join" /\ progress = "done"
    /\ progress' = "none"
    /\ Go(IF op.kind = "move" /\ outcome = "done" THEN "remove" ELSE "menu")
    /\ NoFault
    /\ UNCHANGED <<files, current_op, history, outcome>>

\* The second half of move_file, or delete_file.
Remove ==
    /\ main = "remove"
    /\ \/ /\ Exists(op.source) /\ NoFault
          /\ files' = [files EXCEPT ![op.source] = Absent] /\ Back("done")
       \/ ~Exists(op.source) /\ NoFault /\ Back("failed") /\ UNCHANGED files
       \/ Exists(op.source) /\ Fault /\ Back("failed") /\ UNCHANGED files
    /\ UNCHANGED <<current_op, progress, history>>

Exit ==
    /\ main = "menu"
    /\ Go("halted") /\ NoFault
    /\ UNCHANGED <<files, current_op, progress, history, outcome>>

\* The end of the input at the menu: the loop that skips the rest of the line
\* finds no end of line.
EndOfInput ==
    /\ main = "menu"
    /\ Go("spins") /\ NoFault
    /\ UNCHANGED <<files, current_op, progress, history, outcome>>

\* One round of progress_thread, under op_mutex.
Look ==
    /\ progress = "looking"
    /\ progress' = IF complete THEN "done" ELSE "looking"
    /\ UNCHANGED <<files, current_op, main, op, history, outcome, faults>>

Stopped == main \in {"halted", "spins"} /\ UNCHANGED vars

-----------------------------------------------------------------------------
CopyStep ==
    \/ OpenSource \/ OpenDest \/ InitOp \/ CopyChunk \/ WriteFails
    \/ EndOfSource \/ MarkComplete \/ Joined

Next ==
    \/ \E kind \in Kinds : \E source, dest \in Path : Select(kind, source, dest)
    \/ CopyStep \/ Remove \/ Look
    \/ Exit \/ EndOfInput \/ Stopped

\* main and the progress thread are scheduled; the user owes nothing.
Spec ==
    /\ Init /\ [][Next]_vars
    /\ WF_vars(CopyStep \/ Remove) /\ WF_vars(Look)

-----------------------------------------------------------------------------
\* A copy or a move between two files that met no fault it could not see.
Accountable ==
    /\ op.kind \in {"copy", "move"} /\ original # Absent
    /\ op.source # op.dest /\ ~overlooked

\* At no step of a copy or a move, wherever it fails, is what the source held
\* gone: it is at the source until all of it is at the destination.
NothingLost ==
    Accountable => original \in {files[op.source], files[op.dest]}

\* What the menu reports is so: a copy or a move that succeeded has the
\* whole file at the destination, one that failed still has it at the source.
OutcomeTrue ==
    main = "menu" /\ Accountable =>
        /\ outcome = "done" =>
              /\ files[op.dest] = original
              /\ files[op.source] = IF op.kind = "copy" THEN original ELSE Absent
        /\ outcome = "failed" => files[op.source] = original

\* The bar shows this operation, never more than 100 % of it: no count of an
\* earlier one is seen between the start of the thread and its end.
ProgressBounded ==
    /\ TypeOK
    /\ progress = "looking" => bytes_copied <= total_size

\* Every operation comes back to the menu: the progress thread sees the end on
\* every path, also the one that tells it without the mutex, and is joined.
OperationReturns ==
    main \notin {"menu", "spins", "halted"} ~> main = "menu"

=============================================================================
