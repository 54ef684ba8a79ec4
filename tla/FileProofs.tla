----------------------------- MODULE FileProofs -----------------------------
(***************************************************************************)
(* Proofs about the applications that keep files.  FileOps, for every set  *)
(* of paths, every size of file and any number of faults; Notepad, for     *)
(* every set of texts, every limit on their number and any number of       *)
(* faults; Configuration, for every layout, every range and whatever the   *)
(* memory held that was never initialised.  The three share no variable    *)
(* and are proved one after the other.                                     *)
(***************************************************************************)
EXTENDS FileOps, Notepad, Configuration, TLAPS

-----------------------------------------------------------------------------
(* FileOps                                                                   *)

\* What copy_file has opened is there until it returns.
Present ==
    /\ main \in {"truncate", "init", "loop", "mark", "join"} => Exists(op.source)
    /\ main \in {"init", "loop", "mark", "join"} => Exists(op.dest)

\* The counter is the length of what was written.
Counted ==
    /\ bytes_copied <= total_size
    /\ main = "init" => files[op.dest] = <<>>
    /\ main = "loop" => /\ bytes_copied = Len(files[op.dest])
                        /\ total_size = Len(files[op.source])

\* The destination holds the first chunks of the source.
Prefix ==
    \A i \in 1 .. Len(files[op.dest]) :
        i <= Len(original) /\ files[op.dest][i] = original[i]

\* Where the source's content is at each step of the operation.
ContentKept ==
    Accountable =>
        /\ main \in {"open", "truncate", "init", "loop", "mark", "join", "remove"}
              => files[op.source] = original
        /\ main = "loop" => Prefix
        /\ main \in {"mark", "remove"} \/ (main = "join" /\ outcome = "done")
              => files[op.dest] = original
        /\ main \in {"menu", "halted", "spins"} =>
              /\ outcome \in {"done", "failed"}
              /\ outcome = "done" =>
                    /\ files[op.dest] = original
                    /\ files[op.source] = IF op.kind = "copy" THEN original ELSE Absent
              /\ outcome = "failed" => files[op.source] = original

FileOpsInv ==
    /\ TypeOK
    /\ main = "remove" => op.kind # "copy"
    /\ main = "join" => outcome \in {"done", "failed"}
    /\ Present /\ Counted /\ ContentKept

-----------------------------------------------------------------------------
\* Contents are the sequences of at most MaxChunks chunks, and Absent is none.
LEMMA ContentsAre ==
    /\ \A s \in Contents : s \in Seq(Chunk) /\ Len(s) \in 0 .. MaxChunks
    /\ \A s \in Seq(Chunk) : Len(s) <= MaxChunks => s \in Contents
    /\ Absent \notin Contents
<1>1. ASSUME NEW s \in Contents
      PROVE  s \in Seq(Chunk) /\ Len(s) \in 0 .. MaxChunks
  <2>1. PICK n \in 0 .. MaxChunks : s \in [1 .. n -> Chunk]
    BY DEF Contents
  <2>2. n \in Nat
    BY FileOpsAssumption
  <2> QED BY <2>1, <2>2
<1>2. ASSUME NEW s \in Seq(Chunk), Len(s) <= MaxChunks
      PROVE  s \in Contents
  <2>1. Len(s) \in 0 .. MaxChunks /\ s \in [1 .. Len(s) -> Chunk]
    BY <1>2, FileOpsAssumption
  <2> QED BY <2>1 DEF Contents
<1> QED BY <1>1, <1>2, FileOpsAssumption DEF Contents

LEMMA EmptyFile == <<>> \in Contents /\ <<>> # Absent /\ Len(<<>>) = 0
<1>1. <<>> \in Seq(Chunk) /\ Len(<<>>) = 0
  OBVIOUS
<1>2. Len(<<>>) <= MaxChunks
  BY <1>1, FileOpsAssumption
<1>3. <<>> \in Contents
  BY <1>1, <1>2, ContentsAre
<1>4. <<>> # Absent
  BY <1>3, ContentsAre
<1> QED BY <1>1, <1>3, <1>4

LEMMA ExistingFile ==
    ASSUME TypeOK, NEW path \in Path, Exists(path)
    PROVE  /\ files[path] \in Contents /\ files[path] \in Seq(Chunk)
           /\ Len(files[path]) \in 0 .. MaxChunks
BY ContentsAre DEF TypeOK, Exists

LEMMA Paths ==
    ASSUME TypeOK
    PROVE  op.source \in Path /\ op.dest \in Path /\ op.kind \in Kinds
BY DEF TypeOK

\* Two files of one length that agree on every chunk are equal.
LEMMA SameFile ==
    ASSUME NEW a \in Seq(Chunk), NEW b \in Seq(Chunk), Len(a) = Len(b),
           \A i \in 1 .. Len(a) : a[i] = b[i]
    PROVE  a = b
OBVIOUS

-----------------------------------------------------------------------------
LEMMA FileOpsInitInvariant == Init => FileOpsInv
<1> SUFFICES ASSUME Init PROVE FileOpsInv
  OBVIOUS
<1> DEFINE Deletes == [kind : {"delete"}, source : Path, dest : Path]
<1>1. op \in Deletes
  <2>1. PICK path \in Path : TRUE
    BY FileOpsAssumption
  <2>2. [kind |-> "delete", source |-> path, dest |-> path] \in Deletes
    BY <2>1
  <2>3. \E o \in Deletes : TRUE
    BY <2>2
  <2>4. op = CHOOSE o \in Deletes : TRUE
    BY DEF Init
  <2> QED BY <2>3, <2>4
<1>2. op \in [kind : Kinds, source : Path, dest : Path] /\ op.kind = "delete"
  BY <1>1 DEF Kinds
<1>3. /\ files \in [Path -> Contents \union {Absent}]
      /\ total_size = 0 /\ bytes_copied = 0 /\ complete = FALSE /\ progress = "none"
      /\ main = "menu" /\ original = Absent /\ overlooked = FALSE /\ outcome = "none"
      /\ faults = 0
  BY DEF Init
<1>4. /\ total_size \in -1 .. MaxChunks /\ bytes_copied \in 0 .. MaxChunks
      /\ faults \in 0 .. MaxFaults
  BY <1>3, FileOpsAssumption
<1>5. TypeOK
  BY <1>2, <1>3, <1>4 DEF TypeOK
<1>6. ~Accountable
  BY <1>3 DEF Accountable
<1>7. bytes_copied <= total_size
  BY <1>3
<1> QED BY <1>3, <1>5, <1>6, <1>7 DEF FileOpsInv, Present, Counted, ContentKept

-----------------------------------------------------------------------------
LEMMA SelectKeeps ==
    ASSUME FileOpsInv, NEW kind \in Kinds, NEW source \in Path, NEW dest \in Path,
           Select(kind, source, dest)
    PROVE  FileOpsInv'
<1>1. /\ op' = [kind |-> kind, source |-> source, dest |-> dest]
      /\ main' \in {"remove", "open"} /\ (main' = "remove" <=> kind = "delete")
      /\ original' = files[source] /\ overlooked' = FALSE /\ outcome' = "none"
      /\ UNCHANGED <<files, total_size, bytes_copied, complete, progress, faults>>
  BY DEF Select, current_op
<1>2. op' \in [kind : Kinds, source : Path, dest : Path] /\ op'.kind = kind
      /\ op'.source = source
  BY <1>1
<1>3. original' \in Contents \union {Absent}
  BY <1>1 DEF FileOpsInv, TypeOK
<1>4. TypeOK'
  BY <1>1, <1>2, <1>3 DEF FileOpsInv, TypeOK
<1>5. ContentKept'
  BY <1>1, <1>2 DEF ContentKept, Accountable
<1> QED BY <1>1, <1>2, <1>4, <1>5 DEF FileOpsInv, Present, Counted

LEMMA FaultType ==
    ASSUME TypeOK, Fault \/ NoFault
    PROVE  faults' \in 0 .. MaxFaults
BY FileOpsAssumption DEF TypeOK, Fault, NoFault

LEMMA OpenKeeps ==
    ASSUME FileOpsInv, OpenSource \/ OpenDest
    PROVE  FileOpsInv'
<1>0. TypeOK /\ op.source \in Path /\ op.dest \in Path /\ faults' \in 0 .. MaxFaults
  BY Paths, FaultType DEF FileOpsInv, OpenSource, OpenDest
<1>1. UNCHANGED <<total_size, bytes_copied, complete, progress, original, overlooked, op>>
  BY DEF OpenSource, OpenDest, Go, Back, current_op, history
<1>2. CASE OpenSource
  <2>1. /\ files' = files /\ main = "open"
        /\ \/ main' = "truncate" /\ outcome' = outcome /\ Exists(op.source)
           \/ main' = "menu" /\ outcome' = "failed"
    BY <1>2 DEF OpenSource, Go, Back
  <2>2. TypeOK'
    BY <1>0, <1>1, <2>1 DEF TypeOK
  <2>3. Present'
    BY <1>1, <2>1 DEF Present, Exists
  <2>4. Counted'
    BY <1>1, <2>1 DEF FileOpsInv, Counted
  <2>5. ContentKept'
    BY <1>1, <2>1 DEF FileOpsInv, ContentKept, Accountable
  <2> QED BY <2>1, <2>2, <2>3, <2>4, <2>5 DEF FileOpsInv
<1>3. CASE OpenDest
  <2>1. CASE main' = "menu"
    <3>1. files' = files /\ main = "truncate" /\ outcome' = "failed"
      BY <1>3, <2>1 DEF OpenDest, Go, Back
    <3>2. TypeOK'
      BY <1>0, <1>1, <2>1, <3>1 DEF TypeOK
    <3>3. ContentKept'
      BY <1>1, <2>1, <3>1 DEF FileOpsInv, ContentKept, Accountable
    <3> QED BY <1>1, <2>1, <3>1, <3>2, <3>3 DEF FileOpsInv, Present, Counted
  <2>2. CASE main' # "menu"
    <3>1. /\ files' = [files EXCEPT ![op.dest] = <<>>] /\ main = "truncate"
          /\ main' = "init" /\ outcome' = outcome
      BY <1>3, <2>2 DEF OpenDest, Go, Back
    <3>2. /\ files' \in [Path -> Contents \union {Absent}] /\ files'[op.dest] = <<>>
          /\ \A path \in Path : path # op.dest => files'[path] = files[path]
      BY <1>0, <3>1, EmptyFile DEF TypeOK
    <3>3. TypeOK'
      BY <1>0, <1>1, <3>1, <3>2 DEF TypeOK
    <3>4. Exists(op.source)
      BY <3>1 DEF FileOpsInv, Present
    <3>5. Present'
      BY <1>0, <1>1, <3>1, <3>2, <3>4, EmptyFile DEF Present, Exists
    <3>6. Counted'
      BY <1>1, <3>1, <3>2 DEF FileOpsInv, Counted
    <3>7. ContentKept'
      BY <1>0, <1>1, <3>1, <3>2 DEF FileOpsInv, ContentKept, Accountable
    <3> QED BY <3>1, <3>3, <3>5, <3>6, <3>7 DEF FileOpsInv
  <2> QED BY <2>1, <2>2
<1> QED BY <1>2, <1>3

LEMMA InitOpKeeps ==
    ASSUME FileOpsInv, InitOp
    PROVE  FileOpsInv'
<1>1. /\ main = "init" /\ main' = "loop" /\ progress' = "looking" /\ complete' = FALSE
      /\ total_size' = get_file_size(op.source) /\ bytes_copied' = 0
      /\ UNCHANGED <<files, op, original, overlooked, outcome, faults>>
  BY DEF InitOp, Go, NoFault, history
<1>2. TypeOK /\ op.source \in Path /\ op.dest \in Path /\ Exists(op.source) /\ Exists(op.dest)
  BY <1>1, Paths DEF FileOpsInv, Present
<1>3. total_size' = Len(files[op.source]) /\ Len(files[op.source]) \in 0 .. MaxChunks
  BY <1>1, <1>2, ExistingFile DEF get_file_size
<1>4. total_size' \in -1 .. MaxChunks /\ bytes_copied' \in 0 .. MaxChunks
      /\ bytes_copied' <= total_size'
  BY <1>1, <1>3, FileOpsAssumption
<1>5. TypeOK'
  BY <1>1, <1>2, <1>4 DEF TypeOK
<1>6. files[op.dest] = <<>> /\ Len(files[op.dest]) = 0
  BY <1>1, EmptyFile DEF FileOpsInv, Counted
<1>7. Counted'
  BY <1>1, <1>3, <1>4, <1>6 DEF Counted
<1>8. Prefix'
  BY <1>1, <1>6 DEF Prefix
<1>9. ContentKept'
  BY <1>1, <1>8 DEF FileOpsInv, ContentKept, Accountable
<1> QED BY <1>1, <1>2, <1>5, <1>7, <1>9 DEF FileOpsInv, Present, Exists

LEMMA CopyKeeps ==
    ASSUME FileOpsInv, CopyChunk
    PROVE  FileOpsInv'
<1> DEFINE src == files[op.source]
           dst == files[op.dest]
<1>1. /\ main = "loop" /\ Len(dst) < Len(src)
      /\ files' = [files EXCEPT ![op.dest] = Append(dst, src[Len(dst) + 1])]
      /\ bytes_copied' = bytes_copied + 1
      /\ UNCHANGED <<total_size, complete, progress, main, op, original, overlooked, outcome, faults>>
  BY DEF CopyChunk, ReadSoFar, NoFault, history
<1>2. TypeOK /\ op.source \in Path /\ op.dest \in Path /\ Exists(op.source) /\ Exists(op.dest)
  BY <1>1, Paths DEF FileOpsInv, Present
<1>3. /\ src \in Seq(Chunk) /\ Len(src) \in 0 .. MaxChunks
      /\ dst \in Seq(Chunk) /\ Len(dst) \in 0 .. MaxChunks
  BY <1>2, ExistingFile
<1>4. op.source # op.dest
  BY <1>1, <1>3
<1> DEFINE longer == Append(dst, src[Len(dst) + 1])
<1>5. Len(dst) \in Nat /\ Len(src) \in Nat /\ Len(dst) + 1 \in 1 .. Len(src)
  BY <1>1, <1>3
<1>6. src[Len(dst) + 1] \in Chunk
  BY <1>3, <1>5
<1>7. /\ longer \in Seq(Chunk) /\ Len(longer) = Len(dst) + 1
      /\ \A i \in 1 .. Len(dst) : longer[i] = dst[i]
      /\ longer[Len(dst) + 1] = src[Len(dst) + 1]
  BY <1>3, <1>6
<1>8. Len(longer) <= MaxChunks
  BY <1>1, <1>3, <1>7, FileOpsAssumption
<1>9. longer \in Contents /\ longer # Absent
  BY <1>7, <1>8, ContentsAre
<1>10. /\ files' \in [Path -> Contents \union {Absent}] /\ files'[op.dest] = longer
       /\ files'[op.source] = src
  BY <1>1, <1>2, <1>4, <1>9 DEF TypeOK
<1>11. /\ bytes_copied' = Len(longer) /\ bytes_copied' <= total_size
       /\ total_size = Len(src) /\ bytes_copied' \in 0 .. MaxChunks
  BY <1>1, <1>3, <1>7, <1>8 DEF FileOpsInv, Counted
<1>12. TypeOK'
  BY <1>1, <1>2, <1>10, <1>11 DEF TypeOK
<1>13. Present'
  BY <1>1, <1>2, <1>9, <1>10 DEF Present, Exists
<1>14. Counted'
  BY <1>1, <1>10, <1>11 DEF Counted
<1>15. ASSUME Accountable
       PROVE  Prefix' /\ files'[op.source] = original
  <2>1. Prefix /\ src = original
    BY <1>1, <1>15 DEF FileOpsInv, ContentKept
  <2>2. ASSUME NEW i \in 1 .. Len(longer)
        PROVE  i <= Len(original) /\ longer[i] = original[i]
    <3>1. CASE i \in 1 .. Len(dst)
      BY <1>7, <2>1, <3>1 DEF Prefix
    <3>2. CASE i = Len(dst) + 1
      BY <1>5, <1>7, <2>1, <3>2
    <3> QED BY <1>5, <1>7, <3>1, <3>2
  <2> QED BY <1>1, <1>10, <2>1, <2>2 DEF Prefix
<1>16. ContentKept'
  BY <1>1, <1>15 DEF ContentKept, Accountable
<1> QED BY <1>1, <1>12, <1>13, <1>14, <1>16 DEF FileOpsInv

\* The files, the counters and the request stay.
LEMMA FilesStay ==
    ASSUME FileOpsInv, UNCHANGED <<files, total_size, bytes_copied, op, original>>,
           complete' \in BOOLEAN, progress' \in {"none", "looking", "done"},
           faults' \in 0 .. MaxFaults, outcome' \in {"done", "failed"},
           overlooked' = overlooked \/ overlooked' = TRUE,
           \/ main = "loop" /\ main' = "join" /\ outcome' = "failed"
           \/ main = "mark" /\ main' = "join"
           \/ main = "join" /\ main' = "menu" /\ outcome' = outcome
                 /\ (op.kind = "move" => outcome = "failed")
           \/ main = "join" /\ main' = "remove" /\ outcome = "done" /\ op.kind = "move"
           \/ main = "remove" /\ main' = "menu" /\ outcome' = "failed"
    PROVE  FileOpsInv'
<1>1. TypeOK'
  BY DEF FileOpsInv, TypeOK
<1>2. Present'
  BY DEF FileOpsInv, Present, Exists
<1>3. Counted'
  BY DEF FileOpsInv, Counted
<1>4. Accountable' => Accountable /\ ~overlooked'
  BY DEF Accountable, FileOpsInv, TypeOK
<1>5. Accountable => op.kind \in {"copy", "move"}
  BY DEF Accountable
<1>6. ContentKept'
  BY <1>4, <1>5 DEF FileOpsInv, ContentKept
<1> QED BY <1>1, <1>2, <1>3, <1>6 DEF FileOpsInv

\* The end of the source is where all of it was copied, or where a fault that
\* nobody looks at says so.
LEMMA EndKeeps ==
    ASSUME FileOpsInv, EndOfSource
    PROVE  FileOpsInv'
<1> DEFINE src == files[op.source]
           dst == files[op.dest]
<1>1. /\ main = "loop" /\ main' = "mark"
      /\ UNCHANGED <<total_size, bytes_copied, complete, progress, op, original, outcome>>
  BY DEF EndOfSource, Go, current_op
<1>2. TypeOK /\ op.source \in Path /\ op.dest \in Path /\ Exists(op.source) /\ Exists(op.dest)
      /\ faults' \in 0 .. MaxFaults
  BY <1>1, Paths, FaultType DEF FileOpsInv, Present, EndOfSource
<1>3. /\ src \in Seq(Chunk) /\ Len(src) \in 0 .. MaxChunks
      /\ dst \in Seq(Chunk) /\ Len(dst) \in 0 .. MaxChunks
  BY <1>2, ExistingFile
<1>4. Counted'
  BY <1>1 DEF FileOpsInv, Counted
<1>5. CASE files' = files
  <2>1. (overlooked' = overlooked /\ Len(dst) = Len(src)) \/ overlooked' = TRUE
    <3>1. CASE Len(dst) = Len(src) /\ UNCHANGED overlooked
      BY <3>1
    <3>2. CASE overlooked' = TRUE
      BY <3>2
    <3> QED BY <3>1, <3>2 DEF EndOfSource, ReadSoFar
  <2>2. TypeOK'
    BY <1>1, <1>2, <1>5, <2>1 DEF TypeOK
  <2>3. Present'
    BY <1>1, <1>2, <1>5 DEF Present, Exists
  <2>4. ASSUME Accountable, Len(dst) = Len(src)
        PROVE  dst = original /\ src = original
    <3>1. src = original /\ Prefix
      BY <1>1, <2>4 DEF FileOpsInv, ContentKept
    <3>2. \A i \in 1 .. Len(dst) : dst[i] = src[i]
      BY <3>1 DEF Prefix
    <3> QED BY <1>3, <2>4, <3>1, <3>2, SameFile
  <2>5. ContentKept'
    BY <1>1, <1>5, <2>1, <2>4 DEF ContentKept, Accountable
  <2> QED BY <1>1, <1>4, <2>2, <2>3, <2>5 DEF FileOpsInv
<1>6. CASE files' # files
  <2> DEFINE shorter == SubSeq(dst, 1, Len(dst) - 1)
  <2>1. /\ files' = [files EXCEPT ![op.dest] = shorter] /\ overlooked' = TRUE
        /\ Len(dst) > 0
    BY <1>6 DEF EndOfSource, ReadSoFar
  <2>2. shorter \in Seq(Chunk) /\ Len(shorter) = Len(dst) - 1
    BY <1>3, <2>1
  <2>3. Len(shorter) <= MaxChunks
    BY <1>3, <2>2, FileOpsAssumption
  <2>4. shorter \in Contents /\ shorter # Absent
    BY <2>2, <2>3, ContentsAre
  <2> HIDE DEF shorter
  <2>5. /\ files' \in [Path -> Contents \union {Absent}]
        /\ files'[op.dest] # Absent /\ files'[op.source] # Absent
    BY <1>2, <2>1, <2>4 DEF TypeOK, Exists
  <2>6. TypeOK'
    BY <1>1, <1>2, <2>1, <2>5 DEF TypeOK
  <2>7. Present'
    BY <1>1, <2>5 DEF Present, Exists
  <2>8. ContentKept'
    BY <2>1 DEF ContentKept, Accountable
  <2> QED BY <1>1, <1>4, <2>6, <2>7, <2>8 DEF FileOpsInv
<1> QED BY <1>5, <1>6

LEMMA CopyStepKeeps ==
    ASSUME FileOpsInv, CopyStep
    PROVE  FileOpsInv'
<1>1. TypeOK
  BY DEF FileOpsInv
<1>2. CASE WriteFails
  <2>1. faults' \in 0 .. MaxFaults
    BY <1>1, <1>2, FaultType DEF WriteFails
  <2>2. /\ main = "loop" /\ main' = "join" /\ complete' = TRUE /\ outcome' = "failed"
        /\ UNCHANGED <<files, total_size, bytes_copied, progress, op, original, overlooked>>
    BY <1>2 DEF WriteFails, Go, history
  <2> QED BY <1>1, <2>1, <2>2, FilesStay DEF TypeOK
<1>3. CASE MarkComplete
  <2>1. faults' \in 0 .. MaxFaults
    BY <1>1, <1>3, FaultType DEF MarkComplete
  <2>2. /\ main = "mark" /\ main' = "join" /\ complete' = TRUE /\ outcome' = "done"
        /\ UNCHANGED <<files, total_size, bytes_copied, progress, op, original, overlooked>>
    BY <1>3 DEF MarkComplete, Go, history
  <2> QED BY <1>1, <2>1, <2>2, FilesStay DEF TypeOK
<1>4. CASE Joined
  <2>1. faults' \in 0 .. MaxFaults
    BY <1>1, <1>4, FaultType DEF Joined
  <2>2. /\ main = "join" /\ progress' = "none"
        /\ main' = IF op.kind = "move" /\ outcome = "done" THEN "remove" ELSE "menu"
        /\ UNCHANGED <<files, total_size, bytes_copied, complete, op, original, overlooked, outcome>>
    BY <1>4 DEF Joined, Go, history, current_op
  <2>3. outcome \in {"done", "failed"}
    BY <2>2 DEF FileOpsInv
  <2>4. CASE op.kind = "move" /\ outcome = "done"
    BY <1>1, <2>1, <2>2, <2>3, <2>4, FilesStay DEF TypeOK
  <2>5. CASE ~(op.kind = "move" /\ outcome = "done")
    BY <1>1, <2>1, <2>2, <2>3, <2>5, FilesStay DEF TypeOK
  <2> QED BY <2>4, <2>5
<1> QED BY <1>2, <1>3, <1>4, OpenKeeps, InitOpKeeps, CopyKeeps, EndKeeps DEF CopyStep

LEMMA RemoveKeeps ==
    ASSUME FileOpsInv, Remove
    PROVE  FileOpsInv'
<1>1. /\ main = "remove" /\ main' = "menu" /\ faults' \in 0 .. MaxFaults
      /\ UNCHANGED <<total_size, bytes_copied, complete, progress, op, original, overlooked>>
  BY FaultType DEF FileOpsInv, Remove, Back, current_op, history
<1>2. TypeOK /\ op.source \in Path /\ op.dest \in Path
  BY Paths DEF FileOpsInv
<1>3. CASE outcome' = "failed"
  <2>1. files' = files
    BY <1>3 DEF Remove, Back
  <2> QED BY <1>1, <1>2, <1>3, <2>1, FilesStay DEF TypeOK
<1>4. CASE outcome' # "failed"
  <2>1. files' = [files EXCEPT ![op.source] = Absent] /\ outcome' = "done"
    BY <1>4 DEF Remove, Back
  <2>2. /\ files' \in [Path -> Contents \union {Absent}] /\ files'[op.source] = Absent
        /\ \A path \in Path : path # op.source => files'[path] = files[path]
    BY <1>2, <2>1 DEF TypeOK
  <2>3. TypeOK'
    BY <1>1, <1>2, <2>1, <2>2 DEF TypeOK
  <2>4. ContentKept'
    BY <1>1, <1>2, <2>1, <2>2 DEF FileOpsInv, ContentKept, Accountable
  <2> QED BY <1>1, <2>3, <2>4 DEF FileOpsInv, Present, Counted
<1> QED BY <1>3, <1>4

\* Leaving the menu, the progress thread's round and stuttering.
LEMMA OtherKeeps ==
    ASSUME FileOpsInv, Exit \/ EndOfInput \/ Look \/ UNCHANGED vars
    PROVE  FileOpsInv'
<1>1. /\ UNCHANGED <<files, total_size, bytes_copied, complete, op, original, overlooked>>
      /\ UNCHANGED <<outcome, faults>>
      /\ main' = main \/ (main = "menu" /\ main' \in {"halted", "spins"})
      /\ progress' = progress \/ progress' \in {"looking", "done"}
  BY DEF Exit, EndOfInput, Look, vars, current_op, history, Go, NoFault
<1>2. TypeOK'
  BY <1>1 DEF FileOpsInv, TypeOK
<1>3. Present' /\ Counted'
  BY <1>1 DEF FileOpsInv, Present, Counted, Exists
<1>4. ContentKept'
  BY <1>1 DEF FileOpsInv, ContentKept, Accountable, Prefix
<1> QED BY <1>1, <1>2, <1>3, <1>4 DEF FileOpsInv

LEMMA NextKeeps ==
    ASSUME FileOpsInv, [Next]_vars
    PROVE  FileOpsInv'
BY SelectKeeps, CopyStepKeeps, RemoveKeeps, OtherKeeps DEF Next, Stopped

-----------------------------------------------------------------------------
\* Every state of an operation and of its progress thread keeps the invariant.
THEOREM FileOpsInvariance == Spec => []FileOpsInv
<1>1. FileOpsInv /\ [Next]_vars => FileOpsInv'
  BY NextKeeps
<1> QED BY FileOpsInitInvariant, <1>1, PTL DEF Spec

\* What a copy or a move began with is at one of its two places at every step,
\* and so wherever a fault stops it.
THEOREM ContentSafe == Spec => []NothingLost
<1>1. FileOpsInv => NothingLost
  <2> SUFFICES ASSUME FileOpsInv, Accountable PROVE original \in {files[op.source], files[op.dest]}
    BY DEF NothingLost
  <2>1. main \in {"menu", "open", "truncate", "init", "loop", "mark", "join",
                  "remove", "spins", "halted"}
    BY DEF FileOpsInv, TypeOK
  <2> QED BY <2>1 DEF FileOpsInv, ContentKept
<1> QED BY FileOpsInvariance, <1>1, PTL

\* What the menu reports of a copy or a move is so.
THEOREM ReportTrue == Spec => []OutcomeTrue
<1>1. FileOpsInv => OutcomeTrue
  BY DEF FileOpsInv, ContentKept, OutcomeTrue
<1> QED BY FileOpsInvariance, <1>1, PTL

\* The progress bar never shows more than the whole file.
THEOREM BarBounded == Spec => []ProgressBounded
<1>1. FileOpsInv => ProgressBounded
  BY DEF FileOpsInv, Counted, ProgressBounded
<1> QED BY FileOpsInvariance, <1>1, PTL

-----------------------------------------------------------------------------
(* Notepad                                                                   *)

(* Documents are the sequences of at most MAX_LINES lines. *)

LEMMA DocumentsAreShort ==
    Documents = {s \in Seq(Text) : Len(s) <= MAX_LINES}
<1>1. ASSUME NEW s \in Documents PROVE s \in Seq(Text) /\ Len(s) <= MAX_LINES
  <2>1. PICK n \in 0 .. MAX_LINES : s \in [1 .. n -> Text]
    BY DEF Documents
  <2> QED BY <2>1, NotepadAssumption
<1>2. ASSUME NEW s \in Seq(Text), Len(s) <= MAX_LINES PROVE s \in Documents
  <2>1. Len(s) \in 0 .. MAX_LINES /\ s \in [1 .. Len(s) -> Text]
    BY <1>2, NotepadAssumption
  <2> QED BY <2>1 DEF Documents
<1> QED BY <1>1, <1>2

LEMMA EmptyIsDocument == <<>> \in Documents
BY DocumentsAreShort, NotepadAssumption

LEMMA AddedIsDocument ==
    ASSUME NEW s \in Documents, Len(s) < MAX_LINES, NEW line \in Text
    PROVE  Append(s, line) \in Documents
BY DocumentsAreShort, NotepadAssumption

LEMMA PrefixIsDocument ==
    ASSUME NEW s \in Documents, NEW n \in 0 .. Len(s)
    PROVE  SubSeq(s, 1, n) \in Documents
<1>1. s \in Seq(Text) /\ Len(s) <= MAX_LINES /\ Len(s) \in Nat
  BY DocumentsAreShort
<1>2. \A i \in 1 .. n : s[i] \in Text
  BY <1>1
<1>3. SubSeq(s, 1, n) \in Seq(Text) /\ Len(SubSeq(s, 1, n)) = n
  BY <1>1, <1>2
<1> QED BY <1>1, <1>3, DocumentsAreShort, NotepadAssumption

\* A write that stops early leaves a document.
LEMMA StoppedIsDocument ==
    ASSUME lines \in Documents, WriteStops
    PROVE  file' \in Documents /\ torn' \in BOOLEAN
<1>1. PICK n \in 0 .. Len(lines) - 1 :
        \/ file' = SubSeq(lines, 1, n) /\ torn' = FALSE
        \/ /\ \E text \in Cut[lines[n + 1]] : file' = Append(SubSeq(lines, 1, n), text)
           /\ torn' = TRUE
  BY DEF WriteStops
<1>2. lines \in Seq(Text) /\ Len(lines) \in Nat /\ Len(lines) <= MAX_LINES
  BY DocumentsAreShort
<1>3. n \in 0 .. Len(lines) /\ n + 1 \in 1 .. Len(lines) /\ n < MAX_LINES
  BY <1>2, NotepadAssumption
<1>4. SubSeq(lines, 1, n) \in Documents /\ Len(SubSeq(lines, 1, n)) = n
  BY <1>2, <1>3, PrefixIsDocument
<1>5. lines[n + 1] \in Text
  BY <1>2, <1>3
<1>6. Cut[lines[n + 1]] \subseteq Text
  BY <1>5, NotepadAssumption
<1>7. \A text \in Cut[lines[n + 1]] : Append(SubSeq(lines, 1, n), text) \in Documents
  BY <1>3, <1>4, <1>6, AddedIsDocument
<1> QED BY <1>1, <1>4, <1>7

\* The next line of a document comes after those before it.
LEMMA NextLine ==
    ASSUME NEW s \in Documents, NEW n \in 0 .. Len(s) - 1
    PROVE  /\ s[n + 1] \in Text
           /\ Append(SubSeq(s, 1, n), s[n + 1]) = SubSeq(s, 1, n + 1)
<1>1. s \in Seq(Text) /\ Len(s) \in Nat
  BY DocumentsAreShort
<1>2. n \in Nat /\ n + 1 \in 1 .. Len(s)
  BY <1>1
<1>3. \A i \in 1 .. n + 1 : s[i] \in Text
  BY <1>1, <1>2
<1>4. /\ SubSeq(s, 1, n) \in Seq(Text) /\ Len(SubSeq(s, 1, n)) = n
      /\ \A i \in 1 .. n : SubSeq(s, 1, n)[i] = s[i]
  BY <1>2, <1>3
<1>5. /\ SubSeq(s, 1, n + 1) \in Seq(Text) /\ Len(SubSeq(s, 1, n + 1)) = n + 1
      /\ \A i \in 1 .. n + 1 : SubSeq(s, 1, n + 1)[i] = s[i]
  BY <1>2, <1>3
<1> DEFINE t == Append(SubSeq(s, 1, n), s[n + 1])
<1>6. /\ t \in Seq(Text) /\ Len(t) = n + 1
      /\ \A i \in 1 .. n : t[i] = s[i]
      /\ t[n + 1] = s[n + 1]
  BY <1>2, <1>3, <1>4
<1>7. \A i \in 1 .. n + 1 : t[i] = s[i]
  BY <1>2, <1>6
<1> HIDE DEF t
<1>8. t = SubSeq(s, 1, n + 1)
  BY <1>2, <1>5, <1>6, <1>7
<1> QED BY <1>2, <1>3, <1>8 DEF t

-----------------------------------------------------------------------------
\* Whoever holds text_mutex is inside save_to_file.
HolderSaves == text_mutex # "free" => Saving(text_mutex)

\* The loop is left with an unmodified document, or the history says otherwise:
\* the auto-save may still be writing it.
LeftClean == loop \in {"join", "closed"} /\ ~unsaved => ~modified

\* main returns after the thread, which starts after the load.
ThreadEnded ==
    /\ loop = "closed" => auto = "done"
    /\ loop = "killed" => auto = "killed"
    /\ Loading => auto \in {"done", "killed"}

\* What is loaded is what was read, until something comes between.
LoadedSoFar ==
    Loading => /\ reading <= Len(file)
               /\ ~parted => lines = SubSeq(file, 1, reading)

NotepadInv ==
    /\ NotepadTypeOK /\ HolderSaves /\ CleanMeansSaved /\ LeftClean /\ ThreadEnded
    /\ LoadedSoFar

LEMMA NotepadInitInvariant == NotepadInit => NotepadInv
<1> SUFFICES ASSUME NotepadInit PROVE NotepadInv
  OBVIOUS
<1>1. /\ lines = <<>> /\ file = <<>> /\ reading = 0 /\ parted = FALSE
      /\ text_mutex = "free" /\ auto = "done" /\ loop = "load"
  BY DEF NotepadInit
<1>2. NotepadTypeOK
  <2>1. lines \in Documents /\ file \in Documents
    BY <1>1, EmptyIsDocument
  <2>2. mishaps \in 0 .. MaxMishaps /\ reading \in 0 .. MAX_LINES
    BY NotepadAssumption DEF NotepadInit
  <2> QED BY <1>1, <2>1, <2>2 DEF NotepadTypeOK, NotepadInit
<1>3. SubSeq(file, 1, 0) = <<>> /\ Len(file) = 0
  BY <1>1
<1> QED
  BY <1>1, <1>2, <1>3 DEF NotepadInv, HolderSaves, CleanMeansSaved, LeftClean, ThreadEnded,
                          LoadedSoFar, Loading, Loaded

LEMMA OpenStep ==
    ASSUME NotepadInv, NEW who \in {"main", "auto"}, Open(who)
    PROVE  NotepadInv'
BY EmptyIsDocument
   DEF NotepadInv, NotepadTypeOK, HolderSaves, CleanMeansSaved, LeftClean, ThreadEnded,
       LoadedSoFar, Loading, Loaded, Open, Saving, document

LEMMA OpenFailsStep ==
    ASSUME NotepadInv, NEW who \in {"main", "auto"}, OpenFails(who)
    PROVE  NotepadInv'
BY NotepadAssumption
   DEF NotepadInv, NotepadTypeOK, HolderSaves, CleanMeansSaved, LeftClean, ThreadEnded,
       LoadedSoFar, Loading, Loaded, OpenFails, Mishap, Saving, Return, document, store

LEMMA CloseStep ==
    ASSUME NotepadInv, NEW who \in {"main", "auto"}, Close(who)
    PROVE  NotepadInv'
BY DEF NotepadInv, NotepadTypeOK, HolderSaves, CleanMeansSaved, LeftClean, ThreadEnded,
       LoadedSoFar, Loading, Loaded, Close, Saving, Return

LEMMA CloseShortStep ==
    ASSUME NotepadInv, NEW who \in {"main", "auto"}, CloseShort(who)
    PROVE  NotepadInv'
<1>1. file' \in Documents /\ torn' \in BOOLEAN
  BY StoppedIsDocument DEF CloseShort, NotepadInv, NotepadTypeOK
<1>2. NotepadTypeOK'
  <2>1. mishaps' \in 0 .. MaxMishaps
    BY NotepadAssumption DEF NotepadInv, NotepadTypeOK, CloseShort, Mishap
  <2>2. /\ parted' = TRUE /\ modified' = FALSE /\ text_mutex' = "free"
        /\ UNCHANGED <<lines, running, reading, unsaved>>
    BY DEF CloseShort
  <2>3. /\ loop' \in {loop, "prompt", "join"} /\ auto' \in {auto, "test"}
    BY DEF CloseShort, Return
  <2> QED BY <1>1, <2>1, <2>2, <2>3 DEF NotepadInv, NotepadTypeOK
<1>3. /\ text_mutex' = "free" /\ parted' /\ modified' = FALSE
      /\ who = "main" => loop \in {"save", "exit_save"}
      /\ who = "auto" => auto = "save"
  BY DEF CloseShort, NotepadInv, HolderSaves, Saving
<1>4. ThreadEnded' /\ ~Loading'
  BY <1>3 DEF CloseShort, Return, NotepadInv, ThreadEnded, Loading
<1> QED
  BY <1>2, <1>3, <1>4 DEF NotepadInv, HolderSaves, CleanMeansSaved, LeftClean, LoadedSoFar

LEMMA KilledStep ==
    ASSUME NotepadInv, Killed
    PROVE  NotepadInv'
<1>1. file' \in Documents /\ torn' \in BOOLEAN /\ parted' \in BOOLEAN
  BY StoppedIsDocument DEF Killed, NotepadInv, NotepadTypeOK
<1>2. NotepadTypeOK'
  BY <1>1, NotepadAssumption DEF NotepadInv, NotepadTypeOK, Killed, Mishap, document
<1>3. text_mutex' = "free" /\ loop' = "killed" /\ auto' = "killed"
  BY DEF Killed
<1> QED
  BY <1>2, <1>3 DEF NotepadInv, HolderSaves, CleanMeansSaved, LeftClean, ThreadEnded, LoadedSoFar,
                    Loading, Loaded

LEMMA EditStep ==
    ASSUME NotepadInv, NEW text \in Documents, Edited(text)
    PROVE  NotepadInv'
BY DEF NotepadInv, NotepadTypeOK, HolderSaves, CleanMeansSaved, LeftClean, ThreadEnded,
       LoadedSoFar, Loading, Loaded, Edited, Saving, store

\* The steps that move one of the two threads and touch no document.
LEMMA QuietStep ==
    ASSUME NotepadInv,
           \/ Wake \/ Check \/ Decide \/ Test
           \/ Save \/ ExitSelected \/ ExitReadsFlag \/ InputEnds \/ ClearRunning \/ AutoJoined
    PROVE  NotepadInv'
<1>1. CASE Wake \/ Check \/ Decide \/ Test
  BY <1>1 DEF NotepadInv, NotepadTypeOK, HolderSaves, CleanMeansSaved, LeftClean, ThreadEnded,
       LoadedSoFar, Loading, Loaded, Wake, Check, Decide, Test, AutoGo, Saving, document, store
<1>2. CASE Save \/ ExitSelected \/ ExitReadsFlag \/ AutoJoined
  BY <1>2 DEF NotepadInv, NotepadTypeOK, HolderSaves, CleanMeansSaved, LeftClean, ThreadEnded,
       LoadedSoFar, Loading, Loaded, Save, ExitSelected, ExitReadsFlag, AutoJoined, MainGo, Saving, document, store
<1>3. CASE InputEnds \/ ClearRunning
  <2>1. NotepadTypeOK'
    BY <1>3 DEF NotepadInv, NotepadTypeOK, InputEnds, ClearRunning, store
  <2>2. /\ UNCHANGED <<lines, modified, file, parted, text_mutex, auto>>
        /\ loop' = "join" /\ loop \in {"prompt", "join"}
    BY <1>3 DEF InputEnds, ClearRunning, store
  <2>3. unsaved' \/ (loop = "join" /\ unsaved' = unsaved)
    BY <1>3 DEF InputEnds, ClearRunning
  <2>4. HolderSaves'
    BY <1>3, <2>2 DEF NotepadInv, HolderSaves, Saving, InputEnds, ClearRunning
  <2> QED
    BY <2>1, <2>2, <2>3, <2>4
       DEF NotepadInv, CleanMeansSaved, LeftClean, ThreadEnded, LoadedSoFar, Loading, Loaded
<1> QED BY <1>1, <1>2, <1>3

\* While nothing runs but the load, nobody saves.
LEMMA NobodySaves ==
    ASSUME NotepadInv, Loading \/ loop \in {"closed", "killed"}
    PROVE  text_mutex = "free"
BY DEF NotepadInv, NotepadTypeOK, HolderSaves, ThreadEnded, Saving, Loading

LEMMA StartStep ==
    ASSUME NotepadInv, Start
    PROVE  NotepadInv'
<1>1. NotepadTypeOK'
  <2>1. mishaps' \in 0 .. MaxMishaps /\ 0 \in 0 .. MAX_LINES
    BY NotepadAssumption DEF NotepadInv, NotepadTypeOK, Start, Mishap
  <2>2. /\ lines' = <<>> /\ modified' = FALSE /\ running' = TRUE /\ reading' = 0
        /\ unsaved' = FALSE /\ UNCHANGED <<file, torn, text_mutex>>
        /\ loop' \in {"load", "prompt"} /\ auto' \in {auto, "sleep"} /\ parted' \in BOOLEAN
    BY DEF Start
  <2> QED BY <2>1, <2>2, EmptyIsDocument DEF NotepadInv, NotepadTypeOK
<1>2. /\ lines' = <<>> /\ file' = file /\ reading' = 0 /\ text_mutex' = "free"
      /\ file \in Documents
  BY NobodySaves DEF Start, NotepadInv, NotepadTypeOK
<1>3. SubSeq(file, 1, 0) = <<>> /\ 0 <= Len(file)
  BY <1>2, DocumentsAreShort
<1>4. CASE loop' = "load"
  <2>1. auto' \in {"done", "killed"}
    BY <1>4 DEF Start, NotepadInv, ThreadEnded
  <2> QED
    BY <1>1, <1>2, <1>3, <1>4, <2>1
       DEF NotepadInv, HolderSaves, CleanMeansSaved, LeftClean, ThreadEnded, LoadedSoFar, Loading,
           Loaded
<1>5. CASE loop' = "prompt" /\ parted'
  BY <1>1, <1>2, <1>5
     DEF NotepadInv, HolderSaves, CleanMeansSaved, LeftClean, ThreadEnded, LoadedSoFar, Loading
<1> QED BY <1>4, <1>5 DEF Start

\* A line is loaded after those before it, or the load has lost it.
LEMMA LoadLineStep ==
    ASSUME NotepadInv, LoadLine
    PROVE  NotepadInv'
<1>1. /\ loop = "load" /\ reading < Len(file) /\ Len(lines) < MAX_LINES
      /\ reading' = reading + 1 /\ loop' \in {"load", "newline"} /\ text_mutex = "free"
      /\ UNCHANGED <<modified, running, file, torn, text_mutex, auto, unsaved>>
  BY NobodySaves DEF LoadLine, Loading
<1>2. /\ lines \in Documents /\ file \in Documents /\ reading \in Nat
      /\ Len(file) \in Nat /\ Len(file) <= MAX_LINES
  BY DocumentsAreShort DEF NotepadInv, NotepadTypeOK
<1>3. /\ file[reading + 1] \in Text
      /\ Append(SubSeq(file, 1, reading), file[reading + 1]) = SubSeq(file, 1, reading + 1)
  <2>1. reading \in 0 .. Len(file) - 1
    BY <1>1, <1>2
  <2> QED BY <1>2, <2>1, NextLine
<1>4. CASE lines' = Append(lines, file[reading + 1]) /\ UNCHANGED <<parted, mishaps>>
  <2>1. lines' \in Documents
    BY <1>1, <1>2, <1>3, <1>4, AddedIsDocument
  <2>2. ~parted' => lines' = SubSeq(file, 1, reading + 1)
    BY <1>1, <1>3, <1>4 DEF NotepadInv, LoadedSoFar, Loading
  <2>3. NotepadTypeOK'
    BY <1>1, <1>2, <1>4, <2>1, NotepadAssumption DEF NotepadInv, NotepadTypeOK
  <2> QED
    BY <1>1, <1>2, <2>2, <2>3
       DEF NotepadInv, HolderSaves, CleanMeansSaved, LeftClean, ThreadEnded, LoadedSoFar, Loading,
           Loaded
<1>5. CASE Mishap /\ parted' = TRUE /\ UNCHANGED lines
  <2>1. NotepadTypeOK'
    BY <1>1, <1>2, <1>5, NotepadAssumption DEF NotepadInv, NotepadTypeOK, Mishap
  <2> QED
    BY <1>1, <1>2, <1>5, <2>1
       DEF NotepadInv, HolderSaves, CleanMeansSaved, LeftClean, ThreadEnded, LoadedSoFar, Loading,
           Loaded
<1> QED BY <1>4, <1>5 DEF LoadLine

LEMMA LoadNewlineStep ==
    ASSUME NotepadInv, LoadNewline
    PROVE  NotepadInv'
<1>1. /\ loop = "newline" /\ loop' = "load" /\ text_mutex = "free"
      /\ UNCHANGED <<modified, running, file, torn, reading, text_mutex, auto, unsaved>>
  BY NobodySaves DEF LoadNewline, Loading
<1>2. lines' \in Documents
  BY AddedIsDocument, NotepadAssumption DEF LoadNewline, NotepadInv, NotepadTypeOK
<1>3. parted' = TRUE \/ UNCHANGED <<lines, parted>>
  BY DEF LoadNewline
<1>5. mishaps' \in 0 .. MaxMishaps
  BY NotepadAssumption DEF LoadNewline, Mishap, NotepadInv, NotepadTypeOK
<1>4. NotepadTypeOK'
  BY <1>1, <1>2, <1>3, <1>5 DEF NotepadInv, NotepadTypeOK
<1> QED
  BY <1>1, <1>3, <1>4
     DEF NotepadInv, HolderSaves, CleanMeansSaved, LeftClean, ThreadEnded, LoadedSoFar, Loading,
         Loaded

\* A file of which no line was lost is read to its end.
LEMMA LoadEndStep ==
    ASSUME NotepadInv, LoadEnd
    PROVE  NotepadInv'
<1>1. /\ Loading /\ text_mutex = "free" /\ loop' = "prompt" /\ auto' = "sleep" /\ reading' = 0
      /\ UNCHANGED <<lines, modified, running, file, torn, parted, text_mutex, unsaved, mishaps>>
  BY NobodySaves DEF LoadEnd, document
<1>2. NotepadTypeOK'
  BY <1>1, NotepadAssumption DEF NotepadInv, NotepadTypeOK
<1>3. ~parted => file = lines
  <2> SUFFICES ASSUME ~parted PROVE file = lines
    OBVIOUS
  <2>1. lines = SubSeq(file, 1, reading) /\ reading <= Len(file)
    BY <1>1 DEF NotepadInv, LoadedSoFar
  <2>2. /\ file \in Seq(Text) /\ Len(file) \in Nat /\ Len(file) <= MAX_LINES
        /\ reading \in Nat /\ file \in Documents /\ reading \in 0 .. Len(file)
    BY <2>1, DocumentsAreShort DEF NotepadInv, NotepadTypeOK
  <2>3. \A i \in 1 .. reading : file[i] \in Text
    BY <2>2
  <2>4. Len(lines) = reading
    BY <2>1, <2>2, <2>3
  <2>5. reading = Len(file)
    BY <2>2, <2>4, NotepadAssumption DEF LoadEnd
  <2>6. SubSeq(file, 1, Len(file)) = file
    BY <2>2
  <2> QED BY <2>1, <2>5, <2>6
<1> QED
  BY <1>1, <1>2, <1>3
     DEF NotepadInv, HolderSaves, CleanMeansSaved, LeftClean, ThreadEnded, LoadedSoFar, Loading,
         Loaded

\* The invariant holds whatever the user types and whatever goes wrong.
THEOREM NotepadInvariance == NotepadSpec => []NotepadInv
<1>1. NotepadInv /\ [NotepadNext]_notepad_vars => NotepadInv'
  <2> SUFFICES ASSUME NotepadInv, [NotepadNext]_notepad_vars PROVE NotepadInv'
    OBVIOUS
  <2>1. CASE UNCHANGED notepad_vars
    BY <2>1 DEF notepad_vars, document, store, NotepadInv, NotepadTypeOK, HolderSaves,
                CleanMeansSaved, LeftClean, ThreadEnded, LoadedSoFar, Loading, Loaded, Saving
  <2>2. CASE \E who \in {"main", "auto"} : SaveStep(who)
    BY <2>2, OpenStep, OpenFailsStep, CloseStep, CloseShortStep DEF SaveStep
  <2>3. CASE AddLine \/ Clear
    <3>1. lines \in Documents
      BY DEF NotepadInv, NotepadTypeOK
    <3>2. Line \subseteq Text
      BY NotepadAssumption
    <3> QED BY <2>3, <3>1, <3>2, EditStep, AddedIsDocument, EmptyIsDocument DEF AddLine, Clear
  <2> QED
    BY <2>1, <2>2, <2>3, QuietStep, KilledStep, StartStep, LoadLineStep, LoadNewlineStep,
       LoadEndStep
       DEF NotepadNext, AutoStep, MainStep, LoadStep, UserStep
<1> QED BY NotepadInitInvariant, <1>1, PTL DEF NotepadSpec

\* The modified flag lies only after what CleanMeansSaved names: for every file
\* that earlier runs and kills left, loaded line by line, edited and saved by two
\* threads (notepad.c, load_from_file, save_to_file, auto_save_thread, main).
THEOREM FlagTrue == NotepadSpec => []CleanMeansSaved
<1>1. NotepadInv => CleanMeansSaved
  BY DEF NotepadInv
<1> QED BY NotepadInvariance, <1>1, PTL

\* exit leaves the document in the file, although it reads the flag without the
\* mutex and may find the auto-save in the middle of its work.
THEOREM ExitSafe == NotepadSpec => []ExitKeepsWork
<1>1. NotepadInv => ExitKeepsWork
  <2> SUFFICES ASSUME NotepadInv, loop = "closed", ~unsaved, ~parted PROVE file = lines
    BY DEF ExitKeepsWork
  <2>1. ~modified /\ auto = "done"
    BY DEF NotepadInv, LeftClean, ThreadEnded
  <2>2. text_mutex = "free"
    BY <2>1 DEF NotepadInv, NotepadTypeOK, HolderSaves, Saving
  <2> QED BY <2>1, <2>2 DEF NotepadInv, CleanMeansSaved, Loaded, Loading
<1> QED BY NotepadInvariance, <1>1, PTL

-----------------------------------------------------------------------------
(* Configuration                                                             *)

Values == Int \union Texts
ValuesOf(key) == IF key \in Numbers THEN Int ELSE Texts

\* The configurations a Config record may hold, initialised or not.
Configs == {c \in [Keys -> Values] : \A key \in Keys : c[key] \in ValuesOf(key)}

InRange(config) == \A key \in Numbers : config[key] \in 1 .. Limit[key]

\* What the file can still say of a key after a save, once it says something.
Survivors(config, key) == {Kept(config)[key]} \union Parts(key, config[key])

\* A line of the file is one of the configuration's, or what was left of it.
LineOf(line, config) ==
    line[1] \in Keys /\ line[2] \in {config[line[1]]} \union Parts(line[1], config[line[1]])

\* What reached the file of a configuration; all is TRUE when everything did.
FileOf(lns, config, all) ==
    /\ lns \in Seq(Keys \X Values)
    /\ \A m \in DOMAIN lns : LineOf(lns[m], config)
    /\ all => /\ \A m \in DOMAIN lns : lns[m][2] = config[lns[m][1]]
              /\ \A key \in Keys : \E m \in DOMAIN lns : lns[m][1] = key

\* The file is what reached it of the configuration saved last.
Stored ==
    IF config_file = NoFile THEN whole /\ saved = Default
    ELSE FileOf(config_file, saved, whole)

\* A configuration that was never initialised stays known as such: once it is
\* in the file, whatever is loaded comes from it.
Marked ==
    /\ junk.file => junk.cfg
    /\ ~junk.cfg => InRange(cfg)
    /\ ~junk.file => InRange(saved)

\* What a boot has loaded comes from the configurations it knows of.
Traced ==
    /\ booted \in Configs /\ versions \subseteq Configs
    /\ ~junk.file => \A config \in versions : InRange(config)
    /\ got = "all" =>
          \A key \in Keys : \E config \in versions : booted[key] = Kept(config)[key]
    /\ got = "part" =>
          \A key \in Keys : \E config \in versions :
             booted[key] \in {Default[key]} \union Survivors(config, key)

BootInv ==
    /\ boot \in {"idle", "reading", "behind", "end"} /\ got \in {"all", "part", "mixed"}
    /\ IF boot = "idle" THEN booted = Off ELSE Traced
    /\ Loads => saved \in versions /\ config_file # NoFile

SettingsInv ==
    /\ cfg \in Configs /\ saved \in Configs
    /\ settings \in {"closed", "menu", "saving"}
    /\ whole \in BOOLEAN /\ junk \in [cfg : BOOLEAN, file : BOOLEAN]
    /\ settings = "saving" => config_file # NoFile /\ cfg = saved
    /\ Stored /\ Marked

ConfigInv == SettingsInv /\ BootInv

-----------------------------------------------------------------------------
\* A text of one word is read as it is.
LEMMA OneWord ==
    ASSUME NEW text \in Texts, Len(text) = 1
    PROVE  text # <<>> /\ <<Head(text)>> = text
<1>1. text \in Seq(STRING)
  BY ConfigurationAssumption
<1>2. text # <<>>
  <2>1. Len(<<>>) = 0
    OBVIOUS
  <2> QED BY <2>1
<1>3. Head(text) = text[1] /\ DOMAIN text = 1 .. 1
  BY <1>1, <1>2
<1>4. text = <<text[1]>>
  BY <1>1, <1>3
<1> QED BY <1>2, <1>3, <1>4

\* The beginnings of a number are numbers, those of a positive one no larger
\* than it and not 0.
LEMMA BeginningsInRange ==
    ASSUME NEW v \in Int, NEW b \in Beginnings(v)
    PROVE  b \in Int /\ (v > 0 => b \in 1 .. v)
<1>1. CASE v > 0
  <2>1. PICK p \in Powers : b = v \div p /\ b # 0
    BY <1>1 DEF Beginnings
  <2>2. /\ v \in Nat
        /\ p \in {1, 10, 100, 1000, 10000, 100000, 1000000, 10000000, 100000000, 1000000000}
    BY <1>1 DEF Powers
  <2>3. v \div p \in Int /\ 0 <= v \div p /\ v \div p <= v
    BY <2>2, SMTT(30)
  <2> QED BY <2>1, <2>3
<1>2. CASE ~(v > 0)
  <2>1. CASE b = 0
    BY <1>2, <2>1
  <2>2. CASE b # 0
    <3>1. PICK p \in Powers : b = -((-v) \div p)
      BY <1>2, <2>2 DEF Beginnings
    <3>2. p \in Int /\ p > 0 /\ -v \in Int
      BY DEF Powers
    <3>3. (-v) \div p \in Int
      BY <3>2
    <3> QED BY <1>2, <3>1, <3>3
  <2> QED BY <2>1, <2>2
<1> QED BY <1>1, <1>2

\* What is left of a value is a value; of a number in range a number in range,
\* of a text one word.
LEMMA PartsAreValues ==
    ASSUME NEW config \in Configs, NEW key \in Keys, NEW v \in Parts(key, config[key])
    PROVE  /\ v \in ValuesOf(key)
           /\ key \in Numbers /\ InRange(config) => v \in 1 .. Limit[key]
           /\ key \notin Numbers => v \in Texts /\ Len(v) = 1
<1>1. CASE key \in Numbers
  <2>1. config[key] \in Int /\ v \in Beginnings(config[key]) /\ Limit[key] \in Nat
    BY <1>1, ConfigurationAssumption DEF Configs, ValuesOf, Parts
  <2>2. v \in Int /\ (config[key] > 0 => v \in 1 .. config[key])
    BY <2>1, BeginningsInRange
  <2>3. InRange(config) => config[key] \in 1 .. Limit[key]
    BY <1>1 DEF InRange
  <2> QED BY <1>1, <2>1, <2>2, <2>3 DEF ValuesOf
<1>2. CASE key \notin Numbers
  <2>1. config[key] \in Texts /\ v \in Shorter[config[key]]
    BY <1>2 DEF Configs, ValuesOf, Parts
  <2>2. v \in Texts /\ Len(v) = 1
    BY <2>1, ConfigurationAssumption
  <2> QED BY <1>2, <2>2 DEF ValuesOf
<1> QED BY <1>1, <1>2

\* The default configuration is in range and survives saving and loading.
LEMMA DefaultIsKept == Default \in Configs /\ Kept(Default) = Default /\ InRange(Default)
<1>1. \A key \in Numbers : Default[key] \in 1 .. Limit[key] /\ Limit[key] \in Nat
  BY ConfigurationAssumption
<1>2. \A key \in Keys \ Numbers : /\ Default[key] \in Texts /\ Default[key] # <<>>
                                  /\ <<Head(Default[key])>> = Default[key]
  BY OneWord, ConfigurationAssumption
<1>3. \A key \in Keys : Default[key] \in ValuesOf(key) /\ Default[key] \in Values
  BY <1>1, <1>2 DEF ValuesOf, Values
<1>4. Default = [key \in Keys |-> Default[key]]
  BY ConfigurationAssumption
<1>5. Default \in Configs
  BY <1>3, <1>4 DEF Configs
<1>6. Kept(Default) = [key \in Keys |-> Default[key]]
  BY <1>2 DEF Kept
<1> QED BY <1>1, <1>4, <1>5, <1>6 DEF InRange

\* What survives of a configuration: values, in range if it was.
LEMMA SurvivorsAreValues ==
    ASSUME NEW config \in Configs, NEW key \in Keys
    PROVE  /\ Survivors(config, key) \subseteq ValuesOf(key)
           /\ key \in Numbers /\ InRange(config) => Survivors(config, key) \subseteq 1 .. Limit[key]
<1>1. /\ Kept(config)[key] \in ValuesOf(key)
      /\ key \in Numbers => Kept(config)[key] = config[key]
  <2>1. CASE key \in Numbers
    BY <2>1 DEF Kept, Configs
  <2>2. CASE key \notin Numbers
    <3>1. config[key] \in Texts /\ Default[key] \in Texts
      BY <2>2, ConfigurationAssumption DEF Configs, ValuesOf
    <3>2. config[key] # <<>> => <<Head(config[key])>> \in Texts
      BY <3>1, ConfigurationAssumption
    <3> QED BY <2>2, <3>1, <3>2 DEF Kept, ValuesOf
  <2> QED BY <2>1, <2>2
<1> QED BY <1>1, PartsAreValues DEF Survivors, InRange

\* A line that is read says what survived.
LEMMA ReadLine ==
    ASSUME NEW config \in Configs, NEW line, LineOf(line, config), Readable(line)
    PROVE  /\ Read(line) \in Survivors(config, line[1])
           /\ line[2] = config[line[1]] => Read(line) = Kept(config)[line[1]]
<1> DEFINE key == line[1]
<1>1. key \in Keys /\ line[2] \in {config[key]} \union Parts(key, config[key])
  BY DEF LineOf
<1>2. CASE key \in Numbers
  BY <1>1, <1>2 DEF Read, Kept, Survivors
<1>3. CASE key \notin Numbers
  <2>1. Read(line) = <<Head(line[2])>> /\ line[2] # <<>>
    BY <1>3 DEF Read, Readable
  <2>2. line[2] = config[key] => Read(line) = Kept(config)[key]
    BY <1>1, <1>3, <2>1 DEF Kept
  <2>3. line[2] \in Parts(key, config[key]) => Read(line) = line[2]
    BY <1>1, <1>3, <2>1, PartsAreValues, OneWord
  <2> QED BY <1>1, <2>2, <2>3 DEF Survivors
<1> QED BY <1>2, <1>3

\* Reading lines that a save left over a configuration changes some of its
\* values to what survived of the saved ones.
LEMMA OverLines ==
    ASSUME NEW base \in Configs, NEW config \in Configs, NEW lns,
           \A m \in DOMAIN lns : LineOf(lns[m], config)
    PROVE  /\ Over(base, lns) \in Configs
           /\ \A key \in Keys : Over(base, lns)[key] \in {base[key]} \union Survivors(config, key)
           /\ (\A m \in DOMAIN lns : lns[m][2] = config[lns[m][1]]) =>
                 \A key \in Keys : Over(base, lns)[key] \in {base[key], Kept(config)[key]}
<1> DEFINE At(key, m) == lns[m][1] = key /\ Readable(lns[m])
<1>1. ASSUME NEW key \in Keys
      PROVE  /\ Over(base, lns)[key] \in {base[key]} \union Survivors(config, key)
             /\ (\A m \in DOMAIN lns : lns[m][2] = config[lns[m][1]]) =>
                   Over(base, lns)[key] \in {base[key], Kept(config)[key]}
  <2>1. CASE \E m \in DOMAIN lns : At(key, m)
    <3>1. PICK m \in DOMAIN lns : At(key, m) /\ Over(base, lns)[key] = Read(lns[m])
      BY <2>1 DEF Over
    <3> QED BY <3>1, ReadLine
  <2>2. CASE ~ \E m \in DOMAIN lns : At(key, m)
    BY <2>2 DEF Over
  <2> QED BY <2>1, <2>2
<1>2. \A key \in Keys : Over(base, lns)[key] \in ValuesOf(key)
  BY <1>1, SurvivorsAreValues DEF Configs
<1>3. Over(base, lns) = [key \in Keys |-> Over(base, lns)[key]]
  BY DEF Over
<1>4. Over(base, lns) \in [Keys -> Values]
  BY <1>2, <1>3 DEF ValuesOf, Values
<1> QED BY <1>1, <1>2, <1>4 DEF Configs

\* Loading all that was saved of a configuration gives what the format keeps.
LEMMA LoadAll ==
    ASSUME NEW config \in Configs, NEW lns, FileOf(lns, config, TRUE)
    PROVE  Load(lns) = Kept(config)
<1> DEFINE At(key, m) == lns[m][1] = key /\ Readable(lns[m])
<1>1. ASSUME NEW key \in Keys PROVE Load(lns)[key] = Kept(config)[key]
  <2>1. CASE \E m \in DOMAIN lns : At(key, m)
    <3>1. PICK m \in DOMAIN lns : At(key, m) /\ Load(lns)[key] = Read(lns[m])
      BY <2>1 DEF Load, Over
    <3> QED BY <3>1, ReadLine DEF FileOf
  <2>2. CASE ~ \E m \in DOMAIN lns : At(key, m)
    <3>1. PICK m \in DOMAIN lns : lns[m][1] = key /\ lns[m][2] = config[key]
      BY DEF FileOf
    <3>2. key \notin Numbers /\ config[key] = <<>>
      BY <2>2, <3>1 DEF Readable
    <3> QED BY <2>2, <3>2 DEF Load, Over, Kept
  <2> QED BY <2>1, <2>2
<1>2. Load(lns) = [key \in Keys |-> Load(lns)[key]] /\ Kept(config) = [key \in Keys |-> Kept(config)[key]]
  BY DEF Load, Over, Kept
<1> QED BY <1>1, <1>2

\* What a loader makes of the file.
LEMMA LoadOfFile ==
    ASSUME SettingsInv, config_file # NoFile
    PROVE  /\ Load(config_file) \in Configs
           /\ InRange(saved) => InRange(Load(config_file))
           /\ \A key \in Keys :
                 Load(config_file)[key] \in {Default[key]} \union Survivors(saved, key)
           /\ whole => Load(config_file) = Kept(saved)
<1>1. FileOf(config_file, saved, whole) /\ saved \in Configs /\ whole \in BOOLEAN
  BY DEF SettingsInv, Stored
<1>2. /\ Load(config_file) \in Configs
      /\ \A key \in Keys :
            Load(config_file)[key] \in {Default[key]} \union Survivors(saved, key)
  BY <1>1, OverLines, DefaultIsKept DEF FileOf, Load
<1>3. InRange(saved) => InRange(Load(config_file))
  BY <1>1, <1>2, SurvivorsAreValues, DefaultIsKept, ConfigurationAssumption DEF InRange
<1>4. whole => Load(config_file) = Kept(saved)
  BY <1>1, LoadAll
<1> QED BY <1>2, <1>3, <1>4

-----------------------------------------------------------------------------
\* Saving writes one line for each key, in the order of the fields.
LEMMA LinesAre ==
    ASSUME NEW config \in Configs
    PROVE  /\ Len(Layout) \in Nat /\ DOMAIN Layout = 1 .. Len(Layout)
           /\ Lines(config) \in Seq(Keys \X Values) /\ Len(Lines(config)) = Len(Layout)
           /\ \A m \in 1 .. Len(Layout) : Lines(config)[m] = <<Layout[m], config[Layout[m]]>>
           /\ \A m \in 1 .. Len(Layout) : Layout[m] \in Keys /\ config[Layout[m]] \in Values
<1> DEFINE N == Len(Layout)
<1>1. N \in Nat /\ DOMAIN Layout = 1 .. N
  BY ConfigurationAssumption
<1>2. \A m \in 1 .. N : Layout[m] \in Keys /\ config[Layout[m]] \in Values
  BY <1>1 DEF Keys, Configs
<1> HIDE DEF N
<1>3. Lines(config) = [m \in 1 .. N |-> <<Layout[m], config[Layout[m]]>>]
  BY <1>1 DEF Lines
<1>4. \A m \in 1 .. N : Lines(config)[m] = <<Layout[m], config[Layout[m]]>>
  BY <1>3
<1>5. Lines(config) \in [1 .. N -> Keys \X Values]
  <2>1. \A m \in 1 .. N : <<Layout[m], config[Layout[m]]>> \in Keys \X Values
    BY <1>2
  <2> QED BY ONLY <1>3, <2>1
<1>6. Lines(config) \in Seq(Keys \X Values) /\ Len(Lines(config)) = N
  BY <1>1, <1>5
<1> QED BY <1>1, <1>2, <1>4, <1>6 DEF N

\* The file after a save that wrote everything.
LEMMA AllReached ==
    ASSUME NEW config \in Configs
    PROVE  FileOf(Lines(config), config, TRUE)
<1> DEFINE L == Lines(config)
<1>1. /\ Len(Layout) \in Nat /\ DOMAIN Layout = 1 .. Len(Layout)
      /\ L \in Seq(Keys \X Values) /\ DOMAIN L = 1 .. Len(Layout)
      /\ \A m \in 1 .. Len(Layout) : L[m][1] = Layout[m] /\ L[m][2] = config[Layout[m]]
      /\ \A m \in 1 .. Len(Layout) : Layout[m] \in Keys
  BY LinesAre
<1> HIDE DEF L
<1>2. \A key \in Keys : \E m \in DOMAIN L : L[m][1] = key
  BY <1>1 DEF Keys
<1>3. \A m \in DOMAIN L : LineOf(L[m], config) /\ L[m][2] = config[L[m][1]]
  BY <1>1 DEF LineOf
<1> QED BY <1>1, <1>2, <1>3 DEF FileOf, L

\* The file after a save of which some first lines were written.
LEMMA SomeReached ==
    ASSUME NEW config \in Configs, NEW n \in 0 .. Len(Layout)
    PROVE  /\ FileOf(SubSeq(Lines(config), 1, n), config, FALSE)
           /\ Len(SubSeq(Lines(config), 1, n)) = n
<1> DEFINE L == Lines(config)
<1>1. /\ L \in Seq(Keys \X Values) /\ Len(L) = Len(Layout) /\ Len(Layout) \in Nat
      /\ \A m \in 1 .. Len(L) : LineOf(L[m], config)
  BY LinesAre, AllReached DEF FileOf
<1> HIDE DEF L
<1>2. n \in Nat /\ n <= Len(L) /\ \A m \in 1 .. n : L[m] \in Keys \X Values
  BY <1>1
<1>3. /\ SubSeq(L, 1, n) \in Seq(Keys \X Values) /\ Len(SubSeq(L, 1, n)) = n
      /\ \A m \in 1 .. n : SubSeq(L, 1, n)[m] = L[m]
  BY <1>1, <1>2
<1>4. DOMAIN SubSeq(L, 1, n) = 1 .. n
  BY <1>3
<1>5. ASSUME NEW m \in DOMAIN SubSeq(L, 1, n)
      PROVE  LineOf(SubSeq(L, 1, n)[m], config)
  <2>1. m \in 1 .. n /\ m \in 1 .. Len(L)
    BY <1>1, <1>2, <1>4
  <2>2. SubSeq(L, 1, n)[m] = L[m] /\ LineOf(L[m], config)
    BY <1>1, <1>3, <2>1
  <2> QED BY <2>2
<1>6. FileOf(SubSeq(L, 1, n), config, FALSE)
  BY <1>3, <1>5 DEF FileOf
<1> QED BY <1>3, <1>6 DEF L

\* The same with a part of the next line.
LEMMA PartReached ==
    ASSUME NEW config \in Configs, NEW n \in DOMAIN Layout,
           NEW part \in Parts(Layout[n], config[Layout[n]])
    PROVE  FileOf(Append(SubSeq(Lines(config), 1, n - 1), <<Layout[n], part>>), config, FALSE)
<1> DEFINE P == SubSeq(Lines(config), 1, n - 1)
           line == <<Layout[n], part>>
           A == Append(P, line)
<1>1. n - 1 \in 0 .. Len(Layout) /\ n \in Nat /\ Layout[n] \in Keys
  BY LinesAre
<1>2. FileOf(P, config, FALSE) /\ Len(P) = n - 1
  BY <1>1, SomeReached
<1>3. line \in Keys \X Values /\ LineOf(line, config)
  <2>1. part \in ValuesOf(Layout[n])
    BY <1>1, PartsAreValues
  <2>2. part \in Values
    BY <2>1 DEF ValuesOf, Values
  <2> QED BY <1>1, <2>2 DEF LineOf
<1> HIDE DEF P, line
<1>4. P \in Seq(Keys \X Values) /\ \A m \in 1 .. n - 1 : LineOf(P[m], config)
  BY <1>1, <1>2 DEF FileOf
<1>5. /\ A \in Seq(Keys \X Values) /\ DOMAIN A = 1 .. n
      /\ \A m \in 1 .. n - 1 : A[m] = P[m]
      /\ A[n] = line
  BY <1>1, <1>2, <1>3, <1>4
<1>6. \A m \in 1 .. n : m \in 1 .. n - 1 \/ m = n
  BY <1>1
<1>7. \A m \in DOMAIN A : LineOf(A[m], config)
  BY <1>3, <1>4, <1>5, <1>6
<1> HIDE DEF A
<1>8. FileOf(A, config, FALSE)
  BY <1>5, <1>7 DEF FileOf
<1> QED BY <1>8 DEF A, P, line

\* A file is not NoFile.
LEMMA FileIsFile ==
    ASSUME NEW lns, NEW config, NEW all, FileOf(lns, config, all)
    PROVE  lns # NoFile
BY ConfigurationAssumption DEF FileOf, Values

\* A system is installed with the default configuration or without a file.
LEMMA ConfigInitInvariant == ConfigInit => ConfigInv
<1> SUFFICES ASSUME ConfigInit PROVE ConfigInv
  OBVIOUS
<1>1. Default \in Configs /\ InRange(Default)
  BY DefaultIsKept
<1>2. FileOf(Lines(Default), Default, TRUE)
  BY <1>1, AllReached
<1>3. Stored
  BY <1>2 DEF ConfigInit, Stored
<1>4. SettingsInv
  BY <1>1, <1>3 DEF ConfigInit, SettingsInv, Marked
<1>5. BootInv
  BY DEF ConfigInit, BootInv, Loads
<1> QED BY <1>4, <1>5 DEF ConfigInv

-----------------------------------------------------------------------------
(* Settings *)

\* A step that changes the configuration in Settings and nothing else.
LEMMA CfgChanges ==
    ASSUME ConfigInv, cfg' \in Configs, settings' = "menu", settings # "saving",
           junk' \in [cfg : BOOLEAN, file : BOOLEAN], junk'.file = junk.file,
           junk.file => junk'.cfg, ~junk'.cfg => InRange(cfg'),
           UNCHANGED <<config_file, saved, whole, boot_vars>>
    PROVE  ConfigInv'
<1>1. Stored'
  BY DEF ConfigInv, SettingsInv, Stored
<1>2. Marked'
  BY DEF ConfigInv, SettingsInv, Marked, InRange
<1>3. SettingsInv'
  BY <1>1, <1>2 DEF ConfigInv, SettingsInv
<1>4. BootInv'
  BY DEF ConfigInv, BootInv, Traced, Loads, boot_vars
<1> QED BY <1>3, <1>4 DEF ConfigInv

\* A configuration that is loaded comes from the file, and so does its mark.
LEMMA LoadKeeps ==
    ASSUME ConfigInv, config_file # NoFile, settings \in {"closed", "menu"}, settings' = "menu",
           cfg' = Load(config_file), junk' = [junk EXCEPT !.cfg = junk.file],
           UNCHANGED <<config_file, saved, whole, boot_vars>>
    PROVE  ConfigInv'
<1>1. Load(config_file) \in Configs /\ (InRange(saved) => InRange(Load(config_file)))
  BY LoadOfFile DEF ConfigInv
<1>2. /\ junk' \in [cfg : BOOLEAN, file : BOOLEAN] /\ junk'.file = junk.file
      /\ junk'.cfg = junk.file
  BY DEF ConfigInv, SettingsInv
<1>3. ~junk'.cfg => InRange(cfg')
  BY <1>1, <1>2 DEF ConfigInv, SettingsInv, Marked, InRange
<1> QED BY <1>1, <1>2, <1>3, CfgChanges

\* Settings starts with what it loads, or with what its memory held.
LEMMA StartKeeps == ASSUME ConfigInv, SettingsStart PROVE ConfigInv'
<1>1. CASE /\ config_file # NoFile
           /\ cfg' = Load(config_file) /\ junk' = [junk EXCEPT !.cfg = junk.file]
  BY <1>1, LoadKeeps DEF SettingsStart
<1>2. CASE /\ \E number \in [Numbers -> Junk], text \in [Keys \ Numbers -> Texts] :
                 cfg' = [key \in Keys |-> IF key \in Numbers THEN number[key] ELSE text[key]]
           /\ junk' = [junk EXCEPT !.cfg = TRUE]
  <2>1. PICK number \in [Numbers -> Junk], text \in [Keys \ Numbers -> Texts] :
           cfg' = [key \in Keys |-> IF key \in Numbers THEN number[key] ELSE text[key]]
    BY <1>2
  <2>2. \A key \in Keys : cfg'[key] \in ValuesOf(key) /\ cfg'[key] \in Values
    BY <2>1, ConfigurationAssumption DEF ValuesOf, Values
  <2>3. cfg' \in Configs
    BY <2>1, <2>2 DEF Configs
  <2>4. /\ junk' \in [cfg : BOOLEAN, file : BOOLEAN] /\ junk'.file = junk.file /\ junk'.cfg
    BY <1>2 DEF ConfigInv, SettingsInv
  <2> QED BY <2>3, <2>4, CfgChanges DEF SettingsStart
<1> QED BY <1>1, <1>2 DEF SettingsStart

\* A value the menu accepts keeps a configuration in range.
LEMMA EditKeeps ==
    ASSUME ConfigInv, NEW key \in Keys, NEW value \in ValuesOf(key),
           key \in Numbers => value \in 1 .. Limit[key],
           settings = "menu", cfg' = [cfg EXCEPT ![key] = value],
           UNCHANGED <<config_file, settings, save_history, boot_vars>>
    PROVE  ConfigInv'
<1>1. cfg \in Configs /\ (~junk.cfg => InRange(cfg)) /\ Numbers \subseteq Keys
  BY ConfigurationAssumption DEF ConfigInv, SettingsInv, Marked
<1>2. value \in Values
  BY DEF ValuesOf, Values
<1>3. cfg' \in [Keys -> Values] /\ cfg'[key] = value /\ \A k \in Keys \ {key} : cfg'[k] = cfg[k]
  BY <1>1, <1>2 DEF Configs
<1>4. cfg' \in Configs
  BY <1>1, <1>3 DEF Configs
<1>5. ~junk.cfg => InRange(cfg')
  BY <1>1, <1>3 DEF InRange
<1>6. junk' = junk /\ junk \in [cfg : BOOLEAN, file : BOOLEAN] /\ (junk.file => junk.cfg)
  BY DEF save_history, ConfigInv, SettingsInv, Marked
<1> QED BY <1>4, <1>5, <1>6, CfgChanges DEF save_history

\* From here on the file is a part of the configuration being saved, which a
\* boot under way may get to see.
LEMMA SaveOpensKeeps == ASSUME ConfigInv, SaveOpens PROVE ConfigInv'
<1>1. /\ config_file' = <<>> /\ saved' = cfg /\ cfg' = cfg /\ whole' = FALSE
      /\ settings' = "saving" /\ junk' = [junk EXCEPT !.file = junk.cfg]
      /\ cfg \in Configs /\ junk \in [cfg : BOOLEAN, file : BOOLEAN]
      /\ UNCHANGED <<boot, booted, got>>
      /\ versions' = IF Loads THEN versions \union {cfg} ELSE versions
  BY DEF SaveOpens, Begun, ConfigInv, SettingsInv
<1>2. FileOf(<<>>, cfg, FALSE)
  BY DEF FileOf
<1>3. Stored' /\ config_file' # NoFile
  BY <1>1, <1>2, FileIsFile DEF Stored
<1>4. /\ junk' \in [cfg : BOOLEAN, file : BOOLEAN]
      /\ junk'.cfg = junk.cfg /\ junk'.file = junk.cfg
  BY <1>1
<1>5. Marked'
  BY <1>1, <1>4 DEF ConfigInv, SettingsInv, Marked, InRange
<1>6. SettingsInv'
  BY <1>1, <1>3, <1>4, <1>5 DEF SettingsInv
<1>7. CASE boot = "idle"
  BY <1>1, <1>6, <1>7 DEF ConfigInv, BootInv, Loads
<1>8. CASE boot # "idle"
  <2>1. Traced
    BY <1>8 DEF ConfigInv, BootInv
  <2>2. ~junk'.file => InRange(cfg) /\ \A config \in versions : InRange(config)
    BY <1>4, <2>1 DEF ConfigInv, SettingsInv, Marked, Traced
  <2>3. versions \subseteq versions' /\ versions' \subseteq versions \union {cfg}
    BY <1>1
  <2>4. Traced'
    BY <1>1, <2>1, <2>2, <2>3 DEF Traced, InRange
  <2> QED BY <1>1, <1>3, <1>6, <1>8, <2>4 DEF ConfigInv, BootInv, Loads
<1> QED BY <1>6, <1>7, <1>8 DEF ConfigInv

\* Of the configuration being saved everything, some first lines, or these and a
\* beginning of the next reach the disk.
LEMMA SaveClosesKeeps == ASSUME ConfigInv, SaveCloses PROVE ConfigInv'
<1>1. /\ settings' = "menu" /\ UNCHANGED <<cfg, saved, junk, booted, versions, got>>
      /\ cfg = saved /\ saved \in Configs
      /\ boot' = IF boot = "reading" THEN "behind" ELSE boot
  BY DEF SaveCloses, ConfigInv, SettingsInv
<1>2. FileOf(config_file', saved, whole') /\ whole' \in BOOLEAN
  <2>1. CASE config_file' = Lines(cfg) /\ whole' = TRUE
    BY <1>1, <2>1, AllReached
  <2>2. CASE /\ \E n \in 0 .. Len(Layout) - 1 : config_file' = SubSeq(Lines(cfg), 1, n)
             /\ whole' = FALSE
    <3>1. PICK n \in 0 .. Len(Layout) - 1 : config_file' = SubSeq(Lines(cfg), 1, n)
      BY <2>2
    <3>2. n \in 0 .. Len(Layout)
      BY ConfigurationAssumption
    <3> QED BY <1>1, <2>2, <3>1, <3>2, SomeReached
  <2>3. CASE /\ \E n \in DOMAIN Layout : \E part \in Parts(Layout[n], cfg[Layout[n]]) :
                   config_file' = Append(SubSeq(Lines(cfg), 1, n - 1), <<Layout[n], part>>)
             /\ whole' = FALSE
    BY <1>1, <2>3, PartReached
  <2> QED BY <2>1, <2>2, <2>3 DEF SaveCloses
<1>3. Stored' /\ config_file' # NoFile
  BY <1>1, <1>2, FileIsFile DEF Stored
<1>4. Marked'
  BY <1>1 DEF ConfigInv, SettingsInv, Marked, InRange
<1>5. SettingsInv'
  BY <1>1, <1>2, <1>3, <1>4 DEF ConfigInv, SettingsInv
<1>6. BootInv'
  BY <1>1, <1>3 DEF ConfigInv, BootInv, Traced, Loads
<1> QED BY <1>5, <1>6 DEF ConfigInv

-----------------------------------------------------------------------------
(* Boot *)

\* A step of the boot leaves Settings and the file alone.
LEMMA SettingsStays ==
    ASSUME SettingsInv, UNCHANGED <<config_file, cfg, settings, save_history>>
    PROVE  SettingsInv'
<1>1. Stored' /\ Marked'
  BY DEF SettingsInv, Stored, Marked, InRange, save_history
<1> QED BY <1>1 DEF SettingsInv, save_history

\* A boot that finds no file to read has the defaults.
LEMMA BootFailsKeeps == ASSUME ConfigInv, BootFails PROVE ConfigInv'
<1>1. /\ boot' = "end" /\ booted' = Default /\ versions' = {saved}
      /\ got' = IF config_file = NoFile THEN "all" ELSE "part"
      /\ UNCHANGED <<config_file, cfg, settings, save_history>>
  BY DEF BootFails
<1>2. SettingsInv'
  BY <1>1, SettingsStays DEF ConfigInv
<1>3. saved \in Configs /\ (~junk'.file => InRange(saved))
  BY <1>1 DEF ConfigInv, SettingsInv, Marked, save_history
<1>4. got' = "all" => \A key \in Keys : booted'[key] = Kept(saved)[key]
  BY <1>1, DefaultIsKept DEF ConfigInv, SettingsInv, Stored
<1>5. Traced'
  BY <1>1, <1>3, <1>4, DefaultIsKept DEF Traced
<1> QED BY <1>1, <1>2, <1>5 DEF ConfigInv, BootInv, Loads

\* The first read gets what is in the file.
LEMMA BootOpensKeeps == ASSUME ConfigInv, BootOpens PROVE ConfigInv'
<1>1. /\ config_file # NoFile /\ boot' \in {"reading", "end"}
      /\ booted' = Load(config_file) /\ versions' = {saved}
      /\ got' = IF whole THEN "all" ELSE "part"
      /\ UNCHANGED <<config_file, cfg, settings, save_history>>
  BY DEF BootOpens
<1>2. SettingsInv'
  BY <1>1, SettingsStays DEF ConfigInv
<1>3. /\ saved \in Configs /\ (~junk'.file => InRange(saved)) /\ saved' = saved
      /\ whole \in BOOLEAN
  BY <1>1 DEF ConfigInv, SettingsInv, Marked, save_history
<1>4. /\ booted' \in Configs
      /\ \A key \in Keys : booted'[key] \in {Default[key]} \union Survivors(saved, key)
      /\ whole => \A key \in Keys : booted'[key] = Kept(saved)[key]
  BY <1>1, LoadOfFile DEF ConfigInv
<1>5. Traced'
  BY <1>1, <1>3, <1>4 DEF Traced
<1> QED BY <1>1, <1>2, <1>3, <1>5 DEF ConfigInv, BootInv, Loads

\* What the ends of two files make of one line leaves a configuration.
LEMMA JointsAreConfigs ==
    ASSUME booted \in Configs, NEW config \in Joints
    PROVE  config \in Configs /\ (got = "all" => config = booted)
<1>1. CASE config = booted
  BY <1>1
<1>2. ASSUME NEW key \in Keys, NEW value \in ValuesOf(key), config = [booted EXCEPT ![key] = value]
      PROVE  config \in Configs
  <2>1. value \in Values
    BY DEF ValuesOf, Values
  <2>2. config \in [Keys -> Values] /\ config[key] = value /\ \A k \in Keys \ {key} : config[k] = booted[k]
    BY <1>2, <2>1 DEF Configs
  <2> QED BY <2>2 DEF Configs
<1>3. CASE config # booted
  <2>1. PICK key \in Keys : \E value \in ValuesOf(key) : config = [booted EXCEPT ![key] = value]
    BY <1>3, ConfigurationAssumption DEF Joints, ValuesOf
  <2>2. got # "all"
    BY <1>3 DEF Joints
  <2> QED BY <1>2, <2>1, <2>2
<1> QED BY <1>1, <1>3

\* The lines of the end of a file are lines of the file.
LEMMA RestLines ==
    ASSUME NEW S, NEW s \in Seq(S), NEW n \in 1 .. Len(s) + 1
    PROVE  \A m \in DOMAIN SubSeq(s, n, Len(s)) :
              \E k \in DOMAIN s : SubSeq(s, n, Len(s))[m] = s[k]
<1> DEFINE t == SubSeq(s, n, Len(s))
<1>1. Len(s) \in Nat /\ n \in Nat /\ n >= 1 /\ DOMAIN s = 1 .. Len(s)
  OBVIOUS
<1>2. \A m \in n .. Len(s) : s[m] \in S
  BY <1>1
<1>3. /\ t \in Seq(S) /\ DOMAIN t = 1 .. (Len(s) - n + 1)
      /\ \A m \in 1 .. (Len(s) - n + 1) : t[m] = s[n + m - 1]
  BY <1>1, <1>2
<1>4. \A m \in 1 .. (Len(s) - n + 1) : n + m - 1 \in DOMAIN s
  BY <1>1
<1> QED BY <1>3, <1>4

\* The next read gets the end of a file saved since.
LEMMA BootReadsOnKeeps == ASSUME ConfigInv, BootReadsOn PROVE ConfigInv'
<1>1. /\ boot = "behind" /\ boot' = "reading" /\ config_file # <<>>
      /\ got' = IF got # "all" THEN "mixed" ELSE IF whole THEN "all" ELSE "part"
      /\ UNCHANGED <<config_file, cfg, settings, save_history, versions>>
  BY DEF BootReadsOn
<1>2. SettingsInv'
  BY <1>1, SettingsStays DEF ConfigInv
<1>3. Traced /\ saved \in versions /\ saved \in Configs /\ whole \in BOOLEAN
  BY <1>1 DEF ConfigInv, BootInv, Loads, SettingsInv
<1>4. PICK n \in 1 .. Len(config_file) + 1, config \in Joints :
        booted' = Over(config, SubSeq(config_file, n, Len(config_file)))
  BY DEF BootReadsOn
<1> DEFINE rest == SubSeq(config_file, n, Len(config_file))
<1>5. config \in Configs /\ (got = "all" => config = booted)
  BY <1>3, JointsAreConfigs DEF Traced
<1>6. FileOf(config_file, saved, whole)
  <2>1. config_file # NoFile
    BY <1>1 DEF ConfigInv, BootInv, Loads
  <2> QED BY <2>1 DEF ConfigInv, SettingsInv, Stored
<1>7. \A m \in DOMAIN rest : \E k \in DOMAIN config_file : rest[m] = config_file[k]
  BY <1>6, RestLines DEF FileOf
<1> HIDE DEF rest
<1>8. /\ \A m \in DOMAIN rest : LineOf(rest[m], saved)
      /\ whole => \A m \in DOMAIN rest : rest[m][2] = saved[rest[m][1]]
  BY <1>6, <1>7 DEF FileOf
<1>9. /\ booted' \in Configs
      /\ \A key \in Keys : booted'[key] \in {config[key]} \union Survivors(saved, key)
      /\ whole => \A key \in Keys : booted'[key] \in {config[key], Kept(saved)[key]}
  BY <1>3, <1>4, <1>5, <1>8, OverLines DEF rest
<1>10. got' = "all" =>
         \A key \in Keys : \E c \in versions : booted'[key] = Kept(c)[key]
  BY <1>1, <1>3, <1>5, <1>9 DEF Traced
<1>11. got' = "part" =>
         \A key \in Keys : \E c \in versions :
            booted'[key] \in {Default[key]} \union Survivors(c, key)
  BY <1>1, <1>3, <1>5, <1>9 DEF Traced, Survivors
<1>12. Traced'
  BY <1>1, <1>3, <1>9, <1>10, <1>11 DEF Traced, save_history
<1> QED BY <1>1, <1>2, <1>3, <1>12 DEF ConfigInv, BootInv, Loads, save_history

\* The file holds what reached the disk of the configuration saved last, and a
\* boot values of those it saw saved, whatever Settings does and wherever it is
\* killed.
THEOREM ConfigInvariance == ConfigSpec => []ConfigInv
<1>1. ConfigInv /\ [ConfigNext]_config_vars => ConfigInv'
  <2> SUFFICES ASSUME ConfigInv, [ConfigNext]_config_vars PROVE ConfigInv'
    OBVIOUS
  <2>1. CASE UNCHANGED config_vars \/ Leave
    <3>1. /\ UNCHANGED <<config_file, cfg, saved, whole, junk, boot, booted, versions, got>>
          /\ settings' \in {settings, "closed"}
      BY <2>1 DEF config_vars, save_history, boot_vars, Leave
    <3>2. Stored' /\ Marked'
      BY <3>1 DEF ConfigInv, SettingsInv, Stored, Marked, InRange
    <3>3. SettingsInv'
      BY <3>1, <3>2 DEF ConfigInv, SettingsInv
    <3>4. BootInv'
      BY <3>1 DEF ConfigInv, BootInv, Traced, Loads
    <3> QED BY <3>3, <3>4 DEF ConfigInv
  <2>2. CASE Reload
    BY <2>2, LoadKeeps DEF Reload
  <2>3. ASSUME NEW key \in Numbers, NEW value \in Typed, EditNumber(key, value)
        PROVE  ConfigInv'
    <3>1. key \in Keys /\ value \in ValuesOf(key)
      BY ConfigurationAssumption DEF ValuesOf
    <3> QED BY <2>3, <3>1, EditKeeps DEF EditNumber, Accepts
  <2>4. ASSUME NEW key \in Keys \ Numbers, NEW text \in Texts, EditText(key, text)
        PROVE  ConfigInv'
    <3>1. text \in ValuesOf(key)
      BY DEF ValuesOf
    <3> QED BY <2>4, <3>1, EditKeeps DEF EditText
  <2>5. CASE BootEnds
    <3>1. SettingsInv'
      BY <2>5, SettingsStays DEF ConfigInv, BootEnds
    <3> QED BY <2>5, <3>1 DEF ConfigInv, BootInv, BootEnds, Loads
  <2> QED
    BY <2>1, <2>2, <2>3, <2>4, <2>5, StartKeeps, SaveOpensKeeps, SaveClosesKeeps, BootFailsKeeps,
       BootOpensKeeps, BootReadsOnKeeps
       DEF ConfigNext
<1> QED BY ConfigInitInvariant, <1>1, PTL DEF ConfigSpec

\* A boot reads no number out of range, wherever writes stopped and saves fell,
\* but from a file that was saved from a configuration that Settings never
\* initialised and where the ends of two files made a line.
THEOREM NumbersInRange == ConfigSpec => []BootInRange
<1>1. ConfigInv => BootInRange
  <2> SUFFICES ASSUME ConfigInv PROVE BootInRange
    OBVIOUS
  <2>1. config_file = NoFile \/ \A n \in DOMAIN config_file : config_file[n][1] \in Keys
    BY DEF ConfigInv, SettingsInv, Stored, FileOf, LineOf
  <2>2. ConfigTypeOK
    BY <2>1, ConfigurationAssumption DEF ConfigInv, SettingsInv, BootInv, Configs, ValuesOf, ConfigTypeOK
  <2>3. ASSUME booted # Off, ~junk.file, got # "mixed", NEW key \in Numbers
        PROVE  booted[key] \in 1 .. Limit[key]
    <3>1. Traced /\ got \in {"all", "part"} /\ key \in Keys
      BY <2>3, ConfigurationAssumption DEF ConfigInv, BootInv
    <3>2. PICK config \in versions : booted[key] \in {Default[key]} \union Survivors(config, key)
      BY <3>1 DEF Traced, Survivors
    <3>3. config \in Configs /\ InRange(config)
      BY <2>3, <3>1 DEF Traced
    <3>4. Survivors(config, key) \subseteq 1 .. Limit[key] /\ Default[key] \in 1 .. Limit[key]
      BY <3>1, <3>3, SurvivorsAreValues, ConfigurationAssumption
    <3> QED BY <3>2, <3>4
  <2> QED BY <2>2, <2>3 DEF BootInRange
<1> QED BY ConfigInvariance, <1>1, PTL

\* What a boot gets is of the configurations saved last and while it read: all
\* of the one saved last if there was no other and it was written whole, and
\* else values, beginnings of values and defaults; never a part of an older one.
THEOREM OneConfiguration == ConfigSpec => []BootCoherent
<1>1. ConfigInv => BootCoherent
  BY DEF ConfigInv, BootInv, Traced, BootCoherent, Survivors
<1> QED BY ConfigInvariance, <1>1, PTL

=============================================================================
