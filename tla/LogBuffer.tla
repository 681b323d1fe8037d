------------------------------ MODULE LogBuffer -------------------------------
(***************************************************************************)
(* The GUI's log (gui/logs.rs): the bounded line buffer any thread appends *)
(* to, and the file behind it, which is checked every so many bytes and    *)
(* rewritten with its newer half once it is past its limit.  Every method  *)
(* holds the buffer's lock.  Any call on the file may fail, a write with   *)
(* any part of it done; the process may end and start again, and one that  *)
(* dies inside a push is one whose write failed, followed by the restart.  *)
(***************************************************************************)
EXTENDS Naturals, Sequences

CONSTANTS
  Capacity,    \* CAPACITY, in lines
  FileLimit,   \* FILE_LIMIT, in bytes
  CheckEvery,  \* the 64 KiB between size checks, in bytes
  Longest,     \* bound: the longest line, in bytes with its newline
  MaxLines,    \* bound: lines logged over all runs
  MaxClears,   \* bound: presses of Clear
  MaxRuns      \* bound: starts of the process

ASSUME LogAssumption ==
  /\ {Capacity, CheckEvery, Longest, MaxLines, MaxClears, MaxRuns} \subseteq Nat \ {0}
  /\ FileLimit \in Nat /\ FileLimit >= CheckEvery

VARIABLES
  lines,       \* Lines.lines; a line is the number of its push
  version,     \* Lines.version
  persisting,  \* Lines.file.is_some()
  unchecked,   \* Lines.unchecked
  file,        \* the lines of the log file, each the number of the newest
               \* line logged on it
  torn,        \* the last of them has no newline
  size,        \* the bytes of the file
  pushed,      \* how many lines were ever logged
  gap,         \* the last line of this run logged to a file that had lost lines
               \* or its last newline before it
  left,        \* the bytes the last attempt to trim or to clear the file left
  cleared,     \* the lines up to this one are not to be shown again
  emptied,     \* the lines up to this one are gone from the file with a Clear
  clears,      \* how often Clear was pressed
  runs         \* starts so far

bufferVars == <<lines, version, persisting, unchecked, file, torn, size, pushed, gap, left,
                cleared, emptied, clears, runs>>
disk == <<file, torn, size, gap, left>>

Minus(a, b) == IF a > b THEN a - b ELSE 0
Larger(a, b) == IF a > b THEN a ELSE b

\* The last n elements, all of them if there are no more.
Newest(seq, n) == SubSeq(seq, Minus(Len(seq), n) + 1, Len(seq))

\* A first run; the directory may not be there to be written.
BufferInit ==
  /\ lines = <<>> /\ version = 0 /\ persisting \in BOOLEAN
  /\ unchecked = IF persisting THEN FileLimit ELSE 0
  /\ file = <<>> /\ torn = FALSE /\ size = 0
  /\ pushed = 0 /\ gap = 0 /\ left = 0
  /\ cleared = 0 /\ emptied = 0 /\ clears = 0 /\ runs = 1

-----------------------------------------------------------------------------
(* The file, while a line of b bytes is pushed.                             *)

CheckDue(b) == unchecked + b >= CheckEvery
TrimDue(b) == CheckDue(b) /\ size > FileLimit

\* Keeps the older half.
MutNewerHalf(f) == SubSeq(f, 1, Len(f) \div 2)

\* The lines trim_file keeps.
NewerHalf(f) == SubSeq(f, Len(f) \div 2 + 1, Len(f))

Found == [lines |-> file, torn |-> torn, size |-> size, gap |-> gap, left |-> left]

\* Rewritten: half the lines are gone, with at least their newlines, and all the
\* others have one.
Halved ==
  {[lines |-> NewerHalf(file), torn |-> FALSE, size |-> s, gap |-> gap, left |-> s] :
     s \in Len(NewerHalf(file)) .. size - Len(file) \div 2 + (IF torn THEN 1 ELSE 0)}

\* The file cannot be inspected, read or opened: it stays.
Untrimmed == [Found EXCEPT !.left = size]

\* fs::write fails once it has truncated the file: the first n of the lines to
\* keep are there, the last of them perhaps in part.
Cut ==
  {[lines |-> SubSeq(NewerHalf(file), 1, n), torn |-> t /\ n > 0,
    size |-> IF n = 0 THEN 0 ELSE Larger(n, s), gap |-> pushed + 1,
    left |-> IF n = 0 THEN 0 ELSE Larger(n, s)] :
     n \in 0 .. Len(NewerHalf(file)), t \in BOOLEAN, s \in 0 .. size}

\* What append_to_file's check can leave of the file.
Checked(b) == IF TrimDue(b) THEN Halved \cup {Untrimmed} \cup Cut ELSE {Found}

\* The lines of a file r with one more: it starts where the file ends.
Joined(r) ==
  IF r.torn THEN [r.lines EXCEPT ![Len(r.lines)] = pushed + 1] ELSE Append(r.lines, pushed + 1)

\* The append works.
Written(r, b) ==
  /\ file' = Joined(r) /\ torn' = FALSE /\ size' = r.size + b
  /\ gap' = IF r.torn THEN pushed + 1 ELSE r.gap
  /\ left' = r.left
  /\ UNCHANGED persisting

\* It fails, with a part of the line written or none: nothing more is written in
\* this run.
Unwritten(r, b) ==
  /\ \/ file' = r.lines /\ torn' = r.torn /\ size' = r.size
     \/ \E part \in 1 .. b - 1 :
          file' = Joined(r) /\ torn' = TRUE /\ size' = r.size + part
  /\ gap' = r.gap /\ left' = r.left
  /\ persisting' = FALSE

-----------------------------------------------------------------------------
(* The buffer.                                                              *)

Remember ==
  /\ pushed < MaxLines
  /\ lines' = Append(IF Len(lines) = Capacity THEN Tail(lines) ELSE lines, pushed + 1)
  /\ version' = version + 1
  /\ pushed' = pushed + 1

\* LogBuffer::push of a line of b bytes: the file first.
Push(b) ==
  /\ persisting
  /\ Remember
  /\ unchecked' = IF CheckDue(b) THEN 0 ELSE unchecked + b
  /\ \E r \in Checked(b) : Written(r, b) \/ Unwritten(r, b)
  /\ UNCHANGED <<cleared, emptied, clears, runs>>

\* Nothing is written any more, or ever was in this run.
PushMemoryOnly ==
  /\ ~persisting
  /\ Remember
  /\ UNCHANGED <<persisting, unchecked, disk, cleared, emptied, clears, runs>>

Log == PushMemoryOnly \/ \E b \in 1 .. Longest : Push(b)

\* LogBuffer::clear.  A file that cannot be emptied is reported and left.
Clear ==
  /\ clears < MaxClears
  /\ clears' = clears + 1
  /\ lines' = <<>>
  /\ version' = version + 1
  /\ unchecked' = 0
  /\ cleared' = pushed
  /\ \/ persisting
        /\ file' = <<>> /\ torn' = FALSE /\ size' = 0 /\ left' = 0
        /\ emptied' = pushed
     \/ persisting /\ left' = size /\ UNCHANGED <<file, torn, size, emptied>>
     \/ ~persisting /\ UNCHANGED <<file, torn, size, left, emptied>>
  /\ UNCHANGED <<persisting, pushed, gap, runs>>

\* Opens the file without forcing a size check.
MutReopen ==
  /\ runs < MaxRuns
  /\ runs' = runs + 1
  /\ \E opens, reads \in BOOLEAN :
       /\ persisting' = opens
       /\ lines' = IF opens /\ reads THEN Newest(file, Capacity) ELSE <<>>
       /\ unchecked' = 0
  /\ version' = Len(lines')
  /\ gap' = 0
  /\ cleared' = emptied
  /\ UNCHANGED <<file, torn, size, left, pushed, emptied, clears>>

\* A new process: persist_to.  Without its directory it has no file, and a file
\* it cannot read is taken for an empty one.
Reopen ==
  /\ runs < MaxRuns
  /\ runs' = runs + 1
  /\ \E opens, reads \in BOOLEAN :
       /\ persisting' = opens
       /\ lines' = IF opens /\ reads THEN Newest(file, Capacity) ELSE <<>>
       /\ unchecked' = IF opens THEN FileLimit ELSE 0
  /\ version' = Len(lines')
  /\ gap' = 0
  /\ cleared' = emptied
  /\ UNCHANGED <<file, torn, size, left, pushed, emptied, clears>>

\* Any call of the buffer; LogView makes them.
BufferNext == Log \/ Clear \/ Reopen

-----------------------------------------------------------------------------
(* Properties.                                                              *)

\* Every variable has its type, and the buffer keeps to its capacity.
BufferTypeOK ==
  /\ lines \in Seq(1 .. MaxLines) /\ Len(lines) <= Capacity
  /\ file \in Seq(1 .. MaxLines)
  /\ {version, unchecked, size, pushed, gap, left, cleared, emptied} \subseteq Nat
  /\ clears \in 0 .. MaxClears /\ runs \in 1 .. MaxRuns
  /\ persisting \in BOOLEAN /\ torn \in BOOLEAN

\* The k-th line from the end, the newest being the 0th.
Back(s, k) == s[Len(s) - k]

\* As far back as both reach, a and b are the same line by line, unless neither
\* line is newer than g.
AgreeAfter(a, b, g) ==
  \A k \in 0 .. Len(a) - 1 :
    k < Len(b) /\ (Back(a, k) > g \/ Back(b, k) > g) => Back(a, k) = Back(b, k)

\* As long as the file is written, file and buffer agree from their newest
\* lines back, through trims, clears and restarts: each run goes on where the
\* last one ended.  A trim cut short, or a last line torn by an earlier run,
\* ends the agreement at the line that met it, and no further
\* (append_to_file, trim_file, persist_to).
FileAgreesWithBuffer == persisting => AgreeAfter(file, lines, gap)

\* The file is never more than a check interval and a line past its limit, or
\* past what the last attempt to trim or clear it left: half of the lines may
\* be most of the bytes, and the attempt may fail, but however short the runs
\* are there is one (persist_to, "force a size check on the first write").
FileBounded == size < Larger(FileLimit, left) + CheckEvery + Longest
=============================================================================
