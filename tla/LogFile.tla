------------------------------ MODULE LogFile ------------------------------
(***************************************************************************)
(* One Logger object (replay/Logger.cpp): the buffer that the threads of   *)
(* the traced program fill under m_log_mutex, the files it is flushed to,  *)
(* the split when a file is full, the exception when there are too many    *)
(* files, and the destructor the exit of the process runs.                 *)
(*                                                                         *)
(* Bytes are opaque but for the newline.  disk is what the streams were    *)
(* given, all files end to end; starts[i] is the offset at which file      *)
(* number i begins, so that the text of file i is                          *)
(* SubSeq(disk, starts[i] + 1, starts[i+1]).  The streams are in text mode *)
(* (Logger.cpp:25, 68): in the file a newline is two bytes.                *)
(***************************************************************************)
EXTENDS Integers, Sequences, FiniteSets, SequencesExt

CONSTANTS
  Threads,            \* the threads of the traced program
  Fini,               \* whoever runs Logger::Finalize
  Nobody,             \* the value of an unlocked mutex
  Bytes, NUL,         \* the bytes of lines, and the filler of m_buffer.resize
  NL,                 \* the byte of a newline
  Lines,              \* the lines that threads log
  BUF_SIZE, BIGGEST_FILE_SIZE, BIGGEST_FILE_NUMS,
  MaxCalls            \* bound: the calls of Logline each thread makes

ASSUME LogFileAssumption ==
  /\ Fini \notin Threads /\ Nobody \notin Threads \cup {Fini}
  /\ NL \in Bytes /\ NUL \notin Bytes /\ Lines \subseteq Seq(Bytes)
  /\ BUF_SIZE \in Nat \ {0} /\ BIGGEST_FILE_SIZE \in Nat \ {0}
  /\ BIGGEST_FILE_NUMS \in Nat \ {0} /\ MaxCalls \in Nat

\* vsnprintf counts in an int: there is a longest line.
ASSUME LongestLineAssumption ==
  \E l \in Lines : \A k \in Lines : Len(k) <= Len(l)

Actors == Threads \cup {Fini}

\* What a buffer or a file holds.
Text == Seq(Bytes \cup {NUL})

VARIABLES
  m_buffer,     \* std::string, a sequence of bytes
  m_size,       \* the bytes of m_buffer in use
  m_file_size, m_file_nums,
  m_log_mutex,  \* the actor that holds it, or Nobody
  m_out,        \* "open" or "closed"
  disk, starts, \* the files, as above
  pc, line,     \* per actor: the next statement, and the line to be logged
  calls,        \* per thread: the calls made
  status,       \* of the process
  logged, ends  \* history: the bytes of completed calls, and where lines end

object  == <<m_buffer, m_size, m_file_size, m_file_nums>>
files   == <<m_out, disk, starts>>
history == <<logged, ends>>
vars    == <<object, files, m_log_mutex, pc, line, calls, status, history>>

\* The statements that run between PIN_MutexLock and PIN_MutexUnlock.
Critical == {"check", "write", "reset", "split", "replace", "advance",
             "close", "unlock"}

Goto(a, label) == pc' = [pc EXCEPT ![a] = label]

\* Mutant: after a flush Logline tests again whether the line fits.
AfterFlushTestsAgain(a) == IF a = Fini THEN "close" ELSE "check"

\* The statement after the call of Flush, in Logline or in the destructor.
AfterFlush(a) == IF a = Fini THEN "close" ELSE "replace"

\* std::string::replace(pos, n, s): n bytes, or as many as there are.
Replaced(s, pos, n, l) == SubSeq(s, 1, pos) \o l \o SubSeq(s, pos + n + 1, Len(s))
-----------------------------------------------------------------------------
Init ==
  /\ m_buffer = [i \in 1..BUF_SIZE |-> NUL]
  /\ m_size = 0 /\ m_file_size = 0 /\ m_file_nums = 1
  /\ m_log_mutex = Nobody /\ m_out = "open"
  /\ disk = <<>> /\ starts = <<0>>
  /\ pc = [a \in Actors |-> IF a = Fini THEN "off" ELSE "idle"]
  /\ line = [a \in Actors |-> <<>>]
  /\ calls = [t \in Threads |-> 0]
  /\ status = "running"
  /\ logged = <<>> /\ ends = {0}

\* A thread of the traced program reaches an instrumented block.
Call(t) ==
  /\ pc[t] = "idle" /\ status = "running" /\ calls[t] < MaxCalls
  /\ \E l \in Lines : line' = [line EXCEPT ![t] = l]
  /\ calls' = [calls EXCEPT ![t] = @ + 1]
  /\ Goto(t, "lock")
  /\ UNCHANGED <<object, files, m_log_mutex, status, history>>

\* PIN_MutexLock: a spin lock, not recursive and not fair.
Lock(a) ==
  /\ pc[a] = "lock" /\ m_log_mutex = Nobody
  /\ m_log_mutex' = a
  /\ Goto(a, IF a = Fini THEN "write" ELSE "check")
  /\ UNCHANGED <<object, files, line, calls, status, history>>

\* Mutant: the bytes already buffered are not counted.
CheckLineAlone(t) ==
  /\ pc[t] = "check"
  /\ Goto(t, IF Len(line[t]) >= BUF_SIZE THEN "write" ELSE "replace")
  /\ UNCHANGED <<object, files, m_log_mutex, line, calls, status, history>>

\* Logline: does the line still fit?
Check(t) ==
  /\ pc[t] = "check"
  /\ Goto(t, IF Len(line[t]) + m_size >= BUF_SIZE THEN "write" ELSE "replace")
  /\ UNCHANGED <<object, files, m_log_mutex, line, calls, status, history>>

\* Mutant: all of the buffer is written, whatever it holds.
WriteWholeBuffer(a) ==
  /\ pc[a] = "write"
  /\ disk' = disk \o m_buffer
  /\ Goto(a, "reset")
  /\ UNCHANGED <<object, m_out, starts, m_log_mutex, line, calls, status, history>>

\* Flush: m_out->write and m_out->flush.  The stream is given m_size bytes,
\* whatever room they take in the file.
Write(a) ==
  /\ pc[a] = "write"
  /\ disk' = disk \o SubSeq(m_buffer, 1, m_size)
  /\ Goto(a, "reset")
  /\ UNCHANGED <<object, m_out, starts, m_log_mutex, line, calls, status, history>>

\* Flush: the buffer is emptied and the file's size brought up to date.
Reset(a) ==
  /\ pc[a] = "reset"
  /\ m_buffer' = <<>> /\ m_size' = 0
  /\ m_file_size' = m_file_size + m_size
  /\ Goto(a, IF m_file_size' >= BIGGEST_FILE_SIZE THEN "split" ELSE AfterFlush(a))
  /\ UNCHANGED <<m_file_nums, files, m_log_mutex, line, calls, status, history>>

\* Mutants: the file is cut at exactly BIGGEST_FILE_SIZE; m_file_size is not
\* reset.
SplitAtLimit(a) ==
  /\ pc[a] = "split" /\ m_file_nums <= BIGGEST_FILE_NUMS
  /\ m_file_nums' = m_file_nums + 1
  /\ m_file_size' = m_file_size - BIGGEST_FILE_SIZE
  /\ starts' = Append(starts, starts[Len(starts)] + BIGGEST_FILE_SIZE)
  /\ Goto(a, AfterFlush(a))
  /\ UNCHANGED <<m_buffer, m_size, m_out, disk, m_log_mutex, line, calls,
                 status, history>>

SplitKeepsFileSize(a) ==
  /\ pc[a] = "split" /\ m_file_nums <= BIGGEST_FILE_NUMS
  /\ m_file_nums' = m_file_nums + 1
  /\ starts' = Append(starts, Len(disk))
  /\ Goto(a, AfterFlush(a))
  /\ UNCHANGED <<m_buffer, m_size, m_file_size, m_out, disk, m_log_mutex, line,
                 calls, status, history>>

\* SplitFile: the next file is opened.
Split(a) ==
  /\ pc[a] = "split" /\ m_file_nums <= BIGGEST_FILE_NUMS
  /\ m_file_nums' = m_file_nums + 1
  /\ m_file_size' = 0
  /\ starts' = Append(starts, Len(disk))
  /\ Goto(a, AfterFlush(a))
  /\ UNCHANGED <<m_buffer, m_size, m_out, disk, m_log_mutex, line, calls,
                 status, history>>

\* SplitFile: "Too many logs".  Nothing between here and Encounter_Exception
\* unlocks the mutex; ExitProcess makes the process exit and so starts Fini.
ThrowInLogline(t) ==
  /\ pc[t] = "split" /\ m_file_nums > BIGGEST_FILE_NUMS
  /\ pc' = [pc EXCEPT ![t] = "gone", ![Fini] = "lock"]
  /\ status' = "exiting"
  /\ UNCHANGED <<object, files, m_log_mutex, line, calls, history>>

\* The same out of the destructor: ExitProcess finds the process exiting and
\* does nothing, and the rest of Finalize never runs.
ThrowInDestructor ==
  /\ pc[Fini] = "split" /\ m_file_nums > BIGGEST_FILE_NUMS
  /\ Goto(Fini, "gone")
  /\ status' = "aborted"
  /\ UNCHANGED <<object, files, m_log_mutex, line, calls, history>>

\* Mutant: the line is appended to m_buffer.
ReplaceAppends(t) ==
  /\ pc[t] = "replace"
  /\ m_buffer' = m_buffer \o line[t]
  /\ Goto(t, "advance")
  /\ UNCHANGED <<m_size, m_file_size, m_file_nums, files, m_log_mutex, line,
                 calls, status, history>>

\* Logline: m_buffer.replace(m_size, len, line).
Replace(t) ==
  /\ pc[t] = "replace"
  /\ m_buffer' = Replaced(m_buffer, m_size, Len(line[t]), line[t])
  /\ Goto(t, "advance")
  /\ UNCHANGED <<m_size, m_file_size, m_file_nums, files, m_log_mutex, line,
                 calls, status, history>>

\* Logline: m_size += len.  The line now counts as logged.
Advance(t) ==
  /\ pc[t] = "advance"
  /\ m_size' = m_size + Len(line[t])
  /\ logged' = logged \o line[t]
  /\ ends' = ends \cup {Len(logged')}
  /\ Goto(t, "unlock")
  /\ UNCHANGED <<m_buffer, m_file_size, m_file_nums, files, m_log_mutex, line,
                 calls, status>>

\* Mutant: the call ends without the unlock.
ReturnWithoutUnlock(t) ==
  /\ pc[t] = "unlock"
  /\ Goto(t, "idle")
  /\ UNCHANGED <<object, files, m_log_mutex, line, calls, status, history>>

\* PIN_MutexUnlock, and the end of the call.
UnlockInLogline(t) ==
  /\ pc[t] = "unlock"
  /\ m_log_mutex' = Nobody
  /\ Goto(t, "idle")
  /\ UNCHANGED <<object, files, line, calls, status, history>>

\* ~Logger: m_out->close.
CloseOut ==
  /\ pc[Fini] = "close"
  /\ m_out' = "closed"
  /\ Goto(Fini, "unlock")
  /\ UNCHANGED <<object, disk, starts, m_log_mutex, line, calls, status, history>>

\* ~Logger: PIN_MutexUnlock and PIN_MutexFini; the process is gone.
UnlockInDestructor ==
  /\ pc[Fini] = "unlock"
  /\ m_log_mutex' = Nobody
  /\ Goto(Fini, "gone")
  /\ status' = "exited"
  /\ UNCHANGED <<object, files, line, calls, history>>
-----------------------------------------------------------------------------
\* The traced program ends.  Pin stops its threads outside the tool's
\* routines, then calls Encounter_Finalize.
Exit ==
  /\ status = "running" /\ \A t \in Threads : pc[t] = "idle"
  /\ Goto(Fini, "lock")
  /\ status' = "exiting"
  /\ UNCHANGED <<object, files, m_log_mutex, line, calls, history>>

\* The process is killed.  A write under way may have got any part of the
\* buffer into the file.
Kill ==
  /\ status' = "killed"
  /\ \E n \in 0..m_size :
       /\ n > 0 => \E a \in Actors : pc[a] = "write"
       /\ disk' = disk \o SubSeq(m_buffer, 1, n)
  /\ UNCHANGED <<object, m_out, starts, m_log_mutex, pc, line, calls, history>>

Logline(t) ==
  \/ Call(t) \/ Check(t) \/ ThrowInLogline(t)
  \/ Replace(t) \/ Advance(t) \/ UnlockInLogline(t)

Shared(a) == Lock(a) \/ Write(a) \/ Reset(a) \/ Split(a)

Destructor == ThrowInDestructor \/ CloseOut \/ UnlockInDestructor

Alive == status \in {"running", "exiting"}

Step(a) == Alive /\ (Shared(a) \/ IF a = Fini THEN Destructor ELSE Logline(a))

Next == (\E a \in Actors : Step(a)) \/ (Alive /\ (Exit \/ Kill))

Spec == Init /\ [][Next]_vars

\* A thread inside the tool keeps running; none has to call it.  The lock is not
\* fair, but calls are finitely many, so a waiting thread gets it in the end.
FairSpec == Spec /\ \A a \in Actors : WF_vars(pc[a] # "idle" /\ Step(a))
-----------------------------------------------------------------------------
Statuses == {"running", "exiting", "exited", "aborted", "killed"}

\* The types of the variables (Logger.h:70-83).
TypeOK ==
  /\ m_buffer \in Text
  /\ m_size \in Nat /\ m_file_size \in Nat /\ m_file_nums \in Nat
  /\ m_log_mutex \in Actors \cup {Nobody}
  /\ m_out \in {"open", "closed"}
  /\ disk \in Text /\ starts \in Seq(Nat)
  /\ pc \in [Actors -> Critical \cup {"off", "idle", "lock", "gone"}]
  /\ line \in [Actors -> Seq(Bytes)]
  /\ calls \in [Threads -> 0..MaxCalls]
  /\ status \in Statuses
  /\ logged \in Seq(Bytes) /\ ends \in SUBSET Nat

\* The bytes of m_buffer that no file has yet.
Unwritten == IF \E a \in Actors : pc[a] = "reset" THEN <<>>
             ELSE SubSeq(m_buffer, 1, m_size)

\* While the process lives the files, then the unwritten part of the buffer,
\* are exactly the lines logged, in order: no interleaving of Logline, Flush
\* and SplitFile (Logger.cpp:39-78, 123-138) loses, repeats or tears a line.
Content == status # "killed" => disk \o Unwritten = logged

\* m_buffer.replace is never called past the end of the string, where it
\* throws out_of_range (Logger.cpp:134).
ReplaceInRange == \A t \in Threads : pc[t] = "replace" => m_size <= Len(m_buffer)

\* Only one actor is between PIN_MutexLock and PIN_MutexUnlock.
MutualExclusion ==
  \A a, b \in Actors : pc[a] \in Critical /\ pc[b] \in Critical => a = b

\* A line never straddles two files: a file begins where a line ends, though
\* SplitFile counts bytes only (Logger.cpp:47).
WholeLinesPerFile == \A i \in 1..Len(starts) : starts[i] \in ends

LongestLine == CHOOSE n \in {Len(l) : l \in Lines} : \A l \in Lines : Len(l) <= n

\* The most bytes the buffer ever holds: a line of BUF_SIZE bytes or more is
\* buffered all the same, alone.
Capacity == IF LongestLine < BUF_SIZE THEN BUF_SIZE - 1 ELSE LongestLine

\* The text that was given to file number i.
Meant(i) == SubSeq(disk, starts[i] + 1,
                   IF i < Len(starts) THEN starts[i+1] ELSE Len(disk))

Newlines(text) == {k \in 1..Len(text) : text[k] = NL}

\* The bytes that a text takes in a file: a \r is put before each \n.
SizeInFile(text) == Len(text) + Cardinality(Newlines(text))

\* m_file_size counts what the current file was given.  Every finished file was
\* given BIGGEST_FILE_SIZE bytes at least and less than one buffer more; it has
\* one byte more for each newline, so that it may be twice as large.  One file
\* is written beyond the BIGGEST_FILE_NUMS of Logger.cpp:8-9, and no more
\* (Logger.cpp:25, 44-68).
FileSizes ==
  /\ Len(starts) <= BIGGEST_FILE_NUMS + 1 /\ m_file_nums = Len(starts)
  /\ (status # "killed" /\ \A a \in Actors : pc[a] # "reset")
       => m_file_size = Len(Meant(Len(starts)))
  /\ \A i \in 1..(Len(starts) - 1) :
       /\ Len(Meant(i)) \in BIGGEST_FILE_SIZE..(BIGGEST_FILE_SIZE - 1 + Capacity)
       /\ SizeInFile(Meant(i)) \in
            BIGGEST_FILE_SIZE..(2 * (BIGGEST_FILE_SIZE - 1 + Capacity))

\* A process that dies loses at most one buffer of finished calls, and the
\* files hold a prefix of what was logged.
LossBound == IsPrefix(disk, logged) /\ Len(logged) - Len(disk) <= Capacity

\* A clean exit leaves nothing behind and the stream closed.
CleanExit == status = "exited" => disk = logged /\ m_out = "closed"

\* The mapping to the abstract stream.
phase == CASE status \in {"running", "exiting"} -> "open"
           [] status = "exited"                 -> "closed"
           [] OTHER                             -> "dead"

Stream == INSTANCE LogStream WITH accepted <- logged, durable <- disk

\* The logger implements the abstract stream.
ImplementsStream == Stream!Spec

\* "Too many logs": the thread that found them is gone, and has the mutex.
Threw == \E t \in Threads : pc[t] = "gone"

\* Every call of Logline returns, that with a line longer than the buffer too
\* (Logger.cpp:128-137), unless the process is killed meanwhile or a thread was
\* thrown out of SplitFile.
EveryCallReturns == \A t \in Threads :
  pc[t] = "lock" ~> (pc[t] = "idle" \/ status = "killed" \/ Threw)

\* An exit, once begun, runs to its end (Logger.cpp:28-37), with the same
\* exception.
ExitCompletes == status = "exiting" ~> (~Alive \/ Threw)

\* "too many logs, terminate process" (Logger.cpp:57): the exception makes the
\* process terminate.
TooManyLogsTerminates ==
  (\E a \in Actors : pc[a] = "split" /\ m_file_nums > BIGGEST_FILE_NUMS) ~> ~Alive
=============================================================================
