--------------------------- MODULE LoggerRegistry ---------------------------
(***************************************************************************)
(* Logger::s_loggers (replay/Logger.cpp): the loggers by file name, made   *)
(* at the first line for a name.  LogToF looks the name up, makes a Logger *)
(* when there is none, and looks it up again, all without a lock, in any   *)
(* number of threads; Finalize deletes what the map holds.                 *)
(*                                                                         *)
(* A Logger is kept as its buffer, its position in the file and the file   *)
(* name; LogFile has its inner life.  A second Logger for a name truncates *)
(* the file, and the first keeps writing where it was.  Lines are numbered *)
(* by the calls that log them, and take one place in the file each.        *)
(* Operations on the map itself are taken as atomic.                       *)
(***************************************************************************)
EXTENDS Naturals, Sequences, FiniteSets

CONSTANTS
  Threads, Names,
  Absent,     \* no entry in the map
  Capacity,   \* the lines a buffer takes before it is flushed
  MaxCalls    \* bound: the calls of LogToF, all threads together

ASSUME LoggerRegistryAssumption ==
  Absent \notin Nat /\ Capacity \in Nat \ {0} /\ MaxCalls \in Nat

Null == 0    \* an entry that operator[] made, not assigned yet
Hole == 0    \* what a file holds between its end and a later write

VARIABLES
  s_loggers,  \* name -> Absent, Null, or the number of a Logger
  loggers,    \* the Loggers ever made: [name, buffer, pos, owner]
  file,       \* name -> the lines in the file, in place
  pc, name,   \* per thread: next statement, file name
  logger,     \* per thread: the Logger it made or looked up
  call,       \* per thread: the number of its call
  calls,      \* the calls begun
  done,       \* history: name -> the lines its Loggers took, in order
  status      \* "running", "exiting" or "exited"

vars == <<s_loggers, loggers, file, pc, name, logger, call, calls, done, status>>

Goto(t, label) == pc' = [pc EXCEPT ![t] = label]

\* Threads that found no Logger for a name and have not entered theirs yet.
Registering(n) == {t \in Threads : pc[t] \in {"new", "insert", "assign"} /\ name[t] = n}

\* The file after lines ls are written at position p.
Written(f, p, ls) ==
  [k \in 1..(IF p + Len(ls) > Len(f) THEN p + Len(ls) ELSE Len(f)) |->
     IF k \in (p + 1)..(p + Len(ls)) THEN ls[k - p]
     ELSE IF k <= Len(f) THEN f[k] ELSE Hole]

Init ==
  /\ s_loggers = [n \in Names |-> Absent]
  /\ loggers = <<>>
  /\ file = [n \in Names |-> <<>>]
  /\ pc = [t \in Threads |-> "idle"]
  /\ name \in {[t \in Threads |-> n] : n \in Names}
  /\ logger = [t \in Threads |-> Null]
  /\ call = [t \in Threads |-> 0]
  /\ calls = 0 /\ done = [n \in Names |-> <<>>] /\ status = "running"

\* LogToF is called.
Call(t) ==
  /\ status = "running" /\ pc[t] = "idle" /\ calls < MaxCalls
  /\ \E n \in Names : name' = [name EXCEPT ![t] = n]
  /\ calls' = calls + 1
  /\ call' = [call EXCEPT ![t] = calls']
  /\ Goto(t, "find")
  /\ UNCHANGED <<s_loggers, loggers, file, logger, done, status>>

\* Mutant: every call makes a Logger.
FindNothing(t) ==
  /\ pc[t] = "find"
  /\ Goto(t, "new")
  /\ UNCHANGED <<s_loggers, loggers, file, name, logger, call, calls, done, status>>

\* s_loggers.find(filename).
Find(t) ==
  /\ pc[t] = "find"
  /\ Goto(t, IF s_loggers[name[t]] = Absent THEN "new" ELSE "lookup")
  /\ UNCHANGED <<s_loggers, loggers, file, name, logger, call, calls, done, status>>

\* new Logger(filename): the constructor opens the file and truncates it.
New(t) ==
  /\ pc[t] = "new"
  /\ loggers' = Append(loggers, [name |-> name[t], buffer |-> <<>>, pos |-> 0,
                                 owner |-> t])
  /\ logger' = [logger EXCEPT ![t] = Len(loggers')]
  /\ file' = [file EXCEPT ![name[t]] = <<>>]
  /\ Goto(t, "insert")
  /\ UNCHANGED <<s_loggers, name, call, calls, done, status>>

\* s_loggers[filename] = ...: operator[] makes an entry if there is none,
Insert(t) ==
  /\ pc[t] = "insert"
  /\ s_loggers' = [s_loggers EXCEPT ![name[t]] = IF @ = Absent THEN Null ELSE @]
  /\ Goto(t, "assign")
  /\ UNCHANGED <<loggers, file, name, logger, call, calls, done, status>>

\* Mutant: the new Logger is not entered.
AssignNothing(t) ==
  /\ pc[t] = "assign"
  /\ Goto(t, "lookup")
  /\ UNCHANGED <<s_loggers, loggers, file, name, logger, call, calls, done, status>>

\* and the pointer goes into it, whatever it held.
Assign(t) ==
  /\ pc[t] = "assign"
  /\ s_loggers' = [s_loggers EXCEPT ![name[t]] = logger[t]]
  /\ Goto(t, "lookup")
  /\ UNCHANGED <<loggers, file, name, logger, call, calls, done, status>>

\* s_loggers[filename] once more, for the call of Logline.
Lookup(t) ==
  /\ pc[t] = "lookup"
  /\ logger' = [logger EXCEPT ![t] = s_loggers[name[t]]]
  /\ Goto(t, "logline")
  /\ UNCHANGED <<s_loggers, loggers, file, name, call, calls, done, status>>

\* Logline, under the Logger's own mutex: the line goes into the buffer, which
\* is flushed first when it is full.
Logline(t) ==
  /\ pc[t] = "logline" /\ logger[t] # Null
  /\ LET g == loggers[logger[t]]
     IN IF Len(g.buffer) >= Capacity
        THEN /\ file' = [file EXCEPT ![g.name] = Written(@, g.pos, g.buffer)]
             /\ loggers' = [loggers EXCEPT ![logger[t]].buffer = <<call[t]>>,
                                           ![logger[t]].pos = @ + Len(g.buffer)]
        ELSE /\ loggers' = [loggers EXCEPT ![logger[t]].buffer = Append(@, call[t])]
             /\ UNCHANGED file
  /\ done' = [done EXCEPT ![name[t]] = Append(@, call[t])]
  /\ Goto(t, "idle")
  /\ UNCHANGED <<s_loggers, name, logger, call, calls, status>>

\* The pointer is null: an access violation, which Encounter_Exception turns
\* into the exit of the process.
LoglineThroughNull(t) ==
  /\ pc[t] = "logline" /\ logger[t] = Null
  /\ status' = "exiting"
  /\ Goto(t, "gone")
  /\ UNCHANGED <<s_loggers, loggers, file, name, logger, call, calls, done>>

LogToF(t) ==
  \/ Call(t) \/ Find(t) \/ New(t) \/ Insert(t) \/ Assign(t)
  \/ Lookup(t) \/ Logline(t) \/ LoglineThroughNull(t)

\* The program ends.
Exit ==
  /\ status = "running"
  /\ status' = "exiting"
  /\ UNCHANGED <<s_loggers, loggers, file, pc, name, logger, call, calls, done>>

\* The map's Loggers: those that Finalize finds.
Held == {s_loggers[n] : n \in Names} \ {Absent, Null}

\* Mutant: the map is cleared and no Logger is deleted.
FinalizeClearsOnly ==
  /\ status = "exiting" /\ \A t \in Threads : pc[t] \in {"idle", "gone"}
  /\ s_loggers' = [n \in Names |-> Absent]
  /\ status' = "exited"
  /\ UNCHANGED <<loggers, file, pc, name, logger, call, calls, done>>

\* Logger::Finalize, when Pin has stopped the threads outside of the tool: every
\* Logger in the map is deleted, and so flushed, and the map is cleared.
\* Deleting a null pointer does nothing.
Finalize ==
  /\ status = "exiting" /\ \A t \in Threads : pc[t] \in {"idle", "gone"}
  /\ file' = [n \in Names |->
       IF s_loggers[n] \in Held
       THEN Written(file[n], loggers[s_loggers[n]].pos, loggers[s_loggers[n]].buffer)
       ELSE file[n]]
  /\ loggers' = [l \in 1..Len(loggers) |->
       IF l \in Held
       THEN [loggers[l] EXCEPT !.buffer = <<>>, !.pos = @ + Len(loggers[l].buffer)]
       ELSE loggers[l]]
  /\ s_loggers' = [n \in Names |-> Absent]
  /\ status' = "exited"
  /\ UNCHANGED <<pc, name, logger, call, calls, done>>

Next == (\E t \in Threads : LogToF(t)) \/ Exit \/ Finalize

Spec == Init /\ [][Next]_vars
-----------------------------------------------------------------------------
\* The Loggers made for a name.
Made(n) == {l \in 1..Len(loggers) : loggers[l].name = n}

\* The race makes at most one Logger per thread and name: a thread that has
\* been through LogToF never truncates the file again (Logger.cpp:92-95).
LoggersPerThread ==
  \A k, l \in 1..Len(loggers) :
    loggers[k].name = loggers[l].name /\ loggers[k].owner = loggers[l].owner => k = l

\* A null entry is seen only while another thread is about to fill it: no null
\* is left behind for Finalize (Logger.cpp:94, 147).
NullIsTransient ==
  \A n \in Names : s_loggers[n] = Null => \E t \in Registering(n) : pc[t] = "assign"

\* Of the lines that Loggers took, none is lost to anything but a second Logger:
\* when a single one was made for a name its file ends up with each of them, once,
\* in the order logged, whatever the other names' Loggers do.  (A line that is
\* logged through the null entry is taken by none.) (Logger.cpp:90-98, 140-150)
SoleLoggerComplete ==
  status = "exited" =>
    \A n \in Names : Cardinality(Made(n)) <= 1 => file[n] = done[n]

=============================================================================
