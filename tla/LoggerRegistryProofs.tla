------------------------ MODULE LoggerRegistryProofs ------------------------
(***************************************************************************)
(* What the unlocked registry keeps, for any number of threads, names and  *)
(* calls.  A thread makes a Logger only after it has found no entry, and   *)
(* from its own entry on there is always one (Entered): so it makes no     *)
(* second one.  What is assigned is never null (Assigned): so a null entry *)
(* is still somebody's to fill.  Of a name with a single Logger the file   *)
(* and the buffer are all the lines taken (SoleInv).                       *)
(***************************************************************************)
EXTENDS LoggerRegistry, SequenceTheorems, FiniteSetTheorems, TLAPS

Logger == [name : Names, buffer : Seq(Nat), pos : Nat, owner : Threads]

Labels == {"idle", "find", "new", "insert", "assign", "lookup", "logline", "gone"}

TypeOK ==
  /\ s_loggers \in [Names -> Nat \cup {Absent}]
  /\ loggers \in Seq(Logger)
  /\ pc \in [Threads -> Labels] /\ name \in [Threads -> Names]
  /\ logger \in [Threads -> Nat \cup {Absent}]
  /\ call \in [Threads -> Nat] /\ calls \in Nat
  /\ status \in {"running", "exiting", "exited"}

\* Who made a Logger has entered it, or is about to.
Entered ==
  \A k \in 1..Len(loggers) :
    \/ status = "exited" \/ s_loggers[loggers[k].name] # Absent
    \/ pc[loggers[k].owner] = "insert" /\ name[loggers[k].owner] = loggers[k].name

\* A thread makes a Logger for a name it has made none for.
FirstOfThread ==
  \A t \in Threads : pc[t] = "new" =>
    \A k \in 1..Len(loggers) : loggers[k].owner = t => loggers[k].name # name[t]

\* A thread that enters its Logger has one.
Assigned == \A t \in Threads : pc[t] \in {"insert", "assign"} => logger[t] \in Nat \ {Null}

\* Finalize runs when no thread is in a call, and none begins one after it.
Stopped == status = "exited" => \A t \in Threads : pc[t] \in {"idle", "gone"}

IInv ==
  /\ TypeOK /\ Entered /\ FirstOfThread /\ Assigned /\ Stopped
  /\ LoggersPerThread /\ NullIsTransient

\* Every Logger has a file and an owner.
LEMMA LoggerTyped ==
  ASSUME TypeOK, NEW k \in 1..Len(loggers)
  PROVE  loggers[k].name \in Names /\ loggers[k].owner \in Threads
<1>1. loggers[k] \in Logger
  BY DEF TypeOK
<1> QED BY <1>1 DEF Logger

\* The empty map is in the invariant.
LEMMA InitInvariant == Init => IInv
<1> SUFFICES ASSUME Init PROVE IInv
  OBVIOUS
<1>1. PICK n \in Names : name = [t \in Threads |-> n]
  BY DEF Init
<1> USE LoggerRegistryAssumption DEF Init
<1>2. TypeOK
  BY <1>1 DEF TypeOK, Labels, Null
<1>3. Len(loggers) = 0
  OBVIOUS
<1> QED
  BY <1>2, <1>3 DEF IInv, Entered, FirstOfThread, Assigned, Stopped,
     LoggersPerThread, NullIsTransient, Null

\* A call begins, or goes on without touching the map or a Logger.
LEMMA QuietStep ==
  ASSUME IInv, NEW t \in Threads,
         Call(t) \/ Find(t) \/ Lookup(t) \/ LoglineThroughNull(t)
  PROVE  IInv'
<1> USE LoggerRegistryAssumption DEF IInv, Goto
<1>1. UNCHANGED <<s_loggers, loggers>>
  BY DEF Call, Find, Lookup, LoglineThroughNull
<1>2. TypeOK'
  <2>1. CASE Call(t)
    BY <2>1 DEF Call, TypeOK, Labels
  <2>2. CASE Find(t)
    BY <2>2 DEF Find, TypeOK, Labels
  <2>3. CASE Lookup(t)
    BY <2>3 DEF Lookup, TypeOK, Labels
  <2>4. CASE LoglineThroughNull(t)
    BY <2>4 DEF LoglineThroughNull, TypeOK, Labels
  <2> QED BY <2>1, <2>2, <2>3, <2>4
<1>3. /\ pc[t] \notin {"new", "insert", "assign"} /\ status # "exited"
      /\ pc'[t] \notin {"insert", "assign"} /\ status' # "exited"
      /\ \A u \in Threads \ {t} :
           pc'[u] = pc[u] /\ name'[u] = name[u] /\ logger'[u] = logger[u]
  BY DEF Call, Find, Lookup, LoglineThroughNull, TypeOK, Stopped
<1>4. Entered'
  BY <1>1, <1>3, LoggerTyped DEF Entered
<1>5. FirstOfThread'
  <2> SUFFICES ASSUME NEW u \in Threads, pc'[u] = "new", NEW k \in 1..Len(loggers),
                      loggers[k].owner = u
               PROVE  loggers[k].name # name'[u]
    BY <1>1 DEF FirstOfThread
  <2>1. CASE u = t
    <3>1. Find(t) /\ s_loggers[name[t]] = Absent /\ name' = name
      BY <2>1, <1>3 DEF Call, Find, Lookup, LoglineThroughNull, TypeOK
    <3> QED BY <2>1, <3>1, <1>3 DEF Entered
  <2>2. CASE u # t
    BY <2>2, <1>3 DEF FirstOfThread
  <2> QED BY <2>1, <2>2
<1>6. Assigned' /\ Stopped' /\ LoggersPerThread'
  BY <1>1, <1>3 DEF Assigned, Stopped, LoggersPerThread
<1>7. NullIsTransient'
  BY <1>1, <1>3 DEF NullIsTransient, Registering
<1> QED BY <1>2, <1>4, <1>5, <1>6, <1>7

\* A Logger is made by a thread that had none for the name.
LEMMA NewStep ==
  ASSUME IInv, NEW t \in Threads, New(t)
  PROVE  IInv'
<1> DEFINE made == [name |-> name[t], buffer |-> <<>>, pos |-> 0, owner |-> t]
           n    == Len(loggers)
<1> USE LoggerRegistryAssumption DEF IInv, Goto
<1>1. /\ pc[t] = "new" /\ loggers' = Append(loggers, made)
      /\ logger' = [logger EXCEPT ![t] = Len(loggers')]
      /\ pc' = [pc EXCEPT ![t] = "insert"]
      /\ UNCHANGED <<s_loggers, name, call, calls, status>>
  BY DEF New
<1>2. made \in Logger /\ loggers \in Seq(Logger)
  BY DEF TypeOK, Logger
<1> HIDE DEF made
<1>3. /\ n \in Nat /\ Len(loggers') = n + 1 /\ loggers'[n + 1] = made
      /\ \A k \in 1..n : loggers'[k] = loggers[k]
      /\ loggers' \in Seq(Logger)
  BY <1>1, <1>2
<1>4. made.name = name[t] /\ made.owner = t
  BY DEF made
<1>5. TypeOK'
  BY <1>1, <1>3 DEF TypeOK, Labels
<1>6. /\ pc'[t] = "insert" /\ status # "exited"
      /\ \A u \in Threads \ {t} : pc'[u] = pc[u] /\ logger'[u] = logger[u]
  BY <1>1 DEF TypeOK, Stopped
<1>7. Entered'
  <2> SUFFICES ASSUME NEW k \in 1..(n + 1)
               PROVE  \/ s_loggers[loggers'[k].name] # Absent
                      \/ /\ pc'[loggers'[k].owner] = "insert"
                         /\ name[loggers'[k].owner] = loggers'[k].name
    BY <1>1, <1>3 DEF Entered
  <2>1. CASE k = n + 1
    BY <2>1, <1>3, <1>4, <1>6
  <2>2. CASE k \in 1..n
    BY <2>2, <1>1, <1>3, <1>6 DEF Entered, TypeOK
  <2> QED BY <1>3, <2>1, <2>2
<1>8. FirstOfThread'
  <2> SUFFICES ASSUME NEW u \in Threads, pc'[u] = "new", NEW k \in 1..(n + 1),
                      loggers'[k].owner = u
               PROVE  loggers'[k].name # name[u]
    BY <1>1, <1>3 DEF FirstOfThread
  <2>1. u # t /\ k \in 1..n
    BY <1>3, <1>4, <1>6
  <2> QED BY <2>1, <1>3, <1>6 DEF FirstOfThread
<1>9. Assigned' /\ Stopped'
  BY <1>1, <1>3, <1>6 DEF Assigned, Stopped, Null, TypeOK
<1>10. LoggersPerThread'
  <2>1. \A k \in 1..n : ~(loggers[k].name = made.name /\ loggers[k].owner = made.owner)
    BY <1>1, <1>4 DEF FirstOfThread
  <2> QED BY <2>1, <1>3 DEF LoggersPerThread
<1>11. NullIsTransient'
  BY <1>1, <1>6 DEF NullIsTransient, Registering
<1> QED BY <1>5, <1>7, <1>8, <1>9, <1>10, <1>11

\* The entry is made, and then filled with what is not null.
LEMMA EnterStep ==
  ASSUME IInv, NEW t \in Threads, Insert(t) \/ Assign(t)
  PROVE  IInv'
<1> USE LoggerRegistryAssumption DEF IInv, Goto
<1>1. /\ UNCHANGED <<loggers, name, logger, call, calls, status>>
      /\ pc[t] \in {"insert", "assign"} /\ logger[t] \in Nat \ {Null}
      /\ \A u \in Threads \ {t} : pc'[u] = pc[u]
      /\ pc'[t] = IF pc[t] = "insert" THEN "assign" ELSE "lookup"
      /\ status # "exited"
  BY DEF Insert, Assign, TypeOK, Assigned, Stopped
<1>2. /\ s_loggers' \in [Names -> Nat \cup {Absent}]
      /\ s_loggers'[name[t]] # Absent
      /\ pc[t] = "assign" => s_loggers'[name[t]] # Null
      /\ \A n \in Names \ {name[t]} : s_loggers'[n] = s_loggers[n]
  <2>1. s_loggers' = [s_loggers EXCEPT ![name[t]] =
          IF pc[t] = "assign" THEN logger[t]
          ELSE IF s_loggers[name[t]] = Absent THEN Null ELSE s_loggers[name[t]]]
    BY DEF Insert, Assign
  <2>2. /\ s_loggers \in [Names -> Nat \cup {Absent}] /\ name[t] \in Names
        /\ Null \in Nat /\ Absent \notin Nat
    BY DEF TypeOK, Null
  <2> QED BY <1>1, <2>1, <2>2
<1>3. TypeOK'
  <2>1. pc' \in [Threads -> Labels]
    BY DEF Insert, Assign, TypeOK, Labels
  <2> QED BY <1>1, <1>2, <2>1 DEF TypeOK
<1>4. Entered'
  <2> SUFFICES ASSUME NEW k \in 1..Len(loggers)
               PROVE  \/ s_loggers'[loggers[k].name] # Absent
                      \/ /\ pc'[loggers[k].owner] = "insert"
                         /\ name[loggers[k].owner] = loggers[k].name
    BY <1>1 DEF Entered
  <2>1. CASE loggers[k].name = name[t]
    BY <2>1, <1>2
  <2>2. CASE loggers[k].name # name[t]
    BY <2>2, <1>1, <1>2, LoggerTyped DEF Entered
  <2> QED BY <2>1, <2>2
<1>5. FirstOfThread' /\ Assigned' /\ Stopped' /\ LoggersPerThread'
  BY <1>1 DEF FirstOfThread, Assigned, Stopped, LoggersPerThread
<1>6. NullIsTransient'
  <2> SUFFICES ASSUME NEW n \in Names, s_loggers'[n] = Null
               PROVE  \E u \in Threads : pc'[u] = "assign" /\ name[u] = n
    BY <1>1 DEF NullIsTransient, Registering
  <2>1. CASE n = name[t]
    BY <2>1, <1>1, <1>2
  <2>2. CASE n # name[t]
    <3>1. PICK u \in Threads : pc[u] = "assign" /\ name[u] = n
      BY <2>2, <1>2 DEF NullIsTransient, Registering
    <3> QED BY <3>1, <2>2, <1>1
  <2> QED BY <2>1, <2>2
<1> QED BY <1>3, <1>4, <1>5, <1>6

\* A line goes into a Logger, which stays that of its thread and name.
LEMMA LoglineStep ==
  ASSUME IInv, NEW t \in Threads, Logline(t)
  PROVE  IInv'
<1> USE LoggerRegistryAssumption DEF IInv, Goto
<1>1. /\ UNCHANGED <<s_loggers, name, logger, call, calls, status>>
      /\ pc[t] = "logline" /\ status # "exited"
      /\ pc'[t] = "idle" /\ pc' \in [Threads -> Labels]
      /\ \A u \in Threads \ {t} : pc'[u] = pc[u]
  BY DEF Logline, TypeOK, Stopped, Labels
<1>2. /\ loggers' \in Seq(Logger) /\ Len(loggers') = Len(loggers)
      /\ \A k \in 1..Len(loggers) : /\ loggers'[k].name = loggers[k].name
                                     /\ loggers'[k].owner = loggers[k].owner
  <2> DEFINE l == logger[t]
             g == loggers[l]
  <2>1. /\ loggers \in [1..Len(loggers) -> Logger] /\ Len(loggers) \in Nat
        /\ call[t] \in Nat
    BY DEF TypeOK
  <2>2. \/ loggers' = [loggers EXCEPT ![l].buffer = <<call[t]>>,
                                     ![l].pos = @ + Len(g.buffer)]
        \/ loggers' = [loggers EXCEPT ![l].buffer = Append(@, call[t])]
    BY DEF Logline
  <2>3. ASSUME NEW k \in 1..Len(loggers)
        PROVE  /\ loggers'[k] \in Logger
               /\ loggers'[k].name = loggers[k].name
               /\ loggers'[k].owner = loggers[k].owner
    <3>1. /\ loggers[k].buffer \in Seq(Nat) /\ loggers[k].pos \in Nat
          /\ loggers[k] \in Logger
      BY <2>1 DEF Logger
    <3>2. /\ Append(loggers[k].buffer, call[t]) \in Seq(Nat) /\ <<call[t]>> \in Seq(Nat)
          /\ loggers[k].pos + Len(loggers[k].buffer) \in Nat
      BY <2>1, <3>1
    <3>3. CASE k = l
      <4>1. \/ loggers'[k] = [loggers[k] EXCEPT !.buffer = <<call[t]>>,
                                                !.pos = @ + Len(loggers[k].buffer)]
            \/ loggers'[k] = [loggers[k] EXCEPT !.buffer = Append(loggers[k].buffer, call[t])]
        BY <2>1, <2>2, <3>3
      <4> QED BY <4>1, <3>1, <3>2 DEF Logger
    <3>4. CASE k # l
      BY <2>1, <2>2, <3>1, <3>4
    <3> QED BY <3>3, <3>4
  <2>4. DOMAIN loggers' = 1..Len(loggers) /\ loggers' = [k \in 1..Len(loggers) |-> loggers'[k]]
    BY <2>1, <2>2
  <2>5. loggers' \in [1..Len(loggers) -> Logger]
    BY <2>3, <2>4
  <2> QED BY <2>1, <2>3, <2>5
<1>3. TypeOK'
  BY <1>1, <1>2 DEF TypeOK
<1>4. Entered'
  BY <1>1, <1>2, LoggerTyped DEF Entered
<1>5. FirstOfThread' /\ Assigned' /\ Stopped' /\ LoggersPerThread'
  BY <1>1, <1>2 DEF FirstOfThread, Assigned, Stopped, LoggersPerThread
<1>6. NullIsTransient'
  BY <1>1 DEF NullIsTransient, Registering
<1> QED BY <1>3, <1>4, <1>5, <1>6

\* The end of the process: the Loggers are flushed and the map is cleared.
LEMMA EndStep ==
  ASSUME IInv, Exit \/ Finalize
  PROVE  IInv'
<1> USE LoggerRegistryAssumption DEF IInv
<1>1. CASE Exit
  BY <1>1 DEF Exit, TypeOK, Entered, FirstOfThread, Assigned, Stopped,
     LoggersPerThread, NullIsTransient, Registering
<1>2. CASE Finalize
  <2>1. /\ UNCHANGED <<pc, name, logger, call, calls>> /\ status' = "exited"
        /\ \A t \in Threads : pc[t] \in {"idle", "gone"}
        /\ s_loggers' = [n \in Names |-> Absent]
    BY <1>2 DEF Finalize
  <2>2. loggers' = [l \in 1..Len(loggers) |->
          IF l \in Held
          THEN [loggers[l] EXCEPT !.buffer = <<>>, !.pos = @ + Len(loggers[l].buffer)]
          ELSE loggers[l]]
    BY <1>2 DEF Finalize
  <2>3. /\ loggers \in [1..Len(loggers) -> Logger] /\ Len(loggers) \in Nat
    BY DEF TypeOK
  <2>4. ASSUME NEW k \in 1..Len(loggers)
        PROVE  /\ loggers'[k] \in Logger
               /\ loggers'[k].name = loggers[k].name
               /\ loggers'[k].owner = loggers[k].owner
    <3>1. /\ loggers[k].buffer \in Seq(Nat) /\ loggers[k].pos \in Nat
          /\ loggers[k] \in Logger
      BY <2>3 DEF Logger
    <3>2. loggers[k].pos + Len(loggers[k].buffer) \in Nat /\ <<>> \in Seq(Nat)
      BY <3>1
    <3> QED BY <2>2, <3>1, <3>2 DEF Logger
  <2>5. loggers' \in [1..Len(loggers) -> Logger]
    BY <2>2, <2>4
  <2>6. loggers' \in Seq(Logger) /\ Len(loggers') = Len(loggers)
    BY <2>3, <2>5
  <2>7. TypeOK'
    BY <2>1, <2>6 DEF TypeOK
  <2>8. LoggersPerThread'
    BY <2>4, <2>6 DEF LoggersPerThread
  <2>9. Entered' /\ FirstOfThread' /\ Assigned' /\ Stopped'
    BY <2>1 DEF Entered, FirstOfThread, Assigned, Stopped
  <2>10. NullIsTransient'
    BY <2>1 DEF NullIsTransient, Null
  <2> QED BY <2>7, <2>8, <2>9, <2>10
<1> QED BY <1>1, <1>2

\* Every step keeps the invariant.
LEMMA StepInvariant == IInv /\ [Next]_vars => IInv'
<1> SUFFICES ASSUME IInv, [Next]_vars PROVE IInv'
  OBVIOUS
<1>1. ASSUME NEW t \in Threads, LogToF(t) PROVE IInv'
  BY <1>1, QuietStep, NewStep, EnterStep, LoglineStep DEF LogToF
<1>2. CASE Exit \/ Finalize
  BY <1>2, EndStep
<1>3. CASE UNCHANGED vars
  BY <1>3 DEF vars, IInv, TypeOK, Entered, FirstOfThread, Assigned, Stopped,
     LoggersPerThread, NullIsTransient, Registering
<1> QED BY <1>1, <1>2, <1>3 DEF Next

\* The invariant holds of every reachable state of the registry.
THEOREM Invariance == Spec => []IInv
BY InitInvariant, StepInvariant, PTL DEF Spec

\* The race makes at most one Logger per thread and name, and so truncates a
\* file at most once per thread (Logger.cpp:92-95).
THEOREM LoggersPerThreadCorrect == Spec => []LoggersPerThread
BY Invariance, PTL DEF IInv

\* A null entry is about to be filled (Logger.cpp:94, 147).
THEOREM NullIsTransientCorrect == Spec => []NullIsTransient
BY Invariance, PTL DEF IInv

-----------------------------------------------------------------------------
(***************************************************************************)
(* A name with a single Logger.                                            *)
(***************************************************************************)

\* The only Logger of the name.
Sole(n, l) == l \in Made(n) /\ \A k \in Made(n) : k = l

\* What the map has for a name, and what a thread has in its hand, is a Logger
\* made for this name.
Pointed ==
  /\ \A n \in Names : s_loggers[n] \in {Absent, Null} \cup Made(n)
  /\ \A t \in Threads :
       /\ pc[t] \in {"insert", "assign"} => logger[t] \in Made(name[t])
       /\ pc[t] = "logline" => logger[t] \in {Null} \cup Made(name[t])
       /\ pc[t] = "lookup" => s_loggers[name[t]] # Absent

\* The file, then the buffer, of an only Logger are the lines taken for the name.
Whole ==
  /\ done \in [Names -> Seq(Nat)] /\ file \in [Names -> Seq(Nat)]
  /\ \A n \in Names :
       /\ Made(n) = {} => done[n] = <<>> /\ file[n] = <<>>
       /\ \A l \in Made(n) : Sole(n, l) =>
            /\ loggers[l].pos = Len(file[n])
            /\ file[n] \o loggers[l].buffer = done[n]
            /\ status = "exited" => loggers[l].buffer = <<>>

SoleInv == Pointed /\ Whole

\* A Logger that writes where the file ends puts its lines behind it
\* (Logger.cpp:39-43).
LEMMA WrittenAtEnd ==
  ASSUME NEW f \in Seq(Nat), NEW ls \in Seq(Nat)
  PROVE  Written(f, Len(f), ls) = f \o ls
<1> DEFINE w == Written(f, Len(f), ls)
           c == f \o ls
           m == Len(f)
           n == Len(f) + Len(ls)
<1>1. m \in Nat /\ Len(ls) \in Nat /\ n \in Nat
  BY LenProperties
<1>2. /\ c \in Seq(Nat) /\ Len(c) = n
      /\ \A k \in 1..n : c[k] = IF k <= m THEN f[k] ELSE ls[k - m]
  BY ConcatProperties
<1>3. (IF m + Len(ls) > m THEN m + Len(ls) ELSE m) = n
  BY <1>1
<1>4. w = [k \in 1..n |-> IF k \in (m + 1)..(m + Len(ls)) THEN ls[k - m]
                          ELSE IF k <= m THEN f[k] ELSE Hole]
  BY <1>3 DEF Written
<1>5. c = [k \in 1..n |-> c[k]]
  BY <1>2, LenProperties
<1> HIDE DEF w, c, n
<1>6. ASSUME NEW k \in 1..n PROVE w[k] = c[k]
  <2>1. (k \in (m + 1)..(m + Len(ls))) <=> ~(k <= m)
    BY <1>1 DEF n
  <2> QED BY <1>2, <1>4, <2>1
<1>7. w = [k \in 1..n |-> w[k]]
  BY <1>4
<1> QED BY <1>5, <1>6, <1>7 DEF w, c

\* Wherever a Logger writes, the file stays a file.
LEMMA WrittenIsFile ==
  ASSUME NEW f \in Seq(Nat), NEW p \in Nat, NEW ls \in Seq(Nat)
  PROVE  Written(f, p, ls) \in Seq(Nat)
<1> DEFINE n == IF p + Len(ls) > Len(f) THEN p + Len(ls) ELSE Len(f)
           E(k) == IF k \in (p + 1)..(p + Len(ls)) THEN ls[k - p]
                   ELSE IF k <= Len(f) THEN f[k] ELSE Hole
<1>1. Len(f) \in Nat /\ Len(ls) \in Nat /\ n \in Nat
  BY LenProperties
<1>2. ASSUME NEW k \in 1..n PROVE E(k) \in Nat
  <2>1. CASE k \in (p + 1)..(p + Len(ls))
    <3>1. k - p \in 1..Len(ls)
      BY <1>1, <2>1
    <3> QED BY <2>1, <3>1, ElementOfSeq
  <2>2. CASE k \notin (p + 1)..(p + Len(ls)) /\ k <= Len(f)
    <3>1. k \in 1..Len(f)
      BY <1>1, <2>2
    <3> QED BY <2>2, <3>1, ElementOfSeq
  <2>3. CASE k \notin (p + 1)..(p + Len(ls)) /\ ~(k <= Len(f))
    BY <2>3 DEF Hole
  <2> QED BY <2>1, <2>2, <2>3
<1>3. Written(f, p, ls) = [k \in 1..n |-> E(k)]
  BY DEF Written
<1> HIDE DEF n, E
<1> QED BY <1>1, <1>2, <1>3, IsASeq

\* What goes behind the buffer goes behind the file and the buffer.
LEMMA AppendBehind ==
  ASSUME NEW f \in Seq(Nat), NEW b \in Seq(Nat), NEW e \in Nat
  PROVE  /\ f \o Append(b, e) = Append(f \o b, e)
         /\ (f \o b) \o <<e>> = Append(f \o b, e)
         /\ f \o <<>> = f /\ f \o b \in Seq(Nat)
         /\ Len(f \o b) = Len(f) + Len(b)
<1>1. /\ f \o b \in Seq(Nat) /\ <<e>> \in Seq(Nat) /\ f \o <<>> = f
      /\ Len(f \o b) = Len(f) + Len(b)
  BY ConcatProperties, ConcatEmptySeq
<1>2. Append(b, e) = b \o <<e>> /\ Append(f \o b, e) = (f \o b) \o <<e>>
  BY <1>1, AppendIsConcat
<1>3. f \o (b \o <<e>>) = (f \o b) \o <<e>>
  BY <1>1, ConcatAssociative, SMTT(30)
<1> QED BY <1>1, <1>2, <1>3

\* A set of Loggers of at most one element.
LEMMA AtMostOne ==
  ASSUME TypeOK, NEW n \in Names, Cardinality(Made(n)) <= 1, NEW l \in Made(n)
  PROVE  Sole(n, l)
<1>1. IsFiniteSet(Made(n))
  <2>1. Made(n) \in SUBSET (1..Len(loggers))
    BY DEF Made
  <2>2. IsFiniteSet(1..Len(loggers))
    BY FS_Interval DEF TypeOK
  <2> QED BY <2>1, <2>2, FS_Subset
<1>2. ASSUME NEW k \in Made(n), k # l PROVE FALSE
  <2> DEFINE S == Made(n)
             R == S \ {l}
  <2> HIDE DEF S
  <2>1. IsFiniteSet(S) /\ Cardinality(S) \in Nat /\ Cardinality(S) <= 1 /\ l \in S /\ k \in S
    BY <1>1, FS_CardinalityType DEF S
  <2>2. /\ IsFiniteSet(R) /\ Cardinality(R) = Cardinality(S) - 1
    BY <2>1, FS_RemoveElement
  <2>3. Cardinality(R) \in Nat
    BY <2>2, FS_CardinalityType
  <2>4. Cardinality(R) = 0
    BY ONLY <2>1, <2>2, <2>3
  <2>5. R = {}
    BY ONLY <2>2, <2>4, FS_EmptySet
  <2> QED BY <2>1, <2>5, <1>2
<1> QED BY <1>2 DEF Sole

LEMMA SoleInit == Init => SoleInv
<1> SUFFICES ASSUME Init PROVE SoleInv
  OBVIOUS
<1>1. \A n \in Names : Made(n) = {} /\ done[n] = <<>> /\ file[n] = <<>> /\ s_loggers[n] = Absent
  BY DEF Init, Made
<1>2. Pointed
  BY <1>1 DEF Init, Pointed
<1>3. done \in [Names -> Seq(Nat)] /\ file \in [Names -> Seq(Nat)]
  BY DEF Init
<1> QED BY <1>1, <1>2, <1>3 DEF SoleInv, Whole

\* The Loggers stay, and so do their names.
LEMMA SoleQuiet ==
  ASSUME IInv, SoleInv, NEW t \in Threads,
         Call(t) \/ Find(t) \/ Lookup(t) \/ LoglineThroughNull(t)
  PROVE  SoleInv'
<1> USE DEF Goto
<1>1. /\ UNCHANGED <<s_loggers, loggers, file, done>>
      /\ status' # "exited" /\ status # "exited"
  BY DEF Call, Find, Lookup, LoglineThroughNull, IInv, Stopped
<1>2. \A n \in Names : Made(n)' = Made(n)
  BY <1>1 DEF Made
<1>3. /\ pc'[t] \notin {"insert", "assign"}
      /\ pc'[t] = "lookup" => s_loggers[name'[t]] # Absent
      /\ pc'[t] = "logline" => pc[t] = "lookup" /\ logger'[t] = s_loggers[name'[t]] /\ name' = name
      /\ \A u \in Threads \ {t} :
           pc'[u] = pc[u] /\ name'[u] = name[u] /\ logger'[u] = logger[u]
  BY DEF Call, Find, Lookup, LoglineThroughNull, IInv, TypeOK
<1>4. name[t] \in Names /\ \A u \in Threads : name[u] \in Names
  BY DEF IInv, TypeOK
<1>5. Pointed'
  <2>1. pc'[t] = "logline" => logger'[t] \in {Null} \cup Made(name'[t])
    BY <1>3, <1>4 DEF SoleInv, Pointed
  <2>2. ASSUME NEW u \in Threads
        PROVE  /\ pc'[u] \in {"insert", "assign"} => logger'[u] \in Made(name'[u])
               /\ pc'[u] = "logline" => logger'[u] \in {Null} \cup Made(name'[u])
               /\ pc'[u] = "lookup" => s_loggers[name'[u]] # Absent
    <3>1. CASE u = t
      BY <1>3, <2>1, <3>1
    <3>2. CASE u # t
      BY <1>3, <3>2 DEF SoleInv, Pointed
    <3> QED BY <3>1, <3>2
  <2>3. \A n \in Names : s_loggers'[n] \in {Absent, Null} \cup Made(n)'
    BY <1>1, <1>2 DEF SoleInv, Pointed
  <2>4. \A u \in Threads : Made(name[u])' = Made(name'[u])
    BY <1>1 DEF Made
  <2> QED BY <1>1, <2>2, <2>3, <2>4 DEF Pointed
<1>6. Whole'
  BY <1>1, <1>2 DEF SoleInv, Whole, Sole
<1> QED BY <1>5, <1>6 DEF SoleInv

\* The first Logger for a name starts with the file it truncates, and nothing was
\* taken for the name before.
LEMMA SoleNew ==
  ASSUME IInv, SoleInv, NEW t \in Threads, New(t)
  PROVE  SoleInv'
<1> DEFINE made == [name |-> name[t], buffer |-> <<>>, pos |-> 0, owner |-> t]
<1> PICK m : m = Len(loggers)
  OBVIOUS
<1>1. /\ pc[t] = "new" /\ loggers' = Append(loggers, made)
      /\ logger' = [logger EXCEPT ![t] = Len(loggers')]
      /\ pc' = [pc EXCEPT ![t] = "insert"]
      /\ file' = [file EXCEPT ![name[t]] = <<>>]
      /\ UNCHANGED <<s_loggers, name, done, status>>
      /\ status # "exited" /\ name[t] \in Names /\ m \in Nat
  <2>1. /\ pc[t] = "new" /\ loggers' = Append(loggers, made)
        /\ logger' = [logger EXCEPT ![t] = Len(loggers')]
        /\ pc' = [pc EXCEPT ![t] = "insert"]
        /\ file' = [file EXCEPT ![name[t]] = <<>>]
        /\ UNCHANGED <<s_loggers, name, done, status>>
    BY DEF New, Goto
  <2>2. status # "exited"
    BY <2>1 DEF IInv, Stopped
  <2>3. name[t] \in Names /\ m \in Nat
    BY LenProperties DEF IInv, TypeOK
  <2> QED BY <2>1, <2>2, <2>3
<1>2. made.name = name[t] /\ made.pos = 0 /\ made.buffer = <<>>
  OBVIOUS
<1>3. loggers \in Seq(Logger) /\ made \in Logger
  BY <1>1 DEF IInv, TypeOK, Logger
<1> HIDE DEF made
<1>4. /\ Len(loggers') = m + 1 /\ loggers'[m + 1] = made
      /\ \A k \in 1..m : loggers'[k] = loggers[k]
  BY <1>1, <1>3, AppendProperties
<1>5. \A n \in Names : Made(n)' = IF n = name[t] THEN Made(n) \cup {m + 1} ELSE Made(n)
  <2> SUFFICES ASSUME NEW n \in Names, NEW k
               PROVE  k \in Made(n)' <=> k \in Made(n) \/ (n = name[t] /\ k = m + 1)
    OBVIOUS
  <2>1. k \in 1..(m + 1) <=> (k \in 1..m \/ k = m + 1)
    BY <1>1
  <2>2. k \in 1..m => k # m + 1
    BY <1>1
  <2> QED BY <1>2, <1>4, <2>1, <2>2 DEF Made
<1>6. \A n \in Names : \A k \in Made(n) : k \in 1..m /\ loggers'[k] = loggers[k] /\ k # m + 1
  BY <1>1, <1>4 DEF Made
<1>7. Pointed'
  <2>1. \A n \in Names : s_loggers'[n] \in {Absent, Null} \cup Made(n)'
    BY <1>1, <1>5 DEF SoleInv, Pointed
  <2>2. ASSUME NEW u \in Threads
        PROVE  /\ pc'[u] \in {"insert", "assign"} => logger'[u] \in Made(name[u])'
               /\ pc'[u] = "logline" => logger'[u] \in {Null} \cup Made(name[u])'
               /\ pc'[u] = "lookup" => s_loggers'[name'[u]] # Absent
    <3>1. name'[u] = name[u] /\ name[u] \in Names /\ s_loggers' = s_loggers
      BY <1>1 DEF IInv, TypeOK
    <3>2. CASE u = t
      <4>1. pc'[u] = "insert" /\ logger'[u] = m + 1
        BY <1>1, <1>4, <3>2 DEF IInv, TypeOK
      <4> QED BY <1>1, <1>5, <3>2, <4>1
    <3>3. CASE u # t
      <4>1. pc'[u] = pc[u] /\ logger'[u] = logger[u]
        BY <1>1, <3>3 DEF IInv, TypeOK
      <4>2. \A n \in Names : Made(n) \subseteq Made(n)'
        BY <1>5
      <4> QED BY <3>1, <4>1, <4>2 DEF SoleInv, Pointed
    <3> QED BY <3>2, <3>3
  <2> QED BY <2>1, <2>2 DEF Pointed
<1>8. /\ done' \in [Names -> Seq(Nat)] /\ file' \in [Names -> Seq(Nat)]
      /\ file'[name[t]] = <<>> /\ \A n \in Names \ {name[t]} : file'[n] = file[n]
  BY <1>1 DEF SoleInv, Whole
<1>9. ASSUME NEW n \in Names
      PROVE  /\ Made(n)' = {} => done'[n] = <<>> /\ file'[n] = <<>>
             /\ \A l \in Made(n)' : Sole(n, l)' =>
                  /\ loggers'[l].pos = Len(file'[n])
                  /\ file'[n] \o loggers'[l].buffer = done'[n]
                  /\ status' = "exited" => loggers'[l].buffer = <<>>
  <2>1. CASE n # name[t]
    <3>1. Made(n)' = Made(n) /\ file'[n] = file[n] /\ done' = done /\ status' = status
      BY <1>1, <1>5, <1>8, <2>1
    <3>2. \A l \in Made(n) : loggers'[l] = loggers[l]
      BY <1>6
    <3>3. \A l : Sole(n, l)' <=> Sole(n, l)
      BY <3>1 DEF Sole
    <3> QED BY <3>1, <3>2, <3>3 DEF SoleInv, Whole
  <2>2. CASE n = name[t]
    <3>1. m + 1 \in Made(n)'
      BY <1>5, <2>2
    <3>2. ASSUME NEW l \in Made(n)', Sole(n, l)'
          PROVE  /\ loggers'[l].pos = Len(file'[n])
                 /\ file'[n] \o loggers'[l].buffer = done'[n]
                 /\ status' # "exited"
      <4>1. l = m + 1 /\ Made(n) = {}
        BY <1>5, <1>6, <2>2, <3>1, <3>2 DEF Sole
      <4>2. done[n] = <<>> /\ done' = done
        BY <1>1, <4>1 DEF SoleInv, Whole
      <4>3. <<>> \o <<>> = <<>> /\ Len(<<>>) = 0
        OBVIOUS
      <4> QED BY <1>1, <1>2, <1>4, <1>8, <2>2, <4>1, <4>2, <4>3
    <3> QED BY <3>1, <3>2
  <2> QED BY <2>1, <2>2
<1>10. Whole'
  BY <1>8, <1>9 DEF Whole
<1> QED BY <1>7, <1>10 DEF SoleInv

\* The map gets an entry of the name's own.
LEMMA SoleEnter ==
  ASSUME IInv, SoleInv, NEW t \in Threads, Insert(t) \/ Assign(t)
  PROVE  SoleInv'
<1> USE DEF Goto
<1>1. /\ UNCHANGED <<loggers, file, name, logger, done, status>>
      /\ pc[t] \in {"insert", "assign"}
      /\ pc'[t] = IF pc[t] = "insert" THEN "assign" ELSE "lookup"
      /\ \A u \in Threads \ {t} : pc'[u] = pc[u]
      /\ name[t] \in Names
  BY DEF Insert, Assign, IInv, TypeOK
<1>2. \A n : Made(n)' = Made(n)
  BY <1>1 DEF Made
<1>3. logger[t] \in Made(name[t]) /\ logger[t] # Absent
  BY <1>1, LoggerRegistryAssumption DEF SoleInv, Pointed, IInv, Assigned
<1>4. s_loggers' = [s_loggers EXCEPT ![name[t]] =
        IF pc[t] = "assign" THEN logger[t]
        ELSE IF s_loggers[name[t]] = Absent THEN Null ELSE s_loggers[name[t]]]
  BY DEF Insert, Assign
<1>5. /\ \A n \in Names : s_loggers'[n] \in {Absent, Null} \cup Made(n)
      /\ pc[t] = "assign" => s_loggers'[name[t]] # Absent
      /\ \A n \in Names : s_loggers[n] # Absent => s_loggers'[n] # Absent
  <2>1. /\ s_loggers \in [Names -> Nat \cup {Absent}] /\ Null # Absent
        /\ \A n \in Names : s_loggers[n] \in {Absent, Null} \cup Made(n)
    BY LoggerRegistryAssumption DEF SoleInv, Pointed, IInv, TypeOK, Null
  <2> QED BY <1>1, <1>3, <1>4, <2>1
<1>6. ASSUME NEW u \in Threads
      PROVE  /\ pc'[u] \in {"insert", "assign"} => logger[u] \in Made(name[u])
             /\ pc'[u] = "logline" => logger[u] \in {Null} \cup Made(name[u])
             /\ pc'[u] = "lookup" => s_loggers'[name[u]] # Absent
  <2>1. CASE u = t
    BY <1>1, <1>3, <1>5, <2>1
  <2>2. CASE u # t
    <3>1. name[u] \in Names /\ pc'[u] = pc[u]
      BY <1>1, <2>2 DEF IInv, TypeOK
    <3> QED BY <1>5, <3>1 DEF SoleInv, Pointed
  <2> QED BY <2>1, <2>2
<1>7. Pointed'
  BY <1>1, <1>2, <1>5, <1>6 DEF Pointed
<1>8. Whole'
  BY <1>1, <1>2 DEF SoleInv, Whole, Sole
<1> QED BY <1>7, <1>8 DEF SoleInv

\* The line goes behind the file and the buffer, with or without a flush between
\* them (Logger.cpp:123-138).
LEMMA SoleLogline ==
  ASSUME IInv, SoleInv, NEW t \in Threads, Logline(t)
  PROVE  SoleInv'
<1> PICK l, c : l = logger[t] /\ c = call[t]
  OBVIOUS
<1> PICK g : g = loggers[l]
  OBVIOUS
<1> PICK nm : nm = name[t]
  OBVIOUS
<1>1. /\ pc[t] = "logline" /\ l # Null /\ c \in Nat /\ nm \in Names
      /\ UNCHANGED <<s_loggers, name, logger, status>>
      /\ pc'[t] = "idle" /\ \A u \in Threads \ {t} : pc'[u] = pc[u]
      /\ done' = [done EXCEPT ![nm] = Append(done[nm], c)]
      /\ status # "exited"
  BY DEF Logline, Goto, IInv, TypeOK, Stopped
<1>2. l \in Made(nm) /\ l \in 1..Len(loggers) /\ g.name = nm
  BY <1>1 DEF SoleInv, Pointed, Made
<1>3. /\ loggers \in [1..Len(loggers) -> Logger] /\ Len(loggers) \in Nat
      /\ g \in Logger /\ g.buffer \in Seq(Nat) /\ g.pos \in Nat
  <2>1. loggers \in [1..Len(loggers) -> Logger] /\ Len(loggers) \in Nat
    BY DEF IInv, TypeOK
  <2> QED BY <1>2, <2>1 DEF Logger
<1> DEFINE Full == Len(g.buffer) >= Capacity
           new == IF Full THEN [g EXCEPT !.buffer = <<c>>, !.pos = g.pos + Len(g.buffer)]
                  ELSE [g EXCEPT !.buffer = Append(g.buffer, c)]
<1>4. /\ loggers' = [loggers EXCEPT ![l] = new]
      /\ file' = IF Full THEN [file EXCEPT ![nm] = Written(file[nm], g.pos, g.buffer)] ELSE file
  <2>1. CASE Full
    <3>1. /\ file' = [file EXCEPT ![nm] = Written(file[nm], g.pos, g.buffer)]
          /\ loggers' = [loggers EXCEPT ![l].buffer = <<c>>, ![l].pos = @ + Len(g.buffer)]
      BY <1>2, <2>1 DEF Logline
    <3>2. loggers' = [loggers EXCEPT ![l] = [g EXCEPT !.buffer = <<c>>, !.pos = g.pos + Len(g.buffer)]]
      BY <1>2, <1>3, <3>1 DEF Logger
    <3> QED BY <2>1, <3>1, <3>2
  <2>2. CASE ~Full
    BY <2>2 DEF Logline
  <2> QED BY <2>1, <2>2
<1>5. /\ new.name = nm
      /\ new.buffer = IF Full THEN <<c>> ELSE Append(g.buffer, c)
      /\ new.pos = IF Full THEN g.pos + Len(g.buffer) ELSE g.pos
  BY <1>2, <1>3 DEF Logger
<1> HIDE DEF new, Full
<1>6. /\ Len(loggers') = Len(loggers) /\ loggers'[l] = new
      /\ \A k \in 1..Len(loggers) : k # l => loggers'[k] = loggers[k]
      /\ \A k \in 1..Len(loggers) : loggers'[k].name = loggers[k].name
  <2>1. /\ DOMAIN loggers' = 1..Len(loggers) /\ loggers'[l] = new
        /\ \A k \in 1..Len(loggers) : k # l => loggers'[k] = loggers[k]
    BY <1>2, <1>3, <1>4
  <2>2. Len(loggers') = Len(loggers)
    BY <2>1, LoglineStep DEF IInv, TypeOK
  <2> QED BY <1>2, <1>5, <2>1, <2>2
<1>7. \A n : Made(n)' = Made(n)
  BY <1>6 DEF Made
<1>8. Pointed'
  BY <1>1, <1>7 DEF SoleInv, Pointed
<1>9. /\ file \in [Names -> Seq(Nat)] /\ done \in [Names -> Seq(Nat)]
      /\ done'[nm] = Append(done[nm], c)
      /\ \A n \in Names : n # nm => done'[n] = done[n] /\ file'[n] = file[n]
      /\ done' \in [Names -> Seq(Nat)]
  <2>1. file \in [Names -> Seq(Nat)] /\ done \in [Names -> Seq(Nat)]
    BY DEF SoleInv, Whole
  <2>2. Append(done[nm], c) \in Seq(Nat)
    BY <1>1, <2>1, AppendProperties
  <2> QED BY <1>1, <1>4, <2>1, <2>2
<1>10. file' \in [Names -> Seq(Nat)]
  <2>1. Written(file[nm], g.pos, g.buffer) \in Seq(Nat)
    BY <1>1, <1>3, <1>9, WrittenIsFile
  <2> QED BY <1>1, <1>4, <1>9, <2>1
<1>11. ASSUME Sole(nm, l)
       PROVE  new.pos = Len(file'[nm]) /\ file'[nm] \o new.buffer = done'[nm]
  <2>1. g.pos = Len(file[nm]) /\ file[nm] \o g.buffer = done[nm] /\ file[nm] \in Seq(Nat)
    BY <1>1, <1>2, <1>9, <1>11 DEF SoleInv, Whole
  <2>2. /\ file[nm] \o Append(g.buffer, c) = Append(file[nm] \o g.buffer, c)
        /\ (file[nm] \o g.buffer) \o <<c>> = Append(file[nm] \o g.buffer, c)
        /\ Len(file[nm] \o g.buffer) = Len(file[nm]) + Len(g.buffer)
    <3>1. c \in Nat /\ g.buffer \in Seq(Nat) /\ file[nm] \in Seq(Nat)
      BY <1>1, <1>3, <2>1
    <3> QED BY ONLY <3>1, AppendBehind
  <2>3. Written(file[nm], g.pos, g.buffer) = file[nm] \o g.buffer
    BY <1>3, <2>1, WrittenAtEnd
  <2>4. file'[nm] = IF Full THEN file[nm] \o g.buffer ELSE file[nm]
    BY <1>1, <1>4, <1>9, <2>3
  <2> QED BY <1>5, <1>9, <2>1, <2>2, <2>4
<1>12. ASSUME NEW n \in Names
       PROVE  /\ Made(n) = {} => done'[n] = <<>> /\ file'[n] = <<>>
              /\ \A k \in Made(n) : Sole(n, k) =>
                   /\ loggers'[k].pos = Len(file'[n])
                   /\ file'[n] \o loggers'[k].buffer = done'[n]
  <2>1. CASE n = nm
    <3>1. Made(n) # {}
      BY <1>2, <2>1
    <3>2. ASSUME NEW k \in Made(n), Sole(n, k)
          PROVE  loggers'[k].pos = Len(file'[n]) /\ file'[n] \o loggers'[k].buffer = done'[n]
      <4>1. k = l
        BY <1>2, <2>1, <3>2 DEF Sole
      <4> QED BY <1>6, <1>11, <2>1, <3>2, <4>1
    <3> QED BY <3>1, <3>2
  <2>2. CASE n # nm
    <3>1. \A k \in Made(n) : loggers'[k] = loggers[k]
      BY <1>2, <1>6, <2>2 DEF Made
    <3> QED BY <1>9, <2>2, <3>1 DEF SoleInv, Whole
  <2> QED BY <2>1, <2>2
<1>13. Whole'
  <2>1. \A n, k : Sole(n, k)' <=> Sole(n, k)
    BY <1>7 DEF Sole
  <2>2. done' \in [Names -> Seq(Nat)] /\ status' # "exited"
    BY <1>1, <1>9
  <2>3. ASSUME NEW n \in Names
        PROVE  /\ Made(n)' = {} => done'[n] = <<>> /\ file'[n] = <<>>
               /\ \A k \in Made(n)' : Sole(n, k)' =>
                    /\ loggers'[k].pos = Len(file'[n])
                    /\ file'[n] \o loggers'[k].buffer = done'[n]
    BY ONLY <1>7, <1>12, <2>1, n \in Names
  <2> QED BY ONLY <1>10, <2>2, <2>3 DEF Whole
<1> QED BY <1>8, <1>13 DEF SoleInv

\* Finalize finds the only Logger of a name in the map, and flushes it
\* (Logger.cpp:140-150).
LEMMA SoleFinalize ==
  ASSUME IInv, SoleInv, Finalize
  PROVE  SoleInv'
<1>1. /\ s_loggers' = [n \in Names |-> Absent] /\ status' = "exited"
      /\ UNCHANGED <<pc, name, logger, done>>
      /\ \A t \in Threads : pc[t] \in {"idle", "gone"}
      /\ status = "exiting"
  BY DEF Finalize
<1>2. /\ loggers \in [1..Len(loggers) -> Logger] /\ Len(loggers) \in Nat
  BY DEF IInv, TypeOK
<1>3. ASSUME NEW k \in 1..Len(loggers)
      PROVE  /\ loggers'[k].name = loggers[k].name
             /\ loggers[k].buffer \in Seq(Nat) /\ loggers[k].pos \in Nat
             /\ k \in Held => /\ loggers'[k].buffer = <<>>
                               /\ loggers'[k].pos = loggers[k].pos + Len(loggers[k].buffer)
  <2>1. loggers'[k] = IF k \in Held
          THEN [loggers[k] EXCEPT !.buffer = <<>>, !.pos = @ + Len(loggers[k].buffer)]
          ELSE loggers[k]
    BY DEF Finalize
  <2>2. loggers[k] \in Logger
    BY <1>2
  <2> QED BY <2>1, <2>2 DEF Logger
<1>4. Len(loggers') = Len(loggers)
  <2>1. loggers' \in Seq(Logger)
    BY EndStep DEF IInv, TypeOK
  <2>2. DOMAIN loggers' = 1..Len(loggers)
    BY DEF Finalize
  <2> QED BY <1>2, <2>1, <2>2, LenProperties
<1>5. \A n : Made(n)' = Made(n)
  BY <1>3, <1>4 DEF Made
<1>6. Pointed'
  BY <1>1 DEF Pointed
<1>7. file \in [Names -> Seq(Nat)] /\ done \in [Names -> Seq(Nat)] /\ done' = done
  BY <1>1 DEF SoleInv, Whole
<1>8. ASSUME NEW n \in Names
      PROVE  /\ file'[n] \in Seq(Nat)
             /\ Made(n) = {} => file'[n] = file[n]
             /\ s_loggers[n] \in Made(n) =>
                  file'[n] = Written(file[n], loggers[s_loggers[n]].pos, loggers[s_loggers[n]].buffer)
  <2>1. file'[n] = IF s_loggers[n] \in Held
          THEN Written(file[n], loggers[s_loggers[n]].pos, loggers[s_loggers[n]].buffer)
          ELSE file[n]
    BY DEF Finalize
  <2>2. s_loggers[n] \in Held <=> s_loggers[n] \in Made(n)
    <3>1. \A k \in Made(n) : k \in Nat \ {0} /\ k # Absent
      BY <1>2, LoggerRegistryAssumption DEF Made
    <3> QED BY <3>1 DEF SoleInv, Pointed, Held, Null
  <2>3. s_loggers[n] \in Made(n) => s_loggers[n] \in 1..Len(loggers)
    BY DEF Made
  <2> QED BY <1>3, <1>7, <2>1, <2>2, <2>3, WrittenIsFile
<1>9. ASSUME NEW n \in Names, NEW l \in Made(n), Sole(n, l)
      PROVE  /\ loggers'[l].pos = Len(file'[n]) /\ loggers'[l].buffer = <<>>
             /\ file'[n] \o loggers'[l].buffer = done[n]
  <2>1. l \in 1..Len(loggers) /\ loggers[l].name = n
    BY DEF Made
  <2>2. s_loggers[n] # Absent
    <3>1. loggers[l].owner \in Threads
      BY <2>1, LoggerTyped DEF IInv
    <3>2. pc[loggers[l].owner] # "insert" /\ status # "exited"
      BY <1>1, <3>1
    <3> QED BY <2>1, <3>2 DEF IInv, Entered
  <2>3. s_loggers[n] # Null
    BY <1>1 DEF IInv, NullIsTransient, Registering
  <2>4. s_loggers[n] = l
    BY <1>9, <2>2, <2>3 DEF SoleInv, Pointed, Sole
  <2>5. l \in Held
    BY <2>2, <2>3, <2>4 DEF Held
  <2>6. loggers[l].pos = Len(file[n]) /\ file[n] \o loggers[l].buffer = done[n]
    BY <1>9 DEF SoleInv, Whole
  <2>7. file[n] \in Seq(Nat) /\ loggers[l].buffer \in Seq(Nat)
    BY <1>3, <1>7, <2>1
  <2>8. file'[n] = file[n] \o loggers[l].buffer
    BY <1>8, <2>4, <2>6, <2>7, WrittenAtEnd
  <2>9. /\ (file[n] \o loggers[l].buffer) \o <<>> = file[n] \o loggers[l].buffer
        /\ Len(file[n] \o loggers[l].buffer) = Len(file[n]) + Len(loggers[l].buffer)
    BY <2>7, ConcatProperties, ConcatEmptySeq
  <2> QED BY <1>3, <2>1, <2>5, <2>6, <2>8, <2>9
<1>10. file' \in [Names -> Seq(Nat)]
  <2>1. file' = [n \in Names |-> file'[n]]
    BY DEF Finalize
  <2> QED BY <1>8, <2>1
<1>11. Whole'
  <2>1. \A n, k : Sole(n, k)' <=> Sole(n, k)
    BY <1>5 DEF Sole
  <2>2. \A n \in Names : Made(n) = {} => done[n] = <<>> /\ file'[n] = <<>>
    BY <1>8 DEF SoleInv, Whole
  <2> QED BY <1>5, <1>7, <1>9, <1>10, <2>1, <2>2 DEF Whole
<1> QED BY <1>6, <1>11 DEF SoleInv

LEMMA SoleStep == IInv /\ SoleInv /\ [Next]_vars => SoleInv'
<1> SUFFICES ASSUME IInv, SoleInv, [Next]_vars PROVE SoleInv'
  OBVIOUS
<1>1. ASSUME NEW t \in Threads, LogToF(t) PROVE SoleInv'
  BY <1>1, SoleQuiet, SoleNew, SoleEnter, SoleLogline DEF LogToF
<1>2. CASE Exit
  <2>1. /\ UNCHANGED <<s_loggers, loggers, file, pc, name, logger, done>>
        /\ status' # "exited"
    BY <1>2 DEF Exit
  <2>2. /\ \A n : Made(n)' = Made(n)
        /\ \A n, l : Sole(n, l)' <=> Sole(n, l)
    BY <2>1 DEF Made, Sole
  <2>3. Pointed'
    BY <2>1, <2>2 DEF SoleInv, Pointed
  <2>4. Whole'
    BY <2>1, <2>2 DEF SoleInv, Whole
  <2> QED BY <2>3, <2>4 DEF SoleInv
<1>3. CASE Finalize
  BY <1>3, SoleFinalize
<1>4. CASE UNCHANGED vars
  <2>1. UNCHANGED <<s_loggers, loggers, file, pc, name, logger, done, status>>
    BY <1>4 DEF vars
  <2>2. /\ \A n : Made(n)' = Made(n)
        /\ \A n, l : Sole(n, l)' <=> Sole(n, l)
    BY <2>1 DEF Made, Sole
  <2>3. Pointed'
    BY <2>1, <2>2 DEF SoleInv, Pointed
  <2>4. Whole'
    BY <2>1, <2>2 DEF SoleInv, Whole
  <2> QED BY <2>3, <2>4 DEF SoleInv
<1> QED BY <1>1, <1>2, <1>3, <1>4 DEF Next

\* The only Logger of a name loses nothing: its file ends with every line taken for
\* the name, whatever the threads do to the other names (Logger.cpp:90-98, 140-150).
THEOREM SoleLoggerCorrect == Spec => []SoleLoggerComplete
<1>1. IInv /\ SoleInv => SoleLoggerComplete
  <2> SUFFICES ASSUME IInv, SoleInv, status = "exited",
                      NEW n \in Names, Cardinality(Made(n)) <= 1
               PROVE  file[n] = done[n]
    BY DEF SoleLoggerComplete
  <2>1. CASE Made(n) = {}
    BY <2>1 DEF SoleInv, Whole
  <2>2. CASE Made(n) # {}
    <3>1. PICK l \in Made(n) : TRUE
      BY <2>2
    <3>2. Sole(n, l)
      BY <3>1, AtMostOne DEF IInv
    <3>3. loggers[l].buffer = <<>> /\ file[n] \o <<>> = done[n] /\ file[n] \in Seq(Nat)
      BY <3>1, <3>2 DEF SoleInv, Whole
    <3> QED BY <3>3, ConcatEmptySeq
  <2> QED BY <2>1, <2>2
<1>2. Init => SoleInv
  BY SoleInit
<1>3. IInv /\ SoleInv /\ [Next]_vars => SoleInv'
  BY SoleStep
<1> QED BY <1>1, <1>2, <1>3, Invariance, PTL DEF Spec
==============================================================================
