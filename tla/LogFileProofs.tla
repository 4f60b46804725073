--------------------------- MODULE LogFileProofs ---------------------------
(***************************************************************************)
(* The Logger's safety for every number of threads, every set of lines and *)
(* every limit: first that lines reach the disk whole and in order (IInv), *)
(* then where the files are cut, how large they get and how much a process *)
(* that dies can lose (SizeInv), then the refinement of LogStream, and     *)
(* last a disk that refuses (FaultInv).                                    *)
(***************************************************************************)
EXTENDS FaultyLogFile, TLAPS, SequenceTheorems, FiniteSetTheorems

(***************************************************************************)
(* Sequences.                                                              *)
(***************************************************************************)

\* A piece of s is t when it has t's elements.
LEMMA SubSeqIs ==
  ASSUME NEW S, NEW s \in Seq(S), NEW t \in Seq(S), NEW m \in Nat \ {0},
         m - 1 + Len(t) <= Len(s),
         \A i \in 1..Len(t) : s[m - 1 + i] = t[i]
  PROVE  SubSeq(s, m, m - 1 + Len(t)) = t
<1> DEFINE n == m - 1 + Len(t)
           u == SubSeq(s, m, n)
<1>1. Len(t) \in Nat /\ Len(s) \in Nat
  BY LenProperties
<1>2. n \in Int /\ n - m + 1 = Len(t)
  BY <1>1
<1>3. \A i \in m..n : s[i] \in S
  BY <1>1, ElementOfSeq
<1> HIDE DEF n
<1>4. /\ u \in Seq(S) /\ Len(u) = (IF m <= n THEN n - m + 1 ELSE 0)
      /\ \A i \in 1..(n - m + 1) : u[i] = s[m + i - 1]
  BY <1>2, <1>3, SubSeqProperties
<1>5. Len(u) = Len(t)
  BY <1>1, <1>2, <1>4
<1>6. \A i \in 1..Len(u) : u[i] = t[i]
  <2> SUFFICES ASSUME NEW i \in 1..Len(t) PROVE u[i] = t[i]
    BY <1>5
  <2>1. m + i - 1 = m - 1 + i /\ i \in 1..(n - m + 1)
    BY <1>1, <1>2
  <2> QED
    BY <1>4, <2>1
<1> HIDE DEF u
<1>7. u = t
  BY <1>4, <1>5, <1>6, SeqEqual
<1> QED
  BY <1>7 DEF u, n

\* The elements of a prefix.
LEMMA PrefixIs ==
  ASSUME NEW S, NEW s \in Seq(S), NEW p \in 0..Len(s)
  PROVE  /\ SubSeq(s, 1, p) \in Seq(S) /\ Len(SubSeq(s, 1, p)) = p
         /\ \A i \in 1..p : SubSeq(s, 1, p)[i] = s[i]
<1>1. Len(s) \in Nat /\ p \in Int
  BY LenProperties
<1>2. \A i \in 1..p : s[i] \in S
  BY <1>1, ElementOfSeq
<1>3. /\ SubSeq(s, 1, p) \in Seq(S)
      /\ Len(SubSeq(s, 1, p)) = (IF 1 <= p THEN p - 1 + 1 ELSE 0)
      /\ \A i \in 1..(p - 1 + 1) : SubSeq(s, 1, p)[i] = s[1 + i - 1]
  BY <1>1, <1>2, SubSeqProperties
<1> QED
  BY <1>1, <1>3

(***************************************************************************)
(* What std::string::replace does to a string s at a position p inside it. *)
(***************************************************************************)

\* The text up to p stays, the new text stands behind it (Logger.cpp:134).
LEMMA ReplacedText ==
  ASSUME NEW S, NEW s \in Seq(S), NEW l \in Seq(S),
         NEW p \in 0..Len(s), NEW n \in Nat
  PROVE  /\ Replaced(s, p, n, l) \in Seq(S)
         /\ p + Len(l) <= Len(Replaced(s, p, n, l))
         /\ SubSeq(Replaced(s, p, n, l), 1, p) = SubSeq(s, 1, p)
         /\ SubSeq(Replaced(s, p, n, l), p + 1, p + Len(l)) = l
<1> DEFINE head == SubSeq(s, 1, p)
           tail == SubSeq(s, p + n + 1, Len(s))
           text == head \o l
           r    == text \o tail
<1>1. /\ head \in Seq(S) /\ Len(head) = p
  BY PrefixIs
<1>2. Len(l) \in Nat /\ Len(s) \in Nat /\ p \in Nat
  BY LenProperties
<1>3. tail \in Seq(S)
  <2>1. \A i \in (p + n + 1)..Len(s) : s[i] \in S
    BY <1>2, ElementOfSeq
  <2> QED
    BY <1>2, <2>1, SubSeqProperties
<1>4. Len(tail) \in Nat
  BY <1>3, LenProperties
<1> HIDE DEF r, text, head, tail
<1>5. /\ text \in Seq(S) /\ Len(text) = p + Len(l)
      /\ \A i \in 1..(p + Len(l)) : text[i] = IF i <= p THEN head[i] ELSE l[i - p]
  BY <1>1, ConcatProperties DEF text
<1>6. /\ r \in Seq(S) /\ Len(r) = Len(text) + Len(tail)
      /\ \A i \in 1..(Len(text) + Len(tail)) :
           r[i] = IF i <= Len(text) THEN text[i] ELSE tail[i - Len(text)]
  BY <1>3, <1>5, ConcatProperties DEF r
<1>7. p + Len(l) <= Len(r)
  BY <1>2, <1>4, <1>5, <1>6
<1>8. SubSeq(r, 1, p) = head
  <2>1. \A i \in 1..Len(head) : r[1 - 1 + i] = head[i]
    BY <1>1, <1>2, <1>4, <1>5, <1>6
  <2>2. SubSeq(r, 1, 1 - 1 + Len(head)) = head
    BY <1>1, <1>2, <1>6, <1>7, <2>1, SubSeqIs
  <2> QED
    BY <1>1, <1>2, <2>2
<1>9. SubSeq(r, p + 1, p + Len(l)) = l
  <2>1. \A i \in 1..Len(l) : r[p + 1 - 1 + i] = l[i]
    BY <1>2, <1>4, <1>5, <1>6
  <2>2. SubSeq(r, p + 1, p + 1 - 1 + Len(l)) = l
    BY <1>2, <1>6, <1>7, <2>1, SubSeqIs
  <2> QED
    BY <1>2, <2>2
<1>10. Replaced(s, p, n, l) = r
  BY DEF Replaced, r, text, head, tail
<1> QED
  BY <1>6, <1>7, <1>8, <1>9, <1>10 DEF head
\* The same for the texts of the model, and what else is needed of them.
LEMMA Texts ==
  /\ \A x, y, z \in Text : x \o (y \o z) = (x \o y) \o z
  /\ \A x, y \in Text : x \o y \in Text
  /\ <<>> \in Text
  /\ \A x \in Text : x \o <<>> = x /\ Len(x) \in Nat
  /\ \A x \in Text, p \in Nat : p <= Len(x) => SubSeq(x, 1, p) \in Text
  /\ \A x \in Seq(Bytes) : x \in Text
<1> DEFINE S == Bytes \cup {NUL}
<1>1. \A x, y, z \in Seq(S) : x \o (y \o z) = (x \o y) \o z
  <2> HIDE DEF S
  <2> TAKE x, y, z \in Seq(S)
  <2>1. (x \o y) \o z = x \o (y \o z)
    BY ConcatAssociative, SMTT(30)
  <2> QED
    BY <2>1
<1>2. \A x, y \in Seq(S) : x \o y \in Seq(S)
  BY ConcatProperties
<1>3. \A x \in Seq(S) : x \o <<>> = x /\ Len(x) \in Nat
  BY ConcatEmptySeq, LenProperties
<1>4. \A x \in Seq(S), p \in Nat : p <= Len(x) => SubSeq(x, 1, p) \in Seq(S)
  <2> HIDE DEF S
  <2> SUFFICES ASSUME NEW x \in Seq(S), NEW p \in Nat, p <= Len(x)
               PROVE  SubSeq(x, 1, p) \in Seq(S)
    OBVIOUS
  <2>1. p \in 0..Len(x)
    BY LenProperties
  <2> QED
    BY <2>1, PrefixIs
<1>5. \A x \in Seq(Bytes) : x \in Seq(S)
  BY SeqMonotonic
<1>6. <<>> \in Seq(S)
  BY EmptySeq
<1> QED
  BY <1>6, <1>1, <1>2, <1>3, <1>4, <1>5 DEF Text

\* What the buffer holds before and behind the bytes that replace has put at m_size
\* (Logger.cpp:134).
LEMMA ReplacedInBuffer ==
  \A s, l \in Text, p, n \in Nat : p <= Len(s) =>
    /\ Replaced(s, p, n, l) \in Text
    /\ p + Len(l) <= Len(Replaced(s, p, n, l))
    /\ SubSeq(Replaced(s, p, n, l), 1, p) = SubSeq(s, 1, p)
    /\ SubSeq(Replaced(s, p, n, l), p + 1, p + Len(l)) = l
<1> DEFINE S == Bytes \cup {NUL}
<1> HIDE DEF S
<1> SUFFICES ASSUME NEW s \in Seq(S), NEW l \in Seq(S), NEW p \in Nat,
                    NEW n \in Nat, p <= Len(s)
             PROVE  /\ Replaced(s, p, n, l) \in Seq(S)
                    /\ p + Len(l) <= Len(Replaced(s, p, n, l))
                    /\ SubSeq(Replaced(s, p, n, l), 1, p) = SubSeq(s, 1, p)
                    /\ SubSeq(Replaced(s, p, n, l), p + 1, p + Len(l)) = l
  BY DEF Text, S
<1>1. p \in 0..Len(s)
  BY LenProperties
<1> QED
  BY <1>1, ReplacedText

\* A line that stands behind the bytes in use, once counted, is what the text
\* before it was extended by.
LEMMA LineCounted ==
  \A d, s, l \in Text, p \in Nat :
    p + Len(l) <= Len(s) /\ SubSeq(s, p + 1, p + Len(l)) = l
      => d \o SubSeq(s, 1, p + Len(l)) = (d \o SubSeq(s, 1, p)) \o l
<1> DEFINE S == Bytes \cup {NUL}
<1>0. Text = Seq(S)
  BY DEF Text
<1> HIDE DEF S
<1> TAKE d, s, l \in Text, p \in Nat
<1> HAVE p + Len(l) <= Len(s) /\ SubSeq(s, p + 1, p + Len(l)) = l
<1>a. d \in Seq(S) /\ s \in Seq(S) /\ l \in Seq(S)
  BY ONLY <1>0
<1>1. Len(s) \in Nat /\ Len(l) \in Nat
  BY <1>a, LenProperties
<1>2. /\ 1 \in 1..(Len(s) + 1) /\ p \in (1 - 1)..Len(s)
      /\ p + Len(l) \in p..Len(s) /\ p \in 0..Len(s)
  BY <1>1
<1> DEFINE h == SubSeq(s, 1, p)
<1>3. SubSeq(s, 1, p + Len(l)) = h \o l
  BY <1>a, <1>2, ConcatAdjacentSubSeq
<1>4. h \in Seq(S)
  BY <1>a, <1>2, PrefixIs
<1> HIDE DEF h
<1>5. d \o (h \o l) = (d \o h) \o l
  <2>1. d \in Text /\ h \in Text /\ l \in Text
    BY ONLY <1>0, <1>a, <1>4
  <2>2. \A x, y, z \in Text : x \o (y \o z) = (x \o y) \o z
    BY Texts
  <2> QED BY ONLY <2>1, <2>2
<1> QED
  BY <1>3, <1>5 DEF h

-----------------------------------------------------------------------------
(***************************************************************************)
(* The inductive invariant.                                                *)
(***************************************************************************)

\* The mutex belongs to whoever is between the lock and the unlock.
Holder == \A a \in Actors : pc[a] \in Critical => m_log_mutex = a

\* Finalize has not begun while the program runs.
FiniWaits == status = "running" => pc[Fini] = "off"

\* m_size stays inside the string.
InRange == m_size <= Len(m_buffer)

\* Between replace and m_size += len the line stands behind the bytes in use.
Placed == \A t \in Threads : pc[t] = "advance" =>
  /\ m_size + Len(line[t]) <= Len(m_buffer)
  /\ SubSeq(m_buffer, m_size + 1, m_size + Len(line[t])) = line[t]

\* Once the destructor has flushed, nothing comes into the buffer any more.
Flushed ==
  /\ pc[Fini] \in {"split", "close", "unlock"} => m_size = 0
  /\ pc[Fini] = "unlock" => m_out = "closed"

IInv == /\ TypeOK /\ Holder /\ FiniWaits /\ InRange /\ Content /\ Placed
        /\ Flushed /\ CleanExit
-----------------------------------------------------------------------------
(***************************************************************************)
(* The initial state.                                                      *)
(***************************************************************************)

\* A logger as its constructor and its first line leave it (Logger.cpp:11-26).
LEMMA InitIInv == Init => IInv
<1> SUFFICES ASSUME Init PROVE IInv
  OBVIOUS
<1> USE LogFileAssumption DEF Init
<1>1. m_buffer \in Text /\ Len(m_buffer) = BUF_SIZE
  <2>1. m_buffer \in [1..BUF_SIZE -> Bytes \cup {NUL}]
    OBVIOUS
  <2> QED
    BY <2>1, SeqDef DEF Text
<1>2. starts \in Seq(Nat) /\ disk \in Text /\ logged \in Seq(Bytes)
  BY DEF Text
<1>3. line \in [Actors -> Seq(Bytes)]
  OBVIOUS
<1>4. pc \in [Actors -> Critical \cup {"off", "idle", "lock", "gone"}]
  BY DEF Critical
<1>5. TypeOK
  BY <1>1, <1>2, <1>3, <1>4 DEF TypeOK, Statuses
<1>6. \A a \in Actors : pc[a] \in {"off", "idle"}
  OBVIOUS
<1>7. Content
  <2>1. SubSeq(m_buffer, 1, 0) = <<>>
    BY SubSeqEmpty
  <2> QED
    BY <1>6, <2>1 DEF Content, Unwritten
<1>8. Holder /\ Placed /\ Flushed /\ CleanExit
  BY <1>6 DEF Holder, Placed, Flushed, CleanExit, Critical, Actors
<1>9. FiniWaits /\ InRange
  BY <1>1 DEF FiniWaits, InRange, Actors
<1> QED
  BY <1>5, <1>7, <1>8, <1>9 DEF IInv

(***************************************************************************)
(* The actions, one by one.                                                *)
(***************************************************************************)

\* Facts that every action's proof uses.
LEMMA Basics ==
  ASSUME TypeOK
  PROVE  /\ Fini \in Actors /\ Fini \notin Threads
         /\ Nobody \notin Actors
         /\ \A t \in Threads : t \in Actors /\ t # Fini
         /\ \A a \in Actors : a # Fini => a \in Threads
         /\ Len(m_buffer) \in Nat /\ m_size \in Nat
         /\ \A a \in Actors : line[a] \in Seq(Bytes) /\ Len(line[a]) \in Nat
         /\ \A a \in Actors : line[a] \in Text
         /\ logged \in Seq(Bytes) /\ logged \in Text
<1> QED
  BY Texts, LogFileAssumption, LenProperties DEF TypeOK, Actors

\* A thread enters Logline with a line (Logger.cpp:100-121).
LEMMA CallStep == ASSUME IInv, NEW t \in Threads, Call(t) PROVE IInv'
<1> USE DEF Call, Goto, object, files, history
<1>0. /\ TypeOK /\ Holder /\ FiniWaits /\ InRange /\ Content /\ Placed /\ Flushed
      /\ CleanExit
  BY DEF IInv
<1>1. TypeOK'
  BY <1>0, Basics, LogFileAssumption, SMTT(30) DEF TypeOK
<1>2. Holder'
  BY <1>0, Basics DEF Holder, Critical, TypeOK
<1>3. Content'
  BY <1>0, Basics DEF Content, Unwritten, TypeOK
<1>4. Placed'
  BY <1>0, Basics DEF Placed, TypeOK
<1>5. InRange'
  BY <1>0 DEF InRange
<1>6. FiniWaits' /\ Flushed'
  BY <1>0, Basics DEF FiniWaits, Flushed, TypeOK
<1>7. CleanExit'
  BY <1>0, Basics DEF CleanExit, TypeOK
<1> QED
  BY <1>1, <1>2, <1>3, <1>4, <1>5, <1>6, <1>7 DEF IInv

\* PIN_MutexLock: whoever takes the mutex becomes its holder (Logger.cpp:30, 126).
LEMMA LockStep == ASSUME IInv, NEW a \in Actors, Lock(a) PROVE IInv'
<1> USE DEF Lock, Goto, object, files, history
<1>0. /\ TypeOK /\ Holder /\ FiniWaits /\ InRange /\ Content /\ Placed /\ Flushed
      /\ CleanExit
  BY DEF IInv
<1>1. TypeOK'
  BY <1>0, Basics DEF TypeOK, Critical, Statuses
<1>2. Holder'
  BY <1>0, Basics DEF Holder, Critical, TypeOK
<1>3. Content'
  BY <1>0, Basics DEF Content, Unwritten, TypeOK
<1>4. Placed'
  BY <1>0, Basics DEF Placed, TypeOK
<1>5. InRange'
  BY <1>0 DEF InRange
<1>6. FiniWaits' /\ Flushed'
  BY <1>0, Basics DEF FiniWaits, Flushed, TypeOK
<1>7. CleanExit'
  BY <1>0, Basics DEF CleanExit, TypeOK
<1> QED
  BY <1>1, <1>2, <1>3, <1>4, <1>5, <1>6, <1>7 DEF IInv

\* The test whether the line fits behind m_size (Logger.cpp:128).
LEMMA CheckStep == ASSUME IInv, NEW t \in Threads, Alive, Check(t) PROVE IInv'
<1> USE DEF Check, Goto, Alive, object, files, history
<1>0. /\ TypeOK /\ Holder /\ FiniWaits /\ InRange /\ Content /\ Placed /\ Flushed
      /\ CleanExit
  BY DEF IInv
<1>1. TypeOK'
  BY <1>0, Basics DEF TypeOK, Critical, Statuses
<1>2. Holder'
  BY <1>0, Basics DEF Holder, Critical, TypeOK
<1>3. Content'
  BY <1>0, Basics DEF Content, Unwritten, TypeOK
<1>4. Placed'
  BY <1>0, Basics DEF Placed, TypeOK
<1>5. InRange'
  BY <1>0 DEF InRange
<1>6. FiniWaits' /\ Flushed'
  BY <1>0, Basics DEF FiniWaits, Flushed, TypeOK
<1>7. CleanExit'
  BY <1>0, Basics DEF CleanExit, TypeOK
<1> QED
  BY <1>1, <1>2, <1>3, <1>4, <1>5, <1>6, <1>7 DEF IInv

\* m_out->write: what the buffer held is now in the file (Logger.cpp:41-42).
LEMMA WriteStep == ASSUME IInv, NEW a \in Actors, Alive, Write(a) PROVE IInv'
<1> USE DEF Write, Goto, Alive, object, history
<1>0. /\ TypeOK /\ Holder /\ FiniWaits /\ InRange /\ Content /\ Placed /\ Flushed
      /\ CleanExit
  BY DEF IInv
<1>a. \A b \in Actors : pc[b] # "reset"
  BY <1>0 DEF Holder, Critical
<1>1. TypeOK'
  <2>1. disk' \in Text
    BY <1>0, Texts DEF InRange, TypeOK
  <2> QED
    BY <1>0, <2>1 DEF TypeOK, Critical
<1>2. Holder'
  BY <1>0, Basics DEF Holder, Critical, TypeOK
<1>3. Content'
  <2>1. disk' = logged
    BY <1>0, <1>a DEF Content, Unwritten
  <2>2. pc'[a] = "reset" /\ logged' = logged
    BY <1>0 DEF TypeOK
  <2>3. logged \o <<>> = logged
    BY <1>0, Basics, Texts
  <2> QED
    BY <2>1, <2>2, <2>3 DEF Content, Unwritten
<1>4. Placed'
  BY <1>0, Basics DEF Placed, TypeOK
<1>5. InRange'
  BY <1>0 DEF InRange
<1>6. FiniWaits' /\ Flushed'
  BY <1>0, Basics DEF FiniWaits, Flushed, TypeOK
<1>7. CleanExit'
  BY <1>0, Basics DEF CleanExit, TypeOK
<1> QED
  BY <1>1, <1>2, <1>3, <1>4, <1>5, <1>6, <1>7 DEF IInv

\* The buffer is emptied and the file's size counted (Logger.cpp:43-50).
LEMMA ResetStep == ASSUME IInv, NEW a \in Actors, Alive, Reset(a) PROVE IInv'
<1> USE DEF Reset, Goto, Alive, AfterFlush, files, history
<1>0. /\ TypeOK /\ Holder /\ FiniWaits /\ InRange /\ Content /\ Placed /\ Flushed
      /\ CleanExit
  BY DEF IInv
<1>a. \A b \in Actors : b # a => pc[b] \notin Critical
  BY <1>0 DEF Holder, Critical
<1>1. TypeOK'
  <2>1. m_buffer' \in Text /\ m_size' \in Nat /\ m_file_size' \in Nat
    BY <1>0, Texts DEF TypeOK
  <2> QED
    BY <1>0, <2>1 DEF TypeOK, Critical
<1>2. Holder'
  BY <1>0, Basics DEF Holder, Critical, TypeOK
<1>3. Content'
  <2>1. \A b \in Actors : pc'[b] # "reset"
    BY <1>0, <1>a DEF TypeOK, Critical
  <2>2. SubSeq(m_buffer', 1, m_size') = <<>>
    BY SubSeqEmpty
  <2> QED
    BY <1>0, <2>1, <2>2 DEF Content, Unwritten
<1>4. Placed'
  BY <1>0, <1>a, Basics DEF Placed, Critical, TypeOK
<1>5. InRange'
  BY <1>0 DEF InRange
<1>6. FiniWaits' /\ Flushed'
  BY <1>0, Basics DEF FiniWaits, Flushed, TypeOK
<1>7. CleanExit'
  BY <1>0, Basics DEF CleanExit, TypeOK
<1> QED
  BY <1>1, <1>2, <1>3, <1>4, <1>5, <1>6, <1>7 DEF IInv

\* SplitFile opens the next file (Logger.cpp:61-76).
LEMMA SplitStep == ASSUME IInv, NEW a \in Actors, Alive, Split(a) PROVE IInv'
<1> USE DEF Split, Goto, Alive, AfterFlush, history
<1>0. /\ TypeOK /\ Holder /\ FiniWaits /\ InRange /\ Content /\ Placed /\ Flushed
      /\ CleanExit
  BY DEF IInv
<1>1. TypeOK'
  <2>1. Len(disk) \in Nat
    BY <1>0, Texts DEF TypeOK
  <2>2. starts' \in Seq(Nat)
    BY <1>0, <2>1, AppendProperties DEF TypeOK
  <2> QED
    BY <1>0, <2>2 DEF TypeOK, Critical
<1>2. Holder'
  BY <1>0, Basics DEF Holder, Critical, TypeOK
<1>3. Content'
  BY <1>0, Basics DEF Content, Unwritten, TypeOK
<1>4. Placed'
  BY <1>0, Basics DEF Placed, TypeOK
<1>5. InRange'
  BY <1>0 DEF InRange
<1>6. FiniWaits' /\ Flushed'
  BY <1>0, Basics DEF FiniWaits, Flushed, TypeOK
<1>7. CleanExit'
  BY <1>0, Basics DEF CleanExit, TypeOK
<1> QED
  BY <1>1, <1>2, <1>3, <1>4, <1>5, <1>6, <1>7 DEF IInv

\* SplitFile throws out of Logline: the mutex stays locked (Logger.cpp:55-59).
LEMMA ThrowInLoglineStep == ASSUME IInv, NEW t \in Threads, Alive, ThrowInLogline(t) PROVE IInv'
<1> USE DEF ThrowInLogline, Alive, object, files, history
<1>0. /\ TypeOK /\ Holder /\ FiniWaits /\ InRange /\ Content /\ Placed /\ Flushed
      /\ CleanExit
  BY DEF IInv
<1>1. TypeOK'
  BY <1>0, Basics DEF TypeOK, Critical, Statuses
<1>2. Holder'
  BY <1>0, Basics DEF Holder, Critical, TypeOK
<1>3. Content'
  BY <1>0, Basics DEF Content, Unwritten, Holder, Critical, TypeOK
<1>4. Placed'
  BY <1>0, Basics DEF Placed, TypeOK
<1>5. InRange'
  BY <1>0 DEF InRange
<1>6. FiniWaits' /\ Flushed'
  BY <1>0, Basics DEF FiniWaits, Flushed, TypeOK
<1>7. CleanExit'
  BY <1>0, Basics DEF CleanExit, TypeOK
<1> QED
  BY <1>1, <1>2, <1>3, <1>4, <1>5, <1>6, <1>7 DEF IInv

\* SplitFile throws out of the destructor (Logger.cpp:31, 55-59).
LEMMA ThrowInDestructorStep == ASSUME IInv, Alive, ThrowInDestructor PROVE IInv'
<1> USE DEF ThrowInDestructor, Goto, Alive, object, files, history
<1>0. /\ TypeOK /\ Holder /\ FiniWaits /\ InRange /\ Content /\ Placed /\ Flushed
      /\ CleanExit
  BY DEF IInv
<1>1. TypeOK'
  BY <1>0, Basics DEF TypeOK, Critical, Statuses
<1>2. Holder'
  BY <1>0, Basics DEF Holder, Critical, TypeOK
<1>3. Content'
  BY <1>0, Basics DEF Content, Unwritten, TypeOK
<1>4. Placed'
  BY <1>0, Basics DEF Placed, TypeOK
<1>5. InRange'
  BY <1>0 DEF InRange
<1>6. FiniWaits' /\ Flushed'
  BY <1>0, Basics DEF FiniWaits, Flushed, TypeOK
<1>7. CleanExit'
  BY <1>0, Basics DEF CleanExit, TypeOK
<1> QED
  BY <1>1, <1>2, <1>3, <1>4, <1>5, <1>6, <1>7 DEF IInv

\* m_buffer.replace puts the line behind what is buffered (Logger.cpp:134).
LEMMA ReplaceStep == ASSUME IInv, NEW t \in Threads, Alive, Replace(t) PROVE IInv'
<1> USE DEF Replace, Goto, Alive, files, history
<1>0. /\ TypeOK /\ Holder /\ FiniWaits /\ InRange /\ Content /\ Placed /\ Flushed
      /\ CleanExit
  BY DEF IInv
<1> DEFINE n == Len(line[t])
<1>a. /\ m_buffer' \in Text
      /\ m_size + n <= Len(m_buffer')
      /\ SubSeq(m_buffer', 1, m_size) = SubSeq(m_buffer, 1, m_size)
      /\ SubSeq(m_buffer', m_size + 1, m_size + n) = line[t]
  <2>1. /\ m_buffer \in Text /\ m_size \in Nat /\ m_size <= Len(m_buffer)
        /\ line[t] \in Text /\ n \in Nat
    BY <1>0, Basics DEF InRange, TypeOK, Text
  <2>2. m_buffer' = Replaced(m_buffer, m_size, n, line[t])
    OBVIOUS
  <2>3. \A p, k \in Nat : p <= Len(m_buffer) =>
          /\ Replaced(m_buffer, p, k, line[t]) \in Text
          /\ p + n <= Len(Replaced(m_buffer, p, k, line[t]))
          /\ SubSeq(Replaced(m_buffer, p, k, line[t]), 1, p) = SubSeq(m_buffer, 1, p)
          /\ SubSeq(Replaced(m_buffer, p, k, line[t]), p + 1, p + n) = line[t]
    BY ONLY <2>1, ReplacedInBuffer, ZenonT(40)
  <2>4. /\ Replaced(m_buffer, m_size, n, line[t]) \in Text
        /\ m_size + n <= Len(Replaced(m_buffer, m_size, n, line[t]))
        /\ SubSeq(Replaced(m_buffer, m_size, n, line[t]), 1, m_size)
             = SubSeq(m_buffer, 1, m_size)
        /\ SubSeq(Replaced(m_buffer, m_size, n, line[t]), m_size + 1, m_size + n)
             = line[t]
    BY ONLY <2>1, <2>3
  <2> QED
    BY ONLY <2>2, <2>4
<1>1. TypeOK'
  BY <1>0, <1>a DEF TypeOK, Critical
<1>2. Holder'
  BY <1>0, Basics DEF Holder, Critical, TypeOK
<1>3. Content'
  BY <1>0, <1>a DEF Content, Unwritten, TypeOK
<1>4. Placed'
  <2>1. \A u \in Threads : u # t => pc[u] # "advance"
    BY <1>0, Basics DEF Holder, Critical
  <2> QED
    BY <1>a, <2>1 DEF Placed, TypeOK
<1>5. InRange'
  <2>1. Len(m_buffer') \in Nat
    BY <1>a, Texts
  <2> QED
    BY <1>0, <1>a, <2>1, Basics DEF InRange
<1>6. FiniWaits' /\ Flushed'
  BY <1>0, Basics DEF FiniWaits, Flushed, TypeOK
<1>7. CleanExit'
  BY <1>0, Basics DEF CleanExit, TypeOK
<1> QED
  BY <1>1, <1>2, <1>3, <1>4, <1>5, <1>6, <1>7 DEF IInv

\* m_size takes the line's length in (Logger.cpp:136).
LEMMA AdvanceStep == ASSUME IInv, NEW t \in Threads, Alive, Advance(t) PROVE IInv'
<1> USE DEF Advance, Goto, Alive, files
<1>0. /\ TypeOK /\ Holder /\ FiniWaits /\ InRange /\ Content /\ Placed /\ Flushed
      /\ CleanExit
  BY DEF IInv
<1> DEFINE n == Len(line[t])
<1>a. logged' \in Seq(Bytes) /\ Len(logged') \in Nat
  <2>1. logged' \in Seq(Bytes)
    BY <1>0, Basics, ConcatProperties
  <2> QED
    BY <2>1, LenProperties
<1>b. \A b \in Actors : b # t => pc[b] \notin Critical
  BY <1>0, Basics DEF Holder, Critical
<1>c. /\ m_size + n <= Len(m_buffer)
      /\ SubSeq(m_buffer, m_size + 1, m_size + n) = line[t]
  BY <1>0 DEF Placed
<1>1. TypeOK'
  <2>1. ends' \in SUBSET Nat
    BY <1>0, <1>a DEF TypeOK
  <2>2. m_size' \in Nat
    BY <1>0, Basics
  <2> QED
    BY <1>0, <1>a, <2>1, <2>2 DEF TypeOK, Critical
<1>2. Holder'
  BY <1>0, Basics DEF Holder, Critical, TypeOK
<1>3. Content'
  <2>1. disk \o SubSeq(m_buffer, 1, m_size) = logged
    BY <1>0, <1>b, Basics DEF Content, Unwritten, Critical
  <2>2. /\ disk \in Text /\ m_buffer \in Text /\ line[t] \in Text
        /\ m_size \in Nat
    BY <1>0, Basics DEF TypeOK, Text
  <2>3. disk \o SubSeq(m_buffer, 1, m_size + n) = logged \o line[t]
    <3>1. disk \o SubSeq(m_buffer, 1, m_size + n)
            = (disk \o SubSeq(m_buffer, 1, m_size)) \o line[t]
      BY ONLY <1>c, <2>2, LineCounted, ZenonT(40)
    <3> QED BY ONLY <2>1, <3>1
  <2>4. \A b \in Actors : pc'[b] # "reset"
    BY <1>0, <1>b DEF TypeOK, Critical
  <2> QED
    BY <2>3, <2>4 DEF Content, Unwritten
<1>4. Placed'
  BY <1>0, <1>b, Basics DEF Placed, TypeOK, Critical
<1>5. InRange'
  BY <1>c DEF InRange
<1>6. FiniWaits' /\ Flushed'
  BY <1>0, <1>b, Basics DEF FiniWaits, Flushed, Critical, TypeOK
<1>7. CleanExit'
  BY <1>0, Basics DEF CleanExit, TypeOK
<1> QED
  BY <1>1, <1>2, <1>3, <1>4, <1>5, <1>6, <1>7 DEF IInv

\* PIN_MutexUnlock at the end of Logline (Logger.cpp:137).
LEMMA UnlockInLoglineStep == ASSUME IInv, NEW t \in Threads, Alive, UnlockInLogline(t) PROVE IInv'
<1> USE DEF UnlockInLogline, Goto, Alive, object, files, history
<1>0. /\ TypeOK /\ Holder /\ FiniWaits /\ InRange /\ Content /\ Placed /\ Flushed
      /\ CleanExit
  BY DEF IInv
<1>1. TypeOK'
  BY <1>0, Basics DEF TypeOK, Critical, Statuses
<1>2. Holder'
  BY <1>0, Basics DEF Holder, Critical, TypeOK
<1>3. Content'
  BY <1>0, Basics DEF Content, Unwritten, TypeOK
<1>4. Placed'
  BY <1>0, Basics DEF Placed, TypeOK
<1>5. InRange'
  BY <1>0 DEF InRange
<1>6. FiniWaits' /\ Flushed'
  BY <1>0, Basics DEF FiniWaits, Flushed, TypeOK
<1>7. CleanExit'
  BY <1>0, Basics DEF CleanExit, TypeOK
<1> QED
  BY <1>1, <1>2, <1>3, <1>4, <1>5, <1>6, <1>7 DEF IInv

\* The destructor closes the stream (Logger.cpp:33).
LEMMA CloseOutStep == ASSUME IInv, Alive, CloseOut PROVE IInv'
<1> USE DEF CloseOut, Goto, Alive, object, history
<1>0. /\ TypeOK /\ Holder /\ FiniWaits /\ InRange /\ Content /\ Placed /\ Flushed
      /\ CleanExit
  BY DEF IInv
<1>1. TypeOK'
  BY <1>0, Basics DEF TypeOK, Critical, Statuses
<1>2. Holder'
  BY <1>0, Basics DEF Holder, Critical, TypeOK
<1>3. Content'
  BY <1>0, Basics DEF Content, Unwritten, TypeOK
<1>4. Placed'
  BY <1>0, Basics DEF Placed, TypeOK
<1>5. InRange'
  BY <1>0 DEF InRange
<1>6. FiniWaits' /\ Flushed'
  BY <1>0, Basics DEF FiniWaits, Flushed, TypeOK
<1>7. CleanExit'
  BY <1>0, Basics DEF CleanExit, TypeOK
<1> QED
  BY <1>1, <1>2, <1>3, <1>4, <1>5, <1>6, <1>7 DEF IInv

\* PIN_MutexUnlock at the end of the destructor (Logger.cpp:34).
LEMMA UnlockInDestructorStep == ASSUME IInv, Alive, UnlockInDestructor PROVE IInv'
<1> USE DEF UnlockInDestructor, Goto, Alive, object, files, history
<1>0. /\ TypeOK /\ Holder /\ FiniWaits /\ InRange /\ Content /\ Placed /\ Flushed
      /\ CleanExit
  BY DEF IInv
<1>1. TypeOK'
  BY <1>0, Basics DEF TypeOK, Critical, Statuses
<1>2. Holder'
  BY <1>0, Basics DEF Holder, Critical, TypeOK
<1>3. Content'
  BY <1>0, Basics DEF Content, Unwritten, TypeOK
<1>4. Placed'
  BY <1>0, Basics DEF Placed, TypeOK
<1>5. InRange'
  BY <1>0 DEF InRange
<1>6. FiniWaits' /\ Flushed'
  BY <1>0, Basics DEF FiniWaits, Flushed, TypeOK
<1>7. CleanExit'
  <2>1. \A b \in Actors : pc[b] # "reset"
    BY <1>0, Basics DEF Holder, Critical
  <2>2. SubSeq(m_buffer, 1, m_size) = <<>>
    BY <1>0, SubSeqEmpty DEF Flushed
  <2>3. disk \o <<>> = disk
    BY <1>0, Texts DEF TypeOK
  <2> QED
    BY <1>0, <2>1, <2>2, <2>3 DEF Content, Unwritten, CleanExit, Flushed
<1> QED
  BY <1>1, <1>2, <1>3, <1>4, <1>5, <1>6, <1>7 DEF IInv

\* The process begins to exit (REProgramInfo.cpp:902-908).
LEMMA ExitStep == ASSUME IInv, Alive, Exit PROVE IInv'
<1> USE DEF Exit, Goto, Alive, object, files, history
<1>0. /\ TypeOK /\ Holder /\ FiniWaits /\ InRange /\ Content /\ Placed /\ Flushed
      /\ CleanExit
  BY DEF IInv
<1>1. TypeOK'
  BY <1>0, Basics DEF TypeOK, Critical, Statuses
<1>2. Holder'
  BY <1>0, Basics DEF Holder, Critical, TypeOK
<1>3. Content'
  BY <1>0, Basics DEF Content, Unwritten, FiniWaits, TypeOK
<1>4. Placed'
  BY <1>0, Basics DEF Placed, TypeOK
<1>5. InRange'
  BY <1>0 DEF InRange
<1>6. FiniWaits' /\ Flushed'
  BY <1>0, Basics DEF FiniWaits, Flushed, TypeOK
<1>7. CleanExit'
  BY <1>0, Basics DEF CleanExit, TypeOK
<1> QED
  BY <1>1, <1>2, <1>3, <1>4, <1>5, <1>6, <1>7 DEF IInv

\* The process is killed: what happens in memory no longer matters.
LEMMA KillStep == ASSUME IInv, Alive, Kill PROVE IInv'
<1> USE DEF Kill, Alive, object, history
<1>0. /\ TypeOK /\ Holder /\ FiniWaits /\ InRange /\ Content /\ Placed /\ Flushed
      /\ CleanExit
  BY DEF IInv
<1>1. TypeOK'
  <2>2. PICK n \in 0..m_size : disk' = disk \o SubSeq(m_buffer, 1, n)
    OBVIOUS
  <2>3. n \in Nat /\ n <= Len(m_buffer)
    BY <1>0, <2>2, Basics DEF InRange
  <2>4. disk' \in Text
    BY <1>0, <2>2, <2>3, Texts DEF TypeOK
  <2> QED
    BY <1>0, <2>4 DEF TypeOK, Statuses
<1>2. Holder'
  BY <1>0 DEF Holder
<1>3. Content'
  BY DEF Content
<1>4. Placed'
  BY <1>0 DEF Placed
<1>5. InRange'
  BY <1>0 DEF InRange
<1>6. FiniWaits' /\ Flushed'
  BY <1>0 DEF FiniWaits, Flushed
<1>7. CleanExit'
  BY DEF CleanExit
<1> QED
  BY <1>1, <1>2, <1>3, <1>4, <1>5, <1>6, <1>7 DEF IInv

(***************************************************************************)
(* The theorems.                                                           *)
(***************************************************************************)

\* No step of the logger leaves the inductive invariant: one case for each action.
LEMMA NextIInv == IInv /\ [Next]_vars => IInv'
<1> SUFFICES ASSUME IInv, [Next]_vars PROVE IInv'
  OBVIOUS
<1>1. ASSUME NEW a \in Actors, Step(a) PROVE IInv'
  <2>1. CASE Alive /\ Shared(a)
    BY <2>1, LockStep, WriteStep, ResetStep, SplitStep DEF Shared
  <2>2. CASE Alive /\ a = Fini /\ Destructor
    BY <2>2, ThrowInDestructorStep, CloseOutStep, UnlockInDestructorStep
       DEF Destructor
  <2>3. CASE Alive /\ a # Fini /\ Logline(a)
    <3>1. a \in Threads
      BY <2>3 DEF Actors
    <3> QED
      BY <2>3, <3>1, CallStep, CheckStep, ThrowInLoglineStep, ReplaceStep,
         AdvanceStep, UnlockInLoglineStep DEF Logline
  <2> QED
    BY <1>1, <2>1, <2>2, <2>3 DEF Step
<1>2. CASE Alive /\ (Exit \/ Kill)
  BY <1>2, ExitStep, KillStep
<1>3. CASE UNCHANGED vars
  BY <1>3 DEF vars, object, files, history, IInv, TypeOK, Holder, FiniWaits,
     InRange, Content, Unwritten, Placed, Flushed, CleanExit
<1> QED
  BY <1>1, <1>2, <1>3 DEF Next

\* The inductive invariant holds (Logger.cpp:28-138).
THEOREM Invariance == Spec => []IInv
<1>1. Init => IInv
  BY InitIInv
<1>2. IInv /\ [Next]_vars => IInv'
  BY NextIInv
<1> QED
  BY <1>1, <1>2, PTL DEF Spec

\* The variables keep their types (Logger.h:70-83).
THEOREM TypeCorrect == Spec => []TypeOK
<1>1. IInv => TypeOK
  BY DEF IInv
<1> QED
  BY <1>1, Invariance, PTL

\* Files and buffer together hold exactly the lines logged, in order, for any
\* number of threads in Logline (Logger.cpp:123-138).
THEOREM ContentCorrect == Spec => []Content
<1>1. IInv => Content
  BY DEF IInv
<1> QED
  BY <1>1, Invariance, PTL

\* The mutex excludes, across throw, exit and kill too (Logger.cpp:126-137).
THEOREM MutexCorrect == Spec => []MutualExclusion
<1>1. IInv => MutualExclusion
  BY DEF IInv, Holder, MutualExclusion
<1> QED
  BY <1>1, Invariance, PTL

\* m_buffer.replace never throws out_of_range (Logger.cpp:134).
THEOREM ReplaceNeverThrows == Spec => []ReplaceInRange
<1>1. IInv => ReplaceInRange
  BY DEF IInv, InRange, ReplaceInRange
<1> QED
  BY <1>1, Invariance, PTL

\* A process that exits cleanly has every line logged in its files
\* (Logger.cpp:28-37).
THEOREM CleanExitComplete == Spec => []CleanExit
<1>1. IInv => CleanExit
  BY DEF IInv
<1> QED
  BY <1>1, Invariance, PTL

-----------------------------------------------------------------------------
(***************************************************************************)
(* Where the files are cut.  A file is cut only when the buffer is empty   *)
(* (Emptied), and so behind a line; m_file_size reaches the limit only on  *)
(* the way into SplitFile (Below), so that a file is at most one buffer    *)
(* too large.                                                              *)
(***************************************************************************)

\* A file is cut only behind a flush.
Emptied == \A a \in Actors : pc[a] = "split" => m_size = 0

\* The place behind the last line is the end of a line.
LastEnd == Len(logged) \in ends

\* Whoever has a line has one of the lines there are.
Lined == \A a \in Actors : line[a] \in Lines \cup {<<>>}

\* What is buffered, and what is about to be, fits.
Fits == /\ m_size <= Capacity
        /\ \A t \in Threads : pc[t] \in {"replace", "advance"} =>
             m_size + Len(line[t]) <= Capacity

\* m_file_size lags behind the file only between the write and the reset.
Sized == status # "killed" =>
  (IF \E a \in Actors : pc[a] = "reset" THEN m_file_size + m_size ELSE m_file_size)
    = Len(disk) - starts[Len(starts)]

\* The size passes the limit only in front of SplitFile, or where that threw.
Below ==
  /\ \A a \in Actors : pc[a] = "split" =>
       m_file_size \in BIGGEST_FILE_SIZE..(BIGGEST_FILE_SIZE - 1 + Capacity)
  /\ m_file_size >= BIGGEST_FILE_SIZE =>
       \/ ~Alive \/ \E a \in Actors : pc[a] = "split"
       \/ \E t \in Threads : pc[t] = "gone" /\ m_log_mutex = t

\* The files so far.
Cut ==
  /\ Len(starts) \in Nat \ {0} /\ m_file_nums = Len(starts)
  /\ Len(starts) <= BIGGEST_FILE_NUMS + 1
  /\ \A i \in 1..(Len(starts) - 1) :
       starts[i+1] - starts[i] \in
         BIGGEST_FILE_SIZE..(BIGGEST_FILE_SIZE - 1 + Capacity)

\* Every file begins within the text.
InDisk == \A i \in 1..Len(starts) : starts[i] \in 0..Len(disk)

SizeInv == /\ Emptied /\ LastEnd /\ Lined /\ Fits /\ Sized /\ Below /\ Cut
           /\ InDisk /\ WholeLinesPerFile /\ LossBound

-----------------------------------------------------------------------------
\* The longest line, and what a buffer may hold (Logger.cpp:128-137).
LEMMA CapacityFacts ==
  /\ LongestLine \in Nat /\ \A l \in Lines : Len(l) <= LongestLine
  /\ Capacity \in Nat /\ LongestLine <= Capacity /\ BUF_SIZE - 1 <= Capacity
<1>1. /\ LongestLine \in {Len(l) : l \in Lines}
      /\ \A l \in Lines : Len(l) <= LongestLine
  BY LongestLineAssumption DEF LongestLine
<1>2. LongestLine \in Nat
  BY <1>1, LogFileAssumption, LenProperties
<1> QED
  BY <1>1, <1>2, LogFileAssumption DEF Capacity

\* A text is a prefix of itself with something behind it.
LEMMA PrefixOfConcat ==
  \A x, y \in Text : IsPrefix(x, x \o y) /\ Len(x \o y) = Len(x) + Len(y)
<1> DEFINE S == Bytes \cup {NUL}
<1> HIDE DEF S
<1> SUFFICES ASSUME NEW x \in Seq(S), NEW y \in Seq(S)
             PROVE  IsPrefix(x, x \o y) /\ Len(x \o y) = Len(x) + Len(y)
  BY DEF Text, S
<1>1. /\ x \o y \in Seq(S) /\ Len(x \o y) = Len(x) + Len(y)
      /\ \A i \in 1..Len(x) : (x \o y)[i] = x[i]
      /\ Len(x) \in Nat /\ Len(y) \in Nat
  BY ConcatProperties, LenProperties
<1> DEFINE z == x \o y
<1> HIDE DEF z
<1>2. SubSeq(z, 1, Len(x)) = x
  <2>1. SubSeq(z, 1, 1 - 1 + Len(x)) = x
    BY <1>1, SubSeqIs DEF z
  <2> QED BY <1>1, <2>1
<1>3. SubSeq(x, 1, Len(x)) = x
  <2>1. SubSeq(x, 1, 1 - 1 + Len(x)) = x
    BY <1>1, SubSeqIs
  <2> QED BY <1>1, <2>1
<1> QED BY <1>1, <1>2, <1>3 DEF IsPrefix, z

\* A piece of a text is a text.
LEMMA PieceIs ==
  \A x \in Text, p, q \in Nat : q <= Len(x) => SubSeq(x, p + 1, q) \in Text
<1> DEFINE S == Bytes \cup {NUL}
<1> HIDE DEF S
<1> SUFFICES ASSUME NEW x \in Seq(S), NEW p \in Nat, NEW q \in Nat, q <= Len(x)
             PROVE  SubSeq(x, p + 1, q) \in Seq(S)
  BY DEF Text, S
<1>1. \A i \in (p + 1)..q : x[i] \in S
  BY LenProperties, ElementOfSeq
<1> QED BY <1>1, SubSeqProperties

\* Two pieces next to each other.
LEMMA AdjacentPieces ==
  \A x \in Text, p, q \in Nat : p <= q /\ q <= Len(x) =>
    SubSeq(x, 1, q) = SubSeq(x, 1, p) \o SubSeq(x, p + 1, q)
<1> DEFINE S == Bytes \cup {NUL}
<1> HIDE DEF S
<1> SUFFICES ASSUME NEW x \in Seq(S), NEW p \in Nat, NEW q \in Nat,
                    p <= q, q <= Len(x)
             PROVE  SubSeq(x, 1, q) = SubSeq(x, 1, p) \o SubSeq(x, p + 1, q)
  BY DEF Text, S
<1>1. /\ 1 \in 1..(Len(x) + 1) /\ p \in (1 - 1)..Len(x) /\ q \in p..Len(x)
  BY LenProperties
<1> QED BY <1>1, ConcatAdjacentSubSeq

\* A part of what was to be written, written.
LEMMA PartWritten ==
  \A d, b, l \in Text, n, m \in Nat :
    n <= m /\ m <= Len(b) /\ d \o SubSeq(b, 1, m) = l
      => /\ IsPrefix(d \o SubSeq(b, 1, n), l)
         /\ Len(d \o SubSeq(b, 1, n)) = Len(d) + n
<1> SUFFICES ASSUME NEW d \in Text, NEW b \in Text, NEW l \in Text,
                    NEW n \in Nat, NEW m \in Nat,
                    n <= m, m <= Len(b), d \o SubSeq(b, 1, m) = l
             PROVE  /\ IsPrefix(d \o SubSeq(b, 1, n), l)
                    /\ Len(d \o SubSeq(b, 1, n)) = Len(d) + n
  BY ZenonT(40)
<1> DEFINE head == SubSeq(b, 1, n)
           tail == SubSeq(b, n + 1, m)
<1>1. head \in Text /\ Len(head) = n
  <2>1. n \in 0..Len(b)
    BY Texts
  <2> QED BY <2>1, PrefixIs DEF Text
<1>2. tail \in Text
  BY PieceIs
<1>3. SubSeq(b, 1, m) = head \o tail
  BY AdjacentPieces
<1> HIDE DEF head, tail
<1>4. d \o (head \o tail) = (d \o head) \o tail
  <2>1. \A x, y, z \in Text : x \o (y \o z) = (x \o y) \o z
    BY Texts
  <2>2. d \in Text
    OBVIOUS
  <2> QED BY ONLY <1>1, <1>2, <2>1, <2>2
<1>5. d \o head \in Text /\ l = (d \o head) \o tail
  BY <1>1, <1>3, <1>4, Texts
<1>6. IsPrefix(d \o head, l)
  BY <1>2, <1>5, PrefixOfConcat
<1>7. Len(d \o head) = Len(d) + n
  BY <1>1, PrefixOfConcat
<1> QED BY <1>6, <1>7 DEF head

\* The constructor leaves one empty file.
LEMMA SizeInit == Init => SizeInv
<1> SUFFICES ASSUME Init PROVE SizeInv
  OBVIOUS
<1> USE LogFileAssumption, CapacityFacts DEF Init
<1>1. \A a \in Actors : pc[a] \in {"off", "idle"}
  OBVIOUS
<1>2. /\ Len(logged) = 0 /\ Len(disk) = 0 /\ Len(starts) = 1 /\ starts[1] = 0
      /\ \A a \in Actors : Len(line[a]) = 0
  OBVIOUS
<1>3. Emptied /\ LastEnd /\ Lined /\ Fits
  BY <1>1, <1>2 DEF Emptied, LastEnd, Lined, Fits, Actors
<1>4. Sized /\ Below /\ Cut /\ InDisk /\ WholeLinesPerFile
  BY <1>1, <1>2 DEF Sized, Below, Cut, InDisk, WholeLinesPerFile
<1>5. LossBound
  BY <1>2 DEF LossBound, IsPrefix
<1> QED BY <1>3, <1>4, <1>5 DEF SizeInv

\* What the files lack is in the buffer, while the process lives.
LEMMA AliveLoss ==
  ASSUME IInv, status # "killed", m_size <= Capacity
  PROVE  LossBound
<1>1. /\ disk \in Text /\ m_buffer \in Text /\ m_size \in Nat
      /\ m_size <= Len(m_buffer) /\ disk \o Unwritten = logged
  BY DEF IInv, TypeOK, InRange, Content
<1>2. Unwritten \in Text /\ Len(Unwritten) \in Nat /\ Len(Unwritten) <= m_size
  <2>1. CASE \E a \in Actors : pc[a] = "reset"
    BY <1>1, <2>1, Texts DEF Unwritten
  <2>2. CASE ~\E a \in Actors : pc[a] = "reset"
    <3>1. m_size \in 0..Len(m_buffer)
      BY <1>1, Texts
    <3>2. Len(SubSeq(m_buffer, 1, m_size)) = m_size
      BY <1>1, <3>1, PrefixIs DEF Text
    <3> QED BY <1>1, <2>2, <3>2, Texts DEF Unwritten
  <2> QED BY <2>1, <2>2
<1>3. IsPrefix(disk, logged) /\ Len(logged) = Len(disk) + Len(Unwritten)
  BY <1>1, <1>2, PrefixOfConcat
<1>4. Len(disk) \in Nat
  BY <1>1, Texts
<1>5. Len(logged) - Len(disk) <= Capacity
  BY <1>1, <1>2, <1>3, <1>4, CapacityFacts
<1> QED BY <1>3, <1>5 DEF LossBound

\* The same of the state behind a step.
LEMMA AliveLossNext ==
  (IInv /\ status # "killed" /\ m_size <= Capacity => LossBound)'
<1>1. IInv /\ status # "killed" /\ m_size <= Capacity => LossBound
  BY AliveLoss
<1> QED BY <1>1, PTL

-----------------------------------------------------------------------------
(***************************************************************************)
(* The actions, one by one.                                                *)
(***************************************************************************)

\* Facts that every action's proof uses: the types, and that whoever is between
\* the lock and the unlock is there alone.
LEMMA SizeBasics ==
  ASSUME IInv, SizeInv
  PROVE  /\ TypeOK /\ Holder
         /\ Emptied /\ LastEnd /\ Lined /\ Fits /\ Sized /\ Below /\ Cut
         /\ InDisk /\ WholeLinesPerFile /\ LossBound
         /\ \A a, b \in Actors :
              a # b /\ pc[a] \in Critical => pc[b] \notin Critical
         /\ Len(disk) \in Nat /\ Len(logged) \in Nat /\ starts[Len(starts)] \in Nat
         /\ \A a \in Actors : Len(line[a]) \in Nat /\ Len(line[a]) <= LongestLine
         /\ Capacity \in Nat /\ LongestLine \in Nat /\ LongestLine <= Capacity
<1>1. TypeOK /\ Holder /\ Cut
  BY DEF IInv, SizeInv
<1>2. Len(disk) \in Nat /\ Len(logged) \in Nat
  BY <1>1, Texts, LenProperties DEF TypeOK
<1>3. starts[Len(starts)] \in Nat
  BY <1>1, ElementOfSeq DEF Cut, TypeOK
<1>4. \A a, b \in Actors : a # b /\ pc[a] \in Critical => pc[b] \notin Critical
  BY <1>1 DEF Holder
<1>5. \A a \in Actors : Len(line[a]) <= LongestLine
  <2>1. Len(<<>>) = 0 /\ LongestLine >= 0
    BY CapacityFacts
  <2> QED BY <2>1, CapacityFacts DEF SizeInv, Lined
<1> QED
  BY <1>1, <1>2, <1>3, <1>4, <1>5, Basics, CapacityFacts DEF SizeInv

\* Whoever is inside Logline or the destructor, but not in SplitFile, finds the file
\* below the limit, and so does whoever finds the mutex free.
LEMMA BelowLimit ==
  ASSUME IInv, SizeInv, Alive,
         \/ m_log_mutex = Nobody
         \/ \E a \in Actors : pc[a] \in Critical \ {"split"}
  PROVE  m_file_size < BIGGEST_FILE_SIZE
<1>1. /\ \A a \in Actors : pc[a] \in Critical => m_log_mutex = a
      /\ Nobody \notin Actors /\ Threads \subseteq Actors
  BY LogFileAssumption DEF IInv, Holder, Actors
<1>2. "split" \in Critical /\ "gone" \notin Critical
  BY DEF Critical
<1>3. ~\E a \in Actors : pc[a] = "split"
  BY <1>1, <1>2
<1>4. ~\E t \in Threads : pc[t] = "gone" /\ m_log_mutex = t
  BY <1>1, <1>2
<1>5. ~(m_file_size >= BIGGEST_FILE_SIZE)
  BY <1>3, <1>4 DEF SizeInv, Below
<1>6. m_file_size \in Nat /\ BIGGEST_FILE_SIZE \in Nat
  BY LogFileAssumption DEF IInv, TypeOK
<1> QED BY <1>5, <1>6

\* A step that hands nothing to the files and logs nothing keeps what is said of
\* these alone.
LEMMA SameFiles ==
  ASSUME SizeInv, UNCHANGED <<disk, starts, m_file_nums, logged, ends>>,
         Emptied', Lined', Fits', Sized', Below'
  PROVE  SizeInv'
<1>1. LastEnd' /\ Cut' /\ InDisk' /\ WholeLinesPerFile' /\ LossBound'
  BY DEF SizeInv, LastEnd, Cut, InDisk, WholeLinesPerFile, LossBound
<1> QED
  BY <1>1 DEF SizeInv

\* Below the limit nobody has to go to SplitFile.
LEMMA StillBelow ==
  ASSUME m_file_size \in Int, m_file_size < BIGGEST_FILE_SIZE, m_file_size' = m_file_size,
         SizeInv, \A a \in Actors : pc'[a] = "split" => pc[a] = "split"
  PROVE  Below'
<1>1. BIGGEST_FILE_SIZE \in Int
  BY LogFileAssumption
<1>2. ~(m_file_size >= BIGGEST_FILE_SIZE) /\ ~(m_file_size' >= BIGGEST_FILE_SIZE)
  BY <1>1
<1>3. \A a \in Actors : pc[a] # "split"
  BY <1>1, <1>2 DEF SizeInv, Below
<1> QED BY <1>2, <1>3 DEF Below

\* A thread enters Logline (Logger.cpp:100-121).
LEMMA CallSize == ASSUME IInv, SizeInv, NEW t \in Threads, Alive, Call(t) PROVE SizeInv'
<1> USE SizeBasics, Basics DEF Call, Goto, object, files, history
<1>1. Lined'
  BY CapacityFacts DEF Lined, TypeOK
<1>2. Emptied' /\ Fits'
  BY DEF Emptied, Fits, TypeOK
<1>3. Sized'
  BY DEF Sized, TypeOK
<1>4. Below'
  BY DEF Below, Alive, TypeOK
<1> QED
  BY <1>1, <1>2, <1>3, <1>4, SameFiles

\* The mutex is taken (Logger.cpp:30, 126): no thread that threw can hold it.
LEMMA LockSize == ASSUME IInv, SizeInv, NEW a \in Actors, Alive, Lock(a) PROVE SizeInv'
<1> USE SizeBasics, Basics DEF Lock, Goto, object, files, history
<1>1. Lined'
  BY DEF Lined, TypeOK
<1>2. Emptied' /\ Fits'
  BY DEF Emptied, Fits, TypeOK
<1>3. Sized'
  BY DEF Sized, TypeOK
<1>4. Below'
  <2>1. m_file_size < BIGGEST_FILE_SIZE
    BY BelowLimit DEF Critical
  <2>2. m_file_size \in Int /\ m_file_size' = m_file_size
    BY DEF TypeOK
  <2>3. \A b \in Actors : pc'[b] = "split" => pc[b] = "split"
    BY DEF TypeOK
  <2> QED
    BY ONLY <2>1, <2>2, <2>3, SizeInv, StillBelow
<1> QED
  BY <1>1, <1>2, <1>3, <1>4, SameFiles

\* A line that fits behind m_size fits (Logger.cpp:128).
LEMMA CheckSize == ASSUME IInv, SizeInv, NEW t \in Threads, Alive, Check(t) PROVE SizeInv'
<1> USE SizeBasics, Basics DEF Check, Goto, object, files, history
<1>1. Lined'
  BY DEF Lined, TypeOK
<1>2. Emptied' /\ Fits'
  <2>1. pc'[t] = "replace" => m_size + Len(line[t]) <= Capacity
    BY CapacityFacts, LogFileAssumption DEF TypeOK
  <2> QED
    BY <2>1 DEF Emptied, Fits, TypeOK
<1>3. Sized'
  BY DEF Sized, TypeOK
<1>4. Below'
  BY DEF Below, Alive, TypeOK
<1> QED
  BY <1>1, <1>2, <1>3, <1>4, SameFiles

\* SplitFile throws out of Logline: a thread is gone with the mutex
\* (Logger.cpp:55-59).
LEMMA ThrowInLoglineSize ==
  ASSUME IInv, SizeInv, NEW t \in Threads, Alive, ThrowInLogline(t) PROVE SizeInv'
<1> USE SizeBasics, Basics DEF ThrowInLogline, object, files, history
<1>1. Lined'
  BY DEF Lined, TypeOK
<1>2. Emptied' /\ Fits'
  BY DEF Emptied, Fits, TypeOK
<1>3. Sized'
  BY DEF Sized, Alive, Critical, TypeOK
<1>4. Below'
  <2>1. pc'[t] = "gone" /\ m_log_mutex' = t
    BY DEF Holder, Critical, TypeOK
  <2> QED
    BY <2>1 DEF Below, TypeOK
<1> QED
  BY <1>1, <1>2, <1>3, <1>4, SameFiles

\* SplitFile throws out of the destructor: the process is no more
\* (Logger.cpp:31, 55-59).
LEMMA ThrowInDestructorSize ==
  ASSUME IInv, SizeInv, Alive, ThrowInDestructor PROVE SizeInv'
<1> USE SizeBasics, Basics DEF ThrowInDestructor, Goto, object, files, history
<1>1. Lined'
  BY DEF Lined, TypeOK
<1>2. Emptied' /\ Fits'
  BY DEF Emptied, Fits, TypeOK
<1>3. Sized'
  BY DEF Sized, Alive, TypeOK
<1>4. Below'
  BY DEF Below, Alive, TypeOK
<1> QED
  BY <1>1, <1>2, <1>3, <1>4, SameFiles

\* The end of a call (Logger.cpp:137).
LEMMA UnlockInLoglineSize ==
  ASSUME IInv, SizeInv, NEW t \in Threads, Alive, UnlockInLogline(t) PROVE SizeInv'
<1> USE SizeBasics, Basics DEF UnlockInLogline, Goto, object, files, history
<1>1. Lined'
  BY DEF Lined, TypeOK
<1>2. Emptied' /\ Fits'
  BY DEF Emptied, Fits, TypeOK
<1>3. Sized'
  BY DEF Sized, TypeOK
<1>4. Below'
  <2>1. m_file_size < BIGGEST_FILE_SIZE
    BY BelowLimit DEF Critical
  <2>2. m_file_size \in Int /\ m_file_size' = m_file_size
    BY DEF TypeOK
  <2>3. \A b \in Actors : pc'[b] = "split" => pc[b] = "split"
    BY DEF TypeOK
  <2> QED
    BY ONLY <2>1, <2>2, <2>3, SizeInv, StillBelow
<1> QED
  BY <1>1, <1>2, <1>3, <1>4, SameFiles

\* The destructor closes the stream (Logger.cpp:33).
LEMMA CloseOutSize == ASSUME IInv, SizeInv, Alive, CloseOut PROVE SizeInv'
<1> USE SizeBasics, Basics DEF CloseOut, Goto, object, files, history
<1>1. Lined'
  BY DEF Lined, TypeOK
<1>2. Emptied' /\ Fits'
  BY DEF Emptied, Fits, TypeOK
<1>3. Sized'
  BY DEF Sized, TypeOK
<1>4. Below'
  BY DEF Below, Alive, TypeOK
<1> QED
  BY <1>1, <1>2, <1>3, <1>4, SameFiles

\* The end of the destructor (Logger.cpp:34).
LEMMA UnlockInDestructorSize ==
  ASSUME IInv, SizeInv, Alive, UnlockInDestructor PROVE SizeInv'
<1> USE SizeBasics, Basics DEF UnlockInDestructor, Goto, object, files, history
<1>1. Lined'
  BY DEF Lined, TypeOK
<1>2. Emptied' /\ Fits'
  BY DEF Emptied, Fits, TypeOK
<1>3. Sized'
  BY DEF Sized, Alive, TypeOK
<1>4. Below'
  BY DEF Below, Alive, TypeOK
<1> QED
  BY <1>1, <1>2, <1>3, <1>4, SameFiles

\* The process begins to exit (REProgramInfo.cpp:902-908).
LEMMA ExitSize == ASSUME IInv, SizeInv, Alive, Exit PROVE SizeInv'
<1> USE SizeBasics, Basics DEF Exit, Goto, object, files, history
<1>1. Lined'
  BY DEF Lined, TypeOK
<1>2. Emptied' /\ Fits'
  BY DEF Emptied, Fits, TypeOK
<1>3. Sized'
  BY DEF Sized, Alive, IInv, FiniWaits, TypeOK
<1>4. Below'
  BY DEF Below, Alive, IInv, FiniWaits, TypeOK
<1> QED
  BY <1>1, <1>2, <1>3, <1>4, SameFiles

\* The line is copied in; it fitted before (Logger.cpp:134).
LEMMA ReplaceSize == ASSUME IInv, SizeInv, NEW t \in Threads, Alive, Replace(t) PROVE SizeInv'
<1> USE SizeBasics, Basics DEF Replace, Goto, files, history
<1>1. Lined'
  BY DEF Lined, TypeOK
<1>2. Emptied' /\ Fits'
  BY DEF Emptied, Fits, TypeOK
<1>3. Sized'
  BY DEF Sized, TypeOK
<1>4. Below'
  BY DEF Below, Alive, TypeOK
<1> QED
  BY <1>1, <1>2, <1>3, <1>4, SameFiles

\* The write: the file is ahead of m_file_size by m_size (Logger.cpp:41-42).
LEMMA WriteSize ==
  ASSUME IInv, SizeInv, IInv', NEW a \in Actors, Alive, Write(a) PROVE SizeInv'
<1> USE SizeBasics, Basics DEF Write, Goto, object, history
<1>1. Lined'
  BY DEF Lined, TypeOK
<1>2. Emptied' /\ Fits'
  BY DEF Emptied, Fits, TypeOK
<1>3. Len(disk') = Len(disk) + m_size
  <2>1. SubSeq(m_buffer, 1, m_size) \in Text
    BY Texts DEF IInv, InRange, TypeOK
  <2>2. Len(SubSeq(m_buffer, 1, m_size)) = m_size
    <3>1. m_size \in 0..Len(m_buffer)
      BY DEF IInv, InRange
    <3> QED BY <3>1, PrefixIs DEF Text, TypeOK
  <2> QED BY <2>1, <2>2, PrefixOfConcat DEF TypeOK
<1>4. Sized'
  <2>1. pc'[a] = "reset" /\ \A b \in Actors : pc[b] # "reset"
    BY DEF Critical, TypeOK
  <2>2. m_file_size = Len(disk) - starts[Len(starts)]
    BY <2>1 DEF Sized, Alive
  <2>3. m_file_size' + m_size' = Len(disk') - starts'[Len(starts')]
    BY <1>3, <2>2, SMTT(30) DEF TypeOK
  <2> QED
    BY <2>1, <2>3 DEF Sized
<1>5. Below'
  BY DEF Below, Alive, TypeOK
<1>6. LastEnd' /\ Cut' /\ WholeLinesPerFile'
  BY DEF LastEnd, Cut, WholeLinesPerFile
<1>7. LossBound'
  BY <1>2, AliveLossNext DEF Fits, Alive
<1>8. InDisk'
  <2>1. starts' = starts /\ \A i \in 1..Len(starts) : starts[i] \in 0..Len(disk)
    BY DEF InDisk
  <2>2. m_size \in Nat /\ Len(disk) \in Nat
    BY DEF TypeOK
  <2> QED BY ONLY <1>3, <2>1, <2>2 DEF InDisk
<1> QED
  BY <1>1, <1>2, <1>4, <1>5, <1>6, <1>7, <1>8 DEF SizeInv

\* The reset: m_file_size was below the limit, and so is at most one buffer
\* above it (Logger.cpp:43-50).
LEMMA ResetSize == ASSUME IInv, SizeInv, NEW a \in Actors, Alive, Reset(a) PROVE SizeInv'
<1> USE SizeBasics, Basics DEF Reset, Goto, files, history
<1>1. Lined'
  BY DEF Lined, TypeOK
<1>2. m_file_size \in 0..(BIGGEST_FILE_SIZE - 1) /\ m_size \in 0..Capacity
  <2>1. m_file_size < BIGGEST_FILE_SIZE
    BY BelowLimit DEF Critical
  <2> QED BY <2>1, LogFileAssumption DEF Fits, TypeOK
<1>3. Emptied' /\ Fits'
  <2>1. Emptied'
    BY DEF Emptied, TypeOK
  <2>2. \A t \in Threads : pc'[t] \in {"replace", "advance"} =>
          m_size' + Len(line'[t]) <= Capacity
    BY DEF Lined, AfterFlush, TypeOK, Critical
  <2> QED BY <2>1, <2>2 DEF Fits
<1>4. Sized'
  <2>1. \A b \in Actors : pc'[b] # "reset"
    BY DEF Critical, AfterFlush, TypeOK
  <2>2. m_file_size + m_size = Len(disk) - starts[Len(starts)]
    BY DEF Sized, Alive
  <2> QED
    BY <2>1, <2>2 DEF Sized
<1>5. Below'
  <2>1. m_file_size' \in 0..(BIGGEST_FILE_SIZE - 1 + Capacity)
    BY <1>2, LogFileAssumption
  <2>2. \A b \in Actors : pc'[b] = "split" => b = a /\ m_file_size' >= BIGGEST_FILE_SIZE
    BY DEF Critical, AfterFlush, TypeOK
  <2>3. m_file_size' >= BIGGEST_FILE_SIZE => pc'[a] = "split"
    BY DEF TypeOK
  <2> QED
    BY <2>1, <2>2, <2>3, LogFileAssumption DEF Below
<1> QED
  BY <1>1, <1>3, <1>4, <1>5, SameFiles

\* The cut: the buffer is empty, so that the file ends where the last line does,
\* and has as many bytes as m_file_size says (Logger.cpp:61-76).
LEMMA SplitSize == ASSUME IInv, SizeInv, NEW a \in Actors, Alive, Split(a) PROVE SizeInv'
<1> USE SizeBasics, Basics DEF Split, Goto, history
<1> DEFINE n == Len(starts)
<1>1. \A b \in Actors : pc'[b] \notin {"reset", "split"} /\ (b # a => pc'[b] = pc[b])
  BY DEF Critical, AfterFlush, TypeOK
<1>2. /\ Len(starts') = n + 1 /\ starts'[n + 1] = Len(disk)
      /\ \A i \in 1..n : starts'[i] = starts[i]
  BY AppendProperties DEF TypeOK
<1>3. m_size = 0 /\ disk = logged
  <2>1. m_size = 0 /\ \A b \in Actors : pc[b] # "reset"
    BY DEF Emptied, Critical, TypeOK
  <2>2. SubSeq(m_buffer, 1, 0) = <<>> /\ disk \o <<>> = disk
    BY SubSeqEmpty, Texts DEF TypeOK
  <2> QED BY <2>1, <2>2 DEF IInv, Content, Unwritten, Alive
<1>4. Lined' /\ Emptied' /\ LastEnd'
  BY <1>1 DEF Lined, Emptied, LastEnd, TypeOK
<1>5. Fits'
  <2>1. \A t \in Threads : pc'[t] \in {"replace", "advance"} =>
          m_size' + Len(line'[t]) <= Capacity
    BY <1>3 DEF Lined, Critical, AfterFlush, TypeOK
  <2> QED BY <2>1 DEF Fits
<1>6. Sized'
  BY <1>1, <1>2 DEF Sized, Cut
<1>7. Below'
  BY <1>1, LogFileAssumption DEF Below
<1>8. Cut'
  <2>1. m_file_size = Len(disk) - starts[n]
    <3>1. \A b \in Actors : pc[b] # "reset"
      BY DEF Critical, TypeOK
    <3> QED BY <3>1 DEF Sized, Alive
  <2>2. starts'[n + 1] - starts'[n] \in
          BIGGEST_FILE_SIZE..(BIGGEST_FILE_SIZE - 1 + Capacity)
    BY <1>2, <2>1 DEF Below, Cut
  <2>3. \A i \in 1..n : starts'[i+1] - starts'[i] \in
          BIGGEST_FILE_SIZE..(BIGGEST_FILE_SIZE - 1 + Capacity)
    <3> SUFFICES ASSUME NEW i \in 1..n
                 PROVE  starts'[i+1] - starts'[i] \in
                          BIGGEST_FILE_SIZE..(BIGGEST_FILE_SIZE - 1 + Capacity)
      OBVIOUS
    <3>1. CASE i = n BY <2>2, <3>1
    <3>2. CASE i # n
      <4>1. i \in 1..(n - 1) /\ i + 1 \in 1..n
        BY <3>2 DEF Cut
      <4> QED BY <1>2, <4>1 DEF Cut
    <3> QED BY <3>1, <3>2
  <2>4. n \in Nat \ {0} /\ m_file_nums = n /\ n <= BIGGEST_FILE_NUMS
    BY DEF Cut
  <2>5. /\ Len(starts') \in Nat \ {0} /\ m_file_nums' = Len(starts')
        /\ Len(starts') <= BIGGEST_FILE_NUMS + 1
    BY <1>2, <2>4, LogFileAssumption
  <2>6. 1..(Len(starts') - 1) = 1..n
    BY <1>2, <2>4
  <2> HIDE DEF n
  <2> QED
    BY <2>3, <2>5, <2>6 DEF Cut
<1>9. WholeLinesPerFile'
  BY <1>2, <1>3 DEF WholeLinesPerFile, LastEnd, Cut
<1>10. LossBound'
  BY DEF LossBound
<1>11. InDisk'
  <2>1. n \in Nat /\ Len(disk) \in Nat /\ disk' = disk
    BY DEF Cut
  <2>2. \A i \in 1..n : starts[i] \in 0..Len(disk)
    BY DEF InDisk
  <2> HIDE DEF n
  <2> QED BY ONLY <1>2, <2>1, <2>2 DEF InDisk
<1> QED
  BY <1>4, <1>5, <1>6, <1>7, <1>8, <1>9, <1>10, <1>11 DEF SizeInv

\* The line counts as logged, and ends where the text does (Logger.cpp:136).
LEMMA AdvanceSize ==
  ASSUME IInv, SizeInv, IInv', NEW t \in Threads, Alive, Advance(t) PROVE SizeInv'
<1> USE SizeBasics, Basics DEF Advance, Goto, files
<1>1. \A a \in Actors : /\ pc'[a] \notin {"reset", "split", "replace", "advance"}
                        /\ pc[a] \notin {"reset", "split"}
                        /\ a # t => pc'[a] = pc[a]
  BY DEF Critical, TypeOK
<1>2. m_size' \in Nat /\ m_size' <= Capacity
  BY DEF Fits
<1>3. Lined' /\ Emptied' /\ LastEnd'
  BY <1>1 DEF Lined, Emptied, LastEnd
<1>4. Fits'
  BY <1>1, <1>2 DEF Fits
<1>5. Sized'
  BY <1>1 DEF Sized
<1>6. Below'
  BY <1>1 DEF Below, Alive, TypeOK
<1>7. Cut' /\ InDisk' /\ WholeLinesPerFile'
  BY DEF Cut, InDisk, WholeLinesPerFile
<1>8. LossBound'
  BY <1>2, AliveLossNext DEF Alive
<1> QED
  BY <1>3, <1>4, <1>5, <1>6, <1>7, <1>8 DEF SizeInv

\* A killed process leaves a part of the buffer in the file: still a prefix.
LEMMA KillSize == ASSUME IInv, SizeInv, Alive, Kill PROVE SizeInv'
<1> USE SizeBasics, Basics DEF Kill, object, history
<1> PICK n \in 0..m_size :
      /\ n > 0 => \E a \in Actors : pc[a] = "write"
      /\ disk' = disk \o SubSeq(m_buffer, 1, n)
  OBVIOUS
<1>1. Lined' /\ Emptied' /\ LastEnd' /\ Fits' /\ Sized' /\ Cut' /\ WholeLinesPerFile'
  BY DEF Lined, Emptied, LastEnd, Fits, Sized, Cut, WholeLinesPerFile
<1>2. Below'
  BY DEF Below, Alive
<1>3. LossBound'
  <2>1. CASE n = 0
    <3>1. SubSeq(m_buffer, 1, 0) = <<>> /\ disk \o <<>> = disk
      BY SubSeqEmpty, Texts DEF TypeOK
    <3> QED BY <2>1, <3>1 DEF LossBound
  <2>2. CASE n # 0
    <3>1. disk \o SubSeq(m_buffer, 1, m_size) = logged
      <4>1. PICK a \in Actors : pc[a] = "write"
        BY <2>2
      <4>2. \A b \in Actors : pc[b] # "reset"
        BY <4>1 DEF Critical
      <4>3. disk \o Unwritten = logged
        BY DEF IInv, Content, Alive
      <4> QED BY <4>2, <4>3 DEF Unwritten
    <3>2. IsPrefix(disk', logged) /\ Len(disk') = Len(disk) + n
      <4>1. /\ disk \in Text /\ m_buffer \in Text /\ logged \in Text
            /\ n \in Nat /\ m_size \in Nat /\ n <= m_size /\ m_size <= Len(m_buffer)
        BY DEF IInv, InRange, TypeOK
      <4>2. /\ IsPrefix(disk \o SubSeq(m_buffer, 1, n), logged)
            /\ Len(disk \o SubSeq(m_buffer, 1, n)) = Len(disk) + n
        BY ONLY <3>1, <4>1, PartWritten, ZenonT(40)
      <4>3. disk' = disk \o SubSeq(m_buffer, 1, n)
        OBVIOUS
      <4> QED BY ONLY <4>2, <4>3
    <3> QED BY <3>2 DEF LossBound
  <2> QED BY <2>1, <2>2
<1>4. InDisk'
  <2>1. Len(disk') = Len(disk) + Len(SubSeq(m_buffer, 1, n)) /\ Len(SubSeq(m_buffer, 1, n)) \in Nat
    <3>1. m_buffer \in Text /\ n \in Nat /\ n <= Len(m_buffer) /\ disk \in Text
      BY Texts DEF IInv, InRange, TypeOK
    <3>2. SubSeq(m_buffer, 1, n) \in Text
      BY <3>1, Texts
    <3> QED BY <3>1, <3>2, PrefixOfConcat, Texts
  <2>2. starts' = starts /\ \A i \in 1..Len(starts) : starts[i] \in 0..Len(disk)
    BY DEF InDisk
  <2>3. Len(disk) \in Nat
    OBVIOUS
  <2> QED BY ONLY <2>1, <2>2, <2>3 DEF InDisk
<1> QED
  BY <1>1, <1>2, <1>3, <1>4 DEF SizeInv

-----------------------------------------------------------------------------
(***************************************************************************)
(* The theorems.                                                           *)
(***************************************************************************)

\* No step of the logger leaves the invariant: one case for each action.
LEMMA NextSizeInv == IInv /\ SizeInv /\ IInv' /\ [Next]_vars => SizeInv'
<1> SUFFICES ASSUME IInv, SizeInv, IInv', [Next]_vars PROVE SizeInv'
  OBVIOUS
<1>1. ASSUME NEW a \in Actors, Step(a) PROVE SizeInv'
  <2>1. CASE Alive /\ Shared(a)
    BY <2>1, LockSize, WriteSize, ResetSize, SplitSize DEF Shared
  <2>2. CASE Alive /\ a = Fini /\ Destructor
    BY <2>2, ThrowInDestructorSize, CloseOutSize, UnlockInDestructorSize
       DEF Destructor
  <2>3. CASE Alive /\ a # Fini /\ Logline(a)
    <3>1. a \in Threads
      BY <2>3 DEF Actors
    <3> QED
      BY <2>3, <3>1, CallSize, CheckSize, ThrowInLoglineSize, ReplaceSize,
         AdvanceSize, UnlockInLoglineSize DEF Logline
  <2> QED
    BY <1>1, <2>1, <2>2, <2>3 DEF Step
<1>2. CASE Alive /\ (Exit \/ Kill)
  BY <1>2, ExitSize, KillSize
<1>3. CASE UNCHANGED vars
  BY <1>3 DEF vars, object, files, history, SizeInv, Emptied, LastEnd, Lined, Fits,
     Sized, Below, Alive, Cut, InDisk, WholeLinesPerFile, LossBound
<1> QED
  BY <1>1, <1>2, <1>3 DEF Next

\* The inductive invariant of the sizes (Logger.cpp:39-138).
THEOREM SizeInvariance == Spec => [](IInv /\ SizeInv)
<1>1. Init => SizeInv
  BY SizeInit
<1>2. IInv /\ SizeInv /\ IInv' /\ [Next]_vars => SizeInv'
  BY NextSizeInv
<1> QED
  BY <1>1, <1>2, Invariance, PTL DEF Spec

\* A line never straddles two files, for any lines and any limit
\* (Logger.cpp:39-76).
THEOREM WholeLinesCorrect == Spec => []WholeLinesPerFile
<1>1. SizeInv => WholeLinesPerFile
  BY DEF SizeInv
<1> QED
  BY <1>1, SizeInvariance, PTL

\* What a text takes in a file: at most twice what was handed over, as every
\* newline becomes two bytes (Logger.cpp:25, 68).
LEMMA SizeInFileIs ==
  ASSUME NEW text, Len(text) \in Nat
  PROVE  SizeInFile(text) \in Len(text)..(2 * Len(text))
<1>1. IsFiniteSet(1..Len(text)) /\ Cardinality(1..Len(text)) = Len(text)
  <2> PICK n \in Nat : n = Len(text)
    OBVIOUS
  <2>1. 1 \in Int /\ n \in Int
    OBVIOUS
  <2>2. IsFiniteSet(1..n) /\ Cardinality(1..n) = IF 1 > n THEN 0 ELSE n - 1 + 1
    BY ONLY <2>1, FS_Interval
  <2>3. (IF 1 > n THEN 0 ELSE n - 1 + 1) = n
    OBVIOUS
  <2> QED BY <2>2, <2>3
<1>2. Newlines(text) \subseteq 1..Len(text)
  BY DEF Newlines
<1>3. Cardinality(Newlines(text)) \in Nat /\ Cardinality(Newlines(text)) <= Len(text)
  BY <1>1, <1>2, FS_Subset, FS_CardinalityType
<1> QED BY <1>3 DEF SizeInFile

\* How much a file was given.
LEMMA FileLength ==
  ASSUME IInv, Cut, InDisk, NEW i \in 1..Len(starts)
  PROVE  Len(Meant(i)) = (IF i < Len(starts) THEN starts[i+1] ELSE Len(disk)) - starts[i]
<1>1. disk \in Text /\ Len(disk) \in Nat /\ Len(starts) \in Nat
  BY Texts DEF IInv, TypeOK, Cut
<1> PICK q : q = IF i < Len(starts) THEN starts[i+1] ELSE Len(disk)
  OBVIOUS
<1>2. starts[i] \in Nat /\ starts[i] <= Len(disk)
  BY <1>1 DEF InDisk
<1>3. q \in Nat /\ q <= Len(disk) /\ starts[i] <= q
  <2>1. CASE i < Len(starts)
    <3>1. i \in 1..(Len(starts) - 1) /\ i + 1 \in 1..Len(starts)
      BY <1>1, <2>1
    <3>2. starts[i+1] \in 0..Len(disk)
      BY <3>1 DEF InDisk
    <3>3. starts[i+1] - starts[i] >= 0
      BY <3>1, LogFileAssumption, CapacityFacts DEF Cut
    <3> QED BY <1>1, <1>2, <2>1, <3>2, <3>3
  <2>2. CASE ~(i < Len(starts))
    BY <1>1, <1>2, <2>2
  <2> QED BY <2>1, <2>2
<1>4. Len(SubSeq(disk, starts[i] + 1, q)) = q - starts[i]
  <2> DEFINE S == Bytes \cup {NUL}
  <2>1. disk \in Seq(S)
    BY <1>1 DEF Text
  <2> HIDE DEF S
  <2>2. \A k \in (starts[i] + 1)..q : disk[k] \in S
    BY <1>1, <1>2, <1>3, <2>1, ElementOfSeq
  <2> PICK p \in Nat : p = starts[i]
    BY <1>2
  <2>3. Len(SubSeq(disk, p + 1, q)) = (IF p + 1 <= q THEN q - (p + 1) + 1 ELSE 0)
    <3>1. p + 1 \in Int /\ q \in Int
      BY <1>3
    <3> QED BY <2>2, <3>1, SubSeqProperties
  <2>4. p <= q
    BY <1>3
  <2>5. Len(SubSeq(disk, p + 1, q)) = q - p
    BY ONLY <2>3, <2>4, p \in Nat, <1>3
  <2> QED BY <2>5
<1> QED BY <1>4 DEF Meant

\* Every finished file was given BIGGEST_FILE_SIZE bytes at least and less than a
\* buffer more, which take up to twice the room, and there is at most one file more
\* than BIGGEST_FILE_NUMS (Logger.cpp:25, 44-68).
THEOREM FileSizesCorrect == Spec => []FileSizes
<1>1. IInv /\ SizeInv => FileSizes
  <2> SUFFICES ASSUME IInv, SizeInv PROVE FileSizes
    OBVIOUS
  <2>1. Cut /\ InDisk /\ Sized
    BY DEF SizeInv
  <2>2. Len(starts) \in Nat \ {0} /\ m_file_nums = Len(starts) /\ Len(starts) <= BIGGEST_FILE_NUMS + 1
    BY <2>1 DEF Cut
  <2>3. ASSUME status # "killed", \A a \in Actors : pc[a] # "reset"
        PROVE  m_file_size = Len(Meant(Len(starts)))
    <3>1. m_file_size = Len(disk) - starts[Len(starts)]
      BY <2>1, <2>3 DEF Sized
    <3>2. Len(starts) \in 1..Len(starts) /\ ~(Len(starts) < Len(starts))
      BY <2>2
    <3>3. Len(Meant(Len(starts))) = Len(disk) - starts[Len(starts)]
      BY <2>1, <3>2, FileLength
    <3> QED BY ONLY <3>1, <3>3
  <2>4. ASSUME NEW i \in 1..(Len(starts) - 1)
        PROVE  /\ Len(Meant(i)) \in BIGGEST_FILE_SIZE..(BIGGEST_FILE_SIZE - 1 + Capacity)
               /\ SizeInFile(Meant(i)) \in
                    BIGGEST_FILE_SIZE..(2 * (BIGGEST_FILE_SIZE - 1 + Capacity))
    <3>1. i \in 1..Len(starts) /\ i < Len(starts)
      BY <2>2
    <3>2. Len(Meant(i)) = starts[i+1] - starts[i]
      BY <2>1, <3>1, FileLength
    <3>3. Len(Meant(i)) \in BIGGEST_FILE_SIZE..(BIGGEST_FILE_SIZE - 1 + Capacity)
      BY <2>1, <3>2 DEF Cut
    <3>4. BIGGEST_FILE_SIZE \in Nat /\ Capacity \in Nat /\ BIGGEST_FILE_SIZE # 0
      BY LogFileAssumption, CapacityFacts
    <3>5. Len(Meant(i)) \in Nat
      BY <3>3, <3>4
    <3>6. SizeInFile(Meant(i)) \in Len(Meant(i))..(2 * Len(Meant(i)))
      BY <3>5, SizeInFileIs
    <3> QED BY ONLY <3>3, <3>4, <3>5, <3>6
  <2> QED BY <2>2, <2>3, <2>4 DEF FileSizes
<1> QED
  BY <1>1, SizeInvariance, PTL

\* A process that dies at any step loses at most one buffer of finished calls
\* (Logger.cpp:39-43, 128-137).
THEOREM LossBoundCorrect == Spec => []LossBound
<1>1. SizeInv => LossBound
  BY DEF SizeInv
<1> QED
  BY <1>1, SizeInvariance, PTL

-----------------------------------------------------------------------------
(***************************************************************************)
(* The refinement.                                                         *)
(***************************************************************************)

\* Each step of the logger is a step of the stream, or none for it.
LEMMA StepIsStreamStep ==
  ASSUME IInv, SizeInv, IInv', SizeInv', [Next]_vars
  PROVE  [Stream!Next]_(Stream!vars)
<1> USE DEF Stream!Next, Stream!vars, phase
<1>1. /\ disk \in Text /\ logged \in Text /\ disk' \in Text
      /\ IsPrefix(disk, logged) /\ IsPrefix(disk', logged') /\ IsPrefix(disk, disk)
  <2>1. disk \in Text /\ logged \in Text /\ disk' \in Text
    BY Texts DEF IInv, TypeOK
  <2>2. disk \o <<>> = disk /\ <<>> \in Text
    BY <2>1, Texts
  <2>3. IsPrefix(disk, disk)
    BY <2>1, <2>2, PrefixOfConcat
  <2> QED BY <2>1, <2>3 DEF SizeInv, LossBound
<1>2. ASSUME NEW a \in Actors, Alive, Write(a) PROVE Stream!Persist
  <2>1. SubSeq(m_buffer, 1, m_size) \in Text
    BY Texts DEF IInv, InRange, TypeOK
  <2>2. IsPrefix(disk, disk')
    BY <1>1, <1>2, <2>1, PrefixOfConcat DEF Write
  <2>3. Stream!IsPrefix(disk, disk') /\ Stream!IsPrefix(disk', logged)
    BY <1>1, <1>2, <2>2 DEF Write, history, IsPrefix, Stream!IsPrefix
  <2> QED BY <1>2, <2>3 DEF Write, Stream!Persist, Alive, history
<1>3. ASSUME NEW t \in Threads, Alive, Advance(t)
      PROVE  Stream!Accept \/ UNCHANGED Stream!vars
  <2>1. line[t] \in Lines \/ line[t] = <<>>
    BY DEF SizeInv, Lined, Actors
  <2>2. logged \o <<>> = logged
    BY <1>1, Texts
  <2> QED BY <1>3, <2>1, <2>2 DEF Advance, files, Stream!Accept, Alive
<1>4. ASSUME Alive, UnlockInDestructor PROVE Stream!Close
  <2>1. status' = "exited" /\ disk' = logged'
    BY <1>4 DEF UnlockInDestructor, IInv, CleanExit
  <2> QED BY <1>4, <2>1 DEF UnlockInDestructor, history, files, Stream!Close, Alive
<1>5. ASSUME Alive, ThrowInDestructor PROVE Stream!Die
  <2>1. Stream!IsPrefix(disk, disk) /\ Stream!IsPrefix(disk, logged)
    BY <1>1 DEF IsPrefix, Stream!IsPrefix
  <2> QED BY <1>5, <2>1 DEF ThrowInDestructor, history, files, Stream!Die, Alive
<1>6. ASSUME Alive, Kill PROVE Stream!Die
  <2>1. PICK n \in 0..m_size : disk' = disk \o SubSeq(m_buffer, 1, n)
    BY <1>6 DEF Kill
  <2>2. n \in Nat /\ n <= Len(m_buffer) /\ m_buffer \in Text
    BY <2>1, Texts DEF IInv, InRange, TypeOK
  <2>3. IsPrefix(disk, disk')
    BY <1>1, <2>1, <2>2, Texts, PrefixOfConcat
  <2>4. Stream!IsPrefix(disk, disk') /\ Stream!IsPrefix(disk', logged)
    BY <1>1, <1>6, <2>3 DEF Kill, history, IsPrefix, Stream!IsPrefix
  <2> QED BY <1>6, <2>4 DEF Kill, history, Stream!Die, Alive
<1>7. ASSUME Alive, NEW a \in Actors,
             \/ Lock(a) \/ Reset(a) \/ Split(a) \/ CloseOut \/ Exit
             \/ a \in Threads /\ (\/ Call(a) \/ Check(a) \/ ThrowInLogline(a)
                                  \/ Replace(a) \/ UnlockInLogline(a))
      PROVE  UNCHANGED Stream!vars
  BY <1>7 DEF Lock, Reset, Split, CloseOut, Exit, Call, Check, ThrowInLogline, Replace,
     UnlockInLogline, files, history, Alive
<1>8. CASE \E a \in Actors : Step(a)
  <2>1. PICK a \in Actors : Step(a)
    BY <1>8
  <2>2. a # Fini => a \in Threads
    BY DEF Actors
  <2> QED BY <1>2, <1>3, <1>4, <1>5, <1>7, <2>1, <2>2 DEF Step, Shared, Destructor, Logline
<1>9. CASE Alive /\ (Exit \/ Kill)
  <2>1. Fini \in Actors
    BY DEF Actors
  <2> QED BY <1>6, <1>7, <1>9, <2>1
<1>10. CASE UNCHANGED vars
  BY <1>10 DEF vars, files, history
<1> QED BY <1>8, <1>9, <1>10 DEF Next

\* The logger implements the abstract stream: lines taken whole and in order,
\* files that always hold a prefix of them, all of them after a clean exit
\* (Logger.cpp:28-138).
THEOREM ImplementsStreamCorrect == Spec => ImplementsStream
<1>1. Init => Stream!Init
  BY DEF Init, Stream!Init, phase
<1>2. IInv /\ SizeInv /\ IInv' /\ SizeInv' /\ [Next]_vars => [Stream!Next]_(Stream!vars)
  BY StepIsStreamStep
<1> QED
  BY <1>1, <1>2, SizeInvariance, PTL DEF Spec, ImplementsStream, Stream!Spec

-----------------------------------------------------------------------------
(***************************************************************************)
(* A disk that may refuse.                                                 *)
(***************************************************************************)

\* A piece of what stands before y does not change when y is written behind it.
LEMMA PieceStays ==
  \A x, y \in Text, p, q \in Nat : q <= Len(x) =>
    SubSeq(x \o y, p + 1, q) = SubSeq(x, p + 1, q)
<1> DEFINE S == Bytes \cup {NUL}
<1>0. Text = Seq(S)
  BY DEF Text
<1> HIDE DEF S
<1> SUFFICES ASSUME NEW x \in Text, NEW y \in Text, NEW p \in Nat, NEW q \in Nat, q <= Len(x)
             PROVE  SubSeq(x \o y, p + 1, q) = SubSeq(x, p + 1, q)
  OBVIOUS
<1>1. x \in Seq(S) /\ y \in Seq(S) /\ Len(x) \in Nat /\ Len(y) \in Nat
  BY <1>0, LenProperties
<1>2. /\ x \o y \in Seq(S) /\ Len(x \o y) = Len(x) + Len(y)
      /\ \A i \in 1..Len(x) : (x \o y)[i] = x[i]
  BY <1>1, ConcatProperties
<1> DEFINE z == x \o y
           u == SubSeq(x, p + 1, q)
           w == SubSeq(z, p + 1, q)
<1>3. /\ u \in Seq(S) /\ Len(u) = (IF p + 1 <= q THEN q - (p + 1) + 1 ELSE 0)
      /\ \A i \in 1..(q - (p + 1) + 1) : u[i] = x[p + 1 + i - 1]
  <2>1. \A i \in (p + 1)..q : x[i] \in S
    BY <1>1, ElementOfSeq
  <2>2. p + 1 \in Int /\ q \in Int
    OBVIOUS
  <2> QED BY <2>1, <2>2, SubSeqProperties
<1> HIDE DEF z
<1>4. /\ w \in Seq(S) /\ Len(w) = (IF p + 1 <= q THEN q - (p + 1) + 1 ELSE 0)
      /\ \A i \in 1..(q - (p + 1) + 1) : w[i] = z[p + 1 + i - 1]
  <2>1. \A i \in (p + 1)..q : z[i] \in S
    <3>1. z \in Seq(S) /\ \A i \in (p + 1)..q : i \in 1..Len(z)
      BY <1>1, <1>2 DEF z
    <3> QED BY <3>1, ElementOfSeq
  <2>2. p + 1 \in Int /\ q \in Int
    OBVIOUS
  <2> QED BY <2>1, <2>2, SubSeqProperties
<1> HIDE DEF u, w
<1>5. Len(u) = Len(w)
  BY <1>3, <1>4
<1>6. ASSUME NEW i \in 1..Len(u) PROVE u[i] = w[i]
  <2>1. i \in 1..(q - (p + 1) + 1)
    BY ONLY <1>3, i \in 1..Len(u), p \in Nat, q \in Nat
  <2>2. p + 1 + i - 1 \in 1..Len(x)
    BY ONLY <2>1, <1>1, p \in Nat, q \in Nat, q <= Len(x)
  <2>3. z[p + 1 + i - 1] = x[p + 1 + i - 1]
    BY <1>2, <2>2 DEF z
  <2> QED BY ONLY <1>3, <1>4, <2>1, <2>3
<1>7. u = w
  BY <1>3, <1>4, <1>5, <1>6, SeqEqual
<1> QED BY <1>7 DEF u, w, z

\* The piece up to the end grows by what is written.
LEMMA PieceGrows ==
  \A x, y \in Text, p \in Nat : p <= Len(x) =>
    /\ SubSeq(x \o y, p + 1, Len(x \o y)) = SubSeq(x, p + 1, Len(x)) \o y
<1> SUFFICES ASSUME NEW x \in Text, NEW y \in Text, NEW p \in Nat, p <= Len(x)
             PROVE  SubSeq(x \o y, p + 1, Len(x \o y)) = SubSeq(x, p + 1, Len(x)) \o y
  OBVIOUS
<1> DEFINE S == Bytes \cup {NUL}
           t == SubSeq(x, p + 1, Len(x))
           z == x \o y
<1>0. Text = Seq(S)
  BY DEF Text
<1> HIDE DEF S
<1>1. x \in Seq(S) /\ y \in Seq(S) /\ Len(x) \in Nat /\ Len(y) \in Nat
  BY <1>0, LenProperties
<1>2. /\ z \in Seq(S) /\ Len(z) = Len(x) + Len(y)
      /\ \A i \in 1..(Len(x) + Len(y)) : z[i] = IF i <= Len(x) THEN x[i] ELSE y[i - Len(x)]
  BY <1>1, ConcatProperties
<1>3. /\ t \in Seq(S) /\ Len(t) = Len(x) - p
      /\ \A i \in 1..(Len(x) - p) : t[i] = x[p + i]
  <2>1. \A i \in (p + 1)..Len(x) : x[i] \in S
    BY <1>1, ElementOfSeq
  <2>2. /\ t \in Seq(S)
        /\ Len(t) = (IF p + 1 <= Len(x) THEN Len(x) - (p + 1) + 1 ELSE 0)
        /\ \A i \in 1..(Len(x) - (p + 1) + 1) : t[i] = x[p + 1 + i - 1]
    BY <1>1, <2>1, SubSeqProperties
  <2>3. Len(t) = Len(x) - p /\ Len(x) - (p + 1) + 1 = Len(x) - p
    BY <1>1, <2>2
  <2>4. \A i \in 1..(Len(x) - p) : p + 1 + i - 1 = p + i
    BY <1>1
  <2> QED BY <2>2, <2>3, <2>4
<1> HIDE DEF t, z
<1> DEFINE v == t \o y
<1>4. /\ v \in Seq(S) /\ Len(v) = Len(x) - p + Len(y)
      /\ \A i \in 1..(Len(x) - p + Len(y)) :
           v[i] = IF i <= Len(x) - p THEN t[i] ELSE y[i - (Len(x) - p)]
  <2>1. t \in Seq(S) /\ Len(t) = Len(x) - p
    BY <1>3
  <2>2. /\ v \in Seq(S) /\ Len(v) = Len(t) + Len(y)
        /\ \A i \in 1..(Len(t) + Len(y)) :
             v[i] = IF i <= Len(t) THEN t[i] ELSE y[i - Len(t)]
    BY <1>1, <2>1, ConcatProperties
  <2> QED BY ONLY <2>1, <2>2
<1> HIDE DEF v
<1>5. ASSUME NEW i \in 1..Len(v) PROVE z[p + i] = v[i]
  <2>1. /\ i \in 1..(Len(x) - p + Len(y)) /\ p + i \in 1..(Len(x) + Len(y))
    BY <1>1, <1>4
  <2>2. /\ v[i] = IF i <= Len(x) - p THEN t[i] ELSE y[i - (Len(x) - p)]
        /\ z[p + i] = IF p + i <= Len(x) THEN x[p + i] ELSE y[p + i - Len(x)]
    BY ONLY <1>2, <1>4, <2>1
  <2>3. CASE i <= Len(x) - p
    <3>1. p + i <= Len(x) /\ i \in 1..(Len(x) - p)
      BY <1>1, <2>1, <2>3
    <3>2. t[i] = x[p + i]
      BY ONLY <1>3, <3>1
    <3> QED BY ONLY <2>2, <2>3, <3>1, <3>2
  <2>4. CASE ~(i <= Len(x) - p)
    <3>1. ~(p + i <= Len(x)) /\ p + i - Len(x) = i - (Len(x) - p)
      BY <1>1, <2>1, <2>4
    <3> QED BY ONLY <2>2, <2>4, <3>1
  <2> QED BY <2>3, <2>4
<1> DEFINE j == p + 1
<1>6. /\ j \in Nat \ {0} /\ j - 1 + Len(v) = Len(z) /\ Len(z) \in Nat
      /\ \A i \in 1..Len(v) : j - 1 + i = p + i
  BY <1>1, <1>2, <1>4
<1> HIDE DEF j
<1>7. SubSeq(z, j, j - 1 + Len(v)) = v
  <2>1. \A i \in 1..Len(v) : z[j - 1 + i] = v[i]
    BY ONLY <1>5, <1>6
  <2>2. j - 1 + Len(v) <= Len(z)
    BY ONLY <1>6
  <2>3. z \in Seq(S) /\ v \in Seq(S) /\ j \in Nat \ {0}
    BY <1>2, <1>4, <1>6
  <2> QED BY ONLY <2>1, <2>2, <2>3, SubSeqIs
<1>8. SubSeq(z, j, Len(z)) = v
  BY ONLY <1>6, <1>7
<1> QED BY <1>8 DEF v, t, z, j

\* A prefix stays one when the text grows.
LEMMA PrefixStays ==
  \A k, m, h \in Text : IsPrefix(k, m) => IsPrefix(k, m \o h)
<1> SUFFICES ASSUME NEW k \in Text, NEW m \in Text, NEW h \in Text, IsPrefix(k, m)
             PROVE  IsPrefix(k, m \o h)
  OBVIOUS
<1>1. Len(k) \in Nat /\ Len(m) \in Nat /\ Len(h) \in Nat /\ Len(k) <= Len(m)
  BY Texts DEF IsPrefix
<1>2. Len(m \o h) = Len(m) + Len(h)
  BY PrefixOfConcat
<1>3. SubSeq(m \o h, 1, Len(k)) = SubSeq(m, 1, Len(k))
  <2>1. SubSeq(m \o h, 0 + 1, Len(k)) = SubSeq(m, 0 + 1, Len(k))
    <3>1. 0 \in Nat
      OBVIOUS
    <3>2. Len(k) \in Nat
      BY <1>1
    <3>3. Len(k) <= Len(m) /\ m \in Text /\ h \in Text
      BY <1>1
    <3> QED BY ONLY <3>1, <3>2, <3>3, PieceStays, Zenon
  <2>2. 0 + 1 = 1
    OBVIOUS
  <2> QED BY ONLY <2>1, <2>2, Zenon
<1>4. SubSeq(k, 1, Len(k)) = SubSeq(m, 1, Len(k))
  BY DEF IsPrefix
<1>5. Len(k) <= Len(m \o h)
  BY ONLY <1>1, <1>2
<1> QED BY ONLY <1>3, <1>4, <1>5 DEF IsPrefix

\* A text, and the part of it that a write under way left behind another.
LEMMA PartBehind ==
  \A m, h \in Text, n \in Nat : n <= Len(h) =>
    /\ SubSeq(h, 1, n) \in Text
    /\ IsPrefix(m \o SubSeq(h, 1, n), m \o h)
    /\ SubSeq(h, 1, Len(h)) = h
<1> SUFFICES ASSUME NEW m \in Text, NEW h \in Text, NEW n \in Nat, n <= Len(h)
             PROVE  /\ SubSeq(h, 1, n) \in Text
                    /\ IsPrefix(m \o SubSeq(h, 1, n), m \o h)
                    /\ SubSeq(h, 1, Len(h)) = h
  OBVIOUS
<1>1. Len(h) \in Nat /\ Len(h) <= Len(h)
  BY Texts
<1>2. SubSeq(h, 1, n) \in Text
  BY Texts
<1>3. SubSeq(h, 1, Len(h)) = h
  <2>1. IsPrefix(h, h \o <<>>) /\ h \o <<>> = h
    BY Texts, PrefixOfConcat
  <2>2. SubSeq(<<>> \o h, 0 + 1, Len(<<>> \o h)) = SubSeq(<<>>, 0 + 1, Len(<<>>)) \o h
    BY Texts, PieceGrows
  <2> DEFINE S == Bytes \cup {NUL}
  <2>3. Text = Seq(S)
    BY DEF Text
  <2> HIDE DEF S
  <2>4. <<>> \o h = h
    BY <2>3, ConcatEmptySeq
  <2>5. SubSeq(<<>>, 0 + 1, Len(<<>>)) = <<>>
    <3>1. <<>> \in Text /\ Len(<<>>) = 0
      BY Texts
    <3> QED BY <2>3, <3>1, SubSeqEmpty
  <2>6. 0 + 1 = 1
    OBVIOUS
  <2> QED BY ONLY <2>2, <2>4, <2>5, <2>6, Zenon
<1>4. IsPrefix(m \o SubSeq(h, 1, n), m \o h)
  <2> DEFINE l == m \o h
  <2>1. l \in Text
    BY Texts
  <2>2. m \o SubSeq(h, 1, Len(h)) = l
    BY <1>3
  <2> HIDE DEF l
  <2>3. IsPrefix(m \o SubSeq(h, 1, n), l)
    <3>1. /\ m \in Text /\ h \in Text /\ n \in Nat
          /\ n <= Len(h)
      OBVIOUS
    <3>2. Len(h) \in Nat
      BY <1>1
    <3>3. Len(h) <= Len(h)
      BY <1>1
    <3>4. n <= Len(h) /\ Len(h) <= Len(h) /\ m \o SubSeq(h, 1, Len(h)) = l
      BY ONLY <2>2, <3>1, <3>3
    <3> QED BY ONLY <2>1, <3>1, <3>2, <3>4, PartWritten
  <2> QED BY <2>3 DEF l
<1> QED BY <1>2, <1>3, <1>4

\* What stands at a place of a text, and of that text with another behind it.
LEMMA ElementStays ==
  \A m, h \in Text, k \in Nat : k < Len(m) =>
    k < Len(m \o h) /\ (m \o h)[k + 1] = m[k + 1]
<1> SUFFICES ASSUME NEW m \in Text, NEW h \in Text, NEW k \in Nat, k < Len(m)
             PROVE  k < Len(m \o h) /\ (m \o h)[k + 1] = m[k + 1]
  OBVIOUS
<1> DEFINE S == Bytes \cup {NUL}
<1>1. m \in Seq(S) /\ h \in Seq(S) /\ Len(m) \in Nat /\ Len(h) \in Nat
  BY Texts DEF Text
<1> HIDE DEF S
<1>2. /\ Len(m \o h) = Len(m) + Len(h)
      /\ \A i \in 1..(Len(m) + Len(h)) : (m \o h)[i] = IF i <= Len(m) THEN m[i] ELSE h[i - Len(m)]
  BY <1>1, ConcatProperties
<1>3. k + 1 \in 1..(Len(m) + Len(h)) /\ k + 1 <= Len(m) /\ k < Len(m) + Len(h)
  BY <1>1
<1> QED BY ONLY <1>2, <1>3

\* What stands at a place of the text behind.
LEMMA ElementBehind ==
  \A m, h \in Text, k \in Nat : k < Len(h) =>
    /\ Len(m) + k < Len(m \o h) /\ (m \o h)[Len(m) + k + 1] = h[k + 1]
<1> SUFFICES ASSUME NEW m \in Text, NEW h \in Text, NEW k \in Nat, k < Len(h)
             PROVE  Len(m) + k < Len(m \o h) /\ (m \o h)[Len(m) + k + 1] = h[k + 1]
  OBVIOUS
<1> DEFINE S == Bytes \cup {NUL}
<1>1. m \in Seq(S) /\ h \in Seq(S) /\ Len(m) \in Nat /\ Len(h) \in Nat
  BY Texts DEF Text
<1> HIDE DEF S
<1>2. /\ Len(m \o h) = Len(m) + Len(h)
      /\ \A i \in 1..(Len(m) + Len(h)) : (m \o h)[i] = IF i <= Len(m) THEN m[i] ELSE h[i - Len(m)]
  BY <1>1, ConcatProperties
<1>3. /\ Len(m) + k + 1 \in 1..(Len(m) + Len(h)) /\ ~(Len(m) + k + 1 <= Len(m))
      /\ Len(m) + k + 1 - Len(m) = k + 1 /\ Len(m) + k < Len(m) + Len(h)
  BY <1>1
<1> QED BY ONLY <1>2, <1>3

-----------------------------------------------------------------------------
\* What a step does to the files: it hands some text to the current one, or opens
\* the next (Logger.cpp:39-78).
LEMMA DiskStep ==
  ASSUME IInv, SizeInv, [Next]_vars
  PROVE  \/ starts' = starts /\ \E h \in Text : disk' = disk \o h
         \/ starts' = Append(starts, Len(disk)) /\ disk' = disk
<1> DEFINE Grown == starts' = starts /\ \E h \in Text : disk' = disk \o h
<1>1. disk \in Text /\ disk \o <<>> = disk /\ <<>> \in Text
  BY Texts DEF IInv, TypeOK
<1>2. starts' = starts /\ disk' = disk => Grown
  BY <1>1
<1>3. ASSUME NEW a \in Actors, Alive, Write(a) PROVE Grown
  <2>1. SubSeq(m_buffer, 1, m_size) \in Text
    BY Texts DEF IInv, InRange, TypeOK
  <2> QED BY <1>3, <2>1 DEF Write
<1>4. ASSUME Alive, Kill PROVE Grown
  <2>1. PICK n \in 0..m_size : disk' = disk \o SubSeq(m_buffer, 1, n)
    BY <1>4 DEF Kill
  <2>2. n \in Nat /\ n <= Len(m_buffer) /\ m_buffer \in Text
    BY <2>1, Texts DEF IInv, InRange, TypeOK
  <2>3. SubSeq(m_buffer, 1, n) \in Text
    BY <2>2, Texts
  <2> QED BY <1>4, <2>1, <2>3 DEF Kill
<1>5. ASSUME Alive, NEW a \in Actors,
             \/ Lock(a) \/ Reset(a) \/ CloseOut \/ Exit
             \/ ThrowInDestructor \/ UnlockInDestructor
             \/ a \in Threads /\ (\/ Call(a) \/ Check(a) \/ ThrowInLogline(a)
                                  \/ Replace(a) \/ Advance(a) \/ UnlockInLogline(a))
      PROVE  starts' = starts /\ disk' = disk
  BY <1>5 DEF Lock, Reset, CloseOut, Exit, ThrowInDestructor, UnlockInDestructor,
     Call, Check, ThrowInLogline, Replace, Advance, UnlockInLogline, files
<1> HIDE DEF Grown
<1>6. ASSUME NEW a \in Actors, Split(a)
      PROVE  starts' = Append(starts, Len(disk)) /\ disk' = disk
  BY <1>6 DEF Split
<1>7. CASE \E a \in Actors : Step(a)
  <2>1. PICK a \in Actors : Step(a)
    BY <1>7
  <2>2. a # Fini => a \in Threads
    BY DEF Actors
  <2> QED BY <1>2, <1>3, <1>5, <1>6, <2>1, <2>2 DEF Step, Shared, Destructor, Logline, Grown
<1>8. CASE Alive /\ (Exit \/ Kill)
  <2>1. Fini \in Actors
    BY DEF Actors
  <2> QED BY <1>2, <1>4, <1>5, <1>8, <2>1 DEF Grown
<1>9. CASE UNCHANGED vars
  BY <1>2, <1>9 DEF vars, files, Grown
<1> QED BY <1>7, <1>8, <1>9 DEF Next, Grown

\* The files as the disk has them: one for each start, and each start in the text.
Begun ==
  /\ kept \in Seq(Text) /\ Len(kept) = Len(starts) /\ Len(starts) \in Nat \ {0}
  /\ InDisk

\* A stream without an error has written all it was given; one with an error is
\* that of a file the disk refused something for.
Current == IF good THEN kept[Len(kept)] = Meant(Len(kept)) ELSE Len(kept) \in failed

FaultInv == Begun /\ Current /\ LossStaysInFile

LEMMA FaultyInitInv == FaultyInit => FaultInv
<1> SUFFICES ASSUME FaultyInit PROVE FaultInv
  OBVIOUS
<1>1. /\ disk = <<>> /\ starts = <<0>> /\ kept = << <<>> >>
      /\ (good \/ 1 \in failed)
  <2>1. disk = <<>> /\ starts = <<0>>
    BY DEF FaultyInit, Init
  <2>2. kept = << <<>> >>
    BY DEF FaultyInit
  <2>3. good \/ 1 \in failed
    BY DEF FaultyInit
  <2> QED BY <2>1, <2>2, <2>3
<1>2. <<>> \in Text /\ Len(<<>>) = 0
  BY Texts
<1>3. /\ Len(kept) = 1 /\ Len(starts) = 1 /\ kept[1] = <<>> /\ starts[1] = 0
      /\ kept \in Seq(Text)
  BY <1>1, <1>2
<1>4. Begun
  BY <1>1, <1>2, <1>3 DEF Begun, InDisk
<1>5. Meant(1) = <<>>
  <2>1. SubSeq(disk, 0 + 1, 0) = <<>>
    BY <1>1, SubSeqEmpty
  <2>2. Meant(1) = SubSeq(disk, 0 + 1, 0)
    BY <1>1, <1>2, <1>3 DEF Meant
  <2> QED BY <2>1, <2>2
<1>6. Current
  BY <1>1, <1>3, <1>5 DEF Current
<1>7. IsPrefix(<<>>, <<>>)
  BY <1>2, Texts, PrefixOfConcat
<1>8. LossStaysInFile
  <2>1. halved = {}
    BY DEF FaultyInit
  <2> QED BY <1>3, <1>5, <1>7, <2>1 DEF LossStaysInFile
<1> QED BY <1>4, <1>6, <1>8 DEF FaultInv

\* The step writes h: the bytes meant for the current file are followed by h, the
\* other files are as they were.
LEMMA MeantGrows ==
  ASSUME IInv, Begun, NEW h \in Text, starts' = starts, disk' = disk \o h,
         NEW n, n = Len(starts)
  PROVE  /\ Handed = h /\ InDisk'
         /\ Meant(n)' = Meant(n) \o h /\ Meant(n) \in Text
         /\ \A i \in 1..(n - 1) : Meant(i)' = Meant(i)
<1>1. disk \in Text /\ Len(disk) \in Nat /\ Len(h) \in Nat
  BY Texts DEF IInv, TypeOK
<1>2. Len(disk \o h) = Len(disk) + Len(h)
  BY <1>1, PrefixOfConcat
<1>3. n \in Nat \ {0} /\ \A i \in 1..n : starts[i] \in 0..Len(disk)
  BY DEF Begun, InDisk
<1>4. InDisk'
  BY <1>1, <1>2, <1>3 DEF InDisk
<1>5. SubSeq(disk \o h, starts[n] + 1, Len(disk \o h)) = SubSeq(disk, starts[n] + 1, Len(disk)) \o h
  <2>1. starts[n] \in Nat /\ starts[n] <= Len(disk)
    BY <1>1, <1>3
  <2> QED BY ONLY <1>1, <2>1, PieceGrows, h \in Text
<1>6. Meant(n) = SubSeq(disk, starts[n] + 1, Len(disk))
  BY <1>3 DEF Meant
<1>7. Meant(n)' = SubSeq(disk \o h, starts[n] + 1, Len(disk \o h))
  <2>1. ~(n < n)
    BY <1>3
  <2>2. Meant(n)' = SubSeq(disk', starts'[n] + 1, IF n < Len(starts') THEN starts'[n+1] ELSE Len(disk'))
    BY DEF Meant
  <2> QED BY ONLY <2>1, <2>2, n = Len(starts), starts' = starts, disk' = disk \o h, Zenon
<1>8. Handed = h
  <2>1. SubSeq(disk \o h, Len(disk) + 1, Len(disk \o h)) = SubSeq(disk, Len(disk) + 1, Len(disk)) \o h
    <3>1. Len(disk) <= Len(disk)
      BY <1>1
    <3> QED BY ONLY <1>1, <3>1, PieceGrows, h \in Text
  <2> DEFINE S == Bytes \cup {NUL}
  <2>2. disk \in Seq(S) /\ h \in Seq(S)
    BY <1>1 DEF Text
  <2> HIDE DEF S
  <2>3. SubSeq(disk, Len(disk) + 1, Len(disk)) = <<>>
    BY <1>1, <2>2, SubSeqEmpty
  <2>4. <<>> \o h = h
    BY <2>2, ConcatEmptySeq
  <2> QED BY <2>1, <2>3, <2>4 DEF Handed
<1>9. SubSeq(disk, starts[n] + 1, Len(disk)) \in Text
  <2>1. starts[n] \in Nat /\ Len(disk) \in Nat /\ Len(disk) <= Len(disk)
    BY <1>1, <1>3
  <2> QED BY <1>1, <2>1, PieceIs
<1>10. ASSUME NEW i \in 1..(n - 1) PROVE Meant(i)' = Meant(i)
  <2>1. i < n /\ i + 1 \in 1..n /\ i \in 1..n
    BY <1>3
  <2>2. /\ starts[i] \in Nat /\ starts[i + 1] \in Nat /\ starts[i + 1] <= Len(disk)
    BY <1>1, <1>3, <2>1
  <2>3. SubSeq(disk \o h, starts[i] + 1, starts[i + 1]) = SubSeq(disk, starts[i] + 1, starts[i + 1])
    BY ONLY <1>1, <2>2, PieceStays, h \in Text
  <2> QED BY <2>1, <2>3 DEF Meant
<1> QED BY <1>4, <1>5, <1>6, <1>7, <1>8, <1>9, <1>10 

\* A process killed within a write: what it was to write next is behind disk in
\* what was logged.
LEMMA KilledAtNewline ==
  ASSUME IInv, Alive, NEW h \in Text, disk' = disk \o h, Handed = h, logged' = logged, Killed
  PROVE  Len(disk') < Len(logged') /\ logged'[Len(disk') + 1] = NL
<1> DEFINE b == SubSeq(m_buffer, 1, m_size)
<1>1. Len(h) < Len(b) /\ b[Len(h) + 1] = NL
  BY DEF Killed, EndsWithin
<1>2. disk \in Text /\ b \in Text /\ Len(h) \in Nat /\ Len(disk) \in Nat
  BY Texts DEF IInv, InRange, TypeOK
<1>3. disk \o b = logged
  <2>1. PICK a \in Actors : pc[a] = "write"
    BY DEF Killed
  <2>2. \A c \in Actors : pc[c] # "reset"
    BY <2>1, Basics DEF IInv, Holder, Critical
  <2>3. disk \o Unwritten = logged
    BY DEF IInv, Content, Alive
  <2> QED BY <2>2, <2>3 DEF Unwritten
<1> HIDE DEF b
<1>4. Len(disk') = Len(disk) + Len(h)
  BY <1>2, PrefixOfConcat
<1>5. Len(disk) + Len(h) < Len(disk \o b) /\ (disk \o b)[Len(disk) + Len(h) + 1] = b[Len(h) + 1]
  BY ONLY <1>1, <1>2, ElementBehind
<1> QED BY <1>1, <1>3, <1>4, <1>5

\* Nothing is logged by the kill.
LEMMA KillKeepsHistory == Next /\ status' = "killed" => logged' = logged
<1> SUFFICES ASSUME Next, status' = "killed" PROVE logged' = logged
  OBVIOUS
<1>1. ASSUME NEW t, Alive, Logline(t) PROVE logged' = logged
  BY <1>1 DEF Logline, Call, Check, ThrowInLogline, Replace, Advance, UnlockInLogline,
     Alive, history
<1>2. ASSUME NEW a, Shared(a) \/ Destructor PROVE logged' = logged
  BY <1>2 DEF Shared, Lock, Write, Reset, Split, Destructor, ThrowInDestructor, CloseOut,
     UnlockInDestructor, history
<1>3. Exit \/ Kill => logged' = logged
  BY DEF Exit, Kill, history
<1> QED BY <1>1, <1>2, <1>3 DEF Next, Step

\* The stream takes what it is handed, or part of it, or nothing.
LEMMA WrittenFault ==
  ASSUME IInv, FaultInv, NEW h \in Text, starts' = starts, disk' = disk \o h, Written,
         Alive, status' = "killed" => logged' = logged
  PROVE  FaultInv'
<1> PICK n : n = Len(starts)
  OBVIOUS
<1>1. /\ kept \in Seq(Text) /\ Len(kept) = n /\ n \in Nat \ {0} /\ h \in Text
  BY DEF FaultInv, Begun
<1>2. /\ Handed = h /\ InDisk' /\ Meant(n)' = Meant(n) \o h /\ Meant(n) \in Text
      /\ \A i \in 1..(n - 1) : Meant(i)' = Meant(i)
  BY MeantGrows DEF FaultInv
<1>3. /\ IF good THEN kept[n] = Meant(n) ELSE n \in failed
      /\ \A i \in 1..n : IsPrefix(kept[i], Meant(i)) /\ (i \notin failed => kept[i] = Meant(i))
  BY <1>1 DEF FaultInv, Current, LossStaysInFile
<1>4. \A i \in 1..n : kept[i] \in Text
  BY <1>1, ElementOfSeq
<1>10. \A i \in halved : /\ i \in 1..n /\ i \in failed /\ Len(kept[i]) < Len(Meant(i))
                          /\ Meant(i)[Len(kept[i]) + 1] = NL
  <2>1. \A i \in halved : i \in 1..n /\ NewlineNext(i)
    BY <1>1 DEF FaultInv, LossStaysInFile
  <2>2. status # "killed"
    BY DEF Alive
  <2> QED BY <2>1, <2>2 DEF NewlineNext
<1>11. good => n \notin halved
  <2>1. Len(Meant(n)) \in Nat
    BY <1>2, Texts
  <2>2. ~(Len(Meant(n)) < Len(Meant(n)))
    BY <2>1
  <2> QED BY <1>3, <1>10, <2>2
<1> DEFINE Done(k) ==
      /\ k \in Seq(Text) /\ Len(k) = n
      /\ \A i \in 1..(n - 1) : k[i] = kept[i]
      /\ IsPrefix(k[n], Meant(n) \o h)
<1>5. ASSUME NEW m \in Nat, m <= Len(h), Keep(m), kept[n] = Meant(n)
      PROVE  /\ Done(kept') /\ kept'[n] = Meant(n) \o SubSeq(h, 1, m)
  <2>1. kept' = [kept EXCEPT ![n] = kept[n] \o SubSeq(h, 1, m)]
    BY <1>1, <1>2, <1>5 DEF Keep
  <2>2. SubSeq(h, 1, m) \in Text /\ IsPrefix(Meant(n) \o SubSeq(h, 1, m), Meant(n) \o h)
    BY ONLY <1>1, <1>2, PartBehind, m \in Nat, m <= Len(h)
  <2>3. kept[n] \o SubSeq(h, 1, m) \in Text
    <3>1. kept[n] \in Text
      BY <1>1, <1>4
    <3> QED BY ONLY <2>2, <3>1, Texts
  <2>4. n \in 1..Len(kept) /\ n \in 1..n
    BY <1>1
  <2> DEFINE w == kept[n] \o SubSeq(h, 1, m)
  <2>5. w \in Text /\ w = Meant(n) \o SubSeq(h, 1, m)
    BY <1>5, <2>3
  <2>6. kept' = [kept EXCEPT ![n] = w]
    BY <2>1
  <2> HIDE DEF w
  <2>7. /\ kept' \in Seq(Text) /\ Len(kept') = n /\ kept'[n] = w
        /\ \A i \in 1..Len(kept) : i # n => kept'[i] = kept[i]
    BY ONLY <1>1, <2>4, <2>5, <2>6, ExceptSeq
  <2>8. \A i \in 1..(n - 1) : i \in 1..Len(kept) /\ i # n
    BY <1>1
  <2> QED BY <2>2, <2>5, <2>7, <2>8
<1>6. ASSUME Done(kept'),
             \A i \in failed : i \in failed',
             IF good' THEN kept'[n] = Meant(n) \o h ELSE n \in failed',
             n \notin failed' => kept'[n] = Meant(n) \o h,
             \A i \in halved' : i = n \/ i \in halved,
             n \in halved' => NewlineNext(n)'
      PROVE  FaultInv'
  <2>1. Begun'
    BY <1>1, <1>2, <1>6 DEF Begun, InDisk
  <2>2. Current'
    BY <1>1, <1>2, <1>6 DEF Current
  <2>3. ASSUME NEW i \in 1..n
        PROVE  IsPrefix(kept'[i], Meant(i)') /\ (i \notin failed' => kept'[i] = Meant(i)')
    <3>1. CASE i = n
      BY <1>2, <1>6, <3>1
    <3>2. CASE i # n
      <4>1. i \in 1..(n - 1)
        BY <1>1, <3>2
      <4>2. kept'[i] = kept[i] /\ Meant(i)' = Meant(i)
        BY <1>2, <1>6, <4>1
      <4> QED BY <1>3, <1>6, <4>2
    <3> QED BY <3>1, <3>2
  <2>5. ASSUME NEW i \in halved' PROVE i \in 1..n /\ NewlineNext(i)'
    <3>1. CASE i = n
      BY <1>1, <1>6, <3>1
    <3>2. CASE i # n
      <4>1. i \in halved /\ i \in 1..(n - 1)
        BY <1>1, <1>6, <1>10, <3>2
      <4>2. kept'[i] = kept[i] /\ Meant(i)' = Meant(i) /\ i \in 1..n
        BY <1>2, <1>6, <1>10, <4>1
      <4>3. i \in failed' /\ Len(kept'[i]) < Len(Meant(i)') /\ Meant(i)'[Len(kept'[i]) + 1] = NL
        BY <1>6, <1>10, <4>1, <4>2
      <4> QED BY <4>2, <4>3 DEF NewlineNext
    <3> QED BY <3>1, <3>2
  <2>4. LossStaysInFile'
    BY <1>1, <1>6, <2>3, <2>5 DEF LossStaysInFile
  <2> QED BY <2>1, <2>2, <2>4 DEF FaultInv
<1>7. CASE /\ good /\ Keep(Len(Handed)) /\ UNCHANGED <<good, failed>>
           /\ UNCHANGED halved \/ Killed
  <2>1. Len(h) \in Nat /\ Len(h) <= Len(h) /\ Keep(Len(h))
    BY <1>2, <1>7, Texts
  <2>2. SubSeq(h, 1, Len(h)) = h
    BY ONLY <1>1, <1>2, <2>1, PartBehind
  <2>3. Done(kept') /\ kept'[n] = Meant(n) \o h
    BY <1>3, <1>5, <1>7, <2>1, <2>2
  <2>4. \A i \in halved' : i = n \/ i \in halved
    BY <1>1, <1>7 DEF Killed, EndsWithin
  <2>5. n \in halved' => NewlineNext(n)'
    <3> SUFFICES ASSUME n \in halved' PROVE NewlineNext(n)'
      OBVIOUS
    <3>1. Killed /\ status' = "killed"
      BY <1>7, <1>11 DEF Killed
    <3>2. Len(disk') < Len(logged') /\ logged'[Len(disk') + 1] = NL
      BY <1>2, <3>1, KilledAtNewline
    <3> QED BY <2>3, <3>1, <3>2 DEF NewlineNext
  <2> QED BY <1>6, <1>7, <2>3, <2>4, <2>5
<1>8. CASE /\ good /\ Faults < MaxFaults
           /\ \E m \in 0..(Len(Handed) - 1) :
                Keep(m) /\ (UNCHANGED halved \/ EndsWithin(Handed, m))
           /\ good' = FALSE /\ failed' = failed \cup {Len(kept)}
  <2>1. PICK m \in 0..(Len(h) - 1) : Keep(m) /\ (UNCHANGED halved \/ EndsWithin(h, m))
    BY <1>2, <1>8
  <2>2. m \in Nat /\ m <= Len(h)
    BY <2>1, Texts
  <2>3. Done(kept')
    BY <1>3, <1>5, <1>8, <2>1, <2>2
  <2>4. n \in failed' /\ \A i \in failed : i \in failed'
    BY <1>1, <1>8
  <2>5. \A i \in halved' : i = n \/ i \in halved
    BY <1>1, <2>1 DEF EndsWithin
  <2>6. n \in halved' => NewlineNext(n)'
    <3> SUFFICES ASSUME n \in halved' PROVE NewlineNext(n)'
      OBVIOUS
    <3>1. m < Len(h) /\ h[m + 1] = NL
      BY <1>8, <1>11, <2>1 DEF EndsWithin
    <3>2. kept'[n] = Meant(n) \o SubSeq(h, 1, m)
      BY <1>3, <1>5, <1>8, <2>1, <2>2
    <3>3. Len(Meant(n) \o SubSeq(h, 1, m)) = Len(Meant(n)) + m
      <4>1. \A x \in Text : Len(x) \in Nat /\ x \o h \in Text /\ Len(h) \in Nat /\ h \in Text
        BY Texts
      <4>2. SubSeq(h, 1, m) \in Text /\ Len(SubSeq(h, 1, m)) = m
        BY <2>2, <4>1, Texts, PrefixIs DEF Text
      <4> QED BY <1>2, <4>2, PrefixOfConcat
    <3>4. /\ Len(Meant(n)) + m < Len(Meant(n) \o h)
          /\ (Meant(n) \o h)[Len(Meant(n)) + m + 1] = h[m + 1]
      BY ONLY <1>1, <1>2, <2>2, <3>1, ElementBehind
    <3>5. Len(kept'[n]) < Len(Meant(n)') /\ Meant(n)'[Len(kept'[n]) + 1] = NL
      BY <1>2, <3>1, <3>2, <3>3, <3>4
    <3> QED BY <2>4, <3>5 DEF NewlineNext
  <2> QED BY <1>6, <1>8, <2>3, <2>4, <2>5, <2>6
<1>9. CASE ~good /\ UNCHANGED device
  <2>1. kept' = kept /\ good' = good /\ failed' = failed /\ n \in failed /\ halved' = halved
    BY <1>3, <1>9 DEF device
  <2>2. IsPrefix(kept[n], Meant(n))
    BY <1>1, <1>3
  <2>3. kept[n] \in Text
    BY <1>1, <1>4
  <2>4. IsPrefix(kept[n], Meant(n) \o h)
    BY ONLY <1>1, <1>2, <2>2, <2>3, PrefixStays
  <2>5. Done(kept')
    BY <1>1, <2>1, <2>4
  <2>6. n \in halved' => NewlineNext(n)'
    <3> SUFFICES ASSUME n \in halved PROVE NewlineNext(n)'
      BY <2>1
    <3>1. Len(kept[n]) \in Nat /\ Len(kept[n]) < Len(Meant(n)) /\ Meant(n)[Len(kept[n]) + 1] = NL
      BY <1>10, <2>3, Texts
    <3>2. Len(kept[n]) < Len(Meant(n) \o h) /\ (Meant(n) \o h)[Len(kept[n]) + 1] = NL
      BY ONLY <1>1, <1>2, <3>1, ElementStays
    <3> QED BY <1>2, <2>1, <3>2 DEF NewlineNext
  <2> QED BY <1>6, <1>9, <2>1, <2>5, <2>6
<1> QED BY <1>7, <1>8, <1>9 DEF Written

\* The next file begins empty; whether it opens does not matter to the others.
LEMMA OpenedFault ==
  ASSUME IInv, FaultInv, Alive,
         starts' = Append(starts, Len(disk)), disk' = disk, Opened
  PROVE  FaultInv'
<1> PICK n : n = Len(starts)
  OBVIOUS
<1>1. /\ kept \in Seq(Text) /\ Len(kept) = n /\ n \in Nat \ {0} /\ starts \in Seq(Nat)
      /\ disk \in Text /\ Len(disk) \in Nat /\ <<>> \in Text
      /\ \A i \in 1..n : starts[i] \in 0..Len(disk)
  BY Texts DEF FaultInv, Begun, InDisk, IInv, TypeOK
<1>2. /\ Len(starts') = n + 1 /\ starts'[n + 1] = Len(disk)
      /\ \A i \in 1..n : starts'[i] = starts[i]
  BY <1>1, AppendProperties
<1>3. /\ kept' \in Seq(Text) /\ Len(kept') = n + 1 /\ kept'[n + 1] = <<>>
      /\ \A i \in 1..n : kept'[i] = kept[i]
  <2>1. kept' = Append(kept, <<>>)
    BY DEF Opened
  <2> QED BY <1>1, <2>1, AppendProperties
<1>4. \/ good' = TRUE /\ failed' = failed
      \/ good' = FALSE /\ failed' = failed \cup {n + 1}
  BY <1>3 DEF Opened
<1>5. Begun'
  <2>1. \A i \in 1..(n + 1) : starts'[i] \in 0..Len(disk)
    BY <1>1, <1>2
  <2> QED BY <1>1, <1>2, <1>3, <2>1 DEF Begun, InDisk
<1>6. Meant(n + 1)' = <<>>
  <2>1. SubSeq(disk, Len(disk) + 1, Len(disk)) = <<>>
    BY <1>1, SubSeqEmpty DEF Text
  <2>2. ~(n + 1 < n + 1)
    BY <1>1
  <2> QED BY <1>2, <2>1, <2>2 DEF Meant
<1>7. ASSUME NEW i \in 1..n PROVE Meant(i)' = Meant(i)
  <2>1. i < n + 1 /\ (i # n => i < n) /\ (i = n => ~(i < n)) /\ (i # n => i + 1 \in 1..n)
    BY <1>1
  <2>2. Meant(i)' = SubSeq(disk, starts[i] + 1, starts'[i + 1])
    BY <1>2, <2>1 DEF Meant
  <2>3. starts'[i + 1] = IF i < n THEN starts[i + 1] ELSE Len(disk)
    BY <1>2, <2>1
  <2> QED BY <2>2, <2>3 DEF Meant
<1>8. Current'
  BY <1>3, <1>4, <1>6 DEF Current
<1>9. \A i \in 1..n : IsPrefix(kept[i], Meant(i)) /\ (i \notin failed => kept[i] = Meant(i))
  BY <1>1 DEF FaultInv, LossStaysInFile
<1>10. IsPrefix(<<>>, <<>>)
  BY <1>1, Texts, PrefixOfConcat
<1>11. ASSUME NEW i \in 1..(n + 1)
       PROVE  IsPrefix(kept'[i], Meant(i)') /\ (i \notin failed' => kept'[i] = Meant(i)')
  <2>1. CASE i = n + 1
    BY <1>3, <1>6, <1>10, <2>1
  <2>2. CASE i # n + 1
    <3>1. i \in 1..n
      BY <1>1, <2>2
    <3>2. i \notin failed' => i \notin failed
      BY <1>4
    <3> QED BY <1>3, <1>7, <1>9, <3>1, <3>2
  <2> QED BY <2>1, <2>2
<1>13. ASSUME NEW i \in halved' PROVE i \in 1..(n + 1) /\ NewlineNext(i)'
  <2>1. i \in halved /\ status # "killed"
    BY DEF Opened, Alive
  <2>2. i \in 1..n /\ NewlineNext(i)
    BY <1>1, <2>1 DEF FaultInv, LossStaysInFile
  <2>3. i \in failed' /\ kept'[i] = kept[i] /\ Meant(i)' = Meant(i) /\ i \in 1..(n + 1)
    BY <1>1, <1>3, <1>4, <1>7, <2>1, <2>2 DEF NewlineNext
  <2> QED BY <2>1, <2>2, <2>3 DEF NewlineNext
<1>12. LossStaysInFile'
  BY <1>2, <1>3, <1>11, <1>13 DEF LossStaysInFile
<1> QED BY <1>5, <1>8, <1>12 DEF FaultInv

-----------------------------------------------------------------------------
\* A disk that refuses changes nothing in what the Logger does: Logger.cpp asks
\* neither is_open nor good (Logger.cpp:25, 41-42, 66-69), and so every theorem of
\* LogFile holds over such a disk.
THEOREM FaultySpecIsSpec == FaultySpec => Spec
<1>1. FaultyInit => Init
  BY DEF FaultyInit
<1>2. [FaultyNext]_faultVars => [Next]_vars
  BY DEF FaultyNext, faultVars
<1> QED BY <1>1, <1>2, PTL DEF FaultySpec, Spec

\* What the disk refuses costs the end of one file only, for any number of
\* refusals (Logger.cpp:25, 41-42, 66-69).
THEOREM LossStaysInFileCorrect == FaultySpec => []LossStaysInFile
<1>1. FaultyInit => FaultInv
  BY FaultyInitInv
<1>2. IInv /\ SizeInv /\ FaultInv /\ [FaultyNext]_faultVars => FaultInv'
  <2> SUFFICES ASSUME IInv, SizeInv, FaultInv, [FaultyNext]_faultVars PROVE FaultInv'
    OBVIOUS
  <2>1. CASE FaultyNext
    <3>1. [Next]_vars /\ (Written \/ Opened) /\ Alive
      BY <2>1 DEF FaultyNext, Next, Step
    <3>5. status' = "killed" => logged' = logged
      BY <2>1, KillKeepsHistory DEF FaultyNext
    <3>2. Append(starts, Len(disk)) # starts
      <4>1. starts \in Seq(Nat) /\ Len(disk) \in Nat
        BY Texts DEF IInv, TypeOK
      <4>2. Len(Append(starts, Len(disk))) = Len(starts) + 1 /\ Len(starts) \in Nat
        BY <4>1, AppendProperties, LenProperties
      <4>3. Len(starts) + 1 # Len(starts)
        BY <4>2
      <4> QED BY <4>2, <4>3
    <3>3. CASE starts' = starts /\ \E h \in Text : disk' = disk \o h
      BY <3>1, <3>3, <3>5, WrittenFault DEF Opened
    <3>4. CASE starts' = Append(starts, Len(disk)) /\ disk' = disk
      BY <3>1, <3>2, <3>4, OpenedFault DEF Written
    <3> QED BY <3>1, <3>3, <3>4, DiskStep
  <2>2. CASE UNCHANGED faultVars
    BY <2>2 DEF faultVars, device, vars, files, history, FaultInv, Begun, InDisk, Current,
       LossStaysInFile, Meant, NewlineNext
  <2> QED BY <2>1, <2>2
<1>3. FaultInv => LossStaysInFile
  BY DEF FaultInv
<1> QED BY <1>1, <1>2, <1>3, FaultySpecIsSpec, SizeInvariance, PTL DEF FaultySpec
=============================================================================
