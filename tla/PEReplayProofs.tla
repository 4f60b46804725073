--------------------------- MODULE PEReplayProofs ---------------------------
(***************************************************************************)
(* Theorems about BlockCapture and, on top of them, about the join of      *)
(* frames with blocks at the end of the process, for any threads, traces   *)
(* and bounds.  Of BlockCapture: the types, the dense ids, the groups of a *)
(* trace, the block before its frames, and the gate of the main module.    *)
(* Every step of the process is a step of BlockCapture or leaves its state *)
(* alone, so that its invariant holds there too; what is added is that a   *)
(* file of one Logger holds a beginning of its rows (FilesBegin), and all  *)
(* of them when the Logger is deleted or was left locked                   *)
(* (FinalizedComplete, StuckComplete).  blocks.csv has one Logger;         *)
(* frames.csv may get several, and then holds some of its rows.            *)
(***************************************************************************)
EXTENDS PEReplay, TLAPS, SequenceTheorems

-----------------------------------------------------------------------------
(***************************************************************************)
(* The inductive invariant.                                                *)
(***************************************************************************)

\* A planted call names the row of the block before which it stands.
Joined(c) == /\ c.bid \in 1..Len(blocks)
             /\ blocks[c.bid].tid = c.bid
             /\ blocks[c.bid].eip = c.eip

\* The counter is the number of rows, but for the block under construction.
Counted == s_last_id = IF block = {} THEN Len(blocks) ELSE Len(blocks) + 1

\* Between two traces the routine's locals are empty.
Idle == client_lock = Nobody => block = {} /\ tid = 0 /\ planted = {}

\* The block under construction is the next row.
Current == block # {} =>
  /\ todo # <<>> /\ tid # 0
  /\ block = {[id |-> s_last_id, tid |-> tid, eip |-> todo[1]]}

\* The rows from the tid on are those of the trace under way.
Group ==
  /\ tid = 0 => planted = {}
  /\ tid # 0 => /\ tid \in 1..s_last_id
                /\ \A j \in tid..Len(blocks) : blocks[j].tid = tid

\* The call that is planted for it names its first block, written or not.
Planted == \A p \in planted :
  /\ p.bid = tid
  /\ tid \in 1..Len(blocks) => blocks[tid].eip = p.eip
  /\ tid = Len(blocks) + 1 => todo[1] = p.eip

\* Compiled and entered calls, and frames, name rows that are written.
AllJoined ==
  /\ \A c \in cache : Joined(c)
  /\ \A t \in Threads : \A c \in at[t] : Joined(c)
  /\ \A k \in 1..Len(frames) : Joined(frames[k])

\* A trace that began under the gate begins in the main module.
Gated == s_main_module /\ client_lock # Nobody =>
  /\ tid = 0 /\ todo # <<>> => todo[1] \in Main
  /\ tid # 0 => \E p \in planted : p.eip \in Main

IInv == /\ TypeOK /\ Counted /\ Idle /\ Current /\ Group /\ Planted
        /\ BlockIdsDense /\ TraceGroups /\ AllJoined /\ Gated /\ OnlyMainModule

-----------------------------------------------------------------------------
(***************************************************************************)
(* The initial state and the actions.                                      *)
(***************************************************************************)

\* The initial state is in the invariant.
LEMMA InitIInv == Init => IInv
  <1> SUFFICES ASSUME Init PROVE IInv
    OBVIOUS
  <1> USE DEF Init
  <1>1. TypeOK
    <2>1. todo \in Seq(Addresses) /\ blocks \in Seq(Rows) /\ frames \in Seq(Calls)
      OBVIOUS
    <2>2. block \subseteq Rows /\ planted \subseteq Calls /\ cache \subseteq Calls
      OBVIOUS
    <2>3. at \in [Threads -> SUBSET Calls]
      OBVIOUS
    <2>4. s_main_module \in BOOLEAN /\ client_lock \in Threads \cup {Nobody}
      OBVIOUS
    <2>5. tid \in Nat /\ s_last_id \in Nat /\ early \in Nat
      OBVIOUS
    <2> QED
      BY <2>1, <2>2, <2>3, <2>4, <2>5, Zenon DEF TypeOK
  <1>2. Counted /\ Idle /\ Current /\ Group /\ Planted
    BY DEF Counted, Idle, Current, Group, Planted
  <1>3. BlockIdsDense /\ TraceGroups /\ AllJoined
    BY DEF BlockIdsDense, TraceGroups, AllJoined
  <1>4. Gated /\ OnlyMainModule
    BY DEF Gated, OnlyMainModule
  <1> QED
    BY <1>1, <1>2, <1>3, <1>4 DEF IInv

\* Loading the main image closes the gate behind the rows there are.
LEMMA LoadMainImageStep == IInv /\ LoadMainImage => IInv'
  <1> SUFFICES ASSUME IInv, LoadMainImage PROVE IInv'
    OBVIOUS
  <1> USE DEF LoadMainImage, routine
  <1>1. TypeOK'
    BY DEF IInv, TypeOK
  <1>2. Counted' /\ Idle' /\ Current' /\ Group' /\ Planted'
    BY DEF IInv, Counted, Idle, Current, Group, Planted
  <1>3. BlockIdsDense' /\ TraceGroups'
    BY DEF IInv, BlockIdsDense, TraceGroups
  <1>4. AllJoined'
    BY DEF IInv, AllJoined, Joined
  <1>5. Gated'
    BY DEF Gated
  <1>6. OnlyMainModule'
    BY DEF IInv, Counted, Idle, TypeOK, OnlyMainModule
  <1> QED
    BY <1>1, <1>2, <1>3, <1>4, <1>5, <1>6 DEF IInv

\* A trace begins in the main module, when that is known.
LEMMA BeginTraceStep ==
  ASSUME IInv, NEW t \in Threads, BeginTrace(t)
  PROVE  IInv'
  <1> USE DEF BeginTrace
  <1>0. PICK trace \in Traces : IsAddrWithinMainModule(trace[1]) /\ todo' = trace
    OBVIOUS
  <1>1. todo' \in Seq(Addresses) /\ block = {} /\ tid = 0
    BY <1>0, BlockCaptureAssumption DEF Addresses, IInv, Idle
  <1>2. TypeOK'
    BY <1>1 DEF IInv, TypeOK
  <1>3. Counted' /\ Idle' /\ Current' /\ Group' /\ Planted'
    BY <1>1, BlockCaptureAssumption DEF IInv, Counted, Idle, Current, Group, Planted
  <1>4. BlockIdsDense' /\ TraceGroups'
    BY <1>1 DEF IInv, BlockIdsDense, TraceGroups
  <1>5. AllJoined'
    BY DEF IInv, AllJoined, Joined
  <1>6. Gated'
    BY <1>0 DEF Gated, IsAddrWithinMainModule
  <1>7. OnlyMainModule'
    BY DEF IInv, OnlyMainModule
  <1> QED
    BY <1>2, <1>3, <1>4, <1>5, <1>6, <1>7 DEF IInv

\* A Block takes the next id; the first one gives the tid and the call.
LEMMA ConstructStep ==
  ASSUME IInv, NEW t \in Threads, Construct(t)
  PROVE  IInv'
  <1> DEFINE row == [id |-> s_last_id', tid |-> tid', eip |-> todo[1]]
  <1>1. /\ s_last_id \in Nat /\ tid \in Nat /\ Len(blocks) \in Nat
        /\ todo \in Seq(Addresses) /\ todo # <<>> /\ todo[1] \in Addresses
        /\ s_last_id = Len(blocks) /\ s_last_id' = Len(blocks) + 1
        /\ client_lock = t /\ t # Nobody
    BY BlockCaptureAssumption DEF IInv, TypeOK, Counted, Construct
  <1>2. /\ block' = {row} /\ row \in Rows
        /\ blocks' = blocks /\ todo' = todo /\ client_lock' = client_lock
        /\ tid' \in Nat /\ tid' # 0
    BY <1>1 DEF Construct, Rows
  <1>3. TypeOK'
    <2>1. planted' \subseteq Calls
      BY <1>1 DEF Construct, IInv, TypeOK, Calls
    <2> QED
      BY <1>1, <1>2, <2>1 DEF Construct, IInv, TypeOK
  <1>4. Counted' /\ Idle' /\ Current'
    BY <1>1, <1>2 DEF Counted, Idle, Current
  <1>5. Group'
    <2>1. CASE tid = 0
      BY <1>1, <1>2, <2>1 DEF Construct, Group
    <2>2. CASE tid # 0
      BY <1>1, <1>2, <2>2 DEF Construct, Group, IInv
    <2> QED
      BY <2>1, <2>2
  <1>6. Planted'
    <2>1. CASE tid = 0
      BY <1>1, <1>2, <2>1 DEF Construct, Planted
    <2>2. CASE tid # 0
      BY <1>1, <1>2, <2>2 DEF Construct, Planted, Group, IInv
    <2> QED
      BY <2>1, <2>2
  <1>7. BlockIdsDense' /\ TraceGroups'
    BY <1>1, <1>2 DEF IInv, BlockIdsDense, TraceGroups
  <1>8. AllJoined'
    BY <1>2 DEF Construct, IInv, AllJoined, Joined
  <1>9. Gated'
    BY <1>1, <1>2 DEF Construct, IInv, Gated
  <1>10. OnlyMainModule'
    BY <1>2 DEF Construct, IInv, OnlyMainModule
  <1> QED
    BY <1>3, <1>4, <1>5, <1>6, <1>7, <1>8, <1>9, <1>10 DEF IInv

\* The row is written where its id says.
LEMMA SerializeStep ==
  ASSUME IInv, NEW t \in Threads, Serialize(t)
  PROVE  IInv'
  <1> DEFINE n == Len(blocks)
             row == [id |-> s_last_id, tid |-> tid, eip |-> todo[1]]
  <1>1. /\ block = {row} /\ blocks' = Append(blocks, row)
        /\ todo # <<>> /\ tid # 0
    BY DEF IInv, Current, Serialize
  <1>2. /\ n \in Nat /\ s_last_id = n + 1 /\ tid \in 1..(n + 1)
        /\ row \in Rows /\ blocks \in Seq(Rows) /\ todo \in Seq(Addresses)
        /\ todo[1] \in Addresses /\ Tail(todo) \in Seq(Addresses)
        /\ client_lock = t /\ t # Nobody
    <2>1. n \in Nat /\ blocks \in Seq(Rows) /\ todo \in Seq(Addresses) /\ tid \in Nat
      BY DEF IInv, TypeOK
    <2>2. s_last_id = n + 1
      BY <1>1 DEF IInv, Counted
    <2>3. tid \in 1..(n + 1)
      BY <1>1, <2>2 DEF IInv, Group
    <2>4. todo[1] \in Addresses /\ Tail(todo) \in Seq(Addresses)
      BY <1>1, <2>1
    <2>5. row \in Rows
      BY <2>1, <2>2, <2>4 DEF Rows
    <2>6. client_lock = t /\ t # Nobody
      BY BlockCaptureAssumption DEF Serialize
    <2> QED
      BY <2>1, <2>2, <2>3, <2>4, <2>5, <2>6
  <1>3. /\ Len(blocks') = n + 1
        /\ blocks' \in Seq(Rows)
        /\ blocks'[n + 1] = row
        /\ \A k \in 1..n : blocks'[k] = blocks[k]
    BY <1>1, <1>2
  <1>4. UNCHANGED <<s_main_module, client_lock, tid, planted, s_last_id, cache, at,
                    frames, early>> /\ block' = {} /\ todo' = Tail(todo)
    BY DEF Serialize
  <1>5. TypeOK'
    BY <1>2, <1>3, <1>4 DEF IInv, TypeOK
  <1>6. Counted' /\ Idle' /\ Current'
    BY <1>2, <1>3, <1>4 DEF Counted, Idle, Current
  <1>7. Group'
    BY <1>1, <1>2, <1>3, <1>4 DEF IInv, Group
  <1>8. Planted'
    BY <1>1, <1>2, <1>3, <1>4 DEF IInv, Planted
  <1>9. BlockIdsDense'
    <2>1. \A k \in 1..n : blocks'[k].id = k
      BY <1>3 DEF IInv, BlockIdsDense
    <2>2. blocks'[n + 1].id = n + 1
      BY <1>2, <1>3
    <2>3. \A k \in 1..Len(blocks') : k \in 1..n \/ k = n + 1
      BY <1>2, <1>3
    <2> QED
      BY <1>4, <2>1, <2>2, <2>3 DEF BlockIdsDense
  <1>10. TraceGroups'
    <2> SUFFICES ASSUME NEW k \in 1..(n + 1)
                 PROVE  /\ blocks'[k].tid \in 1..k
                        /\ \A j \in blocks'[k].tid..k : blocks'[j].tid = blocks'[k].tid
      BY <1>3 DEF TraceGroups
    <2>1. CASE k = n + 1
      BY <1>1, <1>2, <1>3, <2>1 DEF IInv, Group
    <2>2. CASE k \in 1..n
      <3>1. /\ blocks[k].tid \in 1..k
            /\ \A j \in blocks[k].tid..k : blocks[j].tid = blocks[k].tid
        BY <2>2 DEF IInv, TraceGroups
      <3>2. blocks'[k] = blocks[k]
        BY <1>3, <2>2
      <3>3. \A j \in blocks[k].tid..k : j \in 1..n
        BY ONLY <1>2, <2>2, <3>1
      <3> QED
        BY ONLY <1>3, <3>1, <3>2, <3>3
    <2> QED
      BY <1>2, <2>1, <2>2
  <1>11. AllJoined'
    <2>1. ASSUME NEW c, Joined(c) PROVE Joined(c)'
      BY <1>2, <1>3, <2>1 DEF Joined
    <2> QED
      BY <1>4, <2>1 DEF IInv, AllJoined, Joined
  <1>12. Gated'
    BY <1>1, <1>4 DEF IInv, Gated
  <1>13. OnlyMainModule'
    <2> SUFFICES ASSUME NEW k \in 1..(n + 1), k > early, s_main_module
                 PROVE  blocks'[blocks'[k].tid].eip \in Main
      BY <1>3, <1>4 DEF OnlyMainModule
    <2>1. CASE k = n + 1
      <3>1. PICK p \in planted : p.eip \in Main
        BY <1>1, <1>2 DEF IInv, Gated
      <3>2. blocks'[tid].eip = p.eip
        BY <1>1, <1>2, <1>3 DEF IInv, Planted
      <3>3. blocks'[k].tid = tid
        BY <1>3, <2>1
      <3> QED
        BY <3>1, <3>2, <3>3
    <2>2. CASE k \in 1..n
      <3>1. blocks[k].tid \in 1..n
        BY <2>2, <1>2 DEF IInv, TraceGroups
      <3> QED
        BY <1>3, <2>2, <3>1 DEF IInv, OnlyMainModule
    <2> QED
      BY <1>2, <2>1, <2>2
  <1> QED
    BY <1>5, <1>6, <1>7, <1>8, <1>9, <1>10, <1>11, <1>12, <1>13 DEF IInv

\* The call can be reached now that the trace's rows are written.
LEMMA EndTraceStep ==
  ASSUME IInv, NEW t \in Threads, EndTrace(t)
  PROVE  IInv'
  <1> USE DEF EndTrace
  <1>1. block = {} /\ s_last_id = Len(blocks)
    BY DEF IInv, Current, Counted
  <1>2. \A p \in planted : Joined(p)
    <2> SUFFICES ASSUME NEW p \in planted PROVE Joined(p)
      OBVIOUS
    <2>1. tid # 0 /\ tid \in 1..Len(blocks) /\ p.bid = tid
      BY <1>1 DEF IInv, Group, Planted
    <2>2. tid \in tid..Len(blocks)
      BY <2>1 DEF IInv, TypeOK
    <2> QED
      BY <2>1, <2>2 DEF IInv, Group, Planted, Joined
  <1>3. TypeOK'
    BY DEF IInv, TypeOK
  <1>4. Counted' /\ Idle' /\ Current' /\ Group' /\ Planted'
    BY <1>1 DEF Counted, Idle, Current, Group, Planted
  <1>5. BlockIdsDense' /\ TraceGroups'
    BY DEF IInv, BlockIdsDense, TraceGroups
  <1>6. AllJoined'
    BY <1>2 DEF IInv, AllJoined, Joined
  <1>7. Gated'
    BY DEF Gated
  <1>8. OnlyMainModule'
    BY DEF IInv, OnlyMainModule
  <1> QED
    BY <1>3, <1>4, <1>5, <1>6, <1>7, <1>8 DEF IInv

\* Pin's code cache, and threads in planted calls, only pass on what is joined.
LEMMA RunStep ==
  ASSUME IInv, Evict \/ \E t \in Threads : Reach(t) \/ Capture(t)
  PROVE  IInv'
  <1>1. /\ UNCHANGED <<s_main_module, routine, s_last_id, blocks, early>>
        /\ cache' \subseteq cache
    BY DEF Evict, Reach, Capture
  <1>2. TypeOK'
    <2>1. CASE Evict
      BY <2>1 DEF Evict, routine, IInv, TypeOK
    <2>2. ASSUME NEW t \in Threads, Reach(t) PROVE TypeOK'
      BY <2>2 DEF Reach, routine, IInv, TypeOK
    <2>3. ASSUME NEW t \in Threads, Capture(t) PROVE TypeOK'
      <3>1. PICK c \in at[t] : \/ frames' = Append(frames, [bid |-> c.bid, eip |-> c.eip])
                               \/ frames' = frames
        BY <2>3 DEF Capture
      <3>2. [bid |-> c.bid, eip |-> c.eip] \in Calls
        BY DEF IInv, TypeOK, Calls
      <3>5. frames \in Seq(Calls)
        BY DEF IInv, TypeOK
      <3>3. frames' \in Seq(Calls)
        <4> DEFINE frame == [bid |-> c.bid, eip |-> c.eip]
        <4> HIDE DEF frame
        <4>1. frame \in Calls
          BY <3>2 DEF frame
        <4>2. frames' = Append(frames, frame) \/ frames' = frames
          BY <3>1 DEF frame
        <4> QED
          BY <3>5, <4>1, <4>2
      <3>4. at' \in [Threads -> SUBSET Calls]
        BY <2>3 DEF Capture, IInv, TypeOK
      <3> QED
        BY <2>3, <3>3, <3>4 DEF Capture, routine, IInv, TypeOK
    <2> QED
      BY <2>1, <2>2, <2>3
  <1>3. Counted' /\ Idle' /\ Current' /\ Group' /\ Planted'
    BY <1>1 DEF routine, IInv, Counted, Idle, Current, Group, Planted
  <1>4. BlockIdsDense' /\ TraceGroups' /\ OnlyMainModule'
    BY <1>1 DEF routine, IInv, BlockIdsDense, TraceGroups, OnlyMainModule
  <1>5. AllJoined'
    <2>1. CASE Evict
      BY <2>1 DEF Evict, IInv, AllJoined, Joined
    <2>2. ASSUME NEW t \in Threads, Reach(t) PROVE AllJoined'
      BY <2>2 DEF Reach, IInv, AllJoined, Joined, TypeOK
    <2>3. ASSUME NEW t \in Threads, Capture(t) PROVE AllJoined'
      <3>1. PICK c \in at[t] : \/ frames' = Append(frames, [bid |-> c.bid, eip |-> c.eip])
                               \/ frames' = frames
        BY <2>3 DEF Capture
      <3>2. Joined(c) /\ Joined([bid |-> c.bid, eip |-> c.eip])
        BY DEF IInv, AllJoined, Joined
      <3>3. \A k \in 1..Len(frames') : Joined(frames'[k])
        <4> DEFINE frame == [bid |-> c.bid, eip |-> c.eip]
        <4> HIDE DEF frame
        <4>1. Joined(frame)
          BY <3>2 DEF frame
        <4>2. frames' = Append(frames, frame) \/ frames' = frames
          BY <3>1 DEF frame
        <4>3. frames \in Seq(Calls)
          BY DEF IInv, TypeOK
        <4>4. \A k \in 1..Len(frames') :
                \/ k \in 1..Len(frames) /\ frames'[k] = frames[k]
                \/ frames'[k] = frame
          BY <4>2, <4>3
        <4> QED
          BY <4>1, <4>4 DEF IInv, AllJoined
      <3>4. \A u \in Threads : at'[u] \subseteq at[u]
        BY <2>3 DEF Capture, IInv, TypeOK
      <3>5. blocks' = blocks /\ cache' = cache
        BY <2>3 DEF Capture
      <3> QED
        BY <3>3, <3>4, <3>5 DEF IInv, AllJoined, Joined
    <2> QED
      BY <2>1, <2>2, <2>3
  <1>6. Gated'
    BY <1>1 DEF routine, IInv, Gated
  <1> QED
    BY <1>2, <1>3, <1>4, <1>5, <1>6 DEF IInv

\* Every step keeps the invariant.
LEMMA NextIInv == IInv /\ [Next]_vars => IInv'
  <1> SUFFICES ASSUME IInv, [Next]_vars PROVE IInv'
    OBVIOUS
  <1>1. CASE LoadMainImage
    BY <1>1, LoadMainImageStep
  <1>2. ASSUME NEW t \in Threads, Process_Encounter_Trace(t) PROVE IInv'
    BY <1>2, BeginTraceStep, ConstructStep, SerializeStep, EndTraceStep
    DEF Process_Encounter_Trace
  <1>3. CASE Evict \/ \E t \in Threads : Reach(t) \/ Capture(t)
    BY <1>3, RunStep
  <1>4. CASE UNCHANGED vars
    BY <1>4 DEF vars, routine, IInv, TypeOK, Counted, Idle, Current, Group, Planted,
       BlockIdsDense, TraceGroups, AllJoined, Joined, Gated, OnlyMainModule
  <1> QED
    BY <1>1, <1>2, <1>3, <1>4 DEF Next

-----------------------------------------------------------------------------
\* The inductive invariant holds in every reachable state.
THEOREM Invariance == Spec => []IInv
  BY InitIInv, NextIInv, PTL DEF Spec

\* The variables keep their types (Block.h:47-53).
THEOREM TypeCorrect == Spec => []TypeOK
  BY Invariance, PTL DEF IInv

\* Ids are dense and in order, for every interleaving (Block.cpp:8).
THEOREM BlockIdsCorrect == Spec => []BlockIdsDense
  BY Invariance, PTL DEF IInv

\* The rows of a trace stand together (REProgramInfo.cpp:526-571).
THEOREM TraceGroupsCorrect == Spec => []TraceGroups
  BY Invariance, PTL DEF IInv

\* A frame's block has its row (REProgramInfo.cpp:539-548, 571).
THEOREM BlockBeforeFrameCorrect == Spec => []BlockBeforeFrame
  <1>1. IInv => BlockBeforeFrame
    <2> SUFFICES ASSUME IInv, NEW k \in 1..Len(frames)
                 PROVE  /\ frames[k].bid \in 1..Len(blocks)
                        /\ blocks[frames[k].bid].tid = blocks[frames[k].bid].id
                        /\ blocks[frames[k].bid].eip = frames[k].eip
      BY DEF BlockBeforeFrame
    <2>1. Joined(frames[k])
      BY DEF IInv, AllJoined
    <2> QED
      BY <2>1 DEF IInv, BlockIdsDense, Joined
  <1> QED
    BY <1>1, Invariance, PTL

\* Only traces of the main module are recorded (REProgramInfo.cpp:523-524).
THEOREM MainModuleCorrect == Spec => []OnlyMainModule
  BY Invariance, PTL DEF IInv

-----------------------------------------------------------------------------
(***************************************************************************)
(* The process.                                                            *)
(***************************************************************************)

\* What a file holds is a beginning of what was logged.
Begins(file, rows) ==
  /\ Len(file) <= Len(rows)
  /\ \A k \in 1..Len(file) : file[k] = rows[k]

PETypes ==
  /\ blocks_file \in Seq(Rows) /\ frames_file \in Seq(Calls)
  /\ finalized \in 0..2 /\ frames_loggers \in Nat
  /\ status \in {"running", "exiting", "exited", "killed"}

\* The rows of a file are rows that were logged.
Drawn(file, rows) ==
  \A k \in 1..Len(file) : \E j \in 1..Len(rows) : file[k] = rows[j]

\* blocks.csv holds a beginning of its rows, and so does frames.csv while one
\* Logger is made for it; with more it holds rows of its own none the less.
FilesBegin == /\ Begins(blocks_file, blocks)
              /\ Sole => Begins(frames_file, frames)
              /\ Drawn(frames_file, frames)

\* The first row of frames.csv comes after its first Logger.
FirstRow == frames_loggers = 0 => frames = <<>>

\* Where a Logger was left locked its file holds what it had taken.
StuckComplete ==
  /\ "blocks" \in stuck => blocks_file = blocks
  /\ "frames" \in stuck /\ Sole => frames_file = frames

\* What is deleted is complete, and nothing is deleted while threads run.
FinalizedComplete ==
  /\ finalized > 0 => status # "running" /\ blocks_file = blocks
  /\ finalized > 1 /\ Sole => frames_file = frames
  /\ status = "exited" <=> finalized = 2

PEIInv == /\ IInv /\ PETypes /\ FilesBegin /\ FirstRow
          /\ StuckComplete /\ FinalizedComplete

\* The process begins with empty files.
LEMMA PEInitInvariant == PEInit => PEIInv
<1> SUFFICES ASSUME PEInit PROVE PEIInv
  OBVIOUS
<1>1. IInv
  BY InitIInv DEF PEInit
<1>2. PETypes /\ FirstRow /\ StuckComplete /\ FinalizedComplete
  BY DEF PEInit, Init, PETypes, FirstRow, StuckComplete, FinalizedComplete
<1>3. FilesBegin
  BY DEF PEInit, Init, FilesBegin, Begins, Drawn
<1> QED BY <1>1, <1>2, <1>3 DEF PEIInv

\* Every step of the process is one of BlockCapture, or none.
LEMMA PEStepIsStep == [PENext]_pe_vars => [Next]_vars
<1> SUFFICES ASSUME [PENext]_pe_vars PROVE [Next]_vars
  OBVIOUS
<1>1. CASE Run
  BY <1>1 DEF Run, CaptureAndLog, Next
<1>2. ASSUME NEW t \in Threads, FaultInImage(t) PROVE [Next]_vars
  BY <1>2 DEF FaultInImage, Next
<1>3. ASSUME NEW t \in Threads,
             \/ LookUpFrames(t) \/ MakeFramesLogger(t)
             \/ Fault(t) \/ TooManyBlocks(t) \/ TooManyFrames(t)
      PROVE  UNCHANGED vars
  BY <1>3 DEF LookUpFrames, MakeFramesLogger, Fault, TooManyBlocks, TooManyFrames
<1>4. CASE FlushBlocks \/ FlushFrames \/ Exit \/ Finalize \/ FinalizeThrows \/ Kill
  BY <1>4 DEF FlushBlocks, FlushFrames, Exit, Finalize, FinalizeThrows, Kill
<1>5. CASE UNCHANGED pe_vars
  BY <1>5 DEF pe_vars
<1> QED BY <1>1, <1>2, <1>3, <1>4, <1>5 DEF PENext

\* A step of BlockCapture changes the rows by adding to them.
LEMMA RowsGrow ==
  ASSUME IInv, [Next]_vars
  PROVE  /\ Len(blocks) <= Len(blocks') /\ \A k \in 1..Len(blocks) : blocks'[k] = blocks[k]
         /\ Len(frames) <= Len(frames') /\ \A k \in 1..Len(frames) : frames'[k] = frames[k]
<1>1. blocks \in Seq(Rows) /\ frames \in Seq(Calls)
  BY DEF IInv, TypeOK
<1>2. \/ blocks' = blocks
      \/ \E row \in Rows : blocks' = Append(blocks, row)
  <2>1. ASSUME NEW t \in Threads, Serialize(t)
        PROVE  \E row \in Rows : blocks' = Append(blocks, row)
    BY <2>1 DEF Serialize, IInv, TypeOK
  <2> QED
    BY <2>1 DEF Next, vars, LoadMainImage, Evict, Process_Encounter_Trace, BeginTrace,
       Construct, EndTrace, Reach, Capture
<1>3. \/ frames' = frames
      \/ \E c \in Calls : frames' = Append(frames, c)
  <2>1. ASSUME NEW t \in Threads, Capture(t)
        PROVE  frames' = frames \/ \E c \in Calls : frames' = Append(frames, c)
    <3>1. PICK c \in at[t] : \/ frames' = Append(frames, [bid |-> c.bid, eip |-> c.eip])
                             \/ frames' = frames
      BY <2>1 DEF Capture
    <3>2. [bid |-> c.bid, eip |-> c.eip] \in Calls
      BY DEF IInv, TypeOK, Calls
    <3> QED BY <3>1, <3>2
  <2> QED
    BY <2>1 DEF Next, vars, LoadMainImage, Evict, Process_Encounter_Trace, BeginTrace,
       Construct, Serialize, EndTrace, Reach
<1>4. Len(blocks) <= Len(blocks') /\ \A k \in 1..Len(blocks) : blocks'[k] = blocks[k]
  BY ONLY <1>1, <1>2
<1>5. Len(frames) <= Len(frames') /\ \A k \in 1..Len(frames) : frames'[k] = frames[k]
  BY ONLY <1>1, <1>3
<1> QED BY <1>4, <1>5

\* What a text begins with, a longer text begins with.
LEMMA BeginsLonger ==
  ASSUME NEW S, NEW f \in Seq(S), NEW r \in Seq(S), NEW q \in Seq(S),
         Begins(f, r), Begins(r, q)
  PROVE  Begins(f, q)
<1>1. Len(f) \in Nat /\ Len(r) \in Nat /\ Len(q) \in Nat
  OBVIOUS
<1> QED BY <1>1 DEF Begins

\* What Loggers of frames.csv write are rows of its own, and all of them if there
\* is one Logger.
LEMMA WrittenDrawn ==
  ASSUME frames \in Seq(Calls), FramesWritten
  PROVE  /\ frames_file' \in Seq(Calls) /\ Drawn(frames_file', frames)
         /\ Sole => frames_file' = frames
<1>1. CASE frames_file' = frames
  BY <1>1 DEF Drawn
<1>2. CASE frames_file' \in Overlaid
  <2>1. PICK n \in 0..Len(frames) : frames_file' \in [1..n -> Range(frames)]
    BY <1>2 DEF Overlaid
  <2>2. Range(frames) = {frames[j] : j \in 1..Len(frames)}
    BY DEF Range
  <2>3. n \in Nat /\ Len(frames) \in Nat /\ \A j \in 1..Len(frames) : frames[j] \in Calls
    OBVIOUS
  <2>4. \A k \in 1..n : \E j \in 1..Len(frames) : frames_file'[k] = frames[j]
    BY <2>1, <2>2
  <2>5. Range(frames) \subseteq Calls
    BY <2>2, <2>3
  <2>6. frames_file' \in [1..n -> Calls]
    BY <2>1, <2>5
  <2>7. frames_file' \in Seq(Calls) /\ Len(frames_file') = n
    BY <2>3, <2>6
  <2>8. Drawn(frames_file', frames)
    BY <2>4, <2>7 DEF Drawn
  <2> QED BY <1>2, <2>7, <2>8, FramesWritten DEF FramesWritten
<1> QED BY <1>1, <1>2, FramesWritten DEF FramesWritten

\* Every step of the process keeps the invariant.
LEMMA PEStepInvariant == PEIInv /\ [PENext]_pe_vars => PEIInv'
<1> SUFFICES ASSUME PEIInv, [PENext]_pe_vars PROVE PEIInv'
  OBVIOUS
<1> USE DEF PEIInv
<1>1. [Next]_vars /\ IInv'
  BY PEStepIsStep, NextIInv
<1>2. /\ blocks \in Seq(Rows) /\ frames \in Seq(Calls)
      /\ blocks' \in Seq(Rows) /\ frames' \in Seq(Calls)
  BY <1>1 DEF IInv, TypeOK
<1>3. Begins(blocks, blocks') /\ Begins(frames, frames')
  BY <1>1, RowsGrow DEF Begins
<1>4. ASSUME UNCHANGED <<files, frames_loggers, finalized, stuck, status>>,
             status # "running" => UNCHANGED <<blocks, frames>>,
             "blocks" \in stuck => blocks' = blocks,
             "frames" \in stuck /\ Sole => frames' = frames,
             frames_loggers = 0 => frames' = frames
      PROVE  PEIInv'
  <2>1. FilesBegin'
    <3>1. /\ Begins(blocks_file, blocks) /\ Drawn(frames_file, frames)
          /\ Sole => Begins(frames_file, frames)
      BY DEF FilesBegin
    <3>2. blocks_file \in Seq(Rows) /\ frames_file \in Seq(Calls)
      BY DEF PETypes
    <3>3. /\ Begins(blocks_file, blocks')
          /\ Sole => Begins(frames_file, frames')
      BY <1>2, <1>3, <3>1, <3>2, BeginsLonger
    <3>4. Drawn(frames_file, frames')
      <4>1. \A j \in 1..Len(frames) : j \in 1..Len(frames') /\ frames'[j] = frames[j]
        BY <1>2, <1>3 DEF Begins
      <4> QED BY <3>1, <4>1 DEF Drawn
    <3> QED BY <1>4, <3>3, <3>4 DEF FilesBegin, files, Sole
  <2>2. FirstRow'
    BY <1>4 DEF FirstRow
  <2> QED
    BY <1>1, <1>4, <2>1, <2>2 DEF PETypes, StuckComplete, FinalizedComplete, files, Sole
<1>5. CASE Run
  <2>1. /\ UNCHANGED <<files, frames_loggers, finalized, stuck, status>>
        /\ status = "running"
        /\ "blocks" \in stuck => blocks' = blocks
        /\ "frames" \in stuck /\ Sole => frames' = frames
    BY <1>5 DEF Run, process
  <2>2. frames_loggers = 0 => frames' = frames
    <3>1. ASSUME NEW t \in Threads, CaptureAndLog(t), frames_loggers = 0
          PROVE  frames' = frames
      BY <3>1 DEF CaptureAndLog
    <3> QED
      BY <1>5, <3>1 DEF Run, LoadMainImage, Evict, Process_Encounter_Trace, BeginTrace,
         Construct, Serialize, EndTrace, Reach
  <2> QED BY <1>4, <2>1, <2>2
<1>6. ASSUME NEW t \in Threads, LookUpFrames(t) \/ Fault(t) \/ FaultInImage(t)
      PROVE  PEIInv'
  <2>1. /\ UNCHANGED <<files, frames_loggers, finalized, stuck, status>>
        /\ UNCHANGED <<blocks, frames>>
    BY <1>6 DEF LookUpFrames, Fault, FaultInImage, registry, process, vars, LoadMainImage
  <2> QED BY <1>4, <2>1
<1>7. CASE UNCHANGED pe_vars
  BY <1>4, <1>7 DEF pe_vars, files, registry, process, vars
<1>8. ASSUME NEW t \in Threads, MakeFramesLogger(t) PROVE PEIInv'
  <2>1. /\ UNCHANGED <<blocks, frames, blocks_file, finalized, stuck, status>>
        /\ frames_file' = <<>> /\ frames_loggers' = frames_loggers + 1
        /\ status = "running" /\ frames_loggers \in Nat
    BY <1>8 DEF MakeFramesLogger, vars, process, PETypes
  <2>2. FilesBegin'
    BY <1>2, <2>1 DEF FilesBegin, Begins, Drawn
  <2>3. "frames" \in stuck /\ Sole' => frames_file' = frames'
    BY <2>1 DEF Sole, FirstRow
  <2>4. finalized = 0
    BY <2>1 DEF PETypes, FinalizedComplete
  <2> QED
    BY <1>1, <2>1, <2>2, <2>3, <2>4 DEF PETypes, FirstRow, StuckComplete, FinalizedComplete
<1>9. ASSUME UNCHANGED <<blocks, frames, frames_loggers>>,
             blocks_file' \in {blocks_file, blocks}, FramesWritten \/ UNCHANGED frames_file
      PROVE  /\ blocks_file' \in Seq(Rows) /\ frames_file' \in Seq(Calls)
             /\ FilesBegin' /\ FirstRow'
             /\ blocks_file = blocks => blocks_file' = blocks'
             /\ Sole /\ frames_file = frames => frames_file' = frames'
             /\ Sole /\ FramesWritten => frames_file' = frames
             /\ Sole' = Sole
  <2>1. /\ frames_file' \in Seq(Calls) /\ Drawn(frames_file', frames)
        /\ frames_file' = frames_file \/ (Sole => frames_file' = frames)
        /\ Sole /\ FramesWritten => frames_file' = frames
    BY <1>2, <1>9, WrittenDrawn DEF PETypes, FilesBegin
  <2>2. Sole' = Sole
    BY <1>9 DEF Sole
  <2>3. Begins(frames, frames) /\ Begins(blocks, blocks)
    BY <1>2 DEF Begins
  <2> QED BY <1>2, <1>9, <2>1, <2>2, <2>3 DEF FilesBegin, FirstRow, PETypes, Drawn
<1>10. CASE FlushBlocks \/ FlushFrames
  <2>1. UNCHANGED <<blocks, frames, frames_loggers, process>>
    BY <1>10 DEF FlushBlocks, FlushFrames, vars, registry
  <2>2. blocks_file' \in {blocks_file, blocks} /\ (FramesWritten \/ UNCHANGED frames_file)
    BY <1>10 DEF FlushBlocks, FlushFrames
  <2> QED BY <1>1, <1>9, <2>1, <2>2 DEF process, PETypes, StuckComplete, FinalizedComplete
<1>11. ASSUME NEW t \in Threads, TooManyBlocks(t) \/ TooManyFrames(t) PROVE PEIInv'
  <2>1. /\ UNCHANGED <<blocks, frames, frames_loggers, finalized, status>>
        /\ status = "running"
    BY <1>11 DEF TooManyBlocks, TooManyFrames, vars, registry
  <2>2. /\ blocks_file' \in {blocks_file, blocks} /\ (FramesWritten \/ UNCHANGED frames_file)
        /\ "blocks" \in stuck' => "blocks" \in stuck \/ blocks_file' = blocks
        /\ "frames" \in stuck' => "frames" \in stuck \/ FramesWritten
    BY <1>11 DEF TooManyBlocks, TooManyFrames
  <2> QED BY <1>1, <1>9, <2>1, <2>2 DEF PETypes, StuckComplete, FinalizedComplete
<1>12. CASE Exit \/ Kill
  <2>1. UNCHANGED <<blocks, frames, files, frames_loggers, finalized, stuck>>
    BY <1>12 DEF Exit, Kill, vars, registry
  <2>2. /\ status \in {"running", "exiting"} /\ status' \in {"exiting", "killed"}
    BY <1>12 DEF Exit, Kill
  <2> QED
    BY <1>1, <1>9, <2>1, <2>2 DEF PETypes, StuckComplete, FinalizedComplete, files
<1>13. CASE Finalize \/ FinalizeThrows
  <2>1. /\ UNCHANGED <<blocks, frames, frames_loggers, stuck>>
        /\ status = "exiting" /\ finalized \in {0, 1}
        /\ Flushed(Order[finalized + 1])
    BY <1>13 DEF Finalize, FinalizeThrows, vars, registry, PETypes
  <2>2. /\ blocks_file' \in {blocks_file, blocks} /\ (FramesWritten \/ UNCHANGED frames_file)
        /\ finalized = 0 => blocks_file' = blocks
        /\ finalized = 1 => FramesWritten
    BY <2>1 DEF Flushed, Order
  <2>3. \/ /\ finalized' = finalized + 1
           /\ status' = IF finalized' = 2 THEN "exited" ELSE "exiting"
        \/ finalized' = finalized /\ status' = "killed"
    BY <1>13 DEF Finalize, FinalizeThrows
  <2> QED BY <1>1, <1>9, <2>1, <2>2, <2>3 DEF PETypes, StuckComplete, FinalizedComplete
<1> QED
  BY <1>5, <1>6, <1>7, <1>8, <1>10, <1>11, <1>12, <1>13 DEF PENext

\* The invariant holds whatever way the process ends.
THEOREM PEInvariance == PESpec => []PEIInv
BY PEInitInvariant, PEStepInvariant, PTL DEF PESpec

\* A frame in the file has its block in the file, if all blocks are there.
LEMMA NoDangling ==
  ASSUME PEIInv, blocks_file = blocks
  PROVE  ~Dangling
<1> SUFFICES ASSUME NEW k \in 1..Len(frames_file)
             PROVE  ~(frames_file[k].bid > Len(blocks_file))
  BY DEF Dangling
<1>1. PICK j \in 1..Len(frames) : frames_file[k] = frames[j]
  BY DEF PEIInv, FilesBegin, Drawn
<1>2. Joined(frames[j])
  BY <1>1 DEF PEIInv, IInv, AllJoined
<1>3. frames[j].bid \in 1..Len(blocks) /\ Len(blocks) \in Nat
  BY <1>2 DEF Joined, PEIInv, IInv, TypeOK
<1> QED BY <1>1, <1>3

\* blocks.csv holds a beginning of the rows logged for it, whatever way the
\* process ends, and frames.csv does while it has one Logger; with several it
\* holds whole rows that were logged for it, and no others (Logger.cpp:39-51, 92-95).
THEOREM FilesBeginCorrect == PESpec => []FilesBegin
BY PEInvariance, PTL DEF PEIInv

\* After a clean exit the files join, and hold all rows but where two Loggers
\* were made for frames.csv (Logger.cpp:92-95, 140-150).
THEOREM JoinCorrect == PESpec => []JoinComplete
<1>1. PEIInv => JoinComplete
  BY NoDangling DEF PEIInv, FinalizedComplete, JoinComplete
<1> QED BY <1>1, PEInvariance, PTL

\* From the first deletion on, and where an exit hangs, no frame dangles
\* (Logger.cpp:53-59, 142-147).
THEOREM NoDanglingCorrect == PESpec => []NoDanglingOnceFinalizing
<1>1. ASSUME PEIInv PROVE NoDanglingOnceFinalizing
  <2>1. CASE finalized > 0
    BY <1>1, <2>1, NoDangling DEF PEIInv, FinalizedComplete, NoDanglingOnceFinalizing
  <2>2. CASE Hung /\ ~(finalized > 0)
    <3>1. finalized = 0
      BY <1>1, <2>2 DEF PEIInv, PETypes
    <3>2. "blocks" \in stuck
      BY <2>2, <3>1 DEF Hung, Order
    <3> QED BY <1>1, <3>2, NoDangling DEF PEIInv, StuckComplete, NoDanglingOnceFinalizing
  <2> QED BY <2>1, <2>2 DEF NoDanglingOnceFinalizing
<1>2. PEIInv => NoDanglingOnceFinalizing
  BY <1>1
<1> QED BY <1>2, PEInvariance, PTL

\* What BlockCapture promises of ids, groups, frames and the main module holds
\* in the whole process, its failures included (REProgramInfo.cpp:523-571).
THEOREM CaptureCorrect ==
  PESpec => [](BlockIdsDense /\ TraceGroups /\ OnlyMainModule)
<1>1. PEIInv => BlockIdsDense /\ TraceGroups /\ OnlyMainModule
  BY DEF PEIInv, IInv
<1> QED BY <1>1, PEInvariance, PTL

\* The process implements BlockCapture: each of its steps is one of its steps,
\* or none.
THEOREM ImplementsCapture == PESpec => Spec
BY PEStepIsStep, PTL DEF PESpec, PEInit, Spec

-----------------------------------------------------------------------------
(***************************************************************************)
(* The two outputs as streams.                                             *)
(***************************************************************************)

\* No trace begins with MaxBlocks blocks numbered, and none has more than MaxTrace.
Bounded ==
  s_last_id + Len(todo) <= MaxBlocks + MaxTrace + (IF block = {} THEN 0 ELSE 1)

\* Each block that is numbered is one that the trace had still to come.
LEMMA NextBounded ==
  ASSUME IInv, Bounded, [Next]_vars
  PROVE  Bounded'
<1> USE BlockCaptureAssumption, LongestTraceAssumption
<1>1. /\ s_last_id \in Nat /\ Len(todo) \in Nat /\ todo \in Seq(Addresses)
      /\ MaxBlocks \in Nat /\ MaxTrace \in Nat
  BY DEF IInv, TypeOK
<1>2. ASSUME NEW t \in Threads, BeginTrace(t) PROVE Bounded'
  <2>1. PICK trace \in Traces : todo' = trace
    BY <1>2 DEF BeginTrace
  <2>2. Len(trace) \in Nat /\ Len(trace) <= MaxTrace
    BY LenProperties
  <2>3. s_last_id < MaxBlocks /\ s_last_id' = s_last_id /\ block' = {}
    BY <1>2 DEF BeginTrace
  <2> QED BY ONLY <1>1, <2>1, <2>2, <2>3 DEF Bounded
<1>3. ASSUME NEW t \in Threads, Construct(t) PROVE Bounded'
  <2>1. block = {} /\ block' # {} /\ s_last_id' = s_last_id + 1 /\ todo' = todo
    BY <1>3 DEF Construct
  <2> QED BY ONLY <1>1, <2>1, Bounded DEF Bounded
<1>4. ASSUME NEW t \in Threads, Serialize(t) PROVE Bounded'
  <2>1. block # {} /\ block' = {} /\ s_last_id' = s_last_id /\ todo' = Tail(todo)
    BY <1>4 DEF Serialize
  <2>2. todo # <<>>
    BY <2>1 DEF IInv, Current
  <2>3. Len(todo') = Len(todo) - 1
    BY <1>1, <2>1, <2>2, HeadTailProperties
  <2> QED BY ONLY <1>1, <2>1, <2>3, Bounded DEF Bounded
<1>5. ASSUME UNCHANGED <<s_last_id, todo, block>> PROVE Bounded'
  BY <1>5 DEF Bounded
<1> QED
  BY <1>2, <1>3, <1>4, <1>5 DEF Next, vars, routine, LoadMainImage, Evict,
     Process_Encounter_Trace, EndTrace, Reach, Capture

\* What a step of BlockCapture logs is a row of the streams.
BlockRows == [id : Ids, tid : Ids, eip : Addresses]
FrameRows == [eip : Addresses, bid : Ids]

LEMMA RowsStreamed ==
  ASSUME IInv, IInv', Bounded, [Next]_vars
  PROVE  /\ blocks' = blocks \/ \E r \in BlockRows : blocks' = blocks \o <<r>>
         /\ frames' = frames \/ \E r \in FrameRows : frames' = frames \o <<r>>
<1> USE BlockCaptureAssumption, LongestTraceAssumption
<1>1. /\ blocks \in Seq(Rows) /\ frames \in Seq(Calls) /\ Len(blocks) \in Nat
      /\ s_last_id \in Nat /\ Len(todo) \in Nat /\ MaxBlocks \in Nat /\ MaxTrace \in Nat
  BY DEF IInv, TypeOK
<1>2. /\ \A r : blocks \o <<r>> = Append(blocks, r)
      /\ \A r : frames \o <<r>> = Append(frames, r)
  BY <1>1, AppendProperties
<1>3. Len(blocks) \in Ids
  BY ONLY <1>1, Counted, Bounded, IInv DEF IInv, Counted, Bounded, Ids
<1>4. ASSUME NEW t \in Threads, Serialize(t)
      PROVE  \E r \in BlockRows : blocks' = Append(blocks, r)
  <2>1. PICK r \in block : blocks' = Append(blocks, r)
    BY <1>4 DEF Serialize
  <2>2. Len(todo) > 0
    BY <2>1, <1>1 DEF IInv, Current, TypeOK
  <2>3. s_last_id \in Ids
    BY ONLY <1>1, <2>1, <2>2, Bounded DEF Bounded, Ids
  <2>4. /\ r = [id |-> s_last_id, tid |-> tid, eip |-> todo[1]] /\ r \in Rows
        /\ tid \in 1..s_last_id
    BY <2>1 DEF IInv, Current, Group, TypeOK
  <2>5. r.eip \in Addresses
    BY <2>4 DEF Rows
  <2>6. tid \in Ids
    BY ONLY <2>3, <2>4, <1>1 DEF Ids
  <2> QED BY <2>1, <2>3, <2>4, <2>5, <2>6 DEF BlockRows
<1>5. ASSUME NEW t \in Threads, Capture(t)
      PROVE  frames' = frames \/ \E r \in FrameRows : frames' = Append(frames, r)
  <2>1. PICK c \in at[t] : \/ frames' = Append(frames, [bid |-> c.bid, eip |-> c.eip])
                           \/ frames' = frames
    BY <1>5 DEF Capture
  <2>2. c \in Calls /\ Joined(c)
    BY DEF IInv, TypeOK, AllJoined
  <2>3. c.bid \in Ids
    BY ONLY <1>1, <1>3, <2>2 DEF Joined, Ids
  <2>4. [bid |-> c.bid, eip |-> c.eip] \in FrameRows
    BY <2>2, <2>3 DEF FrameRows, Calls
  <2> QED BY <2>1, <2>4
<1>6. blocks' = blocks \/ \E t \in Threads : Serialize(t)
  BY DEF Next, vars, LoadMainImage, Evict, Process_Encounter_Trace, BeginTrace, Construct,
     EndTrace, Reach, Capture
<1>7. frames' = frames \/ \E t \in Threads : Capture(t)
  BY DEF Next, vars, LoadMainImage, Evict, Process_Encounter_Trace, BeginTrace, Construct,
     Serialize, EndTrace, Reach
<1> QED BY <1>2, <1>4, <1>5, <1>6, <1>7

\* A sequence begins with what another begins with, as LogStream says it.
LEMMA BeginsPrefix ==
  ASSUME NEW S, NEW f \in Seq(S), NEW r \in Seq(S), Begins(f, r)
  PROVE  IsPrefix(f, r)
<1>1. Len(f) \in Nat /\ Len(r) \in Nat /\ Len(f) <= Len(r)
  BY LenProperties DEF Begins
<1>2. /\ \A k \in 1..Len(f) : f[k] \in S /\ r[k] \in S /\ f[k] = r[k]
      /\ 1 \in Int /\ Len(f) \in Int
  BY <1>1, ElementOfSeq DEF Begins
<1> DEFINE u == SubSeq(f, 1, Len(f))
           w == SubSeq(r, 1, Len(f))
<1>3. /\ u \in Seq(S) /\ Len(u) = (IF 1 <= Len(f) THEN Len(f) - 1 + 1 ELSE 0)
      /\ \A k \in 1..(Len(f) - 1 + 1) : u[k] = f[1 + k - 1]
  BY <1>2, SubSeqProperties
<1>4. /\ w \in Seq(S) /\ Len(w) = (IF 1 <= Len(f) THEN Len(f) - 1 + 1 ELSE 0)
      /\ \A k \in 1..(Len(f) - 1 + 1) : w[k] = r[1 + k - 1]
  BY <1>2, SubSeqProperties
<1> HIDE DEF u, w
<1>5. Len(u) = Len(f) /\ Len(w) = Len(f)
  BY ONLY <1>1, <1>3, <1>4
<1>6. \A k \in 1..Len(u) : u[k] = w[k]
  <2> SUFFICES ASSUME NEW k \in 1..Len(u) PROVE u[k] = w[k]
    OBVIOUS
  <2>1. k \in 1..Len(f) /\ k \in 1..(Len(f) - 1 + 1) /\ 1 + k - 1 = k
    BY ONLY <1>1, <1>5, k \in 1..Len(u)
  <2> QED BY ONLY <1>2, <1>3, <1>4, <2>1
<1>7. u = w
  BY <1>3, <1>4, <1>5, <1>6, SeqEqual
<1> QED BY <1>1, <1>7 DEF IsPrefix, u, w

\* A step that logs at most a row, and flushes, closes or kills as the phase says,
\* is a step of the stream, if it leaves frames.csv with one Logger.
LEMMA PEStepStreamed ==
  ASSUME PEIInv, PEIInv', Bounded, [PENext]_pe_vars
  PROVE  /\ [BlocksStream!Next]_(BlocksStream!vars)
         /\ Sole' => [FramesStream!Next]_(FramesStream!vars)
<1>1. [Next]_vars /\ IInv /\ IInv'
  BY PEStepIsStep DEF PEIInv
<1>2. /\ blocks \in Seq(Rows) /\ blocks_file \in Seq(Rows) /\ blocks_file' \in Seq(Rows)
      /\ frames \in Seq(Calls) /\ frames_file \in Seq(Calls) /\ frames_file' \in Seq(Calls)
      /\ finalized \in 0..2 /\ frames_loggers \in Nat
  BY DEF PEIInv, IInv, TypeOK, PETypes
<1>s. Sole' => Sole
  <2>1. frames_loggers' = frames_loggers \/ frames_loggers' = frames_loggers + 1
    BY DEF PENext, Run, FlushBlocks, FlushFrames, LookUpFrames, MakeFramesLogger, Fault,
       FaultInImage, TooManyBlocks, TooManyFrames, Exit, Finalize, FinalizeThrows, Kill,
       registry, pe_vars
  <2> QED BY <1>2, <2>1 DEF Sole
<1>3. /\ Begins(blocks_file, blocks)
      /\ Sole => Begins(frames_file, frames)
  BY DEF PEIInv, FilesBegin, Begins
<1>4. /\ BlocksStream!IsPrefix(blocks_file, blocks) /\ BlocksStream!IsPrefix(blocks, blocks)
      /\ BlocksStream!IsPrefix(blocks_file, blocks_file)
      /\ Sole => FramesStream!IsPrefix(frames_file, frames)
      /\ FramesStream!IsPrefix(frames, frames)
      /\ FramesStream!IsPrefix(frames_file, frames_file)
  <2>1. Len(blocks) \in Nat /\ Len(blocks_file) \in Nat /\ Len(frames) \in Nat
        /\ Len(frames_file) \in Nat
    BY <1>2
  <2>2. /\ Begins(blocks, blocks) /\ Begins(blocks_file, blocks_file)
        /\ Begins(frames, frames) /\ Begins(frames_file, frames_file)
    BY <2>1 DEF Begins
  <2>3. /\ IsPrefix(blocks_file, blocks) /\ IsPrefix(blocks, blocks)
        /\ IsPrefix(blocks_file, blocks_file)
        /\ Sole => IsPrefix(frames_file, frames)
        /\ IsPrefix(frames, frames) /\ IsPrefix(frames_file, frames_file)
    BY <1>2, <1>3, <2>2, BeginsPrefix
  <2> QED
    BY <2>3 DEF IsPrefix, BlocksStream!IsPrefix, FramesStream!IsPrefix
<1> DEFINE Took == /\ blocks' = blocks \/ \E r \in BlockRows : blocks' = blocks \o <<r>>
                   /\ frames' = frames \/ \E r \in FrameRows : frames' = frames \o <<r>>
<1>5. Took
  BY <1>1, RowsStreamed
<1>6. CASE \/ Run
           \/ \E t \in Threads : LookUpFrames(t) \/ Fault(t) \/ FaultInImage(t)
           \/ UNCHANGED pe_vars
  <2>1. /\ UNCHANGED <<blocks_file, frames_file, finalized, status>>
        /\ status = "running" \/ UNCHANGED <<blocks, frames>>
    BY <1>6 DEF Run, LookUpFrames, Fault, FaultInImage, pe_vars, process, files, vars,
       LoadMainImage
  <2>2. status = "running" => finalized = 0
    BY <1>2 DEF PEIInv, FinalizedComplete
  <2>3. PhaseOf(1)' = PhaseOf(1) /\ PhaseOf(2)' = PhaseOf(2)
    BY <2>1 DEF PhaseOf
  <2>4. CASE UNCHANGED <<blocks, frames>>
    BY <2>1, <2>3, <2>4 DEF BlocksStream!vars, FramesStream!vars
  <2>5. CASE status = "running"
    <3>1. PhaseOf(1) = "open" /\ PhaseOf(2) = "open"
      BY <2>2, <2>5 DEF PhaseOf
    <3>2. blocks' = blocks \/ BlocksStream!Accept
      BY <1>5, <2>1, <2>3, <3>1 DEF BlocksStream!Accept, BlockRows
    <3>3. frames' = frames \/ FramesStream!Accept
      BY <1>5, <2>1, <2>3, <3>1 DEF FramesStream!Accept, FrameRows
    <3> QED
      BY <2>1, <2>3, <3>2, <3>3 DEF BlocksStream!Next, BlocksStream!vars,
         FramesStream!Next, FramesStream!vars
  <2> QED BY <2>1, <2>4, <2>5
<1>7. CASE \/ FlushBlocks \/ FlushFrames
           \/ \E t \in Threads :
                MakeFramesLogger(t) \/ TooManyBlocks(t) \/ TooManyFrames(t)
  <2>1. /\ UNCHANGED <<blocks, frames, finalized, status>> /\ status = "running"
        /\ blocks_file' \in {blocks_file, blocks}
    BY <1>7 DEF FlushBlocks, FlushFrames, MakeFramesLogger, TooManyBlocks, TooManyFrames,
       vars, process
  <2>2. finalized = 0
    BY <1>2, <2>1 DEF PEIInv, FinalizedComplete
  <2>3. /\ PhaseOf(1) = "open" /\ PhaseOf(2) = "open"
        /\ PhaseOf(1)' = PhaseOf(1) /\ PhaseOf(2)' = PhaseOf(2)
    BY <2>1, <2>2 DEF PhaseOf
  <2>4. BlocksStream!Persist
    BY <1>4, <2>1, <2>3 DEF BlocksStream!Persist
  <2>5. Sole' => frames_file' \in {frames_file, frames}
    <3>1. ASSUME FramesWritten PROVE Sole => frames_file' = frames
      BY <1>2, <3>1, WrittenDrawn
    <3>2. ASSUME NEW t \in Threads, MakeFramesLogger(t), Sole'
          PROVE  frames_file' = frames
      <4>1. frames_file' = <<>> /\ frames_loggers' = frames_loggers + 1
        BY <3>2 DEF MakeFramesLogger
      <4>2. frames_loggers = 0
        BY <1>2, <3>2, <4>1 DEF Sole
      <4> QED BY <4>1, <4>2 DEF PEIInv, FirstRow
    <3>3. \/ FramesWritten \/ frames_file' = frames_file
          \/ \E t \in Threads : MakeFramesLogger(t)
      BY <1>7 DEF FlushBlocks, FlushFrames, TooManyBlocks, TooManyFrames
    <3> QED BY <1>s, <3>1, <3>2, <3>3
  <2>6. Sole' => FramesStream!Persist
    BY <1>4, <1>s, <2>1, <2>3, <2>5 DEF FramesStream!Persist
  <2> QED BY <2>4, <2>6 DEF BlocksStream!Next, FramesStream!Next
<1>8. CASE Exit
  <2>1. UNCHANGED <<blocks, frames, blocks_file, frames_file, finalized>>
    BY <1>8 DEF Exit, vars, files
  <2>2. status # "killed" /\ status' # "killed"
    BY <1>8 DEF Exit
  <2> QED
    BY <2>1, <2>2 DEF BlocksStream!vars, FramesStream!vars, PhaseOf
<1>9. CASE Kill \/ FinalizeThrows
  <2>1. /\ UNCHANGED <<blocks, frames, finalized>>
        /\ status # "killed" /\ status' = "killed"
    BY <1>9 DEF Kill, FinalizeThrows, vars
  <2>2. /\ blocks_file' \in {blocks_file, blocks} /\ (FramesWritten \/ frames_file' = frames_file)
        /\ finalized > 0 => blocks_file' = blocks_file
        /\ finalized > 1 => frames_file' = frames_file
    BY <1>2, <1>9 DEF Kill, FinalizeThrows, Flushed, Order, files
  <2>3. Sole => frames_file' \in {frames_file, frames}
    BY <1>2, <2>2, WrittenDrawn
  <2>4. /\ PhaseOf(1) = (IF finalized > 0 THEN "closed" ELSE "open")
        /\ PhaseOf(2) = (IF finalized > 1 THEN "closed" ELSE "open")
        /\ PhaseOf(1)' = (IF finalized > 0 THEN "closed" ELSE "dead")
        /\ PhaseOf(2)' = (IF finalized > 1 THEN "closed" ELSE "dead")
    BY <1>2, <2>1 DEF PhaseOf
  <2>5. [BlocksStream!Next]_(BlocksStream!vars)
    BY <1>4, <2>1, <2>2, <2>4 DEF BlocksStream!Next, BlocksStream!vars, BlocksStream!Die
  <2>6. Sole => [FramesStream!Next]_(FramesStream!vars)
    BY <1>4, <2>1, <2>2, <2>3, <2>4 DEF FramesStream!Next, FramesStream!vars,
       FramesStream!Die
  <2> QED BY <1>s, <2>5, <2>6
<1>10. CASE Finalize
  <2>1. /\ UNCHANGED <<blocks, frames>> /\ status = "exiting" /\ finalized \in {0, 1}
        /\ finalized' = finalized + 1 /\ status' \in {"exited", "exiting"}
    BY <1>2, <1>10 DEF Finalize, vars
  <2>2. /\ finalized = 0 => blocks_file' = blocks /\ frames_file' = frames_file
        /\ finalized = 1 => FramesWritten /\ blocks_file' = blocks_file
    BY <1>10 DEF Finalize, Flushed, Order
  <2>3. finalized = 1 /\ Sole => frames_file' = frames
    BY <1>2, <2>2, WrittenDrawn
  <2>4. [BlocksStream!Next]_(BlocksStream!vars)
    BY <2>1, <2>2 DEF BlocksStream!Next, BlocksStream!vars, BlocksStream!Close, PhaseOf
  <2>5. Sole => [FramesStream!Next]_(FramesStream!vars)
    BY <2>1, <2>2, <2>3 DEF FramesStream!Next, FramesStream!vars, FramesStream!Close,
       PhaseOf
  <2> QED BY <1>s, <2>4, <2>5
<1> QED BY <1>6, <1>7, <1>8, <1>9, <1>10 DEF PENext

\* blocks.csv is a stream as LogStream promises it, in every way the process ends,
\* and frames.csv is one for as long as one Logger is made for it
\* (Logger.cpp:39-51, 92-95, 140-150).
THEOREM OutputsStreamedCorrect == PESpec => OutputsStreamed
<1>1. PEInit => Bounded /\ BlocksStream!Init /\ FramesStream!Init
  <2> SUFFICES ASSUME PEInit PROVE Bounded /\ BlocksStream!Init /\ FramesStream!Init
    OBVIOUS
  <2>1. Len(todo) = 0 /\ s_last_id = 0 /\ block = {}
    BY DEF PEInit, Init
  <2>2. Bounded
    BY <2>1, BlockCaptureAssumption, LongestTraceAssumption DEF Bounded
  <2> QED BY <2>2 DEF PEInit, Init, BlocksStream!Init, FramesStream!Init, PhaseOf
<1>2. PEIInv /\ Bounded /\ [PENext]_pe_vars => Bounded'
  BY PEStepIsStep, NextBounded DEF PEIInv
<1>3. PEIInv /\ PEIInv' /\ Bounded /\ [PENext]_pe_vars
        => /\ [BlocksStream!Next]_(BlocksStream!vars)
           /\ [frames_loggers' <= 1 =>
                 [FramesStream!Next]_(FramesStream!vars)]_pe_vars
  BY PEStepStreamed DEF Sole
<1> QED
  BY <1>1, <1>2, <1>3, PEInvariance, PTL
  DEF PESpec, OutputsStreamed, BlocksStream!Spec
=============================================================================
