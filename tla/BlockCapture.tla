---------------------------- MODULE BlockCapture ----------------------------
(***************************************************************************)
(* Process_Encounter_Trace and its use (replay/REProgramInfo.cpp,          *)
(* replay/Block.cpp): Pin hands the tool each trace it compiles, a         *)
(* sequence of basic blocks; the tool numbers the blocks, writes a row for *)
(* each, and plants a call of Instrument_BBL with the first block's number *)
(* before that block.  Threads that run the compiled code come through the *)
(* call and may write a frame that names the block.                        *)
(*                                                                         *)
(* Pin calls instrumentation routines one at a time, under its client      *)
(* lock; calls planted in the code run in any thread at any time.          *)
(***************************************************************************)
EXTENDS Naturals, Sequences

CONSTANTS
  Threads, Nobody,
  Main, Elsewhere,   \* addresses inside and outside of the main module
  Traces,            \* what Pin may compile: sequences of block addresses
  MaxBlocks,         \* bound: no trace begins when so many blocks exist
  MaxFrames          \* bound: the frames written

ASSUME BlockCaptureAssumption ==
  /\ Nobody \notin Threads /\ Main \cap Elsewhere = {}
  /\ Traces \subseteq Seq(Main \cup Elsewhere) /\ <<>> \notin Traces
  /\ MaxBlocks \in Nat /\ MaxFrames \in Nat

VARIABLES
  s_main_module, \* are s_main_module_start and _size known?
  client_lock,   \* the thread in an instrumentation routine, or Nobody
  todo, tid,     \* that routine's locals: blocks still to come, and the tid
  block,         \* its current Block, as a set of at most one row
  planted,       \* its calls of Instrument_BBL, as [eip, bid]
  s_last_id,     \* Block::s_last_id
  blocks,        \* the rows of blocks.csv: [id, tid, eip]
  cache,         \* the planted calls that threads can reach
  at,            \* per thread: the planted call it is in, a set of at most one
  frames,        \* the rows of frames.csv: [bid, eip]
  early          \* history: the blocks numbered before the main image came

routine == <<client_lock, todo, tid, block, planted>>
vars    == <<s_main_module, routine, s_last_id, blocks, cache, at, frames, early>>

IsAddrWithinMainModule(addr) == ~s_main_module \/ addr \in Main

Init ==
  /\ s_main_module = FALSE
  /\ client_lock = Nobody /\ todo = <<>> /\ tid = 0
  /\ block = {} /\ planted = {}
  /\ s_last_id = 0 /\ blocks = <<>> /\ cache = {}
  /\ at = [t \in Threads |-> {}] /\ frames = <<>> /\ early = 0

\* Encounter_Img for the main executable.  Other images change nothing here.
LoadMainImage ==
  /\ client_lock = Nobody /\ ~s_main_module
  /\ s_main_module' = TRUE
  /\ early' = s_last_id
  /\ UNCHANGED <<routine, s_last_id, blocks, cache, at, frames>>

\* Mutant: the module test is dropped.
BeginAnyTrace(t) ==
  /\ client_lock = Nobody /\ at[t] = {} /\ s_last_id < MaxBlocks
  /\ \E trace \in Traces : todo' = trace
  /\ client_lock' = t /\ tid' = 0 /\ block' = {} /\ planted' = {}
  /\ UNCHANGED <<s_main_module, s_last_id, blocks, cache, at, frames, early>>

\* A thread needs code that is not compiled yet.
BeginTrace(t) ==
  /\ client_lock = Nobody /\ at[t] = {} /\ s_last_id < MaxBlocks
  /\ \E trace \in Traces :
       IsAddrWithinMainModule(trace[1]) /\ todo' = trace
  /\ client_lock' = t /\ tid' = 0 /\ block' = {} /\ planted' = {}
  /\ UNCHANGED <<s_main_module, s_last_id, blocks, cache, at, frames, early>>

\* Mutants: only first blocks get an id of their own; the tid
\* comes a block late; the call can be reached at once.
ConstructSharedId(t) ==
  /\ client_lock = t /\ todo # <<>> /\ block = {}
  /\ s_last_id' = IF tid = 0 THEN s_last_id + 1 ELSE s_last_id
  /\ planted' = IF tid = 0 THEN {[eip |-> todo[1], bid |-> s_last_id']} ELSE planted
  /\ tid' = IF tid = 0 THEN s_last_id' ELSE tid
  /\ block' = {[id |-> s_last_id', tid |-> tid', eip |-> todo[1]]}
  /\ UNCHANGED <<s_main_module, client_lock, todo, blocks, cache, at, frames, early>>

ConstructLateTid(t) ==
  /\ client_lock = t /\ todo # <<>> /\ block = {}
  /\ s_last_id' = s_last_id + 1
  /\ planted' = IF tid = 0 THEN {[eip |-> todo[1], bid |-> s_last_id']} ELSE planted
  /\ tid' = IF tid = 0 THEN s_last_id' ELSE tid
  /\ block' = {[id |-> s_last_id', tid |-> tid, eip |-> todo[1]]}
  /\ UNCHANGED <<s_main_module, client_lock, todo, blocks, cache, at, frames, early>>

ConstructAndPlant(t) ==
  /\ client_lock = t /\ todo # <<>> /\ block = {}
  /\ s_last_id' = s_last_id + 1
  /\ planted' = IF tid = 0 THEN {[eip |-> todo[1], bid |-> s_last_id']} ELSE planted
  /\ cache' = cache \cup planted'
  /\ tid' = IF tid = 0 THEN s_last_id' ELSE tid
  /\ block' = {[id |-> s_last_id', tid |-> tid', eip |-> todo[1]]}
  /\ UNCHANGED <<s_main_module, client_lock, todo, blocks, at, frames, early>>

\* Block's constructor, the call before the first block, SetTid.
Construct(t) ==
  /\ client_lock = t /\ todo # <<>> /\ block = {}
  /\ s_last_id' = s_last_id + 1
  /\ planted' = IF tid = 0 THEN {[eip |-> todo[1], bid |-> s_last_id']} ELSE planted
  /\ tid' = IF tid = 0 THEN s_last_id' ELSE tid
  /\ block' = {[id |-> s_last_id', tid |-> tid', eip |-> todo[1]]}
  /\ UNCHANGED <<s_main_module, client_lock, todo, blocks, cache, at, frames, early>>

\* Block::Serialize, and BBL_Next.
Serialize(t) ==
  /\ client_lock = t
  /\ \E row \in block : blocks' = Append(blocks, row)
  /\ block' = {} /\ todo' = Tail(todo)
  /\ UNCHANGED <<s_main_module, client_lock, tid, planted, s_last_id, cache, at,
                 frames, early>>

\* The routine returns and Pin compiles the trace, in place of an older one.
EndTrace(t) ==
  /\ client_lock = t /\ todo = <<>>
  /\ cache' = {c \in cache : \A p \in planted : c.eip # p.eip} \cup planted
  /\ client_lock' = Nobody /\ tid' = 0 /\ planted' = {}
  /\ UNCHANGED <<s_main_module, todo, block, s_last_id, blocks, at, frames, early>>

\* Pin throws compiled code away: the program changed it, or the cache is full.
Evict ==
  /\ \E c \in cache : cache' = cache \ {c}
  /\ UNCHANGED <<s_main_module, routine, s_last_id, blocks, at, frames, early>>

\* A thread reaches a planted call.
Reach(t) ==
  /\ at[t] = {} /\ client_lock # t
  /\ \E c \in cache : at' = [at EXCEPT ![t] = {c}]
  /\ UNCHANGED <<s_main_module, routine, s_last_id, blocks, cache, frames, early>>

\* Process_Instrument_BBL: the visit gets a frame, or is skipped.
Capture(t) ==
  /\ \E c \in at[t] :
       \/ /\ Len(frames) < MaxFrames
          /\ frames' = Append(frames, [bid |-> c.bid, eip |-> c.eip])
       \/ frames' = frames
  /\ at' = [at EXCEPT ![t] = {}]
  /\ UNCHANGED <<s_main_module, routine, s_last_id, blocks, cache, early>>

Process_Encounter_Trace(t) ==
  BeginTrace(t) \/ Construct(t) \/ Serialize(t) \/ EndTrace(t)

Next ==
  \/ LoadMainImage \/ Evict
  \/ \E t \in Threads : Process_Encounter_Trace(t) \/ Reach(t) \/ Capture(t)

Spec == Init /\ [][Next]_vars
-----------------------------------------------------------------------------
Addresses == Main \cup Elsewhere
Calls     == [eip : Addresses, bid : Nat]
Rows      == [id : Nat, tid : Nat, eip : Addresses]

\* The types of the variables (Block.h:47-53).
TypeOK ==
  /\ s_main_module \in BOOLEAN
  /\ client_lock \in Threads \cup {Nobody}
  /\ todo \in Seq(Addresses) /\ tid \in Nat
  /\ block \subseteq Rows /\ planted \subseteq Calls
  /\ s_last_id \in Nat /\ blocks \in Seq(Rows)
  /\ cache \subseteq Calls /\ at \in [Threads -> SUBSET Calls]
  /\ frames \in Seq(Calls) /\ early \in Nat

\* Row number k of blocks.csv is the block with id k: no id is missing, used
\* twice or out of order, however traces and frames interleave (Block.cpp:8).
BlockIdsDense ==
  /\ \A k \in 1..Len(blocks) : blocks[k].id = k
  /\ \A row \in block : row.id = Len(blocks) + 1

\* The rows of one trace stand together, and their tid is the id of the first,
\* which has its own id for a tid (REProgramInfo.cpp:526-571).
TraceGroups ==
  \A k \in 1..Len(blocks) :
    /\ blocks[k].tid \in 1..k
    /\ \A j \in blocks[k].tid..k : blocks[j].tid = blocks[k].tid

\* The row of a trace's first block is in the log before any frame names it,
\* and is the row of the frame's own address (REProgramInfo.cpp:539-548, 571).
BlockBeforeFrame ==
  \A k \in 1..Len(frames) :
    /\ frames[k].bid \in 1..Len(blocks)
    /\ LET row == blocks[frames[k].bid]
       IN row.tid = row.id /\ row.eip = frames[k].eip

\* Once the main image is known only its traces are recorded, and a trace
\* begun earlier is not finished later (REProgramInfo.cpp:523-524).
OnlyMainModule ==
  \A k \in 1..Len(blocks) : k > early /\ s_main_module => blocks[blocks[k].tid].eip \in Main
=============================================================================
