---------------------------- MODULE FrameCapture ----------------------------
(***************************************************************************)
(* Process_Instrument_BBL (replay/REProgramInfo.cpp): what a thread of the *)
(* traced program runs before each head block.  It numbers the visit,      *)
(* decides from two windows of recent addresses and from the frame pointer *)
(* whether the visit is worth a frame, and writes the frame.               *)
(*                                                                         *)
(* The counters, the windows and last_ebp are plain variables shared by    *)
(* all threads without a lock, so every load and every store of them is a  *)
(* step of its own.  With one thread the steps are one visit; with two     *)
(* they interleave.                                                        *)
(***************************************************************************)
EXTENDS Naturals, Sequences, FiniteSets

CONSTANTS
  Threads,
  Eips, Ebps,        \* instruction addresses and frame pointers of visits
  CIRCULAR_LENGTH,
  MaxVisits          \* bound: the visits all threads make together

ASSUME FrameCaptureAssumption ==
  /\ Eips \subseteq Nat \ {0} /\ Ebps \subseteq Nat
  /\ CIRCULAR_LENGTH \in Nat /\ CIRCULAR_LENGTH >= 2
  /\ MaxVisits \in Nat

N      == CIRCULAR_LENGTH
SQUARE == CIRCULAR_LENGTH \div 2

VARIABLES
  circuluar, square_circular, last_ebp,    \* the globals of REProgramInfo.cpp
  s_last_id, s_last_serialized_id,         \* the statics of Frame
  pc, i, reg,       \* per thread: next statement, loop index, loaded value
  eip, ebp, bSkip,  \* per thread: the locals of the call
  m_id, sid,        \* per thread: the ids the frame got
  log,              \* the lines of frames.csv, as [sid, id, eip]
  begun, entered,   \* history: visits begun, all together and per address
  visits, settled   \* history: addresses of finished visits, last one's ebp

globals == <<circuluar, square_circular, last_ebp>>
ids     == <<s_last_id, s_last_serialized_id>>
locals  == <<eip, ebp>>
history == <<begun, entered, visits, settled>>
vars    == <<globals, ids, pc, i, reg, locals, bSkip, m_id, sid, log, history>>

Goto(t, label) == pc' = [pc EXCEPT ![t] = label]
Set(f, t, v)   == [f EXCEPT ![t] = v]

-----------------------------------------------------------------------------
Init ==
  /\ circuluar = [k \in 0..(N - 1) |-> 0]
  /\ square_circular = [k \in 0..(SQUARE - 1) |-> 0]
  /\ last_ebp = 0 /\ s_last_id = 0 /\ s_last_serialized_id = 0
  /\ pc = [t \in Threads |-> "idle"]
  /\ i = [t \in Threads |-> 0] /\ reg = [t \in Threads |-> 0]
  /\ eip = [t \in Threads |-> 0] /\ ebp = [t \in Threads |-> 0]
  /\ bSkip = [t \in Threads |-> FALSE]
  /\ m_id = [t \in Threads |-> 0] /\ sid = [t \in Threads |-> 0]
  /\ log = <<>> /\ begun = 0 /\ entered = [e \in Eips |-> 0]
  /\ visits = <<>> /\ settled = 0

\* The thread comes to a head block.
Enter(t) ==
  /\ pc[t] = "idle" /\ begun < MaxVisits
  /\ \E e \in Eips, b \in Ebps :
       /\ eip' = Set(eip, t, e) /\ ebp' = Set(ebp, t, b)
       /\ entered' = [entered EXCEPT ![e] = @ + 1]
  /\ begun' = begun + 1
  /\ bSkip' = Set(bSkip, t, FALSE)
  /\ Goto(t, "load_id")
  /\ UNCHANGED <<globals, ids, i, reg, m_id, sid, log, visits,
                 settled>>

\* Frame's constructor: m_id = ++s_last_id.
LoadId(t) ==
  /\ pc[t] = "load_id"
  /\ reg' = Set(reg, t, s_last_id)
  /\ Goto(t, "store_id")
  /\ UNCHANGED <<globals, ids, i, locals, bSkip, m_id, sid, log, history>>

\* Mutant: the address goes into the window before the loop looks for it.
StoreIdAndEip(t) ==
  /\ pc[t] = "store_id"
  /\ s_last_id' = reg[t] + 1
  /\ m_id' = Set(m_id, t, reg[t] + 1)
  /\ circuluar' = [circuluar EXCEPT ![N - 1] = eip[t]]
  /\ i' = Set(i, t, 0)
  /\ Goto(t, "compare")
  /\ UNCHANGED <<square_circular, last_ebp, s_last_serialized_id, reg, locals,
                 bSkip, sid, log, history>>

StoreId(t) ==
  /\ pc[t] = "store_id"
  /\ s_last_id' = reg[t] + 1
  /\ m_id' = Set(m_id, t, reg[t] + 1)
  /\ i' = Set(i, t, 0)
  /\ Goto(t, "compare")
  /\ UNCHANGED <<globals, s_last_serialized_id, reg, locals, bSkip, sid, log,
                 history>>

\* Skip strategy 1, the loop: compare an entry, and move the next one up.
Compare(t) ==
  /\ pc[t] = "compare"
  /\ bSkip' = Set(bSkip, t, bSkip[t] \/ circuluar[i[t]] = eip[t])
  /\ Goto(t, "circle_load")
  /\ UNCHANGED <<globals, ids, i, reg, locals, m_id, sid, log, history>>

CircleLoad(t) ==
  /\ pc[t] = "circle_load"
  /\ reg' = Set(reg, t, circuluar[(i[t] + 1) % N])
  /\ Goto(t, "circle_store")
  /\ UNCHANGED <<globals, ids, i, locals, bSkip, m_id, sid, log, history>>

\* Mutant: the loop ends one entry early.
CircleStoreShort(t) ==
  /\ pc[t] = "circle_store"
  /\ circuluar' = [circuluar EXCEPT ![i[t]] = reg[t]]
  /\ i' = Set(i, t, i[t] + 1)
  /\ Goto(t, IF i[t] + 2 < N THEN "compare" ELSE "circle_last")
  /\ UNCHANGED <<square_circular, last_ebp, ids, reg, locals, bSkip, m_id, sid,
                 log, history>>

CircleStore(t) ==
  /\ pc[t] = "circle_store"
  /\ circuluar' = [circuluar EXCEPT ![i[t]] = reg[t]]
  /\ i' = Set(i, t, i[t] + 1)
  /\ Goto(t, IF i[t] + 1 < N THEN "compare" ELSE "circle_last")
  /\ UNCHANGED <<square_circular, last_ebp, ids, reg, locals, bSkip, m_id, sid,
                 log, history>>

\* The window's newest entry; the second window is for what is new to the first.
CircleLast(t) ==
  /\ pc[t] = "circle_last"
  /\ circuluar' = [circuluar EXCEPT ![N - 1] = eip[t]]
  /\ i' = Set(i, t, 0)
  /\ Goto(t, IF bSkip[t] THEN "load_ebp" ELSE "square")
  /\ UNCHANGED <<square_circular, last_ebp, ids, reg, locals, bSkip, m_id, sid,
                 log, history>>

\* Mutant: the loop over the second window ends one entry early.
SquareShort(t) ==
  /\ pc[t] = "square"
  /\ bSkip' = Set(bSkip, t, bSkip[t] \/ square_circular[i[t]] = eip[t])
  /\ i' = Set(i, t, i[t] + 1)
  /\ Goto(t, IF i[t] + 2 < SQUARE THEN "square" ELSE "load_ebp")
  /\ UNCHANGED <<globals, ids, reg, locals, m_id, sid, log, history>>

Square(t) ==
  /\ pc[t] = "square"
  /\ bSkip' = Set(bSkip, t, bSkip[t] \/ square_circular[i[t]] = eip[t])
  /\ i' = Set(i, t, i[t] + 1)
  /\ Goto(t, IF i[t] + 1 < SQUARE THEN "square" ELSE "load_ebp")
  /\ UNCHANGED <<globals, ids, reg, locals, m_id, sid, log, history>>

\* Skip strategy 2.  The range test adds nothing to the equality before it.
LoadEbp(t) ==
  /\ pc[t] = "load_ebp"
  /\ bSkip' = Set(bSkip, t, bSkip[t] \/ last_ebp = ebp[t])
  /\ Goto(t, "store_ebp")
  /\ UNCHANGED <<globals, ids, i, reg, locals, m_id, sid, log, history>>

StoreEbp(t) ==
  /\ pc[t] = "store_ebp"
  /\ last_ebp' = ebp[t]
  /\ i' = Set(i, t, 0)
  /\ Goto(t, IF bSkip[t] THEN "return"
             ELSE IF eip[t] # 0 THEN "shift_load" ELSE "square_last")
  /\ UNCHANGED <<circuluar, square_circular, ids, reg, locals, bSkip, m_id, sid,
                 log, history>>

\* The second window takes the address in.
ShiftLoad(t) ==
  /\ pc[t] = "shift_load"
  /\ reg' = Set(reg, t, square_circular[(i[t] + 1) % SQUARE])
  /\ Goto(t, "shift_store")
  /\ UNCHANGED <<globals, ids, i, locals, bSkip, m_id, sid, log, history>>

ShiftStore(t) ==
  /\ pc[t] = "shift_store"
  /\ square_circular' = [square_circular EXCEPT ![i[t]] = reg[t]]
  /\ i' = Set(i, t, i[t] + 1)
  /\ Goto(t, IF i[t] + 1 < SQUARE THEN "shift_load" ELSE "square_last")
  /\ UNCHANGED <<circuluar, last_ebp, ids, reg, locals, bSkip, m_id, sid, log,
                 history>>

SquareLast(t) ==
  /\ pc[t] = "square_last"
  /\ square_circular' = [square_circular EXCEPT ![SQUARE - 1] = eip[t]]
  /\ Goto(t, "load_sid")
  /\ UNCHANGED <<circuluar, last_ebp, ids, i, reg, locals, bSkip, m_id, sid, log,
                 history>>

\* Frame::Serialize: ++s_last_serialized_id, and the line.
LoadSid(t) ==
  /\ pc[t] = "load_sid"
  /\ reg' = Set(reg, t, s_last_serialized_id)
  /\ Goto(t, "store_sid")
  /\ UNCHANGED <<globals, ids, i, locals, bSkip, m_id, sid, log, history>>

StoreSid(t) ==
  /\ pc[t] = "store_sid"
  /\ s_last_serialized_id' = reg[t] + 1
  /\ sid' = Set(sid, t, reg[t] + 1)
  /\ Goto(t, "log")
  /\ UNCHANGED <<globals, s_last_id, i, reg, locals, bSkip, m_id, log, history>>

\* Mutant: a line is lost.
ReturnWithoutLine(t) ==
  /\ pc[t] \in {"log", "return"}
  /\ visits' = Append(visits, eip[t]) /\ settled' = ebp[t]
  /\ Goto(t, "idle")
  /\ UNCHANGED <<globals, ids, i, reg, locals, bSkip, m_id, sid, log, begun,
                 entered>>

\* The call ends: with its line in the log, which the Logger's mutex keeps
\* whole, or without one.
Return(t) ==
  /\ pc[t] \in {"log", "return"}
  /\ log' = IF pc[t] = "log"
            THEN Append(log, [sid |-> sid[t], id |-> m_id[t], eip |-> eip[t]])
            ELSE log
  /\ visits' = Append(visits, eip[t]) /\ settled' = ebp[t]
  /\ Goto(t, "idle")
  /\ UNCHANGED <<globals, ids, i, reg, locals, bSkip, m_id, sid,
                 begun, entered>>

Process_Instrument_BBL(t) ==
  \/ Enter(t) \/ LoadId(t) \/ StoreId(t)
  \/ Compare(t) \/ CircleLoad(t) \/ CircleStore(t) \/ CircleLast(t) \/ Square(t)
  \/ LoadEbp(t) \/ StoreEbp(t)
  \/ ShiftLoad(t) \/ ShiftStore(t) \/ SquareLast(t)
  \/ LoadSid(t) \/ StoreSid(t) \/ Return(t)

Next == \E t \in Threads : Process_Instrument_BBL(t)

Spec == Init /\ [][Next]_vars
-----------------------------------------------------------------------------
Labels == {"idle", "load_id", "store_id", "compare", "circle_load",
           "circle_store", "circle_last", "square", "load_ebp", "store_ebp", "shift_load",
           "shift_store", "square_last", "load_sid", "store_sid", "log", "return"}

\* The types of the variables (REProgramInfo.cpp:578-599, Frame.h:53-56).
TypeOK ==
  /\ circuluar \in [0..(N - 1) -> Eips \cup {0}]
  /\ square_circular \in [0..(SQUARE - 1) -> Eips \cup {0}]
  /\ last_ebp \in Ebps \cup {0}
  /\ s_last_id \in Nat /\ s_last_serialized_id \in Nat
  /\ pc \in [Threads -> Labels]
  /\ i \in [Threads -> 0..N] /\ reg \in [Threads -> Nat]
  /\ eip \in [Threads -> Eips \cup {0}] /\ ebp \in [Threads -> Ebps \cup {0}]
  /\ bSkip \in [Threads -> BOOLEAN]
  /\ m_id \in [Threads -> Nat] /\ sid \in [Threads -> Nat]
  /\ log \in Seq([sid : Nat, id : Nat, eip : Eips])
  /\ begun \in 0..MaxVisits /\ entered \in [Eips -> Nat]
  /\ visits \in Seq(Eips) /\ settled \in Ebps \cup {0}

\* However the threads interleave in the windows, these do not take an address
\* nobody visited before for a familiar one.  The frame pointer may still skip
\* it (REProgramInfo.cpp:606-627, 633-636).
FirstVisitNotSkipped ==
  \A t \in Threads :
    /\ pc[t] \in {"compare", "circle_load", "circle_store", "circle_last",
                  "square", "load_ebp"}
    /\ bSkip[t]
    => entered[eip[t]] > 1

\* The windows hold addresses of visits only, the second one those of visits
\* that got a frame or are getting it (REProgramInfo.cpp:606-653).
WindowsHoldVisits ==
  /\ \A k \in 0..(N - 1) : circuluar[k] # 0 => entered[circuluar[k]] > 0
  /\ \A k \in 0..(SQUARE - 1) : square_circular[k] # 0 =>
       \/ \E j \in 1..Len(log) : log[j].eip = square_circular[k]
       \/ \E t \in Threads : /\ pc[t] \in {"load_sid", "store_sid", "log"}
                             /\ eip[t] = square_circular[k]

(***************************************************************************)
(* With one thread.                                                        *)
(***************************************************************************)

\* The calls of one thread are the atomic visits of the timeline, each ending
\* where the call ends: the loops over the windows, the flag and the early
\* return decide exactly as RecentWindow does, and ids count all visits.
Timeline == INSTANCE RecentWindow WITH frames <- log, last_ebp <- settled

ImplementsTimeline == Timeline!Spec

\* Two frames of one address are more than N visits and more than N/2 frames
\* apart, whatever was skipped in between (REProgramInfo.cpp:606-627).
FramesApart ==
  \A j, k \in 1..Len(log) : j < k /\ log[j].eip = log[k].eip =>
    /\ log[k].id - log[j].id > N
    /\ k - j > SQUARE

(***************************************************************************)
(* What the comments say.                                                  *)
(***************************************************************************)

\* "First obtain a timeline id" (REProgramInfo.cpp:680): the id tells one frame
\* from another.
TimelineIdsUnique ==
  \A j, k \in 1..Len(log) : log[j].id = log[k].id => j = k
=============================================================================
