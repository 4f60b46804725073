---------------------------- MODULE ShadowStack ----------------------------
(***************************************************************************)
(* ShadowStack and ThreadStack (replay/ShadowStack.h, ShadowStack.cpp):    *)
(* a second record of a thread's calls.  Each call pushes a frame, each    *)
(* return pops one and is reported when no frame fits it.  Beside the      *)
(* shadow stands what it shadows: the thread's own stack.  The program     *)
(* calls and returns, returns over several frames at once, leaves frames   *)
(* by a jump, uses ret to jump, and is called back by the kernel.          *)
(*                                                                         *)
(* The hooks are called as the comments of REProgramInfo.cpp:490-503, 790  *)
(* and 880 have them; one thread is modelled, and threads share no stack.  *)
(* A stack address is a depth: the deeper, the larger.                     *)
(***************************************************************************)
EXTENDS Naturals, Sequences, SequencesExt, FiniteSetsExt

CONSTANTS
  Returns,    \* addresses behind the call instructions of the program
  Elsewhere,  \* any other address
  MaxDepth,   \* bound: the stack addresses
  MaxFrames   \* bound: the frames in the shadow

ASSUME ShadowStackAssumption ==
  Elsewhere \notin Returns /\ MaxDepth \in Nat /\ MaxFrames \in Nat

VARIABLES
  present,               \* has s_mapThreadStack an entry?
  m_frames,              \* the shadow: frames [ret, sp]
  m_bNtCallbackReturn,
  alarmed,               \* history: has a return been reported?
  status,                \* "running", "thrown" or "undefined"
  real,                  \* the frames of the thread's stack
  marks,                 \* the lengths of real where kernel callbacks began
  phase,                 \* "user", or a step on the way out of a callback
  loose,                 \* history: frames were left other than by a return
  recursed,              \* history: a return over several frames went where
                         \* the last of them returns as well
  deceived               \* history: a ret used as a jump went where a frame
                         \* returns

shadow  == <<present, m_frames, m_bNtCallbackReturn, alarmed, status>>
history == <<loose, recursed, deceived>>
program == <<real, marks, phase, history>>
vars    == <<shadow, program>>

Frames == [ret : Returns, sp : 1..MaxDepth]

Init ==
  /\ present = FALSE /\ m_frames = <<>> /\ m_bNtCallbackReturn = FALSE
  /\ alarmed = FALSE /\ status = "running"
  /\ real = <<>> /\ marks = <<>> /\ phase = "user"
  /\ loose = FALSE /\ recursed = FALSE /\ deceived = FALSE

-----------------------------------------------------------------------------
(***************************************************************************)
(* The hooks.                                                              *)
(***************************************************************************)

filterCall(frame) ==
  /\ present' = TRUE
  /\ m_frames' = Append(m_frames, frame)
  /\ UNCHANGED <<m_bNtCallbackReturn, alarmed, status>>

notifyNtCallbackReturn ==
  /\ m_bNtCallbackReturn' = (m_bNtCallbackReturn \/ present)
  /\ UNCHANGED <<present, m_frames, alarmed, status>>

\* Where the frames are that fit the return in both addresses.
Fitting(frames, target, esp) ==
  {k \in 1..Len(frames) : frames[k].ret = target /\ frames[k].sp = esp}

\* Mutants: the resize keeps the frame that is left; the last frame is popped
\* after it too.
ReturnToUpperFrameKeeps(frames, target, esp) ==
  m_frames' = SubSeq(frames, 1, Max(Fitting(frames, target, esp)))

ReturnToUpperFrameAndPop(frames, target, esp) ==
  LET k == Max(Fitting(frames, target, esp))
  IN m_frames' = SubSeq(frames, 1, IF k > 1 THEN k - 2 ELSE 0)

ReturnToUpperFrame(frames, target, esp) ==
  m_frames' = SubSeq(frames, 1, Max(Fitting(frames, target, esp)) - 1)

\* Mutant: only the last frame is looked at.
DetachLastFrame(frames, target, esp) ==
  /\ m_frames' = Front(frames)
  /\ alarmed' = (alarmed \/ Last(frames).ret # target)

\* The comparisons: the last frame by its return address alone, then all frames
\* by both addresses, else a report.
Detach(frames, target, esp) ==
  \/ /\ Last(frames).ret = target
     /\ m_frames' = Front(frames)
     /\ UNCHANGED alarmed
  \/ /\ Last(frames).ret # target /\ Fitting(frames, target, esp) # {}
     /\ ReturnToUpperFrame(frames, target, esp)
     /\ UNCHANGED alarmed
  \/ /\ Last(frames).ret # target /\ Fitting(frames, target, esp) = {}
     /\ m_frames' = Front(frames)
     /\ alarmed' = TRUE

\* Peek when the kernel has returned from a callback.  Of three frames none is
\* left to be read.
PeekAfterCallback(target, esp) ==
  /\ m_bNtCallbackReturn' = FALSE
  /\ \/ /\ Len(m_frames) < 3
        /\ status' = "thrown"
        /\ UNCHANGED <<present, m_frames, alarmed>>
     \/ /\ Len(m_frames) = 3
        /\ status' = "undefined" /\ m_frames' = <<>>
        /\ UNCHANGED <<present, alarmed>>
     \/ /\ Len(m_frames) > 3
        /\ Detach(SubSeq(m_frames, 1, Len(m_frames) - 3), target, esp)
        /\ UNCHANGED <<present, status>>

filterReturn(target, esp) ==
  \/ /\ ~present \/ m_frames = <<>>
     /\ UNCHANGED shadow
  \/ /\ present /\ m_frames # <<>> /\ ~m_bNtCallbackReturn
     /\ Detach(m_frames, target, esp)
     /\ UNCHANGED <<present, m_bNtCallbackReturn, status>>
  \/ /\ present /\ m_frames # <<>> /\ m_bNtCallbackReturn
     /\ PeekAfterCallback(target, esp)

-----------------------------------------------------------------------------
(***************************************************************************)
(* The program under the tool.                                             *)
(***************************************************************************)
Bottom == IF marks = <<>> THEN 0 ELSE Last(marks)
Deeper(sp) == \A k \in 1..Len(real) : sp > real[k].sp

\* A call instruction: to a routine of the program, to NtCallbackReturn in a
\* callback, or from there into the system.
CallInstruction(next) ==
  /\ status = "running" /\ Len(m_frames) < MaxFrames
  /\ \E frame \in Frames :
       /\ Deeper(frame.sp)
       /\ filterCall(frame) /\ real' = Append(real, frame)
  /\ phase' = next
  /\ UNCHANGED <<marks, recursed, deceived>>

Call == phase = "user" /\ CallInstruction("user") /\ UNCHANGED loose

CallNtCallbackReturn ==
  /\ phase = "user" /\ marks # <<>> /\ Len(real) > Bottom
  /\ CallInstruction("called")
  /\ loose' = (loose \/ Len(real) # Bottom + 1)

EnterNtCallbackReturn ==
  /\ status = "running" /\ phase = "called"
  /\ notifyNtCallbackReturn
  /\ phase' = "notified"
  /\ UNCHANGED <<real, marks, history>>

CallSystem == phase = "notified" /\ CallInstruction("system") /\ UNCHANGED loose

\* The kernel drops the frames of the callback and goes on where it came from,
\* behind the call that had entered it.
KernelReturn ==
  /\ status = "running" /\ phase = "system"
  /\ real' = SubSeq(real, 1, Bottom) /\ marks' = Front(marks)
  /\ phase' = "return"
  /\ UNCHANGED <<shadow, history>>

\* A call into the kernel is answered by a callback.
KernelCallback ==
  /\ status = "running" /\ phase = "user" /\ Len(real) > Bottom
  /\ marks' = Append(marks, Len(real))
  /\ UNCHANGED <<shadow, real, phase, history>>

\* A return from frame k, over the frames above it.
Return ==
  /\ status = "running" /\ phase \in {"user", "return"}
  /\ \E k \in (Bottom + 1)..Len(real) :
       /\ phase = "return" => k = Len(real)
       /\ filterReturn(real[k].ret, real[k].sp)
       /\ real' = SubSeq(real, 1, k - 1)
       /\ recursed' = (recursed \/ (k < Len(real) /\ real[k].ret = Last(real).ret))
  /\ phase' = "user"
  /\ UNCHANGED <<marks, loose, deceived>>

\* Frames are left by a jump, as longjmp does.
JumpOut ==
  /\ status = "running" /\ phase = "user"
  /\ \E k \in Bottom..(Len(real) - 1) : real' = SubSeq(real, 1, k)
  /\ loose' = TRUE
  /\ UNCHANGED <<shadow, marks, phase, recursed, deceived>>

\* Where the last frame of the thread returns, or a frame of the shadow that was
\* called from the same place of the stack.
Returning(target, sp) ==
  \/ real # <<>> /\ Last(real).ret = target
  \/ Fitting(m_frames, target, sp) # {}

\* An address is pushed and "returned" to: any address, those behind the calls
\* of the program included.
PushRet ==
  /\ status = "running" /\ phase = "user"
  /\ \E target \in Returns \cup {Elsewhere}, sp \in 1..MaxDepth :
       /\ Deeper(sp) /\ filterReturn(target, sp)
       /\ deceived' = (deceived \/ Returning(target, sp))
  /\ loose' = TRUE
  /\ UNCHANGED <<real, marks, phase, recursed>>

Next == \/ Call \/ CallNtCallbackReturn \/ EnterNtCallbackReturn \/ CallSystem
        \/ KernelReturn \/ KernelCallback \/ Return \/ JumpOut \/ PushRet

Spec == Init /\ [][Next]_vars
-----------------------------------------------------------------------------
\* The types of the variables; without an entry there is no frame
\* (ShadowStack.h:165-167, ShadowStack.cpp:12-15).
TypeOK ==
  /\ present \in BOOLEAN /\ m_bNtCallbackReturn \in BOOLEAN
  /\ m_frames \in Seq(Frames) /\ (~present => m_frames = <<>>)
  /\ alarmed \in BOOLEAN /\ status \in {"running", "thrown", "undefined"}
  /\ real \in Seq(Frames) /\ marks \in Seq(Nat)
  /\ phase \in {"user", "called", "notified", "system", "return"}
  /\ loose \in BOOLEAN /\ recursed \in BOOLEAN /\ deceived \in BOOLEAN

\* What the next return will see of the shadow.
Standing == IF phase = "return" /\ m_bNtCallbackReturn
            THEN SubSeq(m_frames, 1, Len(m_frames) - 3) ELSE m_frames

\* The frames of s occur in t, in order.
Embedded(s, t) ==
  \E at \in [1..Len(s) -> 1..Len(t)] :
    /\ \A k \in 1..Len(s) : t[at[k]] = s[k]
    /\ \A j, k \in 1..Len(s) : j < k => at[j] < at[k]

\* Until a return is reported, or a ret used as a jump goes where a frame
\* returns, every frame of the thread is in the shadow, in its place among the
\* others, whatever frames the program has left by jumps or in callbacks; and the
\* frames that Peek pops at the return of a callback are there, with one more to
\* be read.  A ret that goes there passes for a return and takes a frame of the
\* thread along unreported, as only the address is compared (ShadowStack.h:67-84,
\* 105-124, ShadowStack.cpp:85-180).
LiveFramesShadowed ==
  ~alarmed /\ ~deceived => status = "running" /\ Embedded(real, Standing)

\* The first return that is reported is none of the program's frames, unless a
\* ret used as a jump has passed for a return before (ShadowStack.cpp:137-176).
FirstAlarmTrue == [][~deceived /\ ~alarmed /\ alarmed' => real' = real]_vars

\* A program that leaves its frames by returns only is never reported, returns
\* over several frames, recursion and callbacks included, and its frames are in
\* the shadow.  The shadow is the thread's stack until it returns over several
\* frames to an address that the last of them returns to as well: that passes for
\* a return from the last, and the frames between stay (ShadowStack.h:56-129,
\* ShadowStack.cpp:96-97).
MirrorsNested ==
  ~loose => /\ ~alarmed /\ status = "running" /\ Embedded(real, Standing)
            /\ ~recursed => Standing = real
=============================================================================
