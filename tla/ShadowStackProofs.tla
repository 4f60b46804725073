------------------------- MODULE ShadowStackProofs -------------------------
(***************************************************************************)
(* The shadow, for every depth of the stack, every number of frames and    *)
(* every set of return addresses.  As long as the program leaves frames by *)
(* returns only, and over several of them only where the last returns      *)
(* elsewhere, the shadow is its stack, across kernel callbacks inside      *)
(* kernel callbacks.  And with jumps, recursion and ret used as a jump:    *)
(* every frame of the stack is in the shadow, in order, until a return is  *)
(* reported or a ret used as a jump goes where a frame returns; so no      *)
(* return from a frame of the stack is reported first.                     *)
(***************************************************************************)
EXTENDS ShadowStack, TLAPS, SequenceTheorems, FiniteSetTheorems

\* Every call pushes below the frames there are.
Deepening == \A k, j \in 1..Len(real) : k < j => real[k].sp < real[j].sp

\* The callbacks begin one behind the other, where the stack still reaches.
Marked ==
  /\ \A k \in 1..Len(marks) : marks[k] <= Len(real)
  /\ \A k, j \in 1..Len(marks) : k <= j => marks[k] <= marks[j]

\* How far the shadow stands above the stack on the way out of a callback.
OnTheWay ==
  CASE phase = "user"     -> ~m_bNtCallbackReturn /\ m_frames = real
    [] phase = "called"   -> /\ ~m_bNtCallbackReturn /\ m_frames = real
                             /\ marks # <<>> /\ Len(real) = Bottom + 2
    [] phase = "notified" -> /\ m_bNtCallbackReturn /\ m_frames = real
                             /\ marks # <<>> /\ Len(real) = Bottom + 2
    [] phase = "system"   -> /\ m_bNtCallbackReturn /\ m_frames = real
                             /\ marks # <<>> /\ Len(real) = Bottom + 3
    [] phase = "return"   -> /\ m_bNtCallbackReturn /\ Len(m_frames) = Len(real) + 3
                             /\ SubSeq(m_frames, 1, Len(real)) = real

Nested == /\ TypeOK /\ ~alarmed /\ status = "running"
          /\ Deepening /\ Marked /\ OnTheWay

IInv == loose \in BOOLEAN /\ recursed \in BOOLEAN /\ (~loose /\ ~recursed => Nested)

-----------------------------------------------------------------------------
(***************************************************************************)
(* Sequences.                                                              *)
(***************************************************************************)

\* The first n elements.
LEMMA FirstOf ==
  ASSUME NEW S, NEW s \in Seq(S), NEW n \in 0..Len(s)
  PROVE  /\ SubSeq(s, 1, n) \in Seq(S) /\ Len(SubSeq(s, 1, n)) = n
         /\ \A k \in 1..n : SubSeq(s, 1, n)[k] = s[k]
<1>1. Len(s) \in Nat /\ n \in Int
  BY LenProperties
<1>2. \A k \in 1..n : s[k] \in S
  BY <1>1, ElementOfSeq
<1>3. /\ SubSeq(s, 1, n) \in Seq(S)
      /\ Len(SubSeq(s, 1, n)) = (IF 1 <= n THEN n - 1 + 1 ELSE 0)
      /\ \A k \in 1..(n - 1 + 1) : SubSeq(s, 1, n)[k] = s[1 + k - 1]
  BY <1>1, <1>2, SubSeqProperties
<1> QED
  BY <1>1, <1>3

\* The first n of the first m elements, and all elements.
LEMMA FirstOfFirst ==
  ASSUME NEW S, NEW s \in Seq(S), NEW m \in 0..Len(s), NEW n \in 0..m
  PROVE  SubSeq(SubSeq(s, 1, m), 1, n) = SubSeq(s, 1, n)
<1> DEFINE f == SubSeq(s, 1, m)
           x == SubSeq(f, 1, n)
           y == SubSeq(s, 1, n)
<1>1. Len(s) \in Nat /\ n \in 0..Len(s)
  BY LenProperties
<1>2. f \in Seq(S) /\ Len(f) = m /\ \A k \in 1..m : f[k] = s[k]
  BY FirstOf
<1>3. y \in Seq(S) /\ Len(y) = n /\ \A k \in 1..n : y[k] = s[k]
  BY <1>1, FirstOf
<1> HIDE DEF f, y
<1>4. x \in Seq(S) /\ Len(x) = n /\ \A k \in 1..n : x[k] = f[k]
  BY <1>2, FirstOf
<1> HIDE DEF x
<1>5. \A k \in 1..Len(x) : x[k] = y[k]
  BY <1>1, <1>2, <1>3, <1>4
<1>6. x = y
  BY <1>3, <1>4, <1>5, SeqEqual
<1> QED BY <1>6 DEF x, y, f

LEMMA AllOf == ASSUME NEW S, NEW s \in Seq(S) PROVE SubSeq(s, 1, Len(s)) = s
<1>1. Len(s) \in 0..Len(s)
  BY LenProperties
<1> DEFINE x == SubSeq(s, 1, Len(s))
<1>2. x \in Seq(S) /\ Len(x) = Len(s) /\ \A k \in 1..Len(s) : x[k] = s[k]
  BY <1>1, FirstOf
<1> HIDE DEF x
<1>3. x = s
  BY <1>2, SeqEqual
<1> QED BY <1>3 DEF x

\* Elements in front of what is appended.
LEMMA FirstOfAppend ==
  ASSUME NEW S, NEW s \in Seq(S), NEW e \in S, NEW n \in 0..Len(s)
  PROVE  SubSeq(Append(s, e), 1, n) = SubSeq(s, 1, n)
<1> DEFINE a == Append(s, e)
           x == SubSeq(a, 1, n)
           y == SubSeq(s, 1, n)
<1>1. /\ a \in Seq(S) /\ Len(a) = Len(s) + 1 /\ Len(s) \in Nat
      /\ \A k \in 1..Len(s) : a[k] = s[k]
  BY AppendProperties, LenProperties
<1>2. y \in Seq(S) /\ Len(y) = n /\ \A k \in 1..n : y[k] = s[k]
  BY FirstOf
<1> HIDE DEF a, y
<1>3. n \in 0..Len(a)
  BY <1>1
<1>4. x \in Seq(S) /\ Len(x) = n /\ \A k \in 1..n : x[k] = a[k]
  BY <1>1, <1>3, FirstOf
<1> HIDE DEF x
<1>5. \A k \in 1..Len(x) : x[k] = y[k]
  BY <1>1, <1>2, <1>4
<1>6. x = y
  BY <1>2, <1>4, <1>5, SeqEqual
<1> QED BY <1>6 DEF x, y, a

-----------------------------------------------------------------------------
(***************************************************************************)
(* The stack and its marks.                                                *)
(***************************************************************************)

\* The length of the stack and where the callback began.
LEMMA StackDepths ==
  ASSUME TypeOK, Marked
  PROVE  /\ real \in Seq(Frames) /\ m_frames \in Seq(Frames) /\ marks \in Seq(Nat)
         /\ Len(real) \in Nat /\ Len(m_frames) \in Nat /\ Len(marks) \in Nat
         /\ Bottom \in 0..Len(real)
         /\ marks # <<>> => Len(marks) > 0 /\ Bottom = marks[Len(marks)]
<1>1. /\ real \in Seq(Frames) /\ m_frames \in Seq(Frames) /\ marks \in Seq(Nat)
  BY DEF TypeOK
<1>2. Len(real) \in Nat /\ Len(m_frames) \in Nat /\ Len(marks) \in Nat
  BY <1>1, LenProperties
<1>3. CASE marks = <<>>
  BY <1>1, <1>2, <1>3 DEF Bottom
<1>4. CASE marks # <<>>
  <2>1. Len(marks) > 0
    BY <1>1, <1>2, <1>4, EmptySeq
  <2>2. Last(marks) = marks[Len(marks)] /\ marks[Len(marks)] \in Nat
    BY <1>1, <2>1, <1>2, ElementOfSeq DEF Last
  <2>3. marks[Len(marks)] <= Len(real)
    BY <1>2, <2>1 DEF Marked
  <2> QED BY <1>1, <1>2, <1>4, <2>1, <2>2, <2>3 DEF Bottom
<1> QED BY <1>3, <1>4

\* A call: the stack grows above all marks.
LEMMA MarkedGrown ==
  ASSUME TypeOK, Marked, marks' = marks, Len(real') = Len(real) + 1
  PROVE  Marked'
<1>1. \A k \in 1..Len(marks) : marks[k] <= Len(real) /\ marks[k] \in Nat
  BY StackDepths, ElementOfSeq DEF Marked
<1>2. \A k \in 1..Len(marks) : marks[k] <= Len(real')
  BY <1>1, StackDepths
<1> QED BY <1>2 DEF Marked

\* A stack that keeps the frames up to the last mark keeps those of all marks.
LEMMA MarkedCut ==
  ASSUME TypeOK, Marked, NEW n \in Bottom..Len(real), real' = SubSeq(real, 1, n)
  PROVE  /\ real' \in Seq(Frames) /\ Len(real') = n /\ n \in 0..Len(real)
         /\ \A k \in 1..n : real'[k] = real[k]
         /\ marks' = marks => Marked'
<1>1. n \in 0..Len(real)
  BY StackDepths
<1>2. /\ real' \in Seq(Frames) /\ Len(real') = n
      /\ \A k \in 1..n : real'[k] = real[k]
  BY <1>1, StackDepths, FirstOf
<1>3. ASSUME marks' = marks PROVE Marked'
  <2>1. ASSUME NEW k \in 1..Len(marks) PROVE marks[k] <= n
    <3>1. marks # <<>> /\ Len(marks) \in 1..Len(marks) /\ k <= Len(marks)
      BY StackDepths, EmptySeq
    <3>2. marks[k] <= Bottom
      BY <3>1, StackDepths DEF Marked
    <3>3. marks[k] \in Nat
      BY StackDepths, ElementOfSeq
    <3> QED BY <1>1, <3>2, <3>3, StackDepths
  <2> QED BY <1>2, <1>3, <2>1 DEF Marked
<1> QED BY <1>1, <1>2, <1>3

\* The kernel returns to the last mark, and takes it away.
LEMMA MarkedReturn ==
  ASSUME TypeOK, Marked, KernelReturn, marks # <<>>
  PROVE  /\ real' \in Seq(Frames) /\ Len(real') = Bottom /\ marks' \in Seq(Nat)
         /\ Marked'
<1>1. real' = SubSeq(real, 1, Bottom) /\ marks' = Front(marks) /\ Bottom \in Bottom..Len(real)
  BY StackDepths DEF KernelReturn
<1>2. real' \in Seq(Frames) /\ Len(real') = Bottom
  BY <1>1, MarkedCut
<1>3. /\ marks' \in Seq(Nat) /\ Len(marks') = Len(marks) - 1
      /\ \A k \in 1..(Len(marks) - 1) : marks'[k] = marks[k]
  <2>1. Len(marks) - 1 \in 0..Len(marks)
    BY StackDepths
  <2> QED BY <1>1, <2>1, StackDepths, FirstOf DEF Front
<1>4. \A j, k \in 1..Len(marks) : j <= k => marks[j] <= marks[k]
  BY DEF Marked
<1>5. \A k \in 1..(Len(marks) - 1) : marks[k] <= Bottom
  <2>1. Len(marks) \in Nat /\ Len(marks) > 0 /\ Bottom = marks[Len(marks)]
    BY StackDepths
  <2> QED BY ONLY <1>4, <2>1
<1>6. \A k \in 1..Len(marks') : marks'[k] = marks[k] /\ marks'[k] <= Len(real')
  BY ONLY <1>2, <1>3, <1>5
<1>7. \A k \in 1..Len(marks') : k \in 1..Len(marks)
  BY <1>3, StackDepths
<1>8. \A j, k \in 1..Len(marks') : j <= k => marks'[j] <= marks'[k]
  BY ONLY <1>4, <1>6, <1>7
<1>9. Marked'
  BY ONLY <1>6, <1>8 DEF Marked
<1> QED BY <1>2, <1>3, <1>9

\* The kernel calls back from where the stack is: the new mark is the last.
LEMMA MarkedCallback ==
  ASSUME TypeOK, Marked, KernelCallback
  PROVE  marks' \in Seq(Nat) /\ Marked'
<1>1. marks' = Append(marks, Len(real)) /\ real' = real
  BY DEF KernelCallback
<1>2. /\ marks' \in Seq(Nat) /\ Len(marks') = Len(marks) + 1
      /\ \A k \in 1..Len(marks) : marks'[k] = marks[k]
      /\ marks'[Len(marks) + 1] = Len(real)
  BY <1>1, StackDepths, AppendProperties
<1>3. \A k \in 1..Len(marks) : marks[k] <= Len(real)
  BY DEF Marked
<1>4. ASSUME NEW k \in 1..Len(marks') PROVE marks'[k] <= Len(real)
  <2>1. CASE k = Len(marks) + 1
    BY <1>2, <2>1, StackDepths
  <2>2. CASE k # Len(marks) + 1
    <3>1. k \in 1..Len(marks)
      BY <1>2, <2>2, StackDepths
    <3> QED BY <1>2, <1>3, <3>1
  <2> QED BY <2>1, <2>2
<1>5. \A k, j \in 1..Len(marks') : k <= j => marks'[k] <= marks'[j]
  <2> SUFFICES ASSUME NEW k \in 1..Len(marks'), NEW j \in 1..Len(marks'), k <= j
               PROVE  marks'[k] <= marks'[j]
    OBVIOUS
  <2>1. CASE j = Len(marks) + 1
    BY <1>2, <1>4, <2>1
  <2>2. CASE j # Len(marks) + 1
    <3>1. k \in 1..Len(marks) /\ j \in 1..Len(marks)
      <4>1. Len(marks) \in Nat /\ Len(marks') = Len(marks) + 1
        BY <1>2, StackDepths
      <4> QED BY ONLY <2>2, <4>1, k \in 1..Len(marks'), j \in 1..Len(marks'), k <= j
    <3>2. marks[k] <= marks[j]
      BY <3>1 DEF Marked
    <3> QED BY ONLY <1>2, <3>1, <3>2
  <2> QED BY <2>1, <2>2
<1> QED BY <1>1, <1>2, <1>4, <1>5 DEF Marked

-----------------------------------------------------------------------------
(***************************************************************************)
(* The hooks on a shadow that is the stack.                                *)
(***************************************************************************)

\* Peek finds the frame that is returned from, and that frame only: the stack
\* pointers tell the frames apart, unless the last frame has the return address
\* as well (ShadowStack.cpp:96-176).
LEMMA DetachNested ==
  ASSUME NEW r \in Seq(Frames), NEW k \in 1..Len(r),
         \A i, j \in 1..Len(r) : i < j => r[i].sp < r[j].sp,
         k < Len(r) => r[k].ret # Last(r).ret,
         Detach(r, r[k].ret, r[k].sp)
  PROVE  m_frames' = SubSeq(r, 1, k - 1) /\ alarmed' = alarmed
<1>1. Len(r) \in Nat /\ k \in Nat /\ k >= 1
  BY LenProperties
<1>2. \A i \in 1..Len(r) : r[i].sp \in Nat
  <2>1. \A i \in 1..Len(r) : r[i] \in Frames
    BY ElementOfSeq
  <2>2. \A f \in Frames : f.sp \in Nat
    BY ShadowStackAssumption DEF Frames
  <2> QED BY <2>1, <2>2
<1>3. Fitting(r, r[k].ret, r[k].sp) = {k}
  <2>1. ASSUME NEW i \in 1..Len(r), r[i].sp = r[k].sp PROVE i = k
    BY <1>1, <1>2, <2>1
  <2> QED BY <2>1 DEF Fitting
<1>4. CASE Last(r).ret = r[k].ret
  <2>1. k = Len(r)
    BY <1>1, <1>4
  <2>2. m_frames' = Front(r) /\ alarmed' = alarmed
    BY <1>3, <1>4 DEF Detach
  <2> QED BY <2>1, <2>2 DEF Front
<1>5. CASE Last(r).ret # r[k].ret
  <2>1. /\ ReturnToUpperFrame(r, r[k].ret, r[k].sp) /\ alarmed' = alarmed
    BY <1>3, <1>5 DEF Detach
  <2>2. Max({k}) = k
    BY <1>1 DEF Max
  <2> QED BY <1>3, <2>1, <2>2 DEF ReturnToUpperFrame
<1> QED BY <1>4, <1>5

-----------------------------------------------------------------------------
(***************************************************************************)
(* The steps.                                                              *)
(***************************************************************************)

\* Calls that have been nested so far were nested before.
LEMMA WasNested ==
  ASSUME IInv, [Next]_vars, ~loose', ~recursed'
  PROVE  ~loose /\ ~recursed /\ Nested
BY DEF IInv, Next, vars, program, history, CallInstruction, Call, CallNtCallbackReturn, EnterNtCallbackReturn,
   CallSystem, KernelReturn, KernelCallback, Return, JumpOut, PushRet

\* The same of nested calls.
LEMMA Depths ==
  ASSUME Nested
  PROVE  /\ real \in Seq(Frames) /\ m_frames \in Seq(Frames) /\ marks \in Seq(Nat)
         /\ Len(real) \in Nat /\ Len(m_frames) \in Nat /\ Len(marks) \in Nat
         /\ Bottom \in 0..Len(real)
         /\ marks # <<>> => Len(marks) > 0 /\ Bottom = marks[Len(marks)]
BY StackDepths DEF Nested

\* A call: the frame goes onto the stack and onto the shadow
\* (ShadowStack.h:67-84).
LEMMA CallKeeps ==
  ASSUME Nested, m_frames = real, NEW next, CallInstruction(next)
  PROVE  /\ m_frames' = real' /\ Len(real') = Len(real) + 1 /\ real' \in Seq(Frames)
         /\ present' = TRUE /\ Bottom' = Bottom
         /\ Deepening' /\ Marked' /\ ~alarmed' /\ status' = "running"
         /\ m_bNtCallbackReturn' = m_bNtCallbackReturn
<1>1. PICK frame \in Frames :
        Deeper(frame.sp) /\ filterCall(frame) /\ real' = Append(real, frame)
  BY DEF CallInstruction
<1>2. /\ real' \in Seq(Frames) /\ Len(real') = Len(real) + 1
      /\ \A k \in 1..Len(real) : real'[k] = real[k]
      /\ real'[Len(real) + 1] = frame
  BY <1>1, Depths, AppendProperties
<1>3. m_frames' = real' /\ present' = TRUE
  BY <1>1 DEF filterCall
<1>4. marks' = marks /\ ~alarmed' /\ status' = "running"
      /\ m_bNtCallbackReturn' = m_bNtCallbackReturn
  BY <1>1 DEF CallInstruction, filterCall, Nested
<1>5. Deepening'
  <2> SUFFICES ASSUME NEW k \in 1..Len(real'), NEW j \in 1..Len(real'), k < j
               PROVE  real'[k].sp < real'[j].sp
    BY DEF Deepening
  <2>1. k \in 1..Len(real) /\ real'[k] = real[k]
    BY <1>2, Depths
  <2>2. CASE j \in 1..Len(real)
    BY <1>2, <2>1, <2>2 DEF Nested, Deepening
  <2>3. CASE j = Len(real) + 1
    <3>1. frame.sp > real[k].sp
      BY <1>1, <2>1 DEF Deeper
    <3>2. frame.sp \in Nat /\ real[k].sp \in Nat
      <4>1. real[k] \in Frames
        BY <2>1, Depths, ElementOfSeq
      <4>2. \A f \in Frames : f.sp \in Nat
        BY ShadowStackAssumption DEF Frames
      <4> QED BY <4>1, <4>2
    <3> QED BY <1>2, <2>1, <2>3, <3>1, <3>2
  <2>4. j \in 1..Len(real) \/ j = Len(real) + 1
    <3>1. Len(real) \in Nat /\ Len(real') = Len(real) + 1
      BY <1>2, Depths
    <3> QED BY ONLY <3>1, j \in 1..Len(real')
  <2> QED BY <2>2, <2>3, <2>4
<1>6. Marked'
  BY <1>2, <1>4, MarkedGrown DEF Nested
<1> QED BY <1>2, <1>3, <1>4, <1>5, <1>6 DEF Bottom

\* A stack that loses its top stays a stack.
LEMMA CutKeeps ==
  ASSUME Nested, NEW n \in Bottom..Len(real), real' = SubSeq(real, 1, n)
  PROVE  /\ real' \in Seq(Frames) /\ Len(real') = n /\ Deepening'
         /\ marks' = marks => Marked'
<1>1. n \in 0..Len(real)
  BY Depths
<1>2. /\ real' \in Seq(Frames) /\ Len(real') = n
      /\ \A k \in 1..n : real'[k] = real[k]
      /\ marks' = marks => Marked'
  BY MarkedCut DEF Nested
<1>3. Deepening'
  <2> SUFFICES ASSUME NEW k \in 1..Len(real'), NEW j \in 1..Len(real'), k < j
               PROVE  real'[k].sp < real'[j].sp
    BY DEF Deepening
  <2>1. k \in 1..Len(real) /\ j \in 1..Len(real)
    BY <1>1, <1>2, Depths
  <2> QED BY <1>2, <2>1 DEF Nested, Deepening
<1> QED BY <1>2, <1>3

\* Calls, into a routine, to NtCallbackReturn and into the system.
LEMMA CallStep ==
  ASSUME Nested, loose' \in BOOLEAN, ~loose', loose \in BOOLEAN,
         Call \/ CallNtCallbackReturn \/ CallSystem
  PROVE  Nested'
<1>1. PICK next \in {"user", "called", "system"} :
        /\ CallInstruction(next)
        /\ next = "user" => phase = "user"
        /\ next = "called" => /\ phase = "user" /\ marks # <<>>
                              /\ Len(real) = Bottom + 1
        /\ next = "system" => phase = "notified"
  BY DEF Call, CallNtCallbackReturn, CallSystem
<1>2. m_frames = real
  BY <1>1 DEF Nested, OnTheWay
<1>3. /\ m_frames' = real' /\ Len(real') = Len(real) + 1 /\ real' \in Seq(Frames)
      /\ present' = TRUE /\ Bottom' = Bottom
      /\ Deepening' /\ Marked' /\ ~alarmed' /\ status' = "running"
      /\ m_bNtCallbackReturn' = m_bNtCallbackReturn
  BY <1>1, <1>2, CallKeeps
<1>4. /\ phase' = next /\ marks' = marks /\ alarmed' = alarmed
      /\ recursed' = recursed /\ deceived' = deceived
  BY <1>1 DEF CallInstruction, filterCall
<1>5. TypeOK'
  BY <1>3, <1>4 DEF Nested, TypeOK
<1>6. OnTheWay'
  <2>1. CASE phase = "user"
    <3>1. ~m_bNtCallbackReturn
      BY <2>1 DEF Nested, OnTheWay
    <3>2. next = "called" => Len(real') = Bottom' + 2
      BY <1>1, <1>3, <2>1, Depths
    <3> QED BY <1>1, <1>3, <1>4, <2>1, <3>1, <3>2 DEF OnTheWay
  <2>2. CASE phase = "notified"
    <3>1. m_bNtCallbackReturn /\ marks # <<>> /\ Len(real) = Bottom + 2
      BY <2>2 DEF Nested, OnTheWay
    <3>2. Len(real') = Bottom' + 3
      BY <1>3, <3>1, Depths
    <3> QED BY <1>1, <1>3, <1>4, <2>2, <3>1, <3>2 DEF OnTheWay
  <2> QED BY <1>1, <2>1, <2>2
<1> QED BY <1>3, <1>5, <1>6 DEF Nested

\* The hook of NtCallbackReturn: the thread has an entry (ShadowStack.cpp:182-189).
LEMMA EnterNtCallbackReturnStep ==
  ASSUME Nested, EnterNtCallbackReturn
  PROVE  Nested'
<1>1. phase = "called" /\ phase' = "notified" /\ UNCHANGED <<loose, recursed, deceived>>
      /\ UNCHANGED <<real, marks, present, m_frames, alarmed, status>>
      /\ m_bNtCallbackReturn' = (m_bNtCallbackReturn \/ present)
  BY DEF EnterNtCallbackReturn, notifyNtCallbackReturn, history
<1>2. present = TRUE
  <2>1. m_frames = real /\ Len(real) = Bottom + 2
    BY <1>1 DEF Nested, OnTheWay
  <2>2. m_frames # <<>>
    BY <2>1, Depths, EmptySeq
  <2> QED BY <2>2 DEF Nested, TypeOK
<1>3. m_bNtCallbackReturn' = TRUE
  BY <1>1, <1>2
<1>4. TypeOK' /\ Deepening' /\ Marked' /\ ~alarmed' /\ status' = "running"
  BY <1>1, <1>3 DEF Nested, TypeOK, Deepening, Marked
<1>5. OnTheWay'
  BY <1>1, <1>3 DEF Nested, OnTheWay, Bottom
<1> QED BY <1>4, <1>5 DEF Nested

\* The kernel takes the frames of the callback away; the shadow keeps three more.
LEMMA KernelReturnStep ==
  ASSUME Nested, KernelReturn
  PROVE  Nested'
<1>1. /\ phase = "system" /\ phase' = "return"
      /\ real' = SubSeq(real, 1, Bottom) /\ marks' = Front(marks)
      /\ UNCHANGED <<present, m_frames, m_bNtCallbackReturn, alarmed, status>>
      /\ UNCHANGED <<loose, recursed, deceived>>
  BY DEF KernelReturn, shadow, history
<1>2. m_bNtCallbackReturn /\ m_frames = real /\ marks # <<>> /\ Len(real) = Bottom + 3
  BY <1>1 DEF Nested, OnTheWay
<1>3. Bottom \in Bottom..Len(real)
  BY Depths
<1>4. real' \in Seq(Frames) /\ Len(real') = Bottom /\ Deepening'
  BY <1>1, <1>3, CutKeeps
<1>5. marks' \in Seq(Nat) /\ Marked'
  BY <1>2, MarkedReturn DEF Nested
<1>6. TypeOK'
  BY <1>1, <1>4, <1>5 DEF Nested, TypeOK
<1>7. OnTheWay'
  BY <1>1, <1>2, <1>4 DEF OnTheWay
<1> QED BY <1>1, <1>4, <1>5, <1>6, <1>7 DEF Nested

\* The kernel calls back from where the stack is.
LEMMA KernelCallbackStep ==
  ASSUME Nested, KernelCallback
  PROVE  Nested'
<1>1. /\ phase = "user" /\ marks' = Append(marks, Len(real))
      /\ UNCHANGED <<present, m_frames, m_bNtCallbackReturn, alarmed, status>>
      /\ UNCHANGED <<real, phase, loose, recursed, deceived>>
  BY DEF KernelCallback, shadow, history
<1>2. marks' \in Seq(Nat) /\ Marked'
  BY MarkedCallback DEF Nested
<1>3. TypeOK' /\ Deepening' /\ ~alarmed' /\ status' = "running"
  BY <1>1, <1>2 DEF Nested, TypeOK, Deepening
<1>4. OnTheWay'
  BY <1>1 DEF Nested, OnTheWay
<1> QED BY <1>2, <1>3, <1>4 DEF Nested

\* A return, from the last frame, over several, or behind a callback: Detach is
\* given the stack itself (ShadowStack.cpp:85-135).
LEMMA ReturnStep ==
  ASSUME Nested, ~recursed', Return
  PROVE  Nested'
<1>1. PICK k \in (Bottom + 1)..Len(real) :
        /\ phase = "return" => k = Len(real)
        /\ filterReturn(real[k].ret, real[k].sp)
        /\ real' = SubSeq(real, 1, k - 1)
        /\ recursed' = (recursed \/ (k < Len(real) /\ real[k].ret = Last(real).ret))
  BY DEF Return
<1>2. k \in 1..Len(real) /\ k - 1 \in Bottom..Len(real) /\ Len(real) >= 1
  BY Depths
<1>3. /\ phase \in {"user", "return"} /\ phase' = "user" /\ marks' = marks
      /\ loose' = loose /\ deceived' = deceived
  BY DEF Return
<1>4. real' \in Seq(Frames) /\ Len(real') = k - 1 /\ Deepening' /\ Marked'
  BY <1>1, <1>2, <1>3, CutKeeps
<1>5. m_frames # <<>> /\ present = TRUE
  <2>1. Len(m_frames) = Len(real) \/ Len(m_frames) = Len(real) + 3
    BY <1>3 DEF Nested, OnTheWay
  <2>2. m_frames # <<>>
    BY <1>2, <2>1, Depths, EmptySeq
  <2> QED BY <2>2 DEF Nested, TypeOK
<1>6. /\ Detach(real, real[k].ret, real[k].sp) /\ ~m_bNtCallbackReturn'
      /\ UNCHANGED <<present, status>>
  <2>1. CASE phase = "user"
    <3>1. ~m_bNtCallbackReturn /\ m_frames = real
      BY <2>1 DEF Nested, OnTheWay
    <3>2. /\ Detach(m_frames, real[k].ret, real[k].sp)
          /\ UNCHANGED <<present, m_bNtCallbackReturn, status>>
      BY <1>1, <1>5, <3>1 DEF filterReturn
    <3> QED BY <3>1, <3>2
  <2>2. CASE phase = "return"
    <3>1. m_bNtCallbackReturn /\ Len(m_frames) = Len(real) + 3
          /\ SubSeq(m_frames, 1, Len(real)) = real
      BY <2>2 DEF Nested, OnTheWay
    <3>2. PeekAfterCallback(real[k].ret, real[k].sp)
      BY <1>1, <1>5, <3>1 DEF filterReturn
    <3>3. Len(m_frames) > 3 /\ Len(m_frames) - 3 = Len(real)
      BY <1>2, <3>1, Depths
    <3>4. /\ Detach(SubSeq(m_frames, 1, Len(m_frames) - 3), real[k].ret, real[k].sp)
          /\ m_bNtCallbackReturn' = FALSE /\ UNCHANGED <<present, status>>
      <4>1. \A n \in Nat : n > 3 => ~(n < 3) /\ n # 3
        OBVIOUS
      <4>2. Len(m_frames) \in Nat
        BY Depths
      <4>3. ~(Len(m_frames) < 3) /\ Len(m_frames) # 3
        BY ONLY <3>3, <4>1, <4>2, Zenon
      <4> QED BY <3>2, <4>3 DEF PeekAfterCallback
    <3> QED BY <3>1, <3>3, <3>4
  <2> QED BY <1>3, <2>1, <2>2
<1>7. m_frames' = real' /\ alarmed' = alarmed
  <2>1. \A p, q \in 1..Len(real) : p < q => real[p].sp < real[q].sp
    BY DEF Nested, Deepening
  <2>2. k < Len(real) => real[k].ret # Last(real).ret
    BY <1>1
  <2> QED BY <1>1, <1>2, <1>6, <2>1, <2>2, Depths, DetachNested
<1>8. TypeOK'
  <2>1. recursed' \in BOOLEAN /\ m_bNtCallbackReturn' \in BOOLEAN
    <3>1. recursed' \in BOOLEAN
      BY <1>1
    <3>2. m_bNtCallbackReturn' \in BOOLEAN
      BY <1>1, <1>5 DEF filterReturn, PeekAfterCallback, Nested, TypeOK
    <3> QED BY <3>1, <3>2
  <2> QED BY <1>3, <1>4, <1>5, <1>6, <1>7, <2>1 DEF Nested, TypeOK
<1>9. OnTheWay'
  BY <1>3, <1>6, <1>7 DEF OnTheWay
<1> QED BY <1>4, <1>6, <1>7, <1>8, <1>9 DEF Nested

\* No step leaves the invariant.
LEMMA NextIInv == IInv /\ [Next]_vars => IInv'
<1> SUFFICES ASSUME IInv, [Next]_vars PROVE IInv'
  OBVIOUS
<1>1. /\ loose \in BOOLEAN /\ loose' \in BOOLEAN
      /\ recursed \in BOOLEAN /\ recursed' \in BOOLEAN
  BY DEF IInv, Next, vars, program, history, CallInstruction, Call, CallNtCallbackReturn, EnterNtCallbackReturn,
     CallSystem, KernelReturn, KernelCallback, Return, JumpOut, PushRet
<1>2. ASSUME ~loose', ~recursed' PROVE Nested'
  <2>1. ~loose /\ ~recursed /\ Nested
    BY <1>2, WasNested
  <2>2. CASE Call \/ CallNtCallbackReturn \/ CallSystem
    BY <1>1, <1>2, <2>1, <2>2, CallStep
  <2>3. CASE EnterNtCallbackReturn
    BY <2>1, <2>3, EnterNtCallbackReturnStep
  <2>4. CASE KernelReturn
    BY <2>1, <2>4, KernelReturnStep
  <2>5. CASE KernelCallback
    BY <2>1, <2>5, KernelCallbackStep
  <2>6. CASE Return
    BY <1>1, <1>2, <2>1, <2>6, ReturnStep
  <2>7. CASE JumpOut \/ PushRet
    BY <1>2, <2>7 DEF JumpOut, PushRet
  <2>8. CASE UNCHANGED vars
    BY <2>1, <2>8 DEF vars, shadow, program, history, Nested, TypeOK, Deepening, Marked,
       OnTheWay, Bottom
  <2> QED BY <2>2, <2>3, <2>4, <2>5, <2>6, <2>7, <2>8 DEF Next
<1> QED BY <1>1, <1>2 DEF IInv

-----------------------------------------------------------------------------
\* The inductive invariant holds (ShadowStack.h:56-129).
THEOREM Invariance == Spec => []IInv
<1>1. Init => IInv
  <2> SUFFICES ASSUME Init PROVE IInv
    OBVIOUS
  <2>1. real = <<>> /\ marks = <<>> /\ Len(real) = 0 /\ Len(marks) = 0
    BY DEF Init
  <2>2. TypeOK
    <3>1. /\ present = FALSE /\ m_frames = <<>> /\ m_bNtCallbackReturn = FALSE
          /\ alarmed = FALSE /\ status = "running" /\ phase = "user"
          /\ loose = FALSE /\ recursed = FALSE /\ deceived = FALSE
      BY DEF Init
    <3>2. <<>> \in Seq(Frames) /\ <<>> \in Seq(Nat)
      BY EmptySeq
    <3> QED BY <2>1, <3>1, <3>2 DEF TypeOK
  <2>3. Deepening /\ Marked
    BY <2>1 DEF Deepening, Marked
  <2>4. OnTheWay
    BY DEF Init, OnTheWay
  <2> QED BY <2>2, <2>3, <2>4 DEF Init, IInv, Nested
<1>2. IInv /\ [Next]_vars => IInv'
  BY NextIInv
<1> QED BY <1>1, <1>2, PTL DEF Spec

\* Calls that are nested, in the strict sense, make the shadow the stack.
LEMMA NestedStanding == Nested => Standing = real
<1> SUFFICES ASSUME Nested PROVE Standing = real
  OBVIOUS
<1>1. CASE phase = "return"
  <2>1. Len(m_frames) = Len(real) + 3 /\ SubSeq(m_frames, 1, Len(real)) = real
        /\ m_bNtCallbackReturn
    BY <1>1 DEF Nested, OnTheWay
  <2>2. Len(m_frames) - 3 = Len(real)
    BY <2>1, Depths
  <2> QED BY <1>1, <2>1, <2>2 DEF Standing
<1>2. CASE phase # "return"
  BY <1>2 DEF Nested, TypeOK, OnTheWay, Standing
<1> QED BY <1>1, <1>2

-----------------------------------------------------------------------------
(***************************************************************************)
(* Calls that are not nested: the frames of the stack are in the shadow,   *)
(* among others that the program has left.                                 *)
(***************************************************************************)

\* Where the frames of s are in t.
At(at, s, t) ==
  /\ at \in [1..Len(s) -> 1..Len(t)]
  /\ \A k \in 1..Len(s) : t[at[k]] = s[k]
  /\ \A j, k \in 1..Len(s) : j < k => at[j] < at[k]

\* The shadow on the way out of a callback has what Peek is to pop.
LiveWay ==
  CASE phase = "user"     -> ~m_bNtCallbackReturn /\ Embedded(real, m_frames)
    [] phase = "called"   -> /\ ~m_bNtCallbackReturn /\ Embedded(real, m_frames)
                             /\ marks # <<>> /\ Len(real) >= Bottom + 2
    [] phase = "notified" -> /\ m_bNtCallbackReturn /\ Embedded(real, m_frames)
                             /\ marks # <<>> /\ Len(real) >= Bottom + 2
    [] phase = "system"   -> /\ m_bNtCallbackReturn /\ Embedded(real, m_frames)
                             /\ marks # <<>> /\ Len(real) >= Bottom + 3
    [] phase = "return"   -> /\ m_bNtCallbackReturn /\ Len(m_frames) >= 3
                             /\ Embedded(real, SubSeq(m_frames, 1, Len(m_frames) - 3))

Live == TypeOK /\ Marked /\ status = "running" /\ LiveWay

LiveInv ==
  /\ alarmed \in BOOLEAN /\ deceived \in BOOLEAN /\ loose \in BOOLEAN
  /\ alarmed \/ deceived => loose
  /\ ~alarmed /\ ~deceived => Live

LEMMA EmbeddedAt == \A s, t : Embedded(s, t) <=> \E at : At(at, s, t)
BY DEF Embedded, At

\* The first frames of what is embedded, in the first frames of where it is.
LEMMA EmbedFirst ==
  ASSUME NEW s \in Seq(Frames), NEW t \in Seq(Frames), NEW at, At(at, s, t),
         NEW n \in 0..Len(s), NEW m \in 0..Len(t),
         n > 0 => at[n] <= m
  PROVE  Embedded(SubSeq(s, 1, n), SubSeq(t, 1, m))
<1>1. /\ Len(s) \in Nat /\ Len(t) \in Nat /\ n \in Nat /\ m \in Nat
  BY LenProperties
<1> DEFINE x == SubSeq(s, 1, n)
           y == SubSeq(t, 1, m)
           b == [k \in 1..n |-> at[k]]
<1>2. /\ Len(x) = n /\ \A k \in 1..n : x[k] = s[k]
  BY FirstOf
<1>3. /\ Len(y) = m /\ \A k \in 1..m : y[k] = t[k]
  BY FirstOf
<1> HIDE DEF x, y
<1>4. \A k \in 1..n : k \in 1..Len(s)
  BY <1>1
<1>5. /\ at \in [1..Len(s) -> 1..Len(t)]
      /\ \A k \in 1..Len(s) : t[at[k]] = s[k]
      /\ \A j, k \in 1..Len(s) : j < k => at[j] < at[k]
  BY DEF At
<1>6. ASSUME NEW k \in 1..n PROVE at[k] \in 1..m
  <2>1. n \in 1..Len(s) /\ n > 0
    BY <1>1
  <2>0. at[n] \in 1..Len(t) /\ at[k] \in 1..Len(t)
    BY ONLY <1>4, <1>5, <2>1, k \in 1..n
  <2>2. CASE k = n
    BY <1>1, <2>0, <2>1, <2>2
  <2>3. CASE k # n
    <3>1. k < n
      BY <1>1, <2>3
    <3>2. at[k] < at[n]
      BY <1>4, <1>5, <2>1, <3>1
    <3> QED BY <1>1, <2>0, <2>1, <3>2
  <2> QED BY <2>2, <2>3
<1>7. b \in [1..n -> 1..m]
  BY <1>6
<1>8. \A k \in 1..n : y[b[k]] = x[k]
  BY <1>2, <1>3, <1>4, <1>5, <1>6
<1>9. \A j, k \in 1..n : j < k => b[j] < b[k]
  BY <1>4, <1>5
<1>10. At(b, x, y)
  BY <1>2, <1>3, <1>7, <1>8, <1>9 DEF At
<1> QED BY <1>10, EmbeddedAt DEF x, y

\* A frame on both.
LEMMA EmbedAppend ==
  ASSUME NEW s \in Seq(Frames), NEW t \in Seq(Frames), Embedded(s, t), NEW e \in Frames
  PROVE  Embedded(Append(s, e), Append(t, e))
<1>1. PICK at : At(at, s, t)
  BY EmbeddedAt
<1> DEFINE x == Append(s, e)
           y == Append(t, e)
           n == Len(s)
           m == Len(t)
           b == [k \in 1..(n + 1) |-> IF k = n + 1 THEN m + 1 ELSE at[k]]
<1>2. /\ n \in Nat /\ m \in Nat
  BY LenProperties
<1>3. /\ Len(x) = n + 1 /\ x[n + 1] = e /\ \A k \in 1..n : x[k] = s[k]
  BY AppendProperties
<1>4. /\ Len(y) = m + 1 /\ y[m + 1] = e /\ \A k \in 1..m : y[k] = t[k]
  BY AppendProperties
<1>5. /\ at \in [1..n -> 1..m]
      /\ \A k \in 1..n : t[at[k]] = s[k]
      /\ \A j, k \in 1..n : j < k => at[j] < at[k]
  BY <1>1 DEF At
<1> HIDE DEF x, y, n, m
<1>6. \A k \in 1..(n + 1) : k = n + 1 \/ (k \in 1..n /\ k # n + 1)
  BY <1>2
<1>7. /\ b[n + 1] = m + 1 /\ \A k \in 1..n : b[k] = at[k] /\ at[k] \in 1..m
  <2>1. n + 1 \in 1..(n + 1) /\ \A k \in 1..n : k \in 1..(n + 1) /\ k # n + 1
    BY <1>2
  <2> QED BY <1>5, <2>1
<1>8. b \in [1..(n + 1) -> 1..(m + 1)]
  <2>1. m + 1 \in 1..(m + 1) /\ \A i \in 1..m : i \in 1..(m + 1)
    BY <1>2
  <2>2. \A k \in 1..(n + 1) : b[k] \in 1..(m + 1)
    BY ONLY <1>6, <1>7, <2>1
  <2> QED BY <2>2
<1> HIDE DEF b
<1>9. \A k \in 1..(n + 1) : y[b[k]] = x[k]
  BY <1>3, <1>4, <1>5, <1>6, <1>7
<1>10. ASSUME NEW j \in 1..(n + 1), NEW k \in 1..(n + 1), j < k PROVE b[j] < b[k]
  <2>1. j \in 1..n
    BY <1>2, <1>10
  <2>2. CASE k = n + 1
    BY <1>2, <1>7, <2>1, <2>2
  <2>3. CASE k # n + 1
    <3>1. k \in 1..n
      BY <1>6, <2>3
    <3> QED BY <1>5, <1>7, <1>10, <2>1, <3>1
  <2> QED BY <2>2, <2>3
<1>11. At(b, x, y)
  BY <1>3, <1>4, <1>8, <1>9, <1>10 DEF At
<1> QED BY <1>11, EmbeddedAt DEF x, y

\* A nonempty set of natural numbers has a least element: of the intervals
\* 0..t one contains no other.
LEMMA LeastElement ==
  ASSUME NEW T \in SUBSET Nat, T # {}
  PROVE  \E x \in T : \A y \in T : x <= y
<1> DEFINE Intervals == {0..t : t \in T}
           Order == StrictSubsetOrdering(Nat)
<1>1. Intervals \subseteq FiniteSubsetsOf(Nat)
  <2>1. \A t \in T : 0..t \subseteq Nat /\ IsFiniteSet(0..t)
    BY FS_Interval
  <2> QED BY <2>1 DEF FiniteSubsetsOf
<1>2. Intervals # {}
  OBVIOUS
<1>3. PICK least \in Intervals : \A other \in Intervals : <<other, least>> \notin Order
  <2> HIDE DEF Intervals, Order
  <2>1. IsWellFoundedOn(Order, FiniteSubsetsOf(Nat))
    BY FS_StrictSubsetOrderingWellFounded DEF Order
  <2> QED BY <1>1, <1>2, <2>1, WFMin
<1>4. PICK x \in T : least = 0..x
  OBVIOUS
<1>5. \A y \in T : y < x => <<0..y, 0..x>> \in Order
  BY DEF StrictSubsetOrdering
<1>6. \A y \in T : ~(y < x)
  BY <1>3, <1>4, <1>5
<1> QED BY <1>6

\* The largest element of a set of indices.
LEMMA LargestIs ==
  ASSUME NEW n \in Nat, NEW F \in SUBSET (1..n), F # {}
  PROVE  Max(F) \in F /\ \A j \in F : j <= Max(F)
<1> DEFINE T == {n - j : j \in F}
<1>1. T \in SUBSET Nat /\ T # {}
  <2>1. \A j \in F : n - j \in Nat
    BY n \in Nat, F \in SUBSET (1..n)
  <2> QED BY <2>1
<1>2. PICK x \in T : \A y \in T : x <= y
  BY <1>1, LeastElement
<1>3. PICK i \in F : x = n - i
  OBVIOUS
<1>4. \A j \in F : n - i <= n - j
  BY <1>2, <1>3
<1>5. \A j \in F : i >= j
  BY <1>4
<1> HIDE DEF T
<1>6. Max(F) \in F /\ \A j \in F : Max(F) >= j
  BY <1>5 DEF Max
<1> QED BY <1>6

\* Peek pops what stands above a frame that is returned from, or stops at it, and
\* reports nothing: the frame fits itself (ShadowStack.cpp:137-176).
LEMMA DetachLive ==
  ASSUME NEW s \in Seq(Frames), NEW r \in Seq(Frames), Embedded(s, r),
         NEW k \in 1..Len(s), Detach(r, s[k].ret, s[k].sp)
  PROVE  /\ Embedded(SubSeq(s, 1, k - 1), m_frames') /\ m_frames' \in Seq(Frames)
         /\ alarmed' = alarmed
<1>1. PICK at : At(at, s, r)
  BY EmbeddedAt
<1>2. /\ Len(s) \in Nat /\ Len(r) \in Nat /\ k \in Nat /\ k >= 1 /\ k <= Len(s)
  BY LenProperties
<1>3. /\ at[k] \in 1..Len(r) /\ r[at[k]] = s[k]
      /\ \A j \in 1..Len(s) : j < k => at[j] \in 1..Len(r) /\ at[j] < at[k]
  BY <1>1 DEF At
<1>4. at[k] \in Fitting(r, s[k].ret, s[k].sp)
  BY <1>3 DEF Fitting
<1>5. ASSUME NEW m \in 0..Len(r), at[k] <= m + 1
      PROVE  Embedded(SubSeq(s, 1, k - 1), SubSeq(r, 1, m)) /\ SubSeq(r, 1, m) \in Seq(Frames)
  <2>1. k - 1 \in 0..Len(s)
    BY <1>2
  <2>2. k - 1 > 0 => at[k - 1] <= m
    <3>1. SUFFICES ASSUME k - 1 > 0 PROVE at[k - 1] <= m
      OBVIOUS
    <3>2. k - 1 \in 1..Len(s) /\ k - 1 < k
      BY <1>2, <3>1
    <3>3. at[k - 1] \in 1..Len(r) /\ at[k - 1] < at[k]
      BY <1>3, <3>2
    <3> QED BY <1>2, <1>3, <1>5, <3>3
  <2>3. SubSeq(r, 1, m) \in Seq(Frames)
    BY FirstOf
  <2> QED BY <1>1, <2>1, <2>2, <2>3, EmbedFirst
<1>6. CASE Last(r).ret = s[k].ret
  <2>1. m_frames' = SubSeq(r, 1, Len(r) - 1) /\ alarmed' = alarmed
    BY <1>4, <1>6 DEF Detach, Front
  <2>2. Len(r) - 1 \in 0..Len(r) /\ at[k] <= Len(r) - 1 + 1
    BY <1>2, <1>3
  <2> QED BY <1>5, <2>1, <2>2
<1>7. CASE Last(r).ret # s[k].ret
  <2> DEFINE F == Fitting(r, s[k].ret, s[k].sp)
  <2>1. m_frames' = SubSeq(r, 1, Max(F) - 1) /\ alarmed' = alarmed
    BY <1>4, <1>7 DEF Detach, ReturnToUpperFrame
  <2>2. F \subseteq 1..Len(r) /\ at[k] \in F
    BY <1>4 DEF Fitting
  <2> HIDE DEF F
  <2>3. Max(F) \in F /\ \A j \in F : j <= Max(F)
    BY <1>2, <2>2, LargestIs
  <2>4. Max(F) - 1 \in 0..Len(r) /\ at[k] <= Max(F) - 1 + 1
    <3>1. Max(F) \in 1..Len(r) /\ at[k] <= Max(F)
      BY <2>2, <2>3
    <3> QED BY <1>2, <1>3, <3>1
  <2> QED BY <1>5, <2>1, <2>4
<1> QED BY <1>6, <1>7

-----------------------------------------------------------------------------
\* The same of calls that need not be nested.
LEMMA LiveTypes ==
  ASSUME Live
  PROVE  /\ real \in Seq(Frames) /\ m_frames \in Seq(Frames) /\ marks \in Seq(Nat)
         /\ Len(real) \in Nat /\ Len(m_frames) \in Nat /\ Len(marks) \in Nat
         /\ Bottom \in 0..Len(real)
BY StackDepths DEF Live

\* A frame of the stack is in the shadow, which is then not empty.
LEMMA ShadowNotEmpty ==
  ASSUME NEW s \in Seq(Frames), NEW t \in Seq(Frames), Embedded(s, t), Len(s) > 0
  PROVE  t # <<>> /\ Len(t) > 0
<1>1. PICK at : At(at, s, t)
  BY EmbeddedAt
<1>2. 1 \in 1..Len(s) /\ Len(t) \in Nat
  BY LenProperties
<1>3. at[1] \in 1..Len(t)
  BY <1>1, <1>2 DEF At
<1>4. Len(t) > 0
  BY <1>2, <1>3
<1> QED BY <1>4, EmptySeq

\* Calls.
LEMMA CallLive ==
  ASSUME Live, Call \/ CallNtCallbackReturn \/ CallSystem
  PROVE  Live'
<1>1. PICK next \in {"user", "called", "system"} :
        /\ CallInstruction(next)
        /\ next = "user" => phase = "user"
        /\ next = "called" => phase = "user" /\ marks # <<>> /\ Len(real) > Bottom
        /\ next = "system" => phase = "notified"
  BY DEF Call, CallNtCallbackReturn, CallSystem
<1>2. PICK frame \in Frames : filterCall(frame) /\ real' = Append(real, frame)
  BY <1>1 DEF CallInstruction
<1>3. Embedded(real, m_frames) /\ m_frames \in Seq(Frames) /\ real \in Seq(Frames)
      /\ Len(real) \in Nat /\ Bottom \in Nat
  <2>1. Embedded(real, m_frames)
    BY <1>1 DEF Live, LiveWay
  <2> QED BY <2>1, LiveTypes
<1>4. /\ m_frames' = Append(m_frames, frame) /\ present' = TRUE
      /\ UNCHANGED <<m_bNtCallbackReturn, alarmed, status, marks>> /\ phase' = next
      /\ UNCHANGED <<recursed, deceived>>
  BY <1>1, <1>2 DEF filterCall, CallInstruction
<1>5. real' \in Seq(Frames) /\ m_frames' \in Seq(Frames) /\ Len(real') = Len(real) + 1
  BY <1>2, <1>3, <1>4, AppendProperties
<1>6. Embedded(real', m_frames')
  BY <1>2, <1>3, <1>4, EmbedAppend
<1>7. loose' \in BOOLEAN
  BY DEF Live, TypeOK, Call, CallNtCallbackReturn, CallSystem
<1>8. TypeOK'
  BY <1>4, <1>5, <1>7 DEF Live, TypeOK
<1>9. Marked'
  BY <1>4, <1>5, MarkedGrown DEF Live
<1>10. LiveWay'
  <2>1. Bottom' = Bottom
    BY <1>4 DEF Bottom
  <2>2. CASE phase = "user"
    <3>1. ~m_bNtCallbackReturn
      BY <2>2 DEF Live, LiveWay
    <3>2. Len(real) > Bottom => Len(real') >= Bottom' + 2
      BY <1>3, <1>5, <2>1
    <3> QED BY <1>1, <1>4, <1>6, <2>2, <3>1, <3>2 DEF LiveWay
  <2>3. CASE phase = "notified"
    <3>1. m_bNtCallbackReturn /\ marks # <<>> /\ Len(real) >= Bottom + 2
      BY <2>3 DEF Live, LiveWay
    <3>2. Len(real') >= Bottom' + 3
      BY <1>3, <1>5, <2>1, <3>1
    <3> QED BY <1>1, <1>4, <1>6, <2>3, <3>1, <3>2 DEF LiveWay
  <2> QED BY <1>1, <2>2, <2>3
<1> QED BY <1>4, <1>8, <1>9, <1>10 DEF Live

\* The hook of NtCallbackReturn.
LEMMA EnterLive ==
  ASSUME Live, EnterNtCallbackReturn
  PROVE  Live'
<1>1. phase = "called" /\ phase' = "notified" /\ UNCHANGED <<loose, recursed, deceived>>
      /\ UNCHANGED <<real, marks, present, m_frames, alarmed, status>>
      /\ m_bNtCallbackReturn' = (m_bNtCallbackReturn \/ present)
  BY DEF EnterNtCallbackReturn, notifyNtCallbackReturn, history
<1>2. Embedded(real, m_frames) /\ Len(real) >= Bottom + 2 /\ marks # <<>>
  BY <1>1 DEF Live, LiveWay
<1>3. present = TRUE
  <2>1. Len(real) > 0
    BY <1>2, LiveTypes
  <2>2. m_frames # <<>>
    BY <1>2, <2>1, LiveTypes, ShadowNotEmpty
  <2> QED BY <2>2 DEF Live, TypeOK
<1>4. m_bNtCallbackReturn' = TRUE
  BY <1>1, <1>3
<1>5. TypeOK' /\ Marked'
  BY <1>1, <1>4 DEF Live, TypeOK, Marked
<1>6. LiveWay'
  BY <1>1, <1>2, <1>4 DEF LiveWay, Bottom
<1> QED BY <1>1, <1>5, <1>6 DEF Live

\* The kernel takes the frames of the callback away: the last three calls at least,
\* which are those that Peek will pop.
LEMMA KernelReturnLive ==
  ASSUME Live, KernelReturn
  PROVE  Live'
<1>1. /\ phase = "system" /\ phase' = "return"
      /\ real' = SubSeq(real, 1, Bottom) /\ marks' = Front(marks)
      /\ UNCHANGED <<present, m_frames, m_bNtCallbackReturn, alarmed, status>>
      /\ UNCHANGED <<loose, recursed, deceived>>
  BY DEF KernelReturn, shadow, history
<1>2. m_bNtCallbackReturn /\ Embedded(real, m_frames) /\ marks # <<>> /\ Len(real) >= Bottom + 3
  BY <1>1 DEF Live, LiveWay
<1>3. Bottom \in Bottom..Len(real) /\ Bottom \in 0..Len(real) /\ Bottom \in Nat
  BY LiveTypes
<1>4. real' \in Seq(Frames) /\ Len(real') = Bottom /\ marks' \in Seq(Nat) /\ Marked'
  BY <1>2, MarkedReturn DEF Live
<1>5. TypeOK'
  BY <1>1, <1>4 DEF Live, TypeOK
<1>6. /\ Len(m_frames) >= 3
      /\ Embedded(SubSeq(real, 1, Bottom), SubSeq(m_frames, 1, Len(m_frames) - 3))
  <2>1. PICK at : At(at, real, m_frames)
    BY <1>2, EmbeddedAt
  <2> PICK b : b = Bottom
    OBVIOUS
  <2>2. /\ b \in Nat /\ Len(real) \in Nat /\ Len(real) >= b + 3 /\ Len(m_frames) \in Nat
    BY <1>2, <1>3, LiveTypes
  <2>3. /\ b + 1 \in 1..Len(real) /\ b + 2 \in 1..Len(real) /\ b + 3 \in 1..Len(real)
        /\ b + 1 < b + 2 /\ b + 2 < b + 3
        /\ b > 0 => b \in 1..Len(real) /\ b < b + 1
    BY ONLY <2>2
  <2>4. /\ at[b + 1] \in 1..Len(m_frames) /\ at[b + 2] \in 1..Len(m_frames)
        /\ at[b + 3] \in 1..Len(m_frames)
        /\ at[b + 1] < at[b + 2] /\ at[b + 2] < at[b + 3]
        /\ b > 0 => at[b] \in 1..Len(m_frames) /\ at[b] < at[b + 1]
    BY <2>1, <2>3 DEF At
  <2>5. /\ Len(m_frames) - 3 \in 0..Len(m_frames)
        /\ b > 0 => at[b] <= Len(m_frames) - 3
    <3> DEFINE len == Len(m_frames)
               x(d) == at[b + d]
    <3>1. x(1) \in 1..len /\ x(2) \in 1..len /\ x(3) \in 1..len /\ x(1) < x(2) /\ x(2) < x(3)
      BY <2>4
    <3>2. b > 0 => at[b] \in 1..len /\ at[b] < x(1)
      BY <2>4
    <3>3. len \in Nat
      BY <2>2
    <3> HIDE DEF len, x
    <3>4. len - 3 \in 0..len
      BY ONLY <3>1, <3>3
    <3>5. b > 0 => at[b] <= len - 3
      BY ONLY <3>1, <3>2, <3>3
    <3> QED BY ONLY <3>4, <3>5 DEF len
  <2>6. b \in 0..Len(real)
    BY <1>3
  <2>7. Embedded(SubSeq(real, 1, b), SubSeq(m_frames, 1, Len(m_frames) - 3))
    BY <2>1, <2>5, <2>6, LiveTypes, EmbedFirst
  <2> QED BY <2>2, <2>5, <2>7
<1>7. LiveWay'
  BY <1>1, <1>2, <1>6 DEF LiveWay
<1> QED BY <1>1, <1>4, <1>5, <1>7 DEF Live

\* The kernel calls back.
LEMMA KernelCallbackLive ==
  ASSUME Live, KernelCallback
  PROVE  Live'
<1>1. /\ phase = "user" /\ marks' = Append(marks, Len(real))
      /\ UNCHANGED <<present, m_frames, m_bNtCallbackReturn, alarmed, status>>
      /\ UNCHANGED <<real, phase, loose, recursed, deceived>>
  BY DEF KernelCallback, shadow, history
<1>2. marks' \in Seq(Nat) /\ Marked'
  BY MarkedCallback DEF Live
<1>3. TypeOK'
  BY <1>1, <1>2 DEF Live, TypeOK
<1>4. LiveWay'
  BY <1>1 DEF Live, LiveWay
<1> QED BY <1>1, <1>2, <1>3, <1>4 DEF Live

\* A return, from the last frame, over several, or behind a callback: what Peek is
\* given has the stack in it (ShadowStack.cpp:85-180).
LEMMA ReturnLive ==
  ASSUME Live, Return
  PROVE  Live' /\ alarmed' = alarmed
<1>1. PICK k \in (Bottom + 1)..Len(real) :
        /\ filterReturn(real[k].ret, real[k].sp)
        /\ real' = SubSeq(real, 1, k - 1)
        /\ recursed' = (recursed \/ (k < Len(real) /\ real[k].ret = Last(real).ret))
  BY DEF Return
<1>2. k \in 1..Len(real) /\ k - 1 \in Bottom..Len(real) /\ Len(real) > 0
  BY LiveTypes
<1>3. /\ phase \in {"user", "return"} /\ phase' = "user" /\ marks' = marks
      /\ loose' = loose /\ deceived' = deceived
  BY DEF Return
<1>4. real' \in Seq(Frames) /\ Marked'
  BY <1>1, <1>2, <1>3, MarkedCut DEF Live
<1>5. PICK r \in Seq(Frames) :
        /\ Embedded(real, r) /\ Detach(r, real[k].ret, real[k].sp)
        /\ m_bNtCallbackReturn' = FALSE /\ UNCHANGED <<present, status>> /\ present = TRUE
  <2>1. CASE phase = "user"
    <3>1. ~m_bNtCallbackReturn /\ Embedded(real, m_frames)
      BY <2>1 DEF Live, LiveWay
    <3>2. m_frames # <<>>
      BY <1>2, <3>1, LiveTypes, ShadowNotEmpty
    <3>3. present = TRUE /\ m_bNtCallbackReturn = FALSE
      BY <3>1, <3>2 DEF Live, TypeOK
    <3>4. /\ Detach(m_frames, real[k].ret, real[k].sp)
          /\ UNCHANGED <<present, m_bNtCallbackReturn, status>>
      BY <1>1, <3>2, <3>3 DEF filterReturn
    <3> QED BY <3>1, <3>3, <3>4, LiveTypes
  <2>2. CASE phase = "return"
    <3> DEFINE r == SubSeq(m_frames, 1, Len(m_frames) - 3)
    <3>1. m_bNtCallbackReturn /\ Len(m_frames) >= 3 /\ Embedded(real, r)
      BY <2>2 DEF Live, LiveWay
    <3>2. r \in Seq(Frames) /\ Len(r) = Len(m_frames) - 3
      <4>1. Len(m_frames) - 3 \in 0..Len(m_frames)
        BY <3>1, LiveTypes
      <4> QED BY <4>1, LiveTypes, FirstOf
    <3> HIDE DEF r
    <3>3. Len(r) > 0
      BY <1>2, <3>1, <3>2, LiveTypes, ShadowNotEmpty
    <3>4. Len(m_frames) > 3 /\ m_frames # <<>>
      BY <3>2, <3>3, LiveTypes, EmptySeq
    <3>5. present = TRUE
      BY <3>4 DEF Live, TypeOK
    <3>6. PeekAfterCallback(real[k].ret, real[k].sp)
      BY <1>1, <3>1, <3>4, <3>5 DEF filterReturn
    <3>7. /\ Detach(r, real[k].ret, real[k].sp)
          /\ m_bNtCallbackReturn' = FALSE /\ UNCHANGED <<present, status>>
      <4>0. Len(m_frames) \in Nat
        BY LiveTypes
      <4>1. \A n \in Nat : n > 3 => ~(n < 3) /\ n # 3
        OBVIOUS
      <4>2. ~(Len(m_frames) < 3) /\ Len(m_frames) # 3
        BY ONLY <3>4, <4>0, <4>1, Zenon
      <4> QED BY <3>6, <4>2 DEF PeekAfterCallback, r
    <3> QED BY <3>1, <3>2, <3>5, <3>7
  <2> QED BY <1>3, <2>1, <2>2
<1>6. Embedded(real', m_frames') /\ m_frames' \in Seq(Frames) /\ alarmed' = alarmed
  BY <1>1, <1>2, <1>5, LiveTypes, DetachLive
<1>7. TypeOK'
  <2>1. recursed' \in BOOLEAN
    BY <1>1
  <2> QED BY <1>3, <1>4, <1>5, <1>6, <2>1 DEF Live, TypeOK
<1>8. LiveWay'
  BY <1>3, <1>5, <1>6 DEF LiveWay
<1> QED BY <1>4, <1>5, <1>6, <1>7, <1>8 DEF Live

\* Frames that are left by a jump stay in the shadow.
LEMMA JumpOutLive ==
  ASSUME Live, JumpOut
  PROVE  Live' /\ alarmed' = alarmed
<1>1. PICK k \in Bottom..(Len(real) - 1) : real' = SubSeq(real, 1, k)
  BY DEF JumpOut
<1>2. /\ phase = "user" /\ loose' = TRUE
      /\ UNCHANGED <<present, m_frames, m_bNtCallbackReturn, alarmed, status, marks, phase>>
      /\ UNCHANGED <<recursed, deceived>>
  BY DEF JumpOut, shadow
<1>3. k \in Bottom..Len(real) /\ k \in 0..Len(real)
  BY LiveTypes
<1>4. real' \in Seq(Frames) /\ k \in 0..Len(real) /\ Marked'
  BY <1>1, <1>2, <1>3, MarkedCut DEF Live
<1>5. ~m_bNtCallbackReturn /\ Embedded(real, m_frames)
  BY <1>2 DEF Live, LiveWay
<1>6. Embedded(real', m_frames)
  <2>1. PICK at : At(at, real, m_frames)
    BY <1>5, EmbeddedAt
  <2>2. k > 0 => at[k] <= Len(m_frames)
    <3>1. k > 0 => at[k] \in 1..Len(m_frames)
      BY <1>3, <2>1 DEF At
    <3> QED BY <3>1, LiveTypes
  <2>3. Len(m_frames) \in 0..Len(m_frames)
    BY LiveTypes
  <2>4. Embedded(SubSeq(real, 1, k), SubSeq(m_frames, 1, Len(m_frames)))
    BY <1>4, <2>1, <2>2, <2>3, LiveTypes, EmbedFirst
  <2> QED BY <1>1, <2>4, LiveTypes, AllOf
<1>7. TypeOK'
  BY <1>2, <1>4 DEF Live, TypeOK
<1>8. LiveWay'
  BY <1>2, <1>5, <1>6 DEF LiveWay
<1> QED BY <1>2, <1>4, <1>7, <1>8 DEF Live

\* A ret used as a jump that does not go where a frame returns: Peek reports it, or
\* pops a frame that the program has left, or has no shadow to compare it with.
LEMMA PushRetLive ==
  ASSUME Live, PushRet, ~alarmed', ~deceived'
  PROVE  Live'
<1>1. PICK target, sp :
        filterReturn(target, sp) /\ deceived' = (deceived \/ Returning(target, sp))
  BY DEF PushRet
<1>2. /\ phase = "user" /\ loose' = TRUE
      /\ UNCHANGED <<real, marks, phase, recursed>>
  BY DEF PushRet
<1>3. ~m_bNtCallbackReturn /\ Embedded(real, m_frames)
  BY <1>2 DEF Live, LiveWay
<1>4. ~Returning(target, sp) /\ deceived' \in BOOLEAN
  BY <1>1
<1>5. CASE m_frames = <<>> \/ ~present
  <2>1. UNCHANGED <<present, m_frames, m_bNtCallbackReturn, alarmed, status>>
    <3>1. m_frames = <<>>
      BY <1>5 DEF Live, TypeOK
    <3>2. UNCHANGED shadow
      BY <1>1, <3>1 DEF filterReturn
    <3> QED BY <3>2 DEF shadow
  <2>2. TypeOK' /\ Marked'
    BY <1>2, <1>4, <2>1 DEF Live, TypeOK, Marked
  <2>3. LiveWay'
    BY <1>2, <2>1 DEF Live, LiveWay
  <2> QED BY <2>1, <2>2, <2>3 DEF Live
<1>6. CASE m_frames # <<>> /\ present
  <2>1. /\ Detach(m_frames, target, sp)
        /\ UNCHANGED <<present, m_bNtCallbackReturn, status>>
    BY <1>1, <1>3, <1>6 DEF filterReturn
  <2>2. /\ Last(m_frames).ret = target /\ m_frames' = Front(m_frames)
        /\ alarmed' = alarmed
    BY <1>4, <2>1 DEF Returning, Detach
  <2> DEFINE n == Len(real)
             m == Len(m_frames) - 1
  <2>3. /\ n \in 0..Len(real) /\ m \in 0..Len(m_frames) /\ Len(m_frames) > 0
        /\ Len(m_frames) \in Nat /\ Len(real) \in Nat
    <3>1. Len(m_frames) > 0
      BY <1>6, LiveTypes, EmptySeq
    <3> QED BY <3>1, LiveTypes
  <2>4. PICK at : At(at, real, m_frames)
    BY <1>3, EmbeddedAt
  <2>5. n > 0 => at[n] <= m
    <3> SUFFICES ASSUME n > 0 PROVE at[n] <= m
      OBVIOUS
    <3>1. n \in 1..Len(real) /\ real # <<>>
      BY <2>3, EmptySeq
    <3>2. at[n] \in 1..Len(m_frames) /\ m_frames[at[n]] = real[n]
      BY <2>4, <3>1 DEF At
    <3>3. Last(real).ret # target /\ Last(real) = real[n]
      BY <1>4, <3>1 DEF Returning, Last
    <3>4. Last(m_frames) = m_frames[Len(m_frames)]
      BY DEF Last
    <3>5. at[n] # Len(m_frames)
      BY <2>2, <3>2, <3>3, <3>4
    <3> QED BY ONLY <2>3, <3>2, <3>5
  <2>6. /\ SubSeq(m_frames, 1, m) \in Seq(Frames)
        /\ Embedded(SubSeq(real, 1, n), SubSeq(m_frames, 1, m))
    BY <2>3, <2>4, <2>5, LiveTypes, EmbedFirst, FirstOf
  <2>7. m_frames' \in Seq(Frames) /\ Embedded(real', m_frames')
    BY <1>2, <2>2, <2>6, LiveTypes, AllOf DEF Front
  <2>8. TypeOK' /\ Marked'
    BY <1>2, <1>4, <1>6, <2>1, <2>2, <2>7 DEF Live, TypeOK, Marked
  <2>9. LiveWay'
    BY <1>2, <1>3, <2>1, <2>7 DEF LiveWay
  <2> QED BY <2>1, <2>8, <2>9 DEF Live
<1> QED BY <1>5, <1>6

\* A report stays one, and what has been counted as loose or deceiving stays so.
LEMMA HistoryStays ==
  ASSUME LiveInv, [Next]_vars
  PROVE  /\ alarmed' \in BOOLEAN /\ deceived' \in BOOLEAN /\ loose' \in BOOLEAN
         /\ alarmed => alarmed'
         /\ deceived => deceived'
         /\ loose => loose'
<1>1. alarmed \in BOOLEAN /\ deceived \in BOOLEAN /\ loose \in BOOLEAN
  BY DEF LiveInv
<1>2. alarmed' = alarmed \/ alarmed' = TRUE
  BY DEF Next, vars, shadow, Call, CallNtCallbackReturn, EnterNtCallbackReturn,
     CallSystem, CallInstruction, filterCall, notifyNtCallbackReturn, KernelReturn,
     KernelCallback, Return, JumpOut, PushRet, filterReturn, PeekAfterCallback, Detach
<1>3. deceived' = deceived \/ \E target, sp : deceived' = (deceived \/ Returning(target, sp))
  BY DEF Next, vars, program, history, Call, CallNtCallbackReturn, EnterNtCallbackReturn,
     CallSystem, CallInstruction, KernelReturn, KernelCallback, Return, JumpOut, PushRet
<1>4. loose' = loose \/ loose' = TRUE \/ loose' = (loose \/ Len(real) # Bottom + 1)
  BY DEF Next, vars, program, history, Call, CallNtCallbackReturn, EnterNtCallbackReturn,
     CallSystem, CallInstruction, KernelReturn, KernelCallback, Return, JumpOut, PushRet
<1> QED BY <1>1, <1>2, <1>3, <1>4

\* No step leaves the invariant, and a step that reports leaves the stack alone.
LEMMA NextLive ==
  ASSUME LiveInv, [Next]_vars
  PROVE  LiveInv' /\ (~deceived /\ ~alarmed /\ alarmed' => real' = real)
<1>1. /\ alarmed' \in BOOLEAN /\ deceived' \in BOOLEAN /\ loose' \in BOOLEAN
      /\ alarmed => alarmed'
      /\ deceived => deceived'
      /\ loose => loose'
  BY HistoryStays
<1>2. /\ alarmed \in BOOLEAN /\ deceived \in BOOLEAN /\ loose \in BOOLEAN
      /\ alarmed \/ deceived => loose
      /\ ~alarmed /\ ~deceived => Live
  BY DEF LiveInv
<1>3. CASE alarmed \/ deceived
  BY <1>1, <1>2, <1>3 DEF LiveInv
<1>4. CASE ~alarmed /\ ~deceived
  <2>1. Live
    BY <1>2, <1>4
  <2>2. CASE Call \/ CallNtCallbackReturn \/ CallSystem
    <3>1. UNCHANGED <<alarmed, deceived>>
      BY <2>2 DEF Call, CallNtCallbackReturn, CallSystem, CallInstruction, filterCall
    <3>2. Live'
      BY <2>1, <2>2, CallLive
    <3> QED BY <1>1, <1>4, <3>1, <3>2 DEF LiveInv
  <2>3. CASE EnterNtCallbackReturn
    <3>1. UNCHANGED <<alarmed, deceived>>
      BY <2>3 DEF EnterNtCallbackReturn, notifyNtCallbackReturn, history
    <3>2. Live'
      BY <2>1, <2>3, EnterLive
    <3> QED BY <1>1, <1>4, <3>1, <3>2 DEF LiveInv
  <2>4. CASE KernelReturn
    <3>1. UNCHANGED <<alarmed, deceived>>
      BY <2>4 DEF KernelReturn, shadow, history
    <3>2. Live'
      BY <2>1, <2>4, KernelReturnLive
    <3> QED BY <1>1, <1>4, <3>1, <3>2 DEF LiveInv
  <2>5. CASE KernelCallback
    <3>1. UNCHANGED <<alarmed, deceived>>
      BY <2>5 DEF KernelCallback, shadow, history
    <3>2. Live'
      BY <2>1, <2>5, KernelCallbackLive
    <3> QED BY <1>1, <1>4, <3>1, <3>2 DEF LiveInv
  <2>6. CASE Return
    <3>1. Live' /\ alarmed' = alarmed
      BY <2>1, <2>6, ReturnLive
    <3>2. deceived' = deceived
      BY <2>6 DEF Return
    <3> QED BY <1>1, <1>4, <3>1, <3>2 DEF LiveInv
  <2>7. CASE JumpOut
    <3>1. Live' /\ alarmed' = alarmed
      BY <2>1, <2>7, JumpOutLive
    <3>2. deceived' = deceived
      BY <2>7 DEF JumpOut
    <3> QED BY <1>1, <1>4, <3>1, <3>2 DEF LiveInv
  <2>8. CASE PushRet
    <3>1. real' = real /\ loose' = TRUE
      BY <2>8 DEF PushRet
    <3>2. ~alarmed' /\ ~deceived' => Live'
      BY <2>1, <2>8, PushRetLive
    <3> QED BY <1>1, <3>1, <3>2 DEF LiveInv
  <2>9. CASE UNCHANGED vars
    <3>1. UNCHANGED <<alarmed, deceived, real>>
      BY <2>9 DEF vars, shadow, program, history
    <3>2. Live'
      BY <2>1, <2>9 DEF vars, shadow, program, history, Live, TypeOK, Marked, LiveWay, Bottom
    <3> QED BY <1>1, <1>4, <3>1, <3>2 DEF LiveInv
  <2> QED BY <2>2, <2>3, <2>4, <2>5, <2>6, <2>7, <2>8, <2>9 DEF Next
<1> QED BY <1>3, <1>4

LEMMA LiveInvariance == Spec => []LiveInv
<1>1. Init => LiveInv
  <2> SUFFICES ASSUME Init PROVE LiveInv
    OBVIOUS
  <2>1. real = <<>> /\ marks = <<>> /\ m_frames = <<>> /\ Len(real) = 0 /\ Len(marks) = 0
    BY DEF Init
  <2>2. /\ present = FALSE /\ m_bNtCallbackReturn = FALSE /\ alarmed = FALSE
        /\ status = "running" /\ phase = "user"
        /\ loose = FALSE /\ recursed = FALSE /\ deceived = FALSE
    BY DEF Init
  <2>3. TypeOK
    <3>1. <<>> \in Seq(Frames) /\ <<>> \in Seq(Nat)
      BY EmptySeq
    <3> QED BY <2>1, <2>2, <3>1 DEF TypeOK
  <2>4. Marked
    BY <2>1 DEF Marked
  <2>5. Embedded(real, m_frames)
    <3> DEFINE at == [k \in 1..0 |-> 0]
    <3>1. at \in [1..Len(real) -> 1..Len(m_frames)] /\ \A k \in 1..Len(real) : FALSE
      BY <2>1
    <3> QED BY <3>1 DEF Embedded
  <2>6. LiveWay
    BY <2>2, <2>5 DEF LiveWay
  <2> QED BY <2>2, <2>3, <2>4, <2>6 DEF LiveInv, Live
<1>2. LiveInv /\ [Next]_vars => LiveInv'
  BY NextLive
<1> QED BY <1>1, <1>2, PTL DEF Spec

\* Until a return is reported, or a ret used as a jump goes where a frame returns,
\* every frame of the thread is in the shadow, in its place, whatever the program has
\* left by jumps or in callbacks, and Peek always has the frames it pops
\* (ShadowStack.h:67-84, 105-124, ShadowStack.cpp:85-180).
THEOREM LiveFramesCorrect == Spec => []LiveFramesShadowed
<1>1. LiveInv => LiveFramesShadowed
  BY DEF LiveInv, Live, TypeOK, LiveWay, LiveFramesShadowed, Standing
<1> QED BY <1>1, LiveInvariance, PTL

\* The first return that is reported is none of the program's frames, unless a ret
\* used as a jump has passed for a return before, for every depth, number of frames
\* and set of return addresses (ShadowStack.cpp:137-176).
THEOREM FirstAlarmCorrect == Spec => FirstAlarmTrue
<1>1. LiveInv /\ [Next]_vars => [~deceived /\ ~alarmed /\ alarmed' => real' = real]_vars
  BY NextLive
<1> QED BY <1>1, LiveInvariance, PTL DEF Spec, FirstAlarmTrue

\* A program that leaves frames by returns only is never reported, recursion
\* included, and Peek neither throws nor reads an empty stack
\* (ShadowStack.cpp:85-135).
THEOREM NestedNeverReported ==
  Spec => [](~loose => ~alarmed /\ status = "running")
<1>1. LiveInv => (~loose => ~alarmed /\ status = "running")
  BY DEF LiveInv, Live
<1> QED BY <1>1, LiveInvariance, PTL

\* The shadow of a program that leaves frames by returns only holds its stack, and
\* is its stack until a return over several frames goes where the last of them
\* returns as well, for every depth and every nesting of callbacks
\* (ShadowStack.h:56-129, ShadowStack.cpp:85-180).
THEOREM MirrorsNestedCorrect == Spec => []MirrorsNested
<1>1. LiveInv => LiveFramesShadowed /\ (~loose => ~alarmed /\ ~deceived)
  BY DEF LiveInv, Live, TypeOK, LiveWay, LiveFramesShadowed, Standing
<1>2. IInv => (~loose /\ ~recursed => Standing = real)
  BY NestedStanding DEF IInv
<1>3. IInv /\ LiveInv => MirrorsNested
  BY <1>1, <1>2 DEF MirrorsNested, LiveFramesShadowed
<1> QED BY <1>3, Invariance, LiveInvariance, PTL
====
