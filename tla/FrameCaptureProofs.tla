------------------------- MODULE FrameCaptureProofs -------------------------
(***************************************************************************)
(* What the two windows keep when any number of threads shift and compare  *)
(* them at once.  An address in a window, or on its way between two        *)
(* entries, is that of a visit that has begun; a thread that has not put   *)
(* its own address there yet, and finds it, meets another visit of it      *)
(* (WindowOld, SquareOld).  Two threads that are in calls with one address *)
(* have begun two visits of it (Apart), so that this survives the moment   *)
(* at which one of them enters its address.  And that one thread's calls   *)
(* are the atomic visits of RecentWindow, which is not so for two.         *)
(***************************************************************************)
EXTENDS FrameCapture, TLAPS

\* The labels before a visit's address is in the first window, in the second.
Early == {"load_id", "store_id", "compare", "circle_load", "circle_store", "circle_last"}
EarlySquare == Early \cup {"square", "load_ebp", "store_ebp", "shift_load",
                           "shift_store", "square_last"}

\* An address stands in a window, or is on its way from one entry to another.
InWindow(e) == \/ \E k \in 0..(N - 1) : circuluar[k] = e
               \/ \E t \in Threads : pc[t] = "circle_store" /\ reg[t] = e
InSquare(e) == \/ \E k \in 0..(SQUARE - 1) : square_circular[k] = e
               \/ \E t \in Threads : pc[t] = "shift_store" /\ reg[t] = e

\* An address has a frame, or is getting one.
Framed(e) == \/ \E j \in 1..Len(log) : log[j].eip = e
             \/ \E t \in Threads : pc[t] \in {"load_sid", "store_sid", "log"} /\ eip[t] = e

\* The index of a loop is in the window it runs over, and what moves in it is
\* an address.
Indexed ==
  \A t \in Threads :
    /\ pc[t] \in {"compare", "circle_load", "circle_store"} => i[t] \in 0..(N - 1)
    /\ pc[t] \in {"square", "shift_load", "shift_store"} => i[t] \in 0..(SQUARE - 1)
    /\ pc[t] \in {"circle_store", "shift_store"} => reg[t] \in Eips \cup {0}

\* A call has found nothing before it looks.
Fresh == \A t \in Threads : pc[t] \in {"load_id", "store_id"} => ~bSkip[t]

\* A call's address is that of a visit that has begun.
Visiting == \A t \in Threads : pc[t] # "idle" => eip[t] \in Eips /\ entered[eip[t]] > 0

\* Two calls with one address are two visits.
Apart == \A t, u \in Threads :
  t # u /\ pc[t] # "idle" /\ pc[u] # "idle" /\ eip[t] = eip[u] => entered[eip[t]] > 1

WindowOld == \A e \in Eips : InWindow(e) =>
  /\ entered[e] > 0
  /\ \A t \in Threads : pc[t] \in Early /\ eip[t] = e => entered[e] > 1

SquareOld == \A e \in Eips : InSquare(e) =>
  /\ entered[e] > 0
  /\ \A t \in Threads : pc[t] \in EarlySquare /\ eip[t] = e => entered[e] > 1

SquareFramed == \A e \in Eips : InSquare(e) => Framed(e)

Old  == Visiting /\ Apart /\ WindowOld /\ SquareOld /\ SquareFramed
IInv == TypeOK /\ Indexed /\ Fresh /\ Old /\ FirstVisitNotSkipped

\* The windows have entries.
LEMMA Windows == N \in Nat /\ N >= 2 /\ SQUARE \in Nat /\ SQUARE >= 1 /\ SQUARE <= N
BY FrameCaptureAssumption DEF N, SQUARE

\* An index that wraps stays in its window.
LEMMA Wraps == \A k \in Nat, n \in Nat \ {0} : k % n \in 0..(n - 1)
OBVIOUS

\* Nobody has visited anything.
LEMMA InitInvariant == Init => IInv
<1> SUFFICES ASSUME Init PROVE IInv
  OBVIOUS
<1> USE FrameCaptureAssumption, Windows DEF Init
<1>1. TypeOK
  <2>1. /\ circuluar \in [0..(N - 1) -> Eips \cup {0}]
        /\ square_circular \in [0..(SQUARE - 1) -> Eips \cup {0}]
    OBVIOUS
  <2>2. /\ pc \in [Threads -> Labels] /\ bSkip \in [Threads -> BOOLEAN]
        /\ entered \in [Eips -> Nat]
    BY DEF Labels
  <2>3. /\ i \in [Threads -> 0..N] /\ reg \in [Threads -> Nat]
        /\ eip \in [Threads -> Eips \cup {0}] /\ ebp \in [Threads -> Ebps \cup {0}]
        /\ m_id \in [Threads -> Nat] /\ sid \in [Threads -> Nat]
    OBVIOUS
  <2>4. /\ last_ebp \in Ebps \cup {0} /\ s_last_id \in Nat /\ s_last_serialized_id \in Nat
        /\ begun \in 0..MaxVisits /\ settled \in Ebps \cup {0}
    OBVIOUS
  <2>5. log \in Seq([sid : Nat, id : Nat, eip : Eips]) /\ visits \in Seq(Eips)
    OBVIOUS
  <2> QED BY <2>1, <2>2, <2>3, <2>4, <2>5, Zenon DEF TypeOK
<1>2. \A e \in Eips : ~InWindow(e) /\ ~InSquare(e)
  BY DEF InWindow, InSquare
<1> QED
  BY <1>1, <1>2 DEF IInv, Indexed, Fresh, Old, Visiting, Apart, WindowOld, SquareOld,
     SquareFramed, FirstVisitNotSkipped

\* A step that puts no new address into a window, and begins no visit, keeps
\* what the windows are about.
LEMMA Carry ==
  ASSUME Old, entered' = entered, eip' = eip,
         \A e \in Eips : InWindow(e)' => InWindow(e),
         \A e \in Eips : InSquare(e)' => InSquare(e),
         \A e \in Eips : Framed(e) => Framed(e)',
         \A t \in Threads : /\ pc'[t] \in Early => pc[t] \in Early
                            /\ pc'[t] \in EarlySquare => pc[t] \in EarlySquare
                            /\ pc'[t] # "idle" => pc[t] # "idle"
  PROVE  Old'
<1> USE DEF Old
<1>1. Visiting'
  BY DEF Visiting
<1>2. Apart'
  BY DEF Apart
<1>3. WindowOld'
  BY DEF WindowOld
<1>4. SquareOld'
  BY DEF SquareOld
<1>5. SquareFramed'
  BY DEF SquareFramed
<1> QED BY <1>1, <1>2, <1>3, <1>4, <1>5

\* A thread goes from one label to the next and touches neither window.
LEMMA PlainStep ==
  ASSUME IInv, NEW t \in Threads,
         \/ LoadId(t) \/ StoreId(t) \/ LoadEbp(t) \/ StoreEbp(t)
         \/ LoadSid(t) \/ StoreSid(t)
  PROVE  IInv'
<1> USE FrameCaptureAssumption, Windows DEF IInv, Goto, Set
<1>1. /\ UNCHANGED <<circuluar, square_circular, entered, eip, log>>
      /\ pc' \in [Threads -> Labels]
      /\ \A u \in Threads \ {t} : pc'[u] = pc[u] /\ i'[u] = i[u] /\ reg'[u] = reg[u]
                                  /\ bSkip'[u] = bSkip[u]
  <2>1. UNCHANGED <<circuluar, square_circular, entered, eip, log>>
    BY DEF LoadId, StoreId, LoadEbp, StoreEbp, LoadSid, StoreSid, globals, locals, history
  <2>2. \E l \in Labels : pc' = [pc EXCEPT ![t] = l]
    BY DEF LoadId, StoreId, LoadEbp, StoreEbp, LoadSid, StoreSid, Labels
  <2>3. i' = i \/ i' = [i EXCEPT ![t] = 0]
    BY DEF LoadId, StoreId, LoadEbp, StoreEbp, LoadSid, StoreSid
  <2>4. \E v : reg' = reg \/ reg' = [reg EXCEPT ![t] = v]
    BY DEF LoadId, StoreId, LoadEbp, StoreEbp, LoadSid, StoreSid
  <2>5. \E v : bSkip' = bSkip \/ bSkip' = [bSkip EXCEPT ![t] = v]
    BY DEF LoadId, StoreId, LoadEbp, StoreEbp, LoadSid, StoreSid
  <2>6. /\ pc \in [Threads -> Labels] /\ i \in [Threads -> 0..N]
        /\ reg \in [Threads -> Nat] /\ bSkip \in [Threads -> BOOLEAN]
    BY DEF TypeOK
  <2>7. /\ pc' \in [Threads -> Labels]
        /\ \A u \in Threads \ {t} : pc'[u] = pc[u] /\ i'[u] = i[u]
    BY ONLY <2>2, <2>3, <2>6
  <2>8. \A u \in Threads \ {t} : reg'[u] = reg[u] /\ bSkip'[u] = bSkip[u]
    BY ONLY <2>4, <2>5, <2>6
  <2> QED BY ONLY <2>1, <2>7, <2>8
<1>2. \/ pc[t] = "load_id" /\ pc'[t] = "store_id"
      \/ pc[t] = "store_id" /\ pc'[t] = "compare" /\ i'[t] = 0
      \/ pc[t] = "load_ebp" /\ pc'[t] = "store_ebp"
      \/ /\ pc[t] = "store_ebp" /\ pc'[t] \in {"return", "shift_load", "square_last"}
         /\ i'[t] = 0
      \/ pc[t] = "load_sid" /\ pc'[t] = "store_sid"
      \/ pc[t] = "store_sid" /\ pc'[t] = "log"
  BY DEF LoadId, StoreId, LoadEbp, StoreEbp, LoadSid, StoreSid, TypeOK
<1>3. TypeOK'
  <2>1. CASE LoadId(t)
    BY <1>1, <2>1 DEF LoadId, globals, ids, locals, history, TypeOK
  <2>2. CASE StoreId(t)
    <3>1. /\ s_last_id' \in Nat /\ m_id' \in [Threads -> Nat]
          /\ i' \in [Threads -> 0..N]
      BY <2>2 DEF StoreId, TypeOK
    <3> QED BY <1>1, <2>2, <3>1 DEF StoreId, globals, locals, history, TypeOK
  <2>3. CASE LoadEbp(t)
    <3>1. bSkip' \in [Threads -> BOOLEAN]
      BY <2>3 DEF LoadEbp, TypeOK
    <3> QED BY <1>1, <2>3, <3>1 DEF LoadEbp, globals, ids, locals, history, TypeOK
  <2>4. CASE StoreEbp(t)
    <3>1. last_ebp' \in Ebps \cup {0} /\ i' \in [Threads -> 0..N]
      <4>1. ebp[t] \in Ebps \cup {0}
        BY DEF TypeOK
      <4>2. i \in [Threads -> 0..N] /\ 0 \in 0..N
        BY DEF TypeOK
      <4> QED BY <2>4, <4>1, <4>2 DEF StoreEbp
    <3>2. UNCHANGED <<circuluar, square_circular, s_last_id, s_last_serialized_id, reg,
                      eip, ebp, bSkip, m_id, sid, log, begun, entered, visits, settled>>
      BY <2>4 DEF StoreEbp, ids, locals, history
    <3>3. pc' \in [Threads -> Labels]
      BY <1>1
    <3> QED BY ONLY IInv, <3>1, <3>2, <3>3 DEF IInv, TypeOK
  <2>5. CASE LoadSid(t)
    BY <1>1, <2>5 DEF LoadSid, globals, ids, locals, history, TypeOK
  <2>6. CASE StoreSid(t)
    <3>1. s_last_serialized_id' \in Nat /\ sid' \in [Threads -> Nat]
      BY <2>6 DEF StoreSid, TypeOK
    <3>2. UNCHANGED <<circuluar, square_circular, last_ebp, s_last_id, i, reg,
                      eip, ebp, bSkip, m_id, log, begun, entered, visits, settled>>
      BY <2>6 DEF StoreSid, globals, locals, history
    <3>3. pc' \in [Threads -> Labels]
      BY <1>1
    <3> QED BY ONLY IInv, <3>1, <3>2, <3>3 DEF IInv, TypeOK
  <2> QED BY <2>1, <2>2, <2>3, <2>4, <2>5, <2>6
<1>4. Indexed' /\ Fresh'
  <2>1. LoadId(t) => bSkip' = bSkip
    BY DEF LoadId
  <2>2. pc'[t] \in {"load_id", "store_id"} => LoadId(t)
    BY <1>2 DEF LoadId, StoreId, LoadEbp, StoreEbp, LoadSid, StoreSid
  <2> QED BY <1>1, <1>2, <2>1, <2>2 DEF Indexed, Fresh
<1>5. Old'
  <2>1. \A e \in Eips : InWindow(e)' => InWindow(e)
    BY <1>1, <1>2 DEF InWindow
  <2>2. \A e \in Eips : InSquare(e)' => InSquare(e)
    BY <1>1, <1>2 DEF InSquare
  <2>3. \A e \in Eips : Framed(e) => Framed(e)'
    BY <1>1, <1>2 DEF Framed
  <2>4. \A u \in Threads : /\ pc'[u] \in Early => pc[u] \in Early
                           /\ pc'[u] \in EarlySquare => pc[u] \in EarlySquare
                           /\ pc'[u] # "idle" => pc[u] # "idle"
    BY <1>1, <1>2 DEF Early, EarlySquare
  <2> QED BY <1>1, <2>1, <2>2, <2>3, <2>4, Carry
<1>6. FirstVisitNotSkipped'
  <2> SUFFICES ASSUME NEW u \in Threads, bSkip'[u],
                      pc'[u] \in {"compare", "circle_load", "circle_store", "circle_last",
                                 "square", "load_ebp"}
               PROVE  entered[eip[u]] > 1
    BY <1>1 DEF FirstVisitNotSkipped
  <2>1. CASE u # t
    BY <2>1, <1>1 DEF FirstVisitNotSkipped
  <2>2. CASE u = t
    <3>1. StoreId(t)
      BY <2>2, <1>1, <1>2 DEF LoadId, StoreId, LoadEbp, StoreEbp, LoadSid, StoreSid
    <3>2. bSkip[t] /\ pc[t] = "store_id"
      BY <2>2, <3>1 DEF StoreId
    <3> QED BY <3>2 DEF Fresh
  <2> QED BY <2>1, <2>2
<1> QED BY <1>3, <1>4, <1>5, <1>6

\* An entry of the first window is compared.
LEMMA CompareStep ==
  ASSUME IInv, NEW t \in Threads, Compare(t)
  PROVE  IInv'
<1> USE FrameCaptureAssumption, Windows DEF IInv, Goto, Set
<1>1. /\ UNCHANGED <<circuluar, square_circular, entered, eip, log, reg, i>>
      /\ pc' \in [Threads -> Labels] /\ bSkip' \in [Threads -> BOOLEAN]
      /\ \A u \in Threads \ {t} : pc'[u] = pc[u] /\ bSkip'[u] = bSkip[u]
  BY DEF Compare, globals, ids, locals, history, TypeOK, Labels
<1>2. /\ pc[t] = "compare" /\ pc'[t] = "circle_load" /\ i[t] \in 0..(N - 1)
      /\ bSkip'[t] = (bSkip[t] \/ circuluar[i[t]] = eip[t])
  BY DEF Compare, Indexed, TypeOK
<1>3. TypeOK'
  BY <1>1 DEF Compare, globals, ids, locals, history, TypeOK
<1>4. Indexed' /\ Fresh'
  BY <1>1, <1>2 DEF Indexed, Fresh
<1>5. Old'
  <2>1. \A e \in Eips : InWindow(e)' => InWindow(e)
    BY <1>1, <1>2 DEF InWindow
  <2>2. \A e \in Eips : InSquare(e)' => InSquare(e)
    BY <1>1, <1>2 DEF InSquare
  <2>3. \A e \in Eips : Framed(e) => Framed(e)'
    BY <1>1, <1>2 DEF Framed
  <2>4. \A u \in Threads : /\ pc'[u] \in Early => pc[u] \in Early
                           /\ pc'[u] \in EarlySquare => pc[u] \in EarlySquare
                           /\ pc'[u] # "idle" => pc[u] # "idle"
    BY <1>1, <1>2 DEF Early, EarlySquare
  <2> QED BY <1>1, <2>1, <2>2, <2>3, <2>4, Carry
<1>6. FirstVisitNotSkipped'
  <2> SUFFICES ASSUME NEW u \in Threads, bSkip'[u],
                      pc'[u] \in {"compare", "circle_load", "circle_store", "circle_last",
                                 "square", "load_ebp"}
               PROVE  entered[eip[u]] > 1
    BY <1>1 DEF FirstVisitNotSkipped
  <2>1. CASE u # t \/ bSkip[u]
    BY <2>1, <1>1, <1>2 DEF FirstVisitNotSkipped
  <2>2. CASE u = t /\ ~bSkip[u]
    <3>1. circuluar[i[t]] = eip[t]
      BY <2>2, <1>2
    <3>2. eip[t] \in Eips /\ InWindow(eip[t]) /\ pc[t] \in Early
      BY <3>1, <1>2 DEF Old, Visiting, InWindow, Early
    <3> QED BY <2>2, <3>2 DEF Old, WindowOld
  <2> QED BY <2>1, <2>2
<1> QED BY <1>3, <1>4, <1>5, <1>6

\* An entry of a window is loaded, to move up.
LEMMA LoadStep ==
  ASSUME IInv, NEW t \in Threads, CircleLoad(t) \/ ShiftLoad(t)
  PROVE  IInv'
<1> USE FrameCaptureAssumption, Windows DEF IInv, Goto, Set
<1>1. /\ UNCHANGED <<circuluar, square_circular, entered, eip, log, i>>
      /\ pc' \in [Threads -> Labels] /\ bSkip' \in [Threads -> BOOLEAN]
      /\ \A u \in Threads \ {t} : pc'[u] = pc[u] /\ reg'[u] = reg[u] /\ bSkip'[u] = bSkip[u]
  <2>1. UNCHANGED <<circuluar, square_circular, entered, eip, log, i>>
    BY DEF CircleLoad, ShiftLoad, globals, locals, history
  <2>2. \/ pc' = [pc EXCEPT ![t] = "circle_store"]
        \/ pc' = [pc EXCEPT ![t] = "shift_store"]
    BY DEF CircleLoad, ShiftLoad
  <2>3. PICK v : reg' = [reg EXCEPT ![t] = v]
    BY DEF CircleLoad, ShiftLoad
  <2>4. bSkip' = bSkip
    BY DEF CircleLoad, ShiftLoad
  <2>5. /\ pc \in [Threads -> Labels] /\ bSkip \in [Threads -> BOOLEAN]
        /\ reg \in [Threads -> Nat]
    BY DEF TypeOK
  <2>6. pc' \in [Threads -> Labels] /\ \A u \in Threads \ {t} : pc'[u] = pc[u]
    BY ONLY <2>2, <2>5 DEF Labels
  <2>7. bSkip' \in [Threads -> BOOLEAN] /\ \A u \in Threads \ {t} : bSkip'[u] = bSkip[u]
    BY ONLY <2>4, <2>5
  <2>8. \A u \in Threads \ {t} : reg'[u] = reg[u]
    BY ONLY <2>3, <2>5
  <2> QED BY ONLY <2>1, <2>6, <2>7, <2>8
<1>2. \/ /\ CircleLoad(t) /\ pc[t] = "circle_load" /\ pc'[t] = "circle_store"
         /\ i[t] \in 0..(N - 1) /\ (i[t] + 1) % N \in 0..(N - 1)
         /\ reg'[t] = circuluar[(i[t] + 1) % N]
      \/ /\ ShiftLoad(t) /\ pc[t] = "shift_load" /\ pc'[t] = "shift_store"
         /\ i[t] \in 0..(SQUARE - 1) /\ (i[t] + 1) % SQUARE \in 0..(SQUARE - 1)
         /\ reg'[t] = square_circular[(i[t] + 1) % SQUARE]
  <2>1. CASE CircleLoad(t)
    <3>1. i[t] \in 0..(N - 1)
      BY <2>1 DEF CircleLoad, Indexed
    <3>2. (i[t] + 1) % N \in 0..(N - 1)
      <4>1. i[t] + 1 \in Nat /\ N \in Nat \ {0}
        BY <3>1
      <4> QED BY <4>1, Wraps, Zenon
    <3> QED BY <2>1, <3>1, <3>2 DEF CircleLoad, TypeOK
  <2>2. CASE ShiftLoad(t)
    <3>1. i[t] \in 0..(SQUARE - 1)
      BY <2>2 DEF ShiftLoad, Indexed
    <3>2. (i[t] + 1) % SQUARE \in 0..(SQUARE - 1)
      <4>1. i[t] + 1 \in Nat /\ SQUARE \in Nat \ {0}
        BY <3>1
      <4> QED BY <4>1, Wraps, Zenon
    <3> QED BY <2>2, <3>1, <3>2 DEF ShiftLoad, TypeOK
  <2> QED BY <2>1, <2>2
<1>3. reg'[t] \in Eips \cup {0}
  <2>1. /\ circuluar \in [0..(N - 1) -> Eips \cup {0}]
        /\ square_circular \in [0..(SQUARE - 1) -> Eips \cup {0}]
    BY DEF TypeOK
  <2> QED BY <1>2, <2>1
<1>4. TypeOK'
  <2>1. reg' \in [Threads -> Nat]
    <3>1. PICK v : reg' = [reg EXCEPT ![t] = v]
      BY DEF CircleLoad, ShiftLoad
    <3>2. reg \in [Threads -> Nat] /\ 0 \in Nat
      BY DEF TypeOK
    <3>3. v \in Nat
      BY <1>3, <3>1, <3>2
    <3> QED BY <3>1, <3>2, <3>3
  <2>2. /\ UNCHANGED <<last_ebp, s_last_id, s_last_serialized_id, ebp, m_id, sid, log>>
        /\ UNCHANGED <<circuluar, square_circular, eip, i, begun, entered, visits, settled>>
    BY DEF CircleLoad, ShiftLoad, globals, ids, locals, history
  <2> QED BY ONLY TypeOK, <1>1, <2>1, <2>2 DEF TypeOK
<1>5. Indexed' /\ Fresh'
  BY <1>1, <1>2, <1>3 DEF Indexed, Fresh
<1>6. Old'
  <2>1. \A e \in Eips : InWindow(e)' => InWindow(e)
    BY <1>1, <1>2 DEF InWindow
  <2>2. \A e \in Eips : InSquare(e)' => InSquare(e)
    BY <1>1, <1>2 DEF InSquare
  <2>3. \A e \in Eips : Framed(e) => Framed(e)'
    BY <1>1, <1>2 DEF Framed
  <2>4. \A u \in Threads : /\ pc'[u] \in Early => pc[u] \in Early
                           /\ pc'[u] \in EarlySquare => pc[u] \in EarlySquare
                           /\ pc'[u] # "idle" => pc[u] # "idle"
    BY <1>1, <1>2 DEF Early, EarlySquare
  <2> QED BY <1>1, <2>1, <2>2, <2>3, <2>4, Carry
<1>7. FirstVisitNotSkipped'
  <2>1. bSkip' = bSkip
    BY DEF CircleLoad, ShiftLoad
  <2> QED BY <1>1, <1>2, <2>1 DEF FirstVisitNotSkipped
<1> QED BY <1>4, <1>5, <1>6, <1>7

\* An entry of a window is overwritten with the next.
LEMMA StoreStep ==
  ASSUME IInv, NEW t \in Threads, CircleStore(t) \/ ShiftStore(t)
  PROVE  IInv'
<1> USE FrameCaptureAssumption, Windows DEF IInv, Goto, Set
<1>1. /\ UNCHANGED <<entered, eip, log, reg, bSkip>>
      /\ pc' \in [Threads -> Labels]
      /\ \A u \in Threads \ {t} : pc'[u] = pc[u] /\ i'[u] = i[u]
  BY DEF CircleStore, ShiftStore, ids, locals, history, TypeOK, Labels
<1>2. reg[t] \in Eips \cup {0}
  BY DEF CircleStore, ShiftStore, Indexed
<1>3. \/ /\ CircleStore(t) /\ pc[t] = "circle_store" /\ i[t] \in 0..(N - 1)
         /\ i'[t] = i[t] + 1
         /\ \/ pc'[t] = "compare" /\ i'[t] \in 0..(N - 1)
            \/ pc'[t] = "circle_last"
         /\ square_circular' = square_circular
         /\ \A k \in 0..(N - 1) : circuluar'[k] = IF k = i[t] THEN reg[t] ELSE circuluar[k]
         /\ circuluar' \in [0..(N - 1) -> Eips \cup {0}]
      \/ /\ ShiftStore(t) /\ pc[t] = "shift_store" /\ i[t] \in 0..(SQUARE - 1)
         /\ i'[t] = i[t] + 1
         /\ \/ pc'[t] = "shift_load" /\ i'[t] \in 0..(SQUARE - 1)
            \/ pc'[t] = "square_last"
         /\ circuluar' = circuluar
         /\ \A k \in 0..(SQUARE - 1) :
              square_circular'[k] = IF k = i[t] THEN reg[t] ELSE square_circular[k]
         /\ square_circular' \in [0..(SQUARE - 1) -> Eips \cup {0}]
  <2>1. CASE CircleStore(t)
    <3>1. pc[t] = "circle_store" /\ i[t] \in 0..(N - 1)
      BY <2>1 DEF CircleStore, Indexed
    <3>2. i'[t] = i[t] + 1 /\ square_circular' = square_circular
      BY <2>1 DEF CircleStore, TypeOK
    <3>3. pc'[t] = IF i[t] + 1 < N THEN "compare" ELSE "circle_last"
      BY <2>1 DEF CircleStore, TypeOK
    <3>4. circuluar' = [circuluar EXCEPT ![i[t]] = reg[t]]
      BY <2>1 DEF CircleStore
    <3>5. circuluar \in [0..(N - 1) -> Eips \cup {0}]
      BY DEF TypeOK
    <3> QED BY <1>2, <2>1, <3>1, <3>2, <3>3, <3>4, <3>5
  <2>2. CASE ShiftStore(t)
    <3>1. pc[t] = "shift_store" /\ i[t] \in 0..(SQUARE - 1)
      BY <2>2 DEF ShiftStore, Indexed
    <3>2. i'[t] = i[t] + 1 /\ circuluar' = circuluar
      BY <2>2 DEF ShiftStore, TypeOK
    <3>3. pc'[t] = IF i[t] + 1 < SQUARE THEN "shift_load" ELSE "square_last"
      BY <2>2 DEF ShiftStore, TypeOK
    <3>4. square_circular' = [square_circular EXCEPT ![i[t]] = reg[t]]
      BY <2>2 DEF ShiftStore
    <3>5. square_circular \in [0..(SQUARE - 1) -> Eips \cup {0}]
      BY DEF TypeOK
    <3> QED BY <1>2, <2>2, <3>1, <3>2, <3>3, <3>4, <3>5
  <2> QED BY <2>1, <2>2
<1>4. TypeOK'
  <2>1. i' \in [Threads -> 0..N]
    <3>1. i' = [i EXCEPT ![t] = i[t] + 1]
      BY DEF CircleStore, ShiftStore
    <3>2. i \in [Threads -> 0..N] /\ i[t] + 1 \in 0..N
      <4>1. i[t] \in 0..(N - 1) \/ i[t] \in 0..(SQUARE - 1)
        BY ONLY <1>3
      <4>2. i[t] + 1 \in 0..N
        BY ONLY <4>1, Windows
      <4> QED BY <4>2 DEF TypeOK
    <3> QED BY <3>1, <3>2
  <2> QED
    BY <1>1, <1>3, <2>1 DEF CircleStore, ShiftStore, ids, locals, history, TypeOK
<1>5. Indexed' /\ Fresh'
  BY <1>1, <1>3 DEF Indexed, Fresh
<1>6. Old'
  <2>1. \A e \in Eips : InWindow(e)' => InWindow(e)
    BY <1>1, <1>3 DEF InWindow
  <2>2. \A e \in Eips : InSquare(e)' => InSquare(e)
    BY <1>1, <1>3 DEF InSquare
  <2>3. \A e \in Eips : Framed(e) => Framed(e)'
    BY <1>1, <1>3 DEF Framed
  <2>4. \A u \in Threads : /\ pc'[u] \in Early => pc[u] \in Early
                           /\ pc'[u] \in EarlySquare => pc[u] \in EarlySquare
                           /\ pc'[u] # "idle" => pc[u] # "idle"
    BY <1>1, <1>3 DEF Early, EarlySquare
  <2> QED BY <1>1, <2>1, <2>2, <2>3, <2>4, Carry
<1>7. FirstVisitNotSkipped'
  BY <1>1, <1>3 DEF FirstVisitNotSkipped
<1> QED BY <1>4, <1>5, <1>6, <1>7

\* The second window is looked through.
LEMMA SquareStep ==
  ASSUME IInv, NEW t \in Threads, Square(t)
  PROVE  IInv'
<1> USE FrameCaptureAssumption, Windows DEF IInv, Goto, Set
<1>1. /\ UNCHANGED <<circuluar, square_circular, entered, eip, log, reg>>
      /\ pc' \in [Threads -> Labels] /\ bSkip' \in [Threads -> BOOLEAN]
      /\ \A u \in Threads \ {t} : pc'[u] = pc[u] /\ i'[u] = i[u] /\ bSkip'[u] = bSkip[u]
  BY DEF Square, globals, ids, locals, history, TypeOK, Labels
<1>2. pc[t] = "square" /\ i[t] \in 0..(SQUARE - 1)
  BY DEF Square, Indexed
<1>3. /\ i' = [i EXCEPT ![t] = i[t] + 1]
      /\ bSkip'[t] = (bSkip[t] \/ square_circular[i[t]] = eip[t])
      /\ pc'[t] = IF i[t] + 1 < SQUARE THEN "square" ELSE "load_ebp"
  BY DEF Square, TypeOK
<1>4. i' \in [Threads -> 0..N] /\ i'[t] = i[t] + 1
  <2>1. i[t] + 1 \in 0..N
    BY ONLY <1>2, Windows
  <2>2. i \in [Threads -> 0..N]
    BY DEF TypeOK
  <2> QED BY ONLY <1>3, <2>1, <2>2
<1>5. TypeOK'
  BY <1>1, <1>4 DEF Square, globals, ids, locals, history, TypeOK
<1>6. Indexed' /\ Fresh'
  BY <1>1, <1>2, <1>3, <1>4 DEF Indexed, Fresh
<1>7. Old'
  <2>1. \A e \in Eips : InWindow(e)' => InWindow(e)
    BY <1>1, <1>2, <1>3 DEF InWindow
  <2>2. \A e \in Eips : InSquare(e)' => InSquare(e)
    BY <1>1, <1>2, <1>3 DEF InSquare
  <2>3. \A e \in Eips : Framed(e) => Framed(e)'
    BY <1>1, <1>2 DEF Framed
  <2>4. \A u \in Threads : /\ pc'[u] \in Early => pc[u] \in Early
                           /\ pc'[u] \in EarlySquare => pc[u] \in EarlySquare
                           /\ pc'[u] # "idle" => pc[u] # "idle"
    BY <1>1, <1>2, <1>3 DEF Early, EarlySquare
  <2> QED BY <1>1, <2>1, <2>2, <2>3, <2>4, Carry
<1>8. FirstVisitNotSkipped'
  <2> SUFFICES ASSUME NEW u \in Threads, bSkip'[u],
                      pc'[u] \in {"compare", "circle_load", "circle_store", "circle_last",
                                 "square", "load_ebp"}
               PROVE  entered[eip[u]] > 1
    BY <1>1 DEF FirstVisitNotSkipped
  <2>1. CASE u # t \/ bSkip[u]
    BY <2>1, <1>1, <1>2 DEF FirstVisitNotSkipped
  <2>2. CASE u = t /\ ~bSkip[u]
    <3>1. square_circular[i[t]] = eip[t]
      BY <2>2, <1>3
    <3>2. eip[t] \in Eips /\ InSquare(eip[t]) /\ pc[t] \in EarlySquare
      BY <3>1, <1>2 DEF Old, Visiting, InSquare, EarlySquare
    <3> QED BY <2>2, <3>2 DEF Old, SquareOld
  <2> QED BY <2>1, <2>2
<1> QED BY <1>5, <1>6, <1>7, <1>8

\* A visit's address enters the first window.
LEMMA CircleLastStep ==
  ASSUME IInv, NEW t \in Threads, CircleLast(t)
  PROVE  IInv'
<1> USE FrameCaptureAssumption, Windows DEF IInv, Goto, Set
<1>1. /\ UNCHANGED <<square_circular, entered, eip, log, reg, bSkip>>
      /\ pc' \in [Threads -> Labels]
      /\ \A u \in Threads \ {t} : pc'[u] = pc[u] /\ i'[u] = i[u]
  BY DEF CircleLast, ids, locals, history, TypeOK, Labels
<1>2. /\ pc[t] = "circle_last" /\ pc'[t] \in {"load_ebp", "square"} /\ i'[t] = 0
      /\ eip[t] \in Eips
  BY DEF CircleLast, Old, Visiting, TypeOK
<1>3. /\ circuluar' \in [0..(N - 1) -> Eips \cup {0}]
      /\ \A k \in 0..(N - 1) : circuluar'[k] \in {circuluar[k], eip[t]}
  BY <1>2 DEF CircleLast, TypeOK
<1>4. i' \in [Threads -> 0..N]
  BY DEF CircleLast, TypeOK
<1>5. TypeOK'
  <2>1. /\ UNCHANGED <<last_ebp, s_last_id, s_last_serialized_id, ebp, m_id, sid, log>>
        /\ UNCHANGED <<begun, entered, visits, settled>>
    BY DEF CircleLast, ids, locals, history
  <2> QED BY ONLY TypeOK, <1>1, <1>3, <1>4, <2>1 DEF TypeOK
<1>6. Indexed' /\ Fresh'
  BY <1>1, <1>2 DEF Indexed, Fresh
<1>7. \A e \in Eips : InWindow(e)' => InWindow(e) \/ e = eip[t]
  BY <1>1, <1>2, <1>3 DEF InWindow
<1>8. \A u \in Threads : /\ pc'[u] \in Early => u # t /\ pc[u] \in Early
                         /\ pc'[u] \in EarlySquare => pc[u] \in EarlySquare
                         /\ pc'[u] # "idle" => pc[u] # "idle"
  BY <1>1, <1>2 DEF Early, EarlySquare
<1>9. WindowOld'
  <2> SUFFICES ASSUME NEW e \in Eips, InWindow(e)'
               PROVE  /\ entered[e] > 0
                      /\ \A u \in Threads : pc'[u] \in Early /\ eip[u] = e => entered[e] > 1
    BY <1>1 DEF WindowOld
  <2>1. CASE InWindow(e)
    BY <2>1, <1>8 DEF Old, WindowOld
  <2>2. CASE e = eip[t]
    <3>1. entered[e] > 0
      BY <2>2, <1>2 DEF Old, Visiting
    <3>2. ASSUME NEW u \in Threads, pc'[u] \in Early, eip[u] = e PROVE entered[e] > 1
      <4>1. u # t /\ pc[u] # "idle" /\ pc[t] # "idle"
        BY <3>2, <1>2, <1>8 DEF Early
      <4> QED BY <3>2, <4>1, <2>2 DEF Old, Apart
    <3> QED BY <3>1, <3>2
  <2> QED BY <1>7, <2>1, <2>2
<1>10. Visiting' /\ Apart'
  BY <1>1, <1>8 DEF Old, Visiting, Apart
<1>11. \A e \in Eips : (InSquare(e)' => InSquare(e)) /\ (Framed(e) => Framed(e)')
  BY <1>1, <1>2 DEF InSquare, Framed
<1>12. SquareOld' /\ SquareFramed'
  BY <1>1, <1>8, <1>11 DEF Old, SquareOld, SquareFramed
<1>13. FirstVisitNotSkipped'
  BY <1>1, <1>2 DEF FirstVisitNotSkipped
<1> QED BY <1>5, <1>6, <1>9, <1>10, <1>12, <1>13 DEF Old

\* A frame's address enters the second window.
LEMMA SquareLastStep ==
  ASSUME IInv, NEW t \in Threads, SquareLast(t)
  PROVE  IInv'
<1> USE FrameCaptureAssumption, Windows DEF IInv, Goto, Set
<1>1. /\ UNCHANGED <<circuluar, entered, eip, log, reg, bSkip, i>>
      /\ pc' \in [Threads -> Labels]
      /\ \A u \in Threads \ {t} : pc'[u] = pc[u]
  BY DEF SquareLast, ids, locals, history, TypeOK, Labels
<1>2. /\ pc[t] = "square_last" /\ pc'[t] = "load_sid" /\ eip[t] \in Eips
  BY DEF SquareLast, Old, Visiting, TypeOK
<1>3. /\ square_circular' \in [0..(SQUARE - 1) -> Eips \cup {0}]
      /\ \A k \in 0..(SQUARE - 1) : square_circular'[k] \in {square_circular[k], eip[t]}
  BY <1>2 DEF SquareLast, TypeOK
<1>4. TypeOK'
  <2>1. /\ UNCHANGED <<last_ebp, s_last_id, s_last_serialized_id, ebp, m_id, sid, log>>
        /\ UNCHANGED <<begun, entered, visits, settled>>
    BY DEF SquareLast, ids, locals, history
  <2> QED BY ONLY TypeOK, <1>1, <1>3, <2>1 DEF TypeOK
<1>5. Indexed' /\ Fresh'
  BY <1>1, <1>2 DEF Indexed, Fresh
<1>6. \A e \in Eips : InSquare(e)' => InSquare(e) \/ e = eip[t]
  BY <1>1, <1>2, <1>3 DEF InSquare
<1>7. \A u \in Threads : /\ pc'[u] \in Early => pc[u] \in Early
                         /\ pc'[u] \in EarlySquare => u # t /\ pc[u] \in EarlySquare
                         /\ pc'[u] # "idle" => pc[u] # "idle"
  BY <1>1, <1>2 DEF Early, EarlySquare
<1>8. \A e \in Eips : Framed(e) \/ e = eip[t] => Framed(e)'
  BY <1>1, <1>2 DEF Framed
<1>9. SquareOld'
  <2> SUFFICES ASSUME NEW e \in Eips, InSquare(e)'
               PROVE  /\ entered[e] > 0
                      /\ \A u \in Threads :
                           pc'[u] \in EarlySquare /\ eip[u] = e => entered[e] > 1
    BY <1>1 DEF SquareOld
  <2>1. CASE InSquare(e)
    BY <2>1, <1>7 DEF Old, SquareOld
  <2>2. CASE e = eip[t]
    <3>1. entered[e] > 0
      BY <2>2, <1>2 DEF Old, Visiting
    <3>2. ASSUME NEW u \in Threads, pc'[u] \in EarlySquare, eip[u] = e PROVE entered[e] > 1
      <4>1. u # t /\ pc[u] # "idle" /\ pc[t] # "idle"
        BY <3>2, <1>2, <1>7 DEF Early, EarlySquare
      <4> QED BY <3>2, <4>1, <2>2 DEF Old, Apart
    <3> QED BY <3>1, <3>2
  <2> QED BY <1>6, <2>1, <2>2
<1>10. Visiting' /\ Apart'
  BY <1>1, <1>7 DEF Old, Visiting, Apart
<1>11. \A e \in Eips : InWindow(e)' => InWindow(e)
  BY <1>1, <1>2 DEF InWindow
<1>12. WindowOld'
  BY <1>1, <1>7, <1>11 DEF Old, WindowOld
<1>13. SquareFramed'
  BY <1>6, <1>8 DEF Old, SquareFramed
<1>14. FirstVisitNotSkipped'
  BY <1>1, <1>2 DEF FirstVisitNotSkipped
<1> QED BY <1>4, <1>5, <1>9, <1>10, <1>12, <1>13, <1>14 DEF Old

\* A visit begins: whoever has its address, or finds it, is the second one.
LEMMA EnterStep ==
  ASSUME IInv, NEW t \in Threads, Enter(t)
  PROVE  IInv'
<1> USE FrameCaptureAssumption, Windows DEF IInv, Goto, Set
<1>1. PICK e \in Eips, b \in Ebps : /\ eip' = [eip EXCEPT ![t] = e]
                                   /\ ebp' = [ebp EXCEPT ![t] = b]
                                   /\ entered' = [entered EXCEPT ![e] = @ + 1]
  BY DEF Enter
<1>2. /\ UNCHANGED <<circuluar, square_circular, log, reg, i>>
      /\ pc[t] = "idle" /\ pc' = [pc EXCEPT ![t] = "load_id"]
      /\ bSkip' = [bSkip EXCEPT ![t] = FALSE]
  BY DEF Enter, globals
<1>3. /\ pc' \in [Threads -> Labels] /\ bSkip' \in [Threads -> BOOLEAN]
      /\ pc'[t] = "load_id" /\ ~bSkip'[t] /\ eip'[t] = e
      /\ \A u \in Threads \ {t} : pc'[u] = pc[u] /\ bSkip'[u] = bSkip[u] /\ eip'[u] = eip[u]
  BY <1>1, <1>2 DEF TypeOK, Labels
<1>4. /\ entered \in [Eips -> Nat] /\ entered' \in [Eips -> Nat]
      /\ \A x \in Eips : /\ entered[x] \in Nat /\ entered'[x] \in Nat
                        /\ entered'[x] = IF x = e THEN entered[x] + 1 ELSE entered[x]
  <2>1. entered \in [Eips -> Nat]
    BY DEF TypeOK
  <2>2. \A x \in Eips : entered'[x] = IF x = e THEN entered[x] + 1 ELSE entered[x]
    BY <1>1, <2>1
  <2>3. entered' \in [Eips -> Nat]
    BY <1>1, <2>1
  <2> QED BY <2>1, <2>2, <2>3
<1>5. TypeOK'
  <2>1. eip' \in [Threads -> Eips \cup {0}] /\ ebp' \in [Threads -> Ebps \cup {0}]
    BY <1>1 DEF TypeOK
  <2>2. begun' \in 0..MaxVisits
    BY DEF Enter, TypeOK
  <2> QED BY <1>2, <1>3, <1>4, <2>1, <2>2 DEF Enter, globals, ids, TypeOK
<1>6. Indexed' /\ Fresh'
  BY <1>2, <1>3 DEF Indexed, Fresh
<1>7. \A x \in Eips : (InWindow(x)' => InWindow(x)) /\ (InSquare(x)' => InSquare(x))
  BY <1>2, <1>3 DEF InWindow, InSquare
<1>8. Visiting'
  <2> SUFFICES ASSUME NEW u \in Threads, pc'[u] # "idle"
               PROVE  eip'[u] \in Eips /\ entered'[eip'[u]] > 0
    BY DEF Visiting
  <2>1. CASE u = t
    BY <1>3, <1>4, <2>1
  <2>2. CASE u # t
    <3>1. pc[u] # "idle" /\ eip'[u] = eip[u]
      BY <1>3, <2>2
    <3>2. eip[u] \in Eips /\ entered[eip[u]] > 0
      BY <3>1 DEF Old, Visiting
    <3>3. entered'[eip[u]] > 0
      BY ONLY <1>4, <3>2
    <3> QED BY <3>1, <3>2, <3>3
  <2> QED BY <2>1, <2>2
<1>9. Apart'
  <2> SUFFICES ASSUME NEW u \in Threads, NEW v \in Threads, u # v,
                      pc'[u] # "idle", pc'[v] # "idle", eip'[u] = eip'[v]
               PROVE  entered'[eip'[u]] > 1
    BY DEF Apart
  <2>1. CASE u # t /\ v # t
    <3>1. eip[u] \in Eips /\ entered[eip[u]] > 1
      BY <2>1, <1>3 DEF Old, Visiting, Apart
    <3>2. eip'[u] = eip[u]
      BY <2>1, <1>3
    <3>3. entered[eip[u]] \in Nat /\ entered'[eip[u]] \in {entered[eip[u]], entered[eip[u]] + 1}
      BY <3>1, <1>4
    <3> QED BY <3>1, <3>2, <3>3
  <2>2. ASSUME NEW w \in Threads \ {t}, pc'[w] # "idle", eip'[w] = e PROVE entered'[e] > 1
    <3>1. entered[e] > 0
      BY <2>2, <1>3 DEF Old, Visiting
    <3> QED BY <3>1, <1>4
  <2> QED BY <2>1, <2>2, <1>3
<1>10. WindowOld'
  <2> SUFFICES ASSUME NEW x \in Eips, InWindow(x)'
               PROVE  /\ entered'[x] > 0
                      /\ \A u \in Threads : pc'[u] \in Early /\ eip'[u] = x => entered'[x] > 1
    BY DEF WindowOld
  <2>1. /\ entered[x] > 0
        /\ \A u \in Threads : pc[u] \in Early /\ eip[u] = x => entered[x] > 1
    BY <1>7 DEF Old, WindowOld
  <2> QED BY <2>1, <1>3, <1>4
<1>11. SquareOld'
  <2> SUFFICES ASSUME NEW x \in Eips, InSquare(x)'
               PROVE  /\ entered'[x] > 0
                      /\ \A u \in Threads :
                           pc'[u] \in EarlySquare /\ eip'[u] = x => entered'[x] > 1
    BY DEF SquareOld
  <2>1. /\ entered[x] > 0
        /\ \A u \in Threads : pc[u] \in EarlySquare /\ eip[u] = x => entered[x] > 1
    BY <1>7 DEF Old, SquareOld
  <2> QED BY <2>1, <1>3, <1>4
<1>12. SquareFramed'
  <2>1. \A x \in Eips : Framed(x) => Framed(x)'
    BY <1>2, <1>3 DEF Framed
  <2> QED BY <1>7, <2>1 DEF Old, SquareFramed
<1>13. FirstVisitNotSkipped'
  <2> SUFFICES ASSUME NEW u \in Threads, bSkip'[u],
                      pc'[u] \in {"compare", "circle_load", "circle_store", "circle_last",
                                 "square", "load_ebp"}
               PROVE  entered'[eip'[u]] > 1
    BY DEF FirstVisitNotSkipped
  <2>1. u # t /\ entered[eip[u]] > 1 /\ eip[u] \in Eips
    BY <1>3 DEF FirstVisitNotSkipped, Old, Visiting
  <2>2. eip'[u] = eip[u]
    BY <2>1, <1>3
  <2>3. entered[eip[u]] \in Nat /\ entered'[eip[u]] \in {entered[eip[u]], entered[eip[u]] + 1}
    BY <2>1, <1>4
  <2> QED BY <2>1, <2>2, <2>3
<1> QED BY <1>5, <1>6, <1>8, <1>9, <1>10, <1>11, <1>12, <1>13 DEF Old

\* A visit ends, with its line or without.
LEMMA ReturnStep ==
  ASSUME IInv, NEW t \in Threads, Return(t)
  PROVE  IInv'
<1> USE FrameCaptureAssumption, Windows DEF IInv, Goto, Set
<1> DEFINE line == [sid |-> sid[t], id |-> m_id[t], eip |-> eip[t]]
<1>1. /\ UNCHANGED <<globals, ids, i, reg, locals, bSkip, m_id, sid, begun, entered>>
      /\ pc[t] \in {"log", "return"} /\ pc' \in [Threads -> Labels]
      /\ pc'[t] = "idle" /\ \A u \in Threads \ {t} : pc'[u] = pc[u]
      /\ log' = IF pc[t] = "log" THEN Append(log, line) ELSE log
  BY DEF Return, TypeOK, Labels
<1>2. /\ eip[t] \in Eips /\ line \in [sid : Nat, id : Nat, eip : Eips]
      /\ line.eip = eip[t]
  BY <1>1 DEF Old, Visiting, TypeOK
<1> HIDE DEF line
<1>3. /\ log \in Seq([sid : Nat, id : Nat, eip : Eips])
      /\ log' \in Seq([sid : Nat, id : Nat, eip : Eips])
      /\ \A k \in 1..Len(log) : k \in 1..Len(log') /\ log'[k] = log[k]
      /\ pc[t] = "log" => Len(log') \in 1..Len(log') /\ log'[Len(log')] = line
  <2>1. log \in Seq([sid : Nat, id : Nat, eip : Eips])
    BY DEF TypeOK
  <2>2. CASE pc[t] = "log"
    BY <1>1, <1>2, <2>1, <2>2
  <2>3. CASE pc[t] # "log"
    BY <1>1, <2>1, <2>3
  <2> QED BY <2>2, <2>3
<1>4. TypeOK'
  <2>1. visits' \in Seq(Eips) /\ settled' \in Ebps \cup {0}
    BY <1>2 DEF Return, TypeOK
  <2> QED BY <1>1, <1>3, <2>1 DEF globals, ids, locals, TypeOK
<1>5. Indexed' /\ Fresh'
  BY <1>1 DEF Indexed, Fresh
<1>6. Old'
  <2>1. \A e \in Eips : InWindow(e)' => InWindow(e)
    BY <1>1 DEF InWindow, globals
  <2>2. \A e \in Eips : InSquare(e)' => InSquare(e)
    BY <1>1 DEF InSquare, globals
  <2>3. ASSUME NEW e \in Eips, Framed(e) PROVE Framed(e)'
    <3>1. CASE \E j \in 1..Len(log) : log[j].eip = e
      BY <3>1, <1>3 DEF Framed
    <3>2. ASSUME NEW u \in Threads, pc[u] \in {"load_sid", "store_sid", "log"}, eip[u] = e
          PROVE  Framed(e)'
      <4>1. CASE u = t
        BY <3>2, <4>1, <1>1, <1>2, <1>3 DEF Framed
      <4>2. CASE u # t
        BY <3>2, <4>2, <1>1 DEF Framed, locals
      <4> QED BY <4>1, <4>2
    <3> QED BY <2>3, <3>1, <3>2 DEF Framed
  <2>4. \A u \in Threads : /\ pc'[u] \in Early => pc[u] \in Early
                           /\ pc'[u] \in EarlySquare => pc[u] \in EarlySquare
                           /\ pc'[u] # "idle" => pc[u] # "idle"
    BY <1>1 DEF Early, EarlySquare
  <2> QED BY <1>1, <2>1, <2>2, <2>3, <2>4, Carry DEF locals
<1>7. FirstVisitNotSkipped'
  BY <1>1 DEF FirstVisitNotSkipped, locals
<1> QED BY <1>4, <1>5, <1>6, <1>7

\* Every step of every thread keeps the invariant.
LEMMA StepInvariant == IInv /\ [Next]_vars => IInv'
<1> SUFFICES ASSUME IInv, [Next]_vars PROVE IInv'
  OBVIOUS
<1>1. ASSUME NEW t \in Threads, Process_Instrument_BBL(t) PROVE IInv'
  BY <1>1, EnterStep, PlainStep, CompareStep, LoadStep, StoreStep, SquareStep, CircleLastStep,
     SquareLastStep, ReturnStep
  DEF Process_Instrument_BBL
<1>2. CASE UNCHANGED vars
  BY <1>2 DEF vars, globals, ids, locals, history, IInv, TypeOK, Indexed, Fresh, Old,
     Visiting, Apart, WindowOld, SquareOld, SquareFramed, InWindow, InSquare, Framed,
     FirstVisitNotSkipped
<1> QED BY <1>1, <1>2 DEF Next

\* The invariant holds however the threads interleave.
THEOREM Invariance == Spec => []IInv
BY InitInvariant, StepInvariant, PTL DEF Spec

\* All variables of frame capture keep their types, and the indices stay in
\* their windows (REProgramInfo.cpp:606-653).
THEOREM TypeCorrect == Spec => [](TypeOK /\ Indexed)
BY Invariance, PTL DEF IInv

\* No race makes the windows take a first visit for a familiar one
\* (REProgramInfo.cpp:606-627).
THEOREM FirstVisitCorrect == Spec => []FirstVisitNotSkipped
BY Invariance, PTL DEF IInv

\* The windows hold what was visited, and what got a frame, for any number of
\* racing threads (REProgramInfo.cpp:606-653).
THEOREM WindowsCorrect == Spec => []WindowsHoldVisits
<1>1. ASSUME IInv PROVE WindowsHoldVisits
  <2>1. ASSUME NEW k \in 0..(N - 1), circuluar[k] # 0
        PROVE  entered[circuluar[k]] > 0
    <3>1. circuluar[k] \in Eips
      BY <1>1, <2>1 DEF IInv, TypeOK
    <3>2. InWindow(circuluar[k])
      BY <2>1 DEF InWindow
    <3> QED BY <1>1, <3>1, <3>2 DEF IInv, Old, WindowOld
  <2>2. ASSUME NEW k \in 0..(SQUARE - 1), square_circular[k] # 0
        PROVE  Framed(square_circular[k])
    <3>1. square_circular[k] \in Eips
      BY <1>1, <2>2 DEF IInv, TypeOK
    <3>2. InSquare(square_circular[k])
      BY <2>2 DEF InSquare
    <3> QED BY <1>1, <3>1, <3>2 DEF IInv, Old, SquareFramed
  <2> QED BY <2>1, <2>2 DEF WindowsHoldVisits, Framed
<1>2. IInv => WindowsHoldVisits
  BY <1>1
<1> QED BY <1>2, Invariance, PTL

-----------------------------------------------------------------------------
(***************************************************************************)
(* One thread: the call is one atomic visit of the timeline, and the visit *)
(* takes place where the call ends.  Until then the invariant says what    *)
(* each window holds in terms of the visits and the frames there have      *)
(* been, entry by entry while a loop is on its way through it, and that    *)
(* bSkip knows exactly the entries that were compared.                     *)
(***************************************************************************)

\* Entry k of the window over the visits v, and of that over the frames l.
Was(v, k) == IF k + Len(v) >= N THEN v[Len(v) - N + k + 1] ELSE 0
Had(l, k) == IF k + Len(l) >= SQUARE THEN l[Len(l) - SQUARE + k + 1].eip ELSE 0

\* Is e among the first n entries?
Meets(v, e, n)   == \E k \in 0..(n - 1) : Was(v, k) = e
Repeats(l, e, n) == \E k \in 0..(n - 1) : Had(l, k) = e
Seen(e)          == Meets(visits, e, N) \/ Repeats(log, e, SQUARE)

Before   == {"idle", "load_id", "store_id"}
Circling == {"compare", "circle_load", "circle_store"}
Shifting == {"shift_load", "shift_store"}
Framing  == {"load_sid", "store_sid", "log"}

FirstWindow(t) ==
  /\ pc[t] \in Before => \A k \in 0..(N - 1) : circuluar[k] = Was(visits, k)
  /\ pc[t] \in Circling => \A k \in 0..(N - 1) :
       circuluar[k] = Was(visits, IF k < i[t] THEN k + 1 ELSE k)
  /\ pc[t] = "circle_store" /\ i[t] + 1 < N => reg[t] = Was(visits, i[t] + 1)
  /\ pc[t] \notin Before \cup Circling =>
       \A k \in 0..(N - 2) : circuluar[k] = Was(visits, k + 1)
  /\ pc[t] \notin Before \cup Circling \cup {"circle_last"} => circuluar[N - 1] = eip[t]

SecondWindow(t) ==
  /\ pc[t] \notin Shifting \cup Framing \cup {"square_last"} =>
       \A k \in 0..(SQUARE - 1) : square_circular[k] = Had(log, k)
  /\ pc[t] \in Shifting => \A k \in 0..(SQUARE - 1) :
       square_circular[k] = Had(log, IF k < i[t] THEN k + 1 ELSE k)
  /\ pc[t] = "shift_store" /\ i[t] + 1 < SQUARE => reg[t] = Had(log, i[t] + 1)
  /\ pc[t] \in Framing \cup {"square_last"} =>
       \A k \in 0..(SQUARE - 2) : square_circular[k] = Had(log, k + 1)
  /\ pc[t] \in Framing => square_circular[SQUARE - 1] = eip[t]

Found(t) ==
  /\ pc[t] = "compare" => (bSkip[t] <=> Meets(visits, eip[t], i[t]))
  /\ pc[t] \in {"circle_load", "circle_store"} =>
       (bSkip[t] <=> Meets(visits, eip[t], i[t] + 1))
  /\ pc[t] = "circle_last" => (bSkip[t] <=> Meets(visits, eip[t], N))
  /\ pc[t] = "square" => ~Meets(visits, eip[t], N)
                         /\ (bSkip[t] <=> Repeats(log, eip[t], i[t]))
  /\ pc[t] = "load_ebp" => (bSkip[t] <=> Seen(eip[t]))
  /\ pc[t] = "store_ebp" => (bSkip[t] <=> Seen(eip[t]) \/ settled = ebp[t])
  /\ pc[t] = "return" => Seen(eip[t]) \/ settled = ebp[t]
  /\ pc[t] \in Shifting \cup Framing \cup {"square_last"} =>
       ~Seen(eip[t]) /\ settled # ebp[t]

Counted(t) ==
  /\ s_last_id = IF pc[t] \in Before THEN Len(visits) ELSE Len(visits) + 1
  /\ pc[t] = "store_id" => reg[t] = Len(visits)
  /\ pc[t] \notin Before => m_id[t] = Len(visits) + 1
  /\ s_last_serialized_id = IF pc[t] = "log" THEN Len(log) + 1 ELSE Len(log)
  /\ pc[t] = "store_sid" => reg[t] = Len(log)
  /\ pc[t] = "log" => sid[t] = Len(log) + 1
  /\ last_ebp = IF pc[t] \in Shifting \cup Framing \cup {"square_last", "return"}
                THEN ebp[t] ELSE settled
  /\ pc[t] # "idle" => ebp[t] \in Ebps

Alone(t) == FirstWindow(t) /\ SecondWindow(t) /\ Found(t) /\ Counted(t)

\* The windows of one more visit, of one more frame.
LEMMA WasAppend ==
  ASSUME NEW v \in Seq(Eips), NEW e \in Eips
  PROVE  /\ \A k \in 0..(N - 2) : Was(Append(v, e), k) = Was(v, k + 1)
         /\ Was(Append(v, e), N - 1) = e
<1> PICK n \in Nat : n = Len(v)
  OBVIOUS
<1>1. /\ Len(Append(v, e)) = n + 1 /\ Append(v, e)[n + 1] = e
      /\ \A k \in 1..n : Append(v, e)[k] = v[k]
  OBVIOUS
<1>2. ASSUME NEW k \in 0..(N - 2) PROVE Was(Append(v, e), k) = Was(v, k + 1)
  <2>1. CASE k + (n + 1) >= N
    <3>1. n - N + (k + 1) + 1 = (n + 1) - N + k + 1 /\ (n + 1) - N + k + 1 \in 1..n
      BY <2>1, Windows
    <3> QED BY <1>1, <2>1, <3>1, Windows DEF Was
  <2>2. CASE ~(k + (n + 1) >= N)
    BY <1>1, <2>2, Windows DEF Was
  <2> QED BY <2>1, <2>2
<1>3. Was(Append(v, e), N - 1) = e
  <2>1. (N - 1) + (n + 1) >= N /\ (n + 1) - N + (N - 1) + 1 = n + 1
    BY Windows
  <2> QED BY <1>1, <2>1 DEF Was
<1> QED BY <1>2, <1>3

LEMMA HadAppend ==
  ASSUME NEW l \in Seq([sid : Nat, id : Nat, eip : Eips]),
         NEW f \in [sid : Nat, id : Nat, eip : Eips]
  PROVE  /\ \A k \in 0..(SQUARE - 2) : Had(Append(l, f), k) = Had(l, k + 1)
         /\ Had(Append(l, f), SQUARE - 1) = f.eip
<1> PICK n \in Nat : n = Len(l)
  OBVIOUS
<1>1. /\ Len(Append(l, f)) = n + 1 /\ Append(l, f)[n + 1] = f
      /\ \A k \in 1..n : Append(l, f)[k] = l[k]
  OBVIOUS
<1>2. ASSUME NEW k \in 0..(SQUARE - 2) PROVE Had(Append(l, f), k) = Had(l, k + 1)
  <2>1. CASE k + (n + 1) >= SQUARE
    <3>1. n - SQUARE + (k + 1) + 1 = (n + 1) - SQUARE + k + 1
          /\ (n + 1) - SQUARE + k + 1 \in 1..n
      BY <2>1, Windows
    <3> QED BY <1>1, <2>1, <3>1, Windows DEF Had
  <2>2. CASE ~(k + (n + 1) >= SQUARE)
    BY <1>1, <2>2, Windows DEF Had
  <2> QED BY <2>1, <2>2
<1>3. Had(Append(l, f), SQUARE - 1) = f.eip
  <2>1. (SQUARE - 1) + (n + 1) >= SQUARE /\ (n + 1) - SQUARE + (SQUARE - 1) + 1 = n + 1
    BY Windows
  <2> QED BY <1>1, <2>1 DEF Had
<1> QED BY <1>2, <1>3

\* One entry more is compared.
LEMMA OneMore ==
  ASSUME NEW v, NEW l, NEW e, NEW n \in Nat
  PROVE  /\ Meets(v, e, n + 1) <=> Meets(v, e, n) \/ Was(v, n) = e
         /\ Repeats(l, e, n + 1) <=> Repeats(l, e, n) \/ Had(l, n) = e
         /\ ~Meets(v, e, 0) /\ ~Repeats(l, e, 0)
<1>1. 0..((n + 1) - 1) = 0..(n - 1) \cup {n} /\ 0..(0 - 1) = {}
  OBVIOUS
<1> QED BY <1>1 DEF Meets, Repeats

\* What the windows know is what the timeline looks for.
LEMMA SeenFamiliar ==
  ASSUME TypeOK, NEW e \in Eips
  PROVE  Seen(e) <=> Timeline!Familiar(e)
<1> PICK n \in Nat : n = Len(visits)
  BY DEF TypeOK
<1> PICK m \in Nat : m = Len(log)
  BY DEF TypeOK
<1>0. e # 0
  BY FrameCaptureAssumption
<1>1. Meets(visits, e, N) <=> e \in Timeline!LastOf(visits, N)
  <2>1. ASSUME NEW k \in 0..(N - 1), Was(visits, k) = e
        PROVE  e \in Timeline!LastOf(visits, N)
    <3>1. k + n >= N
      BY <1>0, <2>1 DEF Was
    <3>2. n - N + k + 1 \in 1..n /\ (n - N + k + 1) + N > n
      BY <3>1, Windows
    <3>3. visits[n - N + k + 1] = e
      BY <2>1, <3>1 DEF Was
    <3>4. \E j \in {j \in 1..Len(visits) : j + N > Len(visits)} : visits[j] = e
      BY ONLY <3>2, <3>3, n = Len(visits)
    <3> QED BY ONLY <3>4 DEF Timeline!LastOf
  <2>2. ASSUME NEW j \in 1..n, j + N > n, visits[j] = e
        PROVE  Meets(visits, e, N)
    <3>1. PICK k \in 0..(N - 1) : k = j + N - n - 1
      <4>1. j + N - n - 1 \in 0..(N - 1)
        BY <2>2, Windows
      <4> QED BY <4>1
    <3>2. k + n >= N /\ n - N + k + 1 = j
      BY <3>1, Windows
    <3>3. Was(visits, k) = e
      BY <2>2, <3>2 DEF Was
    <3> QED BY <3>3 DEF Meets
  <2> QED BY <2>1, <2>2 DEF Meets, Timeline!LastOf
<1>2. Repeats(log, e, SQUARE) <=> \E f \in Timeline!LastOf(log, SQUARE) : f.eip = e
  <2>1. ASSUME NEW k \in 0..(SQUARE - 1), Had(log, k) = e
        PROVE  \E f \in Timeline!LastOf(log, SQUARE) : f.eip = e
    <3>1. k + m >= SQUARE
      BY <1>0, <2>1 DEF Had
    <3>2. m - SQUARE + k + 1 \in 1..m /\ (m - SQUARE + k + 1) + SQUARE > m
      BY <3>1, Windows
    <3>3. log[m - SQUARE + k + 1].eip = e
      BY <2>1, <3>1 DEF Had
    <3>4. \E j \in {j \in 1..Len(log) : j + SQUARE > Len(log)} : log[j].eip = e
      BY ONLY <3>2, <3>3, m = Len(log)
    <3> QED BY ONLY <3>4 DEF Timeline!LastOf
  <2>2. ASSUME NEW j \in 1..m, j + SQUARE > m, log[j].eip = e
        PROVE  Repeats(log, e, SQUARE)
    <3>1. PICK k \in 0..(SQUARE - 1) : k = j + SQUARE - m - 1
      <4>1. j + SQUARE - m - 1 \in 0..(SQUARE - 1)
        BY <2>2, Windows
      <4> QED BY <4>1
    <3>2. k + m >= SQUARE /\ m - SQUARE + k + 1 = j
      BY <3>1, Windows
    <3>3. Had(log, k) = e
      BY <2>2, <3>2 DEF Had
    <3> QED BY <3>3 DEF Repeats
  <2> QED BY <2>1, <2>2 DEF Repeats, Timeline!LastOf
<1>3. N \div 2 = SQUARE
  BY DEF N, SQUARE
<1> QED BY <1>1, <1>2, <1>3 DEF Seen, Timeline!Familiar


\* The types the steps below need of a thread.
LEMMA OneTypes ==
  ASSUME IInv, NEW t \in Threads
  PROVE  /\ pc \in [Threads -> Labels] /\ i \in [Threads -> 0..N] /\ reg \in [Threads -> Nat]
         /\ eip \in [Threads -> Eips \cup {0}] /\ ebp \in [Threads -> Ebps \cup {0}]
         /\ bSkip \in [Threads -> BOOLEAN] /\ bSkip[t] \in BOOLEAN
         /\ m_id \in [Threads -> Nat] /\ sid \in [Threads -> Nat]
         /\ pc[t] # "idle" => eip[t] \in Eips
BY DEF IInv, TypeOK, Old, Visiting

\* A visit begins, and gets its id.
LEMMA BeginAlone ==
  ASSUME IInv, NEW t \in Threads, Alone(t), Enter(t) \/ LoadId(t) \/ StoreId(t)
  PROVE  Alone(t)'
<1> USE OneTypes DEF Goto, Set
<1>1. /\ UNCHANGED <<circuluar, square_circular, last_ebp, s_last_serialized_id, sid, log,
                     visits, settled>>
      /\ pc[t] \in Before
  BY DEF Enter, LoadId, StoreId, globals, ids, locals, history, Before
<1>2. \/ /\ pc'[t] \in {"load_id", "store_id"} /\ s_last_id' = s_last_id
         /\ pc'[t] = "store_id" => reg'[t] = s_last_id
      \/ /\ pc'[t] = "compare" /\ i'[t] = 0 /\ ~bSkip[t] /\ bSkip' = bSkip
         /\ pc[t] = "store_id" /\ s_last_id' = reg[t] + 1 /\ m_id'[t] = reg[t] + 1
  <2>1. CASE Enter(t)
    BY <2>1 DEF Enter, ids
  <2>2. CASE LoadId(t)
    BY <2>2 DEF LoadId, ids
  <2>3. CASE StoreId(t)
    <3>1. ~bSkip[t]
      BY <2>3 DEF StoreId, IInv, Fresh
    <3> QED BY <2>3, <3>1 DEF StoreId
  <2> QED BY <2>1, <2>2, <2>3
<1>3. FirstWindow(t)'
  BY <1>1, <1>2 DEF Alone, FirstWindow, Before, Circling
<1>4. SecondWindow(t)'
  BY <1>1, <1>2 DEF Alone, SecondWindow, Before, Shifting, Framing
<1>5. Found(t)'
  BY <1>1, <1>2, OneMore DEF Found, Shifting, Framing
<1>6. Counted(t)'
  <2>1. ebp'[t] \in Ebps
    <3>1. CASE Enter(t)
      BY <3>1 DEF Enter
    <3>2. CASE LoadId(t) \/ StoreId(t)
      BY <3>2 DEF LoadId, StoreId, locals, Alone, Counted
    <3> QED BY <3>1, <3>2
  <2> QED BY <1>1, <1>2, <2>1 DEF Alone, Counted, Before, Shifting, Framing
<1> QED BY <1>3, <1>4, <1>5, <1>6 DEF Alone

\* The loop over the first window compares one entry, and moves one up.
LEMMA CircleAlone ==
  ASSUME IInv, NEW t \in Threads, Alone(t), Compare(t) \/ CircleLoad(t) \/ CircleStore(t)
  PROVE  Alone(t)'
<1> USE OneTypes DEF Goto, Set
<1>1. /\ UNCHANGED <<square_circular, last_ebp, s_last_id, s_last_serialized_id, m_id, sid,
                     eip, ebp, log, visits, settled>>
      /\ pc[t] \in Circling /\ i[t] \in 0..(N - 1)
  BY DEF Compare, CircleLoad, CircleStore, globals, ids, locals, history, Circling, IInv, Indexed
<1>2. \/ /\ pc[t] = "compare" /\ pc'[t] = "circle_load"
         /\ circuluar' = circuluar /\ i' = i
         /\ bSkip'[t] = (bSkip[t] \/ circuluar[i[t]] = eip[t])
      \/ /\ pc[t] = "circle_load" /\ pc'[t] = "circle_store"
         /\ circuluar' = circuluar /\ i' = i /\ bSkip' = bSkip
         /\ reg'[t] = circuluar[(i[t] + 1) % N]
      \/ /\ pc[t] = "circle_store" /\ bSkip' = bSkip /\ i'[t] = i[t] + 1
         /\ circuluar' = [circuluar EXCEPT ![i[t]] = reg[t]]
         /\ \/ pc'[t] = "compare" /\ i'[t] < N
            \/ pc'[t] = "circle_last" /\ i[t] = N - 1
  <2>1. CASE CircleLoad(t)
    BY <2>1 DEF CircleLoad, globals
  <2>3. CASE Compare(t)
    BY <2>3 DEF Compare, globals
  <2>2. CASE CircleStore(t)
    <3>1. pc'[t] = IF i[t] + 1 < N THEN "compare" ELSE "circle_last"
      BY <2>2 DEF CircleStore
    <3> QED BY <1>1, <2>2, <3>1, Windows DEF CircleStore
  <2> QED BY <2>1, <2>2, <2>3
<1>3. \A k \in 0..(N - 1) : circuluar[k] = Was(visits, IF k < i[t] THEN k + 1 ELSE k)
  BY <1>1 DEF Alone, FirstWindow
<1>4. (i[t] + 1) % N = IF i[t] + 1 = N THEN 0 ELSE i[t] + 1
  BY <1>1, Windows
<1>5. FirstWindow(t)'
  <2>1. CASE pc[t] = "circle_load"
    <3>1. i[t] + 1 < N => reg'[t] = Was(visits, i[t] + 1)
      <4> SUFFICES ASSUME i[t] + 1 < N PROVE reg'[t] = Was(visits, i[t] + 1)
        OBVIOUS
      <4>1. reg'[t] = circuluar[i[t] + 1] /\ i[t] + 1 \in 0..(N - 1)
        BY <1>1, <1>2, <1>4, <2>1, Windows
      <4> QED BY <1>1, <1>3, <4>1
    <3> QED BY <1>1, <1>2, <1>3, <2>1, <3>1 DEF FirstWindow, Before, Circling
  <2>2. CASE pc[t] = "circle_store"
    <3>1. i[t] + 1 < N => reg[t] = Was(visits, i[t] + 1)
      BY <2>2 DEF Alone, FirstWindow
    <3>2. \A k \in 0..(N - 1) : circuluar'[k] = IF k = i[t] THEN reg[t] ELSE circuluar[k]
      BY <1>1, <1>2, <2>2 DEF IInv, TypeOK
    <3>3. CASE i[t] + 1 < N
      <4>1. \A k \in 0..(N - 1) : circuluar'[k] = Was(visits, IF k < i[t] + 1 THEN k + 1 ELSE k)
        BY <1>1, <1>3, <3>1, <3>2, <3>3
      <4> QED BY <1>1, <1>2, <2>2, <3>3, <4>1, Windows DEF FirstWindow, Before, Circling
    <3>4. CASE ~(i[t] + 1 < N)
      <4>1. \A k \in 0..(N - 2) : circuluar'[k] = Was(visits, k + 1)
        BY <1>1, <1>3, <3>2, <3>4, Windows
      <4>2. pc'[t] = "circle_last"
        BY <1>1, <1>2, <2>2, <3>4, Windows
      <4> QED BY <1>1, <4>1, <4>2 DEF FirstWindow, Before, Circling
    <3> QED BY <3>3, <3>4
  <2>3. CASE pc[t] = "compare"
    BY <1>1, <1>2, <1>3, <2>3 DEF FirstWindow, Before, Circling
  <2> QED BY <1>2, <2>1, <2>2, <2>3
<1>6. SecondWindow(t)'
  BY <1>1, <1>2 DEF Alone, SecondWindow, Circling, Shifting, Framing
<1>7. Found(t)'
  <2>1. circuluar[i[t]] = Was(visits, i[t]) /\ i[t] \in Nat
    BY <1>1, <1>3
  <2>2. Meets(visits, eip[t], i[t] + 1) <=> Meets(visits, eip[t], i[t]) \/ Was(visits, i[t]) = eip[t]
    BY ONLY <2>1, OneMore
  <2>3. CASE pc[t] = "circle_load"
    BY <1>1, <1>2, <2>3 DEF Alone, Found, Shifting, Framing
  <2>5. CASE pc[t] = "compare"
    BY <1>1, <1>2, <2>1, <2>2, <2>5 DEF Alone, Found, Shifting, Framing
  <2>4. CASE pc[t] = "circle_store"
    <3>1. i[t] = N - 1 => i[t] + 1 = N
      BY <1>1, Windows
    <3> QED BY <1>1, <1>2, <2>4, <3>1 DEF Alone, Found, Shifting, Framing
  <2> QED BY <1>2, <2>3, <2>4, <2>5
<1>8. Counted(t)'
  BY <1>1, <1>2 DEF Alone, Counted, Before, Circling, Shifting, Framing
<1> QED BY <1>5, <1>6, <1>7, <1>8 DEF Alone

\* The address enters the first window; the loop over the second compares.
LEMMA SquareAlone ==
  ASSUME IInv, NEW t \in Threads, Alone(t), CircleLast(t) \/ Square(t)
  PROVE  Alone(t)'
<1> USE OneTypes DEF Goto, Set
<1>1. /\ UNCHANGED <<square_circular, last_ebp, s_last_id, s_last_serialized_id, m_id, sid,
                     eip, ebp, log, visits, settled>>
      /\ pc[t] \in {"circle_last", "square"}
  BY DEF CircleLast, Square, globals, ids, locals, history
<1>2. \/ /\ pc[t] = "circle_last" /\ pc'[t] = IF bSkip[t] THEN "load_ebp" ELSE "square"
         /\ circuluar' = [circuluar EXCEPT ![N - 1] = eip[t]]
         /\ i'[t] = 0 /\ bSkip' = bSkip
      \/ /\ pc[t] = "square" /\ i[t] \in 0..(SQUARE - 1)
         /\ bSkip'[t] = (bSkip[t] \/ square_circular[i[t]] = eip[t])
         /\ i'[t] = i[t] + 1 /\ circuluar' = circuluar
         /\ pc'[t] = IF i[t] + 1 < SQUARE THEN "square" ELSE "load_ebp"
  <2>1. CASE CircleLast(t)
    BY <2>1 DEF CircleLast
  <2>2. CASE Square(t)
    BY <2>2 DEF Square, globals, IInv, Indexed
  <2> QED BY <2>1, <2>2
<1>3. FirstWindow(t)'
  <2>1. CASE pc[t] = "circle_last"
    <3>1. /\ \A k \in 0..(N - 2) : circuluar'[k] = circuluar[k]
          /\ circuluar'[N - 1] = eip[t]
      <4>1. circuluar \in [0..(N - 1) -> Eips \cup {0}] /\ N - 1 \in 0..(N - 1)
        BY Windows DEF IInv, TypeOK
      <4>2. \A k \in 0..(N - 2) : k \in 0..(N - 1) /\ k # N - 1
        BY Windows
      <4> QED BY <1>2, <2>1, <4>1, <4>2
    <3> QED BY <1>1, <1>2, <2>1, <3>1 DEF Alone, FirstWindow, Before, Circling
  <2>2. CASE pc[t] = "square"
    BY <1>1, <1>2, <2>2 DEF Alone, FirstWindow, Before, Circling
  <2> QED BY <1>2, <2>1, <2>2
<1>4. SecondWindow(t)'
  BY <1>1, <1>2 DEF Alone, SecondWindow, Shifting, Framing
<1>5. Found(t)'
  <2>1. CASE pc[t] = "circle_last"
    <3>1. ~Repeats(log, eip[t], 0)
      BY OneMore
    <3>2. bSkip[t] <=> Meets(visits, eip[t], N)
      BY <2>1 DEF Alone, Found
    <3> QED BY ONLY <1>1, <1>2, <2>1, <3>1, <3>2 DEF Found, Seen, Shifting, Framing
  <2>2. CASE pc[t] = "square"
    <3>1. square_circular[i[t]] = Had(log, i[t]) /\ i[t] \in Nat
      BY <1>2, <2>2 DEF Alone, SecondWindow, Shifting, Framing
    <3>2. Repeats(log, eip[t], i[t] + 1)
            <=> Repeats(log, eip[t], i[t]) \/ Had(log, i[t]) = eip[t]
      BY ONLY <3>1, OneMore
    <3>3. /\ ~Meets(visits, eip[t], N)
          /\ bSkip'[t] <=> Repeats(log, eip[t], i[t] + 1)
      BY <1>2, <2>2, <3>1, <3>2 DEF Alone, Found
    <3>4. ~(i[t] + 1 < SQUARE) => i[t] + 1 = SQUARE
      BY <1>2, <2>2, Windows
    <3> QED BY <1>1, <1>2, <2>2, <3>3, <3>4 DEF Found, Seen, Shifting, Framing
  <2> QED BY <1>2, <2>1, <2>2
<1>6. Counted(t)'
  BY <1>1, <1>2 DEF Alone, Counted, Before, Shifting, Framing
<1> QED BY <1>3, <1>4, <1>5, <1>6 DEF Alone

\* The frame pointer is compared and kept.
LEMMA EbpAlone ==
  ASSUME IInv, NEW t \in Threads, Alone(t), LoadEbp(t) \/ StoreEbp(t)
  PROVE  Alone(t)'
<1> USE OneTypes DEF Goto, Set
<1>1. /\ UNCHANGED <<circuluar, square_circular, s_last_id, s_last_serialized_id, m_id, sid,
                     eip, ebp, log, visits, settled>>
      /\ pc[t] \in {"load_ebp", "store_ebp"} /\ eip[t] # 0
  BY FrameCaptureAssumption DEF LoadEbp, StoreEbp, globals, ids, locals, history
<1>2. \/ /\ pc[t] = "load_ebp" /\ pc'[t] = "store_ebp" /\ last_ebp' = last_ebp
         /\ bSkip'[t] = (bSkip[t] \/ last_ebp = ebp[t])
      \/ /\ pc[t] = "store_ebp" /\ last_ebp' = ebp[t] /\ i'[t] = 0 /\ bSkip' = bSkip
         /\ pc'[t] = IF bSkip[t] THEN "return" ELSE "shift_load"
  <2>1. CASE LoadEbp(t)
    BY <2>1 DEF LoadEbp, globals
  <2>2. CASE StoreEbp(t)
    BY <1>1, <2>2 DEF StoreEbp
  <2> QED BY <2>1, <2>2
<1>3. FirstWindow(t)'
  BY <1>1, <1>2 DEF Alone, FirstWindow, Before, Circling
<1>4. SecondWindow(t)'
  BY <1>1, <1>2 DEF Alone, SecondWindow, Shifting, Framing
<1>5. Found(t)'
  <2>1. CASE pc[t] = "load_ebp"
    <3>1. last_ebp = settled
      BY <2>1 DEF Alone, Counted, Shifting, Framing
    <3> QED BY <1>1, <1>2, <2>1, <3>1 DEF Alone, Found, Seen, Shifting, Framing
  <2>2. CASE pc[t] = "store_ebp"
    BY <1>1, <1>2, <2>2 DEF Alone, Found, Seen, Shifting, Framing
  <2> QED BY <1>2, <2>1, <2>2
<1>6. Counted(t)'
  BY <1>1, <1>2 DEF Alone, Counted, Before, Shifting, Framing
<1> QED BY <1>3, <1>4, <1>5, <1>6 DEF Alone

\* The second window moves up and takes the address in.
LEMMA ShiftAlone ==
  ASSUME IInv, NEW t \in Threads, Alone(t), ShiftLoad(t) \/ ShiftStore(t) \/ SquareLast(t)
  PROVE  Alone(t)'
<1> USE OneTypes DEF Goto, Set
<1>1. /\ UNCHANGED <<circuluar, last_ebp, s_last_id, s_last_serialized_id, m_id, sid,
                     eip, ebp, bSkip, log, visits, settled>>
      /\ pc[t] \in Shifting \cup {"square_last"}
      /\ pc[t] \in Shifting => i[t] \in 0..(SQUARE - 1)
  BY DEF ShiftLoad, ShiftStore, SquareLast, globals, ids, locals, history, Shifting,
     IInv, Indexed
<1>2. \/ /\ pc[t] = "shift_load" /\ pc'[t] = "shift_store"
         /\ square_circular' = square_circular /\ i' = i
         /\ reg'[t] = square_circular[(i[t] + 1) % SQUARE]
      \/ /\ pc[t] = "shift_store" /\ i'[t] = i[t] + 1
         /\ square_circular' = [square_circular EXCEPT ![i[t]] = reg[t]]
         /\ pc'[t] = IF i[t] + 1 < SQUARE THEN "shift_load" ELSE "square_last"
      \/ /\ pc[t] = "square_last" /\ pc'[t] = "load_sid"
         /\ square_circular' = [square_circular EXCEPT ![SQUARE - 1] = eip[t]]
  <2>1. CASE ShiftLoad(t)
    BY <2>1 DEF ShiftLoad, globals
  <2>2. CASE ShiftStore(t)
    BY <2>2 DEF ShiftStore
  <2>3. CASE SquareLast(t)
    BY <2>3 DEF SquareLast
  <2> QED BY <2>1, <2>2, <2>3
<1>3. FirstWindow(t)'
  BY <1>1, <1>2 DEF Alone, FirstWindow, Before, Circling, Shifting
<1>4. pc[t] \in Shifting => \A k \in 0..(SQUARE - 1) :
        square_circular[k] = Had(log, IF k < i[t] THEN k + 1 ELSE k)
  BY DEF Alone, SecondWindow
<1>5. square_circular \in [0..(SQUARE - 1) -> Eips \cup {0}] /\ SQUARE - 1 \in 0..(SQUARE - 1)
  BY Windows DEF IInv, TypeOK
<1>6. SecondWindow(t)'
  <2>1. CASE pc[t] = "shift_load"
    <3>1. i[t] + 1 < SQUARE => reg'[t] = Had(log, i[t] + 1)
      <4> SUFFICES ASSUME i[t] + 1 < SQUARE PROVE reg'[t] = Had(log, i[t] + 1)
        OBVIOUS
      <4>1. i[t] + 1 \in 0..(SQUARE - 1) /\ (i[t] + 1) % SQUARE = i[t] + 1
        BY <1>1, <2>1, Windows DEF Shifting
      <4>2. reg'[t] = square_circular[i[t] + 1]
        BY <1>2, <2>1, <4>1
      <4> QED BY <1>1, <1>4, <2>1, <4>1, <4>2 DEF Shifting
    <3> QED BY <1>1, <1>2, <1>4, <2>1, <3>1 DEF SecondWindow, Shifting, Framing
  <2>2. CASE pc[t] = "shift_store"
    <3>1. i[t] + 1 < SQUARE => reg[t] = Had(log, i[t] + 1)
      BY <2>2 DEF Alone, SecondWindow
    <3>2. \A k \in 0..(SQUARE - 1) :
            square_circular'[k] = IF k = i[t] THEN reg[t] ELSE square_circular[k]
      BY <1>2, <1>5, <2>2
    <3>3. CASE i[t] + 1 < SQUARE
      <4>1. \A k \in 0..(SQUARE - 1) :
              square_circular'[k] = Had(log, IF k < i[t] + 1 THEN k + 1 ELSE k)
        BY <1>1, <1>4, <2>2, <3>1, <3>2, <3>3 DEF Shifting
      <4> QED BY <1>1, <1>2, <2>2, <3>3, <4>1 DEF SecondWindow, Shifting, Framing
    <3>4. CASE ~(i[t] + 1 < SQUARE)
      <4>1. \A k \in 0..(SQUARE - 2) : square_circular'[k] = Had(log, k + 1)
        BY <1>1, <1>4, <2>2, <3>2, <3>4, Windows DEF Shifting
      <4> QED BY <1>1, <1>2, <2>2, <3>4, <4>1 DEF SecondWindow, Shifting, Framing
    <3> QED BY <3>3, <3>4
  <2>3. CASE pc[t] = "square_last"
    <3>1. /\ \A k \in 0..(SQUARE - 2) : square_circular'[k] = square_circular[k]
          /\ square_circular'[SQUARE - 1] = eip[t]
      <4>1. \A k \in 0..(SQUARE - 2) : k \in 0..(SQUARE - 1) /\ k # SQUARE - 1
        BY Windows
      <4> QED BY <1>2, <1>5, <2>3, <4>1
    <3> QED BY <1>1, <1>2, <2>3, <3>1 DEF Alone, SecondWindow, Shifting, Framing
  <2> QED BY <1>2, <2>1, <2>2, <2>3
<1>7. Found(t)'
  BY <1>1, <1>2 DEF Alone, Found, Seen, Shifting, Framing
<1>8. Counted(t)'
  BY <1>1, <1>2 DEF Alone, Counted, Before, Shifting, Framing
<1> QED BY <1>3, <1>6, <1>7, <1>8 DEF Alone

\* The frame gets its number.
LEMMA SidAlone ==
  ASSUME IInv, NEW t \in Threads, Alone(t), LoadSid(t) \/ StoreSid(t)
  PROVE  Alone(t)'
<1> USE OneTypes DEF Goto, Set
<1>1. /\ UNCHANGED <<circuluar, square_circular, last_ebp, s_last_id, m_id,
                     eip, ebp, bSkip, log, visits, settled>>
      /\ \/ /\ pc[t] = "load_sid" /\ pc'[t] = "store_sid"
            /\ reg'[t] = s_last_serialized_id /\ UNCHANGED s_last_serialized_id
         \/ /\ pc[t] = "store_sid" /\ pc'[t] = "log"
            /\ s_last_serialized_id' = reg[t] + 1 /\ sid'[t] = reg[t] + 1
  BY DEF LoadSid, StoreSid, globals, ids, locals, history
<1>2. FirstWindow(t)'
  BY <1>1 DEF Alone, FirstWindow, Before, Circling
<1>3. SecondWindow(t)'
  BY <1>1 DEF Alone, SecondWindow, Shifting, Framing
<1>4. Found(t)'
  BY <1>1 DEF Alone, Found, Seen, Shifting, Framing
<1>5. Counted(t)'
  BY <1>1 DEF Alone, Counted, Before, Shifting, Framing
<1> QED BY <1>2, <1>3, <1>4, <1>5 DEF Alone

\* A call that ends is one visit of the timeline.
LEMMA ReturnAlone ==
  ASSUME IInv, NEW t \in Threads, Alone(t), Return(t)
  PROVE  Alone(t)' /\ Timeline!Visit(eip[t], ebp[t])
<1> USE OneTypes DEF Goto, Set
<1> DEFINE line == [sid |-> sid[t], id |-> m_id[t], eip |-> eip[t]]
<1>1. /\ UNCHANGED <<circuluar, square_circular, last_ebp, s_last_id, s_last_serialized_id>>
      /\ pc[t] \in {"log", "return"} /\ pc'[t] = "idle"
      /\ visits' = Append(visits, eip[t]) /\ settled' = ebp[t]
      /\ log' = IF pc[t] = "log" THEN Append(log, line) ELSE log
  BY DEF Return, globals, ids
<1>2. /\ eip[t] \in Eips /\ line \in [sid : Nat, id : Nat, eip : Eips] /\ line.eip = eip[t]
      /\ visits \in Seq(Eips) /\ log \in Seq([sid : Nat, id : Nat, eip : Eips])
      /\ Len(visits) \in Nat /\ Len(log) \in Nat /\ Len(visits') = Len(visits) + 1
  <2>1. eip[t] \in Eips /\ sid[t] \in Nat /\ m_id[t] \in Nat
    BY <1>1
  <2>2. line \in [sid : Nat, id : Nat, eip : Eips] /\ line.eip = eip[t]
    BY ONLY <2>1
  <2>3. visits \in Seq(Eips) /\ log \in Seq([sid : Nat, id : Nat, eip : Eips])
    BY DEF IInv, TypeOK
  <2>4. Len(visits) \in Nat /\ Len(log) \in Nat /\ Len(visits') = Len(visits) + 1
    BY ONLY <1>1, <2>1, <2>3
  <2> QED BY <2>1, <2>2, <2>3, <2>4
<1>3. line = [sid |-> Len(log) + 1, id |-> Len(visits) + 1, eip |-> eip[t]] \/ pc[t] # "log"
  BY DEF Alone, Counted, Before
<1> HIDE DEF line
<1>4. pc[t] = "log" => Len(log') = Len(log) + 1
  BY <1>1, <1>2
<1>5. FirstWindow(t)'
  <2>1. /\ \A k \in 0..(N - 2) : circuluar[k] = Was(visits, k + 1)
        /\ circuluar[N - 1] = eip[t]
    BY <1>1 DEF Alone, FirstWindow, Before, Circling
  <2>2. /\ \A k \in 0..(N - 2) : Was(visits', k) = Was(visits, k + 1)
        /\ Was(visits', N - 1) = eip[t]
    BY <1>1, <1>2, WasAppend
  <2>3. \A k \in 0..(N - 1) : k \in 0..(N - 2) \/ k = N - 1
    BY Windows
  <2>4. \A k \in 0..(N - 1) : circuluar[k] = Was(visits', k)
    BY ONLY <2>1, <2>2, <2>3
  <2> QED BY <1>1, <2>4 DEF FirstWindow, Before, Circling
<1>6. SecondWindow(t)'
  <2>1. CASE pc[t] = "log"
    <3>1. /\ \A k \in 0..(SQUARE - 2) : square_circular[k] = Had(log, k + 1)
          /\ square_circular[SQUARE - 1] = eip[t]
      BY <2>1 DEF Alone, SecondWindow, Shifting, Framing
    <3>2. /\ \A k \in 0..(SQUARE - 2) : Had(log', k) = Had(log, k + 1)
          /\ Had(log', SQUARE - 1) = eip[t]
      BY <1>1, <1>2, <2>1, HadAppend
    <3>3. \A k \in 0..(SQUARE - 1) : k \in 0..(SQUARE - 2) \/ k = SQUARE - 1
      BY Windows
    <3>4. \A k \in 0..(SQUARE - 1) : square_circular[k] = Had(log', k)
      BY ONLY <3>1, <3>2, <3>3
    <3> QED BY <1>1, <3>4 DEF SecondWindow, Shifting, Framing
  <2>2. CASE pc[t] = "return"
    BY <1>1, <2>2 DEF Alone, SecondWindow, Shifting, Framing
  <2> QED BY <1>1, <2>1, <2>2
<1>7. Found(t)'
  BY <1>1 DEF Found, Shifting, Framing
<1>8. Counted(t)'
  BY <1>1, <1>2, <1>4 DEF Alone, Counted, Before, Shifting, Framing
<1>9. Timeline!Visit(eip[t], ebp[t])
  <2>1. Seen(eip[t]) <=> Timeline!Familiar(eip[t])
    BY <1>2, SeenFamiliar DEF IInv
  <2>2. CASE pc[t] = "log"
    <3>1. ~Seen(eip[t]) /\ ebp[t] # settled
      BY <2>2 DEF Alone, Found, Framing
    <3> QED BY <1>1, <1>3, <2>1, <2>2, <3>1 DEF Timeline!Visit
  <2>3. CASE pc[t] = "return"
    <3>1. Seen(eip[t]) \/ ebp[t] = settled
      BY <2>3 DEF Alone, Found
    <3> QED BY <1>1, <2>1, <2>3, <3>1 DEF Timeline!Visit
  <2> QED BY <1>1, <2>2, <2>3
<1> QED BY <1>5, <1>6, <1>7, <1>8, <1>9 DEF Alone

\* Nothing has been visited.
LEMMA InitAlone ==
  ASSUME Init, NEW t \in Threads
  PROVE  Alone(t) /\ Timeline!Init
<1>1. /\ visits = <<>> /\ log = <<>> /\ Len(visits) = 0 /\ Len(log) = 0
      /\ pc[t] = "idle" /\ settled = 0 /\ last_ebp = 0
      /\ s_last_id = 0 /\ s_last_serialized_id = 0
  BY DEF Init
<1>2. \A k \in 0..(N - 1) : circuluar[k] = Was(visits, k)
  BY <1>1, Windows DEF Init, Was
<1>3. \A k \in 0..(SQUARE - 1) : square_circular[k] = Had(log, k)
  BY <1>1, Windows DEF Init, Had
<1>4. FirstWindow(t) /\ SecondWindow(t) /\ Found(t) /\ Counted(t)
  BY <1>1, <1>2, <1>3
  DEF FirstWindow, SecondWindow, Found, Counted, Before, Circling, Shifting, Framing
<1> QED BY <1>1, <1>4 DEF Alone, Timeline!Init

\* Of one thread a step is a visit, or none for the timeline.
LEMMA StepAlone ==
  ASSUME IInv, NEW t, Threads = {t}, Alone(t), [Next]_vars
  PROVE  Alone(t)' /\ [Timeline!Next]_(Timeline!vars)
<1>1. CASE Return(t)
  <2>1. Alone(t)' /\ Timeline!Visit(eip[t], ebp[t])
    BY <1>1, ReturnAlone
  <2>2. eip[t] \in Eips /\ ebp[t] \in Ebps
    BY <1>1, OneTypes DEF Return, Alone, Counted
  <2> QED BY <2>1, <2>2 DEF Timeline!Next
<1>2. CASE ~Return(t) /\ Process_Instrument_BBL(t)
  <2>1. Alone(t)'
    BY <1>2, BeginAlone, CircleAlone, SquareAlone, EbpAlone, ShiftAlone, SidAlone
    DEF Process_Instrument_BBL
  <2>2. UNCHANGED <<visits, log, settled>>
    BY <1>2 DEF Process_Instrument_BBL, Enter, LoadId, StoreId, Compare, CircleLoad, CircleStore,
       CircleLast, Square, LoadEbp, StoreEbp, ShiftLoad, ShiftStore, SquareLast, LoadSid,
       StoreSid, history
  <2> QED BY <2>1, <2>2 DEF Timeline!vars
<1>3. CASE UNCHANGED vars
  <2>1. Alone(t)'
    BY <1>3 DEF vars, globals, ids, locals, history, Alone, FirstWindow, SecondWindow,
       Found, Counted, Seen
  <2> QED BY <1>3, <2>1 DEF vars, history, Timeline!vars
<1> QED BY <1>1, <1>2, <1>3 DEF Next


\* The number of a frame is where its visit is on the timeline.
OnTimeline == \A j \in 1..Len(log) :
  log[j].id \in 1..Len(visits) /\ visits[log[j].id] = log[j].eip

\* A frame is recorded only of an address that has not been visited lately.
LEMMA VisitApart ==
  ASSUME TypeOK, OnTimeline, FramesApart, NEW e \in Eips, NEW b, Timeline!Visit(e, b)
  PROVE  OnTimeline' /\ FramesApart'
<1> PICK n \in Nat : n = Len(visits)
  BY DEF TypeOK
<1> PICK m \in Nat : m = Len(log)
  BY DEF TypeOK
<1>0. visits \in Seq(Eips) /\ log \in Seq([sid : Nat, id : Nat, eip : Eips])
  BY DEF TypeOK
<1>1. /\ Len(visits') = n + 1 /\ visits'[n + 1] = e
      /\ \A k \in 1..n : visits'[k] = visits[k]
  BY <1>0 DEF Timeline!Visit
<1>2. \A j \in 1..m : log[j].id \in 1..n /\ visits[log[j].id] = log[j].eip
  BY DEF OnTimeline
<1>3. CASE UNCHANGED log
  <2>1. OnTimeline'
    BY <1>1, <1>2, <1>3 DEF OnTimeline
  <2> QED BY <1>3, <2>1 DEF FramesApart
<1>4. CASE ~UNCHANGED log
  <2>1. /\ ~Timeline!Familiar(e)
        /\ log' = Append(log, [sid |-> m + 1, id |-> n + 1, eip |-> e])
    BY <1>4 DEF Timeline!Visit
  <2>2. /\ Len(log') = m + 1 /\ log'[m + 1].id = n + 1 /\ log'[m + 1].eip = e
        /\ \A j \in 1..m : log'[j] = log[j]
    BY <1>0, <2>1
  <2>3. \A j \in 1..(m + 1) : j \in 1..m \/ j = m + 1
    OBVIOUS
  <2>4. OnTimeline'
    <3> SUFFICES ASSUME NEW j \in 1..(m + 1)
                 PROVE  log'[j].id \in 1..(n + 1) /\ visits'[log'[j].id] = log'[j].eip
      BY <1>1, <2>2 DEF OnTimeline
    <3>1. CASE j \in 1..m
      BY <1>1, <1>2, <2>2, <3>1
    <3>2. CASE j = m + 1
      BY <1>1, <2>2, <3>2
    <3> QED BY <2>3, <3>1, <3>2
  <2>5. FramesApart'
    <3> SUFFICES ASSUME NEW j \in 1..(m + 1), NEW k \in 1..(m + 1), j < k,
                        log'[j].eip = log'[k].eip
                 PROVE  log'[k].id - log'[j].id > N /\ k - j > SQUARE
      BY <2>2 DEF FramesApart
    <3>1. CASE k \in 1..m
      <4>1. j \in 1..m
        BY <3>1
      <4> QED BY <2>2, <3>1, <4>1 DEF FramesApart
    <3>2. CASE k = m + 1
      <4>1. j \in 1..m /\ log[j].eip = e /\ log'[j] = log[j]
        BY <2>2, <3>2
      <4>2. log[j].id \in 1..n /\ visits[log[j].id] = e
        BY <1>2, <4>1
      <4>3. e \notin Timeline!LastOf(visits, N)
            /\ ~\E f \in Timeline!LastOf(log, SQUARE) : f.eip = e
        BY <2>1 DEF Timeline!Familiar, N, SQUARE
      <4>4. ~(log[j].id + N > n)
        BY <4>2, <4>3 DEF Timeline!LastOf
      <4>5. ~(j + SQUARE > m)
        <5>1. ASSUME j + SQUARE > m
              PROVE  \E p \in {q \in 1..Len(log) : q + SQUARE > Len(log)} : log[p].eip = e
          BY ONLY <4>1, <5>1, m = Len(log)
        <5>2. j + SQUARE > m => \E f \in Timeline!LastOf(log, SQUARE) : f.eip = e
          BY ONLY <5>1 DEF Timeline!LastOf
        <5> QED BY ONLY <4>3, <5>2
      <4>6. n + 1 - log[j].id > N /\ m + 1 - j > SQUARE
        BY <4>1, <4>2, <4>4, <4>5, Windows
      <4>7. log'[k].id = n + 1 /\ log'[j].id = log[j].id
        BY ONLY <2>2, <3>2, <4>1
      <4>8. k - j > SQUARE
        BY ONLY <3>2, <4>6
      <4>9. log'[k].id - log'[j].id > N
        <5>1. PICK p \in Nat : p = log[j].id
          BY <4>2
        <5>2. n + 1 - p > N /\ log'[j].id = p
          BY ONLY <4>6, <4>7, <5>1
        <5>3. log'[k].id - log'[j].id = n + 1 - p
          BY ONLY <4>7, <5>2
        <5> QED BY ONLY <5>2, <5>3
      <4> QED BY ONLY <4>8, <4>9
    <3> QED BY <2>3, <3>1, <3>2
  <2> QED BY <2>4, <2>5
<1> QED BY <1>3, <1>4

OneInv(t) == IInv /\ Alone(t) /\ OnTimeline /\ FramesApart

\* A step of the only thread keeps all of it.
LEMMA OneStep ==
  ASSUME NEW t, Threads = {t}, OneInv(t), [Next]_vars
  PROVE  OneInv(t)'
<1>1. IInv'
  BY StepInvariant DEF OneInv
<1>2. Alone(t)' /\ [Timeline!Next]_(Timeline!vars)
  BY StepAlone DEF OneInv
<1>3. CASE Timeline!Next
  <2>1. PICK e \in Eips, b \in Ebps : Timeline!Visit(e, b)
    BY <1>3 DEF Timeline!Next
  <2> QED BY <1>1, <1>2, <2>1, VisitApart DEF OneInv, IInv
<1>4. CASE UNCHANGED Timeline!vars
  BY <1>1, <1>2, <1>4 DEF OneInv, Timeline!vars, OnTimeline, FramesApart
<1> QED BY <1>2, <1>3, <1>4

\* The invariant of one thread's visits.
LEMMA OneInvariance ==
  ASSUME NEW t, Threads = {t}
  PROVE  Spec => []OneInv(t)
<1>1. Init => OneInv(t)
  <2> SUFFICES ASSUME Init PROVE OneInv(t)
    OBVIOUS
  <2>1. IInv /\ Alone(t)
    BY InitInvariant, InitAlone
  <2>2. Len(log) = 0
    BY DEF Init
  <2> QED BY <2>1, <2>2 DEF OneInv, OnTimeline, FramesApart
<1>2. OneInv(t) /\ [Next]_vars => OneInv(t)'
  BY OneStep
<1> QED BY <1>1, <1>2, PTL DEF Spec

\* With one thread each call is one atomic visit of the timeline, for every size of
\* the windows: shifting them entry by entry and comparing on the way decides as
\* looking back at the last N visits and N/2 frames would (REProgramInfo.cpp:604-670).
THEOREM TimelineCorrect ==
  ASSUME NEW t, Threads = {t}
  PROVE  Spec => ImplementsTimeline
<1>1. Init => Timeline!Init
  BY InitAlone
<1>2. OneInv(t) /\ [Next]_vars => [Timeline!Next]_(Timeline!vars)
  BY StepAlone DEF OneInv
<1> QED BY <1>1, <1>2, OneInvariance, PTL DEF Spec, ImplementsTimeline, Timeline!Spec

\* With one thread two frames of one address are more than N visits and more than
\* N/2 frames apart (REProgramInfo.cpp:606-653).
THEOREM FramesApartCorrect ==
  ASSUME NEW t, Threads = {t}
  PROVE  Spec => []FramesApart
<1>1. OneInv(t) => FramesApart
  BY DEF OneInv
<1> QED BY <1>1, OneInvariance, PTL
=============================================================================
