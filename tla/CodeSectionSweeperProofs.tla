---------------------- MODULE CodeSectionSweeperProofs ----------------------
(***************************************************************************)
(* Theorems about CodeSectionSweeper, for all sections that libdasm can    *)
(* read, all sets of targets and all bounds: the types, what the work list *)
(* reaches, what the first split of the traces keeps, what the gaps hold,  *)
(* that no trace holds bytes that are no instruction, which traces go      *)
(* because of data, and that every step brings the sweep nearer to its end.*)
(*                                                                         *)
(* process() and the walks of the properties are recursive functions over  *)
(* the section.  That they compute what their definitions say at each      *)
(* place is proved first (ProcessIs, WalkToIs), from the last place to the *)
(* first, by the least number of a set (LeastElement).                     *)
(***************************************************************************)
EXTENDS CodeSectionSweeper, TLAPS, FiniteSetTheorems

-----------------------------------------------------------------------------
(***************************************************************************)
(* Least and largest elements; sections.                                   *)
(***************************************************************************)

\* Where instructions and traces may begin, and what a walk yields.
Places == m_code_section_start..(code_section_end + MaxLength)
Data   == {S \in SUBSET Nat : IsFiniteSet(S)}
Walks  == [size : Nat, gen : SUBSET Addresses, lea : Data]

\* What the constants are, and where code and places lie.
LEMMA Bounds ==
  /\ m_code_section_start \in Nat /\ m_code_section_start > 0
  /\ code_section_end \in Nat /\ m_code_section_start < code_section_end
  /\ MaxLength \in Nat /\ MaxLength > 0 /\ Code \subseteq Places /\ Places \subseteq Nat
  /\ AddressSpace \in Nat /\ code_section_end + MaxLength < AddressSpace
<1>1. /\ m_code_section_start \in Nat /\ m_code_section_start > 0
      /\ m_code_section_size \in Nat /\ m_code_section_size > 0
      /\ MaxLength \in Nat /\ MaxLength > 0 /\ AddressSpace \in Nat
  BY StaticTraceAssumption
<1>2. /\ code_section_end \in Nat /\ m_code_section_start < code_section_end
      /\ code_section_end + MaxLength < AddressSpace
  BY <1>1, StaticTraceAssumption DEF code_section_end
<1>3. Code \subseteq Places /\ Places \subseteq Nat
  BY <1>1, <1>2 DEF Code, Places
<1> QED BY <1>1, <1>2, <1>3

\* Every nonempty set of numbers has a least element.
LEMMA LeastElement ==
  ASSUME NEW T \in SUBSET Nat, T # {}
  PROVE  \E x \in T : \A y \in T : x <= y
<1> DEFINE Intervals == {0..t : t \in T}
           Order == StrictSubsetOrdering(Nat)
<1>1. Intervals \subseteq FiniteSubsetsOf(Nat)
  <2>1. \A t \in T : 0..t \subseteq Nat /\ IsFiniteSet(0..t)
    BY FS_Interval
  <2> QED BY <2>1 DEF FiniteSubsetsOf
<1>2. Intervals # {}
  OBVIOUS
<1>3. PICK least \in Intervals : \A other \in Intervals : <<other, least>> \notin Order
  <2> HIDE DEF Intervals, Order
  <2>1. IsWellFoundedOn(Order, FiniteSubsetsOf(Nat))
    BY FS_StrictSubsetOrderingWellFounded DEF Order
  <2> QED BY <1>1, <1>2, <2>1, WFMin
<1>4. PICK x \in T : least = 0..x
  OBVIOUS
<1>5. \A y \in T : y < x => <<0..y, 0..x>> \in Order
  BY DEF StrictSubsetOrdering
<1>6. \A y \in T : ~(y < x)
  BY <1>3, <1>4, <1>5
<1> QED BY <1>6

\* Min is the least element of a nonempty set of numbers.
LEMMA LeastIs ==
  ASSUME NEW T \in SUBSET Nat, T # {}
  PROVE  Min(T) \in T /\ \A y \in T : Min(T) <= y
<1>1. PICK x \in T : \A y \in T : x <= y
  BY LeastElement
<1> QED BY <1>1 DEF Min

\* A nonempty set below a bound has a largest element.
LEMMA LargestIs ==
  ASSUME NEW n \in Nat, NEW T \in SUBSET (0..n), T # {}
  PROVE  Max(T) \in T /\ \A y \in T : y <= Max(T)
<1> DEFINE S == {n - y : y \in T}
<1>1. S \in SUBSET Nat /\ S # {}
  <2>1. \A y \in T : n - y \in Nat
    BY n \in Nat, T \in SUBSET (0..n)
  <2> QED BY <2>1
<1>2. PICK x \in S : \A y \in S : x <= y
  BY <1>1, LeastElement
<1>3. PICK z \in T : x = n - z
  OBVIOUS
<1>4. \A y \in T : n - z <= n - y
  BY <1>2, <1>3
<1>5. \A y \in T : z >= y
  BY <1>4
<1> HIDE DEF S
<1>6. Max(T) \in T /\ \A y \in T : Max(T) >= y
  BY <1>5 DEF Max
<1> QED BY <1>6

\* Of places there is a largest.
LEMMA LastPlace ==
  ASSUME NEW T \in SUBSET Places, T # {}
  PROVE  Max(T) \in T /\ \A y \in T : y <= Max(T)
<1>1. T \in SUBSET (0..(code_section_end + MaxLength)) /\ code_section_end + MaxLength \in Nat
  BY Bounds DEF Places
<1> QED BY <1>1, LargestIs

\* An instruction that can be read ends behind its address, and at a place.
LEMMA Reading ==
  ASSUME NEW sec \in Sections, NEW a, ~Unreadable(sec, a)
  PROVE  /\ a \in Code /\ a \in Places /\ a \in Nat /\ sec[a].length \in 1..MaxLength
         /\ a + sec[a].length \in Places /\ a + sec[a].length > a
<1>1. a \in Code /\ sec[a].length \in 1..MaxLength
  BY SectionsAssumption DEF Unreadable, IsAddrCode
<1> QED BY <1>1, Bounds DEF Code, Places

\* Places are addresses, and so is what is left of a sum.
LEMMA PlacesAre == Places \subseteq Addresses
BY Bounds DEF Places, Addresses

\* An address is taken modulo the address space.
LEMMA Modulo == \A x \in Int : x % AddressSpace \in Addresses
<1>1. AddressSpace \in Nat /\ AddressSpace > 0
  BY Bounds
<1> QED BY <1>1 DEF Addresses

\* Data of two instructions are data.
LEMMA MoreData ==
  ASSUME NEW S \in Data, NEW T \in Data
  PROVE  S \cup T \in Data
<1>1. S \subseteq Nat /\ T \subseteq Nat /\ IsFiniteSet(S) /\ IsFiniteSet(T)
  BY DEF Data
<1>2. IsFiniteSet(S \cup T)
  BY ONLY <1>1, FS_Union
<1> QED BY <1>1, <1>2 DEF Data

\* What is read at an address yields addresses, and finitely many data.
LEMMA Yields ==
  ASSUME NEW sec \in Sections, NEW a, ~Unreadable(sec, a)
  PROVE  /\ DirectTargets(sec, a) \subseteq Addresses /\ GenTargets(sec, a) \subseteq Addresses
         /\ LeaTargets(sec, a) \in Data
<1>1. /\ a \in Nat /\ sec[a].length \in 1..MaxLength /\ sec[a].op \in Int \cup {Indirect}
      /\ sec[a].type = "lea" /\ sec[a].op # Indirect => sec[a].op \in Nat
  BY Reading, SectionsAssumption
<1>2. DirectTargets(sec, a) \subseteq Addresses
  <2>1. sec[a].op # Indirect => a + sec[a].length + sec[a].op \in Int
    BY <1>1
  <2> QED BY <2>1, Modulo DEF DirectTargets
<1>3. a + sec[a].length \in Addresses
  BY Reading, PlacesAre
<1>4. LeaTargets(sec, a) \in Data
  BY <1>1, FS_EmptySet, FS_Singleton DEF LeaTargets, Data
<1> QED BY <1>2, <1>3, <1>4 DEF GenTargets

-----------------------------------------------------------------------------
(***************************************************************************)
(* What the recursive functions over a section compute.  They are defined  *)
(* from the end of the section to its begin: where they are defined from   *)
(* some place on they are so from the place before, and no least place     *)
(* from which they are is left but the first.                              *)
(***************************************************************************)

\* One instruction of a trace, and what follows it.
Read(sec, f, addr) ==
  IF Unreadable(sec, addr) THEN [size |-> 0, gen |-> {}, lea |-> {}]
  ELSE LET i    == sec[addr]
           rest == IF i.type \in {"jmp", "call", "ret"}
                   THEN [size |-> 0, gen |-> {}, lea |-> {}]
                   ELSE f[addr + i.length]
       IN [size |-> i.length + rest.size,
           gen  |-> GenTargets(sec, addr) \cup rest.gen,
           lea  |-> LeaTargets(sec, addr) \cup rest.lea]

\* What is read at a place depends on what is read behind it.
LEMMA ReadBehind ==
  ASSUME NEW sec \in Sections, NEW n \in Places, NEW f, NEW g,
         \A a \in n..(code_section_end + MaxLength) : f[a] \in Walks /\ g[a] = f[a],
         NEW a \in Places, a + 1 >= n
  PROVE  Read(sec, f, a) \in Walks /\ Read(sec, g, a) = Read(sec, f, a)
<1>1. CASE Unreadable(sec, a)
  BY <1>1, FS_EmptySet DEF Read, Walks, Data
<1>2. CASE ~Unreadable(sec, a)
  <2>1. /\ sec[a].length \in Nat
        /\ a + sec[a].length \in n..(code_section_end + MaxLength)
    BY <1>2, Reading, Bounds DEF Places
  <2>2. f[a + sec[a].length] \in Walks /\ g[a + sec[a].length] = f[a + sec[a].length]
    BY <2>1
  <2>3. GenTargets(sec, a) \subseteq Addresses /\ LeaTargets(sec, a) \in Data
    BY <1>2, Yields
  <2>4. Read(sec, g, a) = Read(sec, f, a)
    BY <1>2, <2>2 DEF Read
  <2>5. CASE sec[a].type \in {"jmp", "call", "ret"}
    BY <1>2, <2>1, <2>3, <2>5, FS_EmptySet DEF Read, Walks
  <2>6. CASE sec[a].type \notin {"jmp", "call", "ret"}
    <3>1. PICK rest \in Walks : rest = f[a + sec[a].length]
      BY <2>2
    <3>2. rest.size \in Nat /\ rest.gen \subseteq Addresses /\ rest.lea \in Data
      BY <3>1 DEF Walks
    <3>3. Read(sec, f, a) = [size |-> sec[a].length + rest.size,
                             gen  |-> GenTargets(sec, a) \cup rest.gen,
                             lea  |-> LeaTargets(sec, a) \cup rest.lea]
      BY <1>2, <2>6, <3>1 DEF Read
    <3>4. /\ sec[a].length + rest.size \in Nat
          /\ GenTargets(sec, a) \cup rest.gen \in SUBSET Addresses
          /\ LeaTargets(sec, a) \cup rest.lea \in Data
      BY ONLY <2>1, <2>3, <3>2, MoreData
    <3>5. Read(sec, f, a) \in Walks
      BY ONLY <3>3, <3>4 DEF Walks
    <3> QED BY <2>4, <3>5
  <2> QED BY <2>4, <2>5, <2>6
<1> QED BY <1>1, <1>2

\* process is defined at each place by what it is behind it.
LEMMA ProcessIs ==
  ASSUME NEW sec \in Sections
  PROVE  /\ process(sec) \in [Places -> Walks]
         /\ \A a \in Places : process(sec)[a] = Read(sec, process(sec), a)
<1> DEFINE last == code_section_end + MaxLength
           Defined(n) == \E f \in [n..last -> Walks] : \A a \in n..last : f[a] = Read(sec, f, a)
           From == {n \in Places : Defined(n)}
<1>1. last \in Places /\ last \in Nat
  BY Bounds DEF Places
<1>2. Defined(last)
  <2>1. Unreadable(sec, last)
    BY Bounds DEF Unreadable, IsAddrCode, Code
  <2> DEFINE f == [a \in last..last |-> [size |-> 0, gen |-> {}, lea |-> {}]]
  <2>2. f \in [last..last -> Walks] /\ \A a \in last..last : a = last
    BY <1>1, FS_EmptySet DEF Walks, Data
  <2>3. \A a \in last..last : f[a] = Read(sec, f, a)
    BY <2>1, <2>2 DEF Read
  <2> QED BY <2>2, <2>3
<1>3. ASSUME NEW n \in Places, Defined(n), n # m_code_section_start
      PROVE  n - 1 \in Places /\ Defined(n - 1)
  <2>1. n - 1 \in Places /\ n \in Nat /\ (n - 1)..last = (n..last) \cup {n - 1} /\ n - 1 \notin n..last
    BY <1>3, Bounds DEF Places
  <2>2. PICK f : f \in [n..last -> Walks] /\ \A a \in n..last : f[a] = Read(sec, f, a)
    BY <1>3
  <2>3. PICK g : g = [a \in (n - 1)..last |-> IF a = n - 1 THEN Read(sec, f, n - 1) ELSE f[a]]
    OBVIOUS
  <2>4. \A a \in n..last : f[a] \in Walks /\ g[a] = f[a]
    BY <2>1, <2>2, <2>3
  <2>5. g[n - 1] = Read(sec, f, n - 1)
    BY <2>1, <2>3
  <2>6. ASSUME NEW a \in (n - 1)..last
        PROVE  Read(sec, f, a) \in Walks /\ Read(sec, g, a) = Read(sec, f, a)
    <3>1. a \in Places /\ a + 1 >= n
      BY <2>1, Bounds DEF Places
    <3>2. \A x \in n..(code_section_end + MaxLength) : f[x] \in Walks /\ g[x] = f[x]
      BY <2>4
    <3> QED BY <3>1, <3>2, ReadBehind
  <2>7. \A a \in (n - 1)..last : g[a] \in Walks /\ g[a] = Read(sec, g, a)
    BY <2>1, <2>2, <2>4, <2>5, <2>6
  <2>8. g \in [(n - 1)..last -> Walks]
    BY <2>7, <2>3
  <2> QED BY <2>1, <2>7, <2>8
<1> HIDE DEF Defined
<1>4. Defined(m_code_section_start)
  <2>1. From \in SUBSET Nat /\ From # {}
    BY <1>1, <1>2, Bounds
  <2>2. PICK n \in From : \A k \in From : n <= k
    BY <2>1, LeastElement
  <2>3. n = m_code_section_start
    <3>1. ASSUME n # m_code_section_start PROVE FALSE
      <4>1. n - 1 \in From /\ n \in Nat
        BY <1>3, <2>1, <2>2, <3>1
      <4> QED BY <2>2, <4>1
    <3> QED BY <3>1
  <2> QED BY <2>2, <2>3
<1>5. PICK f \in [Places -> Walks] : \A a \in Places : f[a] = Read(sec, f, a)
  BY <1>4 DEF Defined, Places
<1> DEFINE P(w) == w = [a \in Places |-> Read(sec, w, a)]
<1>6. process(sec) = CHOOSE w : P(w)
  BY DEF process, Read, Places
<1>7. P(f)
  BY <1>5
<1> HIDE DEF P
<1>8. P(process(sec))
  BY ONLY <1>6, <1>7
<1>9. process(sec) = [a \in Places |-> Read(sec, process(sec), a)]
  BY <1>8 DEF P
<1>10. ASSUME NEW a \in Places PROVE process(sec)[a] \in Walks
  <2> DEFINE Bad == {b \in Places : process(sec)[b] \notin Walks}
  <2>1. CASE Bad # {}
    <3>1. PICK b \in Bad : \A c \in Bad : c <= b
      BY <2>1, LastPlace
    <3>2. b \in Places /\ b \in Nat /\ b + 1 \in Nat
      BY Bounds
    <3>3. \A c \in (b + 1)..last : process(sec)[c] \in Walks
      BY <3>1, <3>2, Bounds DEF Places
    <3>4. Read(sec, process(sec), b) \in Walks
      <4>1. CASE b + 1 \in Places
        BY <3>2, <3>3, <4>1, ReadBehind
      <4>2. CASE b + 1 \notin Places
        <5>1. Unreadable(sec, b)
          BY <3>2, <4>2, Bounds DEF Places, Unreadable, IsAddrCode, Code
        <5> QED BY <5>1, FS_EmptySet DEF Read, Walks, Data
      <4> QED BY <4>1, <4>2
    <3> QED BY <1>9, <3>1, <3>2, <3>4
  <2> QED BY <2>1
<1> QED BY <1>9, <1>10

Parts == SUBSET Places

\* One step of the walk from an address to before end.
Steps(sec, w, a, end) ==
  IF a >= end \/ Unreadable(sec, a) THEN {} ELSE {a} \cup w[a + sec[a].length]

\* A step of a walk depends on the walk behind it.
LEMMA StepsBehind ==
  ASSUME NEW sec \in Sections, NEW end, NEW n \in Places, NEW f, NEW g,
         \A a \in n..(code_section_end + MaxLength) : f[a] \in Parts /\ g[a] = f[a],
         NEW a \in Places, a + 1 >= n
  PROVE  Steps(sec, f, a, end) \in Parts /\ Steps(sec, g, a, end) = Steps(sec, f, a, end)
<1>1. CASE a >= end \/ Unreadable(sec, a)
  BY <1>1 DEF Steps, Parts
<1>2. CASE ~(a >= end \/ Unreadable(sec, a))
  <2>1. a + sec[a].length \in n..(code_section_end + MaxLength)
    BY <1>2, Reading, Bounds DEF Places
  <2> QED BY <1>2, <2>1 DEF Steps, Parts
<1> QED BY <1>1, <1>2

\* The walk from a place is the place and the walk from behind its instruction.
LEMMA WalkToIs ==
  ASSUME section \in Sections, NEW end
  PROVE  \A a \in Places :
           /\ WalkTo(a, end) \subseteq Places
           /\ a >= end \/ Unreadable(section, a) => WalkTo(a, end) = {}
           /\ ~(a >= end \/ Unreadable(section, a)) =>
                WalkTo(a, end) = {a} \cup WalkTo(a + section[a].length, end)
<1> PICK sec \in Sections : sec = section
  OBVIOUS
<1> DEFINE last == code_section_end + MaxLength
           Defined(n) == \E f \in [n..last -> Parts] :
                           \A a \in n..last : f[a] = Steps(sec, f, a, end)
           From == {n \in Places : Defined(n)}
<1>1. last \in Places /\ last \in Nat
  BY Bounds DEF Places
<1>2. Defined(last)
  <2>1. Unreadable(sec, last)
    BY Bounds DEF Unreadable, IsAddrCode, Code
  <2> DEFINE f == [a \in last..last |-> {}]
  <2>2. f \in [last..last -> Parts] /\ \A a \in last..last : a = last
    BY <1>1 DEF Parts
  <2>3. \A a \in last..last : f[a] = Steps(sec, f, a, end)
    BY <2>1, <2>2 DEF Steps
  <2> QED BY <2>2, <2>3
<1>3. ASSUME NEW n \in Places, Defined(n), n # m_code_section_start
      PROVE  n - 1 \in Places /\ Defined(n - 1)
  <2>1. n - 1 \in Places /\ n \in Nat /\ (n - 1)..last = (n..last) \cup {n - 1} /\ n - 1 \notin n..last
    BY <1>3, Bounds DEF Places
  <2>2. PICK f : f \in [n..last -> Parts] /\ \A a \in n..last : f[a] = Steps(sec, f, a, end)
    BY <1>3
  <2>3. PICK g : g = [a \in (n - 1)..last |-> IF a = n - 1 THEN Steps(sec, f, n - 1, end) ELSE f[a]]
    OBVIOUS
  <2>4. \A a \in n..last : f[a] \in Parts /\ g[a] = f[a]
    BY <2>1, <2>2, <2>3
  <2>5. g[n - 1] = Steps(sec, f, n - 1, end)
    BY <2>1, <2>3
  <2>6. ASSUME NEW a \in (n - 1)..last
        PROVE  Steps(sec, f, a, end) \in Parts /\ Steps(sec, g, a, end) = Steps(sec, f, a, end)
    <3>1. a \in Places /\ a + 1 >= n
      BY <2>1, Bounds DEF Places
    <3>2. \A x \in n..(code_section_end + MaxLength) : f[x] \in Parts /\ g[x] = f[x]
      BY <2>4
    <3> QED BY <3>1, <3>2, StepsBehind
  <2>7. \A a \in (n - 1)..last : g[a] \in Parts /\ g[a] = Steps(sec, g, a, end)
    BY <2>1, <2>2, <2>4, <2>5, <2>6
  <2>8. g \in [(n - 1)..last -> Parts]
    BY <2>7, <2>3
  <2> QED BY <2>1, <2>7, <2>8
<1> HIDE DEF Defined
<1>4. Defined(m_code_section_start)
  <2>1. From \in SUBSET Nat /\ From # {}
    BY <1>1, <1>2, Bounds
  <2>2. PICK n \in From : \A k \in From : n <= k
    BY <2>1, LeastElement
  <2>3. n = m_code_section_start
    <3>1. ASSUME n # m_code_section_start PROVE FALSE
      <4>1. n - 1 \in From /\ n \in Nat
        BY <1>3, <2>1, <2>2, <3>1
      <4> QED BY <2>2, <4>1
    <3> QED BY <3>1
  <2> QED BY <2>2, <2>3
<1>5. PICK f \in [Places -> Parts] : \A a \in Places : f[a] = Steps(sec, f, a, end)
  BY <1>4 DEF Defined, Places
<1> DEFINE P(w) == w = [a \in Places |-> Steps(sec, w, a, end)]
           walk == CHOOSE w : P(w)
<1>6. \A a : WalkTo(a, end) = walk[a]
  BY DEF WalkTo, Steps, Places
<1>7. P(f)
  BY <1>5
<1> HIDE DEF P
<1>8. P(walk)
  BY ONLY <1>7
<1> HIDE DEF walk
<1>9. walk = [a \in Places |-> Steps(sec, walk, a, end)]
  BY <1>8 DEF P
<1>10. ASSUME NEW a \in Places PROVE walk[a] \in Parts
  <2> DEFINE Bad == {b \in Places : walk[b] \notin Parts}
  <2>1. CASE Bad # {}
    <3>1. PICK b \in Bad : \A c \in Bad : c <= b
      BY <2>1, LastPlace
    <3>2. b \in Places /\ b \in Nat /\ b + 1 \in Nat
      BY Bounds
    <3>3. \A c \in (b + 1)..last : walk[c] \in Parts
      BY <3>1, <3>2, Bounds DEF Places
    <3>4. Steps(sec, walk, b, end) \in Parts
      <4>1. CASE b + 1 \in Places
        BY <3>2, <3>3, <4>1, StepsBehind
      <4>2. CASE b + 1 \notin Places
        <5>1. Unreadable(sec, b)
          BY <3>2, <4>2, Bounds DEF Places, Unreadable, IsAddrCode, Code
        <5> QED BY <5>1 DEF Steps, Parts
      <4> QED BY <4>1, <4>2
    <3> QED BY <1>9, <3>1, <3>2, <3>4
  <2> QED BY <2>1
<1>11. ASSUME NEW a \in Places
       PROVE  /\ WalkTo(a, end) \subseteq Places
              /\ a >= end \/ Unreadable(section, a) => WalkTo(a, end) = {}
              /\ ~(a >= end \/ Unreadable(section, a)) =>
                   WalkTo(a, end) = {a} \cup WalkTo(a + section[a].length, end)
  <2>1. WalkTo(a, end) = walk[a] /\ walk[a] = Steps(sec, walk, a, end)
    BY <1>6, <1>9
  <2>2. WalkTo(a + section[a].length, end) = walk[a + section[a].length]
    BY <1>6
  <2> QED BY <1>10, <2>1, <2>2 DEF Steps, Parts
<1> QED BY <1>11

\* What a walk contains it can read, before its end, and it goes on from there.
LEMMA WalkToHas ==
  ASSUME section \in Sections, NEW end, NEW s \in Places, NEW a \in WalkTo(s, end)
  PROVE  /\ a \in Places /\ s <= a /\ ~(a >= end) /\ ~Unreadable(section, a)
         /\ ~(a + section[a].length >= end) /\ ~Unreadable(section, a + section[a].length)
              => a + section[a].length \in WalkTo(s, end)
<1> DEFINE next(x) == x + section[x].length
           Fits(x, y) == /\ y \in Places /\ x <= y /\ ~(y >= end) /\ ~Unreadable(section, y)
                         /\ ~(next(y) >= end) /\ ~Unreadable(section, next(y))
                              => next(y) \in WalkTo(x, end)
           Bad == {x \in Places : \E y \in WalkTo(x, end) : ~Fits(x, y)}
<1>1. CASE Bad # {}
  <2>1. PICK x \in Bad : \A y \in Bad : y <= x
    BY <1>1, LastPlace
  <2>2. PICK y \in WalkTo(x, end) : ~Fits(x, y)
    OBVIOUS
  <2>3. /\ x \in Places /\ ~(x >= end) /\ ~Unreadable(section, x)
        /\ WalkTo(x, end) = {x} \cup WalkTo(next(x), end)
    BY <2>2, WalkToIs
  <2>4. next(x) \in Places /\ next(x) > x /\ x \in Nat /\ next(x) \in Nat
    BY <2>3, Reading, Bounds
  <2>5. next(x) \notin Bad
    BY <2>1, <2>4
  <2>6. CASE y = x
    <3>1. ~(next(x) >= end) /\ ~Unreadable(section, next(x)) => next(x) \in WalkTo(next(x), end)
      BY <2>4, WalkToIs
    <3> QED BY <2>2, <2>3, <2>4, <2>6, <3>1
  <2>7. CASE y # x
    <3>1. y \in WalkTo(next(x), end)
      BY <2>2, <2>3, <2>7
    <3>2. Fits(next(x), y)
      BY <2>4, <2>5, <3>1
    <3>3. y \in Places /\ next(x) <= y
      BY ONLY <3>2
    <3>4. y \in Nat /\ x <= y
      BY ONLY <2>4, <3>3, Bounds
    <3> QED BY <2>2, <2>3, <3>2, <3>4
  <2> QED BY <2>6, <2>7
<1>2. CASE Bad = {}
  BY <1>2
<1> QED BY <1>1, <1>2

\* A trace from s to e can be read: instructions follow each other from s on to e
\* or beyond.
Walked(sec, s, e) ==
  \E K \in SUBSET Places :
    s \in K /\ \A a \in K : a < e => ~Unreadable(sec, a) /\ a + sec[a].length \in K

\* And one of them ends at e.
Reached(sec, s, e) ==
  \E K \in SUBSET Places :
    /\ s \in K /\ \A a \in K : a < e => ~Unreadable(sec, a) /\ a + sec[a].length \in K
    /\ \A a \in K : a <= e

\* Of a trace that can be read every byte is in an instruction of it.
LEMMA WalkedCovers ==
  ASSUME section \in Sections, NEW s \in Places, NEW e \in Int, Walked(section, s, e)
  PROVE  s..(e - 1) \subseteq
           UNION {a..(a + section[a].length - 1) : a \in WalkTo(s, e)}
<1> SUFFICES ASSUME NEW x \in s..(e - 1)
             PROVE  \E a \in WalkTo(s, e) : x \in a..(a + section[a].length - 1)
  OBVIOUS
<1>1. PICK K \in SUBSET Places : s \in K /\ \A a \in K :
        a < e => ~Unreadable(section, a) /\ a + section[a].length \in K
  BY DEF Walked
<1> DEFINE T == {a \in Places : a \in WalkTo(s, e) /\ a \in K /\ a <= x}
<1>2. s \in Nat /\ x \in Int /\ s <= x /\ x < e
  BY Bounds
<1>3. s \in T
  <2>1. ~(s >= e) /\ ~Unreadable(section, s)
    BY <1>1, <1>2
  <2>2. s \in WalkTo(s, e)
    BY <2>1, WalkToIs
  <2> QED BY <1>1, <1>2, <2>2
<1>4. PICK a \in T : \A b \in T : b <= a
  BY <1>3, LastPlace
<1>5. a \in Nat /\ a <= x /\ a < e
  BY <1>2, Bounds
<1>6. /\ ~Unreadable(section, a) /\ a + section[a].length \in K
      /\ a + section[a].length \in Nat /\ a + section[a].length > a
  BY <1>1, <1>5, Reading, Bounds
<1>7. x < a + section[a].length
  <2>1. ASSUME a + section[a].length <= x PROVE FALSE
    <3>1. a + section[a].length < e
      BY <1>2, <1>6, <2>1
    <3>2. ~(a + section[a].length >= e) /\ ~Unreadable(section, a + section[a].length)
      BY <1>1, <1>2, <1>6, <3>1
    <3>3. a + section[a].length \in T
      BY <1>1, <1>6, <2>1, <3>2, WalkToHas
    <3> QED BY <1>4, <1>6, <3>3, <1>5
  <2> QED BY <1>2, <1>6, <2>1
<1>8. section[a].length \in Nat
  BY <1>6, Reading
<1> QED BY <1>2, <1>5, <1>7, <1>8

\* A shorter trace can be read too; an instruction more; none.
LEMMA WalkedShorter ==
  ASSUME NEW sec \in Sections, NEW s \in Places, NEW e \in Int, NEW d \in Int, d <= e,
         Walked(sec, s, e)
  PROVE  Walked(sec, s, d)
<1>1. PICK K \in SUBSET Places : s \in K /\ \A a \in K :
        a < e => ~Unreadable(sec, a) /\ a + sec[a].length \in K
  BY DEF Walked
<1>2. \A a \in K : a < d => a < e
  BY Bounds
<1> QED BY <1>1, <1>2 DEF Walked

\* What was reached can be read, and so can the instruction behind it.
LEMMA ReachedMore ==
  ASSUME NEW sec \in Sections, NEW s \in Places, NEW e \in Places, Reached(sec, s, e)
  PROVE  /\ Walked(sec, s, e)
         /\ ~Unreadable(sec, e) => Reached(sec, s, e + sec[e].length)
<1>1. PICK K \in SUBSET Places :
        /\ s \in K /\ \A a \in K : a < e => ~Unreadable(sec, a) /\ a + sec[a].length \in K
        /\ \A a \in K : a <= e
  BY DEF Reached
<1>2. Walked(sec, s, e)
  BY <1>1 DEF Walked
<1>3. ASSUME ~Unreadable(sec, e) PROVE Reached(sec, s, e + sec[e].length)
  <2>1. e + sec[e].length \in Places /\ e + sec[e].length > e /\ e \in Nat
        /\ e + sec[e].length \in Nat
    BY <1>3, Reading, Bounds
  <2>2. PICK L \in SUBSET Places : L = K \cup {e, e + sec[e].length}
    BY <2>1
  <2>3. s \in L /\ \A a \in L : a <= e + sec[e].length
    BY <1>1, <2>1, <2>2, Bounds
  <2>4. ASSUME NEW a \in L, a < e + sec[e].length
        PROVE  ~Unreadable(sec, a) /\ a + sec[a].length \in L
    <3>1. CASE a = e
      BY <1>3, <2>2, <3>1
    <3>2. CASE a # e
      <4>1. a \in K /\ a < e
        BY <1>1, <2>1, <2>2, <2>4, <3>2, Bounds
      <4> QED BY <1>1, <2>2, <4>1
    <3> QED BY <3>1, <3>2
  <2> QED BY <2>3, <2>4 DEF Reached
<1> QED BY <1>2, <1>3

\* A trace that has no instruction yet has reached its start.
LEMMA ReachedNone ==
  ASSUME NEW sec, NEW s \in Places
  PROVE  Reached(sec, s, s)
<1>1. {s} \in SUBSET Places /\ \A a \in {s} : a <= s /\ ~(a < s)
  BY Bounds
<1> QED BY <1>1 DEF Reached

\* Where a trace ends that process() makes.
TraceEnd(sec, s) == s + process(sec)[s].size

\* A place is where its trace ends, or the trace goes on behind its instruction.
LEMMA TraceEndIs ==
  ASSUME NEW sec \in Sections, NEW a \in Places
  PROVE  /\ TraceEnd(sec, a) \in Nat /\ a <= TraceEnd(sec, a)
         /\ \/ TraceEnd(sec, a) = a
            \/ /\ ~Unreadable(sec, a)
               /\ \/ TraceEnd(sec, a) = a + sec[a].length
                  \/ TraceEnd(sec, a) = TraceEnd(sec, a + sec[a].length)
<1>1. /\ process(sec)[a] \in Walks /\ process(sec)[a].size \in Nat
      /\ process(sec)[a] = Read(sec, process(sec), a) /\ a \in Nat
  BY ProcessIs, Bounds DEF Walks
<1>2. CASE Unreadable(sec, a)
  BY <1>1, <1>2 DEF Read, TraceEnd
<1>3. CASE ~Unreadable(sec, a)
  <2>1. /\ sec[a].length \in Nat /\ a + sec[a].length \in Places
    BY <1>3, Reading
  <2>2. process(sec)[a + sec[a].length].size \in Nat
    BY <2>1, ProcessIs DEF Walks
  <2>3. \/ process(sec)[a].size = sec[a].length + 0
        \/ process(sec)[a].size = sec[a].length + process(sec)[a + sec[a].length].size
    BY <1>1, <1>3 DEF Read
  <2> QED BY <1>1, <1>3, <2>1, <2>2, <2>3 DEF TraceEnd
<1> QED BY <1>2, <1>3

\* A trace ends at a place, and can be read up to there.
LEMMA TraceWalked ==
  ASSUME NEW sec \in Sections, NEW s \in Places
  PROVE  TraceEnd(sec, s) \in Places /\ Walked(sec, s, TraceEnd(sec, s))
<1>1. TraceEnd(sec, s) \in Places
  <2> DEFINE Bad == {b \in Places : TraceEnd(sec, b) \notin Places}
  <2>1. CASE Bad # {}
    <3>1. PICK b \in Bad : \A c \in Bad : c <= b
      BY <2>1, LastPlace
    <3>2. TraceEnd(sec, b) # b /\ b \in Nat
      BY <3>1, Bounds
    <3>3. ~Unreadable(sec, b) /\ TraceEnd(sec, b + sec[b].length) \notin Places
      BY <3>1, <3>2, TraceEndIs, Reading
    <3>4. b + sec[b].length \in Bad /\ b + sec[b].length > b
      BY <3>3, Reading
    <3>5. b + sec[b].length \in Nat
      BY <3>4, Bounds
    <3> QED BY <3>1, <3>2, <3>4, <3>5
  <2>2. CASE Bad = {}
    BY <2>2
  <2> QED BY <2>1, <2>2
<1> PICK e \in Places : e = TraceEnd(sec, s)
  BY <1>1
<1>2. PICK K \in SUBSET Places : K = {a \in Places : TraceEnd(sec, a) = e} \cup {e}
  OBVIOUS
<1>3. ASSUME NEW a \in K, a < e PROVE ~Unreadable(sec, a) /\ a + sec[a].length \in K
  <2>1. a \in Places /\ a # e /\ a \in Nat
    BY <1>2, <1>3, Bounds
  <2>2. TraceEnd(sec, a) = e
    BY <1>2, <2>1
  <2> QED BY <1>2, <2>1, <2>2, TraceEndIs, Reading
<1>4. s \in K
  BY <1>2
<1> QED BY <1>1, <1>3, <1>4 DEF Walked

\* Whatever a trace contains ends with it.
LEMMA WalkEnds ==
  ASSUME section \in Sections, NEW s \in Places, NEW a \in WalkTo(s, TraceEnd(section, s))
  PROVE  TraceEnd(section, a) = TraceEnd(section, s)
<1> PICK sec \in Sections : sec = section
  OBVIOUS
<1> PICK e \in Places : e = TraceEnd(section, s)
  BY TraceWalked
<1> DEFINE Bad == {x \in Places : /\ TraceEnd(sec, x) = e
                                  /\ \E y \in WalkTo(x, e) : TraceEnd(sec, y) # e}
<1>1. CASE Bad # {}
  <2>1. PICK x \in Bad : \A y \in Bad : y <= x
    BY <1>1, LastPlace
  <2>2. PICK y \in WalkTo(x, e) : TraceEnd(sec, y) # e
    BY <2>1
  <2>3. /\ x \in Places /\ TraceEnd(sec, x) = e /\ ~(x >= e) /\ ~Unreadable(section, x) /\ x # e
        /\ WalkTo(x, e) = {x} \cup WalkTo(x + section[x].length, e)
    BY <2>1, <2>2, WalkToIs, Bounds
  <2> PICK n \in Places : n = x + sec[x].length
    BY <2>3, Reading
  <2>4. n > x /\ n \in Nat /\ x \in Nat
    BY <2>3, Reading, Bounds
  <2>5. y \in WalkTo(n, e)
    BY <2>2, <2>3
  <2>6. n # e
    BY <2>4, <2>5, WalkToIs
  <2>7. TraceEnd(sec, n) = e
    BY <2>3, <2>6, TraceEndIs
  <2>8. n \in Bad
    BY <2>2, <2>5, <2>7
  <2> QED BY <2>1, <2>4, <2>8
<1>2. CASE Bad = {}
  BY <1>2
<1> QED BY <1>1, <1>2

\* A trace is the bytes of the instructions in it.
LEMMA TraceCovers ==
  ASSUME section \in Sections, NEW s \in Places
  PROVE  s..(TraceEnd(section, s) - 1) =
           UNION {a..(a + section[a].length - 1) : a \in WalkTo(s, TraceEnd(section, s))}
<1> PICK sec \in Sections : sec = section
  OBVIOUS
<1> PICK e \in Places : e = TraceEnd(section, s) /\ Walked(section, s, e)
  BY TraceWalked
<1>1. e \in Int /\ s \in Int
  BY Bounds
<1>2. s..(e - 1) \subseteq UNION {a..(a + section[a].length - 1) : a \in WalkTo(s, e)}
  BY <1>1, WalkedCovers
<1>3. ASSUME NEW a \in WalkTo(s, e), NEW x \in a..(a + section[a].length - 1)
      PROVE  x \in s..(e - 1)
  <2>1. a \in Places /\ s <= a /\ ~(a >= e) /\ ~Unreadable(sec, a) /\ TraceEnd(sec, a) = e
    BY WalkToHas, WalkEnds
  <2>2. /\ a \in Nat /\ sec[a].length \in Nat /\ a + sec[a].length \in Places
        /\ a # e
    BY <2>1, Reading, Bounds
  <2>3. a + sec[a].length <= e
    BY <2>1, <2>2, TraceEndIs
  <2> QED BY <1>1, <2>1, <2>2, <2>3
<1> QED BY <1>2, <1>3

-----------------------------------------------------------------------------
(***************************************************************************)
(* Runs of traces, counted.                                                *)
(***************************************************************************)
Rank(T, r) == Cardinality({t \in T : t <= r})

\* A finite set of numbers is counted through by its elements' ranks.
LEMMA Ranks ==
  ASSUME NEW T \in SUBSET Nat, IsFiniteSet(T)
  PROVE  /\ Cardinality(T) \in Nat
         /\ \A r \in T : Rank(T, r) \in 1..Cardinality(T)
         /\ \A q, r \in T : q < r => Rank(T, q) < Rank(T, r)
         /\ \A k \in 1..Cardinality(T) : \E r \in T : Rank(T, r) = k
<1> DEFINE UpTo(r) == {t \in T : t <= r}
<1>1. PICK n \in Nat : n = Cardinality(T)
  BY FS_CardinalityType
<1>2. ASSUME NEW r \in T PROVE Rank(T, r) \in 1..n /\ IsFiniteSet(UpTo(r))
  <2>1. UpTo(r) \in SUBSET T /\ r \in UpTo(r)
    OBVIOUS
  <2> HIDE DEF UpTo
  <2>2. IsFiniteSet(UpTo(r)) /\ Cardinality(UpTo(r)) <= n /\ Cardinality(UpTo(r)) \in Nat
    BY <1>1, <2>1, FS_Subset, FS_CardinalityType
  <2>3. Cardinality(UpTo(r)) # 0
    BY <2>1, <2>2, FS_EmptySet
  <2>4. Cardinality(UpTo(r)) \in 1..n
    BY <2>2, <2>3
  <2> QED BY <2>2, <2>4 DEF Rank, UpTo
<1>3. ASSUME NEW q \in T, NEW r \in T, q < r PROVE Rank(T, q) < Rank(T, r)
  <2>1. UpTo(q) \subseteq UpTo(r) /\ UpTo(q) # UpTo(r)
    <3>1. q \in Nat /\ r \in Nat /\ \A t \in T : t \in Nat /\ (t <= q => t <= r)
      BY <1>3
    <3>2. r \in UpTo(r) /\ r \notin UpTo(q)
      BY <1>3, <3>1
    <3> QED BY <3>1, <3>2
  <2>2. Rank(T, q) \in Nat /\ Rank(T, r) \in Nat
    <3>1. Rank(T, q) \in 1..n /\ Rank(T, r) \in 1..n
      BY <1>2
    <3> QED BY ONLY <3>1, n \in Nat
  <2> HIDE DEF UpTo
  <2>5. IsFiniteSet(UpTo(r))
    BY <1>2
  <2>3. /\ Cardinality(UpTo(q)) <= Cardinality(UpTo(r))
        /\ Cardinality(UpTo(q)) # Cardinality(UpTo(r))
    BY <2>1, <2>5, FS_Subset
  <2>4. Rank(T, q) = Cardinality(UpTo(q)) /\ Rank(T, r) = Cardinality(UpTo(r))
    BY DEF Rank, UpTo
  <2> QED BY <2>2, <2>3, <2>4
<1>4. ASSUME NEW k \in 1..n PROVE \E r \in T : Rank(T, r) = k
  <2> DEFINE f == [r \in T |-> Rank(T, r)]
  <2>1. f \in [T -> 1..n]
    BY <1>2
  <2>2. \A q, r \in T : f[q] = f[r] => q = r
    <3>1. \A q, r \in T : q # r => Rank(T, q) # Rank(T, r)
      <4>1. \A q, r \in T : q # r => q < r \/ r < q
        OBVIOUS
      <4>2. \A r \in T : Rank(T, r) \in Nat
        <5>1. \A r \in T : Rank(T, r) \in 1..n
          BY <1>2
        <5> QED BY ONLY <5>1, n \in Nat
      <4> QED BY <1>3, <4>1, <4>2
    <3> QED BY <3>1
  <2> HIDE DEF f
  <2>3. f \in Injection(T, 1..n)
    <3>1. DOMAIN f = T
      BY <2>1
    <3>2. IsInjective(f)
      BY ONLY <2>2, <3>1 DEF IsInjective
    <3> QED BY <2>1, <3>2 DEF Injection
  <2>4. IsFiniteSet(1..n) /\ Cardinality(1..n) = n
    BY <1>1, FS_Interval
  <2>5. f \in Surjection(T, 1..n)
    BY <1>1, <2>3, <2>4, FS_Injection
  <2>6. PICK r \in T : f[r] = k
    BY <2>5 DEF Surjection
  <2> QED BY <2>6 DEF f
<1> QED BY <1>1, <1>2, <1>3, <1>4

\* The trace before one that is not the first, and the one after one not the last.
LEMMA Neighbours ==
  ASSUME Starts \in Parts, NEW s \in Starts
  PROVE  /\ ~IsFirst(s) => Before(s) \in Starts /\ Before(s) < s
                           /\ \A t \in Starts : t < s => t <= Before(s)
         /\ ~IsLast(s) => After(s) \in Starts /\ After(s) > s
                          /\ \A t \in Starts : t > s => t >= After(s)
<1> DEFINE below == {t \in Starts : t < s}
           above == {t \in Starts : t > s}
<1>1. Starts \subseteq Places /\ Starts \subseteq Nat /\ s \in Nat
  BY Bounds DEF Parts
<1>2. ASSUME ~IsFirst(s) PROVE below \in SUBSET Places /\ below # {}
  <2>1. PICK t \in Starts : ~(t >= s)
    BY <1>2 DEF IsFirst
  <2>2. t \in Nat
    BY <1>1
  <2>3. t \in below
    BY <1>1, <2>1, <2>2
  <2> QED BY <1>1, <2>3
<1>3. ASSUME ~IsLast(s) PROVE above \in SUBSET Nat /\ above # {}
  <2>1. PICK t \in Starts : ~(t <= s)
    BY <1>3 DEF IsLast
  <2>2. t \in Nat
    BY <1>1
  <2>3. t \in above
    BY <1>1, <2>1, <2>2
  <2> QED BY <1>1, <2>3
<1>4. ~IsFirst(s) => Max(below) \in below /\ \A t \in below : t <= Max(below)
  BY <1>2, LastPlace
<1>5. ~IsLast(s) => Min(above) \in above /\ \A t \in above : Min(above) <= t
  BY <1>3, LeastIs
<1>6. Before(s) = Max(below) /\ After(s) = Min(above)
  BY DEF Before, After
<1>7. ASSUME ~IsLast(s), NEW t \in Starts, t > s PROVE t >= After(s)
  <2>1. t \in above /\ t \in Nat /\ After(s) \in Nat
    BY <1>1, <1>5, <1>6, <1>7
  <2> QED BY <1>5, <1>6, <1>7, <2>1
<1> QED BY <1>4, <1>5, <1>6, <1>7

\* The runs of traces are counted from the first: where the k-th begins.
LEMMA RunsAre ==
  ASSUME Starts \in Parts
  PROVE  /\ Cardinality(RunStarts) \in Nat
         /\ \A k \in 1..Cardinality(RunStarts) :
              Run(k) \in RunStarts /\ (k > 1 => ~IsFirst(Run(k)))
         /\ \A j, k \in 1..Cardinality(RunStarts) : j < k => Run(j) < Run(k)
         /\ \A r \in RunStarts : \E k \in 1..Cardinality(RunStarts) :
              r = Run(k) /\ (IsFirst(r) => k = 1)
<1>1. Starts \subseteq Places /\ RunStarts \in SUBSET Places /\ RunStarts \in SUBSET Nat
  BY Bounds DEF Parts, RunStarts
<1>2. IsFiniteSet(RunStarts)
  <2>1. IsFiniteSet(Places)
    BY Bounds, FS_Interval DEF Places
  <2> QED BY <1>1, <2>1, FS_Subset
<1> PICK T : T = RunStarts
  OBVIOUS
<1> PICK n : n = Cardinality(T)
  OBVIOUS
<1>3. /\ n \in Nat
      /\ \A r \in T : Rank(T, r) \in 1..n
      /\ \A q, r \in T : q < r => Rank(T, q) < Rank(T, r)
      /\ \A k \in 1..n : \E r \in T : Rank(T, r) = k
  BY <1>1, <1>2, Ranks
<1>4. T \in SUBSET Nat
  BY <1>1
<1>5. \A q, r \in T : Rank(T, q) = Rank(T, r) => q = r
  <2>1. \A q, r \in T : q # r => q < r \/ r < q
    BY <1>4
  <2>2. \A r \in T : Rank(T, r) \in Nat
    BY ONLY <1>3
  <2> QED BY <1>3, <2>1, <2>2
<1>6. \A k \in 1..n : Run(k) \in T /\ Rank(T, Run(k)) = k
  <2>1. \A k : Run(k) = CHOOSE r \in T : Rank(T, r) = k
    BY DEF Run, Rank
  <2> QED BY <1>3, <2>1
<1>7. ASSUME NEW r \in T, IsFirst(r) PROVE Rank(T, r) = 1
  <2>1. {t \in T : t <= r} = {r}
    <3>1. \A t \in T : t \in Nat /\ t >= r
      BY <1>4, <1>7 DEF IsFirst, RunStarts
    <3>2. r \in Nat
      BY <1>4
    <3>3. \A t \in T : t <= r <=> t = r
      BY ONLY <3>1, <3>2
    <3> QED BY <1>7, <3>3
  <2> QED BY <2>1, FS_Singleton DEF Rank
<1>8. ASSUME NEW j \in 1..n, NEW k \in 1..n, j < k PROVE Run(j) < Run(k)
  <2>1. Run(j) \in T /\ Run(k) \in T /\ Rank(T, Run(j)) = j /\ Rank(T, Run(k)) = k
    BY <1>6
  <2>2. Run(j) \in Nat /\ Run(k) \in Nat
    BY <1>4, <2>1
  <2>3. Run(j) # Run(k) /\ ~(Run(k) < Run(j))
    <3>1. j \in Nat /\ k \in Nat
      BY <1>3
    <3> QED BY <1>3, <1>8, <2>1, <3>1
  <2> QED BY <2>2, <2>3
<1>9. ASSUME NEW k \in 1..n, k > 1 PROVE ~IsFirst(Run(k))
  BY <1>6, <1>7, <1>9
<1>10. ASSUME NEW r \in T PROVE \E k \in 1..n : r = Run(k) /\ (IsFirst(r) => k = 1)
  <2>1. Rank(T, r) \in 1..n
    BY <1>3
  <2>2. Run(Rank(T, r)) \in T /\ Rank(T, Run(Rank(T, r))) = Rank(T, r)
    BY <1>6, <2>1
  <2>3. r = Run(Rank(T, r))
    BY <1>5, <2>2
  <2> QED BY <1>7, <2>1, <2>3
<1> QED BY <1>3, <1>6, <1>8, <1>9, <1>10

\* How many runs are saved, and the gaps between them.
Saved == IF Cardinality(RunStarts) = 0 THEN 0 ELSE Cardinality(RunStarts) - 1

\* The gaps begin where the range before them ends, and end where the next begins.
LEMMA GapsAre ==
  ASSUME Cardinality(RunStarts) \in Nat
  PROVE  /\ Saved \in Nat
         /\ Gaps = [k \in 1..(Saved + 1) |->
                      <<IF k = 1 THEN m_code_section_start ELSE End(Before(Run(k))),
                        IF k > Saved THEN code_section_end ELSE Run(k)>>]
<1> PICK m \in Nat : m = Saved
  BY DEF Saved
<1>1. 1..(Cardinality(RunStarts) - 1) = 1..m
  BY DEF Saved
<1> DEFINE R == [k \in 1..m |-> <<Run(k), End(Before(Run(k + 1)))>>]
<1>2. Ranges = R
  BY <1>1 DEF Ranges
<1>3. R \in Seq({R[k] : k \in 1..m}) /\ Len(R) = m
  OBVIOUS
<1>4. \A k \in 1..m : R[k][1] = Run(k)
  OBVIOUS
<1>5. \A k \in 2..(m + 1) : R[k - 1][2] = End(Before(Run(k)))
  <2>1. \A k \in 2..(m + 1) : k - 1 \in 1..m /\ (k - 1) + 1 = k
    OBVIOUS
  <2> QED BY <2>1
<1> HIDE DEF R
<1> DEFINE G(k) == <<IF k = 1 THEN m_code_section_start ELSE R[k - 1][2],
                     IF k > m THEN code_section_end ELSE R[k][1]>>
           H(k) == <<IF k = 1 THEN m_code_section_start ELSE End(Before(Run(k))),
                     IF k > m THEN code_section_end ELSE Run(k)>>
<1>6. Gaps = [k \in 1..(m + 1) |-> G(k)]
  BY <1>2, <1>3 DEF Gaps
<1>7. \A k \in 1..(m + 1) : (k # 1 => k \in 2..(m + 1)) /\ (~(k > m) => k \in 1..m)
  OBVIOUS
<1>8. \A k \in 1..(m + 1) : G(k) = H(k)
  BY <1>4, <1>5, <1>7
<1> HIDE DEF G, H
<1>9. Gaps = [k \in 1..(m + 1) |-> H(k)]
  BY <1>6, <1>8
<1> QED BY <1>9 DEF H

\* Each gap begins and ends at places of the section.
Borders == m_code_section_start..code_section_end

\* Gaps spotted between traces that begin in the section lie in it.
LEMMA GapsTyped ==
  ASSUME Starts \in SUBSET Code, \A s \in Starts : End(s) \in Places
  PROVE  Gaps \in Seq(Places \X Borders)
<1>1. Starts \in Parts /\ Starts \subseteq Borders
  BY Bounds DEF Parts, Code, Borders
<1> PICK n : n = Cardinality(RunStarts)
  OBVIOUS
<1>2. /\ n \in Nat
      /\ \A k \in 1..n : Run(k) \in RunStarts /\ (k > 1 => ~IsFirst(Run(k)))
  BY <1>1, RunsAre
<1> PICK m \in Nat : m = Saved /\ m = IF n = 0 THEN 0 ELSE n - 1
  BY <1>2 DEF Saved
<1>3. Gaps = [k \in 1..(m + 1) |->
                <<IF k = 1 THEN m_code_section_start ELSE End(Before(Run(k))),
                  IF k > m THEN code_section_end ELSE Run(k)>>]
  BY <1>2, GapsAre
<1>4. ASSUME NEW k \in 1..(m + 1)
      PROVE  /\ k # 1 => End(Before(Run(k))) \in Places
             /\ ~(k > m) => Run(k) \in Borders
  <2>1. ASSUME k # 1 PROVE End(Before(Run(k))) \in Places
    <3>1. k \in 1..n /\ k > 1
      BY <1>2, <2>1
    <3>2. Run(k) \in Starts /\ ~IsFirst(Run(k))
      BY <1>2, <3>1 DEF RunStarts
    <3>3. Before(Run(k)) \in Starts
      BY <1>1, <3>2, Neighbours
    <3> QED BY <3>3
  <2>2. ASSUME ~(k > m) PROVE Run(k) \in Borders
    <3>1. k \in 1..n
      BY <1>2, <2>2
    <3> QED BY <1>1, <1>2, <3>1 DEF RunStarts
  <2> QED BY <2>1, <2>2
<1>5. m_code_section_start \in Places /\ code_section_end \in Borders
  BY Bounds DEF Places, Borders
<1>6. \A k \in 1..(m + 1) : Gaps[k] \in Places \X Borders
  BY <1>3, <1>4, <1>5
<1>7. Gaps \in [1..(m + 1) -> Places \X Borders]
  <2> DEFINE H(k) == <<IF k = 1 THEN m_code_section_start ELSE End(Before(Run(k))),
                       IF k > m THEN code_section_end ELSE Run(k)>>
  <2>1. Gaps = [k \in 1..(m + 1) |-> H(k)]
    BY <1>3
  <2> HIDE DEF H
  <2> QED BY ONLY <1>6, <2>1
<1> QED BY ONLY <1>7, m \in Nat

-----------------------------------------------------------------------------
(***************************************************************************)
(* The invariant: every trace ends at a place and can be read, the one that *)
(* is being swept is so far, and the gaps lie in the section.              *)
(***************************************************************************)
TraceGood(sec, s, size) ==
  /\ s \in Places /\ size \in Nat /\ s + size \in Places
  /\ Walked(sec, s, s + size)

TracesGood(sec, traces) == \A s \in DOMAIN traces : TraceGood(sec, s, traces[s])

Sweeping(sec, gaps, start, addr) ==
  /\ gaps # <<>>
  /\ start \in Places /\ addr \in Places /\ Reached(sec, start, addr)

PCs == {"process", "spot", "trim", "sweep", "again", "lea", "done", "crashed", "undefined"}

Sound ==
  /\ section \in Sections
  /\ TracesGood(section, m_traces)
  /\ m_pending_targets \subseteq Addresses
  /\ m_lea_targets \in Data /\ lea_left \subseteq m_lea_targets
  /\ vec_gaps \in Seq(Places \X Borders)
  /\ pc \in PCs
  /\ pc \in {"process", "spot"} => Starts \subseteq Code
  /\ pc = "sweep" => Sweeping(section, vec_gaps, trace_start, inst)

\* A good trace more leaves the traces good.
LEMMA InsertGood ==
  ASSUME NEW sec, NEW traces, TracesGood(sec, traces),
         NEW start, NEW size, TraceGood(sec, start, size)
  PROVE  TracesGood(sec, Inserted(traces, start, size))
BY DEF TracesGood, Inserted

\* What is left of a trace that is good is good.
LEMMA TraceShorter ==
  ASSUME NEW sec \in Sections, NEW s, NEW size, TraceGood(sec, s, size),
         NEW d \in Places, s <= d, d <= s + size
  PROVE  TraceGood(sec, s, d - s)
<1>1. /\ s \in Places /\ s \in Nat /\ d \in Nat /\ s + size \in Nat /\ s + (d - s) = d
      /\ d - s \in Nat
  BY Bounds DEF TraceGood
<1>2. Walked(sec, s, d)
  BY <1>1, WalkedShorter DEF TraceGood
<1> QED BY <1>1, <1>2 DEF TraceGood

\* A trace that process() makes is good, and yields addresses and data.
LEMMA ProcessGood ==
  ASSUME NEW sec \in Sections, NEW s \in Places
  PROVE  /\ TraceGood(sec, s, process(sec)[s].size)
         /\ process(sec)[s].gen \subseteq Addresses /\ process(sec)[s].lea \in Data
<1>1. process(sec)[s] \in Walks
  BY ProcessIs
<1> QED BY <1>1, TraceWalked DEF TraceGood, TraceEnd, Walks

\* What lies between padding.
LEMMA PaddingIn ==
  ASSUME NEW start \in Nat, NEW end \in Nat, start <= end
  PROVE  PaddingEnd(start, end) \in start..end /\ PaddingStart(start, end) \in start..end
<1>1. CASE start >= end
  BY <1>1 DEF PaddingEnd, PaddingStart
<1>2. CASE ~(start >= end)
  <2> DEFINE S == {a \in start..end : a = end \/ ~Int3(a)}
             T == {a \in start..end : a = start \/ ~Int3(a - 1)}
  <2>1. S \in SUBSET Nat /\ T \in SUBSET (0..end) /\ end \in S /\ start \in T
    OBVIOUS
  <2>2. S \subseteq start..end /\ T \subseteq start..end
    OBVIOUS
  <2>3. PaddingEnd(start, end) = Min(S) /\ PaddingStart(start, end) = Max(T)
    BY <1>2 DEF PaddingEnd, PaddingStart
  <2> HIDE DEF S, T
  <2>4. Min(S) \in S /\ Max(T) \in T
    BY <2>1, LeastIs, LargestIs
  <2> QED BY <2>2, <2>3, <2>4
<1> QED BY <1>1, <1>2

\* It ends and begins at places when the gap does.
LEMMA PaddingBetween ==
  ASSUME NEW start \in Places, NEW end \in Borders, start <= end
  PROVE  PaddingEnd(start, end) \in Places /\ PaddingStart(start, end) \in Borders
<1>1. start \in Nat /\ end \in Nat
  BY Bounds DEF Borders
<1>2. PaddingEnd(start, end) \in start..end /\ PaddingStart(start, end) \in start..end
  BY <1>1, PaddingIn
<1>3. start..end \subseteq Borders /\ Borders \subseteq Places
  BY <1>1, Bounds DEF Borders, Places
<1> QED BY <1>2, <1>3

\* The sweep begins sound.
LEMMA InitSound == Init => Sound
<1> SUFFICES ASSUME Init PROVE Sound
  OBVIOUS
<1>1. DOMAIN m_traces = {} /\ m_traces = <<>>
  BY DEF Init
<1>2. m_pending_targets \subseteq Addresses
  BY PlacesAre, Bounds DEF Init
<1>3. m_lea_targets \in Data /\ vec_gaps \in Seq(Places \X Borders)
  BY FS_EmptySet DEF Init, Data
<1> QED BY <1>1, <1>2, <1>3 DEF Init, Sound, TracesGood, PCs, Starts

\* Following a target: a good trace more, or a target less.
LEMMA TakeTargetSound == Sound /\ TakeTarget => Sound'
<1> SUFFICES ASSUME Sound, TakeTarget PROVE Sound'
  OBVIOUS
<1> PICK target : target = Min(m_pending_targets)
  OBVIOUS
<1>1. /\ UNCHANGED <<section, vec_gaps, trace_start, inst, lea_left, pc>>
      /\ pc \in {"process", "again"}
  BY DEF TakeTarget, input, locals
<1>2. CASE /\ IsAddrCode(target)
           /\ m_traces' = Insert(target, process(section)[target].size)
           /\ m_pending_targets' =
                (m_pending_targets \ {target}) \cup process(section)[target].gen
           /\ m_lea_targets' = m_lea_targets \cup process(section)[target].lea
  <2>1. target \in Code /\ target \in Places
    BY <1>2, Bounds DEF IsAddrCode
  <2>2. /\ TraceGood(section, target, process(section)[target].size)
        /\ process(section)[target].gen \subseteq Addresses
        /\ process(section)[target].lea \in Data
    BY <2>1, ProcessGood DEF Sound
  <2>3. TracesGood(section, Insert(target, process(section)[target].size))
    BY <2>2, InsertGood DEF Sound, Insert
  <2>4. m_lea_targets' \in Data
    BY <1>2, <2>2, MoreData DEF Sound
  <2>5. Starts \subseteq Code => Starts' \subseteq Code
    BY <1>2, <2>1 DEF Insert, Inserted, Starts
  <2> QED BY <1>1, <1>2, <2>2, <2>3, <2>4, <2>5 DEF Sound
<1>3. CASE /\ m_pending_targets' = m_pending_targets \ {target}
           /\ UNCHANGED <<m_traces, m_lea_targets>>
  BY <1>1, <1>3 DEF Sound, Starts
<1> QED BY <1>2, <1>3 DEF TakeTarget

\* Good traces end at places, not before they begin.
LEMMA EndsAre ==
  ASSUME TracesGood(section, m_traces)
  PROVE  /\ Starts \in Parts
         /\ \A s \in Starts : End(s) \in Places /\ s <= End(s) /\ m_traces[s] \in Nat
<1>1. \A s \in Starts : TraceGood(section, s, m_traces[s])
  BY DEF TracesGood, Starts
<1>2. ASSUME NEW s \in Starts
      PROVE  s \in Places /\ End(s) \in Places /\ s <= End(s) /\ m_traces[s] \in Nat
  <2>1. s \in Places /\ m_traces[s] \in Nat /\ s + m_traces[s] \in Places
    BY <1>1 DEF TraceGood
  <2>2. s \in Nat
    BY <2>1, Bounds
  <2> QED BY <2>1, <2>2 DEF End
<1> QED BY <1>2 DEF Parts

\* Where a trace ends when traces are split: no later, and at the next one if they
\* ended together.
LEMMA ShrunkIs ==
  ASSUME TracesGood(section, m_traces), NEW s \in Starts
  PROVE  \/ /\ ~IsLast(s) /\ End(s) = End(After(s))
            /\ Shrunk[s] = After(s) - s /\ s + Shrunk[s] = After(s)
            /\ After(s) \in Starts /\ s < After(s) /\ After(s) <= End(s)
            /\ \A t \in Starts : t > s => t >= After(s)
         \/ ~(~IsLast(s) /\ End(s) = End(After(s))) /\ Shrunk[s] = m_traces[s]
<1>1. /\ Starts \in Parts /\ s \in Nat
      /\ \A t \in Starts : End(t) \in Places /\ t <= End(t) /\ t \in Nat
  BY EndsAre, Bounds DEF Parts
<1>2. CASE ~IsLast(s) /\ End(s) = End(After(s))
  <2>1. /\ After(s) \in Starts /\ After(s) > s /\ \A t \in Starts : t > s => t >= After(s)
    BY <1>1, <1>2, Neighbours
  <2>2. Shrunk[s] = After(s) - s
    BY <1>2 DEF Shrunk
  <2>3. After(s) \in Nat /\ After(s) <= End(s)
    BY <1>1, <1>2, <2>1
  <2> QED BY <1>1, <1>2, <2>1, <2>2, <2>3
<1>3. CASE ~(~IsLast(s) /\ End(s) = End(After(s)))
  <2>1. Shrunk[s] = m_traces[s]
    BY <1>3 DEF Shrunk
  <2> QED BY <1>3, <2>1
<1> QED BY <1>2, <1>3

\* Traces that are split are good still.
LEMMA ShrunkGood ==
  ASSUME section \in Sections, TracesGood(section, m_traces)
  PROVE  DOMAIN Shrunk = Starts /\ TracesGood(section, Shrunk)
<1>1. DOMAIN Shrunk = Starts
  BY DEF Shrunk
<1>2. ASSUME NEW s \in Starts PROVE TraceGood(section, s, Shrunk[s])
  <2>1. TraceGood(section, s, m_traces[s])
    BY DEF TracesGood, Starts
  <2>2. CASE Shrunk[s] = m_traces[s]
    BY <2>1, <2>2
  <2>3. CASE /\ Shrunk[s] = After(s) - s
             /\ After(s) \in Starts /\ s < After(s) /\ After(s) <= End(s)
    <3>1. After(s) \in Places /\ After(s) \in Nat /\ s \in Nat
      BY <2>3, EndsAre, Bounds DEF Parts
    <3>2. s <= After(s) /\ After(s) <= s + m_traces[s]
      BY <2>3, <3>1 DEF End
    <3> QED BY <2>1, <2>3, <3>1, <3>2, TraceShorter
  <2> QED BY <2>2, <2>3, ShrunkIs
<1> QED BY <1>1, <1>2 DEF TracesGood

\* The work list is empty: traces are split.
LEMMA SplitTracesSound == Sound /\ SplitTraces => Sound'
<1> SUFFICES ASSUME Sound, SplitTraces PROVE Sound'
  OBVIOUS
<1>1. /\ UNCHANGED <<section, m_pending_targets, m_lea_targets, vec_gaps, trace_start, inst>>
      /\ m_traces' = Shrunk
      /\ \/ pc = "process" /\ pc' = "spot" /\ lea_left' = lea_left
         \/ pc' = "lea" /\ lea_left' = m_lea_targets
         \/ pc' = "undefined" /\ lea_left' = lea_left
  BY DEF SplitTraces, input
<1>2. TracesGood(section, Shrunk) /\ Starts' = Starts
  BY <1>1, ShrunkGood DEF Sound, Starts
<1>3. TracesGood(section, m_traces)' /\ pc' \in PCs /\ pc' # "sweep" /\ lea_left' \subseteq m_lea_targets
  BY <1>1, <1>2 DEF PCs, Sound
<1>4. pc' \in {"process", "spot"} => Starts' \subseteq Code
  BY <1>1, <1>2 DEF Sound
<1> QED BY <1>1, <1>3, <1>4 DEF Sound

\* Spotting gaps.
LEMMA SpotGapsSound == Sound /\ SpotGaps => Sound'
<1> SUFFICES ASSUME Sound, SpotGaps PROVE Sound'
  OBVIOUS
<1>1. /\ UNCHANGED <<section, m_traces, m_pending_targets, m_lea_targets, lea_left>>
      /\ pc = "spot" /\ pc' = "trim" /\ vec_gaps' = Gaps
  BY DEF SpotGaps, input, members
<1>2. Starts \in SUBSET Code /\ \A s \in Starts : End(s) \in Places
  BY <1>1, EndsAre DEF Sound
<1>3. Gaps \in Seq(Places \X Borders)
  BY <1>2, GapsTyped
<1> QED BY <1>1, <1>3 DEF Sound, PCs

\* A gap is trimmed, or left out.
LEMMA GapsLess ==
  ASSUME NEW gaps \in Seq(Places \X Borders), gaps # <<>>
  PROVE  /\ Tail(gaps) \in Seq(Places \X Borders)
         /\ Head(gaps)[1] \in Places /\ Head(gaps)[1] \in Nat
         /\ Head(gaps)[2] \in Borders /\ Head(gaps)[2] \in Places /\ Head(gaps)[2] \in Nat
         /\ \A s \in Places, e \in Borders :
              <<<<s, e>>>> \o Tail(gaps) \in Seq(Places \X Borders)
              /\ <<<<s, e>>>> \o Tail(gaps) # <<>>
<1>1. Borders \subseteq Places /\ Places \subseteq Nat
  BY Bounds DEF Borders, Places
<1>2. Head(gaps) \in Places \X Borders /\ Tail(gaps) \in Seq(Places \X Borders)
  OBVIOUS
<1>3. ASSUME NEW s \in Places, NEW e \in Borders
      PROVE  <<<<s, e>>>> \o Tail(gaps) \in Seq(Places \X Borders)
             /\ <<<<s, e>>>> \o Tail(gaps) # <<>>
  <2>1. <<<<s, e>>>> \in Seq(Places \X Borders) /\ Len(<<<<s, e>>>>) = 1
    OBVIOUS
  <2> QED BY <1>2, <2>1
<1> QED BY <1>1, <1>2, <1>3

\* All gaps are treated.
LEMMA GapsTreatedSound == Sound /\ GapsTreated => Sound'
BY DEF Sound, GapsTreated, input, members, locals, PCs, Starts

\* A gap is swept.
LEMMA SweepDoneSound == Sound /\ SweepDone => Sound'
<1> SUFFICES ASSUME Sound, SweepDone PROVE Sound'
  OBVIOUS
<1>1. vec_gaps \in Seq(Places \X Borders) /\ vec_gaps # <<>>
  BY DEF Sound, SweepDone, Sweeping
<1>2. Tail(vec_gaps) \in Seq(Places \X Borders)
  BY <1>1, GapsLess
<1> QED BY <1>2 DEF Sound, SweepDone, input, members, PCs

\* Trimming a gap: a trampoline is a good trace, padding is cut off within the gap.
LEMMA TrimGapSound == Sound /\ TrimGap => Sound'
<1> SUFFICES ASSUME Sound, TrimGap PROVE Sound'
  OBVIOUS
<1> PICK start, end : start = Head(vec_gaps)[1] /\ end = Head(vec_gaps)[2]
  OBVIOUS
<1>1. /\ pc = "trim" /\ vec_gaps # <<>> /\ UNCHANGED <<section, m_reloc_targets, lea_left>>
      /\ TrimTrampoline(start, end) \/ TrimPadding(start, end) \/ TrimEnd(start, end)
  BY DEF TrimGap, input
<1>2. /\ section \in Sections /\ vec_gaps \in Seq(Places \X Borders)
      /\ TracesGood(section, m_traces)
      /\ m_pending_targets \subseteq Addresses
      /\ m_lea_targets \in Data /\ lea_left \subseteq m_lea_targets
  BY DEF Sound
<1>3. /\ Tail(vec_gaps) \in Seq(Places \X Borders)
      /\ start \in Places /\ start \in Nat /\ end \in Borders /\ end \in Places /\ end \in Nat
      /\ \A s \in Places, e \in Borders :
           <<<<s, e>>>> \o Tail(vec_gaps) \in Seq(Places \X Borders)
  BY <1>1, <1>2, GapsLess
<1>4. CASE TrimTrampoline(start, end)
  <2>1. /\ ~Unreadable(section, start) /\ section[start].length = JmpLength
        /\ section[start].op \in Int
    <3>1. start \in Code /\ section[start].e9
      BY <1>4, Zenon DEF TrimTrampoline, AtTrampoline, IsAddrCode
    <3>2. /\ section[start].type = "jmp" /\ section[start].op # Indirect
          /\ section[start].length = JmpLength /\ section[start].op \in Int \cup {Indirect}
      BY <1>2, <3>1, SectionsAssumption, Zenon
    <3> QED BY <3>1, <3>2 DEF Unreadable, IsAddrCode
  <2>2. start + JmpLength \in Places /\ JmpLength \in Nat
    BY <1>2, <2>1, Reading
  <2>3. TraceGood(section, start, JmpLength)
    <3>1. Reached(section, start, start + JmpLength)
      BY <1>2, <1>3, <2>1, ReachedNone, ReachedMore
    <3> QED BY <1>2, <1>3, <2>2, <3>1, ReachedMore DEF TraceGood
  <2>4. TracesGood(section, Insert(start, JmpLength))
    BY <1>2, <2>3, InsertGood DEF Insert
  <2>5. section[start].op % AddressSpace \in Addresses
    BY <2>1, Modulo
  <2>6. /\ m_traces' = Insert(start, JmpLength)
        /\ m_pending_targets' = m_pending_targets \cup {section[start].op % AddressSpace}
        /\ vec_gaps' = <<<<start + JmpLength, end>>>> \o Tail(vec_gaps)
        /\ UNCHANGED <<m_lea_targets, pc>>
    BY <1>4 DEF TrimTrampoline, ReplaceGap
  <2>7. vec_gaps' \in Seq(Places \X Borders)
    BY <1>3, <2>2, <2>6
  <2> QED BY <1>1, <1>2, <2>4, <2>5, <2>6, <2>7 DEF Sound
<1>5. CASE TrimPadding(start, end)
  <2>1. vec_gaps' \in Seq(Places \X Borders) /\ UNCHANGED members /\ pc' = pc
    <3>1. CASE /\ PaddingEnd(start, end) # start
               /\ vec_gaps' = <<<<PaddingEnd(start, end), end>>>> \o Tail(vec_gaps)
      <4>1. start <= end
        BY <1>3, <3>1 DEF PaddingEnd
      <4>2. PaddingEnd(start, end) \in Places
        BY <1>3, <4>1, PaddingBetween
      <4> QED BY <1>3, <1>5, <3>1, <4>2 DEF TrimPadding
    <3>2. CASE /\ PaddingStart(start, end) # end
               /\ vec_gaps' = <<<<start, PaddingStart(start, end)>>>> \o Tail(vec_gaps)
      <4>1. start <= end
        BY <1>3, <3>2 DEF PaddingStart
      <4>2. PaddingStart(start, end) \in Borders
        BY <1>3, <4>1, PaddingBetween
      <4> QED BY <1>3, <1>5, <3>2, <4>2 DEF TrimPadding
    <3> QED BY <1>5, <3>1, <3>2 DEF TrimPadding, ReplaceGap
  <2> QED BY <1>1, <1>2, <2>1 DEF Sound, members
<1>6. CASE TrimEnd(start, end)
  <2>1. UNCHANGED members
    BY <1>6 DEF TrimEnd
  <2>2. CASE vec_gaps' = Tail(vec_gaps) /\ pc' = pc
    BY <1>1, <1>2, <1>3, <2>1, <2>2 DEF Sound, members
  <2>3. CASE trace_start' = start /\ inst' = start /\ pc' = "sweep" /\ vec_gaps' = vec_gaps
    <3>1. Sweeping(section, vec_gaps, start, start)
      BY <1>1, <1>3, ReachedNone DEF Sweeping
    <3> QED BY <1>1, <1>2, <2>1, <2>3, <3>1 DEF Sound, members, PCs
  <2> QED BY <1>6, <2>2, <2>3 DEF TrimEnd
<1> QED BY <1>1, <1>4, <1>5, <1>6

\* The padding at which a trace that is being swept may end.
LEMMA PaddingReached ==
  ASSUME Sound, SweepStep
  PROVE  /\ PaddingEnd(inst, Head(vec_gaps)[2]) \in Nat
         /\ PaddingEnd(inst, Head(vec_gaps)[2]) \in Places
         /\ PaddingEnd(inst, Head(vec_gaps)[2]) + 1 \in Places
         /\ inst \in Nat /\ inst <= PaddingEnd(inst, Head(vec_gaps)[2])
<1> PICK end : end = Head(vec_gaps)[2]
  OBVIOUS
<1>1. end \in Borders /\ end \in Nat /\ inst \in Places /\ inst \in Nat /\ inst <= end
  <2>1. vec_gaps \in Seq(Places \X Borders) /\ vec_gaps # <<>> /\ inst \in Places
    BY DEF Sound, SweepStep, Sweeping
  <2>2. end \in Borders /\ end \in Nat /\ inst \in Nat
    BY <2>1, GapsLess, Bounds
  <2> QED BY <2>1, <2>2 DEF SweepStep
<1>2. PaddingEnd(inst, end) \in inst..end
  BY <1>1, PaddingIn
<1>3. PaddingEnd(inst, end) \in Nat /\ inst <= PaddingEnd(inst, end)
      /\ PaddingEnd(inst, end) \in Places /\ PaddingEnd(inst, end) + 1 \in Places
  BY <1>1, <1>2, Bounds DEF Places, Borders
<1> QED BY <1>1, <1>3

\* Sweeping: an instruction more is reached, or a trace begun is dropped or inserted.
LEMMA SweepStepSound == Sound /\ SweepStep => Sound'
<1> SUFFICES ASSUME Sound, SweepStep PROVE Sound'
  OBVIOUS
<1> PICK addr : addr = PaddingEnd(inst, Head(vec_gaps)[2])
  OBVIOUS
<1> PICK traces, start :
      /\ traces = IF addr # inst THEN Insert(trace_start, inst - trace_start) ELSE m_traces
      /\ start = IF addr # inst THEN addr ELSE trace_start
  OBVIOUS
<1>1. /\ pc = "sweep" /\ UNCHANGED <<section, m_lea_targets, vec_gaps, lea_left, pc>>
      /\ \/ Unreadable(section, addr) /\ SweepUnreadable(traces, addr, start)
         \/ ~Unreadable(section, addr) /\ SweepInstruction(traces, addr, start)
  BY DEF SweepStep, input
<1>2. /\ section \in Sections /\ vec_gaps \in Seq(Places \X Borders)
      /\ TracesGood(section, m_traces)
      /\ m_pending_targets \subseteq Addresses
      /\ vec_gaps # <<>> /\ trace_start \in Places /\ inst \in Places
      /\ Reached(section, trace_start, inst)
  BY <1>1 DEF Sound, Sweeping
<1>3. /\ addr \in Nat /\ addr \in Places /\ addr + 1 \in Places
      /\ inst \in Nat /\ inst <= addr /\ trace_start \in Nat
  BY <1>2, PaddingReached, Bounds
<1>4. TracesGood(section, traces)
  <2>1. CASE addr # inst
    <3>1. trace_start <= inst /\ Walked(section, trace_start, inst)
      BY <1>2, ReachedMore DEF Reached
    <3>2. trace_start + (inst - trace_start) = inst /\ inst - trace_start \in Nat
      BY <1>3, <3>1
    <3>3. TraceGood(section, trace_start, inst - trace_start)
      BY <1>2, <3>1, <3>2 DEF TraceGood
    <3> QED BY <1>2, <2>1, <3>3, InsertGood DEF Insert
  <2>2. CASE addr = inst
    BY <1>2, <2>2
  <2> QED BY <2>1, <2>2
<1>5. start \in Places /\ Reached(section, start, addr)
  BY <1>2, <1>3, ReachedNone
<1>6. CASE Unreadable(section, addr) /\ SweepUnreadable(traces, addr, start)
  <2>1. /\ m_traces' = traces /\ m_pending_targets' = m_pending_targets
        /\ trace_start' = addr + 1 /\ inst' = addr + 1
    BY <1>6 DEF SweepUnreadable
  <2>2. Sweeping(section, vec_gaps, addr + 1, addr + 1)
    BY <1>2, <1>3, ReachedNone DEF Sweeping
  <2> QED BY <1>1, <1>4, <2>1, <2>2 DEF Sound
<1>7. CASE ~Unreadable(section, addr) /\ SweepInstruction(traces, addr, start)
  <2> PICK post : post = addr + section[addr].length
    OBVIOUS
  <2>1. post \in Places /\ Reached(section, start, post) /\ post \in Nat
    BY <1>2, <1>3, <1>5, <1>7, Reading, ReachedMore, Bounds
  <2>2. start \in Nat /\ start <= post /\ Walked(section, start, post)
    BY <1>2, <1>5, <2>1, ReachedMore, Bounds DEF Reached
  <2>3. TraceGood(section, start, post - start)
    <3>1. start + (post - start) = post /\ post - start \in Nat
      BY <2>1, <2>2
    <3> QED BY <1>5, <2>1, <2>2, <3>1 DEF TraceGood
  <2>4. TracesGood(section, m_traces')
    <3>1. TracesGood(section, Inserted(traces, start, post - start))
      BY <1>4, <2>3, InsertGood
    <3> QED BY <1>4, <1>7, <3>1 DEF SweepInstruction
  <2>5. m_pending_targets' \subseteq Addresses
    BY <1>2, <1>7, Yields DEF SweepInstruction
  <2>6. Sweeping(section, vec_gaps, trace_start', inst')
    <3>1. inst' = post /\ (trace_start' = post \/ trace_start' = start)
      BY <1>7 DEF SweepInstruction
    <3> QED BY <1>2, <1>5, <2>1, <3>1, ReachedNone DEF Sweeping
  <2> QED BY <1>1, <2>4, <2>5, <2>6 DEF Sound
<1> QED BY <1>1, <1>6, <1>7

\* The traces that are kept are as they were.
LEMMA KeptGood ==
  ASSUME NEW sec, NEW traces, TracesGood(sec, traces), NEW K \in SUBSET DOMAIN traces
  PROVE  TracesGood(sec, [s \in K |-> traces[s]])
BY DEF TracesGood

\* What the treatment of a lea does: it erases the traces in what it takes for data,
\* if anything.
LEMMA TreatLeaDoes ==
  ASSUME NEW lea, TreatLea(lea)
  PROVE  /\ pc' \in {pc, "undefined", "crashed"}
         /\ \/ m_traces' = m_traces
            \/ \E K \in SUBSET Starts : m_traces' = [s \in K |-> m_traces[s]]
<1>1. ASSUME NEW end, EraseTraces(lea, end)
      PROVE  /\ pc' \in {pc, "undefined"}
             /\ \/ m_traces' = m_traces
                \/ \E K \in SUBSET Starts : m_traces' = [s \in K |-> m_traces[s]]
  <2>1. \A E : Starts \ E \in SUBSET Starts
    OBVIOUS
  <2> QED BY <1>1, <2>1 DEF EraseTraces, Erase
<1> QED BY <1>1 DEF TreatLea

\* Treating a lea keeps some of the traces.
LEMMA LeaTargetSound == Sound /\ LeaTarget => Sound'
<1> SUFFICES ASSUME Sound, LeaTarget PROVE Sound'
  OBVIOUS
<1>1. /\ UNCHANGED <<section, m_pending_targets, m_lea_targets, vec_gaps>>
      /\ pc = "lea" /\ lea_left' \subseteq lea_left /\ TreatLea(Min(lea_left))
  BY DEF LeaTarget, input
<1>2. TracesGood(section, m_traces')
  <2>1. TracesGood(section, m_traces) /\ Starts = DOMAIN m_traces
    BY DEF Sound, Starts
  <2>2. CASE m_traces' = m_traces
    BY <2>1, <2>2
  <2>3. CASE \E K \in SUBSET Starts : m_traces' = [s \in K |-> m_traces[s]]
    BY <2>1, <2>3, KeptGood
  <2> QED BY <1>1, <2>2, <2>3, TreatLeaDoes
<1>3. pc' \in {"lea", "undefined", "crashed"}
  BY <1>1, TreatLeaDoes
<1> QED BY <1>1, <1>2, <1>3 DEF Sound, PCs

\* All leas are treated.
LEMMA LeaDoneSound == Sound /\ LeaDone => Sound'
BY DEF Sound, LeaDone, input, members, locals, PCs, Starts

\* Every step keeps the sweep sound.
LEMMA NextSound == Sound /\ [Next]_vars => Sound'
<1> SUFFICES ASSUME Sound, [Next]_vars PROVE Sound'
  OBVIOUS
<1>1. CASE Next
  BY <1>1, TakeTargetSound, SplitTracesSound, SpotGapsSound, TrimGapSound,
     GapsTreatedSound, SweepStepSound, SweepDoneSound, LeaTargetSound, LeaDoneSound DEF Next
<1>2. CASE UNCHANGED vars
  BY <1>2 DEF vars, input, members, locals, Sound, Starts
<1> QED BY <1>1, <1>2

\* Every reachable state of the sweep is sound, for all sections, targets and bounds:
\* traces can be read and end at places, gaps lie in the section.
THEOREM SoundInvariance == Spec => []Sound
<1> QED BY InitSound, NextSound, PTL DEF Spec

\* The traces, the work lists and the gaps have their types: no trace is longer than
\* the section and the instruction it ends in, for every section (StaticTrace.h:80).
THEOREM TypeCorrect == Spec => []TypeOK
<1>1. Sound => TypeOK
  <2> SUFFICES ASSUME Sound PROVE TypeOK
    OBVIOUS
  <2>1. Starts \subseteq Places
    BY EndsAre DEF Sound, Parts
  <2>2. ASSUME NEW s \in Starts PROVE m_traces[s] \in Sizes
    <3>1. s \in Places /\ m_traces[s] \in Nat /\ s + m_traces[s] \in Places
      BY <2>2 DEF Sound, TracesGood, TraceGood, Starts
    <3>2. /\ code_section_end = m_code_section_start + m_code_section_size
          /\ m_code_section_start \in Nat /\ m_code_section_size \in Nat /\ MaxLength \in Nat
      BY StaticTraceAssumption DEF code_section_end
    <3> QED BY <3>1, <3>2 DEF Places, Sizes
  <2>3. ASSUME NEW k \in DOMAIN vec_gaps PROVE vec_gaps[k] \in Addresses \X Addresses
    <3>1. vec_gaps \in Seq(Places \X Borders)
      BY DEF Sound
    <3>2. vec_gaps[k] \in Places \X Borders
      BY ONLY <2>3, <3>1
    <3>3. Places \subseteq Addresses /\ Borders \subseteq Addresses
      BY Bounds DEF Places, Borders, Addresses
    <3> QED BY ONLY <3>2, <3>3
  <2>4. pc \in PCs /\ m_pending_targets \subseteq Addresses /\ lea_left \subseteq m_lea_targets
    BY DEF Sound
  <2> QED BY <2>1, <2>2, <2>3, <2>4 DEF TypeOK, Places, PCs
<1> QED BY <1>1, SoundInvariance, PTL

\* No trace that postProcess() looks at holds bytes that are no instruction, for every
\* section, whichever pass made it (CodeSectionSweeper.cpp:323).
THEOREM TracesReadableCorrect == Spec => []TracesReadable
<1>1. Sound => TracesReadable
  <2> SUFFICES ASSUME Sound, NEW s \in Starts
               PROVE  s..(End(s) - 1) \subseteq
                        UNION {a..(a + section[a].length - 1) : a \in WalkTo(s, End(s))}
    BY DEF TracesReadable
  <2>1. s \in Places /\ s + m_traces[s] \in Places /\ Walked(section, s, End(s))
    <3>1. TraceGood(section, s, m_traces[s])
      BY DEF Sound, TracesGood, Starts
    <3> QED BY <3>1 DEF TraceGood, End
  <2>2. End(s) \in Int
    <3>1. End(s) \in Places
      BY <2>1 DEF End
    <3>2. End(s) \in Nat
      BY ONLY <3>1, Bounds
    <3> QED BY <3>2
  <2>3. section \in Sections
    BY DEF Sound
  <2> QED BY <2>1, <2>2, <2>3, WalkedCovers
<1> QED BY <1>1, SoundInvariance, PTL

-----------------------------------------------------------------------------
(***************************************************************************)
(* The data of leas.                                                       *)
(***************************************************************************)
\* The first of the traces there were that lie over a lea's data is gone.
FirstGone(lea) == KnownEnds(lea) # {} =>
  LET meeting == Meeting(swept, lea, Min(KnownEnds(lea)))
  IN meeting # {} => Min(meeting) \notin Starts

\* A lea lets the trace that began at s go.
LetGo(s, lea) ==
  \E end \in KnownEnds(lea) \cup UnknownEnds(lea) : s \in Meeting(swept, lea, end)

\* The traces left are as they were; those gone are the leas' that were treated.
ErasedSoFar ==
  /\ DOMAIN swept \subseteq Nat /\ Starts \subseteq DOMAIN swept
  /\ \A s \in Starts : m_traces[s] = swept[s]
  /\ \A lea \in m_lea_targets : lea \in lea_left \/ FirstGone(lea)
  /\ \A s \in DOMAIN swept \ Starts : \E lea \in m_lea_targets : LetGo(s, lea)

Erased == /\ pc \in {"lea", "done"} => ErasedSoFar
          /\ pc = "done" => lea_left = {}

\* The ends of data are numbers, and the same as long as the section is.
LEMMA EndsOfData ==
  ASSUME NEW lea \in Nat
  PROVE  /\ KnownEnds(lea) \subseteq Nat
         /\ section' = section => KnownEnds(lea)' = KnownEnds(lea)
<1>1. LeaSearch(lea) \subseteq Nat
  BY CodeSectionSweeperAssumption DEF LeaSearch
<1>2. section' = section => KnownEnds(lea)' = KnownEnds(lea)
  BY DEF KnownEnds, Int3
<1> QED BY <1>1, <1>2 DEF KnownEnds

\* Erasing lets the first trace over the data go, and none that is not over it.
LEMMA EraseLetsGo ==
  ASSUME ErasedSoFar, NEW lea, NEW end, EraseTraces(lea, end)
  PROVE  /\ DOMAIN m_traces' \subseteq Starts
         /\ \A s \in DOMAIN m_traces' : m_traces'[s] = m_traces[s]
         /\ \A s \in Starts \ DOMAIN m_traces' : s \in Meeting(swept, lea, end)
         /\ Meeting(swept, lea, end) # {} =>
              Min(Meeting(swept, lea, end)) \notin DOMAIN m_traces'
<1> DEFINE now    == Meeting(m_traces, lea, end)
           before == Meeting(swept, lea, end)
<1>1. now = before \cap Starts /\ before \subseteq Nat
  BY DEF ErasedSoFar, Meeting, Starts
<1> HIDE DEF now, before
<1>2. Erase(now)
  BY DEF EraseTraces, now
<1>3. CASE now = {}
  <2>1. m_traces' = m_traces
    BY <1>2, <1>3 DEF Erase
  <2>2. before # {} => Min(before) \in before
    BY <1>1, LeastIs
  <2> QED BY <1>1, <1>3, <2>1, <2>2 DEF Starts, before
<1>4. CASE now # {}
  <2>1. PICK E \in SUBSET now :
          Min(now) \in E /\ m_traces' = [s \in Starts \ E |-> m_traces[s]]
    BY <1>2, <1>4 DEF Erase
  <2>2. before # {} /\ now \subseteq Nat
    BY <1>1, <1>4
  <2>3. /\ Min(now) \in now /\ \A x \in now : Min(now) <= x
        /\ Min(before) \in before /\ \A x \in before : Min(before) <= x
    BY <1>1, <1>4, <2>2, LeastIs
  <2>4. ASSUME Min(before) \in Starts PROVE Min(before) = Min(now)
    <3>1. Min(before) \in now /\ Min(now) \in before
      BY <1>1, <2>3, <2>4
    <3>2. Min(before) \in Nat /\ Min(now) \in Nat
      BY <1>1, <2>2, <2>3
    <3>3. Min(now) <= Min(before) /\ Min(before) <= Min(now)
      BY <2>3, <3>1
    <3> QED BY ONLY <3>2, <3>3
  <2>5. Min(before) \notin Starts \ E
    BY <2>1, <2>4
  <2> QED BY <1>1, <2>1, <2>5 DEF before
<1> QED BY <1>3, <1>4

\* Treating a lea does what it should for that lea, and undoes nothing.
LEMMA TreatLeaErases ==
  ASSUME ErasedSoFar, NEW lea \in Nat, TreatLea(lea)
  PROVE  /\ DOMAIN m_traces' \subseteq Starts
         /\ \A s \in DOMAIN m_traces' : m_traces'[s] = m_traces[s]
         /\ \A s \in Starts \ DOMAIN m_traces' : LetGo(s, lea)
         /\ KnownEnds(lea) # {} =>
              LET meeting == Meeting(swept, lea, Min(KnownEnds(lea)))
              IN meeting # {} => Min(meeting) \notin DOMAIN m_traces'
<1>1. CASE KnownEnds(lea) # {}
  <2>1. EraseTraces(lea, Min(KnownEnds(lea)))
    BY <1>1 DEF TreatLea, SearchLeaves
  <2>2. Min(KnownEnds(lea)) \in KnownEnds(lea)
    BY <1>1, EndsOfData, LeastIs
  <2> QED BY <2>1, <2>2, EraseLetsGo DEF LetGo
<1>2. CASE KnownEnds(lea) = {} /\ \E end \in UnknownEnds(lea) : EraseTraces(lea, end)
  <2>1. PICK end \in UnknownEnds(lea) : EraseTraces(lea, end)
    BY <1>2
  <2> QED BY <1>2, <2>1, EraseLetsGo DEF LetGo
<1>3. CASE KnownEnds(lea) = {} /\ m_traces' = m_traces
  BY <1>3 DEF Starts
<1> QED BY <1>1, <1>2, <1>3 DEF TreatLea

\* A lea less is left, and what the others let go stays gone.
LEMMA LeaTargetErased == Sound /\ Erased /\ LeaTarget => Erased'
<1> SUFFICES ASSUME Sound, Erased, LeaTarget PROVE Erased'
  OBVIOUS
<1> PICK lea : lea = Min(lea_left)
  OBVIOUS
<1>1. /\ pc = "lea" /\ TreatLea(lea) /\ lea_left' = lea_left \ {lea} /\ lea_left # {}
      /\ UNCHANGED <<section, m_lea_targets, swept>>
  BY DEF LeaTarget, input
<1>2. m_lea_targets \subseteq Nat /\ lea_left \subseteq m_lea_targets
  BY DEF Sound, Data
<1>3. lea \in lea_left /\ lea \in Nat
  BY <1>1, <1>2, LeastIs
<1>4. ErasedSoFar
  BY <1>1 DEF Erased
<1>5. /\ Starts' \subseteq Starts /\ \A s \in Starts' : m_traces'[s] = m_traces[s]
      /\ \A s \in Starts \ Starts' : LetGo(s, lea)
      /\ KnownEnds(lea) # {} =>
           LET meeting == Meeting(swept, lea, Min(KnownEnds(lea)))
           IN meeting # {} => Min(meeting) \notin Starts'
  BY <1>1, <1>3, <1>4, TreatLeaErases DEF Starts
<1>6. ASSUME NEW other \in m_lea_targets PROVE KnownEnds(other)' = KnownEnds(other)
  <2>1. other \in Nat
    BY <1>2
  <2> QED BY <1>1, <2>1, EndsOfData
<1>7. \A other \in m_lea_targets' : other \in lea_left' \/ FirstGone(other)'
  <2> SUFFICES ASSUME NEW other \in m_lea_targets, other \notin lea_left'
               PROVE  FirstGone(other)'
    BY <1>1
  <2>1. KnownEnds(other)' = KnownEnds(other)
    BY <1>6
  <2>2. CASE other = lea
    BY <1>1, <1>5, <2>1, <2>2 DEF FirstGone, Meeting
  <2>3. CASE other # lea
    <3>1. FirstGone(other)
      BY <1>1, <1>4, <2>3 DEF ErasedSoFar
    <3> QED BY <1>1, <1>5, <2>1, <3>1 DEF FirstGone, Meeting
  <2> QED BY <2>2, <2>3
<1>8. \A s : \A other \in m_lea_targets : LetGo(s, other) => LetGo(s, other)'
  BY <1>1, <1>6 DEF LetGo, UnknownEnds, Meeting
<1>9. \A s \in DOMAIN swept' \ Starts' : \E other \in m_lea_targets' : LetGo(s, other)'
  <2> SUFFICES ASSUME NEW s \in DOMAIN swept \ Starts'
               PROVE  \E other \in m_lea_targets : LetGo(s, other)
    BY <1>1, <1>8
  <2>1. CASE s \in Starts
    BY <1>2, <1>3, <1>5, <2>1
  <2>2. CASE s \notin Starts
    BY <1>4, <2>2 DEF ErasedSoFar
  <2> QED BY <2>1, <2>2
<1>10. ErasedSoFar'
  BY <1>1, <1>4, <1>5, <1>7, <1>9 DEF ErasedSoFar
<1>11. pc' # "done"
  BY <1>1, TreatLeaDoes
<1> QED BY <1>10, <1>11 DEF Erased

\* Every step keeps what was erased right.
LEMMA NextErased == Sound /\ Sound' /\ Erased /\ [Next]_vars => Erased'
<1> SUFFICES ASSUME Sound, Sound', Erased, [Next]_vars PROVE Erased'
  OBVIOUS
<1>1. ASSUME UNCHANGED <<section, m_traces, m_lea_targets, lea_left, swept>>,
             pc \in {"lea", "done"}, pc' = pc \/ (pc' = "done" /\ lea_left = {})
      PROVE  Erased'
  <2>1. m_lea_targets \subseteq Nat
    BY DEF Sound, Data
  <2>2. \A lea \in m_lea_targets : KnownEnds(lea)' = KnownEnds(lea)
    BY <1>1, <2>1, EndsOfData
  <2>3. \A lea \in m_lea_targets : FirstGone(lea) => FirstGone(lea)'
    BY <1>1, <2>2 DEF FirstGone, Meeting, Starts
  <2>4. \A s : \A lea \in m_lea_targets : LetGo(s, lea) => LetGo(s, lea)'
    BY <1>1, <2>2 DEF LetGo, UnknownEnds, Meeting
  <2>5. ErasedSoFar /\ Starts' = Starts
    BY <1>1 DEF Erased, Starts
  <2>6. ErasedSoFar'
    BY <1>1, <2>3, <2>4, <2>5 DEF ErasedSoFar
  <2> QED BY <1>1, <2>6 DEF Erased
<1>2. CASE TakeTarget
  <2>1. pc' \notin {"lea", "done"}
    BY <1>2 DEF TakeTarget
  <2> QED BY <2>1 DEF Erased
<1>3. CASE SplitTraces
  <2>1. pc' \in {"lea", "done"} =>
          pc' = "lea" /\ lea_left' = m_lea_targets' /\ swept' = m_traces'
    BY <1>3 DEF SplitTraces
  <2>2. DOMAIN m_traces' \subseteq Nat
    <3>1. TracesGood(section', m_traces')
      BY DEF Sound
    <3> QED BY <3>1, Bounds DEF TracesGood, TraceGood
  <2>3. pc' = "lea" => ErasedSoFar'
    BY <2>1, <2>2 DEF ErasedSoFar, Starts
  <2> QED BY <2>1, <2>3 DEF Erased
<1>4. CASE SpotGaps
  BY <1>4 DEF SpotGaps, Erased
<1>5. CASE TrimGap
  <2>1. pc' \in {"trim", "sweep"}
    BY <1>5 DEF TrimGap, TrimTrampoline, TrimPadding, TrimEnd
  <2> QED BY <2>1 DEF Erased
<1>6. CASE GapsTreated \/ SweepDone
  BY <1>6 DEF GapsTreated, SweepDone, Erased
<1>7. CASE SweepStep
  BY <1>7 DEF SweepStep, Erased
<1>8. CASE LeaTarget
  BY <1>8, LeaTargetErased
<1>9. CASE LeaDone
  BY <1>1, <1>9 DEF LeaDone, input, members, locals
<1>10. CASE UNCHANGED vars
  <2>1. CASE pc \in {"lea", "done"}
    BY <1>1, <1>10, <2>1 DEF vars, input, members, locals
  <2>2. CASE pc \notin {"lea", "done"}
    BY <1>10, <2>2 DEF vars, Erased
  <2> QED BY <2>1, <2>2
<1> QED BY <1>2, <1>3, <1>4, <1>5, <1>6, <1>7, <1>8, <1>9, <1>10 DEF Next

\* Of the traces over data whose end was found the first is gone when the sweep is
\* done, and only traces over data are gone, for every section and set of leas, and
\* whichever traces the erased iterator misses (CodeSectionSweeper.cpp:129-152).
THEOREM LeaErasesFirstCorrect == Spec => []LeaErasesFirst
<1>1. Init => Erased
  BY DEF Init, Erased
<1>2. Erased => LeaErasesFirst
  BY DEF Erased, ErasedSoFar, FirstGone, LetGo, LeaErasesFirst
<1> QED BY <1>1, <1>2, NextErased, SoundInvariance, PTL DEF Spec

-----------------------------------------------------------------------------
(***************************************************************************)
(* The work list, and the split when it is empty.                          *)
(***************************************************************************)

\* Closed, of any section and targets.
ClosedIn(sec, given, starts) ==
  /\ given \cap Code \subseteq starts
  /\ \A s \in starts : process(sec)[s].gen \cap Code \subseteq starts

\* Each trace is as it was followed, what it leads to has a trace or is on the work
\* list, and every closed set holds them all.
Following(sec, given, traces, pending) ==
  LET starts == DOMAIN traces
  IN /\ \A s \in starts : s + traces[s] = TraceEnd(sec, s)
     /\ given \cap Code \subseteq starts \cup pending
     /\ \A s \in starts : process(sec)[s].gen \cap Code \subseteq starts \cup pending
     /\ \A T \in SUBSET Code :
          ClosedIn(sec, given, T) => starts \subseteq T /\ pending \cap Code \subseteq T

\* The traces begin at the least closed set.
Reaching(sec, given, starts) ==
  /\ ClosedIn(sec, given, starts)
  /\ \A T \in SUBSET Code : ClosedIn(sec, given, T) => starts \subseteq T

\* t is the next trace after s.
Follows(starts, s, t) ==
  t \in starts /\ s < t /\ \A u \in starts : s < u => t <= u

\* A trace ends where process() ends it, or, if it ended with its neighbour, there.
Split(sec, traces) ==
  \A s \in DOMAIN traces :
    \/ /\ s + traces[s] = TraceEnd(sec, s)
       /\ \A t : Follows(DOMAIN traces, s, t) => TraceEnd(sec, t) # TraceEnd(sec, s)
    \/ \E t \in DOMAIN traces :
         /\ Follows(DOMAIN traces, s, t)
         /\ TraceEnd(sec, t) = TraceEnd(sec, s) /\ s + traces[s] = t

Worked ==
  /\ pc = "process" => Following(section, m_reloc_targets, m_traces, m_pending_targets)
  /\ pc = "spot" => Reaching(section, m_reloc_targets, Starts) /\ Split(section, m_traces)

\* The work list begins with the targets given.
LEMMA InitWorked == Init => Worked
<1> SUFFICES ASSUME Init PROVE Worked
  OBVIOUS
<1>1. DOMAIN m_traces = {} /\ pc = "process" /\ m_pending_targets = m_reloc_targets \cap Code
  BY DEF Init
<1> QED BY <1>1 DEF Worked, Following, ClosedIn

\* A new trace, with what it yields on the work list.
LEMMA FollowMore ==
  ASSUME NEW sec \in Sections, NEW given, NEW traces, NEW pending,
         Following(sec, given, traces, pending),
         NEW target \in pending, target \in Code, target \notin DOMAIN traces
  PROVE  Following(sec, given, Inserted(traces, target, process(sec)[target].size),
                   (pending \ {target}) \cup process(sec)[target].gen)
<1> PICK new : new = Inserted(traces, target, process(sec)[target].size)
  OBVIOUS
<1> PICK more : more = (pending \ {target}) \cup process(sec)[target].gen
  OBVIOUS
<1>1. DOMAIN new = DOMAIN traces \cup {target}
  BY DEF Inserted
<1>2. /\ \A s \in DOMAIN traces : new[s] = traces[s]
      /\ new[target] = process(sec)[target].size
  BY DEF Inserted
<1>3. \A s \in DOMAIN new : s + new[s] = TraceEnd(sec, s)
  BY <1>1, <1>2 DEF Following, TraceEnd
<1>4. /\ given \cap Code \subseteq DOMAIN new \cup more
      /\ \A s \in DOMAIN new : process(sec)[s].gen \cap Code \subseteq DOMAIN new \cup more
  BY <1>1 DEF Following
<1>5. ASSUME NEW T \in SUBSET Code, ClosedIn(sec, given, T)
      PROVE  DOMAIN new \subseteq T /\ more \cap Code \subseteq T
  <2>1. DOMAIN traces \subseteq T /\ pending \cap Code \subseteq T
    BY <1>5 DEF Following
  <2>2. target \in T
    BY <2>1
  <2>3. process(sec)[target].gen \cap Code \subseteq T
    BY <1>5, <2>2 DEF ClosedIn
  <2> QED BY <1>1, <2>1, <2>2, <2>3
<1>6. Following(sec, given, new, more)
  BY <1>3, <1>4, <1>5 DEF Following
<1> QED BY <1>6

\* A target less that lies outside or has a trace.
LEMMA FollowOther ==
  ASSUME NEW sec, NEW given, NEW traces, NEW pending,
         Following(sec, given, traces, pending),
         NEW target, target \notin Code \/ target \in DOMAIN traces
  PROVE  Following(sec, given, traces, pending \ {target})
BY DEF Following

\* Following a target leads to nothing that is not reached from the targets given.
LEMMA TakeTargetWorked == Sound /\ Worked /\ TakeTarget => Worked'
<1> SUFFICES ASSUME Sound, Worked, TakeTarget PROVE Worked'
  OBVIOUS
<1> PICK target : target = Min(m_pending_targets)
  OBVIOUS
<1>1. pc' = pc /\ pc \in {"process", "again"} /\ UNCHANGED <<section, m_reloc_targets>>
      /\ m_pending_targets # {}
  BY DEF TakeTarget, input, locals
<1>2. target \in m_pending_targets
  <2>1. m_pending_targets \in SUBSET Nat
    BY Bounds DEF Sound, Addresses
  <2> QED BY <1>1, <2>1, LeastIs
<1>3. CASE pc = "process"
  <2>1. Following(section, m_reloc_targets, m_traces, m_pending_targets)
    BY <1>3 DEF Worked
  <2>2. \/ /\ target \in Code /\ target \notin DOMAIN m_traces
           /\ m_traces' = Inserted(m_traces, target, process(section)[target].size)
           /\ m_pending_targets' =
                (m_pending_targets \ {target}) \cup process(section)[target].gen
        \/ /\ target \notin Code \/ target \in DOMAIN m_traces
           /\ m_traces' = m_traces /\ m_pending_targets' = m_pending_targets \ {target}
    BY DEF TakeTarget, Insert, IsAddrCode, Starts
  <2>3. Following(section, m_reloc_targets, m_traces', m_pending_targets')
    <3>1. section \in Sections
      BY DEF Sound
    <3>2. CASE /\ target \in Code /\ target \notin DOMAIN m_traces
               /\ m_traces' = Inserted(m_traces, target, process(section)[target].size)
               /\ m_pending_targets' =
                    (m_pending_targets \ {target}) \cup process(section)[target].gen
      BY ONLY <1>2, <2>1, <3>1, <3>2, FollowMore
    <3>3. CASE /\ target \notin Code \/ target \in DOMAIN m_traces
               /\ m_traces' = m_traces /\ m_pending_targets' = m_pending_targets \ {target}
      BY ONLY <2>1, <3>3, FollowOther
    <3> QED BY <2>2, <3>2, <3>3
  <2> QED BY <1>1, <1>3, <2>3 DEF Worked
<1>4. CASE pc = "again"
  BY <1>1, <1>4 DEF Worked
<1> QED BY <1>1, <1>3, <1>4

\* Splitting traces that end as they were followed.
LEMMA ShrunkSplit ==
  ASSUME TracesGood(section, m_traces), \A s \in Starts : End(s) = TraceEnd(section, s)
  PROVE  Split(section, Shrunk)
<1>1. DOMAIN Shrunk = Starts
  BY DEF Shrunk
<1>2. Starts \in Parts /\ Starts \subseteq Nat
  BY EndsAre, Bounds DEF Parts
<1>3. ASSUME NEW s \in Starts, NEW t, Follows(Starts, s, t)
      PROVE  ~IsLast(s) /\ t = After(s)
  <2>1. t \in Starts /\ s < t /\ \A u \in Starts : s < u => t <= u
    BY <1>3 DEF Follows
  <2>2. s \in Nat /\ t \in Nat
    BY <1>2, <2>1
  <2>3. ~IsLast(s)
    BY <2>1, <2>2 DEF IsLast
  <2>4. After(s) \in Starts /\ After(s) > s /\ \A u \in Starts : u > s => u >= After(s)
    BY <1>2, <2>3, Neighbours
  <2>5. After(s) \in Nat
    BY <1>2, <2>4
  <2>6. t <= After(s) /\ t >= After(s)
    BY <2>1, <2>2, <2>4, <2>5
  <2> QED BY <2>2, <2>3, <2>5, <2>6
<1>4. ASSUME NEW s \in Starts
      PROVE  \/ /\ s + Shrunk[s] = TraceEnd(section, s)
                /\ \A t : Follows(Starts, s, t) => TraceEnd(section, t) # TraceEnd(section, s)
             \/ \E t \in Starts :
                  /\ Follows(Starts, s, t)
                  /\ TraceEnd(section, t) = TraceEnd(section, s) /\ s + Shrunk[s] = t
  <2>1. CASE /\ ~IsLast(s) /\ End(s) = End(After(s))
             /\ s + Shrunk[s] = After(s)
             /\ After(s) \in Starts /\ s < After(s)
             /\ \A t \in Starts : t > s => t >= After(s)
    <3>1. s \in Nat /\ After(s) \in Nat /\ \A u \in Starts : u \in Nat
      BY <1>2, <2>1
    <3>2. Follows(Starts, s, After(s))
      BY <2>1, <3>1 DEF Follows
    <3> QED BY <2>1, <3>2
  <2>2. CASE ~(~IsLast(s) /\ End(s) = End(After(s))) /\ Shrunk[s] = m_traces[s]
    <3>1. s + Shrunk[s] = TraceEnd(section, s)
      BY <2>2 DEF End
    <3>2. ASSUME NEW t, Follows(Starts, s, t)
          PROVE  TraceEnd(section, t) # TraceEnd(section, s)
      <4>1. ~IsLast(s) /\ t = After(s) /\ t \in Starts
        BY <1>3, <3>2 DEF Follows
      <4> QED BY <2>2, <4>1
    <3> QED BY <3>1, <3>2
  <2> QED BY <2>1, <2>2, ShrunkIs
<1> QED BY <1>1, <1>4 DEF Split

\* When the work list is empty the traces are closed, and they are split.
LEMMA SplitTracesWorked == Sound /\ Worked /\ SplitTraces => Worked'
<1> SUFFICES ASSUME Sound, Worked, SplitTraces PROVE Worked'
  OBVIOUS
<1>1. /\ pc' \in {"spot", "lea", "undefined"} /\ (pc' = "spot" => pc = "process")
      /\ UNCHANGED <<section, m_reloc_targets>>
      /\ m_traces' = Shrunk /\ m_pending_targets = {}
  BY DEF SplitTraces, input
<1>2. CASE pc = "process"
  <2>1. Following(section, m_reloc_targets, m_traces, {})
    BY <1>1, <1>2 DEF Worked
  <2>2. Starts' = Starts /\ DOMAIN m_traces = Starts
    BY <1>1 DEF Starts, Shrunk
  <2>3. Reaching(section, m_reloc_targets, Starts)
    BY <2>1, <2>2 DEF Following, Reaching, ClosedIn
  <2>4. \A s \in Starts : End(s) = TraceEnd(section, s)
    BY <2>1, <2>2 DEF Following, End
  <2>5. Split(section, Shrunk)
    BY <2>4, ShrunkSplit DEF Sound
  <2> QED BY <1>1, <2>2, <2>3, <2>5 DEF Worked
<1>3. CASE pc # "process"
  BY <1>1, <1>3 DEF Worked
<1> QED BY <1>2, <1>3

\* Every step of the first process() keeps the work list right.
LEMMA NextWorked == Sound /\ Worked /\ [Next]_vars => Worked'
<1> SUFFICES ASSUME Sound, Worked, [Next]_vars PROVE Worked'
  OBVIOUS
<1>1. CASE TakeTarget
  BY <1>1, TakeTargetWorked
<1>2. CASE SplitTraces
  BY <1>2, SplitTracesWorked
<1>3. CASE SpotGaps \/ GapsTreated \/ SweepStep \/ SweepDone \/ LeaDone
  BY <1>3 DEF SpotGaps, GapsTreated, SweepStep, SweepDone, LeaDone, Worked
<1>4. CASE TrimGap
  <2>1. pc' \in {"trim", "sweep"}
    BY <1>4 DEF TrimGap, TrimTrampoline, TrimPadding, TrimEnd
  <2> QED BY <2>1 DEF Worked
<1>5. CASE LeaTarget
  <2>1. pc' \in {"lea", "undefined", "crashed"}
    BY <1>5, TreatLeaDoes DEF LeaTarget
  <2> QED BY <2>1 DEF Worked
<1>6. CASE UNCHANGED vars
  BY <1>6 DEF vars, input, members, locals, Worked, Starts
<1> QED BY <1>1, <1>2, <1>3, <1>4, <1>5, <1>6 DEF Next

\* The work list is right in every reachable state, for all sections and targets.
THEOREM WorkedInvariance == Spec => []Worked
<1> QED BY InitWorked, NextWorked, SoundInvariance, PTL DEF Spec

\* The work list reaches what the targets given lead to, and nothing else, for every
\* section and set of targets (CodeSectionSweeper.cpp:44-74).
THEOREM WorkListReachesCorrect == Spec => []WorkListReaches
<1>1. Worked => WorkListReaches
  <2>1. \A T : Closed(T) <=> ClosedIn(section, m_reloc_targets, T)
    BY DEF Closed, ClosedIn
  <2> QED BY <2>1 DEF Worked, Reaching, WorkListReaches
<1> QED BY <1>1, WorkedInvariance, PTL

-----------------------------------------------------------------------------
(***************************************************************************)
(* What the traces cover when they are split, and the gaps between them.   *)
(***************************************************************************)
WhenSplit == Sound /\ Split(section, m_traces)

\* A trace that is split ends no later than process() ended it.
LEMMA SplitEnds ==
  ASSUME WhenSplit, NEW s \in Starts
  PROVE  /\ s \in Places /\ s \in Nat /\ End(s) \in Places /\ End(s) \in Nat /\ s <= End(s)
         /\ TraceEnd(section, s) \in Places /\ TraceEnd(section, s) \in Nat
         /\ s <= TraceEnd(section, s) /\ End(s) <= TraceEnd(section, s)
<1>1. s \in Places /\ End(s) \in Places /\ s <= End(s)
  BY EndsAre DEF WhenSplit, Sound, Parts
<1>2. s \in Nat /\ End(s) \in Nat
  BY <1>1, Bounds
<1>3. ASSUME NEW u \in Places
      PROVE  TraceEnd(section, u) \in Places /\ TraceEnd(section, u) \in Nat
             /\ u <= TraceEnd(section, u)
  <2>1. section \in Sections
    BY DEF WhenSplit, Sound
  <2> QED BY <2>1, TraceEndIs, TraceWalked
<1>4. End(s) <= TraceEnd(section, s)
  <2>1. CASE s + m_traces[s] = TraceEnd(section, s)
    BY <1>2, <2>1 DEF End
  <2>2. CASE \E t \in DOMAIN m_traces :
               TraceEnd(section, t) = TraceEnd(section, s) /\ s + m_traces[s] = t
    <3>1. PICK t \in Starts : TraceEnd(section, t) = TraceEnd(section, s) /\ End(s) = t
      BY <2>2 DEF End, Starts
    <3> QED BY <1>1, <1>3, <3>1
  <2> QED BY <2>1, <2>2 DEF WhenSplit, Split, Starts
<1> QED BY <1>1, <1>2, <1>3, <1>4

\* Splitting takes no byte from what the traces cover together.
LEMMA SplitCovers ==
  ASSUME WhenSplit
  PROVE  Traced(m_traces) = UNION {s..(TraceEnd(section, s) - 1) : s \in Starts}
<1>1. ASSUME NEW s \in Starts, NEW x \in s..(End(s) - 1)
      PROVE  x \in s..(TraceEnd(section, s) - 1)
  BY SplitEnds
<1>2. ASSUME NEW s \in Starts, NEW x \in s..(TraceEnd(section, s) - 1)
      PROVE  \E u \in Starts : x \in u..(End(u) - 1)
  <2> DEFINE T == {u \in Starts : u <= x /\ x < TraceEnd(section, u)}
  <2>1. x \in Int /\ s \in T /\ T \subseteq Places
    BY SplitEnds
  <2>2. PICK u \in T : \A v \in T : v <= u
    BY <2>1, LastPlace
  <2>3. u \in Starts /\ u <= x /\ x < TraceEnd(section, u) /\ u \in Nat
    BY <2>2, SplitEnds
  <2>4. CASE End(u) = TraceEnd(section, u)
    BY <2>1, <2>3, <2>4, SplitEnds
  <2>5. CASE \E t \in Starts : /\ u < t /\ TraceEnd(section, t) = TraceEnd(section, u)
                               /\ End(u) = t
    <3>1. PICK t \in Starts : /\ u < t /\ TraceEnd(section, t) = TraceEnd(section, u)
                              /\ End(u) = t
      BY <2>5
    <3>2. t \in Nat
      BY SplitEnds
    <3>3. ~(t <= x)
      <4>1. ASSUME t <= x PROVE FALSE
        <5>1. t \in T
          BY <2>3, <3>1, <4>1
        <5> QED BY <2>2, <2>3, <3>1, <3>2, <5>1
      <4> QED BY <4>1
    <3> QED BY <2>1, <2>3, <3>1, <3>2, <3>3
  <2>6. \/ End(u) = TraceEnd(section, u)
        \/ \E t \in Starts : /\ u < t /\ TraceEnd(section, t) = TraceEnd(section, u)
                             /\ End(u) = t
    BY <2>3 DEF WhenSplit, Split, Follows, Starts, End
  <2> QED BY <2>4, <2>5, <2>6
<1> DEFINE Whole(s) == s..(TraceEnd(section, s) - 1)
           Now(s) == s..(s + m_traces[s] - 1)
<1>3. Traced(m_traces) = UNION {Now(s) : s \in Starts}
  BY DEF Traced, Starts
<1>4. ASSUME NEW s \in Starts PROVE Now(s) = s..(End(s) - 1)
  <2>1. s \in Nat /\ m_traces[s] \in Nat
    BY SplitEnds, EndsAre DEF WhenSplit, Sound
  <2>2. s + (m_traces[s] - 1) = (s + m_traces[s]) - 1
    BY <2>1
  <2> QED BY <2>2 DEF End
<1>5. /\ \A s \in Starts : \A x \in Now(s) : x \in Whole(s)
      /\ \A s \in Starts : \A x \in Whole(s) : \E u \in Starts : x \in Now(u)
  BY <1>1, <1>2, <1>4
<1> HIDE DEF Whole, Now
<1>6. UNION {Now(s) : s \in Starts} = UNION {Whole(s) : s \in Starts}
  BY <1>5
<1> QED BY <1>3, <1>6 DEF Whole

\* The instructions of the traces cover what the traces do.
LEMMA InstructionsAre ==
  ASSUME section \in Sections, Starts \in Parts
  PROVE  /\ Instructions = UNION {WalkTo(s, TraceEnd(section, s)) : s \in Starts}
         /\ UNION {a..(a + section[a].length - 1) : a \in Instructions} =
              UNION {s..(TraceEnd(section, s) - 1) : s \in Starts}
<1> DEFINE Bytes(a) == a..(a + section[a].length - 1)
           Walk(s) == WalkTo(s, TraceEnd(section, s))
           Trace(s) == s..(TraceEnd(section, s) - 1)
<1>1. Instructions = UNION {Walk(s) : s \in Starts}
  BY DEF Instructions, TraceEnd
<1>2. ASSUME NEW s \in Starts PROVE Trace(s) = UNION {Bytes(a) : a \in Walk(s)}
  BY TraceCovers DEF Parts
<1> HIDE DEF Bytes, Walk, Trace
<1>3. UNION {Bytes(a) : a \in Instructions} = UNION {Trace(s) : s \in Starts}
  <2>1. ASSUME NEW x \in UNION {Bytes(a) : a \in Instructions}
        PROVE  x \in UNION {Trace(s) : s \in Starts}
    <3>1. PICK a \in Instructions : x \in Bytes(a)
      OBVIOUS
    <3>2. PICK s \in Starts : a \in Walk(s)
      BY <1>1
    <3> QED BY <1>2, <3>1, <3>2
  <2>2. ASSUME NEW x \in UNION {Trace(s) : s \in Starts}
        PROVE  x \in UNION {Bytes(a) : a \in Instructions}
    <3>1. PICK s \in Starts : x \in Trace(s)
      OBVIOUS
    <3>2. PICK a \in Walk(s) : x \in Bytes(a)
      BY <1>2, <3>1
    <3> QED BY <1>1, <3>1, <3>2
  <2> QED BY <2>1, <2>2
<1> QED BY <1>1, <1>3 DEF Bytes, Walk, Trace

\* A trace that begins in another one ends with it, where the two are aligned.
LEMMA AlignedEnds ==
  ASSUME WhenSplit, Aligned, NEW s \in Starts, NEW u \in Starts,
         s < u, u < TraceEnd(section, s)
  PROVE  TraceEnd(section, u) = TraceEnd(section, s)
<1>1. section \in Sections /\ Starts \in Parts /\ s \in Places
  BY EndsAre, SplitEnds DEF WhenSplit, Sound
<1>2. u \in s..(TraceEnd(section, s) - 1)
  BY SplitEnds
<1>3. PICK a \in WalkTo(s, TraceEnd(section, s)) : u \in a..(a + section[a].length - 1)
  BY <1>1, <1>2, TraceCovers
<1>4. a \in Instructions
  BY <1>1, InstructionsAre
<1>5. a \in Nat /\ section[a].length \in Nat /\ u \in Nat
  <2>1. ~Unreadable(section, a)
    BY <1>1, <1>3, WalkToHas
  <2> QED BY <1>1, <2>1, Reading, SplitEnds
<1>6. a = u
  <2>1. ~(a < u /\ u < a + section[a].length)
    BY <1>4 DEF Aligned
  <2>2. a <= u /\ u < a + section[a].length
    BY <1>3, <1>5
  <2> QED BY <1>5, <2>1, <2>2
<1> QED BY <1>1, <1>3, <1>6, WalkEnds

\* Aligned traces do not overlap when they are split.
LEMMA AlignedApart ==
  ASSUME WhenSplit, Aligned, NEW s \in Starts, NEW t \in Starts, s < t
  PROVE  End(s) <= t
<1>1. s \in Nat /\ t \in Nat /\ End(s) \in Nat /\ Starts \in Parts
  BY SplitEnds, EndsAre DEF WhenSplit, Sound
<1>2. CASE \E u \in Starts : Follows(Starts, s, u) /\ End(s) = u
  BY <1>2 DEF Follows
<1>3. CASE /\ End(s) = TraceEnd(section, s)
           /\ \A u : Follows(Starts, s, u) => TraceEnd(section, u) # TraceEnd(section, s)
  <2>1. ASSUME ~(End(s) <= t) PROVE FALSE
    <3>1. ~IsLast(s)
      BY <1>1 DEF IsLast
    <3>2. /\ After(s) \in Starts /\ After(s) > s
          /\ \A u \in Starts : u > s => u >= After(s)
      BY <1>1, <3>1, Neighbours
    <3>3. After(s) \in Nat /\ \A u \in Starts : u \in Nat
      BY <3>2, SplitEnds
    <3>4. Follows(Starts, s, After(s))
      BY <1>1, <3>2, <3>3 DEF Follows
    <3>5. After(s) < TraceEnd(section, s) /\ s < After(s)
      BY <1>1, <1>3, <2>1, <3>2, <3>3
    <3>6. TraceEnd(section, After(s)) = TraceEnd(section, s)
      BY <3>2, <3>5, AlignedEnds
    <3> QED BY <1>3, <3>4, <3>6
  <2> QED BY <2>1
<1> QED BY <1>2, <1>3 DEF WhenSplit, Split, Starts, End

\* Splitting loses no byte, and leaves aligned traces apart, though each is compared
\* with its neighbour only (CodeSectionSweeper.cpp:76-95).
THEOREM SplitSoundCorrect == Spec => []SplitSound
<1>1. Sound /\ Worked => SplitSound
  <2> SUFFICES ASSUME Sound, Worked, pc = "spot"
               PROVE  /\ Traced(m_traces) =
                           UNION {a..(a + section[a].length - 1) : a \in Instructions}
                      /\ Aligned => \A s, t \in Starts : s < t => End(s) <= t
    BY DEF SplitSound
  <2>1. WhenSplit /\ section \in Sections /\ Starts \in Parts
    BY EndsAre DEF WhenSplit, Worked, Sound
  <2> QED BY <2>1, SplitCovers, InstructionsAre, AlignedApart
<1> QED BY <1>1, SoundInvariance, WorkedInvariance, PTL

\* What the gaps are when the traces are split, and what no trace covers.
LEMMA GapsSplit ==
  ASSUME WhenSplit
  PROVE  LET n == Cardinality(RunStarts)
             bytes(k) == Gaps[k][1]..(Gaps[k][2] - 1)
         IN /\ n \in Nat /\ Saved \in Nat /\ Saved = IF n = 0 THEN 0 ELSE n - 1
            /\ Len(Gaps) = Saved + 1 /\ DOMAIN Gaps = 1..(Saved + 1)
            /\ \A k \in 1..n : Run(k) \in Starts /\ (k > 1 => ~IsFirst(Run(k)))
            /\ \A r \in RunStarts : \E k \in 1..n : r = Run(k) /\ (IsFirst(r) => k = 1)
            /\ \A k \in 1..(Saved + 1) :
                 bytes(k) = (IF k = 1 THEN m_code_section_start ELSE End(Before(Run(k))))..
                            ((IF k > Saved THEN code_section_end ELSE Run(k)) - 1)
<1> PICK n : n = Cardinality(RunStarts)
  OBVIOUS
<1>1. Starts \in Parts
  BY EndsAre DEF WhenSplit, Sound
<1>2. /\ n \in Nat
      /\ \A k \in 1..n : Run(k) \in RunStarts /\ (k > 1 => ~IsFirst(Run(k)))
      /\ \A r \in RunStarts : \E k \in 1..n : r = Run(k) /\ (IsFirst(r) => k = 1)
  BY <1>1, RunsAre
<1>3. \A k \in 1..n : Run(k) \in Starts
  BY <1>2 DEF RunStarts
<1> PICK m \in Nat : m = Saved /\ m = IF n = 0 THEN 0 ELSE n - 1
  BY <1>2 DEF Saved
<1> DEFINE F(k) == IF k = 1 THEN m_code_section_start ELSE End(Before(Run(k)))
           L(k) == IF k > m THEN code_section_end ELSE Run(k)
<1>4. Gaps = [k \in 1..(m + 1) |-> <<F(k), L(k)>>]
  BY <1>2, GapsAre
<1> HIDE DEF F, L
<1>5. /\ Len(Gaps) = m + 1 /\ DOMAIN Gaps = 1..(m + 1)
      /\ \A k \in 1..(m + 1) : Gaps[k][1]..(Gaps[k][2] - 1) = F(k)..(L(k) - 1)
  BY <1>4
<1> QED BY <1>2, <1>3, <1>5 DEF F, L

\* A byte of the section that no trace covers lies in a gap.
LEMMA GapsCover ==
  ASSUME WhenSplit, NEW x \in Code, x \notin Traced(m_traces)
  PROVE  \E k \in DOMAIN Gaps : x \in Gaps[k][1]..(Gaps[k][2] - 1)
<1> PICK n, m : n = Cardinality(RunStarts) /\ m = Saved
  OBVIOUS
<1>1. /\ n \in Nat /\ m \in Nat /\ m = IF n = 0 THEN 0 ELSE n - 1
      /\ DOMAIN Gaps = 1..(m + 1)
  BY GapsSplit
<1>2. /\ \A k \in 1..n : Run(k) \in Starts /\ (k > 1 => ~IsFirst(Run(k)))
      /\ \A r \in RunStarts : \E k \in 1..n : r = Run(k) /\ (IsFirst(r) => k = 1)
  BY GapsSplit
<1>3. \A k \in 1..(m + 1) :
        Gaps[k][1]..(Gaps[k][2] - 1) =
          (IF k = 1 THEN m_code_section_start ELSE End(Before(Run(k))))..
          ((IF k > m THEN code_section_end ELSE Run(k)) - 1)
  BY GapsSplit
<1>4. Starts \in Parts /\ \A s \in Starts : s \in Nat /\ End(s) \in Nat
  BY EndsAre, SplitEnds DEF WhenSplit, Sound
<1>5. x \in Nat /\ m_code_section_start <= x /\ x <= code_section_end - 1
      /\ m_code_section_start \in Nat /\ code_section_end \in Nat
  BY Bounds DEF Code
<1>6. ASSUME NEW s \in Starts, s <= x PROVE End(s) <= x
  <2>1. PICK size \in Nat : size = m_traces[s]
    BY EndsAre DEF WhenSplit, Sound
  <2>2. ~(x \in s..(s + size - 1))
    BY <1>6, <2>1 DEF Traced, Starts
  <2>3. End(s) = s + size /\ s \in Nat /\ x \in Nat
    BY <1>4, <1>5, <2>1 DEF End
  <2>4. s + size <= x
    BY ONLY <1>6, <2>2, <2>3, size \in Nat
  <2> QED BY <2>3, <2>4
<1>7. CASE m = 0
  <2>1. Gaps[1][1]..(Gaps[1][2] - 1) = m_code_section_start..(code_section_end - 1)
    <3>1. 1 \in 1..(m + 1) /\ 1 > m
      BY <1>7
    <3> QED BY <1>3, <3>1
  <2>2. x \in m_code_section_start..(code_section_end - 1)
    BY DEF Code
  <2>3. x \in Gaps[1][1]..(Gaps[1][2] - 1)
    BY ONLY <2>1, <2>2
  <2>4. 1 \in DOMAIN Gaps
    BY <1>1
  <2> QED BY <2>3, <2>4
<1>8. CASE m # 0 /\ \A t \in Starts : t <= x
  <2>1. n \in 1..n /\ n > 1 /\ n = m + 1 /\ n \in Nat
    BY <1>1, <1>8
  <2>2. Before(Run(n)) \in Starts
    BY <1>2, <1>4, <2>1, Neighbours
  <2>3. End(Before(Run(n))) <= x
    BY <1>6, <1>8, <2>2
  <2>4. Gaps[n][1]..(Gaps[n][2] - 1) = End(Before(Run(n)))..(code_section_end - 1)
    BY <1>1, <1>3, <2>1
  <2>5. x \in Gaps[n][1]..(Gaps[n][2] - 1)
    <3>1. End(Before(Run(n))) \in Nat
      BY <1>4, <2>2
    <3>2. x \in End(Before(Run(n)))..(code_section_end - 1)
      BY ONLY <1>5, <2>3, <3>1
    <3> QED BY ONLY <2>4, <3>2
  <2> QED BY <1>1, <2>1, <2>5
<1>9. CASE m # 0 /\ \E t \in Starts : ~(t <= x)
  <2> DEFINE behind == {t \in Starts : t > x}
  <2>1. behind \in SUBSET Nat /\ behind # {}
    BY <1>4, <1>5, <1>9
  <2>2. PICK t \in behind : \A u \in behind : t <= u
    BY <2>1, LeastElement
  <2>3. t \in Starts /\ t > x /\ t \in Nat /\ \A u \in Starts : u < t => u <= x
    BY <1>4, <1>5, <2>2
  <2>4. ASSUME ~IsFirst(t) PROVE Before(t) \in Starts /\ Before(t) < t /\ End(Before(t)) <= x
    BY <1>4, <1>6, <2>3, <2>4, Neighbours
  <2>5. t \in RunStarts
    <3>1. ASSUME ~IsFirst(t) PROVE End(Before(t)) # t
      BY <1>4, <1>5, <2>3, <2>4, <3>1
    <3> QED BY <2>3, <3>1 DEF RunStarts
  <2>6. PICK k \in 1..n : t = Run(k) /\ (IsFirst(t) => k = 1)
    BY <1>2, <2>5
  <2>7. k \in 1..(m + 1) /\ k \in Nat
    BY <1>1, <2>6
  <2> PICK last : last = IF k > m THEN code_section_end ELSE Run(k)
    OBVIOUS
  <2>8. x <= last - 1 /\ last \in Nat
    BY <1>5, <2>3, <2>6
  <2>9. CASE k = 1
    <3>1. Gaps[k][1]..(Gaps[k][2] - 1) =
            m_code_section_start..(last - 1)
      BY <1>3, <2>7, <2>9
    <3>2. x \in m_code_section_start..(last - 1)
      BY ONLY <1>5, <2>8
    <3>3. x \in Gaps[k][1]..(Gaps[k][2] - 1)
      BY ONLY <3>1, <3>2
    <3> QED BY <1>1, <2>7, <3>3
  <2>10. CASE k # 1
    <3>1. Gaps[k][1]..(Gaps[k][2] - 1) =
            End(Before(t))..(last - 1)
      BY <1>3, <2>6, <2>7, <2>10
    <3>2. k > 1
      BY <2>7, <2>10
    <3>3. Before(t) \in Starts /\ End(Before(t)) <= x
      BY <1>2, <2>4, <2>6, <3>2
    <3>4. End(Before(t)) \in Nat
      BY <1>4, <3>3
    <3>5. x \in End(Before(t))..(last - 1)
      BY ONLY <1>5, <2>8, <3>3, <3>4
    <3>6. x \in Gaps[k][1]..(Gaps[k][2] - 1)
      BY ONLY <3>1, <3>5
    <3> QED BY <1>1, <2>7, <3>6
  <2> QED BY <2>9, <2>10
<1> QED BY <1>7, <1>8, <1>9

\* A gap but the last holds no byte of a trace, where traces are aligned.
LEMMA GapsFree ==
  ASSUME WhenSplit, Aligned, NEW k \in 1..(Len(Gaps) - 1),
         NEW x \in Gaps[k][1]..(Gaps[k][2] - 1), NEW s \in Starts, s <= x, x < End(s)
  PROVE  FALSE
<1> PICK n, m : n = Cardinality(RunStarts) /\ m = Saved
  OBVIOUS
<1>1. /\ n \in Nat /\ m \in Nat /\ m = IF n = 0 THEN 0 ELSE n - 1
      /\ Len(Gaps) = m + 1
  BY GapsSplit
<1>2. k \in 1..m /\ k \in 1..n /\ k \in 1..(m + 1) /\ k \in Nat
  BY <1>1
<1>3. Run(k) \in Starts /\ (k > 1 => ~IsFirst(Run(k)))
  BY <1>2, GapsSplit
<1>4. Gaps[k][1]..(Gaps[k][2] - 1) =
        (IF k = 1 THEN m_code_section_start ELSE End(Before(Run(k))))..(Run(k) - 1)
  <2>1. ~(k > m)
    BY <1>1, <1>2
  <2> QED BY <1>2, <2>1, GapsSplit
<1>5. Starts \in Parts /\ \A t \in Starts : t \in Nat /\ End(t) \in Nat /\ t <= End(t)
  BY EndsAre, SplitEnds DEF WhenSplit, Sound
<1> PICK first : first = IF k = 1 THEN m_code_section_start ELSE End(Before(Run(k)))
  OBVIOUS
<1>6. x \in Int /\ x < Run(k) /\ s < Run(k) /\ first <= x
  <2>1. first \in Int /\ Run(k) \in Nat /\ s \in Nat
    <3>1. m_code_section_start \in Nat
      BY Bounds
    <3>2. ASSUME k # 1 PROVE End(Before(Run(k))) \in Nat
      <4>1. ~IsFirst(Run(k))
        BY <1>2, <1>3, <3>2
      <4> QED BY <1>3, <1>5, <4>1, Neighbours
    <3> QED BY <1>3, <1>5, <3>1, <3>2
  <2>2. x \in first..(Run(k) - 1)
    BY <1>4
  <2>3. x \in Int /\ x < Run(k) /\ first <= x
    BY ONLY <2>1, <2>2
  <2> QED BY <2>1, <2>3
<1>7. CASE k = 1
  <2>1. Starts \in SUBSET Nat /\ Starts # {}
    BY <1>5
  <2>2. PICK f \in Starts : \A t \in Starts : f <= t
    BY <2>1, LeastElement
  <2>3. IsFirst(f)
    BY <1>5, <2>2 DEF IsFirst
  <2>4. f \in RunStarts
    BY <2>3 DEF RunStarts
  <2>5. f = Run(1)
    BY <2>3, <2>4, GapsSplit
  <2> QED BY <1>3, <1>5, <1>6, <1>7, <2>2, <2>5
<1>8. CASE k # 1
  <2>1. ~IsFirst(Run(k))
    BY <1>2, <1>3, <1>8
  <2> PICK b : b = Before(Run(k))
    OBVIOUS
  <2>2. b \in Starts /\ s <= b
    BY <1>3, <1>5, <1>6, <2>1, Neighbours
  <2>3. End(b) <= x
    BY <1>6, <1>8
  <2>4. s < b
    BY <1>5, <1>6, <2>2, <2>3
  <2>5. End(s) <= b
    BY <2>2, <2>4, AlignedApart
  <2> QED BY <1>5, <1>6, <2>2, <2>3, <2>5
<1> QED BY <1>7, <1>8

\* The gaps hold every byte the traces do not cover and, but for the last, where traces
\* are aligned, nothing else (CodeSectionSweeper.cpp:188-259).
THEOREM GapsHoldUntracedCorrect == Spec => []GapsHoldUntraced
<1>1. Sound /\ Worked => GapsHoldUntraced
  <2> SUFFICES ASSUME Sound, Worked, pc = "spot" PROVE GapsHoldUntraced
    BY DEF GapsHoldUntraced
  <2>1. WhenSplit
    BY DEF WhenSplit, Worked
  <2> DEFINE bytes(k) == Gaps[k][1]..(Gaps[k][2] - 1)
  <2>2. \A x \in Code : x \notin Traced(m_traces) => \E k \in DOMAIN Gaps : x \in bytes(k)
    BY <2>1, GapsCover
  <2>3. ASSUME Aligned, NEW k \in 1..(Len(Gaps) - 1)
        PROVE  bytes(k) \cap Traced(m_traces) = {}
    <3>1. ASSUME NEW x \in bytes(k), x \in Traced(m_traces) PROVE FALSE
      <4>1. PICK s \in Starts : x \in s..(s + m_traces[s] - 1)
        BY <3>1 DEF Traced, Starts
      <4>2. s \in Nat /\ m_traces[s] \in Nat /\ End(s) = s + m_traces[s]
        BY <2>1, SplitEnds, EndsAre DEF Sound, End
      <4>3. s <= x /\ x < End(s)
        BY <4>1, <4>2
      <4> QED BY <2>1, <2>3, <3>1, <4>3, GapsFree
    <3> QED BY <3>1
  <2> HIDE DEF bytes
  <2>4. Code \ Traced(m_traces) \subseteq UNION {bytes(k) : k \in DOMAIN Gaps}
    BY <2>2
  <2> QED BY <2>3, <2>4 DEF GapsHoldUntraced, bytes
<1> QED BY <1>1, SoundInvariance, WorkedInvariance, PTL

-----------------------------------------------------------------------------
(***************************************************************************)
(* Every step advances.                                                    *)
(***************************************************************************)

\* Following a target: a trace more, or a target less.
LEMMA TakeTargetAdvances == Sound /\ TakeTarget => Advance
<1> SUFFICES ASSUME Sound, TakeTarget PROVE Advance
  OBVIOUS
<1> PICK target : target = Min(m_pending_targets)
  OBVIOUS
<1>1. pc' = pc /\ pc \in {"process", "again"} /\ m_pending_targets # {}
  BY DEF TakeTarget
<1>2. target \in m_pending_targets
  <2>1. m_pending_targets \in SUBSET Nat
    BY Bounds DEF Sound, Addresses
  <2> QED BY <1>1, <2>1, LeastIs
<1>3. \/ target \notin Starts /\ \E size : m_traces' = Inserted(m_traces, target, size)
      \/ m_traces' = m_traces /\ m_pending_targets' = m_pending_targets \ {target}
  BY DEF TakeTarget, Insert
<1>4. WorkLeft
  <2>1. CASE target \notin Starts /\ \E size : m_traces' = Inserted(m_traces, target, size)
    <3>1. DOMAIN m_traces' = Starts \cup {target} /\ target \notin Starts
      BY <2>1 DEF Inserted, Starts
    <3> QED BY <3>1 DEF WorkLeft
  <2>2. CASE m_traces' = m_traces /\ m_pending_targets' = m_pending_targets \ {target}
    BY <1>2, <2>2 DEF WorkLeft, Starts
  <2> QED BY <1>3, <2>1, <2>2
<1> QED BY <1>1, <1>4 DEF Advance

\* Trimming a gap leaves less of it, or none, or sweeps it.
LEMMA TrimGapAdvances == Sound /\ TrimGap => Advance
<1> SUFFICES ASSUME Sound, TrimGap PROVE Advance
  OBVIOUS
<1> PICK start, end : start = Head(vec_gaps)[1] /\ end = Head(vec_gaps)[2]
  OBVIOUS
<1>1. /\ pc = "trim" /\ vec_gaps # <<>> /\ vec_gaps \in Seq(Places \X Borders)
      /\ TrimTrampoline(start, end) \/ TrimPadding(start, end) \/ TrimEnd(start, end)
  BY DEF TrimGap, Sound
<1>2. start \in Nat /\ end \in Nat /\ start \in Places /\ end \in Borders
  BY <1>1, GapsLess
<1>3. ASSUME NEW s \in Int, NEW e \in Int, e - s < end - start,
             vec_gaps' = <<<<s, e>>>> \o Tail(vec_gaps), pc' = pc
      PROVE  Advance
  <2>1. Len(vec_gaps') = Len(vec_gaps) /\ Head(vec_gaps') = <<s, e>>
    <3> PICK rest : rest = Tail(vec_gaps)
      OBVIOUS
    <3>1. rest \in Seq(Places \X Borders) /\ Len(rest) = Len(vec_gaps) - 1 /\ Len(vec_gaps) \in Nat
      BY <1>1
    <3>2. <<<<s, e>>>> \in Seq(Int \X Int) /\ Len(<<<<s, e>>>>) = 1
      OBVIOUS
    <3> QED BY <1>3, <3>1, <3>2
  <2>2. GapsLeft
    BY <1>1, <1>3, <2>1 DEF GapsLeft
  <2> QED BY <1>1, <1>3, <2>2 DEF Advance
<1>4. CASE TrimTrampoline(start, end)
  <2>1. JmpLength \in Nat /\ JmpLength > 0
    BY CodeSectionSweeperAssumption
  <2>2. end - (start + JmpLength) < end - start /\ start + JmpLength \in Int
    BY <1>2, <2>1
  <2> QED BY <1>2, <1>3, <1>4, <2>2 DEF TrimTrampoline, ReplaceGap
<1>5. CASE TrimPadding(start, end)
  <2>1. CASE /\ PaddingEnd(start, end) # start
             /\ vec_gaps' = <<<<PaddingEnd(start, end), end>>>> \o Tail(vec_gaps)
    <3>1. start <= end
      BY <1>2, <2>1 DEF PaddingEnd
    <3>2. PaddingEnd(start, end) \in start..end
      BY <1>2, <3>1, PaddingIn
    <3>3. PaddingEnd(start, end) \in Int /\ end - PaddingEnd(start, end) < end - start
      BY ONLY <1>2, <2>1, <3>2
    <3> QED BY <1>2, <1>3, <1>5, <2>1, <3>3 DEF TrimPadding
  <2>2. CASE /\ PaddingStart(start, end) # end
             /\ vec_gaps' = <<<<start, PaddingStart(start, end)>>>> \o Tail(vec_gaps)
    <3>1. start <= end
      BY <1>2, <2>2 DEF PaddingStart
    <3>2. PaddingStart(start, end) \in start..end
      BY <1>2, <3>1, PaddingIn
    <3>3. PaddingStart(start, end) \in Int /\ PaddingStart(start, end) - start < end - start
      BY ONLY <1>2, <2>2, <3>2
    <3> QED BY <1>2, <1>3, <1>5, <2>2, <3>3 DEF TrimPadding
  <2> QED BY <1>5, <2>1, <2>2 DEF TrimPadding, ReplaceGap
<1>6. CASE TrimEnd(start, end)
  <2>1. CASE vec_gaps' = Tail(vec_gaps) /\ pc' = pc
    <3>1. Len(vec_gaps') < Len(vec_gaps)
      BY <1>1, <2>1
    <3> QED BY <1>1, <2>1, <3>1 DEF Advance, GapsLeft
  <2>2. CASE vec_gaps' = vec_gaps /\ pc' = "sweep"
    <3>1. Phase[pc'] = Phase[pc]
      BY <1>1, <2>2 DEF Phase
    <3> QED BY <1>1, <2>2, <3>1 DEF Advance, GapsLeft
  <2> QED BY <1>6, <2>1, <2>2 DEF TrimEnd
<1> QED BY <1>1, <1>4, <1>5, <1>6

\* Sweeping goes on to a later instruction.
LEMMA SweepStepAdvances == Sound /\ SweepStep => Advance
<1> SUFFICES ASSUME Sound, SweepStep PROVE Advance
  OBVIOUS
<1> PICK addr : addr = PaddingEnd(inst, Head(vec_gaps)[2])
  OBVIOUS
<1>1. addr \in Nat /\ inst \in Nat /\ inst <= addr
  BY PaddingReached
<1>2. /\ pc = "sweep" /\ UNCHANGED <<vec_gaps, pc>>
      /\ inst' = addr + 1 \/ (~Unreadable(section, addr) /\ inst' = addr + section[addr].length)
  BY DEF SweepStep, SweepUnreadable, SweepInstruction
<1>3. inst' > inst
  <2>1. CASE inst' = addr + 1
    BY <1>1, <2>1
  <2>2. CASE ~Unreadable(section, addr) /\ inst' = addr + section[addr].length
    <3>1. addr + section[addr].length > addr /\ addr + section[addr].length \in Nat
      BY <2>2, Reading, Bounds DEF Sound
    <3> QED BY <1>1, <2>2, <3>1
  <2> QED BY <1>2, <2>1, <2>2
<1>4. GapsLeft
  BY <1>2, <1>3 DEF GapsLeft
<1> QED BY <1>2, <1>4 DEF Advance

\* Treating a lea leaves one less, or ends the search.
LEMMA LeaTargetAdvances == Sound /\ LeaTarget => Advance
<1> SUFFICES ASSUME Sound, LeaTarget PROVE Advance
  OBVIOUS
<1> PICK lea : lea = Min(lea_left)
  OBVIOUS
<1>1. pc = "lea" /\ lea_left # {} /\ lea_left' = lea_left \ {lea} /\ TreatLea(lea)
  BY DEF LeaTarget
<1>2. lea_left \in SUBSET Nat /\ IsFiniteSet(lea_left)
  <2>1. IsFiniteSet(m_lea_targets) /\ lea_left \in SUBSET m_lea_targets /\ m_lea_targets \subseteq Nat
    BY DEF Sound, Data
  <2> QED BY <2>1, FS_Subset
<1>3. lea \in lea_left
  BY <1>1, <1>2, LeastIs
<1>4. Cardinality(lea_left') < Cardinality(lea_left)
  <2>1. Cardinality(lea_left) \in Nat /\ Cardinality(lea_left \ {lea}) = Cardinality(lea_left) - 1
    BY <1>2, <1>3, FS_RemoveElement, FS_CardinalityType
  <2> QED BY <1>1, <2>1
<1>5. CASE pc' = pc
  BY <1>1, <1>4, <1>5 DEF Advance
<1>6. CASE pc' \in {"undefined", "crashed"}
  BY <1>1, <1>6 DEF Advance, Phase
<1> QED BY <1>1, <1>5, <1>6, TreatLeaDoes

\* Every step brings the sweep nearer to its end: no loop of process(), spotGaps(),
\* linearSweepGap() or postProcess() goes round in circles, for every section.
THEOREM SweepAdvancesCorrect == Spec => SweepAdvances
<1>1. Sound /\ [Next]_vars => [Advance]_vars
  <2> SUFFICES ASSUME Sound, Next PROVE Advance
    OBVIOUS
  <2>1. CASE SplitTraces
    BY <2>1 DEF SplitTraces, Advance, Phase
  <2>2. CASE SpotGaps \/ GapsTreated \/ LeaDone
    BY <2>2 DEF SpotGaps, GapsTreated, LeaDone, Advance, Phase
  <2>3. CASE SweepDone
    <3>1. vec_gaps \in Seq(Places \X Borders) /\ vec_gaps # <<>> /\ vec_gaps' = Tail(vec_gaps)
      BY <2>3 DEF SweepDone, Sound, Sweeping
    <3>2. Len(vec_gaps') < Len(vec_gaps)
      BY <3>1
    <3>3. pc = "sweep" /\ Phase[pc'] = Phase[pc]
      BY <2>3 DEF SweepDone, Phase
    <3> QED BY <3>2, <3>3 DEF Advance, GapsLeft
  <2> QED BY <2>1, <2>2, <2>3, TakeTargetAdvances, TrimGapAdvances, SweepStepAdvances,
             LeaTargetAdvances DEF Next
<1> QED BY <1>1, SoundInvariance, PTL DEF Spec, SweepAdvances
=============================================================================
