------------------------- MODULE CodeSectionSweeper -------------------------
(***************************************************************************)
(* CodeSectionSweeper (replay/CodeSectionSweeper.h, CodeSectionSweeper.cpp) *)
(* looks for the code in a code section without running it.  process()     *)
(* follows direct jumps and calls from the targets it knows; spotGaps()    *)
(* trims the gaps between the traces of padding and trampolines, sweeps    *)
(* what is left instruction by instruction, and lets process() follow what *)
(* that has found; postProcess() drops traces that lie in data.            *)
(*                                                                         *)
(* The calls come in the order of ImageInfo.cpp:70-74.  No grey area is    *)
(* marked: what would find them is not called.                             *)
(***************************************************************************)
EXTENDS StaticTrace, Sequences, FiniteSetsExt

CONSTANTS
  Sections,      \* the sections considered
  TargetSets,    \* the sets of targets to begin with
  Alignment, MinInt3, SearchRange,  \* 16, 4 and 4096 in postProcess
  JmpLength      \* the 5 bytes of a trampoline

ASSUME CodeSectionSweeperAssumption ==
  /\ Alignment \in Nat \ {0} /\ JmpLength \in Nat \ {0}
  /\ MinInt3 \in Nat /\ SearchRange \in Nat

\* What libdasm reads has a length, distances are signed and addresses are not.
ASSUME SectionsAssumption ==
  \A sec \in Sections : \A a \in Code :
    LET i == sec[a]
    IN /\ i.length \in 1..MaxLength
       /\ i.op \in Int \cup {Indirect}
       /\ i.type = "lea" /\ i.op # Indirect => i.op \in Nat
       /\ i.e9 \in BOOLEAN
       /\ i.e9 => i.type = "jmp" /\ i.op # Indirect /\ i.length = JmpLength

VARIABLES
  section,
  m_reloc_targets,    \* the targets to begin with, entry and routines included
  m_traces,           \* start -> size
  m_pending_targets, m_lea_targets,
  vec_gaps,           \* the gaps still to be treated, as <<start, end>>
  trace_start, inst,  \* linearSweepGap's locals: inst is inst_pre
  lea_left,           \* the lea targets still to be treated
  swept,              \* history: m_traces as postProcess() finds it
  pc

input   == <<section, m_reloc_targets>>
members == <<m_traces, m_pending_targets, m_lea_targets>>
locals  == <<vec_gaps, trace_start, inst, lea_left>>
vars    == <<input, members, locals, swept, pc>>

\* appendTarget takes the targets that lie in the section.
Init ==
  /\ section \in Sections /\ m_reloc_targets \in TargetSets
  /\ m_traces = <<>> /\ m_lea_targets = {}
  /\ m_pending_targets = m_reloc_targets \cap Code
  /\ vec_gaps = <<>> /\ trace_start = 0 /\ inst = 0 /\ lea_left = {}
  /\ swept = <<>>
  /\ pc = "process"

Starts == DOMAIN m_traces
End(s) == s + m_traces[s]
After(s)   == Min({t \in Starts : t > s})   \* the trace after s
Before(s)  == Max({t \in Starts : t < s})   \* the trace before s
IsFirst(s) == \A t \in Starts : t >= s
IsLast(s)  == \A t \in Starts : t <= s

\* std::set::insert: a trace that begins there already stays.
Inserted(traces, start, size) ==
  [s \in DOMAIN traces \cup {start} |-> IF s \in DOMAIN traces THEN traces[s] ELSE size]
Insert(start, size) == Inserted(m_traces, start, size)

-----------------------------------------------------------------------------
(***************************************************************************)
(* process()                                                               *)
(***************************************************************************)

\* Mutant: a target is followed each time it comes.
TakeTargetAgain ==
  /\ pc \in {"process", "again"} /\ m_pending_targets # {}
  /\ LET target == Min(m_pending_targets)
         rest   == m_pending_targets \ {target}
     IN \/ /\ IsAddrCode(target)
           /\ LET trace == process(section)[target]
              IN /\ m_traces' = Insert(target, trace.size)
                 /\ m_pending_targets' = rest \cup trace.gen
                 /\ m_lea_targets' = m_lea_targets \cup trace.lea
        \/ /\ ~IsAddrCode(target)
           /\ m_pending_targets' = rest
           /\ UNCHANGED <<m_traces, m_lea_targets>>
  /\ UNCHANGED <<input, swept, locals, pc>>

Covered(addr) == \E s \in Starts : s <= addr /\ addr < End(s)

\* Mutant: an address that some trace covers counts as one a trace begins at.
TakeTargetUncovered ==
  /\ pc \in {"process", "again"} /\ m_pending_targets # {}
  /\ LET target == Min(m_pending_targets)
         rest   == m_pending_targets \ {target}
     IN \/ /\ IsAddrCode(target) /\ ~Covered(target)
           /\ LET trace == process(section)[target]
              IN /\ m_traces' = Insert(target, trace.size)
                 /\ m_pending_targets' = rest \cup trace.gen
                 /\ m_lea_targets' = m_lea_targets \cup trace.lea
        \/ /\ ~IsAddrCode(target) \/ Covered(target)
           /\ m_pending_targets' = rest
           /\ UNCHANGED <<m_traces, m_lea_targets>>
  /\ UNCHANGED <<input, swept, locals, pc>>

\* The least target: a new trace begins there, and yields targets.
TakeTarget ==
  /\ pc \in {"process", "again"} /\ m_pending_targets # {}
  /\ LET target == Min(m_pending_targets)
         rest   == m_pending_targets \ {target}
     IN \/ /\ IsAddrCode(target) /\ target \notin Starts
           /\ LET trace == process(section)[target]
              IN /\ m_traces' = Insert(target, trace.size)
                 /\ m_pending_targets' = rest \cup trace.gen
                 /\ m_lea_targets' = m_lea_targets \cup trace.lea
        \/ /\ ~IsAddrCode(target) \/ target \in Starts
           /\ m_pending_targets' = rest
           /\ UNCHANGED <<m_traces, m_lea_targets>>
  /\ UNCHANGED <<input, swept, locals, pc>>

\* Mutant: no trace is shortened.
ShrunkNever == m_traces

\* Of two neighbours that end together the first ends where the second begins.
\* No end is read after it was changed.
Shrunk ==
  [s \in Starts |-> IF ~IsLast(s) /\ End(s) = End(After(s))
                    THEN After(s) - s ELSE m_traces[s]]

\* The work list is empty: neighbours are split.  The loop begins at the trace
\* after the first; of none, the program may do anything.
SplitTraces ==
  /\ pc \in {"process", "again"} /\ m_pending_targets = {}
  /\ m_traces' = Shrunk
  /\ \/ pc = "process" /\ pc' = "spot" /\ UNCHANGED <<lea_left, swept>>
     \/ pc = "again" /\ pc' = "lea" /\ lea_left' = m_lea_targets /\ swept' = m_traces'
     \/ m_traces = <<>> /\ pc' = "undefined" /\ UNCHANGED <<lea_left, swept>>
  /\ UNCHANGED <<input, m_pending_targets, m_lea_targets, vec_gaps, trace_start, inst>>

-----------------------------------------------------------------------------
(***************************************************************************)
(* spotGaps()                                                              *)
(***************************************************************************)

\* A run of traces that follow each other without a gap begins where the trace
\* before does not end.
RunStarts == {s \in Starts : IsFirst(s) \/ End(Before(s)) # s}
Run(k)    == CHOOSE r \in RunStarts : Cardinality({s \in RunStarts : s <= r}) = k

\* The runs from begin to end.  A run is saved when the next one begins; the
\* last never is.
Ranges ==
  [k \in 1..(Cardinality(RunStarts) - 1) |-> <<Run(k), End(Before(Run(k + 1)))>>]

\* Mutant: a gap begins where the range before it does.
GapsFromStarts ==
  LET ranges == Ranges
  IN [k \in 1..(Len(ranges) + 1) |->
        <<IF k = 1 THEN m_code_section_start ELSE ranges[k - 1][1],
          IF k > Len(ranges) THEN code_section_end ELSE ranges[k][1]>>]

\* What lies before, between and behind the saved ranges.
Gaps ==
  LET ranges == Ranges
  IN [k \in 1..(Len(ranges) + 1) |->
        <<IF k = 1 THEN m_code_section_start ELSE ranges[k - 1][2],
          IF k > Len(ranges) THEN code_section_end ELSE ranges[k][1]>>]

SpotGaps ==
  /\ pc = "spot"
  /\ vec_gaps' = Gaps
  /\ pc' = "trim"
  /\ UNCHANGED <<input, swept, members, trace_start, inst, lea_left>>

Int3(addr) == IsAddrCode(addr) /\ section[addr].type = "int3"

\* Where the padding from start on ends, and where the one up to end begins.
PaddingEnd(start, end) ==
  IF start >= end THEN start
  ELSE Min({a \in start..end : a = end \/ ~Int3(a)})
PaddingStart(start, end) ==
  IF start >= end THEN end
  ELSE Max({a \in start..end : a = start \/ ~Int3(a - 1)})

\* IsRangeSingleTrampoline's tests; end - start is unsigned.
AtTrampoline(start, end) ==
  /\ start > end \/ end - start >= JmpLength
  /\ IsAddrCode(start) /\ section[start].e9

ReplaceGap(start, end) ==
  vec_gaps' = <<<<start, end>>>> \o Tail(vec_gaps)

\* The displacement is taken for the address.
TrimTrampoline(start, end) ==
  /\ AtTrampoline(start, end)
  /\ m_pending_targets' = m_pending_targets \cup {section[start].op % AddressSpace}
  /\ m_traces' = Insert(start, JmpLength)
  /\ ReplaceGap(start + JmpLength, end)
  /\ UNCHANGED <<m_lea_targets, trace_start, inst, pc>>

TrimPadding(start, end) ==
  /\ ~AtTrampoline(start, end)
  /\ \/ /\ PaddingEnd(start, end) # start
        /\ ReplaceGap(PaddingEnd(start, end), end)
     \/ /\ PaddingEnd(start, end) = start /\ PaddingStart(start, end) # end
        /\ ReplaceGap(start, PaddingStart(start, end))
  /\ UNCHANGED <<members, trace_start, inst, pc>>

\* Nothing is left to be trimmed: the gap is swept, if anything is left of it.
TrimEnd(start, end) ==
  /\ ~AtTrampoline(start, end)
  /\ PaddingEnd(start, end) = start /\ PaddingStart(start, end) = end
  /\ \/ start = end /\ vec_gaps' = Tail(vec_gaps) /\ UNCHANGED <<trace_start, inst, pc>>
     \/ /\ start # end /\ trace_start' = start /\ inst' = start /\ pc' = "sweep"
        /\ UNCHANGED vec_gaps
  /\ UNCHANGED members

TrimGap ==
  /\ pc = "trim" /\ vec_gaps # <<>>
  /\ LET start == Head(vec_gaps)[1]
         end   == Head(vec_gaps)[2]
     IN TrimTrampoline(start, end) \/ TrimPadding(start, end) \/ TrimEnd(start, end)
  /\ UNCHANGED <<input, swept, lea_left>>

\* All gaps are treated: process() once more.
GapsTreated ==
  /\ pc = "trim" /\ vec_gaps = <<>>
  /\ pc' = "again"
  /\ UNCHANGED <<input, swept, members, locals>>

-----------------------------------------------------------------------------
(***************************************************************************)
(* linearSweepGap()                                                        *)
(***************************************************************************)

\* Mutant: the trace that holds the bytes that are no instruction goes on.
SweepUnreadableKeeps(traces, addr, start) ==
  /\ m_traces' = traces /\ UNCHANGED m_pending_targets
  /\ trace_start' = start /\ inst' = addr + 1

\* No instruction at addr: the trace begun is dropped.
SweepUnreadable(traces, addr, start) ==
  /\ m_traces' = traces /\ UNCHANGED m_pending_targets
  /\ trace_start' = addr + 1 /\ inst' = addr + 1

\* What an instruction at addr does to a trace begun at start: a jump, call or
\* return ends it, and jumps yield their targets.
SweepInstruction(traces, addr, start) ==
  LET i    == section[addr]
      post == addr + i.length
      ends == i.type \in {"jmp", "call", "ret"}
  IN /\ inst' = post
     /\ m_traces' = IF ends THEN Inserted(traces, start, post - start) ELSE traces
     /\ trace_start' = IF ends THEN post ELSE start
     /\ m_pending_targets' = IF i.type \in {"jmp", "jcc"}
                             THEN m_pending_targets \cup DirectTargets(section, addr)
                             ELSE m_pending_targets

\* One turn of the loop.  Padding ends a trace; what lies behind the padding is
\* read in the same turn.
SweepStep ==
  /\ pc = "sweep" /\ inst < Head(vec_gaps)[2]
  /\ LET addr    == PaddingEnd(inst, Head(vec_gaps)[2])
         padding == addr # inst
         traces  == IF padding THEN Insert(trace_start, inst - trace_start) ELSE m_traces
         start   == IF padding THEN addr ELSE trace_start
     IN \/ Unreadable(section, addr) /\ SweepUnreadable(traces, addr, start)
        \/ ~Unreadable(section, addr) /\ SweepInstruction(traces, addr, start)
  /\ UNCHANGED <<input, swept, m_lea_targets, vec_gaps, lea_left, pc>>

\* What was begun and has not ended yet is dropped with the gap.
SweepDone ==
  /\ pc = "sweep" /\ inst >= Head(vec_gaps)[2]
  /\ vec_gaps' = Tail(vec_gaps)
  /\ pc' = "trim"
  /\ UNCHANGED <<input, swept, members, trace_start, inst, lea_left>>

-----------------------------------------------------------------------------
(***************************************************************************)
(* postProcess()                                                           *)
(***************************************************************************)

\* Where the search may find the data at lea to end: behind more than MinInt3
\* bytes of padding, aligned.
LeaSearch(lea) == (lea + 1)..(lea + SearchRange - 1)

KnownEnds(lea) ==
  {e \in LeaSearch(lea) :
     /\ lea \in Code /\ e \in Code /\ e % Alignment = 0 /\ ~Int3(e)
     /\ \A a \in (e - MinInt3 - 1)..(e - 1) : a > lea /\ Int3(a)}

\* Bytes outside of the section are not known.
UnknownEnds(lea) ==
  {e \in LeaSearch(lea) : e % Alignment = 0 /\ ~(lea \in Code /\ e \in Code)}

SearchLeaves(lea) == KnownEnds(lea) = {} /\ ~((lea + 1)..(lea + SearchRange) \subseteq Code)

\* The traces that meet the data from lea to end.
Meeting(traces, lea, end) ==
  {s \in DOMAIN traces : Intersect(s, traces[s], lea, end - lea)}

\* Some traces go, the first of those given among them.
Erase(meeting) ==
  \/ meeting = {} /\ UNCHANGED <<m_traces, pc>>
  \/ /\ meeting # {}
     /\ \E erased \in SUBSET meeting :
          /\ Min(meeting) \in erased
          /\ m_traces' = [s \in Starts \ erased |-> m_traces[s]]
     /\ pc' \in {pc, "undefined"}

\* Mutant: only traces that begin in the data are erased.
EraseTracesBegun(lea, end) == Erase({s \in Starts : s >= lea /\ s < end})

\* The loop goes on from the trace it has erased, which is gone: it may miss
\* others that lie over the data.
EraseTraces(lea, end) == Erase(Meeting(m_traces, lea, end))

TreatLea(lea) ==
  \/ KnownEnds(lea) # {} /\ EraseTraces(lea, Min(KnownEnds(lea)))
  \/ SearchLeaves(lea) /\ \E end \in UnknownEnds(lea) : EraseTraces(lea, end)
  \/ KnownEnds(lea) = {} /\ UNCHANGED <<m_traces, pc>>
  \/ SearchLeaves(lea) /\ pc' = "crashed" /\ UNCHANGED m_traces

LeaTarget ==
  /\ pc = "lea" /\ lea_left # {}
  /\ TreatLea(Min(lea_left))
  /\ lea_left' = lea_left \ {Min(lea_left)}
  /\ UNCHANGED <<input, swept, m_pending_targets, m_lea_targets, vec_gaps, trace_start, inst>>

LeaDone ==
  /\ pc = "lea" /\ lea_left = {}
  /\ pc' = "done"
  /\ UNCHANGED <<input, swept, members, locals>>

Next ==
  \/ TakeTarget \/ SplitTraces
  \/ SpotGaps \/ TrimGap \/ GapsTreated
  \/ SweepStep \/ SweepDone
  \/ LeaTarget \/ LeaDone

Spec == Init /\ [][Next]_vars

-----------------------------------------------------------------------------
(***************************************************************************)
(* Properties                                                              *)
(***************************************************************************)
Sizes == 0..(m_code_section_size + MaxLength)
Addresses == 0..(AddressSpace - 1)

\* The traces, the work lists and the loops' locals have their types: no trace
\* is longer than the section and the instruction it ends in, though sizes are
\* differences of unsigned addresses (StaticTrace.h:80, CodeSectionSweeper.cpp:
\* 349, 402, 433, 450).
TypeOK ==
  /\ Starts \subseteq m_code_section_start..(code_section_end + MaxLength)
  /\ \A s \in Starts : m_traces[s] \in Sizes
  /\ m_pending_targets \subseteq Addresses
  /\ \A k \in DOMAIN vec_gaps : vec_gaps[k] \in Addresses \X Addresses
  /\ lea_left \subseteq m_lea_targets
  /\ pc \in {"process", "spot", "trim", "sweep", "again", "lea",
             "done", "crashed", "undefined"}

\* Does starts hold the targets given, and what a trace from each of it leads to?
Closed(starts) ==
  /\ m_reloc_targets \cap Code \subseteq starts
  /\ \A s \in starts : process(section)[s].gen \cap Code \subseteq starts

\* After the first process() the traces begin at the addresses that direct
\* jumps and calls lead to from the targets given, at all of them and at no
\* other: HasTraceAt and the order of the work list lose none
\* (CodeSectionSweeper.cpp:44-74).
WorkListReaches ==
  pc = "spot" =>
    /\ Closed(Starts)
    /\ \A starts \in SUBSET Code : Closed(starts) => Starts \subseteq starts

Traced(traces) == UNION {s..(s + traces[s] - 1) : s \in DOMAIN traces}

\* The addresses of the instructions from addr on to before end.
WalkTo(addr, end) ==
  LET walk[a \in m_code_section_start..(code_section_end + MaxLength)] ==
        IF a >= end \/ Unreadable(section, a) THEN {}
        ELSE {a} \cup walk[a + section[a].length]
  IN walk[addr]

Instructions == UNION {WalkTo(s, s + process(section)[s].size) : s \in Starts}

\* Does no trace begin in the middle of another's instruction, and do no two
\* instructions overlap?
Aligned ==
  \A a \in Instructions : \A b \in Instructions \cup Starts :
     ~(a < b /\ b < a + section[a].length)

\* The first splitting of the traces takes no byte from what they cover
\* together, although each trace is compared with its neighbour only; and where
\* the instructions do not overlap it leaves traces that do not overlap either,
\* as the comment has it.  (The second does leave some: the sweep of the last
\* gap may add a trace around two that have been split, and then no neighbours
\* end together.) (CodeSectionSweeper.cpp:76-95)
SplitSound ==
  pc = "spot" =>
    /\ Traced(m_traces) = UNION {a..(a + section[a].length - 1) : a \in Instructions}
    /\ Aligned => \A s, t \in Starts : s < t => End(s) <= t

\* The gaps spotted hold every byte of the section no trace covers; and where
\* instructions do not overlap, no gap but the last holds a covered byte.  The
\* last one does: the last range is never saved (CodeSectionSweeper.cpp:196-223).
GapsHoldUntraced ==
  pc = "spot" =>
    LET gaps == Gaps
        bytes(k) == gaps[k][1]..(gaps[k][2] - 1)
    IN /\ Code \ Traced(m_traces) \subseteq UNION {bytes(k) : k \in DOMAIN gaps}
       /\ Aligned => \A k \in 1..(Len(gaps) - 1) : bytes(k) \cap Traced(m_traces) = {}

\* Whichever part of the program made a trace, no instruction of it is
\* unreadable: "if an invalid instruction found, the containing trace is also
\* invalid" (CodeSectionSweeper.cpp:323).
TracesReadable ==
  pc = "lea" => \A s \in Starts :
    s..(End(s) - 1) \subseteq
      UNION {a..(a + section[a].length - 1) : a \in WalkTo(s, End(s))}

\* Of the traces that lie over data whose address a lea takes and whose end was
\* found, the first is gone in the end, whatever the data before it have erased;
\* those behind it may be left.  And a trace is gone only where it lay over
\* such data, or over data whose end was taken from outside of the section
\* (CodeSectionSweeper.cpp:129-152).
LeaErasesFirst ==
  pc = "done" =>
    /\ \A lea \in m_lea_targets : KnownEnds(lea) # {} =>
         LET meeting == Meeting(swept, lea, Min(KnownEnds(lea)))
         IN meeting # {} => Min(meeting) \notin Starts
    /\ \A s \in DOMAIN swept \ Starts :
         \E lea \in m_lea_targets : \E end \in KnownEnds(lea) \cup UnknownEnds(lea) :
           s \in Meeting(swept, lea, end)

Phase ==
  [process |-> 1, spot |-> 2, trim |-> 3, sweep |-> 3, again |-> 4, lea |-> 5,
   done |-> 6, crashed |-> 6, undefined |-> 6]

\* Of finitely many traces one more has been found, or a target less is left.
WorkLeft == \/ Starts \subseteq DOMAIN m_traces' /\ Starts # DOMAIN m_traces'
            \/ /\ Starts = DOMAIN m_traces'
               /\ m_pending_targets' \subseteq m_pending_targets
               /\ m_pending_targets' # m_pending_targets

\* A gap less is left, or less of this one, or it goes from trimming to sweeping.
GapsLeft == \/ Len(vec_gaps') < Len(vec_gaps)
            \/ /\ Len(vec_gaps') = Len(vec_gaps)
               /\ LET size(gap) == gap[2] - gap[1]
                  IN \/ pc = "trim" /\ pc' = "sweep"
                     \/ pc = "trim" /\ pc' = "trim" /\ size(Head(vec_gaps')) < size(Head(vec_gaps))
                     \/ pc = "sweep" /\ pc' = "sweep" /\ inst' > inst

Advance ==
  \/ Phase[pc'] > Phase[pc]
  \/ pc' = pc /\ pc \in {"process", "again"} /\ WorkLeft
  \/ Phase[pc'] = Phase[pc] /\ pc \in {"trim", "sweep"} /\ GapsLeft
  \/ pc' = pc /\ pc = "lea" /\ Cardinality(lea_left') < Cardinality(lea_left)

\* Every step brings the sweep nearer to its end, so that it ends: process()
\* does not go round in circles with the code it follows, the second time
\* neither, and each pass over a gap leaves less of it
\* (CodeSectionSweeper.cpp:44-74, 340-466, CodeSectionSweeper.h:302-310).
SweepAdvances == [][Advance]_vars
=============================================================================
