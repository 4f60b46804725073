--------------------------- MODULE FaultyLogFile ---------------------------
(***************************************************************************)
(* LogFile over a disk that may refuse: an ofstream that does not open, or *)
(* that writes only part of what it is given.  Logger.cpp asks after       *)
(* neither, so that its own steps are those of LogFile whatever happens,   *)
(* and disk is what was handed to the streams; kept is what can be read    *)
(* from the files.  A newline is stored in two bytes, \r and \n, between   *)
(* which a write can end: halved has the files that end in such a \r.      *)
(***************************************************************************)
EXTENDS LogFile

CONSTANT MaxFaults    \* bound: the refusals of the disk

ASSUME FaultyLogFileAssumption == MaxFaults \in Nat

VARIABLES
  good,     \* has the current stream neither failbit nor badbit?
  kept,     \* kept[i]: the text that file number i really holds
  halved,   \* the files that end in the first byte of a newline
  failed    \* history: the files that were refused something

device    == <<good, kept, halved, failed>>
faultVars == <<vars, device>>

Faults == Cardinality(failed)

\* The first file may not open; writes to it are then ignored.
FaultyInit ==
  /\ Init
  /\ kept = << <<>> >> /\ halved = {}
  /\ \/ good = TRUE /\ failed = {}
     \/ good = FALSE /\ failed = {1} /\ MaxFaults > 0

\* What this step of the Logger hands to its stream.
Handed == SubSeq(disk', Len(disk) + 1, Len(disk'))

\* A write of text ends within its newline number n + 1.
EndsWithin(text, n) ==
  /\ n < Len(text) /\ text[n+1] = NL
  /\ halved' = halved \cup {Len(kept)}

\* A kill within the write of the buffer may do so too.
Killed ==
  /\ status' = "killed" /\ \E a \in Actors : pc[a] = "write"
  /\ EndsWithin(SubSeq(m_buffer, 1, m_size), Len(Handed))

Keep(n) == kept' = [kept EXCEPT ![Len(kept)] = @ \o SubSeq(Handed, 1, n)]

\* Mutant: the stream tries again after a failed write.
WrittenAgain ==
  /\ starts' = starts
  /\ \/ Keep(Len(Handed)) /\ UNCHANGED <<good, halved, failed>>
     \/ /\ Faults < MaxFaults
        /\ \E n \in 0..(Len(Handed) - 1) :
             Keep(n) /\ (UNCHANGED halved \/ EndsWithin(Handed, n))
        /\ good' = FALSE /\ failed' = failed \cup {Len(kept)}

\* m_out->write and flush.  A write that fails sets badbit, which makes every
\* further write to this stream do nothing.
Written ==
  /\ starts' = starts
  /\ \/ /\ good /\ Keep(Len(Handed)) /\ UNCHANGED <<good, failed>>
        /\ UNCHANGED halved \/ Killed
     \/ /\ good /\ Faults < MaxFaults
        /\ \E n \in 0..(Len(Handed) - 1) :
             Keep(n) /\ (UNCHANGED halved \/ EndsWithin(Handed, n))
        /\ good' = FALSE /\ failed' = failed \cup {Len(kept)}
     \/ ~good /\ UNCHANGED device

\* Mutant: the stream object is opened anew and keeps its state.
OpenedAgain ==
  /\ starts' # starts
  /\ kept' = Append(kept, <<>>) /\ UNCHANGED halved
  /\ \/ UNCHANGED <<good, failed>>
     \/ /\ good' = FALSE /\ Faults < MaxFaults
        /\ failed' = failed \cup {Len(kept')}

\* SplitFile: a new ofstream object for the next file.
Opened ==
  /\ starts' # starts
  /\ kept' = Append(kept, <<>>) /\ UNCHANGED halved
  /\ \/ good' = TRUE /\ UNCHANGED failed
     \/ /\ good' = FALSE /\ Faults < MaxFaults
        /\ failed' = failed \cup {Len(kept')}

FaultyNext == Next /\ (Written \/ Opened)

FaultySpec == FaultyInit /\ [][FaultyNext]_faultVars

FaultyFairSpec ==
  FaultySpec /\ \A a \in Actors : WF_vars(pc[a] # "idle" /\ Step(a))
-----------------------------------------------------------------------------
\* The newline that file i ends within would have been the next of what the
\* file, or of what the killed process, was to write.
NewlineNext(i) ==
  \/ /\ i \in failed /\ Len(kept[i]) < Len(Meant(i))
     /\ Meant(i)[Len(kept[i]) + 1] = NL
  \/ /\ i = Len(kept) /\ status = "killed" /\ Len(disk) < Len(logged)
     /\ logged[Len(disk) + 1] = NL

\* A refusal is silent, and costs the end of one file only: every file holds a
\* prefix of its text, and all of it unless the disk refused something for
\* this very file; and half a newline stands where the text goes on with one
\* (Logger.cpp:25, 41-42, 66-69).
LossStaysInFile ==
  /\ Len(kept) = Len(starts)
  /\ \A i \in 1..Len(kept) :
       IsPrefix(kept[i], Meant(i)) /\ (i \notin failed => kept[i] = Meant(i))
  /\ \A i \in halved : i \in 1..Len(kept) /\ NewlineNext(i)
=============================================================================
