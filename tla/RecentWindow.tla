---------------------------- MODULE RecentWindow ----------------------------
(***************************************************************************)
(* Which executed blocks become key frames, as one atomic decision.  The   *)
(* traced program runs through instruction addresses; a visit is recorded  *)
(* unless its address is among the last N visited, or among the last N/2   *)
(* recorded, or the frame pointer has not moved.  Every visit is numbered, *)
(* recorded or not: the numbers of the frames are their places on the      *)
(* timeline of all visits.                                                 *)
(***************************************************************************)
EXTENDS Naturals, Sequences

CONSTANTS Eips, Ebps, \* the addresses and frame pointers a visit may have
          N           \* CIRCULAR_LENGTH

VARIABLES visits,     \* the addresses visited, in order
          frames,     \* the frames recorded: [sid, id, eip]
          last_ebp

vars == <<visits, frames, last_ebp>>

\* The last n elements of s, or as many as there are.
LastOf(s, n) == {s[i] : i \in {j \in 1..Len(s) : j + n > Len(s)}}

Init == visits = <<>> /\ frames = <<>> /\ last_ebp = 0

Familiar(eip) ==
  \/ eip \in LastOf(visits, N)
  \/ \E f \in LastOf(frames, N \div 2) : f.eip = eip

Visit(eip, ebp) ==
  /\ visits' = Append(visits, eip)
  /\ last_ebp' = ebp
  /\ \/ /\ Familiar(eip) \/ ebp = last_ebp
        /\ UNCHANGED frames
     \/ /\ ~Familiar(eip) /\ ebp # last_ebp
        /\ frames' = Append(frames, [sid |-> Len(frames) + 1,
                                     id  |-> Len(visits) + 1,
                                     eip |-> eip])

Next == \E eip \in Eips, ebp \in Ebps : Visit(eip, ebp)

Spec == Init /\ [][Next]_vars
=============================================================================
