----------------------------- MODULE LogStream -----------------------------
(***************************************************************************)
(* What one output stream of the tool (blocks_001.clg, frames_001.clg and  *)
(* their continuations) promises to whoever reads the files afterwards.    *)
(* Lines are accepted whole and in one order; the bytes in the files are   *)
(* always a prefix of what was accepted; a stream that is closed holds     *)
(* every accepted byte; nothing is ever taken back.                        *)
(***************************************************************************)
EXTENDS Sequences, SequencesExt

CONSTANT Lines      \* the lines a caller may log, each a sequence of bytes

VARIABLES accepted, \* the bytes of all lines accepted so far, in order
          durable,  \* the bytes the files hold, all files end to end
          phase     \* "open", then "closed" (clean exit) or "dead"

vars == <<accepted, durable, phase>>

Init == accepted = <<>> /\ durable = <<>> /\ phase = "open"

\* A caller's line is taken whole, behind everything accepted before it.
Accept == /\ phase = "open"
          /\ \E l \in Lines : accepted' = accepted \o l
          /\ UNCHANGED <<durable, phase>>

\* Some of the accepted bytes reach the files.
Persist == /\ phase = "open"
           /\ IsPrefix(durable, durable')
           /\ IsPrefix(durable', accepted)
           /\ UNCHANGED <<accepted, phase>>

\* A clean end: everything accepted is in the files.
Close == /\ phase = "open"
         /\ phase' = "closed"
         /\ durable' = accepted
         /\ UNCHANGED accepted

\* The process dies: what is in the files stays, the rest is lost.
Die == /\ phase = "open"
       /\ phase' = "dead"
       /\ IsPrefix(durable, durable')
       /\ IsPrefix(durable', accepted)
       /\ UNCHANGED accepted

Next == Accept \/ Persist \/ Close \/ Die

Spec == Init /\ [][Next]_vars
=============================================================================
