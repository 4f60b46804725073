----------------------------- MODULE MCPEReplay -----------------------------
(***************************************************************************)
(* One thread compiles and runs code while another captures frames; both   *)
(* outputs flush at any time.  There are traces of one and two blocks that *)
(* overlap, and one that begins outside of the main module and runs into   *)
(* it.  Ids are bounded to make the sets of rows finite.                   *)
(***************************************************************************)
EXTENDS PEReplay

MCMain == {1, 2}
MCElsewhere == {8}
MCTraces == {<<1, 2>>, <<2>>, <<8, 1>>}
MCSymmetry == Permutations(Threads)
=============================================================================
