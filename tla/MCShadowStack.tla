--------------------------- MODULE MCShadowStack ---------------------------
(***************************************************************************)
(* ShadowStack for TLC: two return addresses, which are alike.             *)
(***************************************************************************)
EXTENDS ShadowStack, TLC

\* Where a return has been reported, or a ret used as a jump has passed for one,
\* no property says anything more: the states are checked, and not gone on from.
Untold == ~alarmed /\ ~deceived

ReturnSymmetry == Permutations(Returns)
=============================================================================
