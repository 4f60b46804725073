-------------------------- MODULE MCLoggerRegistry --------------------------
(***************************************************************************)
(* Three threads log their first lines to two names, one line to a buffer. *)
(***************************************************************************)
EXTENDS LoggerRegistry, TLC

MCSymmetry == Permutations(Threads) \cup Permutations(Names)
=============================================================================
