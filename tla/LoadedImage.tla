---------------------------- MODULE LoadedImage ----------------------------
(***************************************************************************)
(* What the walks of ImageInfo (replay/ImageInfo.cpp) share: an image that *)
(* Pin has loaded, as words of memory from an address on.  RelocationWalk  *)
(* takes words of two bytes, ImportWalk doublewords.                       *)
(***************************************************************************)
EXTENDS Naturals, Sequences, SequencesExt

CONSTANT m_address   \* where the image is loaded

ASSUME LoadedImageAssumption == m_address \in Nat

VARIABLES
  words,    \* the image's memory
  pc        \* where in its routine a walk is

\* Is the address in an image of that size?
IsAddrMapped_Imp(addr, m_size) == m_address <= addr /\ addr < m_address + m_size
=============================================================================
