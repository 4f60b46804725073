--------------------------- MODULE MCFrameCapture ---------------------------
(***************************************************************************)
(* Instances of FrameCapture: one thread with windows of four and two      *)
(* entries, and two threads racing in windows of two and one.              *)
(***************************************************************************)
EXTENDS FrameCapture

MCEips == 1..4
MCRaceEips == 1..3
MCEbps == {1, 2}
=============================================================================
