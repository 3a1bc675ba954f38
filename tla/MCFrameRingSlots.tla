---------------------------- MODULE MCFrameRingSlots ----------------------------
(* Constants of FrameRingSlots for TLC are all given in the configuration. *)
EXTENDS FrameRingSlots
=============================================================================
