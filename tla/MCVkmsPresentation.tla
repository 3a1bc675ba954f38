-------------------------- MODULE MCVkmsPresentation --------------------------
(* An instance of VkmsPresentation for TLC.                                  *)
EXTENDS VkmsPresentation, TLC

CONSTANTS f1, f2, w1, w2, r1, Notifier, Quiescer
=============================================================================
