------------------------------ MODULE MCFrameRing ------------------------------
(* Small instances of FrameRing. *)
EXTENDS FrameRing, TLC

CONSTANT d1

OneDisplay == {d1}
MCOneEdid == d1 :> 1
MCEphemeralEdid == [k \in 1..MaxEphemeral |-> 3]
=============================================================================
