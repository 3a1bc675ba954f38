---------------------------- MODULE MCLeaseStore ----------------------------
(***************************************************************************)
(* Small instances of LeaseStore.  Two of the display ids fold into the    *)
(* same EDID identity, and so do a display id and an ephemeral counter     *)
(* value.                                                                  *)
(***************************************************************************)
EXTENDS LeaseStore, TLC

CONSTANTS d1, d2, d3

MCDisplayIds == {d1, d2, d3}
MCEdids == 1..4
MCRetainedEdid == (d1 :> 1) @@ (d2 :> 1) @@ (d3 :> 2)
MCEphemeralEdid == <<1, 3>>

Symmetry == Permutations(LeaseIds) \cup Permutations(Capabilities)
=============================================================================
