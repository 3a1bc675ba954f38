-------------------------- MODULE MCDriverController --------------------------
(* Instances of DriverController for TLC: which requests the clients send.  *)
EXTENDS DriverController, TLC

CONSTANTS d1, d2, l1, l2, o1, e1, e2, f1, f2, f3, f4, f5, m1, m2, w1, w2, w3

Create(d, l, o, e) ==
    [kind |-> "create",
     args |-> [display |-> d, lease |-> l, owner |-> o, ephemeral |-> e, timeout |-> 0]]
RemoveOf(d, l) == [kind |-> "remove", args |-> [display |-> d, lease |-> l]]
ReleaseOf(l) == [kind |-> "release", args |-> [lease |-> l]]
FeedOf(l) == [kind |-> "feed", args |-> [lease |-> l, timeout |-> 0]]
ReclaimOf(d, l) ==
    [kind |-> "reclaim", args |-> [display |-> d, owner |-> o1, timeout |-> 0, newLease |-> l]]
Manifest(m) == [kind |-> "manifest", args |-> m]

\* Both display ids fold into one EDID identity.
MCRetainedEdid == [d \in DisplayIds |-> e1]
MCEphemeralEdid == 1 :> f1 @@ 2 :> f2 @@ 3 :> f3 @@ 4 :> f4 @@ 5 :> f5

\* Two clients race over one display id, and both set the manifest.
RaceRequests ==
    {Create(d1, l1, o1, FALSE), Create(d1, l2, o1, TRUE), RemoveOf(d1, l1), ReleaseOf(l2), FeedOf(l1),
     ReclaimOf(d1, l2), Manifest(m1), Manifest(m2)}

\* One client, any departure or arrival of whom may fail.
ClientRequests ==
    {Create(d1, l1, o1, FALSE), Create(d1, l1, NoCapability, TRUE), RemoveOf(d1, l1), ReleaseOf(l1), FeedOf(l1)}
=============================================================================
