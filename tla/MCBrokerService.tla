---------------------------- MODULE MCBrokerService ----------------------------
(***************************************************************************)
(* BrokerService with two connectors and two settings, the command line    *)
(* and one other client.  Of the other client it is how it treats the pipe *)
(* that matters: its command is a query.                                   *)
(***************************************************************************)
EXTENDS BrokerService

CONSTANTS s1, s2

LineCommands ==
    {[kind |-> "query"], [kind |-> "helper", settings |-> s1],
     [kind |-> "profile", connector |-> 0, settings |-> Unparsable],
     [kind |-> "profile", connector |-> 0, settings |-> BadSettings],
     [kind |-> "profile", connector |-> 0, settings |-> s2],
     [kind |-> "profile", connector |-> MaxDisplays, settings |-> s2],
     [kind |-> "permanent", count |-> 0, settings |-> s1],
     [kind |-> "permanent", count |-> 1, settings |-> s1],
     [kind |-> "permanent", count |-> 1, settings |-> BadSettings]}

MCCommands == [c \in Clients |-> IF c \in CommandLine THEN LineCommands ELSE {[kind |-> "query"]}]

MCFirstSaved == {NotSaved, PermanentManifest(MaxDisplays, s1)}
MCForeignManifests == {Empty, PermanentManifest(1, s2)}
=============================================================================
