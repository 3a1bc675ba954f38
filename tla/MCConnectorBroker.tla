--------------------------- MODULE MCConnectorBroker ---------------------------
EXTENDS ConnectorBroker, TLC

CONSTANT usual

MCModes == {[size |-> usual, rate |-> 60000]}

Symmetry == Permutations(Users) \cup Permutations(Instances) \cup Permutations(Addresses)
=============================================================================
