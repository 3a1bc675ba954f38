---------------------------- MODULE MCVkmsConfigfs ----------------------------
EXTENDS VkmsConfigfs, TLC

CONSTANTS small, usual

Mode(size, rate) == [size |-> size, rate |-> rate]

\* The doubled rate of the first is on the bound, that of the second beyond it.
MCModes == {Mode(small, 500000), Mode(usual, 500001)}
MCPoolModes == {Mode(small, 60000), Mode(usual, 60000)}

Symmetry == Permutations(Planes) \cup Permutations(Crtcs) \cup Permutations(Encoders)
            \cup Permutations(Addresses)
=============================================================================
