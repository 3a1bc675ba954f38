--------------------------- MODULE MCIddCxBackend ---------------------------
(* Small instances of IddCxBackend. *)
EXTENDS IddCxBackend, TLC

Symmetry == Permutations(SwapChains)
=============================================================================
