------------------------- MODULE MCRustDeviceManager -------------------------
(* TLC instance of RustDeviceManager: our devices are interchangeable.        *)
EXTENDS RustDeviceManager, TLC

Symmetry == Permutations(Own) \cup Permutations(Clients)
=============================================================================
