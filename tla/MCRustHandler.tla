---------------------------- MODULE MCRustHandler ----------------------------
(* TLC instance of RustHandler: connections and activity tasks are            *)
(* interchangeable.                                                           *)
EXTENDS RustHandler, TLC

Symmetry == Permutations(Conns) \cup Permutations(Acts)
=============================================================================
