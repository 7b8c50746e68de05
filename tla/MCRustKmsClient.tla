-------------------------- MODULE MCRustKmsClient --------------------------
(* TLC instance of RustKmsClient: the tasks, URIs and ids are interchangeable. *)
EXTENDS RustKmsClient, TLC

Symmetry == Permutations(Tasks) \cup Permutations(Uris) \cup Permutations(ReqIds)
=============================================================================
