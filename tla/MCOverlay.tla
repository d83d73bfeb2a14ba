----------------------------- MODULE MCOverlay -----------------------------
(* Instances of WorkspaceOverlay for TLC: paths, texts and actors are     *)
(* interchangeable as long as EmptyText is not one of the texts.          *)
EXTENDS WorkspaceOverlay, TLC

Interchangeable == Permutations(Paths) \cup Permutations(Texts) \cup Permutations(Actors)

=============================================================================
