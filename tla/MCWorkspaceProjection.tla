----------------------- MODULE MCWorkspaceProjection -----------------------
(* Instances of WorkspaceProjection for TLC. *)
EXTENDS WorkspaceProjection, TLC

\* Hydrate slots and relinkers are interchangeable. For safety runs only.
SlotSymmetry == Permutations(Hydrates) \cup Permutations(Relinkers)
=============================================================================
