------------------------ MODULE MCRoadmapGeneration ------------------------
(* Small instances of RoadmapGeneration for TLC. *)
EXTENDS RoadmapGeneration, TLC

\* Requests and message slots are interchangeable: no action orders them.
Symmetry == Permutations(Callers) \cup Permutations(TaskIds)
=============================================================================
