--------------------------- MODULE MCTopicContent ---------------------------
(* Small instances of TopicContent for TLC. *)
EXTENDS TopicContent, TLC

\* Requests and message slots are interchangeable: no action orders them.
Symmetry == Permutations(Callers) \cup Permutations(TaskIds)
=============================================================================
