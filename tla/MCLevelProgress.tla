-------------------------- MODULE MCLevelProgress --------------------------
(* Small instances of LevelProgress for TLC. *)
EXTENDS LevelProgress, Sequences, TLC

\* The topics' levels: the thresholds are 1, 1 and 2 of 1, 2 and 3 topics.
OneToThree == <<1, 2, 2, 3, 3, 3>>

\* Checks are interchangeable: no action orders them.
Symmetry == Permutations(Checks)
=============================================================================
