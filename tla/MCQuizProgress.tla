--------------------------- MODULE MCQuizProgress ---------------------------
(* Small instances of QuizProgress for TLC. *)
EXTENDS QuizProgress, TLC

\* Quizzes of different topics share the subject's points and level only.
OneTopic == <<1>>

\* Requests are interchangeable: no action orders them.
Symmetry == Permutations(Requests)
=============================================================================
