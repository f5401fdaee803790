------------------------------ MODULE MCCourse ------------------------------
(* Course with the bounds of Course*.cfg. *)
EXTENDS Course, TLC

CONSTANTS u1, u2, e1, e2

MCLevels == <<1, 2>>
\* Two edits that overlap, an edit while a learner goes on, or learners alone.
MCScenarios == {{e1, e2}, {e1, u1}, {u1, u2}}
MCLearners == {{u1, u2}}
=============================================================================
