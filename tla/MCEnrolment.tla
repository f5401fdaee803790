---------------------------- MODULE MCEnrolment ----------------------------
(* Enrolment with the bounds of Enrolment*.cfg. *)
EXTENDS Enrolment, TLC

CONSTANTS r1, r2, a1

Name(w, i) == [word |-> w, spelling |-> i]
MCNames == {Name("go", 1), Name("go", 2), Name("js", 1)}

\* Two requests find an empty catalogue; a request and a run find two subjects.
MCScenarios ==
  {[seed |-> <<>>, crew |-> {r1, r2}],
   [seed |-> <<Name("go", 1), Name("js", 1)>>, crew |-> {r1, a1}]}
=============================================================================
