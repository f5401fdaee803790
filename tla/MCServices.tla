----------------------------- MODULE MCServices ------------------------------
(***************************************************************************)
(* Services for TLC.                                                       *)
(***************************************************************************)
EXTENDS Services, TLC

\* No action orders requests, tokens or learners.
Symmetry ==
  Permutations(Requests) \cup Permutations(ResetTokens) \cup Permutations(Learners)
=============================================================================
