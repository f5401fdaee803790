-------------------------- MODULE RoadmapLifecycle --------------------------
(***************************************************************************)
(* What learners are promised about the roadmap of a subject, without the  *)
(* requests, tasks and messages that bring it about (RoadmapGeneration     *)
(* implements it).  A roadmap is asked for, gets its topics while somebody *)
(* works on it, once, and is ready only with them; content of its topics   *)
(* is requested once it is ready; a failed one may be asked for again.     *)
(* Where a stale cleanup or a redelivered message interfered, the phase    *)
(* may be any, but still topics stay, and ready means there are topics.    *)
(***************************************************************************)
VARIABLES
  phase,     \* "none", "working", "ready" or "failed"
  topics,    \* there are topics
  served,    \* content of the first topics was requested
  disturbed  \* something interfered

vars == <<phase, topics, served, disturbed>>

Start ==
  /\ phase \in {"none", "failed"} /\ phase' = "working"
  /\ UNCHANGED <<topics, served, disturbed>>

Insert ==
  /\ phase = "working" /\ ~ topics /\ topics' = TRUE
  /\ UNCHANGED <<phase, served, disturbed>>

Finish ==
  /\ phase = "working" /\ topics /\ phase' = "ready"
  /\ UNCHANGED <<topics, served, disturbed>>

Fail ==
  /\ phase = "working" /\ phase' = "failed"
  /\ UNCHANGED <<topics, served, disturbed>>

Serve ==
  /\ phase = "ready" /\ served' = TRUE
  /\ UNCHANGED <<phase, topics, disturbed>>

Interfere ==
  /\ disturbed' = TRUE
  /\ phase' \in {"working", "ready", "failed"} \cup {phase}
  /\ topics' \in {topics, TRUE}
  /\ served' \in {served, TRUE}
  /\ phase' = "ready" \/ served' => topics'

Init == phase = "none" /\ topics = FALSE /\ served = FALSE /\ disturbed = FALSE

Next ==
  \/ ~ disturbed /\ (Start \/ Insert \/ Finish \/ Fail \/ Serve)
  \/ Interfere

Spec == Init /\ [][Next]_vars
=============================================================================
