-------------------------- MODULE ContentLifecycle --------------------------
(***************************************************************************)
(* What a learner is promised about the content of the topics of a         *)
(* subject, without the tasks, claims and messages that bring it about     *)
(* (TopicContent implements it).  A topic nobody interfered with moves     *)
(* from empty to working, from there to ready, failed or back to empty,    *)
(* and from failed back to empty; ready is final.  A topic that a stale    *)
(* write or a redelivered message reached is "disturbed", about which      *)
(* nothing is promised any more.                                           *)
(***************************************************************************)
EXTENDS Naturals

CONSTANT Topics

VARIABLE phase

Phases == {"empty", "working", "ready", "failed", "disturbed"}

Move(t, from, to) == phase[t] = from /\ phase' = [phase EXCEPT ![t] = to]

Start(t) == Move(t, "empty", "working")
Finish(t) == Move(t, "working", "ready")
Fail(t) == Move(t, "working", "failed")

\* The topics of cleared start over, those of hit are disturbed.
Reset(cleared, hit) ==
  /\ \A t \in cleared \ hit : phase[t] \in {"working", "failed", "empty"}
  /\ phase' = [t \in Topics |->
                 IF t \in hit \/ phase[t] = "disturbed" THEN "disturbed"
                 ELSE IF t \in cleared THEN "empty" ELSE phase[t]]

Init == phase = [t \in Topics |-> "empty"]

Next ==
  \/ \E t \in Topics : Start(t) \/ Finish(t) \/ Fail(t)
  \/ \E cleared, hit \in SUBSET Topics : Reset(cleared, hit)

Spec == Init /\ [][Next]_phase
=============================================================================
