------------------------------ MODULE Standings ------------------------------
(***************************************************************************)
(* Leaderboards and the list of others who learn a topic                   *)
(* (apps/learning/services.py, global_leaderboard to others_learning) as   *)
(* functions of the rows they read, over every small set of rows.          *)
(*                                                                         *)
(* Users are numbered by their id.  The three leaderboards differ in the   *)
(* column of points they order by and in that the global one ranks users   *)
(* without points too.                                                     *)
(***************************************************************************)
EXTENDS Integers, FiniteSets

CONSTANTS
  NumUsers,
  MaxPoints,
  BoardLimit,  \* entries of a leaderboard: 50 or 20
  ListLimit    \* others shown: 10

Users == 1 .. NumUsers
Levels == 1 .. 3
None == 0

VARIABLES
  points,    \* points[u]
  hidden,    \* users who opted out of being shown
  learner    \* learner[u]: what others_learning reads of a learner of the topic

\* A row of others_learning: every learner has progress on the topic; the
\* enrolment is active, completed, or gone.
Situations ==
  [level : Levels, enrolment : {"ACTIVE", "COMPLETED", "LEFT"}, passed : BOOLEAN]

Init ==
  \/ /\ points \in [Users -> 0 .. MaxPoints] /\ hidden \in SUBSET Users
     /\ learner = [u \in Users |-> [level |-> 1, enrolment |-> "LEFT", passed |-> FALSE]]
  \/ /\ points = [u \in Users |-> 0] /\ hidden \in SUBSET Users
     /\ learner \in [Users -> Situations]

-----------------------------------------------------------------------------
(* The functions of the code *)

\* What ORDER BY and sort() make of rows no two of which are equal.
InOrder(rows, Before(_, _)) ==
  CHOOSE s \in [1 .. Cardinality(rows) -> rows] :
    \A i, j \in DOMAIN s : i < j => Before(s[i], s[j])

\* Most points first, then the lower id.
Ahead(u, v) == points[u] > points[v] \/ (points[u] = points[v] /\ u < v)

\* Mutant of Placed: only those to be shown are placed.
PlacedVisible(all) ==
  {[rank |-> Cardinality({j \in 1 .. i : all[j] \notin hidden}), user |-> all[i]] :
     i \in DOMAIN all}

\* enumerate() over all users, before the hidden ones are left out.
Placed(all) == {[rank |-> i, user |-> all[i]] : i \in DOMAIN all}

\* The loop ends when it has found as many entries to show as fit.
FirstOf(entries) ==
  {e \in entries : Cardinality({f \in entries : f.rank < e.rank}) < BoardLimit}

Leaderboard(minimum) ==
  LET all == InOrder({u \in Users : points[u] >= minimum}, Ahead)
  IN  FirstOf({e \in Placed(all) : e.user \notin hidden})

\* The viewer's level is 1 without an enrolment.
LevelOf(u) == IF learner[u].enrolment = "LEFT" THEN 1 ELSE learner[u].level

Similar(u, viewer) ==
  LET apart == learner[u].level - LevelOf(viewer)
  IN  (IF apart < 0 THEN -apart ELSE apart) <= 1

\* 0 for active learners of a similar level, 1 for others who passed.
Priority(u, viewer) ==
  IF learner[u].enrolment = "ACTIVE" /\ Similar(u, viewer) THEN 0
  ELSE IF learner[u].passed THEN 1 ELSE 2

OthersLearning(viewer) ==
  LET others == {u \in Users \ (hidden \cup {viewer}) : learner[u].enrolment # "LEFT"}
      entries == {u \in others : Priority(u, viewer) < 2}
      Before(u, v) == \/ Priority(u, viewer) < Priority(v, viewer)
                      \/ Priority(u, viewer) = Priority(v, viewer) /\ u < v
      list == InOrder(entries, Before)
  IN  {list[i] : i \in {j \in DOMAIN list : j <= ListLimit}}

-----------------------------------------------------------------------------
(* What they promise *)

\* Hiding oneself changes nobody's rank: a rank counts all who have more
\* points, hidden or not; and nobody who is not hidden is passed over.
RanksCountEverybody ==
  \A minimum \in {0, 1} :
    LET board == Leaderboard(minimum)
        Better(u) == {v \in Users : points[v] >= minimum /\ Ahead(v, u)}
        shown == {e.user : e \in board}
    IN  /\ \A e \in board : e.rank = Cardinality(Better(e.user)) + 1
        /\ \A u \in Users \ (hidden \cup shown) :
             points[u] >= minimum =>
               Cardinality(shown) = BoardLimit /\ \A v \in shown : Ahead(v, u)

\* A learner who is at work at about the viewer's level is never left out for
\* somebody who has only passed the topic.
CompanyComesFirst ==
  \A viewer \in Users :
    LET list == OthersLearning(viewer)
        Company == {u \in Users \ (hidden \cup {viewer}) :
                      /\ learner[u].enrolment = "ACTIVE"
                      /\ learner[u].level - LevelOf(viewer) \in -1 .. 1}
    IN  Company \subseteq list \/ (list \subseteq Company /\ Cardinality(list) = ListLimit)
=============================================================================
