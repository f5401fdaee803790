------------------------ MODULE LevelProgressProofs ------------------------
(***************************************************************************)
(* LevelProgress, proved for any topics and any number of level checks: no *)
(* interleaving of stale checks, leaving and enrolling unlocks a level     *)
(* whose predecessors were not earned.  A check writes one more than the   *)
(* level it read, so what it read has to be part of the invariant: below   *)
(* that level everything was earned, and at it too once it is about to     *)
(* write.  Topics are never un-passed, so what was earned stays earned.    *)
(***************************************************************************)
EXTENDS LevelProgress, FiniteSetTheorems, TLAPS

\* What a check read was earned, and stays so until it writes.
CheckEarned(c) ==
  /\ check[c].pc # "idle" => \A l \in Levels : l < check[c].level => EnoughPassed(l)
  /\ check[c].pc = "raise" => EnoughPassed(check[c].level)

RowEarned == \A l \in Levels : l < level \/ completed => EnoughPassed(l)

LevelInv == TypeOK /\ RowEarned /\ \A c \in Checks : CheckEarned(c)

-----------------------------------------------------------------------------
(* Counting passed topics *)

\* The topics of a level are finitely many, and those that are passed are some
\* of them; compute_level_threshold is a whole number.
LEMMA LevelCounts ==
  ASSUME NEW l \in Levels
  PROVE  /\ IsFiniteSet(TopicsAt(l))
         /\ IsFiniteSet(PassedAt(l))
         /\ Cardinality(PassedAt(l)) \in Nat
         /\ Threshold(Cardinality(TopicsAt(l))) \in Int
<1>1. TopicsAt(l) \subseteq Topics /\ PassedAt(l) \subseteq Topics
  BY DEF TopicsAt, PassedAt
<1>2. IsFiniteSet(TopicsAt(l)) /\ IsFiniteSet(PassedAt(l))
  BY <1>1, FS_Subset, LevelParametersOK
<1>3. Cardinality(PassedAt(l)) \in Nat /\ Cardinality(TopicsAt(l)) \in Nat
  BY <1>2, FS_CardinalityType
<1>4. ASSUME NEW n \in Nat
      PROVE  Threshold(n) \in Int
  BY DEF Threshold
<1> QED
  BY <1>2, <1>3, <1>4

\* A step that un-passes no topic leaves what was earned.
LEMMA EarnedStays ==
  ASSUME NEW l \in Levels, EnoughPassed(l),
         \A t \in Topics : status[t] # "NOT_STARTED" => status'[t] # "NOT_STARTED"
  PROVE  EnoughPassed(l)'
<1>1. PassedAt(l) \subseteq PassedAt(l)' /\ PassedAt(l)' \subseteq Topics
  BY DEF PassedAt, TopicsAt
<1>2. IsFiniteSet(PassedAt(l)')
  BY <1>1, FS_Subset, LevelParametersOK
<1>3. Cardinality(PassedAt(l)) <= Cardinality(PassedAt(l)')
  BY <1>1, <1>2, FS_Subset
<1>4. Cardinality(PassedAt(l)') \in Nat
  BY <1>2, FS_CardinalityType
<1>5. Cardinality(PassedAt(l)) \in Nat /\ Threshold(Cardinality(TopicsAt(l))) \in Int
  BY LevelCounts
<1>6. Cardinality(PassedAt(l)) >= Threshold(Cardinality(TopicsAt(l)))
  BY DEF EnoughPassed
<1> HIDE DEF PassedAt, Threshold, TopicsAt
<1>7. Cardinality(PassedAt(l)') >= Threshold(Cardinality(TopicsAt(l)))
  BY <1>3, <1>4, <1>5, <1>6
<1> QED
  BY <1>7 DEF EnoughPassed, TopicsAt, PassedAt

\* The topics check_level_progress counts, with status PASSED exactly, are some
\* of the passed ones: what it finds to be done was earned.
LEMMA DoneIsEarned ==
  ASSUME NEW l \in Levels, LevelDone(l)
  PROVE  EnoughPassed(l)
<1>1. CountedAt(l) \subseteq PassedAt(l)
  BY DEF CountedAt, PassedAt
<1>2. IsFiniteSet(PassedAt(l)) /\ Cardinality(PassedAt(l)) \in Nat
      /\ Threshold(Cardinality(TopicsAt(l))) \in Int
  BY LevelCounts
<1>3. Cardinality(CountedAt(l)) <= Cardinality(PassedAt(l))
  BY <1>1, <1>2, FS_Subset
<1>4. Cardinality(CountedAt(l)) \in Nat
  BY <1>1, <1>2, FS_Subset, FS_CardinalityType
<1>5. Cardinality(CountedAt(l)) >= Threshold(Cardinality(TopicsAt(l)))
  BY DEF LevelDone
<1> QED
  BY <1>2, <1>3, <1>4, <1>5 DEF EnoughPassed

-----------------------------------------------------------------------------
(* Types *)

\* Every step keeps the types, under the assumption on the constants only.
LEMMA NextType == TypeOK /\ [Next]_vars => TypeOK'
<1> SUFFICES ASSUME TypeOK, [Next]_vars PROVE TypeOK'
  OBVIOUS
<1> USE LevelParametersOK DEF TypeOK, Levels, CheckState
<1>1. ASSUME NEW c \in Checks, CheckLevel(c) PROVE TypeOK'
  <2>1. check[c] \in CheckState
    OBVIOUS
  <2>2. CASE ReadLevel(c)
    BY <2>2 DEF ReadLevel, Become, rowVars
  <2>3. CASE LevelReached(c)
    BY <2>1, <2>3 DEF LevelReached, Become, rowVars
  <2>4. CASE LevelRefused(c) \/ RowGone(c) \/ CheckDies(c)
    BY <2>4 DEF LevelRefused, RowGone, CheckDies, Become, Idle, rowVars
  <2>5. CASE RaiseLevel(c)
    BY <2>1, <2>5 DEF RaiseLevel, Become, Idle
  <2>6. CASE CompleteSubject(c)
    BY <2>6 DEF CompleteSubject, Become, Idle
  <2> QED
    BY <1>1, <2>2, <2>3, <2>4, <2>5, <2>6 DEF CheckLevel
<1>2. CASE Enrolling
  <2>1. CASE Leave
    BY <2>1 DEF Leave
  <2>2. CASE Enroll
    <3>1. enrolment' \in 1 .. MaxEnrolments /\ level' \in Levels
      BY <2>2 DEF Enroll
    <3>2. enrolled' = TRUE /\ completed' = FALSE /\ selecting' = FALSE
          /\ status' = status /\ check' = check
      BY <2>2 DEF Enroll
    <3> QED
      BY <3>1, <3>2
  <2>3. CASE EnrollElsewhere
    BY <2>3 DEF EnrollElsewhere
  <2> QED
    BY <1>2, <2>1, <2>2, <2>3 DEF Enrolling
<1>3. ASSUME NEW t \in Topics, NEW s \in TopicStatus, TopicPassed(t, s)
      PROVE  TypeOK'
  BY <1>3 DEF TopicPassed, rowVars
<1>4. CASE UNCHANGED vars
  BY <1>4 DEF vars, rowVars
<1> QED
  BY <1>1, <1>2, <1>3, <1>4 DEF Next

\* The initial state has the types.
LEMMA InitType == Init => TypeOK
<1> SUFFICES ASSUME Init PROVE TypeOK
  OBVIOUS
<1>1. Idle \in CheckState
  BY LevelParametersOK DEF Idle, CheckState, Levels
<1>2. check \in [Checks -> CheckState] /\ status \in [Topics -> TopicStatus]
  BY <1>1 DEF Init, TopicStatus
<1>3. enrolment \in 1 .. MaxEnrolments /\ level \in Levels
  BY LevelParametersOK DEF Init, Levels
<1>4. enrolled = TRUE /\ completed = FALSE /\ selecting = FALSE
  BY DEF Init
<1> QED
  BY <1>2, <1>3, <1>4 DEF TypeOK

\* The rows of the learner and the local state of the checks stay in their
\* declared ranges.
THEOREM LevelTypeCorrect == Spec => []TypeOK
<1> QED
  BY InitType, NextType, PTL DEF Spec

-----------------------------------------------------------------------------
(* Levels *)

\* No step un-passes a topic.
LEMMA PassedStays ==
  ASSUME TypeOK, [Next]_vars
  PROVE  \A t \in Topics : status[t] # "NOT_STARTED" => status'[t] # "NOT_STARTED"
<1>1. ASSUME NEW c \in Checks, CheckLevel(c) PROVE status' = status
  BY <1>1 DEF CheckLevel, ReadLevel, LevelReached, LevelRefused, RaiseLevel,
     CompleteSubject, RowGone, CheckDies, Become
<1>2. CASE Enrolling
  BY <1>2 DEF Enrolling, Leave, Enroll, EnrollElsewhere
<1>3. ASSUME NEW t \in Topics, NEW s \in TopicStatus, TopicPassed(t, s)
      PROVE  \A u \in Topics : status[u] # "NOT_STARTED" => status'[u] # "NOT_STARTED"
  BY <1>3 DEF TopicPassed, TypeOK
<1>4. CASE UNCHANGED vars
  BY <1>4 DEF vars
<1> QED
  BY <1>1, <1>2, <1>3, <1>4 DEF Next

\* One step of one check keeps what it and the learner's row rest on; a check
\* that only stands by keeps what it read because topics stay passed.
LEMMA CheckStep ==
  ASSUME LevelInv, NEW c \in Checks, CheckLevel(c), TypeOK',
         \A l \in Levels : EnoughPassed(l) => EnoughPassed(l)'
  PROVE  RowEarned' /\ \A d \in Checks : CheckEarned(d)'
<1> USE DEF TypeOK, LevelInv
<1>0. check[c] \in CheckState /\ check[c].level \in Levels /\ level \in Levels
  BY DEF CheckState
<1>1. ASSUME NEW d \in Checks, d # c PROVE CheckEarned(d)'
  <2>1. check'[d] = check[d] /\ check[d].level \in Levels
    BY <1>1 DEF CheckLevel, ReadLevel, LevelReached, LevelRefused, RaiseLevel,
       CompleteSubject, RowGone, CheckDies, Become, CheckState
  <2> QED
    BY <2>1 DEF CheckEarned
<1>2. CASE ReadLevel(c)
  <2>1. RowEarned'
    BY <1>2 DEF ReadLevel, rowVars, RowEarned
  <2>2. check'[c] = [pc |-> "total", level |-> level, row |-> enrolment]
    BY <1>2 DEF ReadLevel, Become
  <2>3. CheckEarned(c)'
    BY <2>2 DEF CheckEarned, RowEarned
  <2> QED
    BY <1>1, <2>1, <2>3
<1>3. CASE LevelReached(c)
  <2>1. RowEarned'
    BY <1>3 DEF LevelReached, rowVars, RowEarned
  <2>2. check[c].pc = "total" /\ LevelDone(check[c].level)
        /\ check'[c] = [check[c] EXCEPT !.pc = "raise"]
    BY <1>3 DEF LevelReached, Become
  <2>3. EnoughPassed(check[c].level)
    BY <1>0, <2>2, DoneIsEarned
  <2>4. check'[c].level = check[c].level
    BY <1>0, <2>2 DEF CheckState
  <2>5. CheckEarned(c)'
    BY <1>0, <2>2, <2>3, <2>4 DEF CheckEarned
  <2> QED
    BY <1>1, <2>1, <2>5
<1>4. CASE LevelRefused(c) \/ RowGone(c) \/ CheckDies(c)
  <2>1. RowEarned' /\ check'[c].pc = "idle"
    BY <1>4 DEF LevelRefused, RowGone, CheckDies, Become, Idle, rowVars, RowEarned
  <2> QED
    BY <1>1, <2>1 DEF CheckEarned
<1>5. CASE RaiseLevel(c)
  <2>1. check[c].pc = "raise" /\ level' = check[c].level + 1
        /\ completed' = completed /\ check'[c].pc = "idle"
    BY <1>5 DEF RaiseLevel, Become, Idle
  <2>2. \A l \in Levels : l <= check[c].level => EnoughPassed(l)
    BY <1>0, <2>1 DEF CheckEarned, Levels
  <2>3. \A l \in Levels : l < level' => l <= check[c].level
    BY <1>0, <2>1 DEF Levels
  <2>4. RowEarned'
    BY <2>1, <2>2, <2>3 DEF RowEarned
  <2> QED
    BY <1>1, <2>1, <2>4 DEF CheckEarned
<1>6. CASE CompleteSubject(c)
  <2>1. check[c].pc = "raise" /\ check[c].level = 3 /\ check'[c].pc = "idle"
    BY <1>6 DEF CompleteSubject, Become, Idle
  <2>2. \A l \in Levels : l = 3 \/ l < 3
    BY DEF Levels
  <2>3. \A l \in Levels : EnoughPassed(l)
    BY <2>1, <2>2 DEF CheckEarned
  <2>4. RowEarned'
    BY <2>3 DEF RowEarned
  <2> QED
    BY <1>1, <2>1, <2>4 DEF CheckEarned
<1> QED
  BY <1>2, <1>3, <1>4, <1>5, <1>6 DEF CheckLevel

\* LevelInv is inductive.
LEMMA NextLevelInv == LevelInv /\ [Next]_vars => LevelInv'
<1> SUFFICES ASSUME LevelInv, [Next]_vars PROVE LevelInv'
  OBVIOUS
<1>1. TypeOK'
  BY NextType DEF LevelInv
<1>2. \A l \in Levels : EnoughPassed(l) => EnoughPassed(l)'
  BY PassedStays, EarnedStays DEF LevelInv
<1>3. ASSUME NEW c \in Checks, CheckLevel(c)
      PROVE  RowEarned' /\ \A d \in Checks : CheckEarned(d)'
  BY <1>1, <1>2, <1>3, CheckStep
<1>4. ASSUME check' = check
      PROVE  \A d \in Checks : CheckEarned(d)'
  <2>1. \A d \in Checks : check[d].level \in Levels
    BY DEF LevelInv, TypeOK, CheckState
  <2> QED
    BY <1>2, <1>4, <2>1 DEF LevelInv, CheckEarned
<1>5. CASE Enrolling
  <2>1. check' = check
    BY <1>5 DEF Enrolling, Leave, Enroll, EnrollElsewhere
  <2>2. ASSUME Leave \/ EnrollElsewhere PROVE RowEarned'
    BY <1>2, <2>2 DEF Leave, EnrollElsewhere, RowEarned, LevelInv
  <2>3. ASSUME Enroll PROVE RowEarned'
    <3>1. level' = 1 /\ completed' = FALSE
      BY <2>3 DEF Enroll
    <3>2. \A l \in Levels : ~ (l < level')
      BY <3>1 DEF Levels
    <3> QED
      BY <3>1, <3>2 DEF RowEarned
  <2> QED
    BY <1>1, <1>4, <1>5, <2>1, <2>2, <2>3 DEF Enrolling, LevelInv
<1>6. ASSUME NEW t \in Topics, NEW s \in TopicStatus, TopicPassed(t, s)
      PROVE  LevelInv'
  BY <1>1, <1>2, <1>4, <1>6 DEF TopicPassed, rowVars, RowEarned, LevelInv
<1>7. CASE UNCHANGED vars
  BY <1>1, <1>2, <1>4, <1>7 DEF vars, rowVars, RowEarned, LevelInv
<1> QED
  BY <1>1, <1>3, <1>5, <1>6, <1>7 DEF Next, LevelInv

\* check_level_progress unlocks a level, and completes the subject, only when
\* the levels below were earned, however stale the row it writes.
THEOREM LevelsAreEarned == Spec => []LevelEarned
<1>1. ASSUME Init PROVE LevelInv
  <2>1. level = 1 /\ completed = FALSE /\ \A c \in Checks : check[c].pc = "idle"
    BY <1>1 DEF Init, Idle
  <2>2. \A l \in Levels : ~ (l < level)
    BY <2>1 DEF Levels
  <2>3. RowEarned /\ \A c \in Checks : CheckEarned(c)
    BY <2>1, <2>2 DEF RowEarned, CheckEarned
  <2> QED
    BY <1>1, <2>3, InitType DEF LevelInv
<1>2. LevelInv => LevelEarned
  BY DEF LevelInv, RowEarned, LevelEarned
<1> QED
  BY <1>1, <1>2, NextLevelInv, PTL DEF Spec

\* While no check has been overtaken, a level check raises the level by one and
\* completes the subject at its last level only; a check of an earlier enrolment
\* does not reach the row of this one.
LEMMA LevelKeptStep ==
  ASSUME TypeOK, [Next]_vars, \A c \in Checks : ~ Outdated(c), enrolment' = enrolment
  PROVE  level' >= level /\ (completed' # completed => completed' /\ level = 3)
<1>1. level \in Nat
  BY DEF TypeOK, Levels
<1>2. ASSUME UNCHANGED <<level, completed>>
      PROVE  level' >= level /\ (completed' # completed => completed' /\ level = 3)
  BY <1>1, <1>2
<1>3. ASSUME NEW c \in Checks, RaiseLevel(c) \/ CompleteSubject(c)
      PROVE  level' >= level /\ (completed' # completed => completed' /\ level = 3)
  <2>1. check[c].level = level
    BY <1>3 DEF RaiseLevel, CompleteSubject, SameRow, Outdated
  <2>2. CASE RaiseLevel(c)
    <3>1. level' = level + 1 /\ completed' = completed
      BY <2>1, <2>2 DEF RaiseLevel
    <3>2. level' >= level
      BY <1>1, <3>1
    <3>3. QED
      BY <3>1, <3>2, Zenon
  <2>3. CASE CompleteSubject(c)
    <3>1. level' = level /\ level = 3 /\ completed' = TRUE
      BY <2>1, <2>3 DEF CompleteSubject
    <3>2. QED
      BY <1>1, <3>1
  <2>4. QED
    BY <1>3, <2>2, <2>3
<1>4. ASSUME NEW c \in Checks, CheckLevel(c), ~ RaiseLevel(c), ~ CompleteSubject(c)
      PROVE  UNCHANGED <<level, completed>>
  BY <1>4 DEF CheckLevel, ReadLevel, LevelReached, LevelRefused, RowGone, CheckDies, rowVars
<1>5. CASE Enrolling
  <2>1. ~ Enroll
    BY LevelParametersOK DEF Enroll, TypeOK
  <2>2. UNCHANGED <<level, completed>>
    BY <1>5, <2>1 DEF Enrolling, Leave, EnrollElsewhere
  <2>3. QED
    BY <1>2, <2>2
<1>6. ASSUME NEW t \in Topics, NEW s \in TopicStatus, TopicPassed(t, s)
      PROVE  UNCHANGED <<level, completed>>
  BY <1>6 DEF TopicPassed, rowVars
<1>7. CASE UNCHANGED vars
  BY <1>2, <1>7 DEF vars, rowVars
<1>8. QED
  BY <1>2, <1>3, <1>4, <1>5, <1>6, <1>7 DEF Next

\* Within an enrolment an unlocked level stays unlocked and a completed subject
\* completed, but for a check that another one overtook.
THEOREM LevelsAreKept == Spec => LevelIsKept
<1>1. TypeOK /\ [Next]_vars =>
        ((\A c \in Checks : ~ Outdated(c)) /\ enrolment' = enrolment =>
           level' >= level /\ (completed' # completed => completed' /\ level = 3))
  BY LevelKeptStep
<1>2. QED
  BY <1>1, InitType, NextType, PTL DEF Spec, LevelIsKept

=============================================================================
