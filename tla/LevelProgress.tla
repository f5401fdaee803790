--------------------------- MODULE LevelProgress ---------------------------
(***************************************************************************)
(* One learner's enrolment in one subject and the level it has unlocked:   *)
(* apps/learning/services.py (check_level_progress, compute_level_         *)
(* threshold, add_subject_to_user) and RemoveSubjectView.                  *)
(*                                                                         *)
(* A level check reads the learner's row, counts topics and saves the row  *)
(* in three statements without a transaction, so checks of two tabs        *)
(* interleave.  Topics are passed by quizzes, which QuizProgress models;   *)
(* here a topic's status moves in any way that QuizProgress can move it.   *)
(* The topics are fixed: editing a roadmap is not part of this module.     *)
(***************************************************************************)
EXTENDS Naturals, FiniteSets

CONSTANTS
  LevelOf,        \* LevelOf[t] is the level of topic t
  Checks,         \* level checks of the learner that can be under way at once
  MaxEnrolments,  \* bound: how often the learner enrolls in the subject
  Crashes         \* whether a request can die between two statements

Levels == 1 .. 3
Topics == DOMAIN LevelOf

ASSUME LevelParametersOK ==
  /\ LevelOf \in [Topics -> Levels]
  /\ IsFiniteSet(Topics)
  /\ MaxEnrolments \in Nat \ {0}
  /\ Crashes \in BOOLEAN

VARIABLES
  enrolled,   \* there is a UserSubjectProgress row
  enrolment,  \* which row that is: leaving deletes it, enrolling makes a new one
  level,      \* UserSubjectProgress.level_unlocked
  completed,  \* UserSubjectProgress.status is COMPLETED
  selecting,  \* UserSubjectProgress.needs_subject_selection
  status,     \* TopicProgress.status of each topic
  check       \* progress of each level check

rowVars == <<enrolled, enrolment, level, completed, selecting>>
vars == <<rowVars, status, check>>

-----------------------------------------------------------------------------
\* READING and QUIZ_READY are declared by the model class and never written.
TopicStatus == {"NOT_STARTED", "PASSED", "ADVANCED_PASSED"}

\* "total": about to count topics; "raise": about to save the level.
CheckState == [pc : {"idle", "total", "raise"}, level : Levels,
               row : 0 .. MaxEnrolments]  \* level and row as they were read

TypeOK ==
  /\ enrolled \in BOOLEAN
  /\ enrolment \in 1 .. MaxEnrolments
  /\ level \in Levels
  /\ completed \in BOOLEAN
  /\ selecting \in BOOLEAN
  /\ status \in [Topics -> TopicStatus]
  /\ check \in [Checks -> CheckState]

Idle == [pc |-> "idle", level |-> 1, row |-> 0]

\* Check c moves to a state and nothing else changes but what the action says.
Become(c, state) ==
  /\ check' = [check EXCEPT ![c] = state]
  /\ UNCHANGED status

-----------------------------------------------------------------------------
(* check_level_progress *)

TopicsAt(l) == {t \in Topics : LevelOf[t] = l}

\* compute_level_threshold: max(1, min(ceil(0.8 n), n - 1)).
Threshold(n) ==
  LET eighty == (4 * n + 4) \div 5
      most == IF eighty < n THEN eighty ELSE n - 1
  IN  IF most < 1 THEN 1 ELSE most

\* The topics that count are those with status PASSED exactly.
CountedAt(l) == {t \in TopicsAt(l) : status[t] = "PASSED"}

LevelDone(l) ==
  /\ TopicsAt(l) # {}
  /\ Cardinality(CountedAt(l)) >= Threshold(Cardinality(TopicsAt(l)))

ReadLevel(c) ==
  /\ check[c].pc = "idle"
  /\ enrolled
  /\ Become(c, [pc |-> "total", level |-> level, row |-> enrolment])
  /\ UNCHANGED rowVars

LevelReached(c) ==
  /\ check[c].pc = "total"
  /\ LevelDone(check[c].level)
  /\ Become(c, [check[c] EXCEPT !.pc = "raise"])
  /\ UNCHANGED rowVars

\* The answer is "none".
LevelRefused(c) ==
  /\ check[c].pc = "total"
  /\ ~ LevelDone(check[c].level)
  /\ Become(c, Idle)
  /\ UNCHANGED rowVars

SameRow(c) == enrolled /\ check[c].row = enrolment

\* Mutant of RaiseLevel: the level the row has now, plus one.
RaiseCurrentLevel(c) ==
  /\ check[c].pc = "raise" /\ check[c].level < 3
  /\ SameRow(c)
  /\ level' = level + 1
  /\ Become(c, Idle)
  /\ UNCHANGED <<enrolled, enrolment, completed, selecting>>

\* The level that was read, plus one.
RaiseLevel(c) ==
  /\ check[c].pc = "raise" /\ check[c].level < 3
  /\ SameRow(c)
  /\ level' = check[c].level + 1
  /\ Become(c, Idle)
  /\ UNCHANGED <<enrolled, enrolment, completed, selecting>>

\* Mutant of CompleteSubject: whichever row there is now is updated.
CompleteAnyRow(c) ==
  /\ check[c].pc = "raise" /\ check[c].level = 3
  /\ enrolled
  /\ completed' = TRUE
  /\ selecting' = TRUE
  /\ Become(c, Idle)
  /\ UNCHANGED <<enrolled, enrolment, level>>

\* After the last level, the subject is done and another is to be selected.
CompleteSubject(c) ==
  /\ check[c].pc = "raise" /\ check[c].level = 3
  /\ SameRow(c)
  /\ completed' = TRUE
  /\ selecting' = TRUE
  /\ Become(c, Idle)
  /\ UNCHANGED <<enrolled, enrolment, level>>

\* Saving a row that was deleted raises a DatabaseError.
RowGone(c) ==
  /\ check[c].pc = "raise"
  /\ ~ SameRow(c)
  /\ Become(c, Idle)
  /\ UNCHANGED rowVars

\* The process dies, or the request is cut off, between two statements.
CheckDies(c) ==
  /\ Crashes
  /\ check[c].pc # "idle"
  /\ Become(c, Idle)
  /\ UNCHANGED rowVars

-----------------------------------------------------------------------------
(* Leaving and enrolling: the topics' progress outlives the subject's row. *)

\* RemoveSubjectView deletes the UserSubjectProgress row.
Leave ==
  /\ enrolled
  /\ enrolled' = FALSE
  /\ UNCHANGED <<enrolment, level, completed, selecting, status, check>>

\* add_subject_to_user, for this subject: a new row with its defaults.
Enroll ==
  /\ ~ enrolled
  /\ enrolment < MaxEnrolments
  /\ enrolled' = TRUE
  /\ enrolment' = enrolment + 1
  /\ level' = 1
  /\ completed' = FALSE
  /\ selecting' = FALSE
  /\ UNCHANGED <<status, check>>

\* add_subject_to_user, for another subject, or auto_select_subjects.
EnrollElsewhere ==
  /\ enrolled
  /\ selecting
  /\ selecting' = FALSE
  /\ UNCHANGED <<enrolled, enrolment, level, completed, status, check>>

\* What the end of submit_quiz writes: PASSED after a normal quiz (over
\* ADVANCED_PASSED too, if the request read the status before that was written),
\* ADVANCED_PASSED after an advanced one, which takes a passed topic.
TopicPassed(t, s) ==
  /\ s \in {"PASSED", "ADVANCED_PASSED"} \ {status[t]}
  /\ s = "ADVANCED_PASSED" => status[t] = "PASSED"
  /\ status' = [status EXCEPT ![t] = s]
  /\ UNCHANGED <<rowVars, check>>

-----------------------------------------------------------------------------
Init ==
  /\ enrolled = TRUE
  /\ enrolment = 1
  /\ level = 1
  /\ completed = FALSE
  /\ selecting = FALSE
  /\ status = [t \in Topics |-> "NOT_STARTED"]
  /\ check = [c \in Checks |-> Idle]

CheckLevel(c) ==
  \/ ReadLevel(c)
  \/ LevelReached(c)
  \/ LevelRefused(c)
  \/ RaiseLevel(c)
  \/ CompleteSubject(c)
  \/ RowGone(c)
  \/ CheckDies(c)

Enrolling == Leave \/ Enroll \/ EnrollElsewhere

Next ==
  \/ \E c \in Checks : CheckLevel(c)
  \/ Enrolling
  \/ \E t \in Topics, s \in TopicStatus : TopicPassed(t, s)

Spec == Init /\ [][Next]_vars

-----------------------------------------------------------------------------
(* Properties *)

PassedAt(l) == {t \in TopicsAt(l) : status[t] # "NOT_STARTED"}

EnoughPassed(l) ==
  Cardinality(PassedAt(l)) >= Threshold(Cardinality(TopicsAt(l)))

\* Every level below the unlocked one, and all of them in a completed subject,
\* has as many passed topics as the threshold asks for: neither a stale level
\* check nor leaving and enrolling again unlocks more than was earned.
LevelEarned ==
  \A l \in Levels : enrolled /\ (l < level \/ completed) => EnoughPassed(l)

\* The check of another tab wrote the level after c had read it.
Outdated(c) ==
  check[c].pc # "idle" /\ check[c].row = enrolment /\ check[c].level # level

\* Unless a check is under way that another check has overtaken, an unlocked
\* level stays unlocked for the length of an enrolment, and a subject
\* is completed at its last level only: a check that was under way when the
\* learner left and enrolled again does not reach the new row.
LevelIsKept ==
  [][(\A c \in Checks : ~ Outdated(c)) /\ enrolment' = enrolment =>
       level' >= level /\ (completed' # completed => completed' /\ level = 3)]_vars

=============================================================================
