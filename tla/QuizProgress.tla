---------------------------- MODULE QuizProgress ----------------------------
(***************************************************************************)
(* Quizzes and points of one learner in one subject: apps/learning/        *)
(* services.py (generate_quiz, submit_quiz, mark_resource_links_viewed and *)
(* what they call), on top of LevelProgress, which has the learner's row   *)
(* for the subject and the level checks.  There are no transactions around *)
(* a request, so several requests of the learner, from two tabs or a       *)
(* repeated click, interleave statement by statement.                      *)
(*                                                                         *)
(* The checks a request makes before it calls the model, or before it      *)
(* writes for the first time, are one step: nothing is written between     *)
(* them.  Questions and answers are abstracted to whether the answers      *)
(* reach the 60% that pass, points to what a quiz of its kind is worth,    *)
(* and the hour since an attempt to whether it is over.                    *)
(***************************************************************************)
EXTENDS Naturals, FiniteSets, Sequences, FiniteSetsExt

CONSTANTS
  LevelOf,        \* LevelOf[t] is the level of topic t
  Checks,         \* level checks, as in LevelProgress
  Requests,       \* other requests of the learner under way at once
  Offered,        \* bound: the kinds of quiz this learner takes
  MaxAttempts,    \* bound: a quiz is not asked for after so many attempts
  MaxEnrolments,  \* bound: how often the learner enrolls in the subject
  Crashes         \* whether a request can die between two statements

Topics == DOMAIN LevelOf
Kinds == {"NORMAL", "ADVANCED"}

ASSUME QuizParametersOK ==
  /\ LevelOf \in [Topics -> 1 .. 3]
  /\ IsFiniteSet(Topics) /\ Topics # {}
  /\ IsFiniteSet(Requests)
  /\ Offered \subseteq Kinds
  /\ MaxAttempts \in Nat
  /\ MaxEnrolments \in Nat \ {0}
  /\ Crashes \in BOOLEAN

VARIABLES
  \* The learner's row for the subject and the status of each topic, as in
  \* LevelProgress:
  enrolled, enrolment, level, completed, selecting, status, check,
  points,       \* UserSubjectProgress.points
  topicPoints,  \* TopicProgress.points
  tries,        \* TopicProgress.normal_quiz_attempts, advanced_quiz_attempts
  viewed,       \* TopicProgress.resource_links_viewed_at is set
  attempts,     \* the QuizAttempt rows by attempt_number, see Outcomes
  cooling,      \* the last attempt at this quiz is less than an hour old
  resubmitted,  \* history: an attempt's answers were saved over older ones
  request       \* progress of each request

rowVars == <<enrolled, enrolment, level, completed, selecting>>
pointVars == <<points, topicPoints, tries>>
quizVars == <<attempts, cooling, resubmitted>>
learnerVars == <<rowVars, status, check, viewed>>
dataVars == <<learnerVars, pointVars, quizVars>>
vars == <<dataVars, request>>

Ladder == INSTANCE LevelProgress

-----------------------------------------------------------------------------
\* "open": no answers yet; the others by QuizAttempt.passed.
Outcomes == {"open", "passed", "failed"}

\* What a passed quiz earns; the code has 54 to 110 and 108 to 220 points.
Worth == [NORMAL |-> 1, ADVANCED |-> 2]

\* generate_quiz: "asking" the model, "create" with the number it read.
\* submit_quiz: about to "save" the answers, "count" the try, "read" the
\* progress, add the points of the "topic" and the "subject", "mark" it passed.
PCs == {"idle", "asking", "create", "save", "count", "read", "topic",
        "subject", "mark"}

RequestState ==
  [pc : PCs, topic : Topics, kind : Kinds,
   number : Nat \ {0},
   passed : BOOLEAN, seen : Ladder!TopicStatus]  \* seen: the status it read

TypeOK ==
  /\ Ladder!TypeOK
  /\ points \in Nat
  /\ topicPoints \in [Topics -> Nat]
  /\ tries \in [Topics -> [Kinds -> Nat]]
  /\ viewed \in [Topics -> BOOLEAN]
  /\ attempts \in [Topics -> [Kinds -> Seq(Outcomes)]]
  /\ cooling \subseteq Topics \X Kinds
  /\ resubmitted \in BOOLEAN
  /\ request \in [Requests -> RequestState]

Idle == [pc |-> "idle", topic |-> CHOOSE t \in Topics : TRUE, kind |-> "NORMAL",
         number |-> 1, passed |-> FALSE, seen |-> "NOT_STARTED"]

At(r, pc) == request[r].pc = pc
Become(r, state) == request' = [request EXCEPT ![r] = state]
Go(r, pc) == Become(r, [request[r] EXCEPT !.pc = pc])
Finish(r) == Become(r, Idle)

\* get_accessible_topic: enrolled in the subject, and the level is unlocked.
Accessible(t) == enrolled /\ LevelOf[t] <= level

-----------------------------------------------------------------------------
(* generate_quiz *)

\* Mutant of MayTake: viewing the links is enough for an ADVANCED quiz.
MayTakeViewed(t, k) ==
  IF k = "ADVANCED" THEN viewed[t] ELSE status[t] # "PASSED"

\* A NORMAL quiz is for a topic that is not PASSED, an ADVANCED one for a topic
\* that is, once its resource links were viewed (can_take_advanced_quiz).
MayTake(t, k) ==
  IF k = "ADVANCED" THEN status[t] = "PASSED" /\ viewed[t]
                    ELSE status[t] # "PASSED"

\* Mutant of AskQuiz: without the hour since the last attempt.
AskQuizSoon(r, t, k) ==
  /\ At(r, "idle")
  /\ k \in Offered /\ Len(attempts[t][k]) < MaxAttempts
  /\ Accessible(t)
  /\ MayTake(t, k)
  /\ Become(r, [Idle EXCEPT !.pc = "asking", !.topic = t, !.kind = k])
  /\ UNCHANGED dataVars

\* Access, availability and the hour since the last attempt are checked, and
\* the request goes on to wait for the model.
AskQuiz(r, t, k) ==
  /\ At(r, "idle")
  /\ k \in Offered /\ Len(attempts[t][k]) < MaxAttempts
  /\ Accessible(t)
  /\ MayTake(t, k)
  /\ <<t, k>> \notin cooling
  /\ Become(r, [Idle EXCEPT !.pc = "asking", !.topic = t, !.kind = k])
  /\ UNCHANGED dataVars

\* The providers fail, or the second answer is invalid too: 503 or an error.
NoQuiz(r) ==
  /\ At(r, "asking")
  /\ Finish(r)
  /\ UNCHANGED dataVars

\* _next_attempt_number: one more than the last number.
TakeNumber(r) ==
  LET q == request[r] IN
  /\ q.pc = "asking"
  /\ Become(r, [q EXCEPT !.pc = "create",
                         !.number = Len(attempts[q.topic][q.kind]) + 1])
  /\ UNCHANGED dataVars

CreateAttempt(r) ==
  LET q == request[r] IN
  /\ q.pc = "create"
  /\ q.number = Len(attempts[q.topic][q.kind]) + 1
  /\ attempts' = [attempts EXCEPT ![q.topic][q.kind] = Append(@, "open")]
  /\ cooling' = cooling \cup {<<q.topic, q.kind>>}
  /\ Finish(r)
  /\ UNCHANGED <<learnerVars, pointVars, resubmitted>>

\* Another request created it: attempt numbers are unique, and nothing handles
\* the IntegrityError.
NumberTaken(r) ==
  LET q == request[r] IN
  /\ q.pc = "create"
  /\ q.number <= Len(attempts[q.topic][q.kind])
  /\ Finish(r)
  /\ UNCHANGED dataVars

\* The hour is over; past MaxAttempts nobody asks any more.
CooldownOver(t, k) ==
  /\ <<t, k>> \in cooling
  /\ Len(attempts[t][k]) < MaxAttempts
  /\ cooling' = cooling \ {<<t, k>>}
  /\ UNCHANGED <<learnerVars, pointVars, attempts, resubmitted, request>>

-----------------------------------------------------------------------------
(* submit_quiz *)

\* Mutant of Submit: an answered attempt is accepted again.
SubmitAgain(r, t, k, n, pass) ==
  /\ At(r, "idle")
  /\ Accessible(t)
  /\ Become(r, [Idle EXCEPT !.pc = "save", !.topic = t, !.kind = k,
                            !.number = n, !.passed = pass])
  /\ UNCHANGED dataVars

\* The attempt is read, without answers so far; the new ones pass or do not.
Submit(r, t, k, n, pass) ==
  /\ At(r, "idle")
  /\ Accessible(t)
  /\ attempts[t][k][n] = "open"
  /\ Become(r, [Idle EXCEPT !.pc = "save", !.topic = t, !.kind = k,
                            !.number = n, !.passed = pass])
  /\ UNCHANGED dataVars

SaveAnswers(r) ==
  LET q == request[r] IN
  /\ q.pc = "save"
  /\ attempts' = [attempts EXCEPT ![q.topic][q.kind][q.number] =
                    IF q.passed THEN "passed" ELSE "failed"]
  /\ resubmitted' = (resubmitted \/ attempts[q.topic][q.kind][q.number] # "open")
  /\ Go(r, "count")
  /\ UNCHANGED <<learnerVars, pointVars, cooling>>

\* Mutant of CountTry: points for a quiz that was not passed.
CountAnyTry(r) ==
  LET q == request[r] IN
  /\ q.pc = "count"
  /\ tries' = [tries EXCEPT ![q.topic][q.kind] = @ + 1]
  /\ Go(r, "read")
  /\ UNCHANGED <<learnerVars, points, topicPoints, quizVars>>

CountTry(r) ==
  LET q == request[r] IN
  /\ q.pc = "count"
  /\ tries' = [tries EXCEPT ![q.topic][q.kind] = @ + 1]
  /\ IF q.passed THEN Go(r, "read") ELSE Finish(r)
  /\ UNCHANGED <<learnerVars, points, topicPoints, quizVars>>

ReadProgress(r) ==
  LET q == request[r] IN
  /\ q.pc = "read"
  /\ Become(r, [q EXCEPT !.pc = "topic", !.seen = status[q.topic]])
  /\ UNCHANGED dataVars

\* Mutant of EarnTopicPoints: the subject's points are forgotten.
EarnTopicPointsOnly(r) ==
  LET q == request[r] IN
  /\ q.pc = "topic"
  /\ topicPoints' = [topicPoints EXCEPT ![q.topic] = @ + Worth[q.kind]]
  /\ Go(r, "mark")
  /\ UNCHANGED <<learnerVars, points, tries, quizVars>>

\* _earn_points: two updates, each atomic.
EarnTopicPoints(r) ==
  LET q == request[r] IN
  /\ q.pc = "topic"
  /\ topicPoints' = [topicPoints EXCEPT ![q.topic] = @ + Worth[q.kind]]
  /\ Go(r, "subject")
  /\ UNCHANGED <<learnerVars, points, tries, quizVars>>

\* The update finds the row by learner and subject; there may be none by now.
EarnSubjectPoints(r) ==
  LET q == request[r] IN
  /\ q.pc = "subject"
  /\ points' = IF enrolled THEN points + Worth[q.kind] ELSE points
  /\ Go(r, "mark")
  /\ UNCHANGED <<learnerVars, topicPoints, tries, quizVars>>

\* Mutant of MarkPassed: whatever the status was.
MarkPassedAnyway(r) ==
  LET q == request[r] IN
  /\ q.pc = "mark"
  /\ status' = [status EXCEPT ![q.topic] =
                  IF q.kind = "ADVANCED" THEN "ADVANCED_PASSED" ELSE "PASSED"]
  /\ Finish(r)
  /\ UNCHANGED <<rowVars, check, viewed, pointVars, quizVars>>

\* What is written depends on the status that was read before the points.
MarkPassed(r) ==
  LET q == request[r] IN
  /\ q.pc = "mark"
  /\ status' = [status EXCEPT ![q.topic] =
                  IF q.kind = "ADVANCED" THEN "ADVANCED_PASSED"
                  ELSE IF q.seen = "NOT_STARTED" THEN "PASSED" ELSE @]
  /\ Finish(r)
  /\ UNCHANGED <<rowVars, check, viewed, pointVars, quizVars>>

\* mark_resource_links_viewed: one column of one row, for the advanced quiz.
MarkViewed(t) ==
  /\ "ADVANCED" \in Offered
  /\ Accessible(t)
  /\ ~ viewed[t]
  /\ viewed' = [viewed EXCEPT ![t] = TRUE]
  /\ UNCHANGED <<rowVars, status, check, pointVars, quizVars, request>>

\* The process dies, or the request is cut off, between two statements.
Crash(r) ==
  /\ Crashes
  /\ ~ At(r, "idle")
  /\ Finish(r)
  /\ UNCHANGED dataVars

-----------------------------------------------------------------------------
Init ==
  /\ Ladder!Init
  /\ points = 0
  /\ topicPoints = [t \in Topics |-> 0]
  /\ tries = [t \in Topics |-> [k \in Kinds |-> 0]]
  /\ viewed = [t \in Topics |-> FALSE]
  /\ attempts = [t \in Topics |-> [k \in Kinds |-> <<>>]]
  /\ cooling = {}
  /\ resubmitted = FALSE
  /\ request = [r \in Requests |-> Idle]

GenerateQuiz(r) ==
  \/ \E t \in Topics, k \in Kinds : AskQuiz(r, t, k)
  \/ NoQuiz(r)
  \/ TakeNumber(r)
  \/ CreateAttempt(r)
  \/ NumberTaken(r)

SubmitQuiz(r) ==
  \/ \E t \in Topics, k \in Kinds :
       \E n \in DOMAIN attempts[t][k], pass \in BOOLEAN : Submit(r, t, k, n, pass)
  \/ SaveAnswers(r)
  \/ CountTry(r)
  \/ ReadProgress(r)
  \/ EarnTopicPoints(r)
  \/ EarnSubjectPoints(r)
  \/ MarkPassed(r)

\* The steps of LevelProgress; enrolling again starts the points at 0.
LadderStep ==
  /\ \/ \E c \in Checks : Ladder!CheckLevel(c)
     \/ Ladder!Enrolling
  /\ points' = IF enrolment' = enrolment THEN points ELSE 0
  /\ UNCHANGED <<viewed, topicPoints, tries, quizVars, request>>

Next ==
  \/ \E r \in Requests : GenerateQuiz(r) \/ SubmitQuiz(r) \/ Crash(r)
  \/ \E t \in Topics : MarkViewed(t)
  \/ \E t \in Topics, k \in Kinds : CooldownOver(t, k)
  \/ LadderStep

Spec == Init /\ [][Next]_vars

-----------------------------------------------------------------------------
(* What holds however the requests interleave *)

HasPassed(t, k) == \E n \in DOMAIN attempts[t][k] : attempts[t][k][n] = "passed"

\* An advanced attempt exists only where a normal quiz was passed and the links
\* were viewed; and a topic is passed only with a passed attempt on record,
\* unless somebody's second answers replaced the first.
PassIsRecorded ==
  \A t \in Topics :
    /\ attempts[t]["ADVANCED"] # <<>> => viewed[t] /\ status[t] # "NOT_STARTED"
    /\ status[t] # "NOT_STARTED" => resubmitted \/ HasPassed(t, "NORMAL")
    /\ status[t] = "ADVANCED_PASSED" => resubmitted \/ HasPassed(t, "ADVANCED")

Total(f) == FoldFunction(+, 0, f)

\* The passed attempts at a quiz, in points.
PassedTries(t, k) == {n \in DOMAIN attempts[t][k] : attempts[t][k][n] = "passed"}
Recorded(t, k) == Worth[k] * Cardinality(PassedTries(t, k))

\* What each request at one of pcs has still to add for one of the topics.
Owing(topics, pcs) ==
  [r \in Requests |->
     IF request[r].topic \in topics /\ request[r].pc \in pcs /\ request[r].passed
     THEN Worth[request[r].kind] ELSE 0]

\* A topic's points are those of its passed attempts, apart from what a request
\* is still adding, lost when it died, or added for answers sent twice.
TopicLedger ==
  ~ resubmitted =>
    \A t \in Topics :
      LET recorded == Recorded(t, "NORMAL") + Recorded(t, "ADVANCED")
          added == topicPoints[t] + Total(Owing({t}, {"count", "read", "topic"}))
      IN  added <= recorded /\ (~ Crashes => added = recorded)

\* The subject's points, with what is still to be added, never exceed its
\* topics', and are their sum for a learner who never left and whose requests
\* all ended.
SubjectLedger ==
  LET total == Total(topicPoints)
      added == points + Total(Owing(Topics, {"subject"}))
  IN  added <= total /\ (enrolled /\ enrolment = 1 /\ ~ Crashes => added = total)

-----------------------------------------------------------------------------
(* What holds as long as requests do not overlap *)

\* One quiz of a kind an hour: no attempt is created while the last is recent.
CooldownKept ==
  [][\A t \in Topics, k \in Kinds :
       <<t, k>> \in cooling => Len(attempts'[t][k]) = Len(attempts[t][k])]_vars

\* Submitting is idempotent: an attempt is answered, counted and paid for once.
EachAttemptCountsOnce ==
  \A t \in Topics, k \in Kinds :
    tries[t][k] <= Cardinality({n \in DOMAIN attempts[t][k] :
                                  attempts[t][k][n] # "open"})

Rank == [NOT_STARTED |-> 0, PASSED |-> 1, ADVANCED_PASSED |-> 2]

\* A topic stays at its rank: a normal quiz does not undo an advanced pass.
PassIsKept == [][\A t \in Topics : Rank[status'[t]] >= Rank[status[t]]]_vars

\* Quizzes move topics as LevelProgress assumes: never back to not started, and
\* to an advanced pass only from a pass.
ImplementsLadder == Ladder!Spec

=============================================================================
