------------------------------ MODULE Enrolment ------------------------------
(***************************************************************************)
(* How a learner comes to a subject: the catalogue of subjects and their   *)
(* names, the limit of active subjects, adding and creating a subject,     *)
(* leaving it, completing it, and the task that chooses for idle learners  *)
(* (services.py, views.py and auto_select_subjects in tasks.py).           *)
(*                                                                         *)
(* Every request and every run of the task is an actor that executes one   *)
(* database statement per action; nothing in the code joins two of them    *)
(* in a transaction, but for the insertion of a subject with its           *)
(* embedding.  The steps of roadmap generation are in RoadmapGeneration,   *)
(* those of a level check in LevelProgress; here each is one action.       *)
(***************************************************************************)
EXTENDS Integers, Sequences, FiniteSets, FiniteSetsExt

CONSTANTS
  Users,
  OptedIn,       \* those with auto_select_subjects_enabled
  Requests,      \* web requests that add or create a subject
  Runs,          \* runs of auto_select_subjects
  Names,         \* what is typed or standardized: a word and its spelling,
                 \* which name__iexact does not look at
  SubjectLimit,  \* active subjects per user
  TopicCounts,   \* how many topics a roadmap may have
  Scenarios,     \* bound: the subjects seeded (a sequence of names), and the
                 \* requests and runs that overlap (a set)
  Starrable,     \* bound: the subjects that learners star
  MaxSubjects,   \* bound: size of the catalogue
  MaxDeaths      \* bound: runs that die half-way

SubjectIds == 1 .. MaxSubjects
Actors == Requests \cup Runs

ASSUME EnrolmentParametersOK ==
  /\ Users # {} /\ Names # {} /\ Requests \cap Runs = {}
  /\ TopicCounts \subseteq Nat \ {0}
  /\ SubjectLimit \in Nat /\ MaxSubjects \in Nat /\ MaxDeaths \in Nat
  /\ \A s \in Scenarios : /\ s.seed \in Seq(Names) /\ Len(s.seed) <= MaxSubjects
                          /\ s.crew \subseteq Actors

NoRow == [status |-> "none", needs |-> FALSE]
NewRow == [status |-> "ACTIVE", needs |-> FALSE]
RowValues == {NoRow} \cup [status : {"ACTIVE", "COMPLETED"}, needs : BOOLEAN]
RoadmapStatus == {"NOT_GENERATED", "GENERATING", "READY", "FAILED"}

VARIABLES
  subjects,   \* the catalogue, in order of ids: name, number of topics, roadmap
  row,        \* row[u][s]: UserSubjectProgress, or NoRow
  star,       \* star[u]: the subjects of u's UserInterest rows
  seen,       \* "new": joined today; else signed in "today", or "away" for a day
  actor,      \* the state of each request and run
  deaths,     \* how many runs died
  crew,       \* the requests and runs of this behaviour
  \* Observed, never read by an action of the program:
  lost,       \* subjects whose roadmap request died with its actor
  unanswered  \* unanswered[u]: subjects completed since u last took a new one

vars == <<subjects, row, star, seen, actor, deaths, crew, lost, unanswered>>
catalogueVars == <<star, seen, deaths, crew, lost>>

NoSubject == 0
Idle == [pc |-> "idle", user |-> CHOOSE u \in Users : TRUE,
         name |-> CHOOSE n \in Names : TRUE, subject |-> NoSubject, left |-> {},
         overtaken |-> FALSE]  \* observed: what it read before has changed since
NewSubject(n) == [name |-> n, topics |-> 0, roadmap |-> "NOT_GENERATED"]

Init ==
  /\ \E s \in Scenarios :
       /\ subjects = [i \in DOMAIN s.seed |-> NewSubject(s.seed[i])]
       /\ crew = s.crew
  /\ row = [u \in Users |-> [s \in SubjectIds |-> NoRow]]
  /\ star = [u \in Users |-> {}]
  /\ seen = [u \in Users |-> "new"]
  /\ actor = [a \in Actors |-> Idle]
  /\ deaths = 0
  /\ lost = {}
  /\ unanswered = [u \in Users |-> {}]

-----------------------------------------------------------------------------
(* Queries *)

Named(n) == {s \in DOMAIN subjects : subjects[s].name.word = n.word}
Enrolled(u) == {s \in SubjectIds : row[u][s].status # "none"}
Active(u) == {s \in SubjectIds : row[u][s].status = "ACTIVE"}

SlotsBelow(limit, u) ==
  LET taken == Cardinality(Active(u)) IN IF taken < limit THEN limit - taken ELSE 0

\* Mutant of FreeSlots: one subject too many.
FreeSlotsOffByOne(u) == SlotsBelow(SubjectLimit + 1, u)

FreeSlots(u) == SlotsBelow(SubjectLimit, u)

Learners(s) == Cardinality({u \in Users : row[u][s].status = "ACTIVE"})

\* The popular subjects among the suggestions, and the count they are ranked
\* by: the join with the topics counts every learner once per topic.
Popular(u) == {s \in DOMAIN subjects \ Enrolled(u) : subjects[s].topics > 0}
PopularCount(s) == Learners(s) * subjects[s].topics

\* The first suggestions there can be: a starred subject, with topics or not;
\* without one, a most popular subject.  The database orders neither further.
TopSuggestions(u) ==
  LET starred == star[u] \ Enrolled(u)
  IN  IF starred # {} THEN starred
      ELSE {s \in Popular(u) :
              \A t \in Popular(u) : PopularCount(t) <= PopularCount(s)}

\* The completed subjects for which the user is asked to choose a next one.
NeedsSelection(u) == {s \in SubjectIds : row[u][s].needs}

-----------------------------------------------------------------------------
(* Requests *)

Goto(a, pc) ==
  actor' = [actor EXCEPT ![a] = [@ EXCEPT !.pc = pc, !.overtaken = FALSE]]
Found(a, s) == [actor[a] EXCEPT !.pc = "find row", !.subject = s,
                               !.name = Idle.name, !.overtaken = FALSE]
Take(a, s) == actor' = [actor EXCEPT ![a] = Found(a, s)]
End(a) == actor' = [actor EXCEPT ![a] = Idle]

\* As Goto, while the actors of which P holds are overtaken by the same step.
Overtake(a, next, P(_)) ==
  actor' = [b \in Actors |-> IF b = a THEN next
                            ELSE [actor[b] EXCEPT !.overtaken = @ \/ P(b)]]

\* What follows when a run is done with a user: the next one.
Continue(a) == IF a \in Runs THEN Goto(a, "next user") ELSE End(a)

AddSubject(a, u, s) ==
  /\ actor[a].pc = "idle" /\ s \in DOMAIN subjects
  /\ actor' = [actor EXCEPT ![a] = [Idle EXCEPT !.pc = "find row", !.user = u,
                                                !.subject = s]]
  /\ UNCHANGED <<subjects, row, unanswered, catalogueVars>>

\* A user without a free slot is refused before any model is asked, unless the
\* name is that of one of the user's subjects.
HasCapacity(u, n) == FreeSlots(u) > 0 \/ Named(n) \cap Enrolled(u) # {}

CreateSubject(a, u, n) ==
  /\ actor[a].pc = "idle" /\ HasCapacity(u, n)
  /\ actor' = [actor EXCEPT ![a] = [Idle EXCEPT !.pc = "look up", !.user = u,
                                                !.name = n]]
  /\ UNCHANGED <<subjects, row, unanswered, catalogueVars>>

\* Mutant of FindSubject: the name is compared with its case.
FindSubjectExactly(a) ==
  LET same == {s \in DOMAIN subjects : subjects[s].name = actor[a].name}
  IN  IF same # {} THEN Take(a, Min(same))
      ELSE Goto(a, IF actor[a].pc = "look up" THEN "ask" ELSE "create")

\* The lookup both by the name typed and by the standardized one.
FindSubject(a) ==
  LET same == Named(actor[a].name)
  IN  IF same # {} THEN Take(a, Min(same))
      ELSE Goto(a, IF actor[a].pc = "look up" THEN "ask" ELSE "create")

LookUp(a) ==
  /\ actor[a].pc \in {"look up", "look up standardized"}
  /\ FindSubject(a)
  /\ UNCHANGED <<subjects, row, unanswered, catalogueVars>>

\* The model chooses among the subjects whose embedding is near enough; which
\* ones are is the embedding's secret.
MatchSimilar(a) ==
  /\ actor[a].pc = "ask"
  /\ \E s \in DOMAIN subjects : Take(a, s)
  /\ UNCHANGED <<subjects, row, unanswered, catalogueVars>>

\* The model standardizes the name, possibly to that of a subject that exists.
Standardize(a) ==
  /\ actor[a].pc = "ask"
  /\ \E n \in Names :
       actor' = [actor EXCEPT ![a].pc = "look up standardized", ![a].name = n]
  /\ UNCHANGED <<subjects, row, unanswered, catalogueVars>>

\* The name is too wide, or the providers fail; a failed embedding takes the
\* subject inserted with it away again.
NoSubjectFound(a) ==
  /\ actor[a].pc \in {"ask", "create"}
  /\ End(a)
  /\ UNCHANGED <<subjects, row, unanswered, catalogueVars>>

InsertSubject(a) ==
  /\ actor[a].pc = "create"
  /\ Len(subjects) < MaxSubjects
  /\ \A s \in DOMAIN subjects : subjects[s].name # actor[a].name
  /\ subjects' = Append(subjects, NewSubject(actor[a].name))
  /\ Overtake(a, Found(a, Len(subjects) + 1),
              LAMBDA b : actor[b].pc = "create" /\ actor[b].name.word = actor[a].name.word)
  /\ UNCHANGED <<row, unanswered, catalogueVars>>

\* The unique constraint on the name refuses: the subject is read again, which
\* raises when two of them differ in case only.
InsertSubjectRefused(a) ==
  /\ actor[a].pc = "create"
  /\ \E s \in DOMAIN subjects : subjects[s].name = actor[a].name
  /\ LET same == Named(actor[a].name)
     IN  IF Cardinality(same) = 1 THEN Take(a, Min(same)) ELSE End(a)
  /\ UNCHANGED <<subjects, row, unanswered, catalogueVars>>

-----------------------------------------------------------------------------
(* add_subject_to_user, for requests and runs *)

FindRow(a) ==
  /\ actor[a].pc = "find row"
  /\ IF actor[a].subject \notin Enrolled(actor[a].user) THEN Goto(a, "count")
     ELSE IF a \in Runs THEN Goto(a, "clear again") ELSE End(a)
  /\ UNCHANGED <<subjects, row, unanswered, catalogueVars>>

CountSlots(a) ==
  /\ actor[a].pc = "count"
  /\ IF FreeSlots(actor[a].user) > 0 THEN Goto(a, "insert") ELSE Continue(a)
  /\ UNCHANGED <<subjects, row, unanswered, catalogueVars>>

InsertRow(a) ==
  LET u == actor[a].user
      s == actor[a].subject
  IN  /\ actor[a].pc = "insert" /\ s \notin Enrolled(u)
      /\ row' = [row EXCEPT ![u][s] = NewRow]
      /\ unanswered' = [unanswered EXCEPT ![u] = {}]
      /\ Overtake(a, [actor[a] EXCEPT !.pc = "request roadmap", !.overtaken = FALSE],
                  LAMBDA b : actor[b].pc = "insert" /\ actor[b].user = u)
      /\ UNCHANGED <<subjects, catalogueVars>>

\* The unique constraint refuses a second row: the request or run fails.
InsertRowRefused(a) ==
  /\ actor[a].pc = "insert" /\ actor[a].subject \in Enrolled(actor[a].user)
  /\ End(a)
  /\ UNCHANGED <<subjects, row, unanswered, catalogueVars>>

Claimable(s) == subjects[s].topics = 0 /\ subjects[s].roadmap \in {"NOT_GENERATED", "FAILED"}

\* Mutant of RequestRoadmap: it is left to the retry button once it failed.
RequestRoadmapFailed(a) ==
  LET s == actor[a].subject
  IN  /\ actor[a].pc = "request roadmap"
      /\ IF subjects[s].roadmap = "FAILED"
         THEN \E r \in {"GENERATING", "FAILED"} :
                subjects' = [subjects EXCEPT ![s].roadmap = r]
         ELSE UNCHANGED subjects
      /\ actor' = [actor EXCEPT ![a].pc = "clear", ![a].subject = NoSubject]
      /\ UNCHANGED <<row, unanswered, catalogueVars>>

\* The claim is won and the task queued, or the broker refuses it; a subject
\* that has topics or is claimed already needs nothing.
RequestRoadmap(a) ==
  LET s == actor[a].subject
  IN  /\ actor[a].pc = "request roadmap"
      /\ IF Claimable(s)
         THEN \E r \in {"GENERATING", "FAILED"} :
                subjects' = [subjects EXCEPT ![s].roadmap = r]
         ELSE UNCHANGED subjects
      /\ actor' = [actor EXCEPT ![a].pc = "clear", ![a].subject = NoSubject]
      /\ UNCHANGED <<row, unanswered, catalogueVars>>

\* Mutant of Unflagged: only one flag is cleared.
UnflaggedOne(a) ==
  LET u == actor[a].user
      s == Max(NeedsSelection(u) \cup {1})
  IN  [row EXCEPT ![u][s].needs = FALSE]

Unflagged(a) ==
  [row EXCEPT ![actor[a].user] = [s \in SubjectIds |-> [@[s] EXCEPT !.needs = FALSE]]]

ClearFlags(a) ==
  /\ actor[a].pc = "clear"
  /\ row' = Unflagged(a)
  /\ IF a \in Runs THEN Goto(a, "clear again") ELSE End(a)
  /\ UNCHANGED <<subjects, unanswered, catalogueVars>>

-----------------------------------------------------------------------------
(* auto_select_subjects *)

\* Mutant of Choosable: learners who have completed nothing yet are left out.
ChoosableCompleted(u) ==
  u \in OptedIn /\ seen[u] # "new" /\ \E s \in SubjectIds : row[u][s].status = "COMPLETED"

\* Opted in, without an active subject, and last_login, which no code of the
\* service writes, is null with a date_joined of more than a day ago.
Choosable(u) == u \in OptedIn /\ seen[u] # "new" /\ Active(u) = {}

StartRun(a) ==
  /\ actor[a].pc = "idle"
  /\ \E u \in Users : Choosable(u)
  /\ actor' = [actor EXCEPT ![a] = [Idle EXCEPT !.pc = "next user",
                                     !.left = {u \in Users : Choosable(u)}]]
  /\ UNCHANGED <<subjects, row, unanswered, catalogueVars>>

ChooseFor(a, u) ==
  /\ actor[a].pc = "next user" /\ u \in actor[a].left
  /\ IF TopSuggestions(u) = {}
     THEN actor' = [actor EXCEPT ![a].left = @ \ {u}]
     ELSE \E s \in TopSuggestions(u) :
            actor' = [actor EXCEPT ![a] = [@ EXCEPT !.pc = "find row", !.user = u,
                                           !.subject = s, !.left = actor[a].left \ {u}]]
  /\ UNCHANGED <<subjects, row, unanswered, catalogueVars>>

ClearAgain(a) ==
  /\ actor[a].pc = "clear again"
  /\ row' = Unflagged(a)
  /\ Goto(a, "next user")
  /\ UNCHANGED <<subjects, unanswered, catalogueVars>>

EndRun(a) ==
  /\ actor[a].pc = "next user" /\ actor[a].left = {}
  /\ End(a)
  /\ UNCHANGED <<subjects, row, unanswered, catalogueVars>>

-----------------------------------------------------------------------------
(* The rest of the system, and time *)

Die(a) ==
  /\ actor[a].pc # "idle"
  /\ IF a \in Runs THEN deaths < MaxDeaths /\ deaths' = deaths + 1 ELSE UNCHANGED deaths
  /\ lost' = IF actor[a].pc = "request roadmap" THEN lost \cup {actor[a].subject} ELSE lost
  /\ unanswered' = IF actor[a].pc \in {"request roadmap", "clear"}
                   THEN [unanswered EXCEPT ![actor[a].user] = SubjectIds]
                   ELSE unanswered
  /\ End(a)
  /\ UNCHANGED <<subjects, row, star, seen, crew>>

Leave(u, s) ==
  /\ row[u][s] # NoRow
  /\ row' = [row EXCEPT ![u][s] = NoRow]
  /\ unanswered' = [unanswered EXCEPT ![u] = @ \ {s}]
  /\ UNCHANGED <<subjects, actor, catalogueVars>>

\* A level check finds the last level passed, the first time or once more.
Complete(u, s) ==
  /\ row[u][s] # NoRow /\ subjects[s].topics > 0
  /\ row' = [row EXCEPT ![u][s] = [status |-> "COMPLETED", needs |-> TRUE]]
  /\ unanswered' = [unanswered EXCEPT ![u] = @ \cup {s}]
  /\ UNCHANGED <<subjects, actor, catalogueVars>>

RoadmapEnds(s) ==
  /\ s \in DOMAIN subjects /\ subjects[s].roadmap = "GENERATING"
  /\ \/ \E n \in TopicCounts :
          subjects' = [subjects EXCEPT ![s].roadmap = "READY", ![s].topics = n]
     \/ subjects' = [subjects EXCEPT ![s].roadmap = "FAILED"]
  /\ UNCHANGED <<row, actor, unanswered, catalogueVars>>

\* Bound: what only the task reads changes where the task runs.
TaskRuns == crew \cap Runs # {}

MarkInterest(u, s) ==
  /\ TaskRuns /\ s \in Starrable \cap DOMAIN subjects
  /\ \/ star' = [star EXCEPT ![u] = @ \cup {s}]
     \/ star' = [star EXCEPT ![u] = @ \ {s}]
  /\ UNCHANGED <<subjects, row, seen, actor, deaths, crew, lost, unanswered>>

\* Signing in leaves last_login alone; a day later a learner is away.
SignIn(u) ==
  /\ seen[u] = "away"
  /\ seen' = [seen EXCEPT ![u] = "today"]
  /\ UNCHANGED <<subjects, row, star, actor, deaths, crew, lost, unanswered>>

DayPasses(u) ==
  /\ TaskRuns /\ seen[u] # "away"
  /\ seen' = [seen EXCEPT ![u] = "away"]
  /\ UNCHANGED <<subjects, row, star, actor, deaths, crew, lost, unanswered>>

-----------------------------------------------------------------------------

AddStep(a) ==
  FindRow(a) \/ CountSlots(a) \/ InsertRow(a) \/ InsertRowRefused(a)
    \/ RequestRoadmap(a) \/ ClearFlags(a)

RequestStep(a) ==
  \/ \E u \in Users : \/ \E s \in SubjectIds : AddSubject(a, u, s)
                      \/ \E n \in Names : CreateSubject(a, u, n)
  \/ LookUp(a) \/ MatchSimilar(a) \/ Standardize(a) \/ NoSubjectFound(a)
  \/ InsertSubject(a) \/ InsertSubjectRefused(a)
  \/ AddStep(a)

RunStep(a) ==
  \/ StartRun(a)
  \/ \E u \in Users : ChooseFor(a, u)
  \/ AddStep(a) \/ ClearAgain(a) \/ EndRun(a)

Next ==
  \/ \E a \in Requests \cap crew : RequestStep(a)
  \/ \E a \in Runs \cap crew : RunStep(a)
  \/ \E a \in crew : Die(a)
  \/ \E u \in Users :
       \/ \E s \in SubjectIds : Leave(u, s) \/ Complete(u, s) \/ MarkInterest(u, s)
       \/ SignIn(u) \/ DayPasses(u)
  \/ \E s \in SubjectIds : RoadmapEnds(s)

Spec == Init /\ [][Next]_vars

\* The beat schedule keeps starting the task, and a run goes on.  Learners,
\* providers and roadmap tasks owe nothing.
FairSpec == Spec /\ \A a \in Runs : WF_vars(RunStep(a))

-----------------------------------------------------------------------------
(* Properties *)

\* The values the state can take.
Subjects == [name : Names, topics : TopicCounts \cup {0}, roadmap : RoadmapStatus]

PCs == {"idle", "look up", "ask", "look up standardized", "create", "find row",
        "count", "insert", "request roadmap", "clear", "clear again", "next user"}

ActorState ==
  [pc : PCs, user : Users, name : Names, subject : SubjectIds \cup {NoSubject},
   left : SUBSET Users, overtaken : BOOLEAN]

TypeOK ==
  /\ subjects \in Seq(Subjects) /\ Len(subjects) <= MaxSubjects
  /\ row \in [Users -> [SubjectIds -> RowValues]]
  /\ star \in [Users -> SUBSET SubjectIds]
  /\ \E s \in Scenarios : crew = s.crew
  /\ seen \in [Users -> {"new", "today", "away"}]
  /\ actor \in [Actors -> ActorState]
  /\ deaths \in 0 .. MaxDeaths
  /\ lost \subseteq SubjectIds
  /\ unanswered \in [Users -> SUBSET SubjectIds]

\* The limit of active subjects is counted in one statement and used up in
\* another.  A request or run about to take a slot has one, unless another of
\* the same learner took a slot in between; so what overlaps can exceed the
\* limit by one each, and whoever comes later is refused.
LimitHolds ==
  \A a \in Actors :
    actor[a].pc = "insert" /\ ~ actor[a].overtaken =>
      Cardinality(Active(actor[a].user)) < SubjectLimit

\* A learner of a subject without topics is not left waiting for a roadmap
\* nobody asked for: it was claimed, or a request is about to, or died.
RoadmapRequested ==
  \A u \in Users : \A s \in Enrolled(u) :
    subjects[s].roadmap = "NOT_GENERATED" =>
      \/ s \in lost
      \/ \E a \in Actors : actor[a].pc = "request roadmap" /\ actor[a].subject = s

\* Taking a new subject answers the question for the next one on every
\* completed subject, whichever request or run takes it; only a completion
\* (or a level check repeated) after it asks again.
FlagsAnswered ==
  \A u \in Users : \A s \in NeedsSelection(u) :
      \/ s \in unanswered[u]
      \/ \E a \in Actors : /\ actor[a].user = u
                           /\ actor[a].pc \in {"request roadmap", "clear"}

\* A request about to create a subject is not about to create a second one for
\* a name that differs in case only, unless another request created it in
\* between; the unique constraint compares the case and does not help.
NamesShared ==
  \A a \in Requests :
    actor[a].pc = "create" /\ ~ actor[a].overtaken => Named(actor[a].name) = {}

\* auto_select_subjects serves every learner it is for: opted in, away, without
\* an active subject, and with something to suggest.
IdleLearnerIsServed ==
  \A u \in Users :
    (TaskRuns /\ u \in OptedIn /\ seen[u] = "away" /\ Active(u) = {} /\ TopSuggestions(u) # {})
      ~> (Active(u) # {} \/ seen[u] # "away" \/ TopSuggestions(u) = {})
=============================================================================
