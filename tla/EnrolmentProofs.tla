--------------------------- MODULE EnrolmentProofs ----------------------------
(***************************************************************************)
(* Enrolment, for any learners, catalogue, limit and number of requests    *)
(* and runs of auto_select_subjects: whatever dies, and however they       *)
(* overlap.                                                                *)
(***************************************************************************)
EXTENDS Enrolment, SequenceTheorems, FiniteSetTheorems, WellFoundedInduction, TLAPS

\* An actor that has chosen a subject and not yet enrolled in it, or not yet
\* asked for its roadmap.
Adding == {"find row", "count", "insert", "request roadmap"}

\* What an actor goes by is so, unless it was overtaken.
Sound(a) ==
  LET me == actor[a] IN
  /\ me.pc \in Adding => me.subject \in DOMAIN subjects
  /\ me.pc = "insert" /\ ~ me.overtaken => Cardinality(Active(me.user)) < SubjectLimit
  /\ me.pc = "create" /\ ~ me.overtaken => Named(me.name) = {}

\* Rows and stars are of subjects in the catalogue, and a roadmap nobody asked
\* for has no topics.
CatalogueOK ==
  /\ \A u \in Users : Enrolled(u) \cup star[u] \subseteq DOMAIN subjects
  /\ \A s \in DOMAIN subjects :
       subjects[s].roadmap = "NOT_GENERATED" => subjects[s].topics = 0

\* The inductive invariant.
EnrolmentInv ==
  /\ TypeOK
  /\ CatalogueOK
  /\ \A a \in Actors : Sound(a)
  /\ RoadmapRequested
  /\ FlagsAnswered

Acts(a) == RequestStep(a) \/ RunStep(a) \/ Die(a)

-----------------------------------------------------------------------------
(* Actors *)

\* A set of ids has a smallest.
LEMMA MinOf ==
  ASSUME NEW S \in SUBSET Nat, S # {}
  PROVE  Min(S) \in S
<1>1. PICK x \in S : \A y \in S : <<y, x>> \notin OpToRel(<, Nat)
  BY NatLessThanWellFounded, WFMin, Zenon
<1>2. \A y \in S : ~ (y < x)
  BY <1>1, Zenon DEF OpToRel
<1>3. \A y \in S : x =< y
  BY <1>2
<1>4. QED
  BY <1>3 DEF Min

\* Subjects are numbered from 1, within the bound of the catalogue.
LEMMA CatalogueIds ==
  ASSUME TypeOK
  PROVE  /\ Len(subjects) \in Nat /\ DOMAIN subjects = 1 .. Len(subjects)
         /\ DOMAIN subjects \subseteq SubjectIds /\ DOMAIN subjects \subseteq Nat
<1>1. Len(subjects) \in Nat /\ DOMAIN subjects = 1 .. Len(subjects)
  BY DEF TypeOK
<1>2. QED
  BY <1>1, EnrolmentParametersOK DEF TypeOK, SubjectIds

\* Who is idle is so with some learner and some name.
LEMMA IdleState == Idle \in ActorState /\ Idle.pc = "idle" /\ Idle.overtaken = FALSE
<1>1. (CHOOSE u \in Users : TRUE) \in Users /\ (CHOOSE n \in Names : TRUE) \in Names
  BY EnrolmentParametersOK
<1>2. QED
  BY <1>1 DEF Idle, ActorState, PCs

\* Actor a has moved to a state, and the others stay where they are, overtaken
\* or not.
Moves(a, new) ==
  /\ actor' \in [Actors -> ActorState]
  /\ new \in ActorState /\ actor'[a] = new
  /\ \A b \in Actors \ {a} :
       /\ actor'[b].pc = actor[b].pc /\ actor'[b].user = actor[b].user
       /\ actor'[b].name = actor[b].name /\ actor'[b].subject = actor[b].subject
       /\ actor[b].overtaken => actor'[b].overtaken

\* Writing an actor's new state moves it.
LEMMA PutMoves ==
  ASSUME actor \in [Actors -> ActorState], NEW a \in Actors, NEW new \in ActorState,
         actor' = [actor EXCEPT ![a] = new]
  PROVE  Moves(a, new)
BY DEF Moves

\* A request or run that ends is idle.
LEMMA EndMoves ==
  ASSUME actor \in [Actors -> ActorState], NEW a \in Actors, End(a)
  PROVE  Moves(a, Idle)
BY IdleState, PutMoves DEF End

\* Going on keeps learner, name and subject, and nobody is overtaken on arrival.
LEMMA GotoMoves ==
  ASSUME actor \in [Actors -> ActorState], NEW a \in Actors, NEW pc \in PCs, Goto(a, pc)
  PROVE  \E new \in ActorState :
           /\ Moves(a, new) /\ new.pc = pc /\ new.user = actor[a].user
           /\ new.name = actor[a].name /\ new.subject = actor[a].subject
           /\ ~ new.overtaken
<1> DEFINE new == [actor[a] EXCEPT !.pc = pc, !.overtaken = FALSE]
<1>1. actor[a] \in ActorState
  OBVIOUS
<1>2. new \in ActorState /\ new.pc = pc /\ new.user = actor[a].user
      /\ new.name = actor[a].name /\ new.subject = actor[a].subject
      /\ new.overtaken = FALSE
  BY <1>1 DEF ActorState
<1>3. actor' = [actor EXCEPT ![a] = new]
  BY DEF Goto
<1> HIDE DEF new
<1>4. Moves(a, new)
  BY <1>2, <1>3, PutMoves
<1>5. QED
  BY <1>2, <1>4

\* An actor that found a subject is about to look for the learner's row.
LEMMA FoundState ==
  ASSUME actor \in [Actors -> ActorState], NEW a \in Actors, NEW s \in SubjectIds
  PROVE  /\ Found(a, s) \in ActorState /\ Found(a, s).pc = "find row"
         /\ Found(a, s).user = actor[a].user /\ Found(a, s).subject = s
<1>1. actor[a] \in ActorState
  OBVIOUS
<1>2. Idle.name \in Names
  BY IdleState DEF ActorState
<1>3. QED
  BY <1>1, <1>2 DEF Found, ActorState, PCs

\* So it is with taking one.
LEMMA TakeMoves ==
  ASSUME actor \in [Actors -> ActorState], NEW a \in Actors, NEW s \in SubjectIds,
         Take(a, s)
  PROVE  Moves(a, Found(a, s))
BY FoundState, PutMoves DEF Take

\* Those overtaken are marked.
LEMMA OvertakeMoves ==
  ASSUME actor \in [Actors -> ActorState], NEW a \in Actors, NEW new \in ActorState,
         NEW P \in [Actors -> BOOLEAN], Overtake(a, new, LAMBDA b : P[b])
  PROVE  /\ Moves(a, new)
         /\ \A b \in Actors \ {a} : P[b] => actor'[b].overtaken
<1>1. ASSUME NEW b \in Actors, b # a
      PROVE  /\ actor'[b] \in ActorState
             /\ actor'[b].pc = actor[b].pc /\ actor'[b].user = actor[b].user
             /\ actor'[b].name = actor[b].name /\ actor'[b].subject = actor[b].subject
             /\ actor'[b].overtaken = (actor[b].overtaken \/ P[b])
  <2>1. actor'[b] = [actor[b] EXCEPT !.overtaken = actor[b].overtaken \/ P[b]]
    BY <1>1 DEF Overtake
  <2>2. actor[b] \in ActorState
    OBVIOUS
  <2>3. QED
    BY <2>1, <2>2 DEF ActorState
<1>2. actor'[a] = new
  BY DEF Overtake
<1>3. actor' \in [Actors -> ActorState]
  <2>1. \A b \in Actors : actor'[b] \in ActorState
    BY <1>1, <1>2
  <2>2. actor' = [b \in Actors |-> actor'[b]]
    BY DEF Overtake
  <2>3. QED
    BY <2>1, <2>2
<1>4. QED
  BY <1>1, <1>2, <1>3 DEF Moves

-----------------------------------------------------------------------------
(* The catalogue *)

\* A subject of the catalogue, with its topics.
LEMMA SubjectType ==
  ASSUME TypeOK, NEW s \in DOMAIN subjects
  PROVE  subjects[s] \in Subjects /\ subjects[s].topics \in TopicCounts \cup {0}
<1>1. subjects \in Seq(Subjects)
  BY DEF TypeOK
<1>2. subjects[s] \in Subjects
  BY <1>1
<1>3. QED
  BY <1>2 DEF Subjects

\* A subject with another roadmap.
With(s, roadmap, topics) == [subjects[s] EXCEPT !.roadmap = roadmap, !.topics = topics]

\* A subject's roadmap is claimed or ends; its name stays.
LEMMA RoadmapWritten ==
  ASSUME TypeOK, NEW s \in DOMAIN subjects,
         NEW roadmap \in RoadmapStatus, NEW topics \in TopicCounts \cup {0},
         subjects' = [subjects EXCEPT ![s] = With(s, roadmap, topics)]
  PROVE  /\ subjects' \in Seq(Subjects)
         /\ DOMAIN subjects' = DOMAIN subjects /\ Len(subjects') = Len(subjects)
         /\ \A t \in DOMAIN subjects : t # s => subjects'[t] = subjects[t]
         /\ subjects'[s].name = subjects[s].name
         /\ subjects'[s].roadmap = roadmap /\ subjects'[s].topics = topics
<1> DEFINE new == With(s, roadmap, topics)
<1>1. subjects \in Seq(Subjects) /\ subjects[s] \in Subjects
  BY SubjectType DEF TypeOK
<1>2. new \in Subjects /\ new.name = subjects[s].name /\ new.roadmap = roadmap
      /\ new.topics = topics
  BY <1>1 DEF Subjects, With
<1> HIDE DEF new
<1>3. subjects' = [subjects EXCEPT ![s] = new]
  BY DEF new
<1>4. subjects' \in Seq(Subjects) /\ Len(subjects') = Len(subjects)
  BY <1>1, <1>2, <1>3, ExceptSeq
<1>5. QED
  BY <1>2, <1>3, <1>4

\* What a step does to the catalogue.
CatalogueGrows ==
  /\ subjects' \in Seq(Subjects) /\ Len(subjects') <= MaxSubjects
  /\ DOMAIN subjects \subseteq DOMAIN subjects'
  /\ \A s \in DOMAIN subjects :
       /\ subjects'[s].name = subjects[s].name
       /\ subjects'[s].roadmap = "NOT_GENERATED" => subjects[s].roadmap = "NOT_GENERATED"
  /\ \A s \in DOMAIN subjects' :
       subjects'[s].roadmap = "NOT_GENERATED" => subjects'[s].topics = 0

\* No step but those that create a subject, or a roadmap, touches the catalogue.
LEMMA CatalogueStays ==
  ASSUME [Next]_vars,
         \A a \in Actors : ~ InsertSubject(a) /\ ~ RequestRoadmap(a),
         \A s \in SubjectIds : ~ RoadmapEnds(s), TypeOK
  PROVE  subjects' = subjects
<1>1. ASSUME NEW a \in Actors, Acts(a) PROVE subjects' = subjects
  BY <1>1 DEF Acts, RequestStep, RunStep, Die, AddStep, AddSubject, CreateSubject,
     LookUp, MatchSimilar, Standardize, NoSubjectFound, InsertSubjectRefused, FindRow,
     CountSlots, InsertRow, InsertRowRefused, ClearFlags, StartRun, ChooseFor,
     ClearAgain, EndRun
<1>2. ASSUME NEW u \in Users, SignIn(u) \/ DayPasses(u)
                \/ \E s \in SubjectIds : Leave(u, s) \/ Complete(u, s) \/ MarkInterest(u, s)
      PROVE  subjects' = subjects
  BY <1>2 DEF SignIn, DayPasses, Leave, Complete, MarkInterest
<1>3. CASE UNCHANGED vars
  BY <1>3 DEF vars
<1>4. crew \subseteq Actors
  BY EnrolmentParametersOK DEF TypeOK
<1>5. QED
  BY <1>1, <1>2, <1>3, <1>4 DEF Next, Acts, Actors

\* Every step lets the catalogue grow, and asks for no roadmap twice.
LEMMA CatalogueStep ==
  ASSUME EnrolmentInv, [Next]_vars
  PROVE  CatalogueGrows
<1>1. /\ TypeOK /\ CatalogueOK /\ subjects \in Seq(Subjects)
      /\ Len(subjects) \in Nat /\ DOMAIN subjects = 1 .. Len(subjects)
  BY CatalogueIds DEF EnrolmentInv, TypeOK
<1>2. ASSUME subjects' = subjects PROVE CatalogueGrows
  BY <1>1, <1>2 DEF CatalogueGrows, TypeOK, CatalogueOK
<1>3. ASSUME NEW s \in DOMAIN subjects, NEW roadmap \in RoadmapStatus \ {"NOT_GENERATED"},
             NEW topics \in TopicCounts \cup {0},
             subjects' = [subjects EXCEPT ![s] = With(s, roadmap, topics)]
      PROVE  CatalogueGrows
  <2>1. /\ subjects' \in Seq(Subjects)
        /\ DOMAIN subjects' = DOMAIN subjects /\ Len(subjects') = Len(subjects)
        /\ \A t \in DOMAIN subjects : t # s => subjects'[t] = subjects[t]
        /\ subjects'[s].name = subjects[s].name
        /\ subjects'[s].roadmap = roadmap
    BY <1>1, <1>3, RoadmapWritten
  <2>2. QED
    BY <1>1, <1>3, <2>1 DEF CatalogueGrows, CatalogueOK, TypeOK
<1>4. ASSUME NEW a \in Actors, InsertSubject(a) PROVE CatalogueGrows
  <2> DEFINE new == NewSubject(actor[a].name)
  <2>1. actor[a].name \in Names
    BY <1>1 DEF TypeOK, ActorState
  <2>2. new \in Subjects /\ new.topics = 0
    BY <2>1 DEF NewSubject, Subjects, RoadmapStatus
  <2>3. subjects' = Append(subjects, new) /\ Len(subjects) < MaxSubjects
    BY <1>4 DEF InsertSubject
  <2> HIDE DEF new
  <2>4. /\ subjects' \in Seq(Subjects) /\ Len(subjects') = Len(subjects) + 1
        /\ \A i \in 1 .. Len(subjects) : subjects'[i] = subjects[i]
        /\ subjects'[Len(subjects) + 1] = new
    BY <1>1, <2>2, <2>3, AppendProperties
  <2>5. DOMAIN subjects' = 1 .. Len(subjects')
    BY <2>4
  <2>6. \A i \in DOMAIN subjects' : i \in DOMAIN subjects \/ i = Len(subjects) + 1
    BY <1>1, <2>4, <2>5
  <2>7. Len(subjects') <= MaxSubjects /\ DOMAIN subjects \subseteq DOMAIN subjects'
    BY <1>1, <2>3, <2>4, <2>5, EnrolmentParametersOK
  <2>8. QED
    BY <1>1, <2>2, <2>4, <2>6, <2>7 DEF CatalogueGrows, CatalogueOK
<1>5. ASSUME NEW a \in Actors, RequestRoadmap(a) PROVE CatalogueGrows
  <2>1. CASE subjects' = subjects
    BY <1>2, <2>1
  <2>2. CASE subjects' # subjects
    <3>1. PICK s, r : /\ s = actor[a].subject /\ r \in {"GENERATING", "FAILED"}
                      /\ subjects' = [subjects EXCEPT ![s].roadmap = r]
      BY <1>5, <2>2 DEF RequestRoadmap
    <3>2. s \in DOMAIN subjects
      BY <1>5, <3>1 DEF EnrolmentInv, Sound, Adding, RequestRoadmap
    <3>3. subjects[s] \in Subjects /\ subjects[s].topics \in TopicCounts \cup {0}
      BY <1>1, <3>2, SubjectType
    <3>4. [subjects[s] EXCEPT !.roadmap = r] = With(s, r, subjects[s].topics)
      BY <3>3 DEF Subjects, With
    <3>5. r \in RoadmapStatus \ {"NOT_GENERATED"}
      BY <3>1 DEF RoadmapStatus
    <3>6. QED
      BY <1>3, <3>1, <3>2, <3>3, <3>4, <3>5
  <2>3. QED
    BY <2>1, <2>2
<1>6. ASSUME NEW s \in SubjectIds, RoadmapEnds(s) PROVE CatalogueGrows
  <2>1. s \in DOMAIN subjects
    BY <1>6 DEF RoadmapEnds
  <2>2. subjects[s] \in Subjects /\ subjects[s].topics \in TopicCounts \cup {0}
    BY <1>1, <2>1, SubjectType
  <2>3. CASE subjects' = [subjects EXCEPT ![s].roadmap = "FAILED"]
    <3>1. [subjects[s] EXCEPT !.roadmap = "FAILED"] =
            With(s, "FAILED", subjects[s].topics)
      BY <2>2 DEF Subjects, With
    <3>2. QED
      BY <1>3, <2>1, <2>2, <2>3, <3>1 DEF RoadmapStatus
  <2>4. CASE \E n \in TopicCounts :
               subjects' = [subjects EXCEPT ![s] = With(s, "READY", n)]
    BY <1>3, <2>1, <2>4 DEF RoadmapStatus
  <2>5. QED
    BY <1>1, <1>6, <2>1, <2>3, <2>4 DEF RoadmapEnds, With
<1>7. QED
  BY <1>1, <1>2, <1>4, <1>5, <1>6, CatalogueStays

-----------------------------------------------------------------------------
(* Rows *)

\* A row is there, with a status, or not, and then it has no flag.
LEMMA RowValue ==
  ASSUME NEW v \in RowValues
  PROVE  /\ v.status \in {"none", "ACTIVE", "COMPLETED"}
         /\ v.status = "none" <=> v = NoRow
         /\ v = NoRow => ~ v.needs
         /\ [v EXCEPT !.needs = FALSE] \in RowValues
         /\ [v EXCEPT !.needs = FALSE].status = v.status
         /\ [v EXCEPT !.needs = FALSE].needs = FALSE
<1>1. CASE v = NoRow
  <2> DEFINE None == [status : {"none"}, needs : BOOLEAN]
  <2>1. v \in None /\ v.needs = FALSE /\ v.status = "none"
    BY <1>1 DEF NoRow
  <2>2. \A w \in None : w.needs = FALSE => w = NoRow
    BY DEF NoRow
  <2>3. [v EXCEPT !.needs = FALSE] \in None /\ [v EXCEPT !.needs = FALSE].needs = FALSE
    BY <2>1
  <2>4. [v EXCEPT !.needs = FALSE] = NoRow
    BY <2>2, <2>3, Zenon
  <2>5. QED
    BY <1>1, <2>1, <2>4
<1>2. CASE v \in [status : {"ACTIVE", "COMPLETED"}, needs : BOOLEAN]
  <2>1. v.status \in {"ACTIVE", "COMPLETED"} /\ v # NoRow
    BY <1>2 DEF NoRow
  <2>2. /\ [v EXCEPT !.needs = FALSE] \in [status : {"ACTIVE", "COMPLETED"}, needs : BOOLEAN]
        /\ [v EXCEPT !.needs = FALSE].status = v.status
        /\ [v EXCEPT !.needs = FALSE].needs = FALSE
    BY <1>2
  <2>3. QED
    BY <2>1, <2>2 DEF RowValues
<1>3. QED
  BY <1>1, <1>2 DEF RowValues

\* So it is with the row of every learner.
LEMMA RowType ==
  ASSUME TypeOK, NEW u \in Users, NEW s \in SubjectIds
  PROVE  /\ row[u][s] \in RowValues
         /\ row[u][s].status \in {"none", "ACTIVE", "COMPLETED"}
         /\ row[u][s].status = "none" <=> row[u][s] = NoRow
         /\ row[u][s] = NoRow => ~ row[u][s].needs
<1>1. row[u][s] \in RowValues
  BY DEF TypeOK
<1>2. QED
  BY <1>1, RowValue

WithRow(u, s, v) == [row EXCEPT ![u][s] = v]

\* Writing one row changes that one.
LEMMA RowWritten ==
  ASSUME TypeOK, NEW u \in Users, NEW s \in SubjectIds, NEW v \in RowValues,
         row' = WithRow(u, s, v)
  PROVE  /\ row' \in [Users -> [SubjectIds -> RowValues]]
         /\ row'[u][s] = v
         /\ \A w \in Users, t \in SubjectIds : w # u \/ t # s => row'[w][t] = row[w][t]
<1> DEFINE f == [row[u] EXCEPT ![s] = v]
<1>1. row \in [Users -> [SubjectIds -> RowValues]] /\ row[u] \in [SubjectIds -> RowValues]
  BY DEF TypeOK
<1>2. /\ f \in [SubjectIds -> RowValues] /\ f[s] = v
      /\ \A t \in SubjectIds : t # s => f[t] = row[u][t]
  BY <1>1
<1>3. row' = [row EXCEPT ![u] = f]
  BY <1>1 DEF WithRow
<1> HIDE DEF f
<1>4. /\ row' \in [Users -> [SubjectIds -> RowValues]] /\ row'[u] = f
      /\ \A w \in Users : w # u => row'[w] = row[w]
  BY <1>1, <1>2, <1>3
<1>5. QED
  BY <1>2, <1>4

\* The flags of one learner are cleared.
LEMMA RowsUnflagged ==
  ASSUME TypeOK, NEW a \in Actors, row' = Unflagged(a)
  PROVE  /\ row' \in [Users -> [SubjectIds -> RowValues]]
         /\ \A w \in Users, t \in SubjectIds :
              /\ row'[w][t].status = row[w][t].status
              /\ row'[w][t].needs => row[w][t].needs /\ w # actor[a].user
<1>1. PICK u \in Users : u = actor[a].user
  BY DEF TypeOK, ActorState
<1> DEFINE f == [s \in SubjectIds |-> [row[u][s] EXCEPT !.needs = FALSE]]
<1>2. row \in [Users -> [SubjectIds -> RowValues]]
  BY DEF TypeOK
<1>3. \A s \in SubjectIds : /\ [row[u][s] EXCEPT !.needs = FALSE] \in RowValues
                            /\ [row[u][s] EXCEPT !.needs = FALSE].status = row[u][s].status
                            /\ [row[u][s] EXCEPT !.needs = FALSE].needs = FALSE
  <2>1. \A s \in SubjectIds : row[u][s] \in RowValues
    BY <1>2
  <2>2. QED
    BY <2>1, RowValue
<1>4. /\ f \in [SubjectIds -> RowValues]
      /\ \A s \in SubjectIds : f[s].status = row[u][s].status /\ f[s].needs = FALSE
  BY <1>3
<1>5. row' = [row EXCEPT ![u] = f]
  BY <1>1 DEF Unflagged
<1> HIDE DEF f
<1>6. /\ row' \in [Users -> [SubjectIds -> RowValues]] /\ row'[u] = f
      /\ \A w \in Users : w # u => row'[w] = row[w]
  BY <1>2, <1>4, <1>5
<1>7. QED
  BY <1>1, <1>4, <1>6

\* What a row can become without somebody enrolling.
RowsOnlyShrink ==
  /\ row' \in [Users -> [SubjectIds -> RowValues]]
  /\ \A u \in Users : Active(u)' \subseteq Active(u) /\ Enrolled(u)' \subseteq Enrolled(u)

\* Only enrolling adds rows, or makes one active.
LEMMA RowsShrink ==
  ASSUME TypeOK, [Next]_vars, \A a \in Actors : ~ InsertRow(a)
  PROVE  RowsOnlyShrink
<1>1. row \in [Users -> [SubjectIds -> RowValues]] /\ crew \subseteq Actors
  BY EnrolmentParametersOK DEF TypeOK
<1>2. ASSUME row' = row PROVE RowsOnlyShrink
  BY <1>1, <1>2 DEF RowsOnlyShrink, Active, Enrolled
<1>3. ASSUME NEW a \in Actors, Acts(a) PROVE RowsOnlyShrink
  <2>1. CASE ClearFlags(a) \/ ClearAgain(a)
    <3>1. row' = Unflagged(a)
      BY <2>1 DEF ClearFlags, ClearAgain
    <3>2. QED
      BY <3>1, RowsUnflagged DEF RowsOnlyShrink, Active, Enrolled
  <2>2. CASE ~ ClearFlags(a) /\ ~ ClearAgain(a)
    <3>1. row' = row
      BY <1>3, <2>2 DEF Acts, RequestStep, RunStep, Die, AddStep, AddSubject,
         CreateSubject, LookUp, MatchSimilar, Standardize, NoSubjectFound, InsertSubject,
         InsertSubjectRefused, FindRow, CountSlots, InsertRowRefused, RequestRoadmap,
         StartRun, ChooseFor, EndRun
    <3>2. QED
      BY <1>2, <3>1
  <2>3. QED
    BY <2>1, <2>2
<1>4. ASSUME NEW u \in Users, NEW s \in SubjectIds, Leave(u, s) PROVE RowsOnlyShrink
  <2>1. NoRow \in RowValues /\ row' = WithRow(u, s, NoRow)
    BY <1>4 DEF Leave, RowValues, WithRow
  <2>2. /\ row' \in [Users -> [SubjectIds -> RowValues]]
        /\ row'[u][s] = NoRow
        /\ \A w \in Users, t \in SubjectIds : w # u \/ t # s => row'[w][t] = row[w][t]
    BY <2>1, RowWritten
  <2>3. QED
    BY <2>2 DEF RowsOnlyShrink, Active, Enrolled, NoRow
<1>5. ASSUME NEW u \in Users, NEW s \in SubjectIds, Complete(u, s) PROVE RowsOnlyShrink
  <2> DEFINE v == [status |-> "COMPLETED", needs |-> TRUE]
  <2>1. v \in RowValues /\ row' = WithRow(u, s, v) /\ row[u][s].status # "none"
    BY <1>5, RowType DEF Complete, RowValues, WithRow
  <2>2. /\ row' \in [Users -> [SubjectIds -> RowValues]]
        /\ row'[u][s] = v
        /\ \A w \in Users, t \in SubjectIds : w # u \/ t # s => row'[w][t] = row[w][t]
    BY <2>1, RowWritten
  <2>3. QED
    BY <2>1, <2>2 DEF RowsOnlyShrink, Active, Enrolled
<1>6. ASSUME NEW u \in Users, SignIn(u) \/ DayPasses(u)
                \/ \E s \in SubjectIds : MarkInterest(u, s)
      PROVE  row' = row
  BY <1>6 DEF SignIn, DayPasses, MarkInterest
<1>7. CASE (\E s \in SubjectIds : RoadmapEnds(s)) \/ UNCHANGED vars
  BY <1>2, <1>7 DEF RoadmapEnds, vars
<1>8. QED
  BY <1>1, <1>2, <1>3, <1>4, <1>5, <1>6, <1>7 DEF Next, Acts, Actors

\* Enrolling adds a row and nothing else to the rows.
LEMMA RowInserted ==
  ASSUME TypeOK, NEW a \in Actors, InsertRow(a), actor[a].subject \in SubjectIds,
         NEW u, u = actor[a].user, NEW s, s = actor[a].subject
  PROVE  /\ u \in Users /\ row' \in [Users -> [SubjectIds -> RowValues]]
         /\ row'[u][s] = NewRow
         /\ \A w \in Users, t \in SubjectIds : w # u \/ t # s => row'[w][t] = row[w][t]
<1>1. u \in Users /\ s \in SubjectIds
  BY DEF TypeOK, ActorState
<1>2. NewRow \in RowValues
  BY DEF NewRow, RowValues
<1>3. row' = WithRow(u, s, NewRow)
  BY DEF InsertRow, WithRow
<1>4. QED
  BY <1>1, <1>2, <1>3, RowWritten

-----------------------------------------------------------------------------
(* What an actor does next *)

\* Enrolling overtakes those about to enroll the same learner.
LEMMA InsertRowStep ==
  ASSUME TypeOK, NEW a \in Actors, InsertRow(a)
  PROVE  /\ Moves(a, actor'[a])
         /\ actor'[a].pc = "request roadmap" /\ actor'[a].user = actor[a].user
         /\ actor'[a].subject = actor[a].subject
         /\ \A b \in Actors \ {a} :
              actor[b].pc = "insert" /\ actor[b].user = actor[a].user => actor'[b].overtaken
<1> DEFINE P == [b \in Actors |-> actor[b].pc = "insert" /\ actor[b].user = actor[a].user]
           new == [actor[a] EXCEPT !.pc = "request roadmap", !.overtaken = FALSE]
<1>1. actor \in [Actors -> ActorState] /\ actor[a] \in ActorState
  BY DEF TypeOK
<1>2. /\ new \in ActorState /\ new.pc = "request roadmap"
      /\ new.user = actor[a].user /\ new.subject = actor[a].subject
  BY <1>1 DEF ActorState, PCs
<1>3. P \in [Actors -> BOOLEAN]
  OBVIOUS
<1>4. Overtake(a, new, LAMBDA b : P[b])
  BY DEF InsertRow, Overtake
<1>5. \A b \in Actors : actor[b].pc = "insert" /\ actor[b].user = actor[a].user => P[b]
  OBVIOUS
<1> HIDE DEF P, new
<1>6. /\ Moves(a, new) /\ \A b \in Actors \ {a} : P[b] => actor'[b].overtaken
  BY <1>1, <1>2, <1>3, <1>4, OvertakeMoves
<1>7. actor'[a] = new
  BY <1>6 DEF Moves
<1>8. QED
  BY <1>2, <1>5, <1>6, <1>7

\* Creating a subject overtakes those about to create it too.
LEMMA InsertSubjectStep ==
  ASSUME TypeOK, NEW a \in Actors, InsertSubject(a)
  PROVE  /\ Moves(a, actor'[a])
         /\ actor'[a].pc = "find row" /\ actor'[a].subject \in DOMAIN subjects'
         /\ subjects' = Append(subjects, NewSubject(actor[a].name))
         /\ \A b \in Actors \ {a} :
              actor[b].pc = "create" /\ actor[b].name.word = actor[a].name.word
                => actor'[b].overtaken
<1> DEFINE P == [b \in Actors |-> actor[b].pc = "create"
                                  /\ actor[b].name.word = actor[a].name.word]
           s == Len(subjects) + 1
           new == Found(a, s)
<1>1. /\ actor \in [Actors -> ActorState] /\ subjects \in Seq(Subjects)
      /\ Len(subjects) \in Nat /\ Len(subjects) < MaxSubjects
      /\ actor[a].name \in Names
      /\ subjects' = Append(subjects, NewSubject(actor[a].name))
  BY CatalogueIds DEF TypeOK, ActorState, InsertSubject
<1>2. s \in SubjectIds /\ s \in DOMAIN subjects'
  <2>1. NewSubject(actor[a].name) \in Subjects
    BY <1>1 DEF NewSubject, Subjects, RoadmapStatus
  <2>2. subjects' \in Seq(Subjects) /\ Len(subjects') = s
    BY <1>1, <2>1, AppendProperties
  <2>3. DOMAIN subjects' = 1 .. Len(subjects')
    BY <2>2
  <2>4. QED
    BY <1>1, <2>2, <2>3, EnrolmentParametersOK DEF SubjectIds
<1>3. P \in [Actors -> BOOLEAN]
  OBVIOUS
<1>4. Overtake(a, new, LAMBDA b : P[b])
  BY DEF InsertSubject, Overtake
<1>5. \A b \in Actors : actor[b].pc = "create" /\ actor[b].name.word = actor[a].name.word
        => P[b]
  OBVIOUS
<1> HIDE DEF P, s
<1>6. new \in ActorState /\ new.pc = "find row" /\ new.subject = s
  BY <1>1, <1>2, FoundState
<1> HIDE DEF new
<1>7. /\ Moves(a, new) /\ \A b \in Actors \ {a} : P[b] => actor'[b].overtaken
  BY <1>1, <1>3, <1>4, <1>6, OvertakeMoves
<1>8. actor'[a] = new
  BY <1>7 DEF Moves
<1>9. QED
  BY <1>1, <1>2, <1>5, <1>6, <1>7, <1>8

\* What an actor goes by after a step, when it has not inserted anything.
Goes(a) ==
  LET me == actor'[a] IN
  /\ Moves(a, me)
  /\ me.pc \in Adding => me.subject \in DOMAIN subjects
  /\ me.pc = "insert" => row' = row /\ Cardinality(Active(me.user)) < SubjectLimit
  /\ me.pc = "create" => subjects' = subjects /\ Named(me.name) = {}

\* Ending, and going where nothing is gone by.
LEMMA Ends ==
  ASSUME TypeOK, NEW a \in Actors, End(a)
  PROVE  Goes(a)
<1>1. Moves(a, Idle) /\ Idle.pc = "idle"
  BY EndMoves, IdleState DEF TypeOK
<1>2. actor'[a] = Idle
  BY <1>1 DEF Moves
<1>3. QED
  BY <1>1, <1>2 DEF Goes, Adding

\* An actor that goes on goes by what it went by.
LEMMA GoesOn ==
  ASSUME TypeOK, NEW a \in Actors, Sound(a),
         NEW pc \in PCs \ {"create", "insert"}, Goto(a, pc),
         pc \in Adding => actor[a].pc \in Adding
  PROVE  Goes(a) /\ actor'[a].pc = pc /\ actor'[a].user = actor[a].user
<1>1. actor \in [Actors -> ActorState] /\ pc \in PCs
  BY DEF TypeOK
<1>2. PICK new \in ActorState :
        /\ Moves(a, new) /\ new.pc = pc /\ new.user = actor[a].user
        /\ new.name = actor[a].name /\ new.subject = actor[a].subject
  BY <1>1, GotoMoves
<1>3. actor'[a] = new
  BY <1>2 DEF Moves
<1>4. QED
  BY <1>2, <1>3 DEF Goes, Sound

\* An actor that is given a new state goes by what is in it.
LEMMA Puts ==
  ASSUME TypeOK, NEW a \in Actors, NEW new \in ActorState,
         actor' = [actor EXCEPT ![a] = new], new.pc \notin {"create", "insert"},
         new.pc \in Adding => new.subject \in DOMAIN subjects
  PROVE  Goes(a) /\ actor'[a] = new
<1>1. Moves(a, new)
  BY PutMoves DEF TypeOK
<1>2. actor'[a] = new
  BY <1>1 DEF Moves
<1>3. QED
  BY <1>1, <1>2 DEF Goes

\* An actor that takes a subject takes one of the catalogue.
LEMMA Takes ==
  ASSUME TypeOK, NEW a \in Actors, NEW s \in DOMAIN subjects, Take(a, s)
  PROVE  Goes(a)
<1>1. s \in SubjectIds /\ actor \in [Actors -> ActorState]
  BY CatalogueIds DEF TypeOK
<1>2. Found(a, s) \in ActorState /\ Found(a, s).pc = "find row" /\ Found(a, s).subject = s
  BY <1>1, FoundState
<1>3. actor' = [actor EXCEPT ![a] = Found(a, s)]
  BY DEF Take
<1>4. PICK new \in ActorState : new = Found(a, s)
  BY <1>2
<1>5. QED
  BY <1>2, <1>3, <1>4, Puts

\* Every other step of a request or a run.
LEMMA ActorGoes ==
  ASSUME EnrolmentInv, NEW a \in Actors, Acts(a), ~ InsertRow(a), ~ InsertSubject(a)
  PROVE  Goes(a)
<1> DEFINE me == actor[a]
<1>1. /\ TypeOK /\ Sound(a) /\ CatalogueOK /\ actor \in [Actors -> ActorState]
      /\ me \in ActorState /\ DOMAIN subjects \subseteq SubjectIds
      /\ DOMAIN subjects \subseteq Nat /\ Idle \in ActorState
  BY CatalogueIds, IdleState DEF EnrolmentInv, TypeOK
<1>2. ASSUME NEW n \in Names, Named(n) # {} PROVE Min(Named(n)) \in DOMAIN subjects
  BY <1>1, <1>2, MinOf DEF Named
<1>3. CASE \E u \in Users, s \in SubjectIds : AddSubject(a, u, s)
  <2>1. PICK u \in Users, s \in SubjectIds : AddSubject(a, u, s)
    BY <1>3
  <2> DEFINE new == [Idle EXCEPT !.pc = "find row", !.user = u, !.subject = s]
  <2>2. new \in ActorState /\ new.pc = "find row" /\ new.subject = s
    BY <1>1 DEF ActorState, PCs
  <2>3. s \in DOMAIN subjects /\ actor' = [actor EXCEPT ![a] = new]
    BY <2>1 DEF AddSubject
  <2> HIDE DEF new
  <2>4. QED
    BY <1>1, <2>2, <2>3, Puts
<1>4. CASE \E u \in Users, n \in Names : CreateSubject(a, u, n)
  <2>1. PICK u \in Users, n \in Names : CreateSubject(a, u, n)
    BY <1>4
  <2> DEFINE new == [Idle EXCEPT !.pc = "look up", !.user = u, !.name = n]
  <2>2. new \in ActorState /\ new.pc = "look up"
    BY <1>1 DEF ActorState, PCs
  <2>3. actor' = [actor EXCEPT ![a] = new]
    BY <2>1 DEF CreateSubject
  <2> HIDE DEF new
  <2>4. QED
    BY <1>1, <2>2, <2>3, Puts DEF Adding
<1>5. CASE LookUp(a)
  <2>1. me.name \in Names
    BY <1>1 DEF ActorState
  <2>2. CASE Named(me.name) # {}
    <3>1. Take(a, Min(Named(me.name)))
      BY <1>5, <2>2 DEF LookUp, FindSubject
    <3>2. QED
      BY <1>1, <1>2, <2>1, <2>2, <3>1, Takes
  <2>3. CASE Named(me.name) = {} /\ me.pc = "look up"
    <3>1. Goto(a, "ask")
      BY <1>5, <2>3 DEF LookUp, FindSubject
    <3>2. QED
      BY <1>1, <3>1, GoesOn DEF PCs, Adding
  <2>4. CASE Named(me.name) = {} /\ me.pc # "look up"
    <3>1. Goto(a, "create") /\ subjects' = subjects /\ "create" \in PCs
      BY <1>5, <2>4 DEF LookUp, FindSubject, PCs
    <3>2. PICK new \in ActorState :
            Moves(a, new) /\ new.pc = "create" /\ new.name = actor[a].name
      BY <1>1, <3>1, GotoMoves
    <3>3. actor'[a] = new
      BY <3>2 DEF Moves
    <3>4. QED
      BY <2>4, <3>1, <3>2, <3>3 DEF Goes, Adding
  <2>5. QED
    BY <2>2, <2>3, <2>4
<1>6. CASE MatchSimilar(a)
  BY <1>1, <1>6, Takes DEF MatchSimilar
<1>7. CASE Standardize(a)
  <2>1. PICK n \in Names :
          actor' = [actor EXCEPT ![a].pc = "look up standardized", ![a].name = n]
    BY <1>7 DEF Standardize
  <2> DEFINE new == [actor[a] EXCEPT !.pc = "look up standardized", !.name = n]
  <2>2. new \in ActorState /\ new.pc = "look up standardized"
    BY <1>1 DEF ActorState, PCs
  <2>3. actor' = [actor EXCEPT ![a] = new]
    BY <1>1, <2>1
  <2> HIDE DEF new
  <2>4. QED
    BY <1>1, <2>2, <2>3, Puts DEF Adding
<1>8. CASE InsertSubjectRefused(a)
  <2>1. me.name \in Names
    BY <1>1 DEF ActorState
  <2>2. CASE Cardinality(Named(me.name)) = 1
    <3>1. Named(me.name) # {}
      BY <2>2, FS_EmptySet
    <3>2. Take(a, Min(Named(me.name)))
      BY <1>8, <2>2 DEF InsertSubjectRefused
    <3>3. QED
      BY <1>1, <1>2, <2>1, <3>1, <3>2, Takes
  <2>3. CASE Cardinality(Named(me.name)) # 1
    BY <1>1, <1>8, <2>3, Ends DEF InsertSubjectRefused
  <2>4. QED
    BY <2>2, <2>3
<1>9. CASE FindRow(a)
  <2>1. Goto(a, "count") \/ Goto(a, "clear again") \/ End(a)
    BY <1>9 DEF FindRow
  <2>2. me.pc \in Adding
    BY <1>9 DEF FindRow, Adding
  <2>3. QED
    BY <1>1, <2>1, <2>2, GoesOn, Ends DEF PCs
<1>10. CASE CountSlots(a)
  <2>1. CASE FreeSlots(me.user) > 0
    <3>1. Goto(a, "insert") /\ row' = row /\ "insert" \in PCs /\ me.pc \in Adding
      BY <1>10, <2>1 DEF CountSlots, PCs, Adding
    <3>2. Cardinality(Active(me.user)) < SubjectLimit
      BY <2>1 DEF FreeSlots, SlotsBelow
    <3>3. PICK new \in ActorState :
            /\ Moves(a, new) /\ new.pc = "insert" /\ new.user = actor[a].user
            /\ new.subject = actor[a].subject
      BY <1>1, <3>1, GotoMoves
    <3>4. actor'[a] = new
      BY <3>3 DEF Moves
    <3>5. QED
      BY <1>1, <3>1, <3>2, <3>3, <3>4 DEF Goes, Sound
  <2>2. CASE ~ (FreeSlots(me.user) > 0)
    <3>1. Goto(a, "next user") \/ End(a)
      BY <1>10, <2>2 DEF CountSlots, Continue
    <3>2. QED
      BY <1>1, <3>1, GoesOn, Ends DEF PCs, Adding
  <2>3. QED
    BY <2>1, <2>2
<1>11. CASE RequestRoadmap(a)
  <2> DEFINE new == [actor[a] EXCEPT !.pc = "clear", !.subject = NoSubject]
  <2>1. new \in ActorState /\ new.pc = "clear"
    BY <1>1 DEF ActorState, PCs
  <2>2. actor' = [actor EXCEPT ![a] = new]
    BY <1>1, <1>11 DEF RequestRoadmap
  <2> HIDE DEF new
  <2>3. QED
    BY <1>1, <2>1, <2>2, Puts DEF Adding
<1>12. CASE ClearFlags(a) \/ ClearAgain(a)
  <2>1. Goto(a, "clear again") \/ Goto(a, "next user") \/ End(a)
    BY <1>12 DEF ClearFlags, ClearAgain
  <2>2. QED
    BY <1>1, <2>1, GoesOn, Ends DEF PCs, Adding
<1>13. CASE StartRun(a)
  <2> DEFINE new == [Idle EXCEPT !.pc = "next user", !.left = {u \in Users : Choosable(u)}]
  <2>1. new \in ActorState /\ new.pc = "next user"
    BY <1>1 DEF ActorState, PCs
  <2>2. actor' = [actor EXCEPT ![a] = new]
    BY <1>13 DEF StartRun
  <2> HIDE DEF new
  <2>3. QED
    BY <1>1, <2>1, <2>2, Puts DEF Adding
<1>14. CASE \E u \in Users : ChooseFor(a, u)
  <2>1. PICK u \in Users : ChooseFor(a, u)
    BY <1>14
  <2>2. CASE TopSuggestions(u) = {}
    <3> DEFINE new == [actor[a] EXCEPT !.left = @ \ {u}]
    <3>1. new \in ActorState /\ new.pc = "next user"
      BY <1>1, <2>1 DEF ActorState, ChooseFor
    <3>2. actor' = [actor EXCEPT ![a] = new]
      BY <1>1, <2>1, <2>2 DEF ChooseFor
    <3> HIDE DEF new
    <3>3. QED
      BY <1>1, <3>1, <3>2, Puts DEF Adding
  <2>3. CASE TopSuggestions(u) # {}
    <3>1. PICK s \in TopSuggestions(u) :
            actor' = [actor EXCEPT ![a] = [@ EXCEPT !.pc = "find row", !.user = u,
                                            !.subject = s, !.left = actor[a].left \ {u}]]
      BY <2>1, <2>3 DEF ChooseFor
    <3>2. s \in DOMAIN subjects
      BY <1>1, <3>1 DEF TopSuggestions, Popular, CatalogueOK
    <3> DEFINE new == [actor[a] EXCEPT !.pc = "find row", !.user = u, !.subject = s,
                                       !.left = actor[a].left \ {u}]
    <3>3. new \in ActorState /\ new.pc = "find row" /\ new.subject = s
      BY <1>1, <3>2 DEF ActorState, PCs
    <3>4. actor' = [actor EXCEPT ![a] = new]
      BY <1>1, <3>1
    <3> HIDE DEF new
    <3>5. QED
      BY <1>1, <3>2, <3>3, <3>4, Puts
  <2>4. QED
    BY <2>2, <2>3
<1>15. CASE NoSubjectFound(a) \/ InsertRowRefused(a) \/ EndRun(a) \/ Die(a)
  BY <1>1, <1>15, Ends DEF NoSubjectFound, InsertRowRefused, EndRun, Die
<1>16. QED
  BY <1>3, <1>4, <1>5, <1>6, <1>7, <1>8, <1>9, <1>10, <1>11, <1>12, <1>13, <1>14, <1>15
     DEF Acts, RequestStep, RunStep, AddStep

-----------------------------------------------------------------------------
(* What actors go by stays so *)

\* Only inserting a subject adds one.
LEMMA DomainStays ==
  ASSUME TypeOK, [Next]_vars, \A a \in Actors : ~ InsertSubject(a)
  PROVE  DOMAIN subjects' = DOMAIN subjects
<1>1. ASSUME NEW a \in Actors, RequestRoadmap(a) PROVE DOMAIN subjects' = DOMAIN subjects
  BY <1>1 DEF RequestRoadmap
<1>2. ASSUME NEW s \in SubjectIds, RoadmapEnds(s) PROVE DOMAIN subjects' = DOMAIN subjects
  BY <1>2 DEF RoadmapEnds
<1>3. QED
  BY <1>1, <1>2, CatalogueStays

\* The steps of actors, and those that leave them all alone.
LEMMA ActorsStay ==
  ASSUME TypeOK, [Next]_vars, \A a \in Actors : ~ Acts(a)
  PROVE  actor' = actor /\ lost' = lost
<1>1. crew \subseteq Actors
  BY EnrolmentParametersOK DEF TypeOK
<1>2. ASSUME NEW u \in Users, SignIn(u) \/ DayPasses(u)
                \/ \E s \in SubjectIds : Leave(u, s) \/ Complete(u, s) \/ MarkInterest(u, s)
      PROVE  actor' = actor /\ lost' = lost
  BY <1>2 DEF SignIn, DayPasses, Leave, Complete, MarkInterest, catalogueVars
<1>3. CASE (\E s \in SubjectIds : RoadmapEnds(s)) \/ UNCHANGED vars
  BY <1>3 DEF RoadmapEnds, vars, catalogueVars
<1>4. QED
  BY <1>1, <1>2, <1>3 DEF Next, Acts, Actors

\* A step of an actor moves it.
LEMMA ActorMoves ==
  ASSUME EnrolmentInv, NEW a \in Actors, Acts(a)
  PROVE  Moves(a, actor'[a])
BY InsertRowStep, InsertSubjectStep, ActorGoes DEF EnrolmentInv, Goes

\* An actor that stands by.
StandsBy(b) ==
  /\ actor'[b].pc = actor[b].pc /\ actor'[b].user = actor[b].user
  /\ actor'[b].name = actor[b].name /\ actor'[b].subject = actor[b].subject
  /\ actor[b].overtaken => actor'[b].overtaken

\* An actor stands by while it does not act.
LEMMA Stands ==
  ASSUME EnrolmentInv, [Next]_vars, NEW b \in Actors, ~ Acts(b)
  PROVE  StandsBy(b)
<1>1. TypeOK /\ actor[b].overtaken \in BOOLEAN
  BY DEF EnrolmentInv, TypeOK, ActorState
<1>2. ASSUME NEW a \in Actors, Acts(a) PROVE StandsBy(b)
  <2>1. b \in Actors \ {a} /\ Moves(a, actor'[a])
    BY <1>2, ActorMoves
  <2>2. QED
    BY <2>1 DEF Moves, StandsBy
<1>3. CASE \A a \in Actors : ~ Acts(a)
  BY <1>1, <1>3, ActorsStay DEF StandsBy
<1>4. QED
  BY <1>2, <1>3

\* What an actor that stands by goes by stays so, or it is overtaken: the others
\* can take a slot or a name under its eyes, but not give one back to it.
LEMMA SoundStays ==
  ASSUME EnrolmentInv, [Next]_vars, CatalogueGrows, NEW b \in Actors, ~ Acts(b)
  PROVE  Sound(b)'
<1>1. /\ TypeOK /\ Sound(b) /\ StandsBy(b)
      /\ actor[b].user \in Users /\ actor[b].name \in Names
  BY Stands DEF EnrolmentInv, TypeOK, ActorState
<1>2. DOMAIN subjects \subseteq DOMAIN subjects'
  BY DEF CatalogueGrows
<1>3. ASSUME actor[b].pc = "insert", ~ actor'[b].overtaken, NEW u, u = actor[b].user
      PROVE  Cardinality(Active(u)') < SubjectLimit
  <2>1. u \in Users
    BY <1>1, <1>3
  <2>2. Active(u)' \subseteq Active(u)
    <3>1. ASSUME NEW a \in Actors, InsertRow(a) PROVE Active(u)' \subseteq Active(u)
      <4>1. a # b
        <5>1. ASSUME a = b PROVE FALSE
          <6>1. actor'[b].pc = "request roadmap"
            BY <1>1, <3>1, <5>1, InsertRowStep
          <6>2. QED
            BY <1>1, <1>3, <6>1 DEF StandsBy
        <5>2. QED
          BY <5>1
      <4>2. actor[a].user # u
        BY <1>1, <1>3, <3>1, <4>1, InsertRowStep
      <4>3. actor[a].subject \in SubjectIds /\ actor[a].pc = "insert"
        <5>1. actor[a].subject \in DOMAIN subjects /\ actor[a].pc = "insert"
          BY <3>1 DEF EnrolmentInv, Sound, InsertRow, Adding
        <5>2. QED
          BY <1>1, <5>1, CatalogueIds
      <4>4. PICK v, s : v = actor[a].user /\ s = actor[a].subject
        OBVIOUS
      <4>5. \A w \in Users, t \in SubjectIds : w # v \/ t # s => row'[w][t] = row[w][t]
        BY <1>1, <3>1, <4>3, <4>4, RowInserted
      <4>6. QED
        BY <2>1, <4>2, <4>4, <4>5 DEF Active
    <3>2. CASE \A a \in Actors : ~ InsertRow(a)
      BY <1>1, <2>1, <3>2, RowsShrink DEF RowsOnlyShrink
    <3>3. QED
      BY <3>1, <3>2
  <2>3. IsFiniteSet(Active(u))
    <3>1. IsFiniteSet(SubjectIds) /\ Active(u) \subseteq SubjectIds
      BY FS_Interval, EnrolmentParametersOK DEF SubjectIds, Active
    <3>2. QED
      BY <3>1, FS_Subset
  <2>4. Cardinality(Active(u)') <= Cardinality(Active(u))
        /\ IsFiniteSet(Active(u)')
    BY <2>2, <2>3, FS_Subset
  <2>5. Cardinality(Active(u)) < SubjectLimit
    <3>1. ~ actor[b].overtaken
      BY <1>1, <1>3 DEF StandsBy
    <3>2. QED
      BY <1>1, <1>3, <3>1 DEF Sound
  <2>6. Cardinality(Active(u)') \in Nat /\ Cardinality(Active(u)) \in Nat
    BY <2>3, <2>4, FS_CardinalityType
  <2>7. QED
    BY <2>4, <2>5, <2>6, EnrolmentParametersOK
<1>4. ASSUME actor[b].pc = "create", ~ actor'[b].overtaken, NEW n, n = actor[b].name
      PROVE  Named(n)' = {}
  <2>1. Named(n) = {}
    <3>1. ~ actor[b].overtaken
      BY <1>1, <1>4 DEF StandsBy
    <3>2. QED
      BY <1>1, <1>4, <3>1 DEF Sound
  <2>2. \A s \in DOMAIN subjects : subjects'[s].name.word # n.word
    BY <2>1 DEF Named, CatalogueGrows
  <2>3. ASSUME NEW s \in DOMAIN subjects' \ DOMAIN subjects
        PROVE  subjects'[s].name.word # n.word
    <3>1. PICK a \in Actors : InsertSubject(a)
      BY <1>1, <2>3, DomainStays
    <3>2. a # b
      <4>1. ASSUME a = b PROVE FALSE
        <5>1. actor'[b].pc = "find row"
          BY <1>1, <3>1, <4>1, InsertSubjectStep
        <5>2. QED
          BY <1>1, <1>4, <5>1 DEF StandsBy
      <4>2. QED
        BY <4>1
    <3>3. /\ actor[a].name.word # n.word
          /\ subjects' = Append(subjects, NewSubject(actor[a].name))
      BY <1>1, <1>4, <3>1, <3>2, InsertSubjectStep
    <3>4. /\ subjects \in Seq(Subjects) /\ Len(subjects) \in Nat
          /\ DOMAIN subjects = 1 .. Len(subjects)
      BY <1>1, CatalogueIds DEF TypeOK
    <3>5. NewSubject(actor[a].name) \in Subjects
          /\ NewSubject(actor[a].name).name = actor[a].name
      BY <1>1 DEF TypeOK, ActorState, NewSubject, Subjects, RoadmapStatus
    <3>6. /\ subjects' \in Seq(Subjects) /\ Len(subjects') = Len(subjects) + 1
          /\ subjects'[Len(subjects) + 1] = NewSubject(actor[a].name)
      BY <3>3, <3>4, <3>5, AppendProperties
    <3>7. s = Len(subjects) + 1
      <4>1. DOMAIN subjects' = 1 .. Len(subjects')
        BY <3>6
      <4>2. QED
        BY <2>3, <3>4, <3>6, <4>1
    <3>8. QED
      BY <3>3, <3>5, <3>6, <3>7
  <2>4. QED
    BY <2>2, <2>3 DEF Named
<1>5. PICK u, n : u = actor'[b].user /\ n = actor'[b].name
  OBVIOUS
<1>6. actor'[b].pc = "insert" /\ ~ actor'[b].overtaken => Cardinality(Active(u)') < SubjectLimit
  BY <1>1, <1>3, <1>5 DEF StandsBy
<1>7. actor'[b].pc = "create" /\ ~ actor'[b].overtaken => Named(n)' = {}
  BY <1>1, <1>4, <1>5 DEF StandsBy
<1>8. actor'[b].pc \in Adding => actor'[b].subject \in DOMAIN subjects'
  BY <1>1, <1>2 DEF Sound, StandsBy
<1>9. QED
  BY <1>5, <1>6, <1>7, <1>8 DEF Sound, Active, Named

\* What actors go by is so after every step.
LEMMA SoundStep ==
  ASSUME EnrolmentInv, [Next]_vars, CatalogueGrows, NEW b \in Actors
  PROVE  Sound(b)'
<1>1. /\ TypeOK /\ Sound(b) /\ DOMAIN subjects \subseteq DOMAIN subjects'
  BY DEF EnrolmentInv, CatalogueGrows
<1>2. CASE InsertRow(b)
  <2>1. actor'[b].pc = "request roadmap" /\ actor'[b].subject = actor[b].subject
    BY <1>1, <1>2, InsertRowStep
  <2>2. actor[b].subject \in DOMAIN subjects
    BY <1>1, <1>2 DEF InsertRow, Sound, Adding
  <2>3. QED
    BY <1>1, <2>1, <2>2 DEF Sound
<1>3. CASE InsertSubject(b)
  <2>1. actor'[b].pc = "find row" /\ actor'[b].subject \in DOMAIN subjects'
    BY <1>1, <1>3, InsertSubjectStep
  <2>2. QED
    BY <2>1 DEF Sound
<1>4. CASE Acts(b) /\ ~ InsertRow(b) /\ ~ InsertSubject(b)
  <2>1. Goes(b)
    BY <1>4, ActorGoes
  <2>2. actor'[b].pc \in Adding => actor'[b].subject \in DOMAIN subjects'
    BY <1>1, <2>1 DEF Goes
  <2>3. PICK u, n : u = actor'[b].user /\ n = actor'[b].name
    OBVIOUS
  <2>4. actor'[b].pc = "insert" => row' = row /\ Cardinality(Active(u)) < SubjectLimit
    BY <2>1, <2>3 DEF Goes
  <2>5. actor'[b].pc = "insert" => Cardinality(Active(u)') < SubjectLimit
    BY <2>4 DEF Active
  <2>6. actor'[b].pc = "create" => Named(n)' = {}
    BY <2>1, <2>3 DEF Goes, Named
  <2>7. QED
    BY <2>2, <2>3, <2>5, <2>6 DEF Sound, Active, Named
<1>5. QED
  BY <1>2, <1>3, <1>4, SoundStays

-----------------------------------------------------------------------------
(* Types, and what is in the catalogue *)

\* Only a death loses a run's or a request's work, and no step changes the crew.
LEMMA BooksStay ==
  ASSUME TypeOK, [Next]_vars, \A a \in Actors : ~ Die(a)
  PROVE  deaths' = deaths /\ lost' = lost /\ crew' = crew
<1>1. ASSUME NEW a \in Actors, RequestStep(a) \/ RunStep(a)
      PROVE  deaths' = deaths /\ lost' = lost /\ crew' = crew
  BY <1>1 DEF RequestStep, RunStep, AddStep, AddSubject, CreateSubject, LookUp,
     MatchSimilar, Standardize, NoSubjectFound, InsertSubject, InsertSubjectRefused,
     FindRow, CountSlots, InsertRow, InsertRowRefused, RequestRoadmap, ClearFlags,
     StartRun, ChooseFor, ClearAgain, EndRun, catalogueVars
<1>2. ASSUME NEW u \in Users, SignIn(u) \/ DayPasses(u)
                \/ \E s \in SubjectIds : Leave(u, s) \/ Complete(u, s) \/ MarkInterest(u, s)
      PROVE  deaths' = deaths /\ lost' = lost /\ crew' = crew
  BY <1>2 DEF SignIn, DayPasses, Leave, Complete, MarkInterest, catalogueVars
<1>3. CASE (\E s \in SubjectIds : RoadmapEnds(s)) \/ UNCHANGED vars
  BY <1>3 DEF RoadmapEnds, vars, catalogueVars
<1>4. crew \subseteq Actors
  BY EnrolmentParametersOK DEF TypeOK
<1>5. QED
  BY <1>1, <1>2, <1>3, <1>4 DEF Next, Actors

\* Deaths are counted up to the bound, and what was lost stays lost.
LEMMA BooksType ==
  ASSUME EnrolmentInv, [Next]_vars
  PROVE  /\ deaths' \in 0 .. MaxDeaths /\ lost' \subseteq SubjectIds /\ lost \subseteq lost'
         /\ \E s \in Scenarios : crew' = s.crew
<1>1. TypeOK
  BY DEF EnrolmentInv
<1>2. ASSUME NEW a \in Actors, Die(a)
      PROVE  /\ deaths' \in 0 .. MaxDeaths /\ lost' \subseteq SubjectIds /\ lost \subseteq lost'
             /\ crew' = crew
  <2>1. actor[a].pc = "request roadmap" => actor[a].subject \in SubjectIds
    BY <1>1, CatalogueIds DEF EnrolmentInv, Sound, Adding
  <2>2. lost' \subseteq SubjectIds /\ lost \subseteq lost' /\ crew' = crew
    BY <1>1, <1>2, <2>1 DEF Die, TypeOK
  <2>3. deaths' = deaths \/ (deaths < MaxDeaths /\ deaths' = deaths + 1)
    BY <1>2 DEF Die
  <2>4. QED
    BY <1>1, <2>2, <2>3, EnrolmentParametersOK DEF TypeOK
<1>3. CASE \A a \in Actors : ~ Die(a)
  BY <1>1, <1>3, BooksStay DEF TypeOK
<1>4. QED
  BY <1>1, <1>2, <1>3 DEF TypeOK

\* Stars are of subjects that exist.
LEMMA LearnersStep ==
  ASSUME EnrolmentInv, [Next]_vars
  PROVE  /\ star' \in [Users -> SUBSET SubjectIds]
         /\ seen' \in [Users -> {"new", "today", "away"}]
         /\ \A u \in Users : star'[u] \subseteq DOMAIN subjects
<1>1. /\ TypeOK /\ CatalogueOK /\ crew \subseteq Actors
      /\ star \in [Users -> SUBSET SubjectIds]
      /\ seen \in [Users -> {"new", "today", "away"}]
      /\ \A u \in Users : star[u] \subseteq DOMAIN subjects
  BY EnrolmentParametersOK DEF EnrolmentInv, TypeOK, CatalogueOK
<1>2. ASSUME NEW a \in Actors, Acts(a) PROVE star' = star /\ seen' = seen
  BY <1>2 DEF Acts, Die, RequestStep, RunStep, AddStep, AddSubject, CreateSubject,
     LookUp, MatchSimilar, Standardize, NoSubjectFound, InsertSubject,
     InsertSubjectRefused, FindRow, CountSlots, InsertRow, InsertRowRefused,
     RequestRoadmap, ClearFlags, StartRun, ChooseFor, ClearAgain, EndRun, catalogueVars
<1>3. ASSUME NEW u \in Users, SignIn(u) \/ DayPasses(u)
      PROVE  /\ star' = star /\ seen' \in [Users -> {"new", "today", "away"}]
  BY <1>1, <1>3 DEF SignIn, DayPasses
<1>4. ASSUME NEW u \in Users, NEW s \in SubjectIds, MarkInterest(u, s)
      PROVE  /\ seen' = seen /\ star' \in [Users -> SUBSET SubjectIds]
             /\ \A v \in Users : star'[v] \subseteq star[v] \cup DOMAIN subjects
  BY <1>1, <1>4 DEF MarkInterest
<1>5. ASSUME NEW u \in Users, NEW s \in SubjectIds, Leave(u, s) \/ Complete(u, s)
      PROVE  star' = star /\ seen' = seen
  BY <1>5 DEF Leave, Complete, catalogueVars
<1>6. CASE (\E s \in SubjectIds : RoadmapEnds(s)) \/ UNCHANGED vars
  BY <1>1, <1>6 DEF RoadmapEnds, vars, catalogueVars
<1>7. QED
  BY <1>1, <1>2, <1>3, <1>4, <1>5, <1>6 DEF Next, Acts, Actors

\* Who is asked for a next subject.
LEMMA UnansweredType ==
  ASSUME TypeOK, [Next]_vars
  PROVE  unanswered' \in [Users -> SUBSET SubjectIds]
<1>1. unanswered \in [Users -> SUBSET SubjectIds] /\ crew \subseteq Actors
  BY EnrolmentParametersOK DEF TypeOK
<1>2. ASSUME NEW a \in Actors, Acts(a) PROVE unanswered' \in [Users -> SUBSET SubjectIds]
  <2>1. CASE InsertRow(a)
    BY <1>1, <2>1 DEF InsertRow
  <2>2. CASE Die(a)
    BY <1>1, <2>2 DEF Die
  <2>3. CASE ~ InsertRow(a) /\ ~ Die(a)
    <3>1. unanswered' = unanswered
      BY <1>2, <2>3 DEF Acts, RequestStep, RunStep, AddStep, AddSubject, CreateSubject,
         LookUp, MatchSimilar, Standardize, NoSubjectFound, InsertSubject,
         InsertSubjectRefused, FindRow, CountSlots, InsertRowRefused, RequestRoadmap,
         ClearFlags, StartRun, ChooseFor, ClearAgain, EndRun
    <3>2. QED
      BY <1>1, <3>1
  <2>4. QED
    BY <2>1, <2>2, <2>3
<1>3. ASSUME NEW u \in Users, NEW s \in SubjectIds, Leave(u, s) \/ Complete(u, s)
      PROVE  unanswered' \in [Users -> SUBSET SubjectIds]
  BY <1>1, <1>3 DEF Leave, Complete
<1>4. ASSUME NEW u \in Users, SignIn(u) \/ DayPasses(u)
                \/ \E s \in SubjectIds : MarkInterest(u, s)
      PROVE  unanswered' = unanswered
  BY <1>4 DEF SignIn, DayPasses, MarkInterest
<1>5. CASE (\E s \in SubjectIds : RoadmapEnds(s)) \/ UNCHANGED vars
  BY <1>1, <1>5 DEF RoadmapEnds, vars
<1>6. QED
  BY <1>1, <1>2, <1>3, <1>4, <1>5 DEF Next, Acts, Actors

\* A new row is of a subject in the catalogue, and rows keep their types.
LEMMA RowStep ==
  ASSUME EnrolmentInv, [Next]_vars
  PROVE  /\ row' \in [Users -> [SubjectIds -> RowValues]]
         /\ \A u \in Users : Enrolled(u)' \subseteq DOMAIN subjects
<1>1. TypeOK /\ \A u \in Users : Enrolled(u) \subseteq DOMAIN subjects
  BY DEF EnrolmentInv, CatalogueOK
<1>2. ASSUME NEW a \in Actors, InsertRow(a)
      PROVE  /\ row' \in [Users -> [SubjectIds -> RowValues]]
             /\ \A u \in Users : Enrolled(u)' \subseteq DOMAIN subjects
  <2>1. PICK v, s : v = actor[a].user /\ s = actor[a].subject
    OBVIOUS
  <2>2. s \in DOMAIN subjects /\ s \in SubjectIds
    <3>1. actor[a].subject \in DOMAIN subjects
      BY <1>2 DEF EnrolmentInv, Sound, InsertRow, Adding
    <3>2. QED
      BY <1>1, <2>1, <3>1, CatalogueIds
  <2>3. /\ row' \in [Users -> [SubjectIds -> RowValues]]
        /\ \A w \in Users, t \in SubjectIds : w # v \/ t # s => row'[w][t] = row[w][t]
    BY <1>1, <1>2, <2>1, <2>2, RowInserted
  <2>4. QED
    BY <1>1, <2>2, <2>3 DEF Enrolled
<1>3. CASE \A a \in Actors : ~ InsertRow(a)
  BY <1>1, <1>3, RowsShrink DEF RowsOnlyShrink
<1>4. QED
  BY <1>2, <1>3

\* Every step keeps the types.
LEMMA TypeStep ==
  ASSUME EnrolmentInv, [Next]_vars
  PROVE  TypeOK' /\ CatalogueOK'
<1>1. TypeOK /\ CatalogueGrows
  BY CatalogueStep DEF EnrolmentInv
<1>2. actor' \in [Actors -> ActorState]
  <2>1. ASSUME NEW a \in Actors, Acts(a) PROVE actor' \in [Actors -> ActorState]
    BY <2>1, ActorMoves DEF Moves
  <2>2. CASE \A a \in Actors : ~ Acts(a)
    BY <1>1, <2>2, ActorsStay DEF TypeOK
  <2>3. QED
    BY <2>1, <2>2
<1>3. TypeOK'
  BY <1>1, <1>2, BooksType, LearnersStep, UnansweredType, RowStep DEF TypeOK, CatalogueGrows
<1>4. CatalogueOK'
  BY <1>1, RowStep, LearnersStep DEF CatalogueOK, CatalogueGrows
<1>5. QED
  BY <1>3, <1>4

-----------------------------------------------------------------------------
(* Roadmaps are asked for, and questions answered *)

Answering == {"request roadmap", "clear"}

\* From enrolling to the end of add_subject_to_user.
LEMMA AnsweringGoes ==
  ASSUME EnrolmentInv, NEW b \in Actors, Acts(b), actor[b].pc \in Answering
  PROVE  \/ RequestRoadmap(b) /\ actor[b].pc = "request roadmap"
         \/ ClearFlags(b) /\ actor[b].pc = "clear"
         \/ Die(b)
BY DEF Answering, Acts, RequestStep, RunStep, AddStep, AddSubject, CreateSubject, LookUp,
   MatchSimilar, Standardize, NoSubjectFound, InsertSubject, InsertSubjectRefused, FindRow,
   CountSlots, InsertRow, InsertRowRefused, RequestRoadmap, ClearFlags, StartRun, ChooseFor,
   ClearAgain, EndRun

\* A roadmap that was to be asked for is claimed, or lost with its actor.
LEMMA RoadmapAsked ==
  ASSUME EnrolmentInv, CatalogueGrows, NEW b \in Actors, Acts(b),
         actor[b].pc = "request roadmap", NEW s, s = actor[b].subject,
         subjects'[s].roadmap = "NOT_GENERATED"
  PROVE  s \in lost'
<1>1. /\ TypeOK /\ CatalogueOK /\ s \in DOMAIN subjects
      /\ subjects[s].roadmap = "NOT_GENERATED"
  BY DEF EnrolmentInv, Sound, Adding, CatalogueGrows
<1>2. CASE RequestRoadmap(b)
  <2>1. Claimable(s)
    BY <1>1 DEF Claimable, CatalogueOK
  <2>2. PICK r \in {"GENERATING", "FAILED"} : subjects' = [subjects EXCEPT ![s].roadmap = r]
    BY <1>2, <2>1 DEF RequestRoadmap
  <2>3. subjects[s] \in Subjects
    BY <1>1, SubjectType
  <2>4. subjects'[s] = [subjects[s] EXCEPT !.roadmap = r]
    BY <1>1, <2>2
  <2>5. subjects'[s].roadmap = r
    BY <2>3, <2>4 DEF Subjects
  <2>6. QED
    BY <2>5
<1>3. CASE Die(b)
  BY <1>3 DEF Die
<1>4. QED
  BY <1>2, <1>3, AnsweringGoes DEF Answering

\* A learner of a subject without topics keeps waiting for somebody.
LEMMA RoadmapStep ==
  ASSUME EnrolmentInv, [Next]_vars
  PROVE  RoadmapRequested'
<1>1. TypeOK /\ CatalogueGrows /\ RoadmapRequested
  BY CatalogueStep DEF EnrolmentInv
<1>2. ASSUME NEW u \in Users, NEW s \in Enrolled(u)',
             subjects'[s].roadmap = "NOT_GENERATED", s \notin lost'
      PROVE  \E b \in Actors : actor'[b].pc = "request roadmap" /\ actor'[b].subject = s
  <2>1. s \in DOMAIN subjects /\ subjects[s].roadmap = "NOT_GENERATED"
    BY <1>1, <1>2, RowStep DEF CatalogueGrows
  <2>2. CASE s \in Enrolled(u)
    <3>1. s \notin lost
      BY <1>2, BooksType
    <3>2. PICK b \in Actors : actor[b].pc = "request roadmap" /\ actor[b].subject = s
      BY <1>1, <2>1, <2>2, <3>1 DEF RoadmapRequested
    <3>3. ~ Acts(b)
      BY <1>1, <1>2, <3>2, RoadmapAsked
    <3>4. StandsBy(b)
      BY <3>3, Stands
    <3>5. QED
      BY <3>2, <3>4 DEF StandsBy
  <2>3. CASE s \notin Enrolled(u)
    <3>1. PICK a \in Actors : InsertRow(a)
      BY <1>1, <1>2, <2>3, RowsShrink DEF RowsOnlyShrink
    <3>2. PICK v, t : v = actor[a].user /\ t = actor[a].subject
      OBVIOUS
    <3>3. t \in SubjectIds
      <4>1. actor[a].subject \in DOMAIN subjects
        BY <3>1 DEF EnrolmentInv, Sound, InsertRow, Adding
      <4>2. QED
        BY <1>1, <3>2, <4>1, CatalogueIds
    <3>4. \A w \in Users, i \in SubjectIds : w # v \/ i # t => row'[w][i] = row[w][i]
      BY <1>1, <3>1, <3>2, <3>3, RowInserted
    <3>5. s = t
      BY <1>2, <2>3, <3>4 DEF Enrolled
    <3>6. actor'[a].pc = "request roadmap" /\ actor'[a].subject = t
      BY <1>1, <3>1, <3>2, InsertRowStep
    <3>7. QED
      BY <3>5, <3>6
  <2>4. QED
    BY <2>2, <2>3
<1>3. QED
  BY <1>2 DEF RoadmapRequested

\* Nobody is asked who was not asked before, and an actor that was to answer
\* does, or dies and leaves the question.
LEMMA FlagsKept ==
  ASSUME EnrolmentInv, NEW a \in Actors, Acts(a), ~ InsertRow(a),
         NEW u \in Users, NEW s \in NeedsSelection(u)'
  PROVE  /\ s \in NeedsSelection(u)
         /\ unanswered[u] \subseteq unanswered'[u]
         /\ actor[a].pc \in Answering /\ actor[a].user = u =>
              \/ s \in unanswered'[u]
              \/ actor'[a].pc \in Answering /\ actor'[a].user = u
<1>1. /\ TypeOK /\ s \in SubjectIds /\ row'[u][s].needs
      /\ unanswered \in [Users -> SUBSET SubjectIds]
      /\ actor \in [Actors -> ActorState] /\ actor[a] \in ActorState
  BY DEF EnrolmentInv, TypeOK, NeedsSelection
<1>2. CASE ClearFlags(a) \/ ClearAgain(a)
  <2>1. row' = Unflagged(a) /\ unanswered' = unanswered
    BY <1>2 DEF ClearFlags, ClearAgain
  <2>2. row[u][s].needs /\ u # actor[a].user
    BY <1>1, <2>1, RowsUnflagged
  <2>3. QED
    BY <1>1, <2>1, <2>2 DEF NeedsSelection
<1>3. CASE ~ ClearFlags(a) /\ ~ ClearAgain(a)
  <2>1. row' = row
    BY <1>3 DEF Acts, RequestStep, RunStep, Die, AddStep, AddSubject,
       CreateSubject, LookUp, MatchSimilar, Standardize, NoSubjectFound, InsertSubject,
       InsertSubjectRefused, FindRow, CountSlots, InsertRowRefused, RequestRoadmap,
       StartRun, ChooseFor, EndRun
  <2>2. s \in NeedsSelection(u)
    BY <1>1, <2>1 DEF NeedsSelection
  <2>3. CASE Die(a)
    <3>1. unanswered' = IF actor[a].pc \in Answering
                        THEN [unanswered EXCEPT ![actor[a].user] = SubjectIds]
                        ELSE unanswered
      BY <2>3 DEF Die, Answering
    <3>2. QED
      BY <1>1, <2>2, <3>1
  <2>4. CASE ~ Die(a)
    <3>1. unanswered' = unanswered
      BY <1>3, <2>4 DEF Acts, RequestStep, RunStep, AddStep, AddSubject,
         CreateSubject, LookUp, MatchSimilar, Standardize, NoSubjectFound, InsertSubject,
         InsertSubjectRefused, FindRow, CountSlots, InsertRowRefused, RequestRoadmap,
         StartRun, ChooseFor, EndRun
    <3>2. ASSUME actor[a].pc \in Answering
          PROVE  actor'[a].pc \in Answering /\ actor'[a].user = actor[a].user
      <4>1. RequestRoadmap(a)
        BY <1>3, <2>4, <3>2, AnsweringGoes
      <4> DEFINE new == [actor[a] EXCEPT !.pc = "clear", !.subject = NoSubject]
      <4>2. new.pc = "clear" /\ new.user = actor[a].user
        BY <1>1 DEF ActorState
      <4>3. actor' = [actor EXCEPT ![a] = new]
        BY <1>1, <4>1 DEF RequestRoadmap
      <4> HIDE DEF new
      <4>4. actor'[a] = new
        BY <1>1, <4>3
      <4>5. QED
        BY <4>2, <4>4 DEF Answering
    <3>3. QED
      BY <2>2, <3>1, <3>2
  <2>5. QED
    BY <2>3, <2>4
<1>4. QED
  BY <1>2, <1>3

Answered(u, s) ==
  s \in unanswered[u] \/ \E b \in Actors : actor[b].user = u /\ actor[b].pc \in Answering

\* A question for the next subject stays with who has to answer it.
LEMMA FlagsStep ==
  ASSUME EnrolmentInv, [Next]_vars
  PROVE  FlagsAnswered'
<1>1. /\ TypeOK /\ unanswered \in [Users -> SUBSET SubjectIds] /\ crew \subseteq Actors
      /\ \A u \in Users : \A s \in NeedsSelection(u) : Answered(u, s)
  BY EnrolmentParametersOK DEF EnrolmentInv, FlagsAnswered, Answered, Answering, TypeOK
<1>2. ASSUME NEW u \in Users, NEW s \in NeedsSelection(u)'
      PROVE  Answered(u, s)'
  <2>1. ASSUME NEW a \in Actors, InsertRow(a) PROVE Answered(u, s)'
    <3>1. /\ Moves(a, actor'[a]) /\ actor'[a].pc = "request roadmap"
          /\ actor'[a].user = actor[a].user
      BY <1>1, <2>1, InsertRowStep
    <3>2. CASE u = actor[a].user
      BY <3>1, <3>2 DEF Answered, Answering
    <3>3. CASE u # actor[a].user
      <4>1. PICK v, t : v = actor[a].user /\ t = actor[a].subject
        OBVIOUS
      <4>2. t \in SubjectIds
        <5>1. actor[a].subject \in DOMAIN subjects
          BY <2>1 DEF EnrolmentInv, Sound, InsertRow, Adding
        <5>2. QED
          BY <1>1, <4>1, <5>1, CatalogueIds
      <4>3. \A w \in Users, i \in SubjectIds : w # v \/ i # t => row'[w][i] = row[w][i]
        BY <1>1, <2>1, <4>1, <4>2, RowInserted
      <4>4. s \in NeedsSelection(u)
        BY <1>2, <3>3, <4>1, <4>3 DEF NeedsSelection
      <4>5. unanswered'[u] = unanswered[u]
        BY <1>1, <2>1, <3>3 DEF InsertRow
      <4>6. \A b \in Actors : actor[b].user = u =>
              actor'[b].user = u /\ actor'[b].pc = actor[b].pc
        BY <3>1, <3>3 DEF Moves
      <4>7. QED
        BY <1>1, <4>4, <4>5, <4>6 DEF Answered
    <3>4. QED
      BY <3>2, <3>3
  <2>2. ASSUME NEW a \in Actors, Acts(a), ~ InsertRow(a) PROVE Answered(u, s)'
    <3>1. /\ s \in NeedsSelection(u) /\ unanswered[u] \subseteq unanswered'[u]
          /\ actor[a].pc \in Answering /\ actor[a].user = u =>
               \/ s \in unanswered'[u]
               \/ actor'[a].pc \in Answering /\ actor'[a].user = u
      BY <1>2, <2>2, FlagsKept
    <3>2. \A b \in Actors \ {a} : actor'[b].user = actor[b].user /\ actor'[b].pc = actor[b].pc
      BY <2>2, ActorMoves DEF Moves
    <3>3. QED
      BY <1>1, <3>1, <3>2 DEF Answered
  <2>3. ASSUME NEW v \in Users, NEW t \in SubjectIds, Leave(v, t) PROVE Answered(u, s)'
    <3>1. NoRow \in RowValues /\ row' = WithRow(v, t, NoRow) /\ actor' = actor
      BY <2>3 DEF Leave, RowValues, WithRow
    <3>2. /\ row'[v][t] = NoRow
          /\ \A w \in Users, i \in SubjectIds : w # v \/ i # t => row'[w][i] = row[w][i]
      BY <1>1, <3>1, RowWritten
    <3>3. s \in SubjectIds /\ row'[u][s].needs
      BY <1>2 DEF NeedsSelection
    <3>4. u # v \/ s # t
      BY <3>2, <3>3 DEF NoRow
    <3>5. s \in NeedsSelection(u)
      BY <3>2, <3>3, <3>4 DEF NeedsSelection
    <3>6. s \in unanswered[u] => s \in unanswered'[u]
      BY <1>1, <2>3, <3>4 DEF Leave
    <3>7. QED
      BY <1>1, <3>1, <3>5, <3>6 DEF Answered
  <2>4. ASSUME NEW v \in Users, NEW t \in SubjectIds, Complete(v, t) PROVE Answered(u, s)'
    <3> DEFINE done == [status |-> "COMPLETED", needs |-> TRUE]
    <3>1. done \in RowValues /\ row' = WithRow(v, t, done) /\ actor' = actor
      BY <2>4 DEF Complete, RowValues, WithRow
    <3>2. \A w \in Users, i \in SubjectIds : w # v \/ i # t => row'[w][i] = row[w][i]
      BY <1>1, <3>1, RowWritten
    <3>3. s \in SubjectIds /\ row'[u][s].needs
      BY <1>2 DEF NeedsSelection
    <3>4. unanswered' = [unanswered EXCEPT ![v] = @ \cup {t}]
      BY <2>4 DEF Complete
    <3>5. CASE u = v /\ s = t
      BY <1>1, <3>4, <3>5 DEF Answered
    <3>6. CASE u # v \/ s # t
      <4>1. s \in NeedsSelection(u)
        BY <3>2, <3>3, <3>6 DEF NeedsSelection
      <4>2. unanswered[u] \subseteq unanswered'[u]
        BY <1>1, <3>4
      <4>3. QED
        BY <1>1, <3>1, <4>1, <4>2 DEF Answered
    <3>7. QED
      BY <3>5, <3>6
  <2>5. ASSUME row' = row, actor' = actor, unanswered' = unanswered PROVE Answered(u, s)'
    BY <1>1, <1>2, <2>5 DEF Answered, NeedsSelection
  <2>6. ASSUME NEW v \in Users, SignIn(v) \/ DayPasses(v)
                \/ \E t \in SubjectIds : MarkInterest(v, t)
        PROVE  Answered(u, s)'
    BY <2>5, <2>6 DEF SignIn, DayPasses, MarkInterest
  <2>7. CASE (\E t \in SubjectIds : RoadmapEnds(t)) \/ UNCHANGED vars
    BY <2>5, <2>7 DEF RoadmapEnds, vars
  <2>8. QED
    BY <1>1, <2>1, <2>2, <2>3, <2>4, <2>6, <2>7 DEF Next, Acts, Actors
<1>3. QED
  BY <1>2 DEF FlagsAnswered, Answered, Answering

-----------------------------------------------------------------------------
(* Theorems *)

\* At first there are subjects, nobody learns them, and nobody is at work.
LEMMA InitInv ==
  ASSUME Init
  PROVE  EnrolmentInv
<1>1. PICK sc \in Scenarios :
        /\ subjects = [i \in DOMAIN sc.seed |-> NewSubject(sc.seed[i])]
        /\ crew = sc.crew
  BY DEF Init
<1>2. /\ sc.seed \in Seq(Names) /\ Len(sc.seed) <= MaxSubjects
      /\ DOMAIN sc.seed = 1 .. Len(sc.seed) /\ Len(sc.seed) \in Nat
  BY EnrolmentParametersOK
<1>3. \A i \in DOMAIN sc.seed : /\ NewSubject(sc.seed[i]) \in Subjects
                                /\ NewSubject(sc.seed[i]).topics = 0
  BY <1>2 DEF NewSubject, Subjects, RoadmapStatus
<1>4. subjects \in Seq(Subjects) /\ Len(subjects) <= MaxSubjects
  <2>1. subjects \in [1 .. Len(sc.seed) -> Subjects]
    BY <1>1, <1>2, <1>3
  <2>2. QED
    BY <1>2, <2>1
<1>5. \A s \in DOMAIN subjects : subjects[s].topics = 0
  BY <1>1, <1>3
<1>6. /\ NoRow \in RowValues /\ NoRow.status = "none" /\ ~ NoRow.needs
      /\ Idle \in ActorState /\ Idle.pc = "idle"
  BY IdleState DEF RowValues, NoRow
<1>7. row \in [Users -> [SubjectIds -> RowValues]]
  <2>1. [s \in SubjectIds |-> NoRow] \in [SubjectIds -> RowValues]
    BY <1>6
  <2>2. QED
    BY <2>1 DEF Init
<1>8. actor \in [Actors -> ActorState] /\ \A a \in Actors : actor[a].pc = "idle"
  BY <1>6 DEF Init
<1>9. \A u \in Users, s \in SubjectIds : row[u][s] = NoRow
  BY DEF Init
<1>10. TypeOK
  BY <1>1, <1>4, <1>7, <1>8, EnrolmentParametersOK DEF Init, TypeOK
<1>11. \A u \in Users : Enrolled(u) = {} /\ star[u] = {} /\ NeedsSelection(u) = {}
  BY <1>6, <1>9 DEF Enrolled, NeedsSelection, Init
<1>12. CatalogueOK /\ RoadmapRequested /\ FlagsAnswered
  BY <1>5, <1>11 DEF CatalogueOK, RoadmapRequested, FlagsAnswered
<1>13. \A a \in Actors : Sound(a)
  BY <1>8 DEF Sound, Adding
<1>14. QED
  BY <1>10, <1>12, <1>13 DEF EnrolmentInv

\* EnrolmentInv is inductive.
LEMMA NextInv ==
  ASSUME EnrolmentInv, [Next]_vars
  PROVE  EnrolmentInv'
BY TypeStep, CatalogueStep, SoundStep, RoadmapStep, FlagsStep DEF EnrolmentInv

\* Catalogue, rows, stars and the local state of every request and run keep
\* their types, and the catalogue its bound.
THEOREM EnrolmentTypeCorrect == Spec => []TypeOK
<1>1. EnrolmentInv => TypeOK
  BY DEF EnrolmentInv
<1>2. QED
  BY <1>1, InitInv, NextInv, PTL DEF Spec

\* add_subject_to_user has a free slot when it inserts the row, unless another
\* took one of the same learner's after it counted them: so the limit can be
\* exceeded by what overlaps only.
THEOREM LimitIsKept == Spec => []LimitHolds
<1>1. EnrolmentInv => LimitHolds
  BY DEF EnrolmentInv, Sound, LimitHolds
<1>2. QED
  BY <1>1, InitInv, NextInv, PTL DEF Spec

\* _get_or_create_subject does not insert a second subject for a name that
\* differs in case, unless another inserted the first after it looked.
THEOREM NamesAreShared == Spec => []NamesShared
<1>1. EnrolmentInv => NamesShared
  BY DEF EnrolmentInv, Sound, NamesShared, Actors
<1>2. QED
  BY <1>1, InitInv, NextInv, PTL DEF Spec

\* A learner of a subject without topics waits for a roadmap somebody asked for,
\* is about to ask for, or died before asking for.
THEOREM RoadmapsAreRequested == Spec => []RoadmapRequested
<1>1. EnrolmentInv => RoadmapRequested
  BY DEF EnrolmentInv
<1>2. QED
  BY <1>1, InitInv, NextInv, PTL DEF Spec

\* A completed subject asks for the next one until the learner takes it.
THEOREM FlagsAreAnswered == Spec => []FlagsAnswered
<1>1. EnrolmentInv => FlagsAnswered
  BY DEF EnrolmentInv
<1>2. QED
  BY <1>1, InitInv, NextInv, PTL DEF Spec
=============================================================================
