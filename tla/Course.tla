------------------------------- MODULE Course --------------------------------
(***************************************************************************)
(* The topics of one subject while they are edited: insertion, appending   *)
(* and update of topics (services.py, update_roadmap), the bonus credit of *)
(* learners who are past an inserted topic, and what learners are shown    *)
(* meanwhile (get_subject_detail, EnrolledSubjectsView).                   *)
(*                                                                         *)
(* An insertion is a sequence of statements without a transaction; each    *)
(* is an action here, so a crash, another edit or a learner comes between  *)
(* any two.  The unique constraint on (subject, order) is checked row by   *)
(* row while an UPDATE runs: an update whose new orders meet old orders of *)
(* rows it moves too may succeed or fail, depending on the order of rows.  *)
(***************************************************************************)
EXTENDS Integers, Sequences, FiniteSets, FiniteSetsExt

CONSTANTS
  Users,
  Editors,
  Levels,      \* the levels of the topics generated at first, by order
  TempShift,   \* TEMP_SHIFT, larger than any order otherwise in use
  MaxOrder,    \* the largest value of the order column
  Scenarios,   \* bound: sets of learners and editors that meet in a behaviour
  MaxTopics,   \* bound: topics there can be
  MaxInsert,   \* bound: topics in one insertion
  EditLevels   \* bound: the levels edits give to topics

ASSUME Bounds ==
  /\ MaxTopics \in Nat /\ MaxInsert \in Nat /\ EditLevels \subseteq 1 .. 3
  /\ Levels \in Seq(1 .. 3) /\ Len(Levels) <= MaxTopics

\* A topic that is shifted away is beyond every place an insertion fills.
ASSUME Shift ==
  /\ TempShift \in Nat /\ MaxOrder \in Nat
  /\ TempShift > Len(Levels) + MaxInsert /\ MaxOrder >= TempShift

TopicIds == 1 .. MaxTopics
Statuses == {"none", "NOT_STARTED", "PASSED", "ADVANCED_PASSED"}
PassedStatuses == {"PASSED", "ADVANCED_PASSED"}
Absent == 0

VARIABLES
  order,      \* order[t], Absent when there is no such topic
  level,      \* level[t]
  progress,   \* progress[u][t]: the status of the TopicProgress row, or "none"
  bonus,      \* bonus[u][t]: its is_bonus
  unlocked,   \* unlocked[u]: level_unlocked
  editor,     \* the local variables of each edit
  cast,       \* the learners and editors of this behaviour
  \* Observed, never read by an action of the program:
  first,      \* first[t]: the first of the topics created together with t
  met,        \* two edits have overlapped
  broken      \* an edit has broken off

vars == <<order, level, progress, bonus, unlocked, editor, cast, first, met, broken>>
learnerVars == <<progress, bonus, unlocked>>

Resting == [pc |-> "idle", before |-> 1, level |-> 1, count |-> 0, created |-> {},
            past |-> {}, existing |-> {}, missing |-> {}, last |-> 0]

Init ==
  /\ order = [t \in TopicIds |-> IF t <= Len(Levels) THEN t ELSE Absent]
  /\ level = [t \in TopicIds |-> IF t <= Len(Levels) THEN Levels[t] ELSE 1]
  /\ progress = [u \in Users |-> [t \in TopicIds |-> "none"]]
  /\ bonus = [u \in Users |-> [t \in TopicIds |-> FALSE]]
  /\ unlocked = [u \in Users |-> 1]
  /\ editor = [e \in Editors |-> Resting]
  /\ cast \in Scenarios
  /\ first = [t \in TopicIds |-> t]
  /\ met = FALSE /\ broken = FALSE

Topics == {t \in TopicIds : order[t] # Absent}
Unused == TopicIds \ Topics
Passed(u, t) == progress[u][t] \in PassedStatuses
LastOrder == Max({order[t] : t \in Topics} \cup {0})

-----------------------------------------------------------------------------
(* What learners are shown *)

Threshold(total) ==
  LET eighty == (total * 4 + 4) \div 5   \* math.ceil of 80%
  IN  Max({1, Min({eighty, total - 1})})

DetailLevel(u, lv) ==
  LET here == {t \in Topics : level[t] = lv}
  IN  [total |-> Cardinality(here),
       passed |-> Cardinality({t \in here : Passed(u, t)}),
       threshold |-> IF here = {} THEN 0 ELSE Threshold(Cardinality(here)),
       isUnlocked |-> lv <= unlocked[u]]

\* get_subject_detail: the levels, and the percentage over all topics.
Detail(u) ==
  LET passed == Cardinality({t \in Topics : Passed(u, t)})
  IN  [levels |-> [lv \in 1 .. 3 |-> DetailLevel(u, lv)],
       percent |-> IF Topics = {} THEN 0 ELSE (passed * 100) \div Cardinality(Topics)]

\* EnrolledSubjectsView: both counts span the same joins; distinct keeps them
\* apart from the rows of other learners.
Rows == {r \in Users \X Topics : progress[r[1]][r[2]] # "none"}

\* Mutant of ListTotal: the count without distinct, over the joined rows.
ListTotalJoined ==
  Cardinality(Rows) + Cardinality({t \in Topics : \A u \in Users : <<u, t>> \notin Rows})

ListTotal == Cardinality(Topics)

ListPassed(u) == Cardinality({r \in Rows : r[1] = u /\ Passed(u, r[2])})

\* The two conditions of one exclude() on a join are two subqueries: the topic
\* has a row of u, and a row of anyone that is passed.
Excluded(u, t) == progress[u][t] # "none" /\ \E v \in Users : Passed(v, t)

CurrentTopic(u) ==
  LET open == {t \in Topics : level[t] <= unlocked[u] /\ ~ Excluded(u, t)}
  IN  IF open = {} THEN Absent
      ELSE CHOOSE t \in open : \A x \in open : order[t] <= order[x]

\* floor((passed / total) * 100) on floats.  Rounding changes the floor only
\* where the percentage is one of these whole numbers: it is then one too low,
\* as it is for 29 of 50, because n / 100, the nearest double to it, times 100
\* rounds to a number below n.
RoundedDown == {29, 57, 58}
FloatPercent(passed, total) ==
  LET exact == (passed * 100) \div total
  IN  IF exact \in RoundedDown /\ passed * 100 = exact * total THEN exact - 1 ELSE exact

ListEntry(u) ==
  [percent |-> IF ListTotal = 0 THEN 0 ELSE FloatPercent(ListPassed(u), ListTotal),
   current |-> CurrentTopic(u)]

\* get_topic_progress: the next topic by order, whatever its level.
NextTopic(t) ==
  LET after == {x \in Topics : order[x] > order[t]}
  IN  IF after = {} THEN Absent
      ELSE CHOOSE x \in after : \A y \in after : order[x] <= order[y]

-----------------------------------------------------------------------------
(* Learners *)

\* A quiz or the resource links make a row; the quizzes raise its status.
Study(u, t) ==
  /\ u \in cast /\ t \in Topics /\ level[t] <= unlocked[u]
  /\ \E s \in Statuses :
       /\ \/ progress[u][t] = "none" /\ s = "NOT_STARTED"
          \/ progress[u][t] = "NOT_STARTED" /\ s = "PASSED"
          \/ progress[u][t] = "PASSED" /\ s = "ADVANCED_PASSED"
       /\ progress' = [progress EXCEPT ![u][t] = s]
  /\ UNCHANGED <<order, level, bonus, unlocked, editor, cast, first, met, broken>>

\* check_level_progress counts PASSED topics of the current level.
CheckLevel(u) ==
  LET here == {t \in Topics : level[t] = unlocked[u]}
  IN  /\ u \in cast /\ here # {} /\ unlocked[u] < 3
      /\ Cardinality({t \in here : progress[u][t] = "PASSED"}) >= Threshold(Cardinality(here))
      /\ unlocked' = [unlocked EXCEPT ![u] = @ + 1]
      /\ UNCHANGED <<order, level, progress, bonus, editor, cast, first, met, broken>>

-----------------------------------------------------------------------------
(* Edits *)

At(e, pc) == e \in cast /\ editor[e].pc = pc
Goto(e, pc) == editor' = [editor EXCEPT ![e].pc = pc]
Rest(e) == editor' = [editor EXCEPT ![e] = Resting]

\* A new edit beside one that is under way.
Meets == met' = (met \/ \E f \in Editors : editor[f].pc # "idle")

UpdateTopic(e, t, lv) ==
  /\ At(e, "idle") /\ t \in Topics
  /\ level' = [level EXCEPT ![t] = lv]
  /\ UNCHANGED <<order, learnerVars, editor, cast, first, met, broken>>

StartInsert(e, before, n, lv) ==
  /\ At(e, "idle") /\ n <= Cardinality(Unused)
  /\ editor' = [editor EXCEPT ![e] = [Resting EXCEPT !.pc = "shift", !.count = n,
                                        !.before = before, !.level = lv]]
  /\ Meets
  /\ UNCHANGED <<order, level, learnerVars, cast, first, broken>>

StartAppend(e, n, lv) ==
  /\ At(e, "idle") /\ n <= Cardinality(Unused)
  /\ editor' = [editor EXCEPT ![e] = [Resting EXCEPT !.pc = "append", !.count = n,
                                        !.level = lv, !.last = LastOrder]]
  /\ Meets
  /\ UNCHANGED <<order, level, learnerVars, cast, first, broken>>

\* Mutant of CanMove: nothing bounds the column.
CanMoveAnywhere(moved, d) ==
  \A t \in moved, x \in Topics \ moved : order[t] + d # order[x]

\* One UPDATE that adds d to the orders of the topics in moved.
CanMove(moved, d) ==
  /\ \A t \in moved : order[t] + d <= MaxOrder
  /\ \A t \in moved, x \in Topics \ moved : order[t] + d # order[x]
Moved(moved, d) == [t \in TopicIds |-> IF t \in moved THEN order[t] + d ELSE order[t]]

FromOrder(n) == {t \in Topics : order[t] >= n}

\* The lowest unused ids, in the order of the rows that are created.
NewIds(n) == {t \in Unused : Cardinality({x \in Unused : x < t}) < n}
Rank(t, ids) == Cardinality({x \in ids : x < t})

\* Mutant of ShiftAway: only the topic at the insertion makes room.
ShiftAwayOne(e) ==
  LET moved == FromOrder(editor[e].before) \ FromOrder(editor[e].before + 1)
  IN  /\ At(e, "shift") /\ CanMove(moved, TempShift)
      /\ order' = Moved(moved, TempShift)
      /\ Goto(e, "create")
      /\ UNCHANGED <<level, learnerVars, cast, first, met, broken>>

ShiftAway(e) ==
  LET moved == FromOrder(editor[e].before)
  IN  /\ At(e, "shift") /\ CanMove(moved, TempShift)
      /\ order' = Moved(moved, TempShift)
      /\ Goto(e, "create")
      /\ UNCHANGED <<level, learnerVars, cast, first, met, broken>>

\* bulk_create of the topics of an insertion or an append, in one statement.
CreateTopics(e, from) ==
  LET ids == NewIds(editor[e].count)
  IN  /\ Cardinality(ids) = editor[e].count
      /\ from + editor[e].count - 1 <= MaxOrder
      /\ \A t \in Topics : order[t] \notin from .. from + editor[e].count - 1
      /\ order' = [t \in TopicIds |-> IF t \in ids THEN from + Rank(t, ids) ELSE order[t]]
      /\ level' = [t \in TopicIds |-> IF t \in ids THEN editor[e].level ELSE level[t]]

CreateInserted(e) ==
  LET ids == NewIds(editor[e].count)
  IN  /\ At(e, "create") /\ CreateTopics(e, editor[e].before)
      /\ first' = [t \in TopicIds |-> IF t \in ids THEN Min(ids) ELSE first[t]]
      /\ editor' = [editor EXCEPT ![e].pc = "shift back", ![e].created = ids]
      /\ UNCHANGED <<learnerVars, cast, met, broken>>

\* Mutant of ShiftBackBy: the gap for the new topics is one too large.
ShiftBackByMore(e) == editor[e].count - TempShift + 1

ShiftBackBy(e) == editor[e].count - TempShift

ShiftBack(e) ==
  LET moved == FromOrder(TempShift)
  IN  /\ At(e, "shift back") /\ CanMove(moved, ShiftBackBy(e))
      /\ order' = Moved(moved, ShiftBackBy(e))
      /\ Goto(e, "read past")
      /\ UNCHANGED <<level, learnerVars, cast, first, met, broken>>

\* Mutant of PastLearners: from the topic before the insertion on.
PastLearnersBefore(e) ==
  {u \in Users : \E t \in FromOrder(editor[e].before - 1) : progress[u][t] = "PASSED"}

\* Who has PASSED a topic at or after the insertion, by the orders of now.
PastLearners(e) ==
  {u \in Users : \E t \in FromOrder(editor[e].before) : progress[u][t] = "PASSED"}

ReadPast(e) ==
  /\ At(e, "read past")
  /\ editor' = [editor EXCEPT ![e].pc = "read rows", ![e].past = PastLearners(e)]
  /\ UNCHANGED <<order, level, learnerVars, cast, first, met, broken>>

\* The rows those learners have for the new topics, one query per topic.
ReadRows(e) ==
  LET rows == editor[e].past \X editor[e].created
  IN  /\ At(e, "read rows")
      /\ editor' = [editor EXCEPT
           ![e].pc = "mark rows",
           ![e].existing = {r \in rows : progress[r[1]][r[2]] # "none"},
           ![e].missing = {r \in rows : progress[r[1]][r[2]] = "none"}]
      /\ UNCHANGED <<order, level, learnerVars, cast, first, met, broken>>

MarkBonus(rows) ==
  bonus' = [u \in Users |-> [t \in TopicIds |-> bonus[u][t] \/ <<u, t>> \in rows]]

MarkRows(e) ==
  /\ At(e, "mark rows")
  /\ MarkBonus(editor[e].existing)
  /\ Goto(e, "add rows")
  /\ UNCHANGED <<order, level, progress, unlocked, cast, first, met, broken>>

NoneMade(e) == \A r \in editor[e].missing : progress[r[1]][r[2]] = "none"

AddRows(e) ==
  /\ At(e, "add rows") /\ NoneMade(e)
  /\ MarkBonus(editor[e].missing)
  /\ progress' = [u \in Users |-> [t \in TopicIds |->
       IF <<u, t>> \in editor[e].missing THEN "NOT_STARTED" ELSE progress[u][t]]]
  /\ Rest(e)
  /\ UNCHANGED <<order, level, unlocked, cast, first, met, broken>>

AppendTopics(e) ==
  /\ At(e, "append") /\ CreateTopics(e, editor[e].last + 1)
  /\ Rest(e)
  /\ UNCHANGED <<learnerVars, cast, first, met, broken>>

\* A statement refused by a constraint ends the edit; so does a crash, which
\* can come before any statement.  (A refusal that depends on the order of rows
\* needs no guard of its own: the edit may end here wherever it is.)
Fails(e) ==
  /\ e \in cast /\ editor[e].pc # "idle"
  /\ Rest(e)
  /\ broken' = TRUE
  /\ UNCHANGED <<order, level, learnerVars, cast, first, met>>

-----------------------------------------------------------------------------

EditStep(e) ==
  \/ \E t \in TopicIds, lv \in EditLevels : UpdateTopic(e, t, lv)
  \/ \E n \in 1 .. MaxInsert, lv \in EditLevels :
       \/ \E before \in 1 .. Len(Levels) + 1 : StartInsert(e, before, n, lv)
       \/ StartAppend(e, n, lv)
  \/ ShiftAway(e) \/ CreateInserted(e) \/ ShiftBack(e)
  \/ ReadPast(e) \/ ReadRows(e) \/ MarkRows(e) \/ AddRows(e)
  \/ AppendTopics(e) \/ Fails(e)

Next ==
  \/ \E u \in Users : CheckLevel(u) \/ \E t \in TopicIds : Study(u, t)
  \/ \E e \in Editors : EditStep(e)

Spec == Init /\ [][Next]_vars

-----------------------------------------------------------------------------
(* Properties *)

\* The values the state can take.
TypeOK ==
  /\ order \in [TopicIds -> 0 .. MaxOrder]
  /\ level \in [TopicIds -> 1 .. 3]
  /\ progress \in [Users -> [TopicIds -> Statuses]]
  /\ bonus \in [Users -> [TopicIds -> BOOLEAN]]
  /\ unlocked \in [Users -> 1 .. 3]
  /\ editor \in [Editors ->
       [pc : {"idle", "shift", "create", "shift back", "read past", "read rows",
              "mark rows", "add rows", "append"},
        before : 1 .. MaxOrder, level : 1 .. 3, count : 0 .. MaxInsert,
        created : SUBSET TopicIds, past : SUBSET Users,
        existing : SUBSET (Users \X TopicIds), missing : SUBSET (Users \X TopicIds),
        last : 0 .. MaxOrder]]
  /\ cast \in Scenarios
  /\ first \in [TopicIds -> TopicIds]
  /\ met \in BOOLEAN /\ broken \in BOOLEAN

\* Learners see the topics in one sequence at all times: no statement of an
\* edit swaps two topics, and neither does a later edit when this one breaks
\* off with its topics shifted away.
SequenceKept ==
  [][~ met' => \A t, x \in Topics : order[t] < order[x] => order'[t] < order'[x]]_vars

\* Between edits the orders are 1, 2, 3, ... again, as the buffer of the next
\* two topics and the first batch (orders up to three) take for granted, as
\* long as edits came one at a time and none broke off.
OrdersAreDense ==
  ~ met /\ ~ broken /\ (\A e \in Editors : editor[e].pc = "idle") =>
    {order[t] : t \in Topics} = 1 .. Cardinality(Topics)

\* A bonus row means that the learner has passed one of the topics inserted with
\* it or a later one, also when learners go on while the edit runs, and when
\* later edits move the topics again.
BonusIsDeserved ==
  ~ met => \A u \in Users, t \in Topics :
    bonus[u][t] => \E x \in Topics : Passed(u, x) /\ order[x] >= order[first[t]]

\* The list shows the percentage of the detail page or one less, and both show
\* 100 when every topic is passed and at no other time; the levels of the detail
\* page add up, the links to the next topic lead through all topics, and the
\* current topic of the list is one that the detail page shows as unlocked and
\* that is not passed, during edits too.
PagesAgree ==
  \A u \in Users :
    /\ ListEntry(u).percent \in {Detail(u).percent, Detail(u).percent - 1}
    /\ \A percent \in {ListEntry(u).percent, Detail(u).percent} :
         percent = 100 <=> Topics # {} /\ \A t \in Topics : Passed(u, t)
    /\ LET shown(lv) == Detail(u).levels[lv].passed
       IN  shown(1) + shown(2) + shown(3) = Cardinality({t \in Topics : Passed(u, t)})
    /\ Cardinality({NextTopic(t) : t \in Topics}) = Cardinality(Topics)
    /\ LET current == ListEntry(u).current
       IN  current # Absent =>
             ~ Passed(u, current) /\ Detail(u).levels[level[current]].isUnlocked

\* "Current" = first unpassed topic in an unlocked level.
CurrentIsFirst ==
  \A u \in Users : \A t \in Topics :
    level[t] <= unlocked[u] /\ ~ Passed(u, t) =>
      LET current == ListEntry(u).current
      IN  current # Absent /\ order[current] <= order[t]
=============================================================================
