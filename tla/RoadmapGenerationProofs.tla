---------------------- MODULE RoadmapGenerationProofs ----------------------
(***************************************************************************)
(* Theorems about RoadmapGeneration, for any number of requests and        *)
(* messages, any retry limit and any set of faults, and the refinement of  *)
(* RoadmapLifecycle, which they end with.                                  *)
(***************************************************************************)
EXTENDS RoadmapGeneration, TLAPS

-----------------------------------------------------------------------------
(* The topics of a subject *)

\* What the tasks know about the topics: one that looked and found them, or
\* inserted them, or went on from there, has them in place.
TasksKnowTopics ==
  \A i \in TaskIds : task[i].stage \in {"built", "batch"} => topics

\* Topics are there exactly when they were inserted, and READY, the batch and
\* the tasks past the insertion rest on them.
TopicsInv ==
  /\ inserts = IF topics THEN 1 ELSE 0
  /\ TasksKnowTopics
  /\ ReadyHasTopics

\* The types without the counter of insertions, whose bound is TopicsInv's.
TypesButInserts ==
  /\ status \in Status
  /\ started \in Ages
  /\ topics \in BOOLEAN
  /\ batched \in BOOLEAN
  /\ disturbed \in BOOLEAN
  /\ caller \in [Callers -> CallerPCs]
  /\ task \in [TaskIds -> TaskState]
  /\ cleaner \in {"idle", "found"}

\* The inductive invariant about types and topics.
BuildInv == TypesButInserts /\ TopicsInv

\* A message, first or delivered again, is a state of a task.
LEMMA MessageType ==
  ASSUME NEW r \in 0 .. MaxRetries
  PROVE  Message(r) \in TaskState /\ NoTask \in TaskState
BY RoadmapParametersOK DEF Message, NoTask, TaskState, Stages

\* A task that changes its stage to one that says nothing about the topics, or
\* to one for which they are there, keeps the invariant.
LEMMA TaskStepBuild ==
  ASSUME TypesButInserts, TasksKnowTopics, NEW i \in TaskIds,
         NEW state \in TaskState, TaskStep(i, state),
         state.stage \in {"built", "batch"} => topics', topics => topics'
  PROVE  /\ task' \in [TaskIds -> TaskState]
         /\ caller' \in [Callers -> CallerPCs]
         /\ cleaner' \in {"idle", "found"}
         /\ TasksKnowTopics'
<1>1. /\ task' = [task EXCEPT ![i] = state]
      /\ UNCHANGED <<caller, cleaner>>
      /\ task \in [TaskIds -> TaskState]
  BY DEF TaskStep, TypesButInserts
<1>2. \A j \in TaskIds : task'[j] = IF j = i THEN state ELSE task[j]
  BY <1>1
<1>3. TasksKnowTopics'
  BY <1>2 DEF TasksKnowTopics
<1>4. QED
  BY <1>1, <1>3 DEF TypesButInserts

\* A step of a request keeps the invariant: it touches no topics and never
\* writes READY.
LEMMA CallerStepBuild ==
  ASSUME BuildInv, NEW c \in Callers, CallerStep(c)
  PROVE  BuildInv'
<1> USE DEF BuildInv, TypesButInserts, TopicsInv
<1>1. CASE LookForTopics(c)
  BY <1>1 DEF LookForTopics, Go, subjectVars, CallerPCs, TasksKnowTopics,
              ReadyHasTopics
<1>2. CASE WinClaim(c)
  BY <1>2 DEF WinClaim, Go, CallerPCs, Status, Ages, TasksKnowTopics,
              ReadyHasTopics
<1>3. CASE LoseClaim(c)
  BY <1>3 DEF LoseClaim, Go, subjectVars, CallerPCs, TasksKnowTopics,
              ReadyHasTopics
<1>4. ASSUME NEW i \in TaskIds, QueueTask(c, i)
      PROVE  BuildInv'
  <2>1. /\ task' = [task EXCEPT ![i] = Message(0)]
        /\ caller' = [caller EXCEPT ![c] = "idle"]
        /\ UNCHANGED <<subjectVars, cleaner>>
    BY <1>4 DEF QueueTask
  <2>2. Message(0) \in TaskState /\ Message(0).stage = "build"
    BY MessageType, RoadmapParametersOK DEF Message
  <2>3. TasksKnowTopics'
    BY <2>1, <2>2 DEF TasksKnowTopics, subjectVars
  <2>4. QED
    BY <2>1, <2>2, <2>3 DEF subjectVars, CallerPCs, ReadyHasTopics
<1>5. CASE QueueFails(c)
  BY <1>5 DEF QueueFails, Go, CallerPCs, Status, TasksKnowTopics,
              ReadyHasTopics
<1>6. CASE CallerDies(c)
  BY <1>6 DEF CallerDies, Go, subjectVars, CallerPCs, TasksKnowTopics,
              ReadyHasTopics
<1>7. QED
  BY <1>1, <1>2, <1>3, <1>4, <1>5, <1>6 DEF CallerStep

\* What the end of a task leaves behind says nothing about the topics.
LEMMA ReturnBuild ==
  ASSUME TypesButInserts, TasksKnowTopics, NEW i \in TaskIds, Return(i),
         topics' = topics
  PROVE  /\ task' \in [TaskIds -> TaskState]
         /\ caller' \in [Callers -> CallerPCs]
         /\ cleaner' \in {"idle", "found"}
         /\ disturbed' \in BOOLEAN
         /\ TasksKnowTopics'
<1>1. task[i].retries \in 0 .. MaxRetries
  BY DEF TypesButInserts, TaskState
<1>2. /\ Message(task[i].retries) \in TaskState
      /\ Message(task[i].retries).stage = "build"
      /\ NoTask \in TaskState
      /\ NoTask.stage = "none"
  BY <1>1, MessageType DEF Message, NoTask
<1>3. CASE TaskStep(i, NoTask) /\ UNCHANGED disturbed
  BY <1>2, <1>3, TaskStepBuild DEF TypesButInserts
<1>4. CASE TaskStep(i, Message(task[i].retries)) /\ disturbed' = TRUE
  BY <1>2, <1>4, TaskStepBuild
<1>5. QED
  BY <1>3, <1>4 DEF Return

\* A step of a worker keeps the invariant.  The topics are inserted only where
\* there are none, and a task counts on them only once they are there.
LEMMA WorkerStepBuild ==
  ASSUME BuildInv, NEW i \in TaskIds,
         WorkerStep(i) \/ TaskLost(i) \/ TaskRedelivered(i)
  PROVE  BuildInv'
<1> USE DEF BuildInv, TopicsInv
<1>1. /\ task[i] \in TaskState
      /\ task[i].retries \in 0 .. MaxRetries
      /\ MaxRetries \in Nat
  BY RoadmapParametersOK DEF TypesButInserts, TaskState
<1>2. \A s \in Stages : /\ [task[i] EXCEPT !.stage = s] \in TaskState
                        /\ [task[i] EXCEPT !.stage = s].stage = s
  BY <1>1 DEF TaskState
<1>3. NoTask \in TaskState /\ NoTask.stage = "none"
  BY <1>1, MessageType DEF NoTask
<1>4. \A r \in 0 .. MaxRetries :
         Message(r) \in TaskState /\ Message(r).stage = "build"
  BY MessageType DEF Message
<1>5. CASE StartBuild(i)
  <2>1. \/ TaskStep(i, [task[i] EXCEPT !.stage = "built"]) /\ topics
        \/ TaskStep(i, [task[i] EXCEPT !.stage = "asking"])
    BY <1>5 DEF StartBuild
  <2>2. "built" \in Stages /\ "asking" \in Stages
    BY DEF Stages
  <2>3. UNCHANGED subjectVars
    BY <1>5 DEF StartBuild
  <2>4. TasksKnowTopics' /\ TypesButInserts'
    BY <1>2, <2>1, <2>2, <2>3, TaskStepBuild DEF TypesButInserts, subjectVars
  <2>5. QED
    BY <2>3, <2>4 DEF subjectVars, ReadyHasTopics
<1>6. CASE InsertTopics(i)
  <2>1. /\ ~ topics /\ topics' = TRUE /\ inserts' = inserts + 1
        /\ TaskStep(i, [task[i] EXCEPT !.stage = "built"])
        /\ UNCHANGED <<status, started, batched, disturbed>>
    BY <1>6 DEF InsertTopics
  <2>2. "built" \in Stages
    BY DEF Stages
  <2>3. TasksKnowTopics' /\ TypesButInserts'
    BY <1>2, <2>1, <2>2, TaskStepBuild DEF TypesButInserts
  <2>4. QED
    BY <2>1, <2>3 DEF ReadyHasTopics
<1>7. CASE InsertConflict(i)
  BY <1>7, ReturnBuild DEF InsertConflict, TypesButInserts, ReadyHasTopics
<1>8. CASE BuildFails(i)
  BY <1>8, ReturnBuild DEF BuildFails, TypesButInserts, Status, ReadyHasTopics
<1>9. CASE RetryLater(i)
  <2>1. /\ task[i].retries + 1 \in 0 .. MaxRetries
        /\ TaskStep(i, Message(task[i].retries + 1))
        /\ UNCHANGED subjectVars
    BY <1>1, <1>9 DEF RetryLater
  <2>2. TasksKnowTopics' /\ TypesButInserts'
    BY <1>4, <2>1, TaskStepBuild DEF TypesButInserts, subjectVars
  <2>3. QED
    BY <2>1, <2>2 DEF subjectVars, ReadyHasTopics
<1>10. CASE SetReady(i)
  <2>1. /\ task[i].stage = "built" /\ status' = "READY"
        /\ TaskStep(i, [task[i] EXCEPT !.stage = "batch"])
        /\ UNCHANGED <<started, topics, inserts, batched, disturbed>>
    BY <1>10 DEF SetReady
  <2>2. topics /\ "batch" \in Stages
    BY <2>1 DEF TasksKnowTopics, Stages
  <2>3. TasksKnowTopics' /\ TypesButInserts'
    BY <1>2, <2>1, <2>2, TaskStepBuild DEF TypesButInserts, Status
  <2>4. QED
    BY <2>1, <2>2, <2>3 DEF ReadyHasTopics
<1>11. CASE RequestBatch(i)
  <2>1. topics
    BY <1>11 DEF RequestBatch, TasksKnowTopics
  <2>2. QED
    BY <1>11, <2>1, ReturnBuild DEF RequestBatch, TypesButInserts,
                                    ReadyHasTopics
<1>12. CASE TaskLost(i)
  <2>1. TaskStep(i, NoTask) /\ UNCHANGED subjectVars
    BY <1>12 DEF TaskLost
  <2>2. TasksKnowTopics' /\ TypesButInserts'
    BY <1>3, <2>1, TaskStepBuild DEF TypesButInserts, subjectVars
  <2>3. QED
    BY <2>1, <2>2 DEF subjectVars, ReadyHasTopics
<1>13. CASE TaskRedelivered(i)
  <2>1. /\ TaskStep(i, Message(task[i].retries))
        /\ disturbed' \in BOOLEAN
        /\ UNCHANGED <<status, started, topics, inserts, batched>>
    BY <1>13 DEF TaskRedelivered, TypesButInserts
  <2>2. TasksKnowTopics' /\ TypesButInserts'
    BY <1>1, <1>4, <2>1, TaskStepBuild DEF TypesButInserts
  <2>3. QED
    BY <2>1, <2>2 DEF ReadyHasTopics
<1>14. QED
  BY <1>5, <1>6, <1>7, <1>8, <1>9, <1>10, <1>11, <1>12, <1>13 DEF WorkerStep

\* BuildInv is inductive.
LEMMA NextBuild == BuildInv /\ [Next]_vars => BuildInv'
<1> SUFFICES ASSUME BuildInv, [Next]_vars PROVE BuildInv'
  OBVIOUS
<1> USE DEF BuildInv, TypesButInserts, TopicsInv
<1>1. CASE FindStuck
  BY <1>1 DEF FindStuck, subjectVars, TasksKnowTopics, ReadyHasTopics
<1>2. CASE FailStuck
  BY <1>2 DEF FailStuck, Status, TasksKnowTopics, ReadyHasTopics
<1>3. CASE Age
  BY <1>3 DEF Age, Ages, TasksKnowTopics, ReadyHasTopics
<1>4. CASE UNCHANGED vars
  BY <1>4 DEF vars, subjectVars, TasksKnowTopics, ReadyHasTopics
<1>5. QED
  BY <1>1, <1>2, <1>3, <1>4, CallerStepBuild, WorkerStepBuild
  DEF Next, CleanerStep

\* The initial state satisfies BuildInv.
LEMMA InitBuild == Init => BuildInv
<1> SUFFICES ASSUME Init PROVE BuildInv
  OBVIOUS
<1>1. NoTask \in TaskState /\ NoTask.stage = "none"
  BY RoadmapParametersOK DEF NoTask, TaskState, Stages
<1>2. TypesButInserts
  BY <1>1 DEF Init, TypesButInserts, Status, Ages, CallerPCs
<1>3. TasksKnowTopics
  BY <1>1 DEF Init, TasksKnowTopics
<1>4. QED
  BY <1>2, <1>3 DEF Init, BuildInv, TopicsInv, ReadyHasTopics

\* The types hold in every reachable state; the tries stay within their limit.
THEOREM RoadmapTypeCorrect == Spec => []TypeOK
<1>1. BuildInv => TypeOK
  BY DEF BuildInv, TypesButInserts, TopicsInv, TypeOK
<1>2. QED
  BY <1>1, InitBuild, NextBuild, PTL DEF Spec

\* However many tasks run for a subject, and whatever is delivered again, its
\* topics are inserted at most once.
THEOREM OneInsertion == Spec => []TopicsInsertedOnce
<1>1. BuildInv => TopicsInsertedOnce
  BY DEF BuildInv, TopicsInv, TopicsInsertedOnce
<1>2. QED
  BY <1>1, InitBuild, NextBuild, PTL DEF Spec

\* READY, and the request for the first content, imply topics, under every
\* fault.
THEOREM ReadyRoadmapHasTopics == Spec => []ReadyHasTopics
<1>1. BuildInv => ReadyHasTopics
  BY DEF BuildInv, TopicsInv
<1>2. QED
  BY <1>1, InitBuild, NextBuild, PTL DEF Spec

-----------------------------------------------------------------------------
(* One builder at a time *)

\* A step after which nobody owns the subject who did not own it before keeps
\* one owner, if it leaves the status alone or nobody owns the subject any more.
LEMMA OwnersShrink ==
  ASSUME SingleBuilder,
         \A i \in TaskIds : disturbed' \/ (TaskHolds(i)' => TaskHolds(i)),
         \A c \in Callers : disturbed' \/ (CallerHolds(c)' => CallerHolds(c)),
         disturbed' \/ ~ disturbed,
         disturbed' \/ status' = status \/ ~ Held'
  PROVE  SingleBuilder'
BY DEF SingleBuilder, Held

\* The same for a step of one task, which goes on owning the subject only if it
\* did, and leaves the status to be written only if it owned it alone.
LEMMA TaskStepOwners ==
  ASSUME TypesButInserts, SingleBuilder, NEW i \in TaskIds,
         NEW state \in TaskState, TaskStep(i, state),
         disturbed' \/ (state.stage \in HoldingStages => TaskHolds(i)),
         disturbed' \/ ~ disturbed,
         \/ disturbed'
         \/ status' = status
         \/ TaskHolds(i) /\ state.stage \notin HoldingStages
  PROVE  SingleBuilder'
<1>1. /\ \A j \in TaskIds : task'[j] = IF j = i THEN state ELSE task[j]
      /\ caller' = caller
  BY DEF TaskStep, TypesButInserts
<1>2. \A j \in TaskIds : disturbed' \/ (TaskHolds(j)' => TaskHolds(j))
  BY <1>1 DEF TaskHolds
<1>3. \A c \in Callers : CallerHolds(c)' => CallerHolds(c)
  BY <1>1 DEF CallerHolds
<1>4. ASSUME ~ disturbed', TaskHolds(i), state.stage \notin HoldingStages
      PROVE  ~ Held'
  <2>1. /\ \A j \in TaskIds : TaskHolds(j) => j = i
        /\ \A c \in Callers : ~ CallerHolds(c)
    BY <1>4 DEF SingleBuilder
  <2>2. \A j \in TaskIds : ~ TaskHolds(j)'
    BY <1>1, <1>4, <2>1 DEF TaskHolds
  <2>3. QED
    BY <1>3, <2>1, <2>2 DEF Held
<1>5. QED
  BY <1>2, <1>3, <1>4, OwnersShrink

\* The end of a task: it stops owning the subject, or its message comes back
\* and the subject counts as disturbed.
LEMMA ReturnOwners ==
  ASSUME TypesButInserts, SingleBuilder, NEW i \in TaskIds, Return(i),
         status' = status \/ TaskHolds(i)
  PROVE  SingleBuilder'
<1>1. /\ task[i].retries \in 0 .. MaxRetries
      /\ disturbed \in BOOLEAN
  BY DEF TypesButInserts, TaskState
<1>2. /\ Message(task[i].retries) \in TaskState
      /\ NoTask \in TaskState
      /\ NoTask.stage \notin HoldingStages
  BY <1>1, MessageType DEF NoTask, HoldingStages
<1>3. CASE TaskStep(i, NoTask) /\ UNCHANGED disturbed
  BY <1>1, <1>2, <1>3, TaskStepOwners
<1>4. CASE disturbed' = TRUE
  BY <1>4 DEF SingleBuilder
<1>5. QED
  BY <1>3, <1>4 DEF Return

\* A step of a request keeps one owner: it claims the subject when nobody owns
\* it, hands it to a task, or gives it up.
LEMMA CallerStepOwners ==
  ASSUME TypesButInserts, SingleBuilder, NEW c \in Callers, CallerStep(c)
  PROVE  SingleBuilder'
<1>1. /\ caller \in [Callers -> CallerPCs]
      /\ task \in [TaskIds -> TaskState]
      /\ disturbed \in BOOLEAN
  BY DEF TypesButInserts
<1>2. ASSUME NEW pc \in {"idle", "claim"}, Go(c, pc), UNCHANGED disturbed,
             status' = status \/ CallerHolds(c)
      PROVE  SingleBuilder'
  <2>1. /\ \A d \in Callers : caller'[d] = IF d = c THEN pc ELSE caller[d]
        /\ task' = task
    BY <1>1, <1>2 DEF Go
  <2>2. \A d \in Callers : CallerHolds(d)' => CallerHolds(d) /\ d # c
    BY <1>2, <2>1 DEF CallerHolds
  <2>3. \A i \in TaskIds : TaskHolds(i)' = TaskHolds(i)
    BY <2>1 DEF TaskHolds
  <2>4. ~ disturbed /\ CallerHolds(c) => ~ Held'
    BY <2>2, <2>3 DEF SingleBuilder, Held
  <2>5. QED
    BY <1>1, <1>2, <2>2, <2>3, <2>4, OwnersShrink
<1>3. CASE LookForTopics(c) \/ LoseClaim(c) \/ CallerDies(c)
  BY <1>2, <1>3 DEF LookForTopics, LoseClaim, CallerDies, subjectVars
<1>4. CASE QueueFails(c)
  BY <1>2, <1>4 DEF QueueFails, CallerHolds
<1>5. CASE WinClaim(c)
  <2>1. /\ status # "GENERATING" /\ status' = "GENERATING"
        /\ \A d \in Callers :
             caller'[d] = IF d = c THEN "publish" ELSE caller[d]
        /\ task' = task /\ disturbed' = disturbed
    BY <1>1, <1>5 DEF WinClaim, Go
  <2>2. ~ disturbed => ~ Held
    BY <2>1 DEF SingleBuilder
  <2>3. ~ disturbed' => /\ \A i \in TaskIds : ~ TaskHolds(i)'
                        /\ \A d \in Callers : CallerHolds(d)' => d = c
    BY <2>1, <2>2 DEF Held, TaskHolds, CallerHolds
  <2>4. QED
    BY <2>1, <2>3 DEF SingleBuilder, Held
<1>6. ASSUME NEW i \in TaskIds, QueueTask(c, i)
      PROVE  SingleBuilder'
  <2>1. /\ caller[c] = "publish"
        /\ \A d \in Callers : caller'[d] = IF d = c THEN "idle" ELSE caller[d]
        /\ \A j \in TaskIds : task'[j] = IF j = i THEN Message(0) ELSE task[j]
        /\ status' = status /\ disturbed' = disturbed
    BY <1>1, <1>6 DEF QueueTask, subjectVars
  <2>2. ~ disturbed => /\ \A j \in TaskIds : ~ TaskHolds(j)
                       /\ \A d \in Callers : CallerHolds(d) => d = c
                       /\ status = "GENERATING"
    BY <2>1 DEF SingleBuilder, Held, CallerHolds
  <2>3. ~ disturbed' => /\ \A j \in TaskIds : TaskHolds(j)' => j = i
                        /\ \A d \in Callers : ~ CallerHolds(d)'
    BY <2>1, <2>2 DEF TaskHolds, CallerHolds
  <2>4. QED
    BY <2>1, <2>2, <2>3 DEF SingleBuilder, Held
<1>7. QED
  BY <1>3, <1>4, <1>5, <1>6 DEF CallerStep

\* A step of a worker, or the death of one, keeps one owner.
LEMMA WorkerStepOwners ==
  ASSUME TypesButInserts, SingleBuilder, NEW i \in TaskIds,
         WorkerStep(i) \/ TaskLost(i) \/ TaskRedelivered(i)
  PROVE  SingleBuilder'
<1>1. /\ task[i] \in TaskState
      /\ task[i].retries \in 0 .. MaxRetries
      /\ MaxRetries \in Nat
      /\ disturbed \in BOOLEAN
  BY RoadmapParametersOK DEF TypesButInserts, TaskState
<1>2. \A s \in Stages : /\ [task[i] EXCEPT !.stage = s] \in TaskState
                        /\ [task[i] EXCEPT !.stage = s].stage = s
  BY <1>1 DEF TaskState
<1>3. /\ NoTask \in TaskState /\ NoTask.stage = "none"
      /\ {"asking", "built", "batch"} \subseteq Stages
      /\ HoldingStages = {"build", "asking", "built"}
  BY <1>1, MessageType DEF NoTask, Stages, HoldingStages
<1>4. \A r \in 0 .. MaxRetries :
         Message(r) \in TaskState /\ Message(r).stage = "build"
  BY MessageType DEF Message
<1>5. CASE StartBuild(i)
  <2>1. PICK s \in {"asking", "built"} :
          TaskStep(i, [task[i] EXCEPT !.stage = s])
    BY <1>5 DEF StartBuild
  <2>2. TaskHolds(i) /\ UNCHANGED <<status, disturbed>>
    BY <1>3, <1>5 DEF StartBuild, TaskHolds, subjectVars
  <2>3. QED
    BY <1>1, <1>2, <1>3, <2>1, <2>2, TaskStepOwners
<1>6. CASE InsertTopics(i)
  <2>1. /\ TaskStep(i, [task[i] EXCEPT !.stage = "built"])
        /\ TaskHolds(i) /\ UNCHANGED <<status, disturbed>>
    BY <1>3, <1>6 DEF InsertTopics, TaskHolds
  <2>2. QED
    BY <1>1, <1>2, <1>3, <2>1, TaskStepOwners
<1>7. CASE InsertConflict(i)
  BY <1>7, ReturnOwners DEF InsertConflict
<1>8. CASE BuildFails(i)
  BY <1>3, <1>8, ReturnOwners DEF BuildFails, TaskHolds
<1>9. CASE RetryLater(i)
  <2>1. /\ task[i].retries + 1 \in 0 .. MaxRetries
        /\ TaskStep(i, Message(task[i].retries + 1))
        /\ TaskHolds(i) /\ UNCHANGED <<status, disturbed>>
    BY <1>1, <1>3, <1>9 DEF RetryLater, TaskHolds, subjectVars
  <2>2. QED
    BY <1>1, <1>4, <2>1, TaskStepOwners
<1>10. CASE SetReady(i)
  <2>1. /\ TaskStep(i, [task[i] EXCEPT !.stage = "batch"])
        /\ TaskHolds(i) /\ disturbed' = disturbed
    BY <1>3, <1>10 DEF SetReady, TaskHolds
  <2>2. QED
    BY <1>1, <1>2, <1>3, <2>1, TaskStepOwners
<1>11. CASE RequestBatch(i)
  BY <1>11, ReturnOwners DEF RequestBatch
<1>12. CASE TaskLost(i)
  <2>1. TaskStep(i, NoTask) /\ UNCHANGED <<status, disturbed>>
    BY <1>12 DEF TaskLost, subjectVars
  <2>2. QED
    BY <1>1, <1>3, <2>1, TaskStepOwners
<1>13. CASE TaskRedelivered(i)
  <2>1. /\ TaskStep(i, Message(task[i].retries))
        /\ disturbed' \/ (TaskHolds(i) /\ ~ disturbed)
        /\ status' = status
    BY <1>1, <1>13 DEF TaskRedelivered
  <2>2. QED
    BY <1>1, <1>4, <2>1, TaskStepOwners
<1>14. QED
  BY <1>5, <1>6, <1>7, <1>8, <1>9, <1>10, <1>11, <1>12, <1>13 DEF WorkerStep

\* Every step keeps one owner, given the types.
LEMMA NextOwners ==
  TypesButInserts /\ SingleBuilder /\ [Next]_vars => SingleBuilder'
<1> SUFFICES ASSUME TypesButInserts, SingleBuilder, [Next]_vars
             PROVE  SingleBuilder'
  OBVIOUS
<1>1. disturbed \in BOOLEAN
  BY DEF TypesButInserts
<1>2. ASSUME UNCHANGED <<caller, task>>,
             disturbed' \/ (~ disturbed /\ (status' = status \/ ~ Held))
      PROVE  SingleBuilder'
  BY <1>2 DEF SingleBuilder, Held, TaskHolds, CallerHolds
<1>3. CASE CleanerStep
  BY <1>1, <1>2, <1>3
  DEF CleanerStep, FindStuck, FailStuck, subjectVars, SingleBuilder, Held,
      TaskHolds, CallerHolds
<1>4. CASE Age \/ UNCHANGED vars
  BY <1>4 DEF Age, vars, subjectVars, SingleBuilder, Held, TaskHolds,
              CallerHolds
<1>5. QED
  BY <1>3, <1>4, CallerStepOwners, WorkerStepOwners DEF Next

\* The inductive invariant: types, topics, and one owner, who finds the subject
\* GENERATING.
RoadmapInv == BuildInv /\ SingleBuilder

\* RoadmapInv holds in every reachable state.
THEOREM RoadmapInvariant == Spec => []RoadmapInv
<1>1. Init => RoadmapInv
  <2> SUFFICES ASSUME Init PROVE SingleBuilder
    BY InitBuild DEF RoadmapInv
  <2>1. \A i \in TaskIds : ~ TaskHolds(i)
    BY DEF Init, TaskHolds, NoTask, HoldingStages
  <2>2. \A c \in Callers : ~ CallerHolds(c)
    BY DEF Init, CallerHolds
  <2>3. QED
    BY <2>1, <2>2 DEF SingleBuilder, Held
<1>2. RoadmapInv /\ [Next]_vars => RoadmapInv'
  BY NextBuild, NextOwners DEF RoadmapInv, BuildInv
<1>3. QED
  BY <1>1, <1>2, PTL DEF Spec

\* One request or task builds the roadmap, until a stale cleanup or a message
\* delivered after its task ended interferes.
THEOREM OneBuilder == Spec => []SingleBuilder
<1>1. RoadmapInv => SingleBuilder
  BY DEF RoadmapInv
<1>2. QED
  BY <1>1, RoadmapInvariant, PTL

-----------------------------------------------------------------------------
(* Dates, and what is final *)

\* Every claim carries its time, so the cleanup's age filter can find it.
THEOREM RoadmapClaimsAreDated == Spec => []ClaimIsDated
<1>1. Init => ClaimIsDated
  BY DEF Init, ClaimIsDated
<1>2. ClaimIsDated /\ [Next]_vars => ClaimIsDated'
  <2> SUFFICES ASSUME ClaimIsDated, [Next]_vars PROVE ClaimIsDated'
    OBVIOUS
  <2>1. ASSUME NEW c \in Callers, CallerStep(c) PROVE ClaimIsDated'
    BY <2>1 DEF CallerStep, LookForTopics, WinClaim, LoseClaim, QueueTask,
                QueueFails, CallerDies, subjectVars, ClaimIsDated
  <2>2. ASSUME NEW i \in TaskIds,
               WorkerStep(i) \/ TaskLost(i) \/ TaskRedelivered(i)
        PROVE  ClaimIsDated'
    BY <2>2 DEF WorkerStep, StartBuild, InsertTopics, InsertConflict,
                BuildFails, RetryLater, SetReady, RequestBatch, TaskLost,
                TaskRedelivered, subjectVars, ClaimIsDated
  <2>3. CASE CleanerStep
    BY <2>3 DEF CleanerStep, FindStuck, FailStuck, subjectVars, ClaimIsDated
  <2>4. CASE Age \/ UNCHANGED vars
    BY <2>4 DEF Age, vars, subjectVars, ClaimIsDated
  <2>5. QED
    BY <2>1, <2>2, <2>3, <2>4 DEF Next
<1>3. QED
  BY <1>1, <1>2, PTL DEF Spec

\* A finished roadmap stays READY: whoever else could write its status would own
\* it, and would have found it GENERATING.
LEMMA ReadyStays ==
  ASSUME RoadmapInv, [Next]_vars, status = "READY", ~ disturbed'
  PROVE  status' = "READY"
<1>1. ~ disturbed => /\ \A i \in TaskIds : ~ TaskHolds(i)
                     /\ \A c \in Callers : ~ CallerHolds(c)
  BY DEF RoadmapInv, SingleBuilder, Held
<1>2. ASSUME NEW c \in Callers, CallerStep(c) PROVE status' = "READY"
  <2>1. CASE QueueFails(c)
    BY <1>1, <2>1 DEF QueueFails, CallerHolds
  <2>2. QED
    BY <1>2, <2>1 DEF CallerStep, LookForTopics, WinClaim, LoseClaim,
                      QueueTask, CallerDies, subjectVars
<1>3. ASSUME NEW i \in TaskIds,
             WorkerStep(i) \/ TaskLost(i) \/ TaskRedelivered(i)
      PROVE  status' = "READY"
  <2>1. CASE BuildFails(i)
    BY <1>1, <2>1 DEF BuildFails, Return, TaskHolds, HoldingStages
  <2>2. QED
    BY <1>3, <2>1 DEF WorkerStep, StartBuild, InsertTopics, InsertConflict,
                      RetryLater, SetReady, RequestBatch, TaskLost,
                      TaskRedelivered, subjectVars
<1>4. CASE CleanerStep
  BY <1>4 DEF CleanerStep, FindStuck, FailStuck, subjectVars
<1>5. CASE Age \/ UNCHANGED vars
  BY <1>5 DEF Age, vars, subjectVars
<1>6. QED
  BY <1>2, <1>3, <1>4, <1>5 DEF Next

\* A finished roadmap stays READY, unless a stale cleanup or a redelivered
\* message interfered.
THEOREM ReadyRoadmapIsFinal == Spec => ReadyIsFinal
<1>1. RoadmapInv /\ [Next]_vars =>
        (status = "READY" /\ ~ disturbed' => status' = "READY")
  BY ReadyStays
<1>2. QED
  BY <1>1, RoadmapInvariant, PTL DEF Spec, ReadyIsFinal

-----------------------------------------------------------------------------
(* The lifecycle: under Phase, every step is one of RoadmapLifecycle, or none *)

\* The cleanup has found a subject that was asked for; and content is requested
\* for a roadmap that is READY, and still is unless something interfered.
Settled ==
  /\ cleaner = "found" => status # "NOT_GENERATED"
  /\ batched \/ (\E i \in TaskIds : task[i].stage = "batch") =>
       disturbed \/ status = "READY"

\* No statement forgets that the roadmap was asked for, that it has topics, that
\* content was requested, or that something interfered.
LEMMA NothingIsForgotten ==
  ASSUME BuildInv, [Next]_vars
  PROVE  /\ status' = "NOT_GENERATED" => status = "NOT_GENERATED"
         /\ topics => topics'
         /\ batched => batched'
         /\ disturbed => disturbed'
<1> DEFINE Kept == /\ status' = "NOT_GENERATED" => status = "NOT_GENERATED"
                   /\ topics => topics'
                   /\ batched => batched'
                   /\ disturbed => disturbed'
<1>1. /\ disturbed \in BOOLEAN /\ disturbed' \in BOOLEAN
      /\ topics \in BOOLEAN /\ batched \in BOOLEAN
  BY NextBuild DEF BuildInv, TypesButInserts
<1>2. ASSUME NEW c \in Callers, CallerStep(c) PROVE Kept
  BY <1>1, <1>2 DEF CallerStep, LookForTopics, WinClaim, LoseClaim, QueueTask, QueueFails,
                    CallerDies, subjectVars
<1>3. ASSUME NEW i \in TaskIds, WorkerStep(i) \/ TaskLost(i) \/ TaskRedelivered(i)
      PROVE  Kept
  <2>1. CASE Return(i)
    BY <1>1, <1>3, <2>1 DEF WorkerStep, StartBuild, InsertTopics, InsertConflict, BuildFails,
                RetryLater, SetReady, RequestBatch, TaskLost, TaskRedelivered, Return,
                subjectVars
  <2>2. CASE InsertTopics(i) \/ SetReady(i) \/ StartBuild(i) \/ RetryLater(i) \/ TaskLost(i)
    BY <2>2 DEF InsertTopics, SetReady, StartBuild, RetryLater, TaskLost, subjectVars
  <2>3. CASE TaskRedelivered(i)
    BY <1>1, <2>3 DEF TaskRedelivered
  <2>4. QED
    BY <1>3, <2>1, <2>2, <2>3 DEF WorkerStep, InsertConflict, BuildFails, RequestBatch
<1>4. CASE CleanerStep
  BY <1>1, <1>4 DEF CleanerStep, FindStuck, FailStuck, subjectVars
<1>5. CASE Age \/ UNCHANGED vars
  BY <1>5 DEF Age, vars, subjectVars
<1>6. QED
  BY <1>2, <1>3, <1>4, <1>5 DEF Next

\* A task is about to request content only when it has just written READY.
LEMMA BatchStays ==
  ASSUME TypesButInserts, [Next]_vars, NEW i \in TaskIds, task'[i].stage = "batch"
  PROVE  task[i].stage = "batch" \/ status' = "READY"
<1>1. task \in [TaskIds -> TaskState]
  BY DEF TypesButInserts
<1>2. /\ Message(0).stage = "build" /\ NoTask.stage = "none"
      /\ \A j \in TaskIds : Message(task[j].retries).stage = "build"
      /\ \A j \in TaskIds : Message(task[j].retries + 1).stage = "build"
  BY DEF Message, NoTask
<1>3. ASSUME NEW j \in TaskIds, NEW state, task' = [task EXCEPT ![j] = state],
             state.stage # "batch"
      PROVE  task[i].stage = "batch"
  BY <1>1, <1>3
<1>4. ASSUME NEW c \in Callers, CallerStep(c) PROVE task[i].stage = "batch"
  <2>1. CASE \E j \in TaskIds : QueueTask(c, j)
    BY <1>2, <1>3, <2>1 DEF QueueTask
  <2>2. CASE task' = task
    BY <2>2
  <2>3. QED
    BY <1>4, <2>1, <2>2 DEF CallerStep, LookForTopics, WinClaim, LoseClaim, QueueFails,
                            CallerDies, Go
<1>5. ASSUME NEW j \in TaskIds, WorkerStep(j) \/ TaskLost(j) \/ TaskRedelivered(j)
      PROVE  task[i].stage = "batch" \/ status' = "READY"
  <2>1. ASSUME NEW s \in {"asking", "built"}, TaskStep(j, [task[j] EXCEPT !.stage = s])
        PROVE  task[i].stage = "batch"
    <3>1. [task[j] EXCEPT !.stage = s].stage = s
      BY <1>1 DEF TaskState
    <3>2. QED
      BY <1>3, <2>1, <3>1 DEF TaskStep
  <2>2. CASE StartBuild(j) \/ InsertTopics(j)
    BY <2>1, <2>2 DEF StartBuild, InsertTopics
  <2>3. CASE Return(j) \/ RetryLater(j) \/ TaskLost(j) \/ TaskRedelivered(j)
    BY <1>2, <1>3, <2>3 DEF Return, RetryLater, TaskLost, TaskRedelivered, TaskStep
  <2>4. CASE SetReady(j)
    BY <2>4 DEF SetReady
  <2>5. QED
    BY <1>5, <2>2, <2>3, <2>4 DEF WorkerStep, InsertConflict, BuildFails, RequestBatch
<1>6. CASE CleanerStep \/ Age \/ UNCHANGED vars
  BY <1>6 DEF CleanerStep, FindStuck, FailStuck, Age, vars
<1>7. QED
  BY <1>4, <1>5, <1>6 DEF Next

\* Settled is inductive, given who owns the subject.
LEMMA SettledStep ==
  ASSUME RoadmapInv, Settled, [Next]_vars PROVE Settled'
<1>1. TypesButInserts
  BY DEF RoadmapInv, BuildInv
<1>2. cleaner' = "found" => status' # "NOT_GENERATED"
  <2>1. CASE cleaner = "found"
    BY <2>1, NothingIsForgotten DEF RoadmapInv, Settled
  <2>2. CASE cleaner # "found" /\ cleaner' = "found"
    <3>1. ASSUME NEW c \in Callers, CallerStep(c) PROVE cleaner' = cleaner
      BY <3>1 DEF CallerStep, LookForTopics, WinClaim, LoseClaim, QueueTask, QueueFails,
                  CallerDies, Go
    <3>2. ASSUME NEW i \in TaskIds, WorkerStep(i) \/ TaskLost(i) \/ TaskRedelivered(i)
          PROVE  cleaner' = cleaner
      BY <3>2 DEF WorkerStep, StartBuild, InsertTopics, InsertConflict, BuildFails,
                  RetryLater, SetReady, RequestBatch, TaskLost, TaskRedelivered, Return,
                  TaskStep
    <3>3. FindStuck
      BY <2>2, <3>1, <3>2 DEF Next, CleanerStep, FailStuck, Age, vars
    <3>4. QED
      BY <3>3 DEF FindStuck, subjectVars
  <2>3. QED
    BY <2>1, <2>2
<1>3. ASSUME batched' \/ \E i \in TaskIds : task'[i].stage = "batch", ~ disturbed'
      PROVE  status' = "READY"
  <2>1. ~ disturbed /\ (status = "READY" => status' = "READY")
    BY <1>3, NothingIsForgotten, ReadyStays DEF RoadmapInv
  <2>2. CASE batched \/ \E i \in TaskIds : task[i].stage = "batch"
    BY <2>1, <2>2 DEF Settled
  <2>3. CASE \E i \in TaskIds : task[i].stage # "batch" /\ task'[i].stage = "batch"
    BY <1>1, <2>3, BatchStays
  <2>4. CASE ~ batched /\ batched'
    <3>1. ASSUME NEW c \in Callers, CallerStep(c) PROVE batched' = batched
      BY <3>1 DEF CallerStep, LookForTopics, WinClaim, LoseClaim, QueueTask, QueueFails,
                  CallerDies, subjectVars
    <3>2. PICK i \in TaskIds : RequestBatch(i)
      <4>1. ASSUME NEW i \in TaskIds, ~ RequestBatch(i),
                   WorkerStep(i) \/ TaskLost(i) \/ TaskRedelivered(i)
            PROVE  batched' = batched
        BY <4>1 DEF WorkerStep, StartBuild, InsertTopics, InsertConflict, BuildFails,
                    RetryLater, SetReady, TaskLost, TaskRedelivered, subjectVars
      <4>2. QED
        BY <2>4, <3>1, <4>1 DEF Next, CleanerStep, FindStuck, FailStuck, Age, vars,
                                subjectVars
    <3>3. QED
      BY <2>2, <3>2 DEF RequestBatch
  <2>5. QED
    BY <1>3, <2>2, <2>3, <2>4
<1>4. QED
  BY <1>2, <1>3 DEF Settled

\* What interferes keeps what the lifecycle promises even then.
LEMMA Interferes ==
  ASSUME RoadmapInv, [Next]_vars, disturbed' PROVE Lifecycle!Interfere
<1>1. BuildInv' /\ TypesButInserts
  BY NextBuild DEF RoadmapInv, BuildInv
<1>2. status' \in Status /\ topics' \in BOOLEAN /\ batched' \in BOOLEAN /\ disturbed' = TRUE
  BY <1>1 DEF BuildInv, TypesButInserts
<1>3. status' = "READY" \/ batched' => topics'
  BY <1>1 DEF BuildInv, TopicsInv, ReadyHasTopics
<1>4. Phase' \in {"working", "ready", "failed"} \cup {Phase}
  BY <1>1, <1>2, NothingIsForgotten DEF RoadmapInv, Phase, Status
<1>5. Phase' = "ready" => status' = "READY"
  BY <1>2 DEF Phase, Status
<1>6. topics' \in {topics, TRUE} /\ batched' \in {batched, TRUE}
  BY <1>1, <1>2, NothingIsForgotten DEF RoadmapInv, TypesButInserts
<1>7. QED
  BY <1>2, <1>3, <1>4, <1>5, <1>6 DEF Lifecycle!Interfere

\* The subject's own variables, as the lifecycle sees them, stay.
Stutters == UNCHANGED <<status, topics, batched, disturbed>>

\* A step of a request starts the roadmap, fails it, or changes no phase.
LEMMA CallerLives ==
  ASSUME RoadmapInv, ~ disturbed', NEW c \in Callers, CallerStep(c)
  PROVE  Lifecycle!Start \/ Lifecycle!Fail \/ Stutters
<1>1. disturbed' = disturbed
  BY DEF CallerStep, LookForTopics, WinClaim, LoseClaim, QueueTask, QueueFails, CallerDies,
         subjectVars
<1>2. CASE WinClaim(c)
  BY <1>2 DEF WinClaim, Lifecycle!Start, Phase
<1>3. CASE QueueFails(c)
  <2>1. status = "GENERATING"
    BY <1>1, <1>3 DEF RoadmapInv, SingleBuilder, Held, QueueFails, CallerHolds
  <2>2. QED
    BY <1>3, <2>1 DEF QueueFails, Lifecycle!Fail, Phase
<1>4. QED
  BY <1>2, <1>3 DEF CallerStep, LookForTopics, LoseClaim, QueueTask, CallerDies,
                    subjectVars, Stutters

\* A step of a worker that owns the roadmap takes it on, or changes no phase.
LEMMA WorkerLives ==
  ASSUME RoadmapInv, Settled, ~ disturbed, ~ disturbed', NEW i \in TaskIds,
         WorkerStep(i) \/ TaskLost(i) \/ TaskRedelivered(i)
  PROVE  Lifecycle!Insert \/ Lifecycle!Finish \/ Lifecycle!Fail \/ Lifecycle!Serve \/ Stutters
<1>1. task[i].stage \in HoldingStages => status = "GENERATING"
  BY DEF RoadmapInv, SingleBuilder, Held, TaskHolds
<1>2. disturbed' = disturbed
  <2>1. BuildInv' /\ BuildInv
    BY NextBuild DEF RoadmapInv, Next
  <2>2. QED
    BY <2>1 DEF BuildInv, TypesButInserts
<1>3. CASE InsertTopics(i)
  BY <1>1, <1>3 DEF InsertTopics, HoldingStages, Lifecycle!Insert, Phase
<1>4. CASE BuildFails(i)
  BY <1>1, <1>2, <1>4 DEF BuildFails, HoldingStages, Lifecycle!Fail, Phase
<1>5. CASE SetReady(i)
  <2>1. topics /\ status = "GENERATING"
    BY <1>1, <1>5 DEF SetReady, HoldingStages, RoadmapInv, BuildInv, TopicsInv,
                      TasksKnowTopics
  <2>2. QED
    BY <1>5, <2>1 DEF SetReady, Lifecycle!Finish, Phase
<1>6. CASE RequestBatch(i)
  <2>1. status = "READY"
    BY <1>6 DEF RequestBatch, Settled
  <2>2. QED
    BY <1>2, <1>6, <2>1 DEF RequestBatch, Lifecycle!Serve, Phase
<1>7. QED
  BY <1>2, <1>3, <1>4, <1>5, <1>6
     DEF WorkerStep, StartBuild, InsertConflict, RetryLater, TaskLost, TaskRedelivered,
         subjectVars, Stutters

\* Generation implements the lifecycle: for any number of requests and messages,
\* any retry limit and under every fault, a roadmap that no stale cleanup and no
\* redelivered message reached moves through its phases in order.
THEOREM GenerationImplementsLifecycle == Spec => ImplementsLifecycle
<1>1. Init => Lifecycle!Init /\ Settled
  BY DEF Init, Lifecycle!Init, Phase, Settled, NoTask
<1>2. RoadmapInv /\ Settled /\ [Next]_vars => Settled'
  BY SettledStep
<1>3. RoadmapInv /\ Settled /\ [Next]_vars => [Lifecycle!Next]_(Lifecycle!vars)
  <2> SUFFICES ASSUME RoadmapInv, Settled, [Next]_vars
               PROVE  [Lifecycle!Next]_(Lifecycle!vars)
    OBVIOUS
  <2>1. CASE disturbed'
    BY <2>1, Interferes DEF Lifecycle!Next
  <2>2. CASE ~ disturbed'
    <3>1. ~ disturbed
      BY <2>2, NothingIsForgotten DEF RoadmapInv, BuildInv
    <3>2. Stutters => Lifecycle!vars' = Lifecycle!vars
      BY DEF Stutters, Lifecycle!vars, Phase
    <3>3. CASE CleanerStep
      <4>1. \/ status # "READY" /\ status # "NOT_GENERATED" /\ FailStuck
            \/ FindStuck
        BY <2>2, <3>3 DEF CleanerStep, FailStuck, Settled
      <4>2. status \in Status /\ disturbed' = disturbed
        <5>1. BuildInv' /\ BuildInv
          BY NextBuild DEF RoadmapInv
        <5>2. QED
          BY <2>2, <3>1, <5>1 DEF BuildInv, TypesButInserts
      <4>3. status = "GENERATING" /\ FailStuck => Lifecycle!Fail
        BY <4>2 DEF FailStuck, Lifecycle!Fail, Phase
      <4>4. (status = "FAILED" /\ FailStuck) \/ FindStuck => Stutters
        BY <4>2 DEF FailStuck, FindStuck, subjectVars, Stutters
      <4>5. Lifecycle!Fail \/ Stutters
        BY <4>1, <4>2, <4>3, <4>4 DEF Status
      <4>6. QED
        BY <3>1, <3>2, <4>5 DEF Lifecycle!Next
    <3>4. CASE Age \/ UNCHANGED vars
      BY <3>2, <3>4 DEF Age, vars, subjectVars, Stutters
    <3>5. QED
      BY <2>2, <3>1, <3>2, <3>3, <3>4, CallerLives, WorkerLives DEF Next, Lifecycle!Next
  <2>3. QED
    BY <2>1, <2>2
<1>4. QED
  BY <1>1, <1>2, <1>3, RoadmapInvariant, PTL
     DEF Spec, ImplementsLifecycle, Lifecycle!Spec
=============================================================================
