------------------------- MODULE TopicContentProofs -------------------------
(***************************************************************************)
(* Theorems about TopicContent, for any number of topics, requests and     *)
(* messages, any retry and review limits, and any set of faults, and the   *)
(* refinement of ContentLifecycle, which they end with.                    *)
(***************************************************************************)
EXTENDS TopicContent, TLAPS

-----------------------------------------------------------------------------
(* Type correctness *)

\* What a caller does after a topic is a state of a caller.
LEMMA AfterRequestType ==
  ASSUME TypeOK, NEW c \in Callers, NEW after \in AfterRequest(c)
  PROVE  after \in CallerState
<1>1. caller[c] \in CallerState
  BY DEF TypeOK
<1>2. 1 \in Topics
  BY ParametersOK DEF Topics
<1>3. CASE caller[c].op = "open"
  BY <1>1, <1>3 DEF AfterRequest, CallerState
<1>4. CASE caller[c].op # "open" /\ caller[c].todo = {}
  BY <1>2, <1>4 DEF AfterRequest, CallerState, Idle
<1>5. CASE caller[c].op # "open" /\ caller[c].todo # {}
  <2>1. PICK u \in caller[c].todo :
          after = [caller[c] EXCEPT !.pc = "claim", !.topic = u,
                                    !.todo = @ \ {u}]
    BY <1>5 DEF AfterRequest
  <2>2. u \in Topics /\ caller[c].todo \ {u} \in SUBSET Topics
    BY <1>1 DEF CallerState
  <2>3. QED
    BY <1>1, <2>1, <2>2 DEF CallerState
<1>6. QED
  BY <1>3, <1>4, <1>5

\* Messages, first or delivered again, are states of a task.
LEMMA MessageType ==
  ASSUME TypeOK, NEW i \in TaskIds
  PROVE  /\ NoTask \in TaskState
         /\ MessageOf(i) \in TaskState
         /\ GenerateMessage(task[i].topic, task[i].retries) \in TaskState
         /\ GenerateMessage(task[i].topic, 0) \in TaskState
         /\ ReviewMessage(task[i].topic) \in TaskState
         /\ task[i].topic \in Topics
<1>1. task[i] \in TaskState
  BY DEF TypeOK
<1>2. 1 \in Topics /\ 0 \in 0 .. MaxRetries
  BY ParametersOK DEF Topics
<1>3. QED
  BY <1>1, <1>2 DEF TaskState, NoTask, MessageOf, GenerateMessage,
                    ReviewMessage, Stages

\* A step of a caller keeps the types.
LEMMA CallerStepType ==
  ASSUME TypeOK, NEW c \in Callers, CallerStep(c)
  PROVE  TypeOK'
<1>1. caller[c] \in CallerState /\ caller[c].topic \in Topics
  BY DEF TypeOK, CallerState
<1>2. 1 \in Topics /\ Idle \in CallerState
  BY ParametersOK DEF Topics, CallerState, Idle
<1>3. ASSUME NEW t \in Topics, OpenTopic(c, t)
      PROVE  TypeOK'
  BY <1>3 DEF OpenTopic, Go, TypeOK, CallerState, topicVars
<1>4. ASSUME NEW t \in Topics, RetryTopic(c, t)
      PROVE  TypeOK'
  <2>1. caller' \in [Callers -> CallerState] /\ UNCHANGED <<task, cleaner>>
    BY <1>4 DEF RetryTopic, Go, TypeOK, CallerState
  <2>2. /\ status' \in [Topics -> Status]
        /\ review' \in [Topics -> ReviewStatus]
        /\ attempts' \in [Topics -> 0 .. ReviewLimit]
        /\ started' \in [Topics -> Ages]
        /\ UNCHANGED <<stored, approved, disturbed>>
    BY <1>4, ParametersOK
       DEF RetryTopic, TypeOK, Status, ReviewStatus, Ages, topicVars
  <2>3. QED
    BY <2>1, <2>2 DEF TypeOK
<1>5. CASE BufferAhead(c)
  <2> DEFINE next == {u \in Topics :
                u \in {caller[c].topic + 1, caller[c].topic + 2}
                  /\ status[u] = "NOT_GENERATED"}
  <2>1. caller' \in [Callers -> CallerState]
    <3>1. CASE next = {}
      BY <1>5, <1>2, <3>1 DEF BufferAhead, Go, TypeOK
    <3>2. CASE next # {}
      <4>1. PICK u \in next :
              Go(c, [pc |-> "claim", op |-> "single", topic |-> u,
                     todo |-> next \ {u}])
        BY <1>5, <3>2 DEF BufferAhead
      <4>2. QED
        BY <4>1 DEF Go, TypeOK, CallerState
    <3>3. QED
      BY <3>1, <3>2
  <2>2. UNCHANGED <<topicVars, task, cleaner>>
    BY <1>5 DEF BufferAhead, Go
  <2>3. QED
    BY <2>1, <2>2 DEF TypeOK, topicVars
<1>6. CASE InitialBatch(c)
  <2> DEFINE first == {u \in Topics : u <= 3 /\ status[u] = "NOT_GENERATED"}
  <2>1. PICK u \in first :
          Go(c, [pc |-> "claim", op |-> "single", topic |-> u,
                 todo |-> first \ {u}])
    BY <1>6 DEF InitialBatch
  <2>2. caller' \in [Callers -> CallerState] /\ UNCHANGED <<task, cleaner>>
    BY <2>1 DEF Go, TypeOK, CallerState
  <2>3. QED
    BY <1>6, <2>2 DEF InitialBatch, TypeOK, topicVars
<1>7. CASE Notify(c)
  BY <1>7 DEF Notify, Go, TypeOK, CallerState, topicVars
<1>8. CASE NotifyReset(c)
  <2>1. caller' \in [Callers -> CallerState]
    BY <1>1, <1>8 DEF NotifyReset, Go, TypeOK, CallerState
  <2>2. disturbed' \in [Topics -> BOOLEAN]
    <3>1. (disturbed[caller[c].topic] \/ Busy(caller[c].topic)) \in BOOLEAN
      BY DEF Busy, Held
    <3>2. QED
      BY <1>1, <1>8, <3>1 DEF NotifyReset, TypeOK
  <2>3. QED
    BY <1>8, <2>1, <2>2 DEF NotifyReset, Go, TypeOK, Status
<1>9. CASE WinClaim(c)
  BY <1>1, <1>9 DEF WinClaim, Claim, Go, TypeOK, CallerState, Status, Ages
<1>10. CASE LoseClaim(c)
  BY <1>10, AfterRequestType DEF LoseClaim, ClaimLost, Go, TypeOK, topicVars
<1>11. ASSUME NEW i \in TaskIds, QueueTask(c, i)
       PROVE  TypeOK'
  <2>1. GenerateMessage(caller[c].topic, 0) \in TaskState
    BY <1>1, ParametersOK DEF GenerateMessage, TaskState, Stages
  <2>2. QED
    BY <1>11, <2>1, AfterRequestType DEF QueueTask, TypeOK, topicVars
<1>12. CASE QueueFails(c)
  BY <1>1, <1>12, AfterRequestType
     DEF QueueFails, SurfaceBrokerFailure, Go, TypeOK, Status
<1>13. CASE CallerDies(c)
  BY <1>2, <1>13 DEF CallerDies, Go, TypeOK, topicVars
<1>14. QED
  BY <1>3, <1>4, <1>5, <1>6, <1>7, <1>8, <1>9, <1>10, <1>11, <1>12, <1>13
     DEF CallerStep

\* Returning from a task keeps the types of what it touches.
LEMMA ReturnType ==
  ASSUME TypeOK, NEW i \in TaskIds, Return(i)
  PROVE  /\ task' \in [TaskIds -> TaskState]
         /\ disturbed' \in [Topics -> BOOLEAN]
         /\ UNCHANGED <<caller, cleaner>>
<1>1. CASE TaskStep(i, NoTask) /\ UNCHANGED disturbed
  BY <1>1, MessageType DEF TaskStep, TypeOK
<1>2. CASE /\ TaskStep(i, MessageOf(i))
           /\ disturbed' = [disturbed EXCEPT ![task[i].topic] = TRUE]
  <2>1. disturbed' \in [Topics -> BOOLEAN]
    BY <1>2 DEF TypeOK
  <2>2. QED
    BY <1>2, <2>1, MessageType DEF TaskStep, TypeOK
<1>3. QED
  BY <1>1, <1>2 DEF Return

\* Marking a topic FAILED keeps the types.
LEMMA MarkFailedType ==
  ASSUME TypeOK, NEW t \in Topics, MarkFailed(t)
  PROVE  /\ status' \in [Topics -> Status]
         /\ review' \in [Topics -> ReviewStatus]
         /\ UNCHANGED <<attempts, started, stored, approved>>
BY DEF MarkFailed, TypeOK, Status, ReviewStatus

\* A step of a Celery task keeps the types.
LEMMA WorkerStepType ==
  ASSUME TypeOK, NEW i \in TaskIds, WorkerStep(i)
  PROVE  TypeOK'
<1> DEFINE t == task[i].topic
<1>1. task[i] \in TaskState /\ t \in Topics
  BY DEF TypeOK, TaskState
<1>2. CASE SaveContent(i)
  <2>1. /\ stored' \in [Topics -> BOOLEAN]
        /\ approved' \in [Topics -> BOOLEAN]
    BY <1>2 DEF SaveContent, TypeOK
  <2>2. task' \in [TaskIds -> TaskState]
    <3>1. [task[i] EXCEPT !.stage = "saved"] \in TaskState
      BY <1>1 DEF TaskState, Stages
    <3>2. \A j \in TaskIds : /\ task[j] \in TaskState
                             /\ [task[j] EXCEPT !.current = FALSE] \in TaskState
      BY DEF TypeOK, TaskState
    <3>3. QED
      BY <1>2, <3>1, <3>2 DEF SaveContent
  <2>3. QED
    BY <1>2, <2>1, <2>2 DEF SaveContent, TypeOK
<1>3. CASE GenerationFails(i)
  BY <1>1, <1>3, ReturnType, MarkFailedType DEF GenerationFails, TypeOK
<1>4. CASE RetryLater(i)
  <2>1. task[i].retries + 1 \in 0 .. MaxRetries
    BY <1>1, <1>4, ParametersOK DEF RetryLater, TaskState
  <2>2. GenerateMessage(t, task[i].retries + 1) \in TaskState
    BY <1>1, <2>1 DEF GenerateMessage, TaskState, Stages
  <2>3. QED
    BY <1>4, <2>2 DEF RetryLater, TaskStep, TypeOK, topicVars
<1>5. CASE ProvidersFail(i)
  BY <1>1, <1>5, ReturnType, MarkFailedType DEF ProvidersFail, TypeOK
<1>6. CASE QueueReview(i)
  BY <1>6, MessageType DEF QueueReview, TaskStep, TypeOK, topicVars
<1>7. ASSUME NEW j \in TaskIds, QueueReviewUnacked(i, j)
      PROVE  TypeOK'
  BY <1>1, <1>7, MessageType DEF QueueReviewUnacked, TypeOK
<1>8. ASSUME NEW j \in TaskIds, RequeueUnacked(i, j)
      PROVE  TypeOK'
  BY <1>1, <1>8, MessageType DEF RequeueUnacked, TypeOK
<1>9. CASE QueueReviewFails(i)
  BY <1>9, MessageType DEF QueueReviewFails, TaskStep, TypeOK, topicVars
<1>10. CASE ReadContent(i)
  BY <1>1, <1>10 DEF ReadContent, TaskStep, TypeOK, TaskState, Stages, topicVars
<1>11. CASE ReviewPasses(i)
  <2>1. /\ status' \in [Topics -> Status]
        /\ review' \in [Topics -> ReviewStatus]
    BY <1>11 DEF ReviewPasses, TypeOK, Status, ReviewStatus
  <2>2. approved' \in [Topics -> BOOLEAN]
    <3>1. (approved[t] \/ task[i].current) \in BOOLEAN
      OBVIOUS
    <3>2. PICK b \in BOOLEAN : approved' = [approved EXCEPT ![t] = b]
      BY <1>11, <3>1, Zenon DEF ReviewPasses
    <3>3. QED
      BY <3>2 DEF TypeOK
  <2>3. QED
    BY <1>11, <2>1, <2>2, ReturnType DEF ReviewPasses, TypeOK
<1>12. CASE ReviewFails(i)
  <2>1. attempts' \in [Topics -> 0 .. ReviewLimit]
    <3>1. attempts[t] \in 0 .. ReviewLimit
      BY <1>1 DEF TypeOK
    <3>2. (IF attempts[t] < ReviewLimit THEN attempts[t] + 1 ELSE attempts[t])
            \in 0 .. ReviewLimit
      BY <3>1, ParametersOK
    <3>3. QED
      BY <1>12, <3>2 DEF ReviewFails, TypeOK
  <2>2. task' \in [TaskIds -> TaskState]
    BY <1>1, <1>12 DEF ReviewFails, TaskStep, TypeOK, TaskState, Stages
  <2>3. QED
    BY <1>12, <2>1, <2>2 DEF ReviewFails, TaskStep, TypeOK
<1>13. CASE ReleaseForRetry(i)
  BY <1>1, <1>13
     DEF ReleaseForRetry, TaskStep, TypeOK, TaskState, Stages, Status, Ages
<1>14. CASE GiveUp(i)
  BY <1>1, <1>14, ReturnType, MarkFailedType DEF GiveUp, TypeOK
<1>15. CASE Reclaim(i)
  BY <1>1, <1>15
     DEF Reclaim, Claim, TaskStep, TypeOK, TaskState, Stages, Status, Ages
<1>16. CASE ReclaimLost(i)
  BY <1>16, ReturnType DEF ReclaimLost, TypeOK
<1>17. CASE Requeue(i)
  BY <1>17, MessageType DEF Requeue, TaskStep, TypeOK, topicVars
<1>18. CASE RequeueFails(i)
  BY <1>1, <1>18, MessageType
     DEF RequeueFails, SurfaceBrokerFailure, TaskStep, TypeOK, Status
<1>19. CASE TaskLost(i)
  BY <1>19, MessageType DEF TaskLost, TaskStep, TypeOK, topicVars
<1>20. CASE TaskRedelivered(i)
  BY <1>1, <1>20, MessageType DEF TaskRedelivered, TaskStep, TypeOK
<1>21. QED
  BY <1>2, <1>3, <1>4, <1>5, <1>6, <1>7, <1>8, <1>9, <1>10, <1>11, <1>12,
     <1>13, <1>14, <1>15, <1>16, <1>17, <1>18, <1>19, <1>20 DEF WorkerStep

\* A step of the cleanup keeps the types.
LEMMA CleanerStepType ==
  ASSUME TypeOK, CleanerStep
  PROVE  TypeOK'
<1>1. CASE FindStuck
  BY <1>1 DEF FindStuck, Clean, TypeOK, CleanerState, topicVars
<1>2. CASE ResetStuck
  <2>1. \A t \in Topics : (disturbed[t] \/ (t \in cleaner.ids /\ Busy(t))) \in BOOLEAN
    BY DEF Busy, Held
  <2>2. QED
    BY <1>2, <2>1 DEF ResetStuck, Clean, TypeOK, CleanerState, Status, Ages
<1>3. CASE FindFailed
  BY <1>3 DEF FindFailed, Clean, TypeOK, CleanerState, topicVars
<1>4. CASE ResetFailed
  <2>1. \A t \in Topics : (disturbed[t] \/ (t \in cleaner.ids /\ Busy(t))) \in BOOLEAN
    BY DEF Busy, Held
  <2>2. QED
    BY <1>4, <2>1
       DEF ResetFailed, Clean, TypeOK, CleanerState, Status, ReviewStatus, Ages
<1>5. QED
  BY <1>1, <1>2, <1>3, <1>4 DEF CleanerStep

\* Every reachable state has the types TypeOK gives: in particular the number
\* of tries of a task and of failed reviews stays within its limit.
THEOREM TypeCorrect == Spec => []TypeOK
<1>1. Init => TypeOK
  BY ParametersOK
     DEF Init, TypeOK, Topics, Status, ReviewStatus, Ages, CallerState, Idle,
         TaskState, Stages, NoTask, CleanerState
<1>2. TypeOK /\ [Next]_vars => TypeOK'
  <2> SUFFICES ASSUME TypeOK, [Next]_vars
               PROVE  TypeOK'
    OBVIOUS
  <2>1. ASSUME NEW t \in Topics, Age(t)
        PROVE  TypeOK'
    BY <2>1 DEF Age, TypeOK, Ages
  <2>2. CASE UNCHANGED vars
    BY <2>2 DEF vars, topicVars, TypeOK
  <2>3. QED
    BY <2>1, <2>2, CallerStepType, WorkerStepType, CleanerStepType DEF Next
<1>3. QED
  BY <1>1, <1>2, PTL DEF Spec

-----------------------------------------------------------------------------
(* One owner at a time *)

\* The inductive invariant: the single owner of a topic finds it GENERATING,
\* and what it stored is what its review reads.
OwnerInv == TypeOK /\ SingleFlight /\ Ownership /\ ReadyMeansReviewed

\* What is delivered again is about the same topic, and a review only if the
\* task was one.
LEMMA MessageFrame ==
  ASSUME TypeOK, NEW i \in TaskIds
  PROVE  /\ MessageOf(i).topic = task[i].topic
         /\ MessageOf(i).stage \in {"generate", "review"}
         /\ MessageOf(i).stage = "review" =>
              task[i].stage \in ReviewStages \cup {"none"}
<1>1. task[i].stage \in Stages
  BY DEF TypeOK, TaskState
<1>2. QED
  BY <1>1 DEF MessageOf, GenerateMessage, ReviewMessage, GenerateStages,
              ReviewStages, Stages

\* A task that returns holds nothing afterwards, unless its message comes
\* back, and then its topic counts as disturbed.
LEMMA ReturnFrame ==
  ASSUME TypeOK, NEW i \in TaskIds, ~ FreeTask(i), Return(i)
  PROVE  /\ \A j \in TaskIds : j # i => task'[j] = task[j]
         /\ \A t \in Topics : ~ disturbed'[t] =>
              ~ disturbed[t] /\ ~ TaskHolds(i, t)'
         /\ task'[i].stage \in {"saved"} \cup ReviewStages =>
              /\ task'[i].topic = task[i].topic
              /\ task[i].stage \in ReviewStages
         /\ task'[i].stage # "reviewing"
<1>1. task[i].topic \in Topics /\ task[i] \in TaskState /\ ~ FreeTask(i)
  BY DEF TypeOK, TaskState
<1>2. CASE TaskStep(i, NoTask) /\ UNCHANGED disturbed
  BY <1>1, <1>2 DEF TaskStep, NoTask, TypeOK, TaskHolds, HoldingStages, ReviewStages
<1>3. CASE /\ TaskStep(i, MessageOf(i))
           /\ disturbed' = [disturbed EXCEPT ![task[i].topic] = TRUE]
  <2>1. /\ task'[i] = MessageOf(i)
        /\ \A j \in TaskIds : j # i => task'[j] = task[j]
    BY <1>3 DEF TaskStep, TypeOK
  <2>2. /\ task'[i].topic = task[i].topic
        /\ task'[i].stage \in {"generate", "review"}
        /\ task'[i].stage = "review" => task[i].stage \in ReviewStages \cup {"none"}
    BY <2>1, MessageFrame
  <2>3. task[i].stage # "none"
    BY <1>1 DEF FreeTask
  <2>4. \A t \in Topics : ~ disturbed'[t] => ~ disturbed[t] /\ t # task[i].topic
    BY <1>3 DEF TypeOK
  <2>5. QED
    BY <1>1, <2>1, <2>2, <2>3, <2>4 DEF TaskHolds, ReviewStages
<1>4. QED
  BY <1>2, <1>3 DEF Return

\* A task that owns its topic may write its status as it returns; one that
\* does not own it must leave the status alone.
LEMMA ReleaseOwner ==
  ASSUME OwnerInv, TypeOK', NEW i \in TaskIds, ~ FreeTask(i), Return(i),
         UNCHANGED stored,
         \A u \in Topics : status'[u] = status[u] \/ TaskHolds(i, u)
  PROVE  SingleFlight' /\ Ownership'
<1>1. UNCHANGED caller /\ TypeOK
  BY DEF Return, TaskStep, OwnerInv
<1>2. ASSUME NEW j \in TaskIds, NEW u \in Topics, ~ disturbed'[u], TaskHolds(j, u)'
      PROVE  j # i /\ TaskHolds(j, u) /\ ~ disturbed[u]
  <2>1. j # i /\ ~ disturbed[u]
    BY <1>1, <1>2, ReturnFrame
  <2>2. task'[j] = task[j]
    BY <1>1, <2>1, ReturnFrame
  <2>3. QED
    BY <1>2, <2>1, <2>2 DEF TaskHolds
<1>3. \A c \in Callers, u \in Topics : CallerHolds(c, u)' <=> CallerHolds(c, u)
  BY <1>1 DEF CallerHolds
<1>4. \A u \in Topics : ~ disturbed'[u] => ~ disturbed[u]
  BY <1>1, ReturnFrame
<1>5. SingleFlight'
  BY <1>2, <1>3, <1>4 DEF OwnerInv, SingleFlight
<1>6. ASSUME NEW u \in Topics, ~ disturbed'[u], Held(u)'
      PROVE  status'[u] = "GENERATING"
  <2>1. Held(u) /\ ~ disturbed[u]
    BY <1>2, <1>3, <1>4, <1>6 DEF Held
  <2>2. status[u] = "GENERATING"
    BY <2>1 DEF OwnerInv, Ownership
  <2>3. ~ TaskHolds(i, u)
    BY <1>2, <1>3, <1>6, <2>1 DEF Held, OwnerInv, SingleFlight
  <2>4. QED
    BY <2>2, <2>3
<1>7. ASSUME NEW j \in TaskIds
      PROVE  /\ task'[j].stage \in {"saved"} \cup ReviewStages =>
                  stored'[task'[j].topic]
             /\ task'[j].stage = "reviewing" /\ ~ disturbed'[task'[j].topic] =>
                  task'[j].current
  <2>1. task[j].topic \in Topics
    BY <1>1 DEF TypeOK, TaskState
  <2>2. CASE j = i
    BY <1>1, <2>2, ReturnFrame DEF OwnerInv, Ownership
  <2>3. CASE j # i
    <3>1. task'[j] = task[j]
      BY <1>1, <2>3, ReturnFrame
    <3>2. QED
      BY <1>4, <2>1, <3>1 DEF OwnerInv, Ownership
  <2>4. QED
    BY <2>2, <2>3
<1>8. QED
  BY <1>5, <1>6, <1>7 DEF Ownership

\* Steps that change messages and nothing the other tasks look at keep one
\* owner per topic, if they add an owner only to a disturbed topic.
LEMMA MessagesOwner ==
  ASSUME OwnerInv, TypeOK', UNCHANGED <<status, stored, caller>>,
         \A u \in Topics : ~ disturbed'[u] => ~ disturbed[u],
         \A j \in TaskIds, u \in Topics :
           ~ disturbed'[u] /\ TaskHolds(j, u)' => TaskHolds(j, u),
         \A j \in TaskIds : task'[j].stage \in {"saved"} \cup ReviewStages =>
           \E k \in TaskIds : /\ task'[j].topic = task[k].topic
                              /\ task[k].stage \in {"saved"} \cup ReviewStages,
         \A j \in TaskIds : task'[j].stage = "reviewing" => task'[j] = task[j]
  PROVE  SingleFlight' /\ Ownership'
<1>1. \A c \in Callers, u \in Topics : CallerHolds(c, u)' <=> CallerHolds(c, u)
  BY DEF CallerHolds
<1>2. \A j \in TaskIds : task[j].topic \in Topics
  BY DEF OwnerInv, TypeOK, TaskState
<1>3. SingleFlight'
  BY <1>1 DEF OwnerInv, SingleFlight
<1>4. \A u \in Topics : ~ disturbed'[u] /\ Held(u)' => Held(u)
  BY <1>1 DEF Held
<1>5. QED
  BY <1>2, <1>3, <1>4 DEF OwnerInv, Ownership

\* A step of a Celery task keeps one owner per topic: it moves the claim along,
\* releases it, or returns and leaves nothing behind.
LEMMA WorkerStepOwner ==
  ASSUME OwnerInv, NEW i \in TaskIds, WorkerStep(i), TypeOK'
  PROVE  OwnerInv'
<1> USE DEF OwnerInv, SingleFlight, Ownership, ReadyMeansReviewed, Held,
            TaskHolds, CallerHolds, HoldingStages, GenerateStages,
            ReviewStages, TypeOK, TaskState, CallerState, topicVars
<1> DEFINE t == task[i].topic
<1>1. CASE SaveContent(i)
  <2>1. SingleFlight'
    BY <1>1 DEF SaveContent, NoTask, GenerateMessage, ReviewMessage, FreeTask
  <2>2. Ownership'
    BY <1>1 DEF SaveContent, NoTask, GenerateMessage, ReviewMessage, FreeTask
  <2>3. ReadyMeansReviewed'
    BY <1>1 DEF SaveContent, NoTask, GenerateMessage, ReviewMessage, FreeTask
  <2>4. QED
    BY <2>1, <2>2, <2>3
<1>2. CASE GenerationFails(i)
  <2>1. SingleFlight' /\ Ownership'
    BY <1>2, ReleaseOwner DEF GenerationFails, MarkFailed, FreeTask
  <2>2. ReadyMeansReviewed'
    BY <1>2, ReturnFrame DEF GenerationFails, MarkFailed, FreeTask
  <2>3. QED
    BY <2>1, <2>2
<1>3. CASE RetryLater(i)
  <2>1. SingleFlight'
    BY <1>3 DEF RetryLater, TaskStep, NoTask, GenerateMessage, ReviewMessage, FreeTask
  <2>2. Ownership'
    BY <1>3 DEF RetryLater, TaskStep, NoTask, GenerateMessage, ReviewMessage, FreeTask
  <2>3. ReadyMeansReviewed'
    BY <1>3 DEF RetryLater, TaskStep, NoTask, GenerateMessage, ReviewMessage, FreeTask
  <2>4. QED
    BY <2>1, <2>2, <2>3
<1>4. CASE ProvidersFail(i)
  <2>1. SingleFlight' /\ Ownership'
    BY <1>4, ReleaseOwner DEF ProvidersFail, MarkFailed, FreeTask
  <2>2. ReadyMeansReviewed'
    BY <1>4, ReturnFrame DEF ProvidersFail, MarkFailed, FreeTask
  <2>3. QED
    BY <2>1, <2>2
<1>5. CASE QueueReview(i)
  <2>1. SingleFlight'
    BY <1>5 DEF QueueReview, TaskStep, NoTask, GenerateMessage, ReviewMessage, FreeTask
  <2>2. Ownership'
    BY <1>5 DEF QueueReview, TaskStep, NoTask, GenerateMessage, ReviewMessage, FreeTask
  <2>3. ReadyMeansReviewed'
    BY <1>5 DEF QueueReview, TaskStep, NoTask, GenerateMessage, ReviewMessage, FreeTask
  <2>4. QED
    BY <2>1, <2>2, <2>3
<1>6. CASE QueueReviewFails(i)
  <2>1. SingleFlight'
    BY <1>6
         DEF QueueReviewFails, TaskStep, NoTask, GenerateMessage, ReviewMessage,
             FreeTask
  <2>2. Ownership'
    BY <1>6
         DEF QueueReviewFails, TaskStep, NoTask, GenerateMessage, ReviewMessage,
             FreeTask
  <2>3. ReadyMeansReviewed'
    BY <1>6
         DEF QueueReviewFails, TaskStep, NoTask, GenerateMessage, ReviewMessage,
             FreeTask
  <2>4. QED
    BY <2>1, <2>2, <2>3
<1>7. CASE ReadContent(i)
  <2>1. SingleFlight'
    BY <1>7 DEF ReadContent, TaskStep, NoTask, GenerateMessage, ReviewMessage, FreeTask
  <2>2. Ownership'
    BY <1>7 DEF ReadContent, TaskStep, NoTask, GenerateMessage, ReviewMessage, FreeTask
  <2>3. ReadyMeansReviewed'
    BY <1>7 DEF ReadContent, TaskStep, NoTask, GenerateMessage, ReviewMessage, FreeTask
  <2>4. QED
    BY <2>1, <2>2, <2>3
<1>8. CASE ReviewPasses(i)
  <2>1. SingleFlight' /\ Ownership'
    BY <1>8, ReleaseOwner DEF ReviewPasses, FreeTask
  <2>2. ReadyMeansReviewed'
    BY <1>8, ReturnFrame DEF ReviewPasses, FreeTask
  <2>3. QED
    BY <2>1, <2>2
<1>9. CASE ReviewFails(i)
  <2>1. SingleFlight'
    BY <1>9 DEF ReviewFails, TaskStep, NoTask, GenerateMessage, ReviewMessage, FreeTask
  <2>2. Ownership'
    BY <1>9 DEF ReviewFails, TaskStep, NoTask, GenerateMessage, ReviewMessage, FreeTask
  <2>3. ReadyMeansReviewed'
    BY <1>9 DEF ReviewFails, TaskStep, NoTask, GenerateMessage, ReviewMessage, FreeTask
  <2>4. QED
    BY <2>1, <2>2, <2>3
<1>10. CASE ReleaseForRetry(i)
  <2>1. SingleFlight'
    BY <1>10
         DEF ReleaseForRetry, TaskStep, NoTask, GenerateMessage, ReviewMessage, FreeTask
  <2>2. Ownership'
    BY <1>10
         DEF ReleaseForRetry, TaskStep, NoTask, GenerateMessage, ReviewMessage, FreeTask
  <2>3. ReadyMeansReviewed'
    BY <1>10
         DEF ReleaseForRetry, TaskStep, NoTask, GenerateMessage, ReviewMessage, FreeTask
  <2>4. QED
    BY <2>1, <2>2, <2>3
<1>11. CASE GiveUp(i)
  <2>1. SingleFlight' /\ Ownership'
    BY <1>11, ReleaseOwner DEF GiveUp, MarkFailed, FreeTask
  <2>2. ReadyMeansReviewed'
    BY <1>11, ReturnFrame DEF GiveUp, MarkFailed, FreeTask
  <2>3. QED
    BY <2>1, <2>2
<1>12. CASE Reclaim(i)
  <2>1. SingleFlight'
    BY <1>12
         DEF Reclaim, Claim, TaskStep, NoTask, GenerateMessage, ReviewMessage, FreeTask
  <2>2. Ownership'
    BY <1>12
         DEF Reclaim, Claim, TaskStep, NoTask, GenerateMessage, ReviewMessage, FreeTask
  <2>3. ReadyMeansReviewed'
    BY <1>12
         DEF Reclaim, Claim, TaskStep, NoTask, GenerateMessage, ReviewMessage, FreeTask
  <2>4. QED
    BY <2>1, <2>2, <2>3
<1>13. CASE ReclaimLost(i)
  <2>1. SingleFlight' /\ Ownership'
    BY <1>13, ReleaseOwner DEF ReclaimLost, FreeTask
  <2>2. ReadyMeansReviewed'
    BY <1>13, ReturnFrame DEF ReclaimLost, FreeTask
  <2>3. QED
    BY <2>1, <2>2
<1>14. CASE Requeue(i)
  <2>1. SingleFlight'
    BY <1>14 DEF Requeue, TaskStep, NoTask, GenerateMessage, ReviewMessage, FreeTask
  <2>2. Ownership'
    BY <1>14 DEF Requeue, TaskStep, NoTask, GenerateMessage, ReviewMessage, FreeTask
  <2>3. ReadyMeansReviewed'
    BY <1>14 DEF Requeue, TaskStep, NoTask, GenerateMessage, ReviewMessage, FreeTask
  <2>4. QED
    BY <2>1, <2>2, <2>3
<1>15. CASE RequeueFails(i)
  <2>1. SingleFlight'
    BY <1>15
         DEF RequeueFails, SurfaceBrokerFailure, TaskStep, NoTask, GenerateMessage,
             ReviewMessage, FreeTask
  <2>2. Ownership'
    BY <1>15
         DEF RequeueFails, SurfaceBrokerFailure, TaskStep, NoTask, GenerateMessage,
             ReviewMessage, FreeTask
  <2>3. ReadyMeansReviewed'
    BY <1>15
         DEF RequeueFails, SurfaceBrokerFailure, TaskStep, NoTask, GenerateMessage,
             ReviewMessage, FreeTask
  <2>4. QED
    BY <2>1, <2>2, <2>3
<1>16. CASE TaskLost(i)
  <2>1. SingleFlight'
    BY <1>16 DEF TaskLost, TaskStep, NoTask, GenerateMessage, ReviewMessage, FreeTask
  <2>2. Ownership'
    BY <1>16 DEF TaskLost, TaskStep, NoTask, GenerateMessage, ReviewMessage, FreeTask
  <2>3. ReadyMeansReviewed'
    BY <1>16 DEF TaskLost, TaskStep, NoTask, GenerateMessage, ReviewMessage, FreeTask
  <2>4. QED
    BY <2>1, <2>2, <2>3
<1>17. CASE TaskRedelivered(i)
  <2>1. /\ \A j \in TaskIds : j # i => task'[j] = task[j]
        /\ task'[i] = MessageOf(i)
    BY <1>17 DEF TaskRedelivered, TaskStep
  <2>2. \A u \in Topics : ~ disturbed'[u] =>
          ~ disturbed[u] /\ (u = t => task[i].stage # "reset")
    BY <1>17 DEF TaskRedelivered
  <2>3. \A j \in TaskIds, u \in Topics :
          ~ disturbed'[u] /\ TaskHolds(j, u)' => TaskHolds(j, u)
    BY <1>17, <2>1, <2>2, MessageFrame DEF TaskRedelivered, FreeTask, Stages
  <2>4. \A j \in TaskIds : task'[j].stage = "reviewing" => task'[j] = task[j]
    BY <2>1, MessageFrame
  <2>5. \A j \in TaskIds : task'[j].stage \in {"saved"} \cup ReviewStages =>
          /\ task'[j].topic = task[j].topic
          /\ task[j].stage \in {"saved"} \cup ReviewStages
    BY <1>17, <2>1, MessageFrame DEF TaskRedelivered, FreeTask
  <2>6. SingleFlight' /\ Ownership'
    BY <1>17, <2>2, <2>3, <2>4, <2>5, MessagesOwner DEF TaskRedelivered, TaskStep
  <2>7. ReadyMeansReviewed'
    BY <1>17, <2>2 DEF TaskRedelivered
  <2>8. QED
    BY <2>6, <2>7
<1>18. ASSUME NEW j \in TaskIds, QueueReviewUnacked(i, j)
      PROVE  OwnerInv'
  <2>1. /\ i # j /\ task'[i] = ReviewMessage(t) /\ task'[j] = MessageOf(i)
        /\ \A k \in TaskIds : k # i /\ k # j => task'[k] = task[k]
    BY <1>18 DEF QueueReviewUnacked, FreeTask
  <2>2. \A u \in Topics : ~ disturbed'[u] => ~ disturbed[u] /\ u # t
    BY <1>18 DEF QueueReviewUnacked
  <2>3. /\ task'[i].topic = t /\ task'[i].stage \in {"generate", "review"}
        /\ task'[j].topic = t /\ task'[j].stage \in {"generate", "review"}
    BY <2>1, MessageFrame DEF ReviewMessage, GenerateMessage
  <2>4. \A k \in TaskIds, u \in Topics :
          ~ disturbed'[u] /\ TaskHolds(k, u)' => TaskHolds(k, u)
    BY <2>1, <2>2, <2>3
  <2>5. \A k \in TaskIds : task'[k].stage = "reviewing" => task'[k] = task[k]
    BY <2>1, <2>3
  <2>6. \A k \in TaskIds : task'[k].stage \in {"saved"} \cup ReviewStages =>
          \E l \in TaskIds : /\ task'[k].topic = task[l].topic
                             /\ task[l].stage \in {"saved"} \cup ReviewStages
    BY <1>18, <2>1, <2>3 DEF QueueReviewUnacked
  <2>7. SingleFlight' /\ Ownership'
    BY <1>18, <2>2, <2>4, <2>5, <2>6, MessagesOwner DEF QueueReviewUnacked
  <2>8. ReadyMeansReviewed'
    BY <1>18, <2>2 DEF QueueReviewUnacked
  <2>9. QED
    BY <2>7, <2>8
<1>19. ASSUME NEW j \in TaskIds, RequeueUnacked(i, j)
      PROVE  OwnerInv'
  <2>1. /\ i # j /\ task'[i] = GenerateMessage(t, 0) /\ task'[j] = MessageOf(i)
        /\ \A k \in TaskIds : k # i /\ k # j => task'[k] = task[k]
    BY <1>19 DEF RequeueUnacked, FreeTask
  <2>2. \A u \in Topics : ~ disturbed'[u] => ~ disturbed[u] /\ u # t
    BY <1>19 DEF RequeueUnacked
  <2>3. /\ task'[i].topic = t /\ task'[i].stage \in {"generate", "review"}
        /\ task'[j].topic = t /\ task'[j].stage \in {"generate", "review"}
    BY <2>1, MessageFrame DEF ReviewMessage, GenerateMessage
  <2>4. \A k \in TaskIds, u \in Topics :
          ~ disturbed'[u] /\ TaskHolds(k, u)' => TaskHolds(k, u)
    BY <2>1, <2>2, <2>3
  <2>5. \A k \in TaskIds : task'[k].stage = "reviewing" => task'[k] = task[k]
    BY <2>1, <2>3
  <2>6. \A k \in TaskIds : task'[k].stage \in {"saved"} \cup ReviewStages =>
          \E l \in TaskIds : /\ task'[k].topic = task[l].topic
                             /\ task[l].stage \in {"saved"} \cup ReviewStages
    BY <1>19, <2>1, <2>3 DEF RequeueUnacked
  <2>7. SingleFlight' /\ Ownership'
    BY <1>19, <2>2, <2>4, <2>5, <2>6, MessagesOwner DEF RequeueUnacked
  <2>8. ReadyMeansReviewed'
    BY <1>19, <2>2 DEF RequeueUnacked
  <2>9. QED
    BY <2>7, <2>8
<1>20. QED
  BY <1>1, <1>2, <1>3, <1>4, <1>5, <1>6, <1>7, <1>8, <1>9, <1>10, <1>11, <1>12, <1>13,
     <1>14, <1>15, <1>16, <1>17, <1>18, <1>19
       DEF WorkerStep

\* What a caller does after a topic never owns one.
LEMMA AfterRequestFrame ==
  ASSUME NEW c \in Callers, TypeOK, NEW after \in AfterRequest(c)
  PROVE  after.pc # "publish"
<1>1. caller[c] \in CallerState
  BY DEF TypeOK
<1>2. CASE caller[c].op = "open"
  BY <1>1, <1>2 DEF AfterRequest, CallerState
<1>3. CASE caller[c].op # "open" /\ caller[c].todo = {}
  BY <1>3 DEF AfterRequest, Idle
<1>4. CASE caller[c].op # "open" /\ caller[c].todo # {}
  BY <1>1, <1>4 DEF AfterRequest, CallerState
<1>5. QED
  BY <1>2, <1>3, <1>4

\* A caller that does not come to own a topic may reset topics nobody owns.
LEMMA CallerMovesOwner ==
  ASSUME OwnerInv, TypeOK', NEW c \in Callers, NEW state, Go(c, state),
         state.pc # "publish", UNCHANGED stored,
         \A u \in Topics : ~ disturbed'[u] =>
           ~ disturbed[u] /\ (status'[u] = status[u] \/ ~ Held(u))
  PROVE  SingleFlight' /\ Ownership'
<1>1. UNCHANGED task /\ caller' = [caller EXCEPT ![c] = state]
  BY DEF Go
<1>2. \A d \in Callers, u \in Topics : CallerHolds(d, u)' => CallerHolds(d, u)
  BY <1>1 DEF CallerHolds, OwnerInv, TypeOK
<1>3. \A i \in TaskIds, u \in Topics : TaskHolds(i, u)' <=> TaskHolds(i, u)
  BY <1>1 DEF TaskHolds
<1>4. SingleFlight'
  BY <1>2, <1>3 DEF OwnerInv, SingleFlight
<1>5. \A u \in Topics : Held(u)' => Held(u)
  BY <1>2, <1>3 DEF Held
<1>6. \A i \in TaskIds : task[i].topic \in Topics
  BY DEF OwnerInv, TypeOK, TaskState
<1>7. QED
  BY <1>1, <1>4, <1>5, <1>6 DEF OwnerInv, Ownership

\* A step of a request or notification keeps one owner per topic: it takes the
\* claim of a topic nobody owns, hands it to a task, or owns nothing.
LEMMA CallerStepOwner ==
  ASSUME OwnerInv, NEW c \in Callers, CallerStep(c), TypeOK'
  PROVE  OwnerInv'
<1> USE DEF OwnerInv, SingleFlight, Ownership, ReadyMeansReviewed, Held,
            TaskHolds, CallerHolds, HoldingStages, ReviewStages, TypeOK,
            TaskState, CallerState, topicVars, Go, At
<1>1. ASSUME NEW t \in Topics, OpenTopic(c, t)
      PROVE  OwnerInv'
  <2>1. SingleFlight'
    BY <1>1 DEF OpenTopic
  <2>2. Ownership'
    BY <1>1 DEF OpenTopic
  <2>3. ReadyMeansReviewed'
    BY <1>1 DEF OpenTopic
  <2>4. QED
    BY <2>1, <2>2, <2>3
<1>2. ASSUME NEW t \in Topics, RetryTopic(c, t)
      PROVE  OwnerInv'
  <2>1. \A u \in Topics : /\ disturbed'[u] = disturbed[u]
                          /\ status'[u] = status[u] \/ status[u] = "FAILED"
    BY <1>2 DEF RetryTopic
  <2>2. \A u \in Topics : ~ disturbed[u] /\ status[u] = "FAILED" => ~ Held(u)
    OBVIOUS
  <2>3. SingleFlight' /\ Ownership'
    <3>1. UNCHANGED stored
      BY <1>2 DEF RetryTopic
    <3>2. Go(c, [pc |-> "claim", op |-> "single", topic |-> t, todo |-> {}])
      BY <1>2 DEF RetryTopic
    <3>3. QED
      BY <2>1, <2>2, <3>1, <3>2, CallerMovesOwner
  <2>4. ReadyMeansReviewed'
    BY <1>2 DEF RetryTopic
  <2>5. QED
    BY <2>3, <2>4
<1>3. CASE BufferAhead(c)
  <2>1. PICK state : Go(c, state) /\ state.pc # "publish"
    BY <1>3 DEF BufferAhead, Idle
  <2>2. SingleFlight' /\ Ownership'
    BY <1>3, <2>1, CallerMovesOwner DEF BufferAhead
  <2>3. ReadyMeansReviewed'
    BY <1>3 DEF BufferAhead
  <2>4. QED
    BY <2>2, <2>3
<1>4. CASE InitialBatch(c)
  <2>1. SingleFlight'
    BY <1>4 DEF InitialBatch
  <2>2. Ownership'
    BY <1>4 DEF InitialBatch
  <2>3. ReadyMeansReviewed'
    BY <1>4 DEF InitialBatch
  <2>4. QED
    BY <2>1, <2>2, <2>3
<1>5. CASE Notify(c)
  <2>1. SingleFlight'
    BY <1>5 DEF Notify
  <2>2. Ownership'
    BY <1>5 DEF Notify
  <2>3. ReadyMeansReviewed'
    BY <1>5 DEF Notify
  <2>4. QED
    BY <2>1, <2>2, <2>3
<1>6. CASE NotifyReset(c)
  <2> DEFINE t == caller[c].topic
              state == [caller[c] EXCEPT !.pc = "claim"]
  <2>1. \A u \in Topics : ~ disturbed'[u] =>
          ~ disturbed[u] /\ (status'[u] = status[u] \/ ~ Busy(u))
    <3>1. \A u \in Topics : u # t => /\ disturbed'[u] = disturbed[u]
                                     /\ status'[u] = status[u]
      BY <1>6 DEF NotifyReset
    <3>2. t \in Topics /\ disturbed'[t] = (disturbed[t] \/ Busy(t))
      BY <1>6 DEF NotifyReset
    <3>3. QED
      BY <3>1, <3>2
  <2>2. SingleFlight' /\ Ownership'
    <3>1. UNCHANGED stored
      BY <1>6 DEF NotifyReset
    <3>2. Go(c, state) /\ state.pc # "publish"
      BY <1>6 DEF NotifyReset
    <3>3. QED
      BY <2>1, <3>1, <3>2, CallerMovesOwner DEF Busy
  <2>3. ReadyMeansReviewed'
    BY <1>6 DEF NotifyReset
  <2>4. QED
    BY <2>2, <2>3
<1>7. CASE WinClaim(c)
  <2>1. SingleFlight'
    BY <1>7 DEF WinClaim, Claim
  <2>2. Ownership'
    BY <1>7 DEF WinClaim, Claim
  <2>3. ReadyMeansReviewed'
    BY <1>7 DEF WinClaim, Claim
  <2>4. QED
    BY <2>1, <2>2, <2>3
<1>8. CASE LoseClaim(c)
  <2>1. SingleFlight'
    BY <1>8, AfterRequestFrame DEF LoseClaim, ClaimLost
  <2>2. Ownership'
    BY <1>8, AfterRequestFrame DEF LoseClaim, ClaimLost
  <2>3. ReadyMeansReviewed'
    BY <1>8, AfterRequestFrame DEF LoseClaim, ClaimLost
  <2>4. QED
    BY <2>1, <2>2, <2>3
<1>9. ASSUME NEW i \in TaskIds, QueueTask(c, i)
      PROVE  OwnerInv'
  <2>1. SingleFlight'
    BY <1>9, AfterRequestFrame DEF QueueTask, FreeTask, GenerateMessage
  <2>2. Ownership'
    BY <1>9, AfterRequestFrame DEF QueueTask, FreeTask, GenerateMessage
  <2>3. ReadyMeansReviewed'
    BY <1>9, AfterRequestFrame DEF QueueTask, FreeTask, GenerateMessage
  <2>4. QED
    BY <2>1, <2>2, <2>3
<1>10. CASE QueueFails(c)
  <2>1. SingleFlight'
    BY <1>10, AfterRequestFrame DEF QueueFails, SurfaceBrokerFailure
  <2>2. Ownership'
    BY <1>10, AfterRequestFrame DEF QueueFails, SurfaceBrokerFailure
  <2>3. ReadyMeansReviewed'
    BY <1>10, AfterRequestFrame DEF QueueFails, SurfaceBrokerFailure
  <2>4. QED
    BY <2>1, <2>2, <2>3
<1>11. CASE CallerDies(c)
  <2>1. SingleFlight'
    BY <1>11 DEF CallerDies, Idle
  <2>2. Ownership'
    BY <1>11 DEF CallerDies, Idle
  <2>3. ReadyMeansReviewed'
    BY <1>11 DEF CallerDies, Idle
  <2>4. QED
    BY <2>1, <2>2, <2>3
<1>12. QED
  BY <1>1, <1>2, <1>3, <1>4, <1>5, <1>6, <1>7, <1>8, <1>9, <1>10, <1>11 DEF CallerStep

\* A reset by the cleanup either hits topics nobody owns or marks them as
\* disturbed.
LEMMA CleanerStepOwner ==
  ASSUME OwnerInv, CleanerStep, TypeOK'
  PROVE  OwnerInv'
<1> USE DEF OwnerInv, SingleFlight, Ownership, ReadyMeansReviewed, Held, Busy,
            TaskHolds, CallerHolds, HoldingStages, ReviewStages, TypeOK,
            TaskState, CallerState, CleanerState, topicVars, Clean
<1>1. CASE FindStuck
  <2>1. SingleFlight'
    BY <1>1 DEF FindStuck
  <2>2. Ownership'
    BY <1>1 DEF FindStuck
  <2>3. ReadyMeansReviewed'
    BY <1>1 DEF FindStuck
  <2>4. QED
    BY <2>1, <2>2, <2>3
<1>2. CASE ResetStuck
  <2>1. SingleFlight'
    BY <1>2 DEF ResetStuck
  <2>2. Ownership'
    BY <1>2 DEF ResetStuck
  <2>3. ReadyMeansReviewed'
    BY <1>2 DEF ResetStuck
  <2>4. QED
    BY <2>1, <2>2, <2>3
<1>3. CASE FindFailed
  <2>1. SingleFlight'
    BY <1>3 DEF FindFailed
  <2>2. Ownership'
    BY <1>3 DEF FindFailed
  <2>3. ReadyMeansReviewed'
    BY <1>3 DEF FindFailed
  <2>4. QED
    BY <2>1, <2>2, <2>3
<1>4. CASE ResetFailed
  <2>1. SingleFlight'
    BY <1>4 DEF ResetFailed
  <2>2. Ownership'
    BY <1>4 DEF ResetFailed
  <2>3. ReadyMeansReviewed'
    BY <1>4 DEF ResetFailed
  <2>4. QED
    BY <2>1, <2>2, <2>3
<1>5. QED
  BY <1>1, <1>2, <1>3, <1>4 DEF CleanerStep

\* A step that is not a step of an actor: time passing, or stuttering.
LEMMA OtherStepOwner ==
  ASSUME OwnerInv, TypeOK', (\E t \in Topics : Age(t)) \/ UNCHANGED vars
  PROVE  OwnerInv'
<1>1. UNCHANGED <<status, review, stored, approved, disturbed, caller, task>>
  BY DEF Age, vars, topicVars
<1>2. QED
  BY <1>1 DEF OwnerInv, SingleFlight, Ownership, ReadyMeansReviewed, Held,
              TaskHolds, CallerHolds

\* The inductive invariant holds in every reachable state.
THEOREM OwnerInvariant == Spec => []OwnerInv
<1>1. Init => OwnerInv
  <2>1. Init => TypeOK
    BY ParametersOK
       DEF Init, TypeOK, Topics, Status, ReviewStatus, Ages, CallerState, Idle,
           TaskState, Stages, NoTask, CleanerState
  <2>2. Init => SingleFlight /\ Ownership /\ ReadyMeansReviewed
    BY DEF Init, SingleFlight, Ownership, ReadyMeansReviewed, Held, TaskHolds,
           CallerHolds, HoldingStages, ReviewStages, NoTask, Idle
  <2>3. QED
    BY <2>1, <2>2 DEF OwnerInv
<1>2. OwnerInv /\ TypeOK' /\ [Next]_vars => OwnerInv'
  BY CallerStepOwner, WorkerStepOwner, CleanerStepOwner, OtherStepOwner DEF Next
<1>3. QED
  BY <1>1, <1>2, TypeCorrect, PTL DEF Spec

\* At most one request or task owns a topic, until a stale reset or a
\* redelivered message interferes.
THEOREM OneOwner == Spec => []SingleFlight
<1>1. OwnerInv => SingleFlight
  BY DEF OwnerInv
<1>2. QED
  BY <1>1, OwnerInvariant, PTL

\* An undisturbed owner finds its topic GENERATING, and a review judges the text
\* that is stored.
THEOREM OwnerFindsGenerating == Spec => []Ownership
<1>1. OwnerInv => Ownership
  BY DEF OwnerInv
<1>2. QED
  BY <1>1, OwnerInvariant, PTL

\* READY means: stored, marked as passed, and, on a topic nobody interfered
\* with, stored as the review read it.
THEOREM ReadyIsReviewed == Spec => []ReadyMeansReviewed
<1>1. OwnerInv => ReadyMeansReviewed
  BY DEF OwnerInv
<1>2. QED
  BY <1>1, OwnerInvariant, PTL

-----------------------------------------------------------------------------
(* Claims are dated *)

\* Every claim carries its time, so the cleanup's age filter can find it.
THEOREM ClaimsAreDated == Spec => []ClaimIsDated
<1>1. Init => ClaimIsDated
  BY DEF Init, ClaimIsDated
<1>2. TypeOK /\ ClaimIsDated /\ [Next]_vars => ClaimIsDated'
  <2> SUFFICES ASSUME TypeOK, ClaimIsDated, [Next]_vars
               PROVE  ClaimIsDated'
    OBVIOUS
  <2> USE DEF TypeOK, ClaimIsDated, topicVars
  <2>1. ASSUME NEW c \in Callers, CallerStep(c)
        PROVE  ClaimIsDated'
    <3>1. caller[c].topic \in Topics
      BY DEF CallerState
    <3>2. ASSUME NEW t \in Topics, RetryTopic(c, t)
          PROVE  ClaimIsDated'
      BY <3>2 DEF RetryTopic
    <3>3. CASE NotifyReset(c)
      BY <3>1, <3>3 DEF NotifyReset
    <3>4. CASE WinClaim(c)
      BY <3>1, <3>4 DEF WinClaim, Claim
    <3>5. CASE QueueFails(c)
      BY <3>1, <3>5 DEF QueueFails, SurfaceBrokerFailure
    <3>6. CASE UNCHANGED <<status, started>>
      BY <3>6
    <3>7. QED
      BY <2>1, <3>2, <3>3, <3>4, <3>5, <3>6
         DEF CallerStep, OpenTopic, BufferAhead, InitialBatch, Notify,
             LoseClaim, ClaimLost, QueueTask, CallerDies
  <2>2. ASSUME NEW i \in TaskIds, WorkerStep(i)
        PROVE  ClaimIsDated'
    BY <2>2 DEF WorkerStep, SaveContent, GenerationFails, MarkFailed,
                RetryLater, ProvidersFail, QueueReview, QueueReviewUnacked,
                RequeueUnacked, QueueReviewFails, ReadContent, ReviewPasses,
                ReviewFails, ReleaseForRetry, GiveUp, Reclaim, Claim,
                ReclaimLost, Requeue, RequeueFails, SurfaceBrokerFailure,
                TaskLost, TaskRedelivered
  <2>3. CASE CleanerStep
    BY <2>3 DEF CleanerStep, FindStuck, ResetStuck, FindFailed, ResetFailed
  <2>4. CASE (\E t \in Topics : Age(t)) \/ UNCHANGED vars
    BY <2>4 DEF Age, vars
  <2>5. QED
    BY <2>1, <2>2, <2>3, <2>4 DEF Next
<1>3. QED
  BY <1>1, <1>2, TypeCorrect, PTL DEF Spec

-----------------------------------------------------------------------------
(* READY is final *)

\* A topic that was interfered with stays marked.
LEMMA DisturbedStays ==
  ASSUME TypeOK, [Next]_vars, NEW t \in Topics, disturbed[t]
  PROVE  disturbed'[t]
<1> USE DEF TypeOK, topicVars
<1>1. ASSUME NEW c \in Callers, CallerStep(c)
      PROVE  disturbed'[t]
  <2>1. CASE NotifyReset(c)
    <3>1. disturbed' = [disturbed EXCEPT ![caller[c].topic] =
                          disturbed[caller[c].topic] \/ Busy(caller[c].topic)]
      BY <2>1 DEF NotifyReset
    <3>2. QED
      BY <3>1
  <2>2. CASE UNCHANGED disturbed
    BY <2>2
  <2>3. QED
    BY <1>1, <2>1, <2>2
       DEF CallerStep, OpenTopic, RetryTopic, BufferAhead, InitialBatch, Notify,
           WinClaim, Claim, LoseClaim, ClaimLost, QueueTask, QueueFails,
           SurfaceBrokerFailure, CallerDies
<1>2. ASSUME NEW i \in TaskIds, WorkerStep(i)
      PROVE  disturbed'[t]
  <2>1. CASE TaskRedelivered(i)
    <3>1. disturbed' = [disturbed EXCEPT ![task[i].topic] =
                          disturbed[task[i].topic] \/ task[i].stage = "reset"]
      BY <2>1 DEF TaskRedelivered
    <3>2. QED
      BY <3>1
  <2>2. CASE \/ UNCHANGED disturbed
             \/ disturbed' = [disturbed EXCEPT ![task[i].topic] = TRUE]
    BY <2>2
  <2>3. QED
    BY <1>2, <2>1, <2>2
       DEF WorkerStep, SaveContent, GenerationFails, RetryLater, ProvidersFail,
           QueueReview, QueueReviewUnacked, RequeueUnacked, QueueReviewFails,
           ReadContent, ReviewPasses, ReviewFails, ReleaseForRetry, GiveUp,
           Reclaim, Claim, ReclaimLost, Requeue, RequeueFails,
           SurfaceBrokerFailure, TaskLost, Return
<1>3. CASE CleanerStep
  BY <1>3 DEF CleanerStep, FindStuck, ResetStuck, FindFailed, ResetFailed
<1>4. CASE (\E u \in Topics : Age(u)) \/ UNCHANGED vars
  BY <1>4 DEF Age, vars
<1>5. QED
  BY <1>1, <1>2, <1>3, <1>4 DEF Next

\* A step leaves READY, or changes a READY text, only by disturbing the topic.
LEMMA ReadyStays ==
  ASSUME OwnerInv, [Next]_vars, NEW t \in Topics,
         status[t] = "READY", ~ disturbed'[t]
  PROVE  status'[t] = "READY" /\ approved'[t]
<1> USE DEF OwnerInv, TypeOK, topicVars
<1>1. ~ disturbed[t] /\ approved[t] /\ ~ Held(t)
  BY DisturbedStays DEF ReadyMeansReviewed, Ownership
<1>2. ASSUME NEW c \in Callers, CallerStep(c)
      PROVE  status'[t] = "READY" /\ UNCHANGED approved
  <2>1. caller[c].topic \in Topics /\ ~ CallerHolds(c, t)
    BY <1>1 DEF CallerState, Held
  <2>2. ASSUME NEW u \in Topics, RetryTopic(c, u)
        PROVE  status'[t] = "READY" /\ UNCHANGED approved
    BY <2>2 DEF RetryTopic
  <2>3. CASE NotifyReset(c)
    <3>1. caller[c].topic = t => disturbed'[t]
      <4>1. disturbed' = [disturbed EXCEPT ![caller[c].topic] =
                            disturbed[caller[c].topic] \/ Busy(caller[c].topic)]
        BY <2>3 DEF NotifyReset
      <4>2. Busy(t)
        BY DEF Busy
      <4>3. QED
        BY <4>1, <4>2
    <3>2. QED
      BY <2>3, <3>1 DEF NotifyReset
  <2>4. CASE WinClaim(c)
    BY <2>1, <2>4 DEF WinClaim, Claim
  <2>5. CASE QueueFails(c)
    BY <2>1, <2>5 DEF QueueFails, SurfaceBrokerFailure, CallerHolds, At
  <2>6. CASE UNCHANGED <<status, approved>>
    BY <2>6
  <2>7. QED
    BY <1>2, <2>2, <2>3, <2>4, <2>5, <2>6
       DEF CallerStep, OpenTopic, BufferAhead, InitialBatch, Notify,
           LoseClaim, ClaimLost, QueueTask, CallerDies
<1>3. ASSUME NEW i \in TaskIds, WorkerStep(i)
      PROVE  status'[t] = "READY" /\ approved'[t]
  <2>1. task[i].topic \in Topics /\ ~ TaskHolds(i, t)
    BY <1>1 DEF TaskState, Held
  <2> USE DEF TaskHolds, HoldingStages
  <2>2. CASE SaveContent(i)
    BY <1>1, <2>1, <2>2 DEF SaveContent
  <2>3. CASE GenerationFails(i) \/ ProvidersFail(i) \/ GiveUp(i)
    BY <1>1, <2>1, <2>3 DEF GenerationFails, ProvidersFail, GiveUp, MarkFailed
  <2>4. CASE ReviewPasses(i)
    BY <1>1, <2>1, <2>4 DEF ReviewPasses
  <2>5. CASE ReleaseForRetry(i) \/ RequeueFails(i)
    BY <1>1, <2>1, <2>5 DEF ReleaseForRetry, RequeueFails, SurfaceBrokerFailure
  <2>6. CASE Reclaim(i)
    BY <1>1, <2>1, <2>6 DEF Reclaim, Claim
  <2>7. CASE UNCHANGED <<status, approved>>
    BY <1>1, <2>7
  <2>8. QED
    BY <1>3, <2>2, <2>3, <2>4, <2>5, <2>6, <2>7
       DEF WorkerStep, RetryLater, QueueReview, QueueReviewUnacked,
           RequeueUnacked, QueueReviewFails, ReadContent, ReviewFails,
           ReclaimLost, Requeue, TaskLost, TaskRedelivered
<1>4. CASE CleanerStep
  <2>1. Busy(t)
    BY DEF Busy
  <2>2. QED
    BY <1>1, <1>4, <2>1
       DEF CleanerStep, FindStuck, ResetStuck, FindFailed, ResetFailed
<1>5. CASE (\E u \in Topics : Age(u)) \/ UNCHANGED vars
  BY <1>1, <1>5 DEF Age, vars
<1>6. QED
  BY <1>1, <1>2, <1>3, <1>4, <1>5 DEF Next

\* Published content stays published and unchanged on every topic that no
\* stale reset and no redelivered message reached.
THEOREM ReadyContentIsFinal == Spec => ReadyIsFinal
<1>1. OwnerInv /\ [Next]_vars =>
        [\A t \in Topics : status[t] = "READY" /\ ~ disturbed'[t] =>
           status'[t] = "READY" /\ approved'[t]]_vars
  BY ReadyStays
<1>2. QED
  BY <1>1, OwnerInvariant, PTL DEF Spec, ReadyIsFinal

-----------------------------------------------------------------------------
(* The lifecycle: under PhaseOf, every step of the pipeline is a step of    *)
(* ContentLifecycle or a stutter.                                           *)

Phase == [t \in Topics |-> PhaseOf(t)]

\* A step that moves nothing forward: a topic keeps its status or, unless it
\* was READY, starts over; or it is disturbed.
Restarts ==
  \A t \in Topics :
    \/ disturbed'[t]
    \/ status'[t] = status[t]
    \/ status'[t] = "NOT_GENERATED" /\ status[t] # "READY"

Unchanged(t) == status'[t] = status[t] /\ disturbed'[t] = disturbed[t]

\* A step that moves one topic forward.
Advances(t) ==
  /\ t \in Topics
  /\ ~ disturbed[t] /\ ~ disturbed'[t]
  /\ \/ status[t] = "NOT_GENERATED" /\ status'[t] = "GENERATING"
     \/ status[t] = "GENERATING" /\ status'[t] \in {"READY", "FAILED"}
  /\ \A u \in Topics : u # t => Unchanged(u)

\* What is behind every conclusion below: a topic one of the actors owns, and
\* nobody interfered with, is GENERATING.
LEMMA OwnedIsGenerating ==
  ASSUME OwnerInv, NEW t \in Topics, Held(t), ~ disturbed[t]
  PROVE  status[t] = "GENERATING"
BY DEF OwnerInv, Ownership

\* A claim moves its topic forward, or the topic is disturbed already.
LEMMA ClaimAdvances ==
  ASSUME TypeOK, NEW t \in Topics, Claim(t)
  PROVE  Restarts \/ Advances(t)
BY DEF Claim, TypeOK, Restarts, Advances, Unchanged

\* The owner of a topic ends its generation, with a text or without, or its
\* message is delivered again and the topic is disturbed.
LEMMA OwnerFinishes ==
  ASSUME OwnerInv, NEW t \in Topics, Held(t), NEW s \in {"READY", "FAILED"},
         status' = [status EXCEPT ![t] = s],
         UNCHANGED disturbed \/ disturbed' = [disturbed EXCEPT ![t] = TRUE]
  PROVE  Restarts \/ Advances(t)
<1>1. ~ disturbed[t] => status[t] = "GENERATING"
  BY OwnedIsGenerating
<1>2. QED
  BY <1>1 DEF OwnerInv, TypeOK, Restarts, Advances, Unchanged

\* A step of a request or notification advances one topic (its claim succeeds,
\* or its message cannot be published), or advances none.
LEMMA CallerRefines ==
  ASSUME OwnerInv, NEW c \in Callers, CallerStep(c)
  PROVE  Restarts \/ \E t \in Topics : Advances(t)
<1> USE DEF topicVars
<1>1. caller[c].topic \in Topics /\ TypeOK
  BY DEF OwnerInv, TypeOK, CallerState
<1>2. ASSUME NEW t \in Topics, RetryTopic(c, t)
      PROVE  Restarts
  BY <1>1, <1>2 DEF RetryTopic, TypeOK, Restarts
<1>3. CASE NotifyReset(c)
  <2>1. /\ status' = [status EXCEPT ![caller[c].topic] = "NOT_GENERATED"]
        /\ disturbed' = [disturbed EXCEPT ![caller[c].topic] =
                           disturbed[caller[c].topic] \/ Busy(caller[c].topic)]
    BY <1>3 DEF NotifyReset
  <2>2. status[caller[c].topic] = "READY" => disturbed'[caller[c].topic]
    BY <1>1, <2>1 DEF Busy, TypeOK
  <2>3. QED
    BY <1>1, <2>1, <2>2 DEF TypeOK, Restarts
<1>4. CASE WinClaim(c)
  BY <1>1, <1>4, ClaimAdvances DEF WinClaim
<1>5. CASE QueueFails(c)
  <2>1. Held(caller[c].topic)
    BY <1>5 DEF QueueFails, At, CallerHolds, Held
  <2>2. /\ status' = [status EXCEPT ![caller[c].topic] = "FAILED"]
        /\ UNCHANGED disturbed
    BY <1>5 DEF QueueFails, SurfaceBrokerFailure
  <2>3. QED
    BY <1>1, <2>1, <2>2, OwnerFinishes
<1>6. CASE UNCHANGED status
  BY <1>6 DEF Restarts
<1>7. QED
  BY <1>2, <1>3, <1>4, <1>5, <1>6
     DEF CallerStep, OpenTopic, BufferAhead, InitialBatch, Notify, LoseClaim,
         ClaimLost, QueueTask, CallerDies

\* A step of a Celery task advances its topic, or advances none.
LEMMA WorkerRefines ==
  ASSUME OwnerInv, NEW i \in TaskIds, WorkerStep(i)
  PROVE  Restarts \/ \E t \in Topics : Advances(t)
<1> DEFINE t == task[i].topic
<1> USE DEF topicVars
<1>1. t \in Topics /\ TypeOK
  BY DEF OwnerInv, TypeOK, TaskState
<1>2. CASE GenerationFails(i) \/ ProvidersFail(i) \/ GiveUp(i)
  <2>1. Held(t)
    BY <1>2 DEF GenerationFails, ProvidersFail, GiveUp, TaskHolds, Held,
                HoldingStages
  <2>2. /\ status' = [status EXCEPT ![t] = "FAILED"]
        /\ UNCHANGED disturbed \/ disturbed' = [disturbed EXCEPT ![t] = TRUE]
    BY <1>2 DEF GenerationFails, ProvidersFail, GiveUp, MarkFailed, Return
  <2>3. QED
    BY <1>1, <2>1, <2>2, OwnerFinishes
<1>3. CASE ReviewPasses(i)
  <2>1. Held(t)
    BY <1>3 DEF ReviewPasses, TaskHolds, Held, HoldingStages
  <2>2. /\ status' = [status EXCEPT ![t] = "READY"]
        /\ UNCHANGED disturbed \/ disturbed' = [disturbed EXCEPT ![t] = TRUE]
    BY <1>3 DEF ReviewPasses, Return
  <2>3. QED
    BY <1>1, <2>1, <2>2, OwnerFinishes
<1>4. CASE ReleaseForRetry(i)
  <2>1. Held(t)
    BY <1>4 DEF ReleaseForRetry, TaskHolds, Held, HoldingStages
  <2>2. /\ status' = [status EXCEPT ![t] = "NOT_GENERATED"]
        /\ UNCHANGED disturbed
    BY <1>4 DEF ReleaseForRetry
  <2>3. ~ disturbed[t] => status[t] = "GENERATING"
    BY <1>1, <2>1, OwnedIsGenerating
  <2>4. QED
    BY <1>1, <2>2, <2>3 DEF TypeOK, Restarts
<1>5. CASE Reclaim(i)
  BY <1>1, <1>5, ClaimAdvances DEF Reclaim
<1>6. CASE RequeueFails(i)
  <2>1. Held(t)
    BY <1>6 DEF RequeueFails, TaskHolds, Held, HoldingStages
  <2>2. status' = [status EXCEPT ![t] = "FAILED"] /\ UNCHANGED disturbed
    BY <1>6 DEF RequeueFails, SurfaceBrokerFailure
  <2>3. QED
    BY <1>1, <2>1, <2>2, OwnerFinishes
<1>7. CASE UNCHANGED status
  BY <1>7 DEF Restarts
<1>8. QED
  BY <1>2, <1>3, <1>4, <1>5, <1>6, <1>7
     DEF WorkerStep, SaveContent, RetryLater, QueueReview, QueueReviewUnacked,
         RequeueUnacked, QueueReviewFails, ReadContent, ReviewFails,
         ReclaimLost, Requeue, TaskLost, TaskRedelivered

\* A reset by the cleanup starts topics over, and disturbs those that were
\* READY.
LEMMA CleanerRefines ==
  ASSUME OwnerInv, CleanerStep
  PROVE  Restarts
<1>1. CASE FindStuck \/ FindFailed
  BY <1>1 DEF FindStuck, FindFailed, topicVars, Restarts
<1>2. CASE ResetStuck
  BY <1>2 DEF ResetStuck, Busy, Restarts
<1>3. CASE ResetFailed
  BY <1>3 DEF ResetFailed, Busy, Restarts
<1>4. QED
  BY <1>1, <1>2, <1>3 DEF CleanerStep

\* Every step of the pipeline is of one of the two kinds.
LEMMA NextRefines ==
  ASSUME OwnerInv, [Next]_vars
  PROVE  Restarts \/ \E t \in Topics : Advances(t)
<1>1. CASE (\E t \in Topics : Age(t)) \/ UNCHANGED vars
  BY <1>1 DEF Age, vars, topicVars, Restarts
<1>2. QED
  BY <1>1, CallerRefines, WorkerRefines, CleanerRefines DEF Next

\* A step of the first kind is a Reset of the lifecycle.
LEMMA RestartsReset ==
  ASSUME OwnerInv, [Next]_vars, Restarts
  PROVE  \E cleared, hit \in SUBSET Topics : Lifecycle!Reset(cleared, hit)
<1> DEFINE cleared == {t \in Topics : ~ disturbed'[t] /\ status'[t] # status[t]}
           hit == {t \in Topics : disturbed'[t]}
<1>1. \A t \in Topics : disturbed[t] => disturbed'[t]
  BY DisturbedStays DEF OwnerInv
<1>2. \A t \in Topics : status[t] \in Status
  BY DEF OwnerInv, TypeOK
<1>3. \A t \in cleared \ hit : PhaseOf(t) \in {"working", "failed", "empty"}
  BY <1>1, <1>2 DEF Restarts, PhaseOf, Status
<1>4. ASSUME NEW t \in Topics
      PROVE  PhaseOf(t)' = IF t \in hit \/ PhaseOf(t) = "disturbed"
                             THEN "disturbed"
                             ELSE IF t \in cleared THEN "empty" ELSE PhaseOf(t)
  <2>1. CASE disturbed'[t]
    BY <2>1 DEF PhaseOf
  <2>2. CASE ~ disturbed'[t] /\ status'[t] = status[t]
    BY <1>1, <1>2, <2>2 DEF PhaseOf, Status
  <2>3. CASE ~ disturbed'[t] /\ status'[t] # status[t]
    BY <1>1, <1>2, <2>3 DEF PhaseOf, Status, Restarts
  <2>4. QED
    BY <2>1, <2>2, <2>3
<1>5. Lifecycle!Reset(cleared, hit)
  BY <1>3, <1>4 DEF Lifecycle!Reset
<1>6. QED
  BY <1>5

\* A step of the second kind is a Start, a Finish or a Fail of the lifecycle.
LEMMA AdvancesMove ==
  ASSUME NEW t \in Topics, Advances(t)
  PROVE  Lifecycle!Start(t) \/ Lifecycle!Finish(t) \/ Lifecycle!Fail(t)
<1>1. \A u \in Topics : u # t => PhaseOf(u)' = PhaseOf(u)
  BY DEF Advances, Unchanged, PhaseOf
<1>2. CASE status[t] = "NOT_GENERATED" /\ status'[t] = "GENERATING"
  <2>1. PhaseOf(t) = "empty" /\ PhaseOf(t)' = "working"
    BY <1>2 DEF Advances, PhaseOf
  <2>2. QED
    BY <1>1, <2>1 DEF Lifecycle!Start, Lifecycle!Move
<1>3. CASE status[t] = "GENERATING" /\ status'[t] = "READY"
  <2>1. PhaseOf(t) = "working" /\ PhaseOf(t)' = "ready"
    BY <1>3 DEF Advances, PhaseOf
  <2>2. QED
    BY <1>1, <2>1 DEF Lifecycle!Finish, Lifecycle!Move
<1>4. CASE status[t] = "GENERATING" /\ status'[t] = "FAILED"
  <2>1. PhaseOf(t) = "working" /\ PhaseOf(t)' = "failed"
    BY <1>4 DEF Advances, PhaseOf
  <2>2. QED
    BY <1>1, <2>1 DEF Lifecycle!Fail, Lifecycle!Move
<1>5. QED
  BY <1>2, <1>3, <1>4 DEF Advances

\* The pipeline implements the lifecycle: for any number of topics, requests
\* and messages and under every fault, a topic that no stale write and no
\* redelivered message reached moves through its phases in order.
THEOREM PipelineImplementsLifecycle == Spec => ImplementsLifecycle
<1>1. Init => Lifecycle!Init
  BY DEF Init, Lifecycle!Init, PhaseOf
<1>2. OwnerInv /\ [Next]_vars => [Lifecycle!Next]_Phase
  BY NextRefines, RestartsReset, AdvancesMove DEF Lifecycle!Next
<1>3. QED
  BY <1>1, <1>2, OwnerInvariant, PTL
  DEF Spec, ImplementsLifecycle, Lifecycle!Spec, Phase
=============================================================================
