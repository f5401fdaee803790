------------------------- MODULE RoadmapGeneration -------------------------
(***************************************************************************)
(* The roadmap of one subject: apps/learning/services.py (request_roadmap_ *)
(* generation, build_roadmap, retry_roadmap) and the Celery task and the   *)
(* cleanup in apps/learning/tasks.py.  Enrolling in a subject or asking    *)
(* for a retry claims the subject and queues a task, which asks the model  *)
(* for 20 to 25 topics, inserts them all at once, sets the subject READY   *)
(* and requests content for the first topics (TopicContent!InitialBatch).  *)
(*                                                                         *)
(* One step is one database statement or one message.  Subjects do not     *)
(* share any of this state, so one subject is modelled; the cleanup's loop *)
(* over subjects is its step for this one.                                 *)
(***************************************************************************)
EXTENDS Naturals, FiniteSets

CONSTANTS
  Callers,      \* requests that enroll in the subject or retry its roadmap
  TaskIds,      \* places for Celery messages; bounds how many exist at once
  MaxRetries,   \* autoretry limit of the task (3 in the code)
  Faults        \* which environment faults this instance includes

\* The faults are those of TopicContent.
FaultKinds == {"broker", "lost", "redelivered", "slow"}

ASSUME RoadmapParametersOK ==
  /\ MaxRetries \in Nat
  /\ Faults \subseteq FaultKinds

VARIABLES
  status,     \* Subject.roadmap_status
  started,    \* Subject.roadmap_started_at: "null", "recent" or "old"
  topics,     \* the subject has topics
  inserts,    \* history: how many times a full set of topics was inserted
  batched,    \* content of the first topics was requested
  disturbed,  \* history: a stale write or a redelivered message interfered
  caller,     \* progress of each request
  task,       \* the Celery messages, queued or running
  cleaner     \* progress of the cleanup's first loop

subjectVars == <<status, started, topics, inserts, batched, disturbed>>
vars == <<subjectVars, caller, task, cleaner>>

-----------------------------------------------------------------------------
Status == {"NOT_GENERATED", "GENERATING", "READY", "FAILED"}
Ages == {"null", "recent", "old"}

\* "build": queued, or about to look for topics; "asking": found none and asks
\* the model; "built": the topics are there; "batch": it set the subject READY.
Stages == {"none", "build", "asking", "built", "batch"}
TaskState == [stage : Stages, retries : 0 .. MaxRetries]
CallerPCs == {"idle", "claim", "publish"}

TypeOK ==
  /\ status \in Status
  /\ started \in Ages
  /\ topics \in BOOLEAN
  /\ inserts \in 0 .. 2
  /\ batched \in BOOLEAN
  /\ disturbed \in BOOLEAN
  /\ caller \in [Callers -> CallerPCs]
  /\ task \in [TaskIds -> TaskState]
  /\ cleaner \in {"idle", "found"}

NoTask == [stage |-> "none", retries |-> 0]
Message(r) == [stage |-> "build", retries |-> r]
FreeTask(i) == task[i].stage = "none"

\* The claim is owned by the caller that won it until it has queued the task,
\* and then by the task until it writes READY or FAILED.
HoldingStages == {"build", "asking", "built"}
TaskHolds(i) == task[i].stage \in HoldingStages
CallerHolds(c) == caller[c] = "publish"
Held == (\E i \in TaskIds : TaskHolds(i)) \/ (\E c \in Callers : CallerHolds(c))

-----------------------------------------------------------------------------
(* Requests: add_subject_to_user and retry_roadmap                         *)

Go(c, pc) ==
  /\ caller' = [caller EXCEPT ![c] = pc]
  /\ UNCHANGED <<task, cleaner>>

\* Both look for topics first and do nothing more if there are any.
LookForTopics(c) ==
  /\ caller[c] = "idle"
  /\ ~ topics
  /\ Go(c, "claim")
  /\ UNCHANGED subjectVars

\* Mutant of WinClaim: a running roadmap can be claimed again.
WinClaimRunning(c) ==
  /\ caller[c] = "claim"
  /\ status \in {"NOT_GENERATED", "GENERATING", "FAILED"}
  /\ status' = "GENERATING"
  /\ started' = "recent"
  /\ Go(c, "publish")
  /\ UNCHANGED <<topics, inserts, batched, disturbed>>

\* Mutant of WinClaim: a finished roadmap can be claimed again.
WinClaimFinished(c) ==
  /\ caller[c] = "claim"
  /\ status # "GENERATING"
  /\ status' = "GENERATING"
  /\ started' = "recent"
  /\ Go(c, "publish")
  /\ UNCHANGED <<topics, inserts, batched, disturbed>>

\* Mutant of WinClaim: roadmap_started_at is not set.
WinClaimUndated(c) ==
  /\ caller[c] = "claim"
  /\ status \in {"NOT_GENERATED", "FAILED"}
  /\ status' = "GENERATING"
  /\ Go(c, "publish")
  /\ UNCHANGED <<started, topics, inserts, batched, disturbed>>

\* claim_roadmap_generation: one UPDATE guarded by the status.
WinClaim(c) ==
  /\ caller[c] = "claim"
  /\ status \in {"NOT_GENERATED", "FAILED"}
  /\ status' = "GENERATING"
  /\ started' = "recent"
  /\ Go(c, "publish")
  /\ UNCHANGED <<topics, inserts, batched, disturbed>>

LoseClaim(c) ==
  /\ caller[c] = "claim"
  /\ status \in {"GENERATING", "READY"}
  /\ Go(c, "idle")
  /\ UNCHANGED subjectVars

QueueTask(c, i) ==
  /\ caller[c] = "publish"
  /\ FreeTask(i)
  /\ caller' = [caller EXCEPT ![c] = "idle"]
  /\ task' = [task EXCEPT ![i] = Message(0)]
  /\ UNCHANGED <<subjectVars, cleaner>>

\* The broker refuses the message: surface FAILED.
QueueFails(c) ==
  /\ "broker" \in Faults
  /\ caller[c] = "publish"
  /\ status' = "FAILED"
  /\ Go(c, "idle")
  /\ UNCHANGED <<started, topics, inserts, batched, disturbed>>

\* The web process dies between two statements.
CallerDies(c) ==
  /\ "lost" \in Faults
  /\ caller[c] # "idle"
  /\ Go(c, "idle")
  /\ UNCHANGED subjectVars

-----------------------------------------------------------------------------
(* generate_roadmap_for_subject *)

TaskStep(i, state) ==
  /\ task' = [task EXCEPT ![i] = state]
  /\ UNCHANGED <<caller, cleaner>>

\* The task ends and is acknowledged, or its worker dies before that and the
\* message is delivered again.
Return(i) ==
  \/ TaskStep(i, NoTask) /\ UNCHANGED disturbed
  \/ /\ "redelivered" \in Faults
     /\ TaskStep(i, Message(task[i].retries))
     /\ disturbed' = TRUE

\* Mutant of StartBuild: the model is never asked.
StartBuildEmpty(i) ==
  /\ task[i].stage = "build"
  /\ TaskStep(i, [task[i] EXCEPT !.stage = "built"])
  /\ UNCHANGED subjectVars

\* build_roadmap: ask the model only if there are no topics.
StartBuild(i) ==
  /\ task[i].stage = "build"
  /\ TaskStep(i, [task[i] EXCEPT !.stage = IF topics THEN "built" ELSE "asking"])
  /\ UNCHANGED subjectVars

\* Mutant of InsertTopics: the orders of topics are not unique.
InsertTopicsAgain(i) ==
  /\ task[i].stage = "asking"
  /\ topics' = TRUE
  /\ inserts' = inserts + 1
  /\ TaskStep(i, [task[i] EXCEPT !.stage = "built"])
  /\ UNCHANGED <<status, started, batched, disturbed>>

\* bulk_create, one transaction; the orders 1, 2, ... are unique per subject.
InsertTopics(i) ==
  /\ task[i].stage = "asking"
  /\ ~ topics
  /\ topics' = TRUE
  /\ inserts' = inserts + 1
  /\ TaskStep(i, [task[i] EXCEPT !.stage = "built"])
  /\ UNCHANGED <<status, started, batched, disturbed>>

\* The topics of another task are there: IntegrityError, which nothing handles.
InsertConflict(i) ==
  /\ task[i].stage = "asking"
  /\ topics
  /\ Return(i)
  /\ UNCHANGED <<status, started, topics, inserts, batched>>

\* GenerationError, or ProviderError on the last try.
BuildFails(i) ==
  /\ task[i].stage = "asking"
  /\ status' = "FAILED"
  /\ Return(i)
  /\ UNCHANGED <<started, topics, inserts, batched>>

\* ProviderError with tries left: Celery queues the message again.
RetryLater(i) ==
  /\ task[i].stage = "asking"
  /\ task[i].retries < MaxRetries
  /\ TaskStep(i, Message(task[i].retries + 1))
  /\ UNCHANGED subjectVars

SetReady(i) ==
  /\ task[i].stage = "built"
  /\ status' = "READY"
  /\ TaskStep(i, [task[i] EXCEPT !.stage = "batch"])
  /\ UNCHANGED <<started, topics, inserts, batched, disturbed>>

RequestBatch(i) ==
  /\ task[i].stage = "batch"
  /\ batched' = TRUE
  /\ Return(i)
  /\ UNCHANGED <<status, started, topics, inserts>>

\* The task is killed (time limit, unexpected exception) and not run again.
TaskLost(i) ==
  /\ "lost" \in Faults
  /\ ~ FreeTask(i)
  /\ TaskStep(i, NoTask)
  /\ UNCHANGED subjectVars

\* The worker's host dies half-way and the message is delivered again.
TaskRedelivered(i) ==
  /\ "redelivered" \in Faults
  /\ ~ FreeTask(i)
  /\ TaskStep(i, Message(task[i].retries))
  /\ disturbed' = (disturbed \/ ~ TaskHolds(i))
  /\ UNCHANGED <<status, started, topics, inserts, batched>>

-----------------------------------------------------------------------------
(* cleanup_stuck_generations, the loop over subjects *)

FindStuck ==
  /\ cleaner = "idle"
  /\ status = "GENERATING" /\ started = "old"
  /\ cleaner' = "found"
  /\ UNCHANGED <<subjectVars, caller, task>>

\* The update is not guarded by what the query saw.
FailStuck ==
  /\ cleaner = "found"
  /\ cleaner' = "idle"
  /\ status' = "FAILED"
  /\ disturbed' = (disturbed \/ Held \/ status = "READY")
  /\ UNCHANGED <<started, topics, inserts, batched, caller, task>>

\* The claim passes the one hour cut-off.
Age ==
  /\ started = "recent"
  /\ "slow" \in Faults \/ ~ Held
  /\ started' = "old"
  /\ UNCHANGED <<status, topics, inserts, batched, disturbed, caller, task,
                 cleaner>>

-----------------------------------------------------------------------------
Init ==
  /\ status = "NOT_GENERATED"
  /\ started = "null"
  /\ topics = FALSE
  /\ inserts = 0
  /\ batched = FALSE
  /\ disturbed = FALSE
  /\ caller = [c \in Callers |-> "idle"]
  /\ task = [i \in TaskIds |-> NoTask]
  /\ cleaner = "idle"

CallerStep(c) ==
  \/ LookForTopics(c)
  \/ WinClaim(c)
  \/ LoseClaim(c)
  \/ \E i \in TaskIds : QueueTask(c, i)
  \/ QueueFails(c)
  \/ CallerDies(c)

\* What a worker does with a task it has, short of dying.
WorkerStep(i) ==
  \/ StartBuild(i)
  \/ InsertTopics(i)
  \/ InsertConflict(i)
  \/ BuildFails(i)
  \/ RetryLater(i)
  \/ SetReady(i)
  \/ RequestBatch(i)

CleanerStep == FindStuck \/ FailStuck

Next ==
  \/ \E c \in Callers : CallerStep(c)
  \/ \E i \in TaskIds : WorkerStep(i) \/ TaskLost(i) \/ TaskRedelivered(i)
  \/ CleanerStep
  \/ Age

Spec == Init /\ [][Next]_vars

\* The beat schedule keeps starting the cleanup, and time passes.
FairSpec == Spec /\ WF_vars(CleanerStep) /\ WF_vars(Age)

-----------------------------------------------------------------------------
(* Properties *)

\* One request or task owns the subject, and finds it GENERATING, as long as no
\* stale cleanup and no message delivered after its task ended interfered.
SingleBuilder ==
  ~ disturbed =>
    /\ \A i, j \in TaskIds : TaskHolds(i) /\ TaskHolds(j) => i = j
    /\ \A c, d \in Callers : CallerHolds(c) /\ CallerHolds(d) => c = d
    /\ \A c \in Callers, i \in TaskIds : ~ (CallerHolds(c) /\ TaskHolds(i))
    /\ Held => status = "GENERATING"

\* However many tasks run for the subject, its topics are inserted once.
TopicsInsertedOnce == inserts <= 1

\* READY is shown, and the first content requested, only with topics in place.
ReadyHasTopics == status = "READY" \/ batched => topics

\* The cleanup's age filter can find every claim.
ClaimIsDated == status = "GENERATING" => started # "null"

\* A finished roadmap does not go back to FAILED or GENERATING, unless a stale
\* cleanup or a redelivered message interfered.
ReadyIsFinal == [][status = "READY" /\ ~ disturbed' => status' = "READY"]_vars

\* The promise of RoadmapLifecycle, kept by the statements above.
Phase == CASE status = "NOT_GENERATED" -> "none"
           [] status = "GENERATING" -> "working"
           [] status = "READY" -> "ready"
           [] status = "FAILED" -> "failed"

Lifecycle == INSTANCE RoadmapLifecycle WITH phase <- Phase, served <- batched

\* Every behaviour of requests, tasks and the cleanup is one of
\* RoadmapLifecycle: no interleaving skips or reverses a phase, and content is
\* requested for a roadmap that is ready, until somebody interferes.
ImplementsLifecycle == Lifecycle!Spec

\* A subject does not stay GENERATING for ever, whatever happened to its task.
NoneStuck == status = "GENERATING" ~> status # "GENERATING"

=============================================================================
