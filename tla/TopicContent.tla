---------------------------- MODULE TopicContent ----------------------------
(***************************************************************************)
(* Content of the topics of one subject: apps/learning/services.py and     *)
(* apps/learning/tasks.py.  Web requests and the notification job claim a  *)
(* topic with one conditional UPDATE and queue a Celery task; the task     *)
(* generates the text, a second task reviews it, and the topic ends READY  *)
(* or FAILED.  An hourly cleanup resets what a dead worker left behind.    *)
(*                                                                         *)
(* One step is one database statement or one message to the broker.  What  *)
(* the language model answers is nondeterministic.  The age of a claim is  *)
(* abstracted to "recent" or "old" (past the cleanup's one hour cut-off),  *)
(* and the number of failed reviews is counted up to ReviewLimit, the only *)
(* value the code compares it with.                                        *)
(***************************************************************************)
EXTENDS Naturals, FiniteSets

CONSTANTS
  NumTopics,    \* topics of the subject, numbered by their order
  Callers,      \* web requests, and the notification worker's claims
  TaskIds,      \* places for Celery messages; bounds how many exist at once
  MaxRetries,   \* autoretry limit of the generation task (3 in the code)
  ReviewLimit,  \* failed reviews after which a topic is given up (2)
  Faults        \* which environment faults this instance includes

\* "broker": publishing a message fails.  "lost": a task dies and its message
\* is gone.  "redelivered": a worker dies before it acknowledges (acks_late).
\* "slow": a claim can pass the cleanup's cut-off while its task is alive.
FaultKinds == {"broker", "lost", "redelivered", "slow"}

ASSUME ParametersOK ==
  /\ NumTopics \in Nat \ {0}
  /\ MaxRetries \in Nat
  /\ ReviewLimit \in Nat \ {0}
  /\ Faults \subseteq FaultKinds

Topics == 1 .. NumTopics

VARIABLES
  status,     \* Topic.content_status
  review,     \* Topic.review_status (its FAILED value is never written)
  attempts,   \* Topic.review_attempts
  started,    \* Topic.generation_started_at: "null", "recent" or "old"
  stored,     \* Topic.summary is not empty
  approved,   \* history: the stored summary is a text that passed a review
  disturbed,  \* history: a stale write or a redelivered message hit the topic
  caller,     \* progress of each web request or notification
  task,       \* the Celery messages, queued or running
  cleaner     \* progress of cleanup_stuck_generations

topicVars == <<status, review, attempts, started, stored, approved, disturbed>>
vars == <<topicVars, caller, task, cleaner>>

-----------------------------------------------------------------------------
(* Types *)

Status == {"NOT_GENERATED", "GENERATING", "READY", "FAILED"}
ReviewStatus == {"PENDING", "PASSED", "FLAGGED"}
Ages == {"null", "recent", "old"}

\* "generate": generate_content_for_topic, queued or calling the providers.
\* "saved": it stored the text.  "review": review_content_for_topic queued;
\* "reviewing": it holds the text it read; "counted": it counted a failed
\* review; "reset": it put the topic back; "requeue": it claimed it again.
Stages == {"none", "generate", "saved", "review", "reviewing", "counted",
           "reset", "requeue"}
GenerateStages == {"generate", "saved"}
ReviewStages == {"review", "reviewing", "counted", "reset", "requeue"}

TaskState == [stage : Stages, topic : Topics, retries : 0 .. MaxRetries,
              current : BOOLEAN]  \* current: the text it read is still stored

CallerState == [pc : {"idle", "reset", "claim", "publish", "buffer"},
                op : {"open", "single"}, topic : Topics, todo : SUBSET Topics]

CleanerState == [pc : {"idle", "stuck", "query", "failed"},
                 ids : SUBSET Topics]

TypeOK ==
  /\ status \in [Topics -> Status]
  /\ review \in [Topics -> ReviewStatus]
  /\ attempts \in [Topics -> 0 .. ReviewLimit]
  /\ started \in [Topics -> Ages]
  /\ stored \in [Topics -> BOOLEAN]
  /\ approved \in [Topics -> BOOLEAN]
  /\ disturbed \in [Topics -> BOOLEAN]
  /\ caller \in [Callers -> CallerState]
  /\ task \in [TaskIds -> TaskState]
  /\ cleaner \in CleanerState

NoTask == [stage |-> "none", topic |-> 1, retries |-> 0, current |-> FALSE]
Idle == [pc |-> "idle", op |-> "single", topic |-> 1, todo |-> {}]

GenerateMessage(t, r) ==
  [stage |-> "generate", topic |-> t, retries |-> r, current |-> FALSE]
ReviewMessage(t) ==
  [stage |-> "review", topic |-> t, retries |-> 0, current |-> FALSE]

\* The message a task was started from: what the broker delivers again.
MessageOf(i) ==
  IF task[i].stage \in GenerateStages
    THEN GenerateMessage(task[i].topic, task[i].retries)
    ELSE ReviewMessage(task[i].topic)

FreeTask(i) == task[i].stage = "none"

-----------------------------------------------------------------------------
(* Who owns a topic: the claim passes from the caller that won it to the   *)
(* generation task, to the review task, until one of them releases it.     *)

HoldingStages == {"generate", "saved", "review", "reviewing", "counted",
                  "requeue"}

TaskHolds(i, t) == task[i].topic = t /\ task[i].stage \in HoldingStages
CallerHolds(c, t) == caller[c].topic = t /\ caller[c].pc = "publish"

Held(t) == \/ \E i \in TaskIds : TaskHolds(i, t)
           \/ \E c \in Callers : CallerHolds(c, t)

\* Topics an unconditional reset must not touch: one somebody is working on,
\* or one whose content is finished.
Busy(t) == Held(t) \/ status[t] = "READY"

-----------------------------------------------------------------------------
(* Database statements *)

\* Mutant of Claim: anything but a running topic can be claimed.
ClaimFinished(t) ==
  /\ status[t] # "GENERATING"
  /\ status' = [status EXCEPT ![t] = "GENERATING"]
  /\ started' = [started EXCEPT ![t] = "recent"]
  /\ UNCHANGED <<review, attempts, stored, approved, disturbed>>

\* Mutant of Claim: a running topic can be claimed again.
ClaimRunning(t) ==
  /\ status[t] \in {"NOT_GENERATED", "GENERATING"}
  /\ status' = [status EXCEPT ![t] = "GENERATING"]
  /\ started' = [started EXCEPT ![t] = "recent"]
  /\ UNCHANGED <<review, attempts, stored, approved, disturbed>>

\* Mutant of Claim: generation_started_at is not set.
ClaimUndated(t) ==
  /\ status[t] = "NOT_GENERATED"
  /\ status' = [status EXCEPT ![t] = "GENERATING"]
  /\ UNCHANGED <<review, attempts, started, stored, approved, disturbed>>

\* ensure_topic_content_ready: one UPDATE guarded by the status it replaces.
Claim(t) ==
  /\ status[t] = "NOT_GENERATED"
  /\ status' = [status EXCEPT ![t] = "GENERATING"]
  /\ started' = [started EXCEPT ![t] = "recent"]
  /\ UNCHANGED <<review, attempts, stored, approved, disturbed>>

\* The same UPDATE when it matches no row.
ClaimLost(t) ==
  /\ status[t] # "NOT_GENERATED"
  /\ UNCHANGED topicVars

MarkFailed(t) ==
  /\ status' = [status EXCEPT ![t] = "FAILED"]
  /\ review' = [review EXCEPT ![t] = "FLAGGED"]
  /\ UNCHANGED <<attempts, started, stored, approved>>

\* request_topic_generation after its message could not be published.
SurfaceBrokerFailure(t) ==
  /\ "broker" \in Faults
  /\ status' = [status EXCEPT ![t] = "FAILED"]
  /\ UNCHANGED <<review, attempts, started, stored, approved, disturbed>>

-----------------------------------------------------------------------------
(* Web requests and the notification worker *)

Go(c, state) ==
  /\ caller' = [caller EXCEPT ![c] = state]
  /\ UNCHANGED <<task, cleaner>>

At(c, pc) == caller[c].pc = pc

\* What a caller does once it is done with a topic: opening a page goes on to
\* the buffer; a loop takes any topic that is left; otherwise it returns.
AfterRequest(c) ==
  IF caller[c].op = "open"
    THEN {[caller[c] EXCEPT !.pc = "buffer", !.op = "single"]}
    ELSE IF caller[c].todo = {}
      THEN {Idle}
      ELSE {[caller[c] EXCEPT !.pc = "claim", !.topic = u, !.todo = @ \ {u}] :
             u \in caller[c].todo}

\* prefetch_topic_content, first statement.
OpenTopic(c, t) ==
  /\ At(c, "idle")
  /\ Go(c, [pc |-> "claim", op |-> "open", topic |-> t, todo |-> {}])
  /\ UNCHANGED topicVars

\* ensure_buffer_ahead: read which of the next two topics have no content,
\* then request each of them.
BufferAhead(c) ==
  /\ At(c, "buffer")
  /\ LET t == caller[c].topic
         next == {u \in Topics : u \in {t + 1, t + 2}
                                   /\ status[u] = "NOT_GENERATED"}
     IN IF next = {}
          THEN Go(c, Idle)
          ELSE \E u \in next :
                 Go(c, [pc |-> "claim", op |-> "single", topic |-> u,
                        todo |-> next \ {u}])
  /\ UNCHANGED topicVars

\* generate_initial_batch, run when the subject's roadmap is READY.
InitialBatch(c) ==
  /\ At(c, "idle")
  /\ LET first == {u \in Topics : u <= 3 /\ status[u] = "NOT_GENERATED"}
     IN \E u \in first :
          Go(c, [pc |-> "claim", op |-> "single", topic |-> u,
                 todo |-> first \ {u}])
  /\ UNCHANGED topicVars

\* Mutant of RetryTopic: the reset is not guarded by FAILED.
RetryAnyTopic(c, t) ==
  /\ At(c, "idle")
  /\ Go(c, [pc |-> "claim", op |-> "single", topic |-> t, todo |-> {}])
  /\ status' = [status EXCEPT ![t] = "NOT_GENERATED"]
  /\ review' = [review EXCEPT ![t] = "PENDING"]
  /\ attempts' = [attempts EXCEPT ![t] = 0]
  /\ started' = [started EXCEPT ![t] = "null"]
  /\ UNCHANGED <<stored, approved, disturbed>>

\* retry_topic: the reset is guarded by FAILED; the request follows either way.
RetryTopic(c, t) ==
  /\ At(c, "idle")
  /\ Go(c, [pc |-> "claim", op |-> "single", topic |-> t, todo |-> {}])
  /\ IF status[t] = "FAILED"
       THEN /\ status' = [status EXCEPT ![t] = "NOT_GENERATED"]
            /\ review' = [review EXCEPT ![t] = "PENDING"]
            /\ attempts' = [attempts EXCEPT ![t] = 0]
            /\ started' = [started EXCEPT ![t] = "null"]
            /\ UNCHANGED <<stored, approved, disturbed>>
       ELSE UNCHANGED topicVars

\* send_notification on its first try reads the first topic without content...
Notify(c) ==
  /\ At(c, "idle")
  /\ \E t \in Topics :
       /\ status[t] \in {"NOT_GENERATED", "FAILED"}
       /\ \A u \in Topics : status[u] \in {"NOT_GENERATED", "FAILED"} => t <= u
       /\ Go(c, [pc |-> IF status[t] = "FAILED" THEN "reset" ELSE "claim",
                 op |-> "single", topic |-> t, todo |-> {}])
  /\ UNCHANGED topicVars

\* ...and, when it read FAILED, resets it without looking again.
NotifyReset(c) ==
  /\ At(c, "reset")
  /\ Go(c, [caller[c] EXCEPT !.pc = "claim"])
  /\ LET t == caller[c].topic
     IN /\ status' = [status EXCEPT ![t] = "NOT_GENERATED"]
        /\ disturbed' = [disturbed EXCEPT ![t] = @ \/ Busy(t)]
  /\ UNCHANGED <<review, attempts, started, stored, approved>>

\* request_topic_generation: won the claim, lost it, or (below) the publish.
WinClaim(c) ==
  /\ At(c, "claim")
  /\ Claim(caller[c].topic)
  /\ Go(c, [caller[c] EXCEPT !.pc = "publish"])

LoseClaim(c) ==
  /\ At(c, "claim")
  /\ ClaimLost(caller[c].topic)
  /\ \E after \in AfterRequest(c) : Go(c, after)

QueueTask(c, i) ==
  /\ At(c, "publish")
  /\ FreeTask(i)
  /\ task' = [task EXCEPT ![i] = GenerateMessage(caller[c].topic, 0)]
  /\ \E after \in AfterRequest(c) : caller' = [caller EXCEPT ![c] = after]
  /\ UNCHANGED <<topicVars, cleaner>>

QueueFails(c) ==
  /\ At(c, "publish")
  /\ SurfaceBrokerFailure(caller[c].topic)
  /\ \E after \in AfterRequest(c) : Go(c, after)

\* The web process or the worker dies between two statements.
CallerDies(c) ==
  /\ "lost" \in Faults
  /\ ~ At(c, "idle")
  /\ Go(c, Idle)
  /\ UNCHANGED topicVars

-----------------------------------------------------------------------------
(* Celery tasks *)

TaskStep(i, state) ==
  /\ task' = [task EXCEPT ![i] = state]
  /\ UNCHANGED <<caller, cleaner>>

\* The task returns: its message is acknowledged, or its worker dies just
\* before that and the broker delivers the message to another worker.
Return(i) ==
  \/ /\ TaskStep(i, NoTask)
     /\ UNCHANGED disturbed
  \/ /\ "redelivered" \in Faults
     /\ TaskStep(i, MessageOf(i))
     /\ disturbed' = [disturbed EXCEPT ![task[i].topic] = TRUE]

\* generate_topic_content stores a valid answer; from here on a review that is
\* under way elsewhere holds a text that is no longer the stored one.
SaveContent(i) ==
  /\ task[i].stage = "generate"
  /\ LET t == task[i].topic
     IN /\ stored' = [stored EXCEPT ![t] = TRUE]
        /\ approved' = [approved EXCEPT ![t] = FALSE]
        /\ task' = [j \in TaskIds |->
                      IF j = i THEN [task[i] EXCEPT !.stage = "saved"]
                      ELSE IF task[j].topic = t
                             THEN [task[j] EXCEPT !.current = FALSE]
                             ELSE task[j]]
  /\ UNCHANGED <<status, review, attempts, started, disturbed, caller, cleaner>>

\* GenerationError: no attempt gave a valid answer.
GenerationFails(i) ==
  /\ task[i].stage = "generate"
  /\ MarkFailed(task[i].topic)
  /\ Return(i)

\* ProviderError with tries left: Celery queues the message again.
RetryLater(i) ==
  /\ task[i].stage = "generate"
  /\ task[i].retries < MaxRetries
  /\ TaskStep(i, GenerateMessage(task[i].topic, task[i].retries + 1))
  /\ UNCHANGED topicVars

\* ProviderError on the last try.
ProvidersFail(i) ==
  /\ task[i].stage = "generate"
  /\ task[i].retries >= MaxRetries
  /\ MarkFailed(task[i].topic)
  /\ Return(i)

\* review_content_for_topic.delay, then the generation task returns.
QueueReview(i) ==
  /\ task[i].stage = "saved"
  /\ TaskStep(i, ReviewMessage(task[i].topic))
  /\ UNCHANGED topicVars

\* As above, but the worker dies before it acknowledges: both messages exist.
QueueReviewUnacked(i, j) ==
  /\ "redelivered" \in Faults
  /\ task[i].stage = "saved"
  /\ FreeTask(j)
  /\ task' = [task EXCEPT ![i] = ReviewMessage(task[i].topic),
                          ![j] = MessageOf(i)]
  /\ disturbed' = [disturbed EXCEPT ![task[i].topic] = TRUE]
  /\ UNCHANGED <<status, review, attempts, started, stored, approved,
                 caller, cleaner>>

\* The review cannot be queued: the task ends with that error.
QueueReviewFails(i) ==
  /\ "broker" \in Faults
  /\ task[i].stage = "saved"
  /\ TaskStep(i, NoTask)
  /\ UNCHANGED topicVars

\* review_topic_content reads the text it is going to review.
ReadContent(i) ==
  /\ task[i].stage = "review"
  /\ TaskStep(i, [task[i] EXCEPT !.stage = "reviewing", !.current = TRUE])
  /\ UNCHANGED topicVars

ReviewPasses(i) ==
  /\ task[i].stage = "reviewing"
  /\ LET t == task[i].topic
     IN /\ status' = [status EXCEPT ![t] = "READY"]
        /\ review' = [review EXCEPT ![t] = "PASSED"]
        /\ approved' = [approved EXCEPT ![t] = @ \/ task[i].current]
  /\ Return(i)
  /\ UNCHANGED <<attempts, started, stored>>

\* The reviewer rejects the text, or no reviewer answered.
ReviewFails(i) ==
  /\ task[i].stage = "reviewing"
  /\ LET t == task[i].topic
     IN attempts' = [attempts EXCEPT ![t] =
                       IF @ < ReviewLimit THEN @ + 1 ELSE @]
  /\ TaskStep(i, [task[i] EXCEPT !.stage = "counted", !.current = FALSE])
  /\ UNCHANGED <<status, review, started, stored, approved, disturbed>>

\* Fewer failed reviews than the limit: put the topic back...
ReleaseForRetry(i) ==
  /\ task[i].stage = "counted"
  /\ LET t == task[i].topic
     IN /\ attempts[t] < ReviewLimit
        /\ status' = [status EXCEPT ![t] = "NOT_GENERATED"]
        /\ started' = [started EXCEPT ![t] = "null"]
  /\ TaskStep(i, [task[i] EXCEPT !.stage = "reset"])
  /\ UNCHANGED <<review, attempts, stored, approved, disturbed>>

\* Mutant of GiveUp: after the last failed review the text is published anyway.
PublishAnyway(i) ==
  /\ task[i].stage = "counted"
  /\ attempts[task[i].topic] >= ReviewLimit
  /\ status' = [status EXCEPT ![task[i].topic] = "READY"]
  /\ Return(i)
  /\ UNCHANGED <<review, attempts, started, stored, approved>>

GiveUp(i) ==
  /\ task[i].stage = "counted"
  /\ attempts[task[i].topic] >= ReviewLimit
  /\ MarkFailed(task[i].topic)
  /\ Return(i)

\* ...and request it again, which somebody else may have done meanwhile.
Reclaim(i) ==
  /\ task[i].stage = "reset"
  /\ Claim(task[i].topic)
  /\ TaskStep(i, [task[i] EXCEPT !.stage = "requeue"])

ReclaimLost(i) ==
  /\ task[i].stage = "reset"
  /\ status[task[i].topic] # "NOT_GENERATED"
  /\ Return(i)
  /\ UNCHANGED <<status, review, attempts, started, stored, approved>>

Requeue(i) ==
  /\ task[i].stage = "requeue"
  /\ TaskStep(i, GenerateMessage(task[i].topic, 0))
  /\ UNCHANGED topicVars

RequeueUnacked(i, j) ==
  /\ "redelivered" \in Faults
  /\ task[i].stage = "requeue"
  /\ FreeTask(j)
  /\ task' = [task EXCEPT ![i] = GenerateMessage(task[i].topic, 0),
                          ![j] = MessageOf(i)]
  /\ disturbed' = [disturbed EXCEPT ![task[i].topic] = TRUE]
  /\ UNCHANGED <<status, review, attempts, started, stored, approved,
                 caller, cleaner>>

RequeueFails(i) ==
  /\ task[i].stage = "requeue"
  /\ SurfaceBrokerFailure(task[i].topic)
  /\ TaskStep(i, NoTask)

\* The task is killed (time limit, unexpected exception) and not run again.
TaskLost(i) ==
  /\ "lost" \in Faults
  /\ ~ FreeTask(i)
  /\ TaskStep(i, NoTask)
  /\ UNCHANGED topicVars

\* The worker's host dies half-way and the message is delivered again.  A
\* review that had already put its topic back no longer owns it.
TaskRedelivered(i) ==
  /\ "redelivered" \in Faults
  /\ ~ FreeTask(i)
  /\ TaskStep(i, MessageOf(i))
  /\ disturbed' = [disturbed EXCEPT ![task[i].topic] =
                     @ \/ task[i].stage = "reset"]
  /\ UNCHANGED <<status, review, attempts, started, stored, approved>>

-----------------------------------------------------------------------------
(* cleanup_stuck_generations: two queries, each followed by an update of   *)
(* the ids it returned, whatever has become of them                        *)

Clean(pc, ids) ==
  /\ cleaner' = [pc |-> pc, ids |-> ids]
  /\ UNCHANGED <<caller, task>>

FindStuck ==
  /\ cleaner.pc = "idle"
  /\ Clean("stuck", {t \in Topics : status[t] = "GENERATING"
                                      /\ started[t] = "old"})
  /\ UNCHANGED topicVars

ResetStuck ==
  /\ cleaner.pc = "stuck"
  /\ LET ids == cleaner.ids
     IN /\ status' = [t \in Topics |->
                        IF t \in ids THEN "NOT_GENERATED" ELSE status[t]]
        /\ started' = [t \in Topics |->
                         IF t \in ids THEN "null" ELSE started[t]]
        /\ disturbed' = [t \in Topics |->
                           disturbed[t] \/ (t \in ids /\ Busy(t))]
  /\ Clean("query", {})
  /\ UNCHANGED <<review, attempts, stored, approved>>

FindFailed ==
  /\ cleaner.pc = "query"
  /\ Clean("failed", {t \in Topics : /\ status[t] = "FAILED"
                                     /\ review[t] = "FLAGGED"
                                     /\ attempts[t] = 0
                                     /\ started[t] = "old"})
  /\ UNCHANGED topicVars

ResetFailed ==
  /\ cleaner.pc = "failed"
  /\ LET ids == cleaner.ids
     IN /\ status' = [t \in Topics |->
                        IF t \in ids THEN "NOT_GENERATED" ELSE status[t]]
        /\ review' = [t \in Topics |->
                        IF t \in ids THEN "PENDING" ELSE review[t]]
        /\ started' = [t \in Topics |->
                         IF t \in ids THEN "null" ELSE started[t]]
        /\ disturbed' = [t \in Topics |->
                           disturbed[t] \/ (t \in ids /\ Busy(t))]
  /\ Clean("idle", {})
  /\ UNCHANGED <<attempts, stored, approved>>

\* The claim passes the one hour cut-off.
Age(t) ==
  /\ started[t] = "recent"
  /\ "slow" \in Faults \/ ~ Held(t)
  /\ started' = [started EXCEPT ![t] = "old"]
  /\ UNCHANGED <<status, review, attempts, stored, approved, disturbed,
                 caller, task, cleaner>>

-----------------------------------------------------------------------------
Init ==
  /\ status = [t \in Topics |-> "NOT_GENERATED"]
  /\ review = [t \in Topics |-> "PENDING"]
  /\ attempts = [t \in Topics |-> 0]
  /\ started = [t \in Topics |-> "null"]
  /\ stored = [t \in Topics |-> FALSE]
  /\ approved = [t \in Topics |-> FALSE]
  /\ disturbed = [t \in Topics |-> FALSE]
  /\ caller = [c \in Callers |-> Idle]
  /\ task = [i \in TaskIds |-> NoTask]
  /\ cleaner = [pc |-> "idle", ids |-> {}]

CallerStep(c) ==
  \/ \E t \in Topics : OpenTopic(c, t) \/ RetryTopic(c, t)
  \/ BufferAhead(c)
  \/ InitialBatch(c)
  \/ Notify(c)
  \/ NotifyReset(c)
  \/ WinClaim(c)
  \/ LoseClaim(c)
  \/ \E i \in TaskIds : QueueTask(c, i)
  \/ QueueFails(c)
  \/ CallerDies(c)

WorkerStep(i) ==
  \/ SaveContent(i)
  \/ GenerationFails(i)
  \/ RetryLater(i)
  \/ ProvidersFail(i)
  \/ QueueReview(i)
  \/ \E j \in TaskIds : QueueReviewUnacked(i, j) \/ RequeueUnacked(i, j)
  \/ QueueReviewFails(i)
  \/ ReadContent(i)
  \/ ReviewPasses(i)
  \/ ReviewFails(i)
  \/ ReleaseForRetry(i)
  \/ GiveUp(i)
  \/ Reclaim(i)
  \/ ReclaimLost(i)
  \/ Requeue(i)
  \/ RequeueFails(i)
  \/ TaskLost(i)
  \/ TaskRedelivered(i)

CleanerStep == FindStuck \/ ResetStuck \/ FindFailed \/ ResetFailed

Next ==
  \/ \E c \in Callers : CallerStep(c)
  \/ \E i \in TaskIds : WorkerStep(i)
  \/ CleanerStep
  \/ \E t \in Topics : Age(t)

Spec == Init /\ [][Next]_vars

\* The beat schedule keeps starting the cleanup, and time passes.  Workers,
\* providers and users owe nothing.
FairSpec ==
  /\ Spec
  /\ WF_vars(CleanerStep)
  /\ \A t \in Topics : WF_vars(Age(t))

-----------------------------------------------------------------------------
(* Properties *)

\* At most one caller or task owns a topic: the claim hands over one owner at
\* a time, as long as no stale reset and no redelivered message interfered.
SingleFlight ==
  \A t \in Topics : ~ disturbed[t] =>
    /\ \A i, j \in TaskIds : TaskHolds(i, t) /\ TaskHolds(j, t) => i = j
    /\ \A c, d \in Callers : CallerHolds(c, t) /\ CallerHolds(d, t) => c = d
    /\ \A c \in Callers, i \in TaskIds : ~ (CallerHolds(c, t) /\ TaskHolds(i, t))

\* A READY topic shows a text that passed a review, and not one that was
\* stored by another task after the review had read its copy.
ReadyMeansReviewed ==
  \A t \in Topics :
    status[t] = "READY" =>
      /\ stored[t] /\ review[t] = "PASSED"
      /\ ~ disturbed[t] => approved[t]

\* The invariant behind the two above.  The owner of a topic nobody interfered
\* with finds it GENERATING (so no claim, retry or notification can take it);
\* a review judges the text that is stored, and never an empty one.
Ownership ==
  /\ \A t \in Topics : ~ disturbed[t] /\ Held(t) => status[t] = "GENERATING"
  /\ \A i \in TaskIds :
       /\ task[i].stage \in {"saved"} \cup ReviewStages => stored[task[i].topic]
       /\ task[i].stage = "reviewing" /\ ~ disturbed[task[i].topic]
            => task[i].current

\* Every topic in GENERATING carries the time of its claim, so the cleanup's
\* age filter can find it, however the statements of the writers interleave.
ClaimIsDated ==
  \A t \in Topics : status[t] = "GENERATING" => started[t] # "null"

\* Published content stays published: READY is left, and its text changed,
\* only when a stale reset or a redelivered message reached the topic.
ReadyIsFinal ==
  [][\A t \in Topics :
       status[t] = "READY" /\ ~ disturbed'[t] =>
         status'[t] = "READY" /\ approved'[t]]_vars

\* The promise of ContentLifecycle, kept by the statements above.
PhaseOf(t) ==
  CASE disturbed[t] -> "disturbed"
    [] ~ disturbed[t] /\ status[t] = "NOT_GENERATED" -> "empty"
    [] ~ disturbed[t] /\ status[t] = "GENERATING" -> "working"
    [] ~ disturbed[t] /\ status[t] = "READY" -> "ready"
    [] ~ disturbed[t] /\ status[t] = "FAILED" -> "failed"

Lifecycle == INSTANCE ContentLifecycle
               WITH phase <- [t \in Topics |-> PhaseOf(t)]

\* Every behaviour of the pipeline is one of ContentLifecycle: no interleaving
\* of claims, tasks, retries and cleanups skips or reverses a phase.
ImplementsLifecycle == Lifecycle!Spec

\* A topic does not stay GENERATING for ever, whatever happened to its task.
NoneStuck ==
  \A t \in Topics : status[t] = "GENERATING" ~> status[t] # "GENERATING"

=============================================================================
