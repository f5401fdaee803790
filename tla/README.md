# Verification of Wicky (learnerhq)

TLA+ models of the Wicky backend, the model-checking runs that explore them on
small instances, and machine-checked proofs about them for instances of any
size.  The reference is the Python code; every definition that models code names
its lines in `PROJECT.json` under `map`.

Wicky lets a learner enroll in up to five subjects.  A language model writes a
subject's roadmap (20 to 25 topics over three levels), the text of each topic,
a review of that text, and quizzes.  The work is done by Django web processes,
Celery workers and a beat schedule over one Postgres database; Redis carries
messages, the event stream and the throttle's state.  The settings that make
this hard are these:

* `ATOMIC_REQUESTS` is off and the services open no transactions, but for
  `_get_or_create_subject`.  Requests and tasks interleave between any two
  statements.
* Celery acknowledges late (`config/settings/base.py:174`): a worker that dies
  has its message delivered again, also when the task had done all its writes.
* Tasks have a time limit (`base.py:171-172`), and providers fail.
* The only coordination is a conditional `UPDATE` (claims), unique constraints,
  and an hourly cleanup that resets what looks abandoned.

## Inventory

| Component | Code | State | Operations | Hard behaviour | Correct when | Module |
|---|---|---|---|---|---|---|
| Topic content pipeline | `learning/services.py`, `learning/tasks.py` | `Topic.content_status`, `review_status`, `review_attempts`, `generation_started_at`, `summary`; Celery messages | open a topic, buffer ahead, initial batch, retry, notify; generate, review, requeue; cleanup | claims, redelivery, retries, a stale cleanup, a stale notification | one owner per topic; READY only with reviewed text; READY final; nothing stuck | `TopicContent`, `ContentLifecycle` |
| Roadmap generation | same | `Subject.roadmap_status`, `roadmap_started_at`, its topics | enroll, retry, build, cleanup | the same, and a crash between inserting and READY | topics inserted once; READY only with topics; FAILED can be retried | `RoadmapGeneration`, `RoadmapLifecycle` |
| Enrolment row and levels | `services.py` (`check_level_progress`), `views.py` (`RemoveSubjectView`) | `UserSubjectProgress` | check the level, leave, enroll | read-compute-write without a transaction; a row deleted and made again | no level unlocked that was not earned | `LevelProgress` |
| Quizzes and points | `services.py` (`generate_quiz`, `submit_quiz`) | `TopicProgress`, `QuizAttempt`, points | ask for a quiz, submit, view links | check, wait for the model, then write; double submissions; crashes | passes rest on attempts; points are those of the attempts; one quiz an hour | `QuizProgress` |
| Enrolment capacity, automatic selection | `services.py`, `tasks.py` (`auto_select_subjects`) | active rows of a user, `needs_subject_selection`, interests | add, create, leave and complete a subject; select automatically | count, then create; a list of users that is stale when used; a request that dies half-way | the limit is exceeded by overlapping requests only; every subject's roadmap is requested; an idle learner is served | `Enrolment` |
| Subject resolution, discovery | `services.py` (`resolve_or_create_subject`), `views.py` | the catalogue of subjects | look up, standardize, create; suggest | check, then create, ignoring case | one subject per name | `Enrolment` |
| Notifications | `services.py`, `tasks.py`, `config/celery.py` | due time and frequency of a row; Celery messages | dispatch every 15 minutes, send, retry, change the frequency | retries of a task while the next dispatch finds the same due time; a row that is gone | due times stay on their schedule, none is skipped, an overdue one is caught up with | `Notifications` |
| Roadmap editing, subject pages | `services.py` (`insert_roadmap_topics`, `update_roadmap`, `get_subject_detail`), `views.py` (`EnrolledSubjectsView`) | orders and levels of topics, progress rows, bonus credit | insert, append, update; list and detail page | two-phase shift without a transaction; credit computed from shifted orders; counts over joins | the sequence of topics is kept; orders 1..n; credit only to those who passed; the pages agree | `Course` |
| Server-sent events | `learning/events.py`, `core/eventstream.py` | none; messages per user | publish after the write of an outcome | a status re-read and sent late, writes that publish nothing, a worker that dies before it has sent | an open page is not left waiting for an outcome, unless its event failed, was never sent or crossed another | `StatusEvents` |
| Leaderboards, others learning | `services.py` | none | rank; list who learns the same | hidden users, ties, limits | ranks count everybody; company comes first | `Standings` |
| AI provider chain | `ai/services.py` | none | try providers in order, repeat a review, repeat an embedding | errors, truncated and malformed replies | whole answers only; nobody is left unasked | `ProviderChain` |
| Accounts, sessions, password reset | `core/views.py`, `core/services.py`, `core/models.py` | user, preferences, reset tokens, cookies | sign up, in and out, refresh, reset, edit the profile | objects read before another request's write; several links; a death between two statements | a session proves a password it signed in with or was refreshed from; links end with the password | `Accounts` |
| Backoff throttle | `config/utils/throttling.py` | count and time in the cache, a lock | allow a request, forget | the lock expires while it is held | one request at a time inside; grants spaced out; every grant counts | `BackoffThrottle` |
| Email task, health, settings, admin, serializers | `config/`, `core/health.py` | none of their own | I/O, configuration, validation | | | not modelled |

How they interact: enrolling (`Enrolment`) claims a roadmap
(`RoadmapGeneration`), whose task, when it is READY, requests the first topics
(`TopicContent!InitialBatch`).  Opening a topic and sending a notification
request topics too.  Quizzes need an enrolment and an unlocked level
(`QuizProgress` contains the actions of `LevelProgress`), and passing topics is
what the level check counts.  `RoadmapGeneration` is one step of `Enrolment`
(`RoadmapEnds`), the level check one of `Enrolment`, `Notifications` and
`Course`; the steps in between are in the module of the component itself.  The
remaining five components share no table with these nor with each other, and
`Services` puts them side by side.  All the hazards of this code, each at the line
where it bites and with the properties that watch it, are in `PROJECT.json`
under `hazards`.

## Modules

### TopicContent

One subject's topics, the callers (web requests, and the notification task as
far as it touches topics), the Celery messages and the cleanup.  **One step is
one database statement or one message to the broker**, so that anything can
happen between two statements of the code.

* A *caller* is `idle`, about to `reset`, `claim`, `publish` or `buffer`, with
  the topics it has still to request.  `WinClaim`/`LoseClaim` are the two
  outcomes of the conditional UPDATE in `ensure_topic_content_ready`;
  `QueueTask`/`QueueFails` are `request_topic_generation` after it.
* A *task* is a place for one Celery message with what its worker has done so
  far: `generate`, `saved`, `review`, `reviewing`, `counted`, `reset`,
  `requeue`.  The answers of the language model are nondeterministic.  `current`
  says whether the text a review has read is still the stored one.
* The *cleaner* goes through its two loops: query, then one UPDATE by the ids
  found, with no second look at the status.
* The age of a claim is `null`, `recent` or `old`, since the code only compares
  it with a cut-off of one hour.

The constant `Faults` says which faults an instance has: `broker` (publishing
fails), `lost` (a task or a request dies and nothing runs it again),
`redelivered` (a worker dies before it acknowledges), `slow` (a claim may pass
the cut-off while its owner is alive; without it, `Age` waits until nobody
owns the topic).

`disturbed[t]` is a history variable.  It becomes true in exactly three ways: a
notification resets a topic that is owned or READY, the cleanup does, or a
message is delivered after its task had ended or given the topic away.  These
are the known holes of the protocol (see the findings), and most safety
properties say: *outside these holes*, the protocol keeps its promise.  No guard
reads it.

`ContentLifecycle` is what is promised: a topic goes from empty to working, from
there to ready, failed or back, and ready is final unless the topic is
disturbed.  `TopicContent` implements it (`ImplementsLifecycle`), under the
mapping `PhaseOf`.

### RoadmapGeneration

The same protocol for one subject, with its differences: the claim also takes
FAILED, requests look for topics before they claim, `build_roadmap` inserts all
the topics in one transaction whose unique orders make a second insertion fail,
and the cleanup surfaces FAILED.  Subjects share none of this state, so one is
modelled.  The content of the topics it requests at the end is `batched`.

`RoadmapLifecycle` is what is promised of a roadmap: asked for, given its topics
while somebody works on it, ready, and only then its first topics served; or
failed, and asked for again.  `disturbed` is observed as above, and set by a
redelivered message and by a cleanup that writes a subject READY or somebody's;
the promise that is left after it is that topics stay and that READY has some.
`RoadmapGeneration` implements it (`ImplementsLifecycle`), under the mapping
`Phase`.

### LevelProgress

One learner's row for one subject, and `check_level_progress` as the three
statements it is: read the row, count the topics, save the row.  `row` tells a
check that holds a row which has been deleted since (and maybe made anew) from
one whose row is there.  `TopicPassed` stands for the quizzes, and moves a
topic's status in any way `QuizProgress` can.  Actions of a request may die half
way when `Crashes`.

### QuizProgress

`generate_quiz`, `submit_quiz`, `mark_resource_links_viewed` of one learner,
several requests at once.  It contains the steps of `LevelProgress`
(`Ladder == INSTANCE LevelProgress`) and implements it: `ImplementsLadder` is
`Ladder!Spec`, so what `LevelProgress` and its proofs assume of quizzes is what
quizzes do.  An attempt is `open`, `passed` or `failed`; the hour after an
attempt is the set `cooling`; a normal quiz is worth 1 and an advanced one 2,
because the properties compare points with attempts and not with each other.
Checks with no write in between are one step with what follows them up to the
next wait or write.  `resubmitted` is a history variable: an attempt's answers
were saved over older ones.

### Enrolment

The users' rows, stars and flags, the catalogue, and *actors*: web requests that
add or create a subject, and runs of `auto_select_subjects`.  Every action of an
actor is one statement of the code: `FindRow`, `CountSlots`, `InsertRow` (or
`InsertRowRefused` by the unique constraint), `RequestRoadmap` and `ClearFlags`
are `add_subject_to_user`; `LookUp`, `MatchSimilar`, `Standardize`,
`InsertSubject` and `InsertSubjectRefused` are `resolve_or_create_subject`.  Any
actor may die between any two of them (`Die`).  What embeddings and models
answer is nondeterministic: any subject may be near enough, any name may be the
standard one.  A name is a word and its spelling, since `name__iexact` looks at
the word and the unique constraint at both.  `lost`, `unanswered` and an actor's
`overtaken` are history variables.

The code cannot promise a limit: slots are counted in one statement and taken in
another.  `LimitHolds` states what it does promise, that whoever takes a slot
had one when nobody took one in between; `NamesShared` is the same for the
creation of a subject.

### Notifications

One enrolment row and the Celery messages about it, in hours of a clock that
starts with the enrolment.  A message is dispatched, begins, prepares a topic,
decides whether to wait for it, and advances the due time, with one action
each; it may be redelivered or lost at any of them.  `anchor` remembers the time
the schedule counts from, `stale` that the message about to save read the row
before the learner changed the frequency, `crowded` that two messages of the row
were under way at once.

### Course

The topics of one subject with their orders, the progress rows of some learners,
and *editors*: `update_roadmap` statement by statement.  `ShiftAway`,
`CreateInserted`, `ShiftBack`, `ReadPast`, `ReadRows`, `MarkRows` and `AddRows`
are `insert_roadmap_topics`.  `CanMove` is the unique constraint on the order
and the width of its column; `Fails` ends an edit at any statement and leaves
what was done.  `Detail` and `ListEntry` are what `get_subject_detail` and
`EnrolledSubjectsView` compute, with the counts and the exclusion over the joins
they use.  The list floors a double where the detail page divides integers:
`FloatPercent` is what `floor((passed / total) * 100)` comes to, which for every
total up to 5000 was compared with the arithmetic of Python.  It differs from the
integer quotient for 29, 57 and 58 percent only, when they are exact, so from 50
topics on.  The run has no such roadmap; the theorem covers them.  `met` and `broken` remember that edits overlapped or broke off.

### StatusEvents, Standings, ProviderChain, Accounts, BackoffThrottle

Five small modules for components that share nothing.

* `StatusEvents`: the status of a topic or a roadmap.  `Change` is every write
  that is published: READY and FAILED, and a topic that the cleanup gives back
  (`Published`).  Its publisher reads the status again and sends it to each
  learner, and may die on the way (`Dies`).  `Claim` and `PutBack` are the writes
  that publish nothing: claims, the reset of a retry, the release of a topic by
  its review and the reset by a notification.  Pages read the status when they
  open.  `missed` remembers whose event failed, was never sent or may have
  crossed another one, `silent` that the last write published nothing.
  `PagesAreCurrent` promises what publishing is for: no page is left waiting for
  an outcome.  A page that still shows FAILED after another learner's retry, or
  NOT_GENERATED after a claim, is how the code works, until its next GET.
* `Standings`: leaderboards and `others_learning` as operators over a state that
  is chosen once and never changes.  `InOrder` is what `order_by` and `sort`
  make of rows no two of which are equal; a board is the set of its entries with
  their ranks, cut where the loop of the code breaks off (`FirstOf`).
* `ProviderChain`: one call, from provider to provider, and for reviews and
  embeddings once more; `log` is what each request came to.
* `Accounts`: one user, browsers with their cookies, reset links.  A password
  is the number of times it was set, a cookie the password its claim is the hash
  of.
* `BackoffThrottle`: one address, the lock and the entry in the cache, and
  requests that can be slower than the lock's time.  `late` remembers that one
  was.

`Services` instantiates the five next to each other: each behaviour belongs to
one of them (`part`), and the others stand still.  `MCServices` only adds the
symmetry TLC uses.

## Runs

| Run | Question | Instance |
|---|---|---|
| `topic_faults` | Is there one owner per topic, is READY reviewed and final, does the pipeline implement its lifecycle, and does no topic stay GENERATING? | 1 topic, 1 caller, 2 messages, all faults, fairness |
| `topic_buffer` | Does each topic follow its lifecycle when requests go over several? | 2 topics, 2 callers, 1 message, no faults |
| `roadmap_faults` | One builder, one insertion, READY with topics, does the protocol implement its lifecycle (so that READY is final), and is no subject GENERATING for ever? | 2 requests, 3 messages, all faults, fairness |
| `level_races` | Is no level unlocked that was not earned, whatever the order of checks, and none lost but to a check that was overtaken? | 6 topics on 3 levels, 2 checks, 2 enrolments, crashes |
| `quiz_races` | Do passes rest on attempts, are the ledgers of topic and subject right, are topics moved as the ladder assumes? | 1 topic, 2 requests, both quizzes, 2 enrolments |
| `quiz_one_by_one` | Do attempts count once, is the hour kept, is an advanced pass kept? | 1 request and 1 check, 2 attempts, 2 enrolments, crashes |
| `enrolment_races` | Is the limit kept, is every roadmap requested, are flags answered and names shared, and is an idle learner served? | 1 learner, 2 requests or 1 of them and a run, 2 subjects, a limit of 1, deaths, fairness |
| `course_edits` | Is the sequence of topics kept, is credit deserved, do the pages agree, while edits and learners go on? | 2 topics at first, 4 at most; 2 editors, or 1 and a learner, or 2 learners |
| `notifications_late` | Do due times keep their schedule, is none skipped, and is an overdue one caught up with? | 1 row made up to 2 times, 2 messages, 1 topic, frequencies 1 and 2, 1 fault, fairness |
| `services` | The questions of the five small modules | see below |
| `quiz_double_submit` | *violated*: an attempt counts once, with overlapping requests | 2 requests |
| `course_current` | *violated*: the current topic is the first that is open and not passed | 2 learners, no edit |

The properties of `quiz_one_by_one` hold only as long as requests of a learner
do not overlap.  They are checked there because that is what the code achieves;
`quiz_double_submit` is one of them with two requests.  The proofs say more: it
is enough that requests under way are for different topics.  The other two break in
the same way: two requests pass the check of the hour before either has created
its attempt, and a slow normal submission writes PASSED over an advanced pass.

`services` checks five modules in one run.  Nothing is gained from their
interleaving, since no variable of one occurs in another.

### Bounds, and why they are enough

* *Topics*: the statements of the pipeline touch one topic at a time, except for
  the loops of callers and of the cleanup; one topic with every fault and two
  without are the two questions.  `topic_buffer` has one review and no retry,
  because they are counted per topic.
* *Callers and messages*: the races are between two owners.  In `topic_faults`
  the second owner is a redelivered message, the cleanup's reset or a retry of
  the caller; `topic_buffer` has the two callers.  In `roadmap_faults` a third
  message lets a redelivered one meet both a running and a queued task.  The
  proofs cover any number.
* *MaxRetries = 1* where the code has 3: the code only asks whether this is the
  last try, so one that is not and one that is are the two cases.
* *ReviewLimit = 2* is the code's.
* *LevelOf*: `OneToThree` has levels of 1, 2 and 3 topics, whose thresholds are
  1, 1 and 2: the floor of 1 and `n - 1` decide, as they do up to 9 topics.  80%
  decide from 10 topics on, which the proof covers and no run.
* *MaxEnrolments = 2*: one time leaving and enrolling again is what separates a
  stale row from a live one.
* *MaxAttempts*: with overlapping requests 1 (plus one attempt for each
  overlapping request), otherwise 2; it bounds who asks, never who answers.
  `CooldownOver` needs no more hours than there are attempts to come.
* *Offered*: which kinds of quiz the learner takes; every run has both.
* *One topic* in the quiz runs: what quizzes of different topics share is the
  subject's row, which they update atomically, each on its own.
* `Enrolment`: every row and flag belongs to one user, and the limit is the
  user's; a limit of 1 with two subjects has the learner below, at and above it.
  `Scenarios` are the seeded catalogues with the actors that overlap: two
  requests, or one and a run.  A roadmap has 20 topics, which only its being
  more than none matters for.
* `Course`: two topics at first and up to two in an insertion are enough for an
  insertion before, between and after; `TempShift` is 100 because no order comes
  near it, and `MaxOrder` lets a topic be shifted twice, which the code's column
  does too (two shifts of 10^9 fit into 2^31 - 1).  An order beyond `MaxOrder` is
  refused by the database, in a shift and in a creation.
* `Notifications`: a clock of 2 hours with frequencies of 1 and 2 has every
  order of a due time, a change and a message; the retry count of 1 is the last
  try and one that is not.
* `services`: two requests and a lock of 2 ticks for the throttle, with delays
  that double from 1 and reach their limit of 3; two browsers, two links and
  two passwords; two publishers and two learners, every status of the code, for a
  topic and for a roadmap; every state of three users.
* *Symmetry* is used only in runs without liveness, over callers, messages,
  checks, requests, tokens or learners, which no action compares or orders.

`CHECK_DEADLOCK FALSE` is set where the system may come to rest: a roadmap is
READY, a learner has left for good, or a bound above is used up.  In
`TopicContent` a learner can always open a topic, so deadlock is checked.

### Fairness

`FairSpec` of `TopicContent` and `RoadmapGeneration` gives weak fairness to two
things only: the cleanup, which the beat schedule starts every hour
(`config/celery.py`), and the passing of time (`Age`).  Workers, providers, the
broker and users owe nothing: a task may be lost, or wait for ever.  Under this,
`NoneStuck` says that GENERATING always ends, and it does so only because every
claim is dated (`ClaimIsDated`) and the cleanup acts on the age alone.  Liveness
needs the fault `slow`: without it a task that waits for ever keeps its claim
young.

`FairSpec` of `Enrolment` lets the runs of `auto_select_subjects` go on and
start again (beat starts them every 15 minutes), and that of `Notifications`
the dispatch and the tasks it starts.  Both may die a bounded number of times.
Learners, requests, providers and the generation of topics owe nothing.

## Proofs

The proofs hold for every value of the constants that satisfies the assumptions
named in the modules: any number of topics, learners, requests, messages,
attempts and retries and any set of faults.  The assumptions are
`ParametersOK`, `RoadmapParametersOK`, `LevelParametersOK`, `QuizParametersOK`,
`EnrolmentParametersOK`, the `Hours` of `Notifications`, the `Bounds` of
`Accounts`, `Notifications` and `Course`, the `Times` of the throttle, the
`Boards` of the standings, and the `Shift` of `Course`.  All but the last say that numbers are numbers and limits are positive.  `Shift` says that
`TempShift` is beyond every place an insertion fills, which 10^9 is, and that it
fits into the column.  TLC evaluates all of them in the runs.

Every safety property and every refinement of a passing run is proved; what
only TLC checks is liveness (below).

`TopicContentProofs`:

* `TypeCorrect`: `TypeOK` is inductive by itself.  Its interesting part is that
  `retries` and `attempts` stay within the limits.
* `OwnerInvariant`: `OwnerInv == TypeOK /\ SingleFlight /\ Ownership /\
  ReadyMeansReviewed` is inductive.  `SingleFlight` is not inductive by itself:
  that a claim finds no other owner needs that an owned topic is GENERATING, the
  first half of `Ownership`; that a verdict is about the stored text needs the
  second half.  `ReadyMeansReviewed` rides along, since a topic may only become
  READY from a review that is `current`.  There is one lemma per actor; under
  it, one step per action.  `ReturnFrame`, `ReleaseOwner` and `MessagesOwner`
  are the shapes most actions have in common (ending a task, releasing the
  topic, changing messages only).
* `OneOwner`, `OwnerFindsGenerating`, `ReadyIsReviewed`: the safety properties,
  from the invariant.
* `ClaimsAreDated`: every step that makes a topic GENERATING dates it, and every
  step that clears the date takes it out of GENERATING.
* `ReadyContentIsFinal`: `[][...]_vars` from `OwnerInv`, since whoever could
  write the status of a READY topic would own it, and its owner would have found
  it GENERATING.

* `PipelineImplementsLifecycle`: `Spec => ImplementsLifecycle`.  Every step
  either advances one topic (`Advances`: a claim, a review that passes, a
  failure) or advances none (`Restarts`: topics start over, or are disturbed);
  the first is a `Start`, `Finish` or `Fail` of the lifecycle, the second a
  `Reset`.  That a failure is a move from working needs `OwnerInv`: only the
  owner writes it.

`RoadmapGenerationProofs`:

* `BuildInv` (types, `inserts` counted by `topics`, and what each task knows
  about the topics) is inductive by itself and gives `RoadmapTypeCorrect`,
  `OneInsertion` and `ReadyRoadmapHasTopics`, under every fault and with no
  exception for disturbed subjects.
* `RoadmapInvariant` adds `SingleBuilder`, and gives `OneBuilder` and
  `ReadyRoadmapIsFinal`.  `OwnersShrink` is the shape of all steps but the claim
  and the handing over of the subject to a task.
* `RoadmapClaimsAreDated`.
* `GenerationImplementsLifecycle`: `Spec => ImplementsLifecycle`.  `Settled` is
  the invariant it needs beyond `RoadmapInv`: what the cleanup has found was asked
  for before, and content is requested, by a task that is about to or already,
  only of a subject that is READY and stays so.  A step is then a `Start`, `Insert`, `Finish`, `Fail`, `Serve` or a stutter
  (`CallerLives`, `WorkerLives`), or it interferes (`Interferes`, by
  `NothingIsForgotten` and `BatchStays`, which hold whatever has happened).

`LevelProgressProofs`:

* `LevelTypeCorrect`.
* `LevelsAreEarned`: `LevelInv` adds to `LevelEarned` what each check under way
  rests on: the levels below the one it read were earned, and once it has
  counted, that one too.  This is monotone, because topics are never un-passed
  (`PassedStays`), so what a stale check read stays true, whatever it then
  overwrites.  The arithmetic is in the lemmas about finite sets
  (`LevelCounts`, `EarnedStays`, `DoneIsEarned`).
* `LevelsAreKept`: needs the types only, since its premise, that no check under
  way was overtaken, makes the level a check writes the one it read.

`QuizProgressProofs`:

* `QuizInv == TypeOK /\ PassIsRecorded /\ \A r : Rests(r)` is inductive and
  gives `QuizTypeCorrect` and `PassesAreRecorded`.  `Rests` says what a request
  goes by over the statements it takes: an advanced quiz on what was checked
  before the model was asked, a submission on its attempt and on the answers it
  saved.  Without it neither the creation of an attempt nor `MarkPassed` is known
  to have its reason, since both happen statements after the check.  It stays
  true under the steps of others because what it looks at only grows: links stay
  viewed, topics stay started, attempts are added and never removed (`Grows`,
  `PassStays`, `RestStays`); answers that replace others are the exception the
  property makes (`resubmitted`).
* `QuizzesImplementLadder`: `Spec => ImplementsLadder`.  `MarkPassed` is a
  `TopicPassed` of `LevelProgress`, or changes nothing it knows of; steps of
  requests otherwise leave the row alone (`RowStays`, `StatusStays`).  So
  `LevelsAreEarned` holds of the quizzes as they are.
* `TopicsAddUp` and `SubjectAddsUp`: `LedgerInv` is `QuizInv` with both ledgers.
  A ledger compares sums, over requests and over topics, and each statement
  moves an amount from what a request owes to a topic, or from there to the
  subject: `TotalChange` says what a change of one summand does to the sum,
  `TopicAccount` and `SubjectAccount` what a request does to both sides.  Sums
  are folds, and a fold is defined by recursion over sets; what it computes
  (`TotalIs`, `SumsAdd`) is proved by contradiction from a set of least size
  that it fails for, in place of an induction.
* `AttemptsCountOnce`, `CooldownIsKept` and `PassesAreKept` have the hypothesis
  `[]Separate`: requests under way are for different topics.  Their run has one
  request at a time, which is a case of it.  What a request has read of its
  topic then nobody else writes (`OthersStay`, `WritesOwn`).  `SoloInv` says what overlapping would break, that what a request has
  read is still so when it writes (`Alone`): the last attempt is not recent until
  the new one is created, the attempt is open until its answers are saved, and
  the status is the one read before the points.  `Counted` has room for the
  attempt that is answered and not yet counted.
* `QuizLevelsAreEarned` and `QuizLevelsAreKept` put two results together: the
  quizzes refine `LevelProgress`, and of `LevelProgress` its theorems hold, so
  they hold of quizzes, level checks and enrolments as they interleave.  The
  theorems of `LevelProgressProofs` are instantiated (`Levels`) with the state of
  the quizzes; `LevelParameters` and `SameSpec` say that this is allowed.

`EnrolmentProofs`:

* `EnrolmentInv` is `TypeOK`, `RoadmapRequested`, `FlagsAnswered`, `CatalogueOK`
  and `Sound(a)` for every actor, and gives `LimitIsKept`, `NamesAreShared`,
  `RoadmapsAreRequested` and `FlagsAreAnswered`.  `Sound` is what an actor goes by:
  the subject it has chosen is in the catalogue, and what it counted or looked up
  is still so unless it was overtaken; whoever makes it untrue overtakes it.
  `CatalogueOK` keeps rows and stars inside the catalogue, and says that a roadmap
  nobody asked for has no topics, without which a request could find topics and
  claim nothing.
* The lemmas are by what a step does to an actor (`Moves`) and to the catalogue;
  each conjunct of the invariant then has one step per action that disturbs it.

`NotificationsProofs`:

* `NotificationTypeCorrect`: `Typed` says what the messages of a row may hold,
  and gives `TypeOK`.
* `ScheduleIsKept`: `OnGrid` is inductive.  `RowOnGrid` is the property itself
  with a multiple of the period instead of a remainder (`Grid`; `WholePeriods`
  and `GridIsSchedule` lead from one to the other).  What it lacks is what the
  messages hold: `MessageOnGrid` says that the copy of the due time a task has
  read is a time on the same grid, and the row's own one unless two messages of
  the row were under way; so that what is written from it, hours later, is on
  the grid too.  `Alone` is what `crowded` means.

`CourseProofs`:

* `CourseTypeCorrect`: `Typed` adds to `TypeOK` which rows an edit can have at
  which statement, and that the rows it adds are of topics it created.
* `SequenceIsKept`: `InSequence` adds that no two topics have the same order
  (`Unique`), and where the topics are between the two shifts (`Apart`): before
  the gap or beyond `TempShift`.  A topic that an earlier edit left there, having
  broken off, is shifted with the others and stays in its place.
* `OrdersStayDense`: `Gap` gives the orders exactly, in the middle of an edit:
  those before the insertion, then those of the new topics, then the others
  shifted.  That the last order is the number of topics is `LastIsCount`.
* `BonusesAreDeserved`: `Deserved` adds `Placed`, that the first of the topics
  created stays where the edit was asked to insert, so that the learners found
  behind that place are behind the topic.
* `PagesAlwaysAgree`, from the types and `Unique`: the counts over the joins count what
  they should (`RowsOfTopics`), the percentages of the two pages are at most one
  apart and are 100 for all topics only (`PercentOfAll`), a sum over levels is a count over topics
  (`LevelsAddUp`), and the links are a bijection because the places of the topics
  are 1 to n (`Ranks`, which compares the sizes of two intervals).

`ServicesProofs` proves each part by itself (`AccountInvariant`,
`ThrottleInvariant`, `CallInvariant`, `EventInvariant`, `StandingTypes`) and
then, in its last section, of `AllSpec`, which the run checks:

* `AccountInv` adds two facts to the types and to `SessionsProvePassword`,
  `LinksEndWithPassword` and `PreferencesExist`: a request about to sign tokens
  does it for a password its browser has presented (`SignsPresented`), and there
  are neither links nor uses of them before there is a user (`LinksHaveUser`).  The
  first is why a request that read the user before another one changed the
  password does no harm: it signs for the password it read.  It gives
  `AccountTypeCorrect`, `SessionsAreProofs`, `LinksEnd` and `PreferencesFollow`.
* `LockExcludes`: `LockInv` adds to the types and to `MutualExclusion` that
  whoever is inside holds a lock that has not expired, as long as nobody is
  `late`; only then does an `Acquire` that succeeds find nobody inside.
* `BackoffIsKept`: `BackoffInv` says that the entry in the cache is that of the
  last grant and has not expired (`Remembered`), and what a request inside has
  read of it (`HasRead`), which under the lock is still so when it writes.  When
  the entry expires the backoff is forgotten, and the spacing is that of the
  grants since.
* `ResultsHaveReasons`: `Progresses` says that the place in the chain counts the
  failures so far, and that a second round follows a single malformed reply.
* `PagesFollowStatus`: unless the last write was a silent one, for a learner who
  has missed nothing every event under way carries the status, and a page that
  shows another one will still hear (`Follows`); and outcomes are never silent.
* `StandingsStayFair`: there is no step, so this is about every state at once.
  The place of a row is the number of rows before it (`Place`).  In a strict
  order of a finite set no two rows share a place and none is left empty
  (`Places`), which compares sizes of finite sets (`SameSize`) and needs no
  induction.  So there is a sequence as `InOrder` chooses it (`Listed`), every
  such sequence has each row at its place (`InPlace`), and what a limit cuts off
  comes after what it leaves (`Cut`).  `BoardIsFirst` and `OthersInOrder` are the
  two halves of the property: a rank is one more than those ahead, hidden or
  not, and company stands before everybody else.

Model-checked only:

* Liveness: `NoneStuck`, `IdleLearnerIsServed` and `CatchesUp`, which need
  fairness and `ENABLED`.
* How far the premises of some properties can be lowered: `SequenceKept` and
  `OnSchedule` say nothing of edits and messages that overlap.

## Findings

Two places where the code does something other than its comments or documents
say; `PROJECT.json` quotes the lines, and each has a run whose counterexample
TLC prints.

1. `quiz_double_submit`: two overlapping submissions of one attempt both count.
2. `course_current`: `exclude()` with two conditions across the join to the
   progress rows becomes two subqueries, so a topic that a learner has started
   and *somebody* has passed is not offered as the current one.  The last
   conjunct of `PagesAgree` says what is left of the promise: what is offered
   can be opened, and was not passed.

Other places where the models had to follow the code and not what is said of it;
they are behaviours of the modules named, without a run of their own:

* A notification's reset of a FAILED topic is not guarded by FAILED
  (`tasks.py:193`), so with no fault at all two tasks can run for one topic
  (`TopicContent!NotifyReset`; `services.py:286` says at most one is queued).
* A subject can be FAILED with its topics in place, when a worker dies between
  inserting them and READY; then no retry starts anything
  (`RoadmapGeneration!LookForTopics`, `tasks.py:231`).
* A redelivered roadmap task whose generation fails writes FAILED over READY
  (`RoadmapGeneration!BuildFails`, `tasks.py:112`).  `ReadyIsFinal` excepts
  redelivered messages for this reason.
* Passing a topic's advanced quiz takes it out of the count that unlocks the
  next level (`LevelProgress!CountedAt`, `services.py:775`).
* The detail page's percentage is documented as "same value as the subject list"
  (`serializers.py:216`).  With 29 of 50 topics passed the list shows 57 and the
  detail page 58, because the list floors a rounded double
  (`Course!FloatPercent`, `views.py:525`).  `PagesAgree` says what is left: they
  are at most one apart, and a full 100 is never rounded.
* Events are said to be for "learning state changes" (`events.py:1`), but claims,
  retries, releases and resets by a notification publish nothing
  (`StatusEvents!Claim`, `StatusEvents!PutBack`); `test_topic_events.py:71` asserts
  it for the release.
* A sign-up that dies between the user and its preferences leaves a user without
  them; `PreferencesExist` excepts such deaths, and nothing makes up for them.

## Plan

1. *Done*: every component of the inventory but the last; proofs of every safety
   property the runs check and of the three refinements; the theorems about
   levels carried over to the quizzes.
2. Left to prove: what `SequenceKept` and `OnSchedule` say of edits and messages
   that overlap is left open by their premises, and a weaker promise that holds
   there too could be stated.
3. Left to model: the email task, should it come to keep state of its own.

## Not modelled, and why

The wording of prompts and the parsing of answers (the pipeline only sees valid,
invalid, or no answer); serializers, routing and permissions (no state of their
own); the email provider and the health check (pure I/O); settings, which appear
as the fault model; demo data; migrations.  Which subjects an embedding is near
to, and in which order a database lists what it was not told to order, are
nondeterministic choices.  The rate limits that the framework counts per address
are left out.  The queries that explore and preview
subjects read and change nothing, and are left out of `Enrolment`.  Publishing
status events changes no database state and is left
out of the pipeline modules; its ordering is in `StatusEvents`.

## Running

    tlc -workers 2 -config TopicContent_faults.cfg MCTopicContent
    tlapm TopicContentProofs.tla

Every run of `PROJECT.json` ends within three minutes.
