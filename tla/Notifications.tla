---------------------------- MODULE Notifications ----------------------------
(***************************************************************************)
(* The schedule of one learner's notifications about one subject           *)
(* (apps/learning: services.py set_notification_frequency to               *)
(* advance_due_time, tasks.py dispatch_notifications and send_notification,*)
(* config/celery.py).                                                      *)
(*                                                                         *)
(* Beat sends a message for a row that is due; workers take messages,      *)
(* start the content of the next topic, wait for it by sending the message *)
(* again, and advance the due time in the end.  How content comes about is *)
(* TopicContent's; here generation ends somehow.  Messages are at least    *)
(* once (CELERY_TASK_ACKS_LATE) and may be lost with the broker.           *)
(***************************************************************************)
EXTENDS Integers, FiniteSets, FiniteSetsExt

CONSTANTS
  Messages,     \* messages there can be at once
  NumTopics,    \* topics of the subject
  MaxRetries,   \* of send_notification: 2
  Frequencies,  \* hours a learner chooses from
  Default,      \* hours of a new row: 24
  MaxTime,      \* bound: the clock, in hours
  MaxRows,      \* bound: enrolments
  MaxFaults     \* bound: messages lost or delivered again

ASSUME Hours == Frequencies \subseteq Nat \ {0} /\ Default \in Nat \ {0}

ASSUME Bounds ==
  /\ NumTopics \in Nat /\ MaxRetries \in Nat /\ MaxTime \in Nat
  /\ MaxRows \in Nat \ {0} /\ MaxFaults \in Nat

Topics == 1 .. NumTopics
Null == -1

VARIABLES
  clock,
  row,      \* the UserSubjectProgress row; ids grow, a row that is gone has none
  topic,    \* topic[t]: content_status
  msg,      \* each message and the local variables of the task that runs it
  faults,
  \* Observed, never read by an action of the program:
  anchor,   \* when the frequency was last chosen for this row
  stale,    \* it was chosen while a task held a copy of the row
  crowded   \* a message met another one, a choice, or its own second delivery

vars == <<clock, row, topic, msg, faults, anchor, stale, crowded>>
seen == <<anchor, stale, crowded>>

NoMessage == [pc |-> "none", id |-> 0, retries |-> 0, original |-> Null,
              freq |-> 0, topic |-> 0]

Init ==
  /\ clock = 0
  /\ row = [id |-> 1, there |-> TRUE, active |-> TRUE, due |-> Null, freq |-> Default]
  /\ topic = [t \in Topics |-> "NOT_GENERATED"]
  /\ msg = [m \in Messages |-> NoMessage]
  /\ faults = 0
  /\ anchor = Null /\ stale = FALSE /\ crowded = FALSE

At(m, pc) == msg[m].pc = pc
Go(m, pc) == msg' = [msg EXCEPT ![m].pc = pc]
\* The message as it was sent, and the values its task has read forgotten.
Again(m, pc, retries) ==
  msg' = [msg EXCEPT ![m] =
            [NoMessage EXCEPT !.pc = pc, !.id = msg[m].id, !.retries = retries]]
Finish(m) == msg' = [msg EXCEPT ![m] = NoMessage]
Found(m) == row.there /\ row.id = msg[m].id
\* Messages under way for the row, and those whose task has read it.
UnderWay == {m \in Messages : ~ At(m, "none") /\ Found(m)}
Reading == {m \in UnderWay : msg[m].pc \in {"prepare", "decide", "advance"}}
Open == {t \in Topics : topic[t] \in {"NOT_GENERATED", "FAILED"}}

-----------------------------------------------------------------------------
(* The learner *)

SetFrequency(hours) ==
  /\ row.there
  /\ row' = [row EXCEPT !.freq = hours, !.due = clock + hours]
  /\ anchor' = clock
  /\ stale' = (Reading # {}) /\ crowded' = (UnderWay # {})
  /\ UNCHANGED <<clock, topic, msg, faults>>

Complete ==
  /\ row.there /\ row.active
  /\ row' = [row EXCEPT !.active = FALSE]
  /\ UNCHANGED <<clock, topic, msg, faults, seen>>

\* Leaving deletes the row; the learner of MaxRows rows stays.
Leave ==
  /\ row.there /\ row.id < MaxRows
  /\ row' = [row EXCEPT !.there = FALSE]
  /\ UNCHANGED <<clock, topic, msg, faults, seen>>

\* A new row has no due time until a frequency is chosen.
Enrol ==
  /\ ~ row.there
  /\ row' = [id |-> row.id + 1, there |-> TRUE, active |-> TRUE, due |-> Null,
             freq |-> Default]
  /\ anchor' = Null /\ stale' = FALSE /\ crowded' = FALSE
  /\ UNCHANGED <<clock, topic, msg, faults>>

-----------------------------------------------------------------------------
(* Beat *)

\* Mutant of IsDue: only rows due at this moment.
IsDueNow == row.due = clock

IsDue == row.due <= clock

\* get_due_notifications does not know what is under way.
Dispatch(m) ==
  /\ At(m, "none")
  /\ row.there /\ row.active /\ row.due # Null /\ IsDue
  /\ msg' = [msg EXCEPT ![m] = [NoMessage EXCEPT !.pc = "queued", !.id = row.id]]
  /\ crowded' = (crowded \/ UnderWay # {})
  /\ UNCHANGED <<clock, row, topic, faults, anchor, stale>>

-----------------------------------------------------------------------------
(* send_notification *)

Begin(m) ==
  /\ At(m, "queued")
  /\ IF Found(m)
     THEN msg' = [msg EXCEPT ![m] =
            [@ EXCEPT !.pc = "prepare", !.original = row.due, !.freq = row.freq]]
     ELSE Finish(m)
  /\ UNCHANGED <<clock, row, topic, faults, seen>>

\* The next topic is the first that is neither ready nor being generated; only
\* the first attempt requests it, and the broker may refuse the task.
Prepare(m) ==
  /\ At(m, "prepare")
  /\ IF Open = {} THEN Go(m, "advance") /\ UNCHANGED topic
     ELSE /\ msg' = [msg EXCEPT ![m].pc = "decide", ![m].topic = Min(Open)]
          /\ IF msg[m].retries = 0
             THEN \E status \in {"GENERATING", "FAILED"} :
                    topic' = [topic EXCEPT ![Min(Open)] = status]
             ELSE UNCHANGED topic
  /\ UNCHANGED <<clock, row, faults, seen>>

Patient(m) == msg[m].retries < MaxRetries

Decide(m) ==
  /\ At(m, "decide")
  /\ IF topic[msg[m].topic] \notin {"READY", "FAILED"} /\ Patient(m)
     THEN Again(m, "waiting", msg[m].retries + 1)
     ELSE Go(m, "advance")
  /\ UNCHANGED <<clock, row, topic, faults, seen>>

\* default_retry_delay; the row is read anew by the next attempt.
Retry(m) ==
  /\ At(m, "waiting")
  /\ Go(m, "queued")
  /\ UNCHANGED <<clock, row, topic, faults, seen>>

\* Mutant of NextDue: the schedule follows the time of sending.
NextDueFromNow(m) == clock + msg[m].freq

\* advance_due_time, with the frequency of the copy.  No message is sent for a
\* row without a due time; the branch for one reads the row again.
NextDue(m) ==
  IF msg[m].original # Null THEN msg[m].original + msg[m].freq
  ELSE clock + row.freq

\* Saving a row that is gone raises, and ends the task as well.
Save(m) ==
  IF Found(m) THEN row' = [row EXCEPT !.due = NextDue(m)] ELSE UNCHANGED row

Advance(m) ==
  /\ At(m, "advance")
  /\ Save(m) /\ Finish(m)
  /\ UNCHANGED <<clock, topic, faults, seen>>

-----------------------------------------------------------------------------
(* The world *)

\* The worker dies before it acknowledges; the message is delivered again.
Redeliver(m) ==
  /\ faults < MaxFaults /\ faults' = faults + 1
  /\ msg[m].pc \in {"prepare", "decide", "advance"}
  /\ Again(m, "queued", msg[m].retries)
  /\ \/ UNCHANGED row /\ UNCHANGED crowded
     \/ At(m, "advance") /\ Save(m) /\ crowded' = (crowded \/ Found(m))
  /\ UNCHANGED <<clock, topic, anchor, stale>>

Lose(m) ==
  /\ faults < MaxFaults /\ faults' = faults + 1
  /\ msg[m].pc \in {"queued", "waiting"}
  /\ Finish(m)
  /\ UNCHANGED <<clock, row, topic, seen>>

\* A generation succeeds, fails, or is found stuck and reset.
Generated(t) ==
  /\ topic[t] = "GENERATING"
  /\ \E status \in {"READY", "FAILED", "NOT_GENERATED"} :
       topic' = [topic EXCEPT ![t] = status]
  /\ UNCHANGED <<clock, row, msg, faults, seen>>

Tick ==
  /\ clock < MaxTime
  /\ clock' = clock + 1
  /\ UNCHANGED <<row, topic, msg, faults, seen>>

Task(m) == Begin(m) \/ Prepare(m) \/ Decide(m) \/ Retry(m) \/ Advance(m)

Next ==
  \/ \E hours \in Frequencies : SetFrequency(hours)
  \/ Complete \/ Leave \/ Enrol
  \/ \E m \in Messages : Dispatch(m) \/ Task(m) \/ Redeliver(m) \/ Lose(m)
  \/ \E t \in Topics : Generated(t)
  \/ Tick

Spec == Init /\ [][Next]_vars

\* Beat fires every 15 minutes and workers take every message; nothing is
\* assumed of generation, nor of the learner.
FairSpec ==
  Spec /\ \A m \in Messages : WF_vars(Dispatch(m)) /\ WF_vars(Task(m))

-----------------------------------------------------------------------------
(* Properties *)

\* The values the state can take.
TypeOK ==
  /\ clock \in 0 .. MaxTime /\ faults \in 0 .. MaxFaults
  /\ row \in [id : 1 .. MaxRows, there : BOOLEAN, active : BOOLEAN,
              due : Nat \cup {Null}, freq : Frequencies \cup {Default}]
  /\ topic \in [Topics -> {"NOT_GENERATED", "GENERATING", "READY", "FAILED"}]
  /\ msg \in [Messages ->
       [pc : {"none", "queued", "prepare", "decide", "waiting", "advance"},
        id : 0 .. MaxRows, retries : 0 .. MaxRetries, original : Nat \cup {Null},
        freq : Frequencies \cup {0, Default}, topic : {0} \cup Topics]]
  /\ anchor \in {Null} \cup 0 .. MaxTime /\ stale \in BOOLEAN /\ crowded \in BOOLEAN

\* "Advances from the *original due time*, not the actual send time. This
\* prevents schedule drift": however late, often or doubled messages are, every
\* due time is a whole number of periods after the learner's last choice, unless
\* that was made while a task held the row of before.  A row without a choice
\* has none, whatever messages an earlier row has left.  And no notification is
\* skipped, the next one is at most one period away, while messages come one at
\* a time; a task does not look whether its row is still due.
OnSchedule ==
  row.there /\ row.due # Null =>
    /\ anchor # Null
    /\ stale \/ (row.due > anchor /\ (row.due - anchor) % row.freq = 0)
    /\ stale \/ crowded \/ row.due <= clock + row.freq

\* A schedule that has fallen behind catches up, although messages are lost and
\* repeated and content never comes, as long as the learner goes on.
CatchesUp ==
  row.there /\ row.active /\ row.due # Null /\ row.due <= clock ~>
    ~ row.there \/ ~ row.active \/ row.due > clock
=============================================================================
