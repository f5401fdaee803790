------------------------- MODULE NotificationsProofs --------------------------
(***************************************************************************)
(* The schedule of notifications, for any number of messages, topics,      *)
(* rows, faults and hours: its types, and that no delay, loss or second    *)
(* delivery of a message moves it off the hours the learner has chosen.    *)
(***************************************************************************)
EXTENDS Notifications, NaturalsInduction, WellFoundedInduction, TLAPS

-----------------------------------------------------------------------------
(* Periods *)

\* The times a whole number of periods after from.
Grid(from, period) == {from + k * period : k \in Nat \ {0}}

\* What division leaves is smaller than the divisor.
LEMMA Division ==
  ASSUME NEW a \in Int, NEW b \in Nat \ {0}
  PROVE  a % b \in 0 .. b - 1 /\ a \div b \in Int /\ a = b * (a \div b) + (a % b)
OBVIOUS

\* A whole number of periods leaves nothing.
LEMMA WholePeriods ==
  ASSUME NEW k \in Int, NEW f \in Nat \ {0}
  PROVE  (k * f) % f = 0
<1> DEFINE a == k * f
           q == a \div f
           r == a % f
<1>1. a \in Int
  OBVIOUS
<1>2. r \in Int /\ 0 <= r /\ r < f /\ q \in Int /\ a = f * q + r
  <2> HIDE DEF a
  <2>1. QED
    BY <1>1, Division
<1>3. k * f = f * q + r
  BY <1>2
<1> HIDE DEF a, q, r
<1>4. f * (k - q) = r
  BY <1>2, <1>3
<1>5. PICK d \in Int : d = k - q
  BY <1>2
<1>6. f * d = r
  BY <1>4, <1>5
<1>7. CASE d >= 1
  <2>1. f * d >= f
    BY <1>7, <1>5
  <2>2. QED
    BY <1>2, <1>6, <2>1
<1>8. CASE d <= -1
  <2>1. f * d < 0
    BY <1>8, <1>5
  <2>2. QED
    BY <1>2, <1>6, <2>1
<1>9. CASE d = 0
  BY <1>6, <1>9 DEF r, a
<1>10. QED
  BY <1>5, <1>7, <1>8, <1>9

\* A time on the grid is later than its origin, by a whole number of periods, and
\* one period later is on it too.
LEMMA GridTimes ==
  ASSUME NEW a \in Nat, NEW f \in Nat \ {0}
  PROVE  /\ a + f \in Grid(a, f)
         /\ \A d \in Grid(a, f) :
              d \in Nat /\ d > a /\ (d - a) % f = 0 /\ d + f \in Grid(a, f)
<1>1. a + f \in Grid(a, f)
  <2>1. a + f = a + 1 * f
    OBVIOUS
  <2>2. QED
    BY <2>1 DEF Grid
<1>2. ASSUME NEW d \in Grid(a, f)
      PROVE  d \in Nat /\ d > a /\ (d - a) % f = 0 /\ d + f \in Grid(a, f)
  <2>1. PICK k \in Nat \ {0} : d = a + k * f
    BY <1>2 DEF Grid
  <2>2. k * f \in Nat /\ k * f > 0
    OBVIOUS
  <2>3. d - a = k * f
    BY <2>1, <2>2
  <2>4. (d - a) % f = 0
    BY <2>3, WholePeriods
  <2>5. d + f = a + (k + 1) * f
    BY <2>1
  <2>6. d + f \in Grid(a, f)
    <3>1. k + 1 \in Nat \ {0}
      BY <2>1
    <3>2. QED
      BY <2>5, <3>1 DEF Grid
  <2>7. QED
    BY <2>1, <2>2, <2>4, <2>6
<1>3. QED
  BY <1>1, <1>2

-----------------------------------------------------------------------------
(* Types *)

MessageStates == {"none", "queued", "prepare", "decide", "waiting", "advance"}

MessageState ==
  [pc : MessageStates, id : 0 .. MaxRows, retries : 0 .. MaxRetries,
   original : Nat \cup {Null}, freq : Frequencies \cup {0, Default},
   topic : {0} \cup Topics]

RowState ==
  [id : 1 .. MaxRows, there : BOOLEAN, active : BOOLEAN,
   due : Nat \cup {Null}, freq : Frequencies \cup {Default}]

TopicStates == {"NOT_GENERATED", "GENERATING", "READY", "FAILED"}

\* TypeOK, with names for its parts; the learner can come back after leaving.
Typed ==
  /\ clock \in 0 .. MaxTime /\ faults \in 0 .. MaxFaults
  /\ row \in RowState
  /\ topic \in [Topics -> TopicStates]
  /\ msg \in [Messages -> MessageState]
  /\ anchor \in {Null} \cup 0 .. MaxTime /\ stale \in BOOLEAN /\ crowded \in BOOLEAN
  /\ ~ row.there => row.id < MaxRows

LEMMA TypedIsTypeOK == Typed => TypeOK
BY DEF Typed, TypeOK, MessageState, MessageStates, RowState, TopicStates

\* A set of numbers has a least.
LEMMA Least ==
  ASSUME NEW S \in SUBSET Nat, S # {}
  PROVE  \E x \in S : \A y \in S : x <= y
<1>1. PICK x \in S : \A y \in S : <<y, x>> \notin OpToRel(<, Nat)
  BY NatLessThanWellFounded, WFMin, Zenon
<1>2. \A y \in S : ~ (y < x)
  BY <1>1, Zenon DEF OpToRel
<1>3. QED
  BY <1>2

\* There is a first open topic if there is an open one.
LEMMA FirstOpen ==
  ASSUME Open # {}
  PROVE  Min(Open) \in Topics
<1>1. Open \subseteq Topics /\ Open \in SUBSET Nat
  BY Bounds DEF Open, Topics
<1>2. \E z \in Open : \A y \in Open : z <= y
  BY <1>1, Least
<1>3. Min(Open) \in Open
  BY <1>2 DEF Min
<1>4. QED
  BY <1>1, <1>3

\* No message, and one that is sent again, are states of a message.
LEMMA MessageTypes ==
  ASSUME Typed, NEW m \in Messages
  PROVE  /\ NoMessage \in MessageState /\ NoMessage.pc = "none" /\ NoMessage.id = 0
         /\ \A pc \in MessageStates, retries \in 0 .. MaxRetries :
              LET new == [NoMessage EXCEPT !.pc = pc, !.id = msg[m].id, !.retries = retries]
              IN  new \in MessageState /\ new.pc = pc /\ new.id = msg[m].id
         /\ \A pc \in MessageStates :
              LET new == [msg[m] EXCEPT !.pc = pc]
              IN  /\ new \in MessageState /\ new.pc = pc /\ new.id = msg[m].id
                  /\ new.original = msg[m].original /\ new.freq = msg[m].freq
<1>1. msg[m] \in MessageState
  BY DEF Typed
<1>2. NoMessage \in MessageState
  BY Bounds, Hours DEF NoMessage, MessageState, MessageStates, Null
<1>3. NoMessage.pc = "none" /\ NoMessage.id = 0
  BY DEF NoMessage
<1>4. QED
  BY <1>1, <1>2, <1>3 DEF MessageState

\* What the steps of a task do to its message.
LEMMA MessageSteps ==
  ASSUME Typed, NEW m \in Messages, NEW pc \in MessageStates, NEW retries \in 0 .. MaxRetries
  PROVE  /\ Go(m, pc) =>
              \E new \in MessageState :
                /\ msg' = [msg EXCEPT ![m] = new] /\ new.pc = pc /\ new.id = msg[m].id
                /\ new.original = msg[m].original /\ new.freq = msg[m].freq
         /\ Again(m, pc, retries) =>
              \E new \in MessageState :
                msg' = [msg EXCEPT ![m] = new] /\ new.pc = pc /\ new.id = msg[m].id
         /\ Finish(m) =>
              \E new \in MessageState :
                msg' = [msg EXCEPT ![m] = new] /\ new.pc = "none" /\ new.id = 0
<1>1. Go(m, pc) => msg' = [msg EXCEPT ![m] = [msg[m] EXCEPT !.pc = pc]]
  BY DEF Go
<1>2. Again(m, pc, retries) =>
        msg' = [msg EXCEPT ![m] =
                  [NoMessage EXCEPT !.pc = pc, !.id = msg[m].id, !.retries = retries]]
  BY DEF Again
<1>3. Finish(m) => msg' = [msg EXCEPT ![m] = NoMessage]
  BY DEF Finish
<1>4. ASSUME Go(m, pc)
      PROVE  \E new \in MessageState :
                /\ msg' = [msg EXCEPT ![m] = new] /\ new.pc = pc /\ new.id = msg[m].id
                /\ new.original = msg[m].original /\ new.freq = msg[m].freq
  <2> DEFINE new == [msg[m] EXCEPT !.pc = pc]
  <2>1. /\ new \in MessageState /\ new.pc = pc /\ new.id = msg[m].id
        /\ new.original = msg[m].original /\ new.freq = msg[m].freq
    BY MessageTypes
  <2>2. msg' = [msg EXCEPT ![m] = new]
    BY <1>1, <1>4
  <2> HIDE DEF new
  <2>3. QED
    BY <2>1, <2>2
<1>5. ASSUME Again(m, pc, retries)
      PROVE  \E new \in MessageState :
                msg' = [msg EXCEPT ![m] = new] /\ new.pc = pc /\ new.id = msg[m].id
  <2> DEFINE new == [NoMessage EXCEPT !.pc = pc, !.id = msg[m].id, !.retries = retries]
  <2>1. new \in MessageState /\ new.pc = pc /\ new.id = msg[m].id
    BY MessageTypes
  <2>2. msg' = [msg EXCEPT ![m] = new]
    BY <1>2, <1>5
  <2> HIDE DEF new
  <2>3. QED
    BY <2>1, <2>2
<1>6. ASSUME Finish(m)
      PROVE  \E new \in MessageState :
                msg' = [msg EXCEPT ![m] = new] /\ new.pc = "none" /\ new.id = 0
  BY <1>3, <1>6, MessageTypes
<1>7. QED
  BY <1>4, <1>5, <1>6

\* The next due time is a time.
LEMMA NextDueType ==
  ASSUME Typed, NEW m \in Messages
  PROVE  NextDue(m) \in Nat
<1>1. /\ row \in RowState /\ msg[m] \in MessageState /\ clock \in Nat
  BY Bounds DEF Typed
<1>2. row.freq \in Nat /\ msg[m].freq \in Nat /\ msg[m].original \in Nat \cup {Null}
  <2>1. Frequencies \cup {0, Default} \subseteq Nat
    BY Hours
  <2>2. /\ row.freq \in Frequencies \cup {Default}
        /\ msg[m].freq \in Frequencies \cup {0, Default}
        /\ msg[m].original \in Nat \cup {Null}
    BY <1>1 DEF RowState, MessageState
  <2>3. QED
    BY <2>1, <2>2
<1>3. QED
  BY <1>1, <1>2 DEF NextDue

\* Saving writes a due time and nothing else.
LEMMA SaveType ==
  ASSUME Typed, NEW m \in Messages, Save(m)
  PROVE  row' \in RowState /\ row'.there = row.there /\ row'.id = row.id
BY NextDueType DEF Typed, Save, RowState

\* Steps of the learner and of the world.
LEMMA WorldType ==
  ASSUME Typed,
         \/ \E hours \in Frequencies : SetFrequency(hours)
         \/ Complete \/ Leave \/ Enrol \/ Tick
         \/ \E t \in Topics : Generated(t)
  PROVE  Typed'
<1> USE DEF Typed
<1>1. row \in RowState /\ clock \in 0 .. MaxTime /\ clock \in Nat
  BY Bounds
<1>2. ASSUME NEW hours \in Frequencies, SetFrequency(hours)
      PROVE  Typed'
  <2>1. hours \in Nat /\ clock + hours \in Nat
    BY <1>1, Hours
  <2>2. [row EXCEPT !.freq = hours, !.due = clock + hours] \in RowState
    BY <1>1, <2>1 DEF RowState
  <2>3. row'.there
    BY <1>1, <1>2 DEF SetFrequency, RowState
  <2>4. QED
    BY <1>1, <1>2, <2>2, <2>3 DEF SetFrequency
<1>3. CASE Complete
  <2>1. /\ [row EXCEPT !.active = FALSE] \in RowState
        /\ [row EXCEPT !.active = FALSE].there = row.there
        /\ [row EXCEPT !.active = FALSE].id = row.id
    BY <1>1 DEF RowState
  <2>2. QED
    BY <1>3, <2>1 DEF Complete, seen
<1>4. CASE Leave
  <2>1. [row EXCEPT !.there = FALSE] \in RowState
    BY <1>1 DEF RowState
  <2>2. row'.id < MaxRows
    BY <1>1, <1>4 DEF Leave, RowState
  <2>3. QED
    BY <1>4, <2>1, <2>2 DEF Leave, seen
<1>5. CASE Tick
  BY <1>1, <1>5, Bounds DEF Tick, seen
<1>6. ASSUME NEW t \in Topics, Generated(t)
      PROVE  Typed'
  <2>1. PICK s \in {"READY", "FAILED", "NOT_GENERATED"} : topic' = [topic EXCEPT ![t] = s]
    BY <1>6 DEF Generated
  <2>2. topic' \in [Topics -> TopicStates]
    BY <2>1 DEF TopicStates
  <2>3. QED
    BY <1>6, <2>2 DEF Generated, seen
<1>7. CASE Enrol
  <2>1. row' \in RowState /\ row'.there
    BY <1>1, <1>7, Bounds DEF Enrol, RowState, Null
  <2>2. QED
    BY <1>7, <2>1 DEF Enrol
<1>8. QED
  BY <1>2, <1>3, <1>4, <1>5, <1>6, <1>7

\* A message's record is replaced by another one.
LEMMA NewRecord ==
  ASSUME Typed, NEW m \in Messages, NEW new \in MessageState,
         msg' = [msg EXCEPT ![m] = new]
  PROVE  /\ msg' \in [Messages -> MessageState] /\ msg'[m] = new
         /\ \A n \in Messages : n # m => msg'[n] = msg[n]
BY DEF Typed

\* Steps of beat and of the tasks.
LEMMA MessageType ==
  ASSUME Typed, NEW m \in Messages, Dispatch(m) \/ Task(m) \/ Redeliver(m) \/ Lose(m)
  PROVE  /\ Typed'
         /\ \E new \in MessageState : msg' = [msg EXCEPT ![m] = new]
<1>1. /\ row \in RowState /\ msg[m] \in MessageState
      /\ msg[m].retries \in 0 .. MaxRetries
  BY DEF Typed, MessageState
<1>2. SUFFICES /\ \E new \in MessageState : msg' = [msg EXCEPT ![m] = new]
               /\ row' \in RowState /\ row'.there = row.there /\ row'.id = row.id
               /\ topic' \in [Topics -> TopicStates]
               /\ faults' \in 0 .. MaxFaults /\ crowded' \in BOOLEAN
               /\ UNCHANGED <<clock, anchor, stale>>
  BY NewRecord DEF Typed
<1>3. CASE Dispatch(m)
  <2>1. [NoMessage EXCEPT !.pc = "queued", !.id = row.id] \in MessageState
    <3>1. row.id \in 0 .. MaxRows
      BY <1>1, Bounds DEF RowState
    <3>2. QED
      BY <3>1, MessageTypes DEF MessageState, MessageStates
  <2>2. QED
    BY <1>1, <1>3, <2>1 DEF Dispatch, Typed
<1>4. CASE Begin(m)
  <2>1. [msg[m] EXCEPT !.pc = "prepare", !.original = row.due, !.freq = row.freq]
          \in MessageState
    BY <1>1 DEF MessageState, MessageStates, RowState
  <2>2. \E new \in MessageState : msg' = [msg EXCEPT ![m] = new]
    BY <1>4, <2>1, MessageTypes DEF Begin, Finish
  <2>3. QED
    BY <1>1, <1>4, <2>2 DEF Begin, seen, Typed
<1>5. CASE Prepare(m)
  <2>1. CASE Open = {}
    <3>1. \E new \in MessageState : msg' = [msg EXCEPT ![m] = new]
      <4>1. Go(m, "advance")
        BY <1>5, <2>1 DEF Prepare
      <4>2. QED
        BY <1>1, <4>1, MessageSteps DEF MessageStates
    <3>2. QED
      BY <1>1, <1>5, <2>1, <3>1 DEF Prepare, seen, Typed
  <2>2. CASE Open # {}
    <3>1. Min(Open) \in Topics
      BY <2>2, FirstOpen
    <3>2. [msg[m] EXCEPT !.pc = "decide", !.topic = Min(Open)] \in MessageState
      BY <1>1, <3>1 DEF MessageState, MessageStates
    <3>3. msg' = [msg EXCEPT ![m] = [msg[m] EXCEPT !.pc = "decide", !.topic = Min(Open)]]
      BY <1>5, <2>2 DEF Prepare
    <3>4. topic' \in [Topics -> TopicStates]
      BY <1>5, <2>2, <3>1 DEF Prepare, Typed, TopicStates
    <3>5. QED
      BY <1>1, <1>5, <3>2, <3>3, <3>4 DEF Prepare, seen, Typed
  <2>3. QED
    BY <2>1, <2>2
<1>6. CASE Decide(m)
  <2>1. CASE topic[msg[m].topic] \notin {"READY", "FAILED"} /\ Patient(m)
    <3>1. msg[m].retries + 1 \in 0 .. MaxRetries
      BY <1>1, <2>1, Bounds DEF Patient
    <3>2. \E new \in MessageState : msg' = [msg EXCEPT ![m] = new]
      <4>1. Again(m, "waiting", msg[m].retries + 1)
        BY <1>6, <2>1 DEF Decide
      <4>2. QED
        BY <3>1, <4>1, MessageSteps DEF MessageStates
    <3>3. QED
      BY <1>1, <1>6, <3>2 DEF Decide, seen, Typed
  <2>2. CASE ~ (topic[msg[m].topic] \notin {"READY", "FAILED"} /\ Patient(m))
    <3>1. \E new \in MessageState : msg' = [msg EXCEPT ![m] = new]
      <4>1. Go(m, "advance")
        BY <1>6, <2>2 DEF Decide
      <4>2. QED
        BY <1>1, <4>1, MessageSteps DEF MessageStates
    <3>2. QED
      BY <1>1, <1>6, <3>1 DEF Decide, seen, Typed
  <2>3. QED
    BY <2>1, <2>2
<1>7. CASE Retry(m)
  <2>1. \E new \in MessageState : msg' = [msg EXCEPT ![m] = new]
    BY <1>1, <1>7, MessageSteps DEF Retry, MessageStates
  <2>2. QED
    BY <1>1, <1>7, <2>1 DEF Retry, seen, Typed
<1>8. CASE Advance(m)
  <2>1. \E new \in MessageState : msg' = [msg EXCEPT ![m] = new]
    BY <1>8, MessageTypes DEF Advance, Finish
  <2>2. row' \in RowState /\ row'.there = row.there /\ row'.id = row.id
    BY <1>8, SaveType DEF Advance
  <2>3. QED
    BY <1>8, <2>1, <2>2 DEF Advance, seen, Typed
<1>9. CASE Redeliver(m)
  <2>1. \E new \in MessageState : msg' = [msg EXCEPT ![m] = new]
    BY <1>1, <1>9, MessageSteps DEF Redeliver, MessageStates
  <2>2. row' \in RowState /\ row'.there = row.there /\ row'.id = row.id
    <3>1. row' = row \/ Save(m)
      BY <1>9 DEF Redeliver
    <3>2. QED
      BY <1>1, <3>1, SaveType
  <2>3. crowded' \in BOOLEAN
    BY <1>9 DEF Redeliver, Typed
  <2>4. faults' \in 0 .. MaxFaults
    BY <1>9, Bounds DEF Redeliver, Typed
  <2>5. QED
    BY <1>9, <2>1, <2>2, <2>3, <2>4 DEF Redeliver, Typed
<1>10. CASE Lose(m)
  <2>1. \E new \in MessageState : msg' = [msg EXCEPT ![m] = new]
    BY <1>10, MessageTypes DEF Lose, Finish
  <2>2. faults' \in 0 .. MaxFaults
    BY <1>10, Bounds DEF Lose, Typed
  <2>3. QED
    BY <1>1, <1>10, <2>1, <2>2 DEF Lose, seen, Typed
<1>11. QED
  BY <1>3, <1>4, <1>5, <1>6, <1>7, <1>8, <1>9, <1>10 DEF Task

\* Every step keeps the types.
LEMMA TypedStep ==
  ASSUME Typed, [Next]_vars
  PROVE  Typed'
<1>1. CASE UNCHANGED vars
  BY <1>1 DEF vars, Typed
<1>2. QED
  BY <1>1, WorldType, MessageType DEF Next

\* The first state is of the right types.
LEMMA TypedFirst == Init => Typed
<1> SUFFICES ASSUME Init PROVE Typed
  OBVIOUS
<1>1. NoMessage \in MessageState
  BY Bounds, Hours DEF NoMessage, MessageState, MessageStates, Null
<1>2. row \in RowState /\ row.there
  BY Bounds DEF Init, RowState, Null
<1>3. /\ topic \in [Topics -> TopicStates]
      /\ msg \in [Messages -> MessageState]
  BY <1>1 DEF Init, TopicStates
<1>4. /\ clock \in 0 .. MaxTime /\ faults \in 0 .. MaxFaults
      /\ anchor \in {Null} \cup 0 .. MaxTime
  BY Bounds DEF Init
<1>5. stale \in BOOLEAN /\ crowded \in BOOLEAN
  BY DEF Init
<1>6. QED
  BY <1>2, <1>3, <1>4, <1>5 DEF Typed

LEMMA AlwaysTyped == Spec => []Typed
<1>1. Typed /\ [Next]_vars => Typed'
  BY TypedStep
<1>2. QED
  BY <1>1, TypedFirst, PTL DEF Spec

\* The state has the types the model declares: a retry is never counted beyond
\* its limit, and a saved due time is a time although the copy it is computed
\* from may be of a row that is gone.
THEOREM NotificationTypeCorrect == Spec => []TypeOK
BY AlwaysTyped, TypedIsTypeOK, PTL

-----------------------------------------------------------------------------
(* The schedule *)

\* The message is for the row that is there, and its task has read the row.
InRow(m) == msg[m].pc # "none" /\ row.there /\ row.id = msg[m].id
ReadsRow(m) == InRow(m) /\ msg[m].pc \in {"prepare", "decide", "advance"}

\* The copy of a task is of a time on the grid, and of the row's own time if
\* no other message can have moved that.
CopyOnGrid(m) ==
  /\ msg[m].freq = row.freq
  /\ msg[m].original # Null /\ msg[m].original \in Grid(anchor, row.freq)
  /\ ~ crowded => msg[m].original = row.due

RowOnGrid ==
  row.there /\ row.due # Null =>
    /\ anchor # Null
    /\ ~ stale => row.due \in Grid(anchor, row.freq)
    /\ ~ stale /\ ~ crowded => row.due <= clock + row.freq

\* A message of the row was sent because the row was due, which it still is if
\* the message was alone.
MessageOnGrid(m) ==
  /\ msg[m].id <= row.id
  /\ InRow(m) => row.due # Null /\ (~ stale /\ ~ crowded => row.due <= clock)
  /\ ReadsRow(m) /\ ~ stale => CopyOnGrid(m)

Alone == ~ stale /\ ~ crowded => \A m, n \in Messages : InRow(m) /\ InRow(n) => m = n

OnGrid == RowOnGrid /\ (\A m \in Messages : MessageOnGrid(m)) /\ Alone

\* What the types say about the numbers.
LEMMA Numbers ==
  ASSUME Typed
  PROVE  /\ clock \in Nat /\ anchor \in Nat \cup {Null}
         /\ row.id \in Nat /\ row.freq \in Nat \ {0} /\ row.due \in Nat \cup {Null}
         /\ row.there \in BOOLEAN /\ stale \in BOOLEAN /\ crowded \in BOOLEAN
         /\ \A m \in Messages :
              /\ msg[m].id \in Nat /\ msg[m].pc \in MessageStates
              /\ msg[m].original \in Nat \cup {Null}
<1>1. Frequencies \cup {Default} \subseteq Nat \ {0}
  BY Hours
<1>2. row \in RowState /\ \A m \in Messages : msg[m] \in MessageState
  BY DEF Typed
<1>3. row.freq \in Frequencies \cup {Default}
  BY <1>2 DEF RowState
<1>4. clock \in Nat /\ anchor \in Nat \cup {Null}
  BY Bounds DEF Typed
<1>5. row.id \in Nat /\ row.due \in Nat \cup {Null} /\ row.there \in BOOLEAN
  BY <1>2, Bounds DEF RowState
<1>6. \A m \in Messages :
        /\ msg[m].id \in Nat /\ msg[m].pc \in MessageStates
        /\ msg[m].original \in Nat \cup {Null}
  BY <1>2, Bounds DEF MessageState
<1>7. QED
  BY <1>1, <1>3, <1>4, <1>5, <1>6 DEF Typed

\* The grid of the due time is the schedule.
LEMMA GridIsSchedule ==
  ASSUME Typed, RowOnGrid
  PROVE  OnSchedule
<1> SUFFICES ASSUME row.there, row.due # Null
             PROVE  /\ anchor # Null
                    /\ stale \/ (row.due > anchor /\ (row.due - anchor) % row.freq = 0)
                    /\ stale \/ crowded \/ row.due <= clock + row.freq
  BY DEF OnSchedule
<1>1. /\ anchor # Null
      /\ ~ stale => row.due \in Grid(anchor, row.freq)
      /\ ~ stale /\ ~ crowded => row.due <= clock + row.freq
  BY DEF RowOnGrid
<1>2. anchor \in Nat /\ row.freq \in Nat \ {0}
  BY <1>1, Numbers
<1>3. ~ stale => row.due > anchor /\ (row.due - anchor) % row.freq = 0
  BY <1>1, <1>2, GridTimes
<1>4. QED
  BY <1>1, <1>3

\* A task goes on, and the row, the clock and the other messages stay as they
\* are: what it has read, it has read from the row.
LEMMA OwnMessage ==
  ASSUME Typed, OnGrid, NEW m \in Messages, NEW new \in MessageState,
         msg' = [msg EXCEPT ![m] = new],
         UNCHANGED <<clock, row, anchor, stale, crowded>>,
         new.id <= row.id,
         new.pc # "none" /\ row.there /\ row.id = new.id => InRow(m),
         ReadsRow(m)' /\ ~ stale => CopyOnGrid(m)'
  PROVE  OnGrid'
<1>1. msg'[m] = new /\ \A n \in Messages : n # m => msg'[n] = msg[n]
  BY NewRecord
<1>2. \A n \in Messages : InRow(n)' => InRow(n)
  BY <1>1 DEF InRow
<1>3. RowOnGrid'
  BY DEF OnGrid, RowOnGrid
<1>4. ASSUME NEW n \in Messages
      PROVE  MessageOnGrid(n)'
  <2>1. CASE n = m
    BY <1>1, <1>2, <2>1 DEF OnGrid, MessageOnGrid
  <2>2. CASE n # m
    BY <1>1, <2>2 DEF OnGrid, MessageOnGrid, InRow, ReadsRow, CopyOnGrid
  <2>3. QED
    BY <2>1, <2>2
<1>5. Alone'
  BY <1>2 DEF OnGrid, Alone
<1>6. QED
  BY <1>3, <1>4, <1>5 DEF OnGrid

\* The learner chooses: tasks that hold a copy of the row make the row stale,
\* messages under way may come too early.
LEMMA ChoiceOnGrid ==
  ASSUME Typed, OnGrid, NEW hours \in Frequencies, SetFrequency(hours)
  PROVE  OnGrid'
<1>1. /\ row' = [row EXCEPT !.freq = hours, !.due = clock + hours]
      /\ anchor' = clock /\ msg' = msg /\ clock' = clock
      /\ stale' = (Reading # {}) /\ crowded' = (UnderWay # {})
  BY DEF SetFrequency
<1>2. /\ row'.there = row.there /\ row'.id = row.id
      /\ row'.freq = hours /\ row'.due = clock + hours
  BY <1>1 DEF Typed, RowState
<1>3. clock \in Nat /\ hours \in Nat \ {0}
  BY Numbers, Hours
<1>4. row'.due # Null /\ anchor' # Null
  BY <1>1, <1>2, <1>3 DEF Null
<1>5. RowOnGrid'
  <2>1. clock + hours \in Grid(clock, hours)
    BY <1>3, GridTimes
  <2>2. row'.due <= clock' + row'.freq
    BY <1>1, <1>2, <1>3
  <2>3. row'.due \in Grid(anchor', row'.freq)
    BY <1>1, <1>2, <2>1
  <2>4. QED
    BY <1>4, <2>2, <2>3 DEF RowOnGrid, Grid
<1>6. \A m \in Messages : (InRow(m)' <=> InRow(m)) /\ (ReadsRow(m)' <=> ReadsRow(m))
  BY <1>1, <1>2 DEF InRow, ReadsRow
<1>7. \A m \in Messages : (InRow(m) => crowded') /\ (ReadsRow(m) => stale')
  BY <1>1 DEF UnderWay, Reading, InRow, ReadsRow, At, Found
<1>8. \A m \in Messages : MessageOnGrid(m)'
  <2>1. \A m \in Messages : msg'[m].id <= row'.id
    BY <1>1, <1>2 DEF OnGrid, MessageOnGrid
  <2>2. QED
    BY <1>4, <1>6, <1>7, <2>1, Zenon DEF MessageOnGrid
<1>9. Alone'
  BY <1>6, <1>7, Zenon DEF Alone
<1>10. QED
  BY <1>5, <1>8, <1>9 DEF OnGrid

\* The other steps of the learner and of the world.
LEMMA WorldOnGrid ==
  ASSUME Typed, OnGrid,
         Complete \/ Leave \/ Enrol \/ Tick \/ \E t \in Topics : Generated(t)
  PROVE  OnGrid'
<1>1. CASE Complete
  <2>1. /\ row'.there = row.there /\ row'.id = row.id
        /\ row'.freq = row.freq /\ row'.due = row.due
        /\ UNCHANGED <<clock, msg, anchor, stale, crowded>>
    BY <1>1 DEF Complete, seen, Typed, RowState
  <2>2. QED
    BY <2>1
         DEF OnGrid, RowOnGrid, MessageOnGrid, Alone, InRow, ReadsRow, CopyOnGrid, Grid
<1>2. CASE Leave
  <2>1. /\ ~ row'.there /\ row'.id = row.id /\ msg' = msg
    BY <1>2 DEF Leave, Typed, RowState
  <2>2. QED
    BY <2>1 DEF OnGrid, RowOnGrid, MessageOnGrid, Alone, InRow, ReadsRow
<1>3. CASE Enrol
  <2>1. row'.id = row.id + 1 /\ row'.due = Null /\ msg' = msg
    BY <1>3 DEF Enrol
  <2>2. \A m \in Messages : msg[m].id \in Nat /\ msg[m].id <= row.id /\ row.id \in Nat
    BY Numbers DEF OnGrid, MessageOnGrid
  <2>3. \A m \in Messages : msg'[m].id <= row'.id /\ msg'[m].id # row'.id
    BY <2>1, <2>2
  <2>4. QED
    BY <2>1, <2>3 DEF OnGrid, RowOnGrid, MessageOnGrid, Alone, InRow, ReadsRow
<1>4. CASE Tick
  <2>1. clock' = clock + 1 /\ UNCHANGED <<row, msg, anchor, stale, crowded>>
    BY <1>4 DEF Tick, seen
  <2>2. /\ row.due # Null /\ row.due <= clock + row.freq => row.due <= clock' + row.freq
        /\ row.due # Null /\ row.due <= clock => row.due <= clock'
    BY <2>1, Numbers
  <2>3. RowOnGrid'
    BY <2>1, <2>2 DEF OnGrid, RowOnGrid
  <2>4. \A m \in Messages : MessageOnGrid(m)'
    BY <2>1, <2>2 DEF OnGrid, MessageOnGrid, InRow, ReadsRow, CopyOnGrid
  <2>5. Alone'
    BY <2>1 DEF OnGrid, Alone, InRow
  <2>6. QED
    BY <2>3, <2>4, <2>5 DEF OnGrid
<1>5. CASE \E t \in Topics : Generated(t)
  <2>1. UNCHANGED <<clock, row, msg, anchor, stale, crowded>>
    BY <1>5 DEF Generated, seen
  <2>2. QED
    BY <2>1 DEF OnGrid, RowOnGrid, MessageOnGrid, Alone, InRow, ReadsRow, CopyOnGrid
<1>6. QED
  BY <1>1, <1>2, <1>3, <1>4, <1>5

\* A message is sent because the row is due; another one makes it crowded.
LEMMA DispatchOnGrid ==
  ASSUME Typed, OnGrid, NEW m \in Messages, Dispatch(m)
  PROVE  OnGrid'
<1> DEFINE new == [NoMessage EXCEPT !.pc = "queued", !.id = row.id]
<1>1. new.pc = "queued" /\ new.id = row.id
  BY DEF NoMessage
<1>2. msg' = [msg EXCEPT ![m] = new]
  BY DEF Dispatch
<1> HIDE DEF new
<1>3. /\ msg[m].pc = "none" /\ row.there /\ row.due # Null /\ row.due <= clock
      /\ crowded' = (crowded \/ UnderWay # {})
      /\ UNCHANGED <<clock, row, anchor, stale>>
  BY DEF Dispatch, At, IsDue
<1>4. msg'[m] = new /\ \A n \in Messages : n # m => msg'[n] = msg[n]
  BY <1>2 DEF Typed
<1>5. \A n \in Messages : n # m => (InRow(n)' <=> InRow(n)) /\ (ReadsRow(n)' <=> ReadsRow(n))
  BY <1>3, <1>4 DEF InRow, ReadsRow
<1>6. ~ crowded' => ~ crowded /\ \A n \in Messages : ~ InRow(n)
  BY <1>3 DEF UnderWay, InRow, At, Found
<1>7. RowOnGrid'
  BY <1>3, <1>6 DEF OnGrid, RowOnGrid
<1>8. ASSUME NEW n \in Messages
      PROVE  MessageOnGrid(n)'
  <2>1. CASE n = m
    BY <1>1, <1>3, <1>4, <2>1, Numbers DEF MessageOnGrid, ReadsRow, InRow
  <2>2. CASE n # m
    BY <1>3, <1>4, <1>5, <1>6, <2>2 DEF OnGrid, MessageOnGrid, CopyOnGrid
  <2>3. QED
    BY <2>1, <2>2
<1>9. Alone'
  BY <1>5, <1>6, Zenon DEF Alone
<1>10. QED
  BY <1>7, <1>8, <1>9 DEF OnGrid

\* A task that saves the row: from a copy on the grid to one period later.
LEMMA SaveOnGrid ==
  ASSUME Typed, OnGrid, NEW m \in Messages, NEW new \in MessageState,
         Found(m), msg[m].pc = "advance", Save(m),
         msg' = [msg EXCEPT ![m] = new],
         new.pc \in {"none", "queued"}, new.id <= row.id,
         UNCHANGED <<clock, anchor, stale>>,
         crowded' \in BOOLEAN, crowded \/ new.pc = "queued" => crowded'
  PROVE  OnGrid'
<1>1. msg'[m] = new /\ \A n \in Messages : n # m => msg'[n] = msg[n]
  BY NewRecord
<1>2. InRow(m) /\ ReadsRow(m)
  BY DEF Found, InRow, ReadsRow
<1>3. /\ row'.there = row.there /\ row'.id = row.id /\ row'.freq = row.freq
      /\ row'.due = NextDue(m)
  BY DEF Save, Typed, RowState
<1>4. /\ row.due # Null /\ (~ stale /\ ~ crowded => row.due <= clock)
      /\ ~ stale => CopyOnGrid(m)
  BY <1>2 DEF OnGrid, MessageOnGrid
<1>5. anchor # Null
  BY <1>2, <1>4 DEF OnGrid, RowOnGrid, InRow
<1>6. row'.due # Null
  <2>1. row' \in RowState /\ NextDue(m) \in Nat
    BY SaveType, NextDueType
  <2>2. QED
    BY <1>3, <2>1 DEF Null
<1>7. ~ stale => /\ row'.due \in Grid(anchor, row.freq)
                 /\ ~ crowded => row'.due <= clock + row.freq
  <2> SUFFICES ASSUME ~ stale
               PROVE  /\ row'.due \in Grid(anchor, row.freq)
                      /\ ~ crowded => row'.due <= clock + row.freq
    OBVIOUS
  <2>1. /\ row'.due = msg[m].original + row.freq
        /\ msg[m].original \in Grid(anchor, row.freq)
        /\ ~ crowded => msg[m].original = row.due
    BY <1>3, <1>4 DEF CopyOnGrid, NextDue
  <2>2. anchor \in Nat /\ row.freq \in Nat \ {0} /\ clock \in Nat
    BY <1>5, Numbers
  <2>3. row'.due \in Grid(anchor, row.freq) /\ msg[m].original \in Nat
    BY <2>1, <2>2, GridTimes
  <2>4. QED
    BY <1>4, <2>1, <2>2, <2>3
<1>8. \A n \in Messages : (InRow(n)' => InRow(n)) /\ (ReadsRow(n)' => ReadsRow(n) /\ n # m)
  BY <1>1, <1>2, <1>3 DEF InRow, ReadsRow
<1>9. \A n \in Messages : InRow(n)' /\ ~ stale' => crowded'
  <2> SUFFICES ASSUME NEW n \in Messages, InRow(n)', ~ stale', ~ crowded'
               PROVE  FALSE
    OBVIOUS
  <2>1. InRow(n) /\ ~ stale /\ ~ crowded /\ new.pc # "queued"
    BY <1>8
  <2>2. n = m
    BY <1>2, <2>1 DEF OnGrid, Alone
  <2>3. QED
    BY <1>1, <2>1, <2>2 DEF InRow
<1>10. RowOnGrid'
  BY <1>3, <1>5, <1>6, <1>7 DEF RowOnGrid
<1>11. ASSUME NEW n \in Messages
       PROVE  MessageOnGrid(n)'
  <2>1. msg'[n].id <= row'.id
    BY <1>1, <1>3 DEF OnGrid, MessageOnGrid
  <2>2. ASSUME ReadsRow(n)', ~ stale'
        PROVE  CopyOnGrid(n)'
    <3>1. ReadsRow(n) /\ n # m /\ crowded'
      BY <1>8, <1>9, <2>2 DEF ReadsRow
    <3>2. CopyOnGrid(n)
      BY <2>2, <3>1 DEF OnGrid, MessageOnGrid
    <3>3. QED
      BY <1>1, <1>3, <3>1, <3>2 DEF CopyOnGrid
  <2>3. QED
    BY <1>6, <1>9, <2>1, <2>2 DEF MessageOnGrid
<1>12. Alone'
  BY <1>9 DEF Alone
<1>13. QED
  BY <1>10, <1>11, <1>12 DEF OnGrid

\* Steps of the tasks and of the broker.
LEMMA MessagesOnGrid ==
  ASSUME Typed, OnGrid, NEW m \in Messages, Task(m) \/ Redeliver(m) \/ Lose(m)
  PROVE  OnGrid'
<1>1. /\ msg[m] \in MessageState /\ msg[m].retries \in 0 .. MaxRetries
      /\ msg[m].id <= row.id /\ row.id \in Nat /\ MessageOnGrid(m)
  BY Numbers DEF Typed, MessageState, OnGrid, MessageOnGrid
<1>2. ASSUME Finish(m), UNCHANGED <<clock, row, anchor, stale, crowded>>
      PROVE  OnGrid'
  <2>1. PICK new \in MessageState :
          msg' = [msg EXCEPT ![m] = new] /\ new.pc = "none" /\ new.id = 0
    BY <1>1, <1>2, MessageSteps DEF MessageStates
  <2>2. msg'[m] = new
    BY <2>1 DEF Typed
  <2>3. ~ ReadsRow(m)'
    BY <2>1, <2>2 DEF ReadsRow, InRow
  <2>4. new.id <= row.id
    BY <1>1, <2>1
  <2>5. QED
    BY <1>2, <2>1, <2>3, <2>4, OwnMessage
<1>3. ASSUME NEW pc \in MessageStates, NEW retries \in 0 .. MaxRetries,
             Again(m, pc, retries), msg[m].pc # "none",
             pc \notin {"prepare", "decide", "advance"},
             UNCHANGED <<clock, row, anchor, stale, crowded>>
      PROVE  OnGrid'
  <2>1. PICK new \in MessageState :
          msg' = [msg EXCEPT ![m] = new] /\ new.pc = pc /\ new.id = msg[m].id
    BY <1>3, MessageSteps
  <2>2. msg'[m] = new
    BY <2>1 DEF Typed
  <2>3. ~ ReadsRow(m)'
    BY <1>3, <2>1, <2>2 DEF ReadsRow
  <2>4. new.id <= row.id
    BY <1>1, <2>1
  <2>5. row.there /\ row.id = new.id => InRow(m)
    BY <1>3, <2>1 DEF InRow
  <2>6. QED
    BY <1>3, <2>1, <2>3, <2>4, <2>5, OwnMessage
<1>4. ASSUME NEW new \in MessageState,
             msg' = [msg EXCEPT ![m] = new],
             new.id = msg[m].id, new.original = msg[m].original, new.freq = msg[m].freq,
             msg[m].pc \in {"prepare", "decide", "advance"},
             UNCHANGED <<clock, row, anchor, stale, crowded>>
      PROVE  OnGrid'
  <2>1. msg'[m] = new
    BY <1>4 DEF Typed
  <2>2. row.there /\ row.id = new.id => InRow(m) /\ ReadsRow(m)
    BY <1>4 DEF InRow, ReadsRow
  <2>3. ReadsRow(m)' /\ ~ stale => CopyOnGrid(m)
    BY <1>1, <1>4, <2>1, <2>2 DEF InRow, ReadsRow, MessageOnGrid
  <2>4. CopyOnGrid(m) => CopyOnGrid(m)'
    BY <1>4, <2>1 DEF CopyOnGrid
  <2>5. QED
    BY <1>1, <1>4, <2>2, <2>3, <2>4, OwnMessage
<1>5. CASE Begin(m)
  <2>1. UNCHANGED <<clock, row, anchor, stale, crowded>> /\ msg[m].pc = "queued"
    BY <1>5 DEF Begin, seen, At
  <2>2. CASE Found(m)
    <3> DEFINE new == [msg[m] EXCEPT !.pc = "prepare", !.original = row.due, !.freq = row.freq]
    <3>1. /\ new \in MessageState
          /\ new.pc = "prepare" /\ new.id = msg[m].id
          /\ new.original = row.due /\ new.freq = row.freq
      BY <1>1 DEF MessageState, MessageStates, RowState, Typed
    <3>2. msg' = [msg EXCEPT ![m] = new]
      BY <1>5, <2>2 DEF Begin
    <3> HIDE DEF new
    <3>3. msg'[m] = new
      BY <3>2 DEF Typed
    <3>4. InRow(m)
      BY <2>1, <2>2 DEF Found, InRow
    <3>5. row.due # Null /\ (~ stale => row.due \in Grid(anchor, row.freq))
      BY <1>1, <3>4 DEF OnGrid, RowOnGrid, MessageOnGrid, InRow
    <3>6. ~ stale => CopyOnGrid(m)'
      BY <2>1, <3>1, <3>3, <3>5 DEF CopyOnGrid
    <3>7. QED
      BY <1>1, <2>1, <3>1, <3>2, <3>4, <3>6, OwnMessage
  <2>3. CASE ~ Found(m)
    BY <1>2, <1>5, <2>1, <2>3 DEF Begin
  <2>4. QED
    BY <2>2, <2>3
<1>6. CASE Prepare(m)
  <2>1. UNCHANGED <<clock, row, anchor, stale, crowded>> /\ msg[m].pc = "prepare"
    BY <1>6 DEF Prepare, seen, At
  <2>2. CASE Open = {}
    <3>1. Go(m, "advance")
      BY <1>6, <2>2 DEF Prepare
    <3>2. QED
      BY <1>1, <1>4, <2>1, <3>1, MessageSteps DEF MessageStates
  <2>3. CASE Open # {}
    <3> DEFINE new == [msg[m] EXCEPT !.pc = "decide", !.topic = Min(Open)]
    <3>1. Min(Open) \in Topics
      BY <2>3, FirstOpen
    <3>2. /\ new \in MessageState /\ new.id = msg[m].id
          /\ new.original = msg[m].original /\ new.freq = msg[m].freq
      BY <1>1, <3>1 DEF MessageState, MessageStates
    <3>3. msg' = [msg EXCEPT ![m] = new]
      BY <1>6, <2>3 DEF Prepare
    <3> HIDE DEF new
    <3>4. QED
      BY <1>4, <2>1, <3>2, <3>3
  <2>4. QED
    BY <2>2, <2>3
<1>7. CASE Decide(m)
  <2>1. UNCHANGED <<clock, row, anchor, stale, crowded>> /\ msg[m].pc = "decide"
    BY <1>7 DEF Decide, seen, At
  <2>2. CASE Again(m, "waiting", msg[m].retries + 1) /\ Patient(m)
    <3>1. msg[m].retries + 1 \in 0 .. MaxRetries
      BY <1>1, <2>2, Bounds DEF Patient
    <3>2. QED
      BY <1>3, <2>1, <2>2, <3>1 DEF MessageStates
  <2>3. CASE Go(m, "advance")
    BY <1>1, <1>4, <2>1, <2>3, MessageSteps DEF MessageStates
  <2>4. QED
    BY <1>7, <2>2, <2>3 DEF Decide
<1>8. CASE Retry(m)
  <2>1. UNCHANGED <<clock, row, anchor, stale, crowded>> /\ msg[m].pc = "waiting"
    BY <1>8 DEF Retry, seen, At
  <2>2. PICK new \in MessageState :
          msg' = [msg EXCEPT ![m] = new] /\ new.pc = "queued" /\ new.id = msg[m].id
    BY <1>1, <1>8, MessageSteps DEF Retry, MessageStates
  <2>3. msg'[m] = new
    BY <2>2 DEF Typed
  <2>4. ~ ReadsRow(m)'
    BY <2>2, <2>3 DEF ReadsRow
  <2>5. row.there /\ row.id = new.id => InRow(m)
    BY <2>1, <2>2 DEF InRow
  <2>6. new.id <= row.id
    BY <1>1, <2>2
  <2>7. QED
    BY <2>1, <2>2, <2>4, <2>5, <2>6, OwnMessage
<1>9. CASE Advance(m)
  <2>1. UNCHANGED <<clock, anchor, stale, crowded>> /\ msg[m].pc = "advance"
        /\ Save(m) /\ Finish(m)
    BY <1>9 DEF Advance, seen, At
  <2>2. CASE ~ Found(m)
    BY <1>2, <2>1, <2>2 DEF Save
  <2>3. CASE Found(m)
    <3>1. PICK new \in MessageState :
            msg' = [msg EXCEPT ![m] = new] /\ new.pc = "none" /\ new.id = 0
      BY <1>1, <2>1, MessageSteps DEF MessageStates
    <3>2. new.id <= row.id /\ crowded' \in BOOLEAN
      BY <1>1, <2>1, <3>1, Numbers
    <3>3. QED
      BY <2>1, <2>3, <3>1, <3>2, SaveOnGrid
  <2>4. QED
    BY <2>2, <2>3
<1>10. CASE Redeliver(m)
  <2>1. /\ UNCHANGED <<clock, anchor, stale>>
        /\ msg[m].pc \in {"prepare", "decide", "advance"}
        /\ Again(m, "queued", msg[m].retries)
        /\ \/ UNCHANGED row /\ UNCHANGED crowded
           \/ msg[m].pc = "advance" /\ Save(m) /\ crowded' = (crowded \/ Found(m))
    BY <1>10 DEF Redeliver, At
  <2>2. CASE UNCHANGED row /\ UNCHANGED crowded
    BY <1>1, <1>3, <2>1, <2>2 DEF MessageStates
  <2>3. CASE msg[m].pc = "advance" /\ Save(m) /\ crowded' = (crowded \/ Found(m))
    <3>1. CASE Found(m)
      <4>1. PICK new \in MessageState :
              msg' = [msg EXCEPT ![m] = new] /\ new.pc = "queued" /\ new.id = msg[m].id
        BY <1>1, <2>1, MessageSteps DEF MessageStates
      <4>2. new.id <= row.id /\ crowded'
        BY <1>1, <2>3, <3>1, <4>1
      <4>3. QED
        BY <2>1, <2>3, <3>1, <4>1, <4>2, SaveOnGrid
    <3>2. CASE ~ Found(m)
      <4>1. UNCHANGED row /\ UNCHANGED crowded
        BY <2>3, <3>2, Numbers DEF Save
      <4>2. QED
        BY <2>2, <4>1
    <3>3. QED
      BY <3>1, <3>2
  <2>4. QED
    BY <2>1, <2>2, <2>3
<1>11. CASE Lose(m)
  BY <1>2, <1>11 DEF Lose, seen
<1>12. QED
  BY <1>5, <1>6, <1>7, <1>8, <1>9, <1>10, <1>11 DEF Task

\* Every step keeps the schedule.
LEMMA OnGridStep ==
  ASSUME Typed, OnGrid, [Next]_vars
  PROVE  OnGrid'
<1>1. CASE UNCHANGED vars
  BY <1>1
       DEF vars, OnGrid, RowOnGrid, MessageOnGrid, Alone, InRow, ReadsRow, CopyOnGrid,
           Grid
<1>2. QED
  BY <1>1, ChoiceOnGrid, WorldOnGrid, DispatchOnGrid, MessagesOnGrid DEF Next

LEMMA OnGridFirst == Init => OnGrid
<1> SUFFICES ASSUME Init PROVE OnGrid
  OBVIOUS
<1>1. row.due = Null /\ row.id = 1 /\ \A m \in Messages : msg[m].pc = "none" /\ msg[m].id = 0
  BY DEF Init, NoMessage
<1>2. QED
  BY <1>1 DEF OnGrid, RowOnGrid, MessageOnGrid, Alone, InRow, ReadsRow

\* Notifications follow the hours the learner chose: whatever is lost, delivered
\* twice or late, and however many messages are under way, a due time is a whole
\* number of periods after the choice, unless that was made while a task held a
\* copy of the row; and the next one is at most a period away while messages
\* come one at a time.  For any number of messages, topics, rows and faults.
THEOREM ScheduleIsKept == Spec => []OnSchedule
<1>1. Typed /\ Typed' /\ OnGrid /\ [Next]_vars => OnGrid'
  BY OnGridStep
<1>2. Typed /\ OnGrid => OnSchedule
  BY GridIsSchedule DEF OnGrid
<1>3. QED
  BY <1>1, <1>2, OnGridFirst, AlwaysTyped, PTL DEF Spec
=============================================================================
