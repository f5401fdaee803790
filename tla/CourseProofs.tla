---------------------------- MODULE CourseProofs -----------------------------
(***************************************************************************)
(* Course, proved for any learners, editors, levels and sizes of edits:    *)
(* the statements of an edit keep the topics in one sequence and close the *)
(* gaps they make, a bonus is deserved whatever learners do while the edit *)
(* runs, and the pages agree in every state.                               *)
(***************************************************************************)
EXTENDS Course, FiniteSetTheorems, NaturalsInduction, WellFoundedInduction, TLAPS

-----------------------------------------------------------------------------
(* Types *)

EditorPcs ==
  {"idle", "shift", "create", "shift back", "read past", "read rows",
   "mark rows", "add rows", "append"}

EditorState ==
  [pc : EditorPcs, before : 1 .. MaxOrder, level : 1 .. 3, count : 0 .. MaxInsert,
   created : SUBSET TopicIds, past : SUBSET Users,
   existing : SUBSET (Users \X TopicIds), missing : SUBSET (Users \X TopicIds),
   last : 0 .. MaxOrder]

\* Before it reads them, an edit has no rows.
Early == {"idle", "shift", "create", "shift back", "read past", "append"}

\* The rows of an edit are rows of its learners and topics, and it has topics
\* to create.
EditorBounds(e) ==
  /\ editor[e].before <= Len(Levels) + 1
  /\ editor[e].pc # "idle" => editor[e].count >= 1
  /\ editor[e].existing \subseteq editor[e].past \X editor[e].created
  /\ editor[e].missing \subseteq editor[e].past \X editor[e].created
  /\ editor[e].pc \in Early => editor[e].existing = {} /\ editor[e].missing = {}

LearnersTyped ==
  /\ progress \in [Users -> [TopicIds -> Statuses]]
  /\ bonus \in [Users -> [TopicIds -> BOOLEAN]]
  /\ unlocked \in [Users -> 1 .. 3]

Typed ==
  /\ order \in [TopicIds -> 0 .. MaxOrder]
  /\ level \in [TopicIds -> 1 .. 3]
  /\ LearnersTyped
  /\ editor \in [Editors -> EditorState]
  /\ cast \in Scenarios
  /\ first \in [TopicIds -> TopicIds]
  /\ met \in BOOLEAN /\ broken \in BOOLEAN
  /\ \A e \in Editors : EditorBounds(e)

LEMMA TypedIsTypeOK == Typed => TypeOK
BY DEF Typed, TypeOK, LearnersTyped, EditorState, EditorPcs

\* The numbers of a typed state.
LEMMA Numbers ==
  ASSUME Typed
  PROVE  /\ \A t \in TopicIds : order[t] \in Nat /\ order[t] <= MaxOrder
         /\ \A e \in Editors :
              /\ editor[e] \in EditorState
              /\ editor[e].before \in Nat /\ editor[e].before >= 1
              /\ editor[e].before <= Len(Levels) + 1
              /\ editor[e].count \in Nat /\ editor[e].count <= MaxInsert
              /\ editor[e].last \in Nat
              /\ editor[e].created \subseteq TopicIds
              /\ editor[e].pc # "idle" => editor[e].count >= 1
         /\ Len(Levels) \in Nat /\ MaxOrder \in Nat /\ MaxInsert \in Nat
         /\ TempShift \in Nat
<1>1. Len(Levels) \in Nat /\ MaxOrder \in Nat /\ MaxInsert \in Nat /\ TempShift \in Nat
  BY Bounds, Shift
<1>2. \A t \in TopicIds : order[t] \in Nat /\ order[t] <= MaxOrder
  BY <1>1 DEF Typed
<1>3. ASSUME NEW e \in Editors
      PROVE  /\ editor[e] \in EditorState
             /\ editor[e].before \in Nat /\ editor[e].before >= 1
             /\ editor[e].before <= Len(Levels) + 1
             /\ editor[e].count \in Nat /\ editor[e].count <= MaxInsert
             /\ editor[e].last \in Nat
             /\ editor[e].created \subseteq TopicIds
             /\ editor[e].pc # "idle" => editor[e].count >= 1
  <2>1. editor[e] \in EditorState /\ EditorBounds(e)
    BY DEF Typed
  <2>2. QED
    BY <1>1, <2>1 DEF EditorState, EditorBounds
<1>4. QED
  BY <1>1, <1>2, <1>3

-----------------------------------------------------------------------------
(* Topics in a sequence *)

\* The orders of the topics there are.
Orders == {order[t] : t \in Topics}

\* What TopicIds is made of, and the parts of it, are finite.
LEMMA TopicsFinite ==
  /\ IsFiniteSet(TopicIds)
  /\ \A S : S \subseteq TopicIds =>
       /\ IsFiniteSet(S) /\ Cardinality(S) \in Nat
       /\ (Cardinality(S) = 0 <=> S = {})
       /\ \A x \in S : Cardinality(S \ {x}) = Cardinality(S) - 1
<1>1. IsFiniteSet(TopicIds)
  BY FS_Interval, Bounds DEF TopicIds
<1>2. ASSUME NEW S, S \subseteq TopicIds
      PROVE  /\ IsFiniteSet(S) /\ Cardinality(S) \in Nat
             /\ (Cardinality(S) = 0 <=> S = {})
             /\ \A x \in S : Cardinality(S \ {x}) = Cardinality(S) - 1
  <2>1. IsFiniteSet(S)
    BY <1>1, <1>2, FS_Subset
  <2>2. QED
    BY <2>1, FS_CardinalityType, FS_EmptySet, FS_RemoveElement
<1>3. QED
  BY <1>1, <1>2

\* A set of numbers has a least.
LEMMA Least ==
  ASSUME NEW S \in SUBSET Nat, S # {}
  PROVE  \E x \in S : \A y \in S : x <= y
<1>1. PICK x \in S : \A y \in S : <<y, x>> \notin OpToRel(<, Nat)
  BY NatLessThanWellFounded, WFMin, Zenon
<1>2. \A y \in S : ~ (y < x)
  BY <1>1, Zenon DEF OpToRel
<1>3. QED
  BY <1>2

\* A set that maps one to one onto another one has its size.
LEMMA SameSize ==
  ASSUME NEW S, IsFiniteSet(S), NEW T, NEW f \in [S -> T],
         \A x, y \in S : f[x] = f[y] => x = y,
         \A y \in T : \E x \in S : f[x] = y
  PROVE  IsFiniteSet(T) /\ Cardinality(T) = Cardinality(S)
<1>1. f \in Surjection(S, T) /\ f \in Injection(S, T)
  BY DEF Surjection, Injection, IsInjective
<1>2. QED
  BY <1>1, FS_Surjection

\* The ranks of n topics are 0 to n - 1, one each.
LEMMA Ranks ==
  ASSUME NEW ids \in SUBSET TopicIds
  PROVE  /\ \A t \in ids : Rank(t, ids) \in 0 .. Cardinality(ids) - 1
         /\ \A t, x \in ids : Rank(t, ids) = Rank(x, ids) => t = x
         /\ \A k \in 0 .. Cardinality(ids) - 1 : \E t \in ids : Rank(t, ids) = k
         /\ ids # {} => Min(ids) \in ids /\ Rank(Min(ids), ids) = 0
<1> DEFINE Below(t) == {x \in ids : x < t}
           n == Cardinality(ids)
<1>1. ids \subseteq Nat /\ IsFiniteSet(ids) /\ n \in Nat
  <2>1. TopicIds \subseteq Nat
    BY Bounds DEF TopicIds
  <2>2. IsFiniteSet(ids) /\ n \in Nat
    BY TopicsFinite
  <2>3. QED
    BY <2>1, <2>2
<1>2. \A t \in ids : Rank(t, ids) = Cardinality(Below(t))
  BY DEF Rank
<1>3. \A t \in ids : IsFiniteSet(Below(t)) /\ Cardinality(Below(t)) \in Nat
  BY TopicsFinite
<1>4. ASSUME NEW t \in ids
      PROVE  Rank(t, ids) \in 0 .. n - 1
  <2>1. Below(t) \subseteq ids \ {t} /\ ids \ {t} \subseteq TopicIds
    BY <1>1
  <2>2. Cardinality(Below(t)) <= Cardinality(ids \ {t})
    BY <2>1, TopicsFinite, FS_Subset
  <2>3. Cardinality(ids \ {t}) = n - 1
    BY TopicsFinite
  <2> HIDE DEF Below, n
  <2>4. QED
    BY <1>1, <1>2, <1>3, <2>2, <2>3
<1>5. ASSUME NEW t \in ids, NEW x \in ids, t < x
      PROVE  Rank(t, ids) < Rank(x, ids)
  <2>1. /\ Below(t) \subseteq Below(x) \ {t} /\ t \in Below(x)
        /\ Below(x) \subseteq TopicIds /\ Below(x) \ {t} \subseteq TopicIds
    <3>1. t \in Nat /\ x \in Nat /\ \A y \in ids : y < t => y < x /\ y # t
      BY <1>1, <1>5
    <3>2. QED
      BY <1>5, <3>1
  <2>2. Cardinality(Below(t)) <= Cardinality(Below(x) \ {t})
    BY <2>1, TopicsFinite, FS_Subset
  <2>3. Cardinality(Below(x) \ {t}) = Cardinality(Below(x)) - 1
    BY <2>1, TopicsFinite
  <2> HIDE DEF Below
  <2>4. QED
    BY <1>2, <1>3, <2>2, <2>3
<1>6. \A t, x \in ids : Rank(t, ids) = Rank(x, ids) => t = x
  <2> SUFFICES ASSUME NEW t \in ids, NEW x \in ids, Rank(t, ids) = Rank(x, ids), t # x
               PROVE  FALSE
    OBVIOUS
  <2>1. t < x \/ x < t
    BY <1>1
  <2>2. Rank(t, ids) \in 0 .. n - 1
    BY <1>4
  <2>3. Rank(t, ids) \in Int
    BY <1>1, <2>2
  <2>4. Rank(t, ids) < Rank(x, ids) \/ Rank(x, ids) < Rank(t, ids)
    BY <1>5, <2>1
  <2>5. QED
    BY <2>3, <2>4
<1>7. \A k \in 0 .. n - 1 : \E t \in ids : Rank(t, ids) = k
  <2> DEFINE f == [t \in ids |-> Rank(t, ids)]
  <2>1. f \in Injection(ids, 0 .. n - 1)
    BY <1>4, <1>6 DEF Injection, IsInjective
  <2>2. IsFiniteSet(0 .. n - 1) /\ Cardinality(0 .. n - 1) = n
    <3> HIDE DEF n
    <3>1. QED
      BY <1>1, FS_Interval
  <2>3. f \in Surjection(ids, 0 .. n - 1)
    BY <2>1, <2>2, FS_Injection
  <2>4. QED
    BY <2>3 DEF Surjection
<1>8. ASSUME ids # {}
      PROVE  Min(ids) \in ids /\ Rank(Min(ids), ids) = 0
  <2>1. \E x \in ids : \A y \in ids : x <= y
    BY <1>1, <1>8, Least
  <2>2. Min(ids) \in ids /\ \A y \in ids : Min(ids) <= y
    BY <2>1 DEF Min
  <2>3. Below(Min(ids)) = {}
    <3> SUFFICES ASSUME NEW y \in ids, y < Min(ids) PROVE FALSE
      OBVIOUS
    <3>1. Min(ids) <= y /\ Min(ids) \in Nat /\ y \in Nat
      BY <1>1, <2>2
    <3>2. QED
      BY <3>1
  <2>4. QED
    BY <1>2, <2>2, <2>3, FS_EmptySet
<1>9. QED
  BY <1>4, <1>6, <1>7, <1>8

\* An update moves topics by d and leaves the others where they are.
LEMMA Moves ==
  ASSUME Typed, NEW moved \in SUBSET Topics, NEW d \in Int, CanMove(moved, d),
         \A t \in moved : order[t] + d >= 1, order' = Moved(moved, d)
  PROVE  /\ order' \in [TopicIds -> 0 .. MaxOrder]
         /\ Topics' = Topics
         /\ \A t \in moved : order'[t] = order[t] + d
         /\ \A t \in TopicIds \ moved : order'[t] = order[t]
         /\ \A t \in moved, x \in Topics \ moved : order'[t] # order'[x]
<1>1. Topics \subseteq TopicIds /\ moved \subseteq TopicIds
  BY DEF Topics
<1>2. \A t \in TopicIds : order[t] \in Nat /\ order[t] <= MaxOrder
  BY Numbers
<1>3. /\ \A t \in moved : order'[t] = order[t] + d
      /\ \A t \in TopicIds \ moved : order'[t] = order[t]
  BY <1>1 DEF Moved
<1>4. \A t \in moved : order'[t] \in 0 .. MaxOrder /\ order'[t] # Absent
  BY <1>1, <1>2, <1>3, Shift DEF CanMove, Absent
<1>5. \A t \in TopicIds \ moved : order'[t] \in 0 .. MaxOrder
  BY <1>3 DEF Typed
<1>6. order' \in [TopicIds -> 0 .. MaxOrder]
  <2>1. order' = [t \in TopicIds |-> order'[t]]
    BY DEF Moved
  <2>2. \A t \in TopicIds : order'[t] \in 0 .. MaxOrder
    BY <1>4, <1>5
  <2>3. QED
    BY <2>1, <2>2
<1>7. Topics' = Topics
  BY <1>1, <1>3, <1>4 DEF Topics
<1>8. \A t \in moved, x \in Topics \ moved : order'[t] # order'[x]
  BY <1>1, <1>3 DEF CanMove
<1>9. QED
  BY <1>3, <1>6, <1>7, <1>8

\* New topics fill the places from the first one on, and move no other topic.
LEMMA NewTopics ==
  ASSUME Typed, NEW e \in Editors, NEW from \in Nat \ {0}, CreateTopics(e, from),
         editor[e].pc # "idle", editor[e].level \in 1 .. 3
  PROVE  LET ids == NewIds(editor[e].count)
             places == from .. from + editor[e].count - 1
         IN  /\ order' \in [TopicIds -> 0 .. MaxOrder]
             /\ level' \in [TopicIds -> 1 .. 3]
             /\ ids \subseteq TopicIds /\ ids \cap Topics = {} /\ Topics' = Topics \cup ids
             /\ Cardinality(Topics') = Cardinality(Topics) + editor[e].count
             /\ \A t \in Topics : order'[t] = order[t] /\ order'[t] \notin places
             /\ \A t \in ids : order'[t] \in places
             /\ \A k \in places : \E t \in ids : order'[t] = k
             /\ \A t, x \in ids : order'[t] = order'[x] => t = x
             /\ Min(ids) \in ids /\ order'[Min(ids)] = from
<1> DEFINE n == editor[e].count
           ids == NewIds(n)
           places == from .. from + n - 1
<1>1. n \in Nat /\ n >= 1
  BY Numbers
<1>2. /\ Cardinality(ids) = n /\ from + n - 1 <= MaxOrder
      /\ \A t \in Topics : order[t] \notin places
      /\ order' = [t \in TopicIds |-> IF t \in ids THEN from + Rank(t, ids) ELSE order[t]]
      /\ level' = [t \in TopicIds |-> IF t \in ids THEN editor[e].level ELSE level[t]]
  BY DEF CreateTopics
<1>3. ids \subseteq TopicIds /\ ids \cap Topics = {}
  BY DEF NewIds, Unused
<1>4. /\ \A t \in ids : Rank(t, ids) \in 0 .. n - 1
      /\ \A t, x \in ids : Rank(t, ids) = Rank(x, ids) => t = x
      /\ \A k \in 0 .. n - 1 : \E t \in ids : Rank(t, ids) = k
      /\ ids # {} => Min(ids) \in ids /\ Rank(Min(ids), ids) = 0
  BY <1>2, <1>3, Ranks
<1>5. ids # {}
  BY <1>1, <1>2, <1>3, TopicsFinite
<1>6. level' \in [TopicIds -> 1 .. 3]
  BY <1>2 DEF Typed
<1> HIDE DEF n, ids
<1>7. /\ \A t \in ids : order'[t] = from + Rank(t, ids)
      /\ \A t \in TopicIds \ ids : order'[t] = order[t]
  BY <1>2, <1>3
<1>8. \A t \in ids : order'[t] \in places
  BY <1>1, <1>4, <1>7
<1>9. order' \in [TopicIds -> 0 .. MaxOrder]
  <2>1. \A t \in ids : order'[t] \in 0 .. MaxOrder
    <3>1. MaxOrder \in Nat
      BY Numbers
    <3>2. QED
      BY <1>1, <1>2, <1>8, <3>1
  <2>2. \A t \in TopicIds : order'[t] \in 0 .. MaxOrder
    BY <1>7, <2>1 DEF Typed
  <2>3. order' = [t \in TopicIds |-> order'[t]]
    BY <1>2
  <2>4. QED
    BY <2>2, <2>3
<1>10. Topics' = Topics \cup ids
  <2>1. \A t \in ids : order'[t] # Absent
    BY <1>1, <1>8 DEF Absent
  <2>2. QED
    BY <1>3, <1>7, <2>1 DEF Topics
<1>11. \A t \in Topics : order'[t] = order[t] /\ order'[t] \notin places
  BY <1>2, <1>3, <1>7 DEF Topics
<1>12. \A k \in places : \E t \in ids : order'[t] = k
  <2> SUFFICES ASSUME NEW k \in places PROVE \E t \in ids : order'[t] = k
    OBVIOUS
  <2>1. k - from \in 0 .. n - 1 /\ from + (k - from) = k
    BY <1>1
  <2>2. PICK t \in ids : Rank(t, ids) = k - from
    BY <1>4, <2>1
  <2>3. QED
    BY <1>7, <2>1, <2>2
<1>13. \A t, x \in ids : order'[t] = order'[x] => t = x
  <2> SUFFICES ASSUME NEW t \in ids, NEW x \in ids, order'[t] = order'[x]
               PROVE  t = x
    OBVIOUS
  <2>1. Rank(t, ids) \in Int /\ Rank(x, ids) \in Int
    BY <1>1, <1>4
  <2>2. Rank(t, ids) = Rank(x, ids)
    BY <1>7, <2>1
  <2>3. QED
    BY <1>4, <2>2
<1>14. Min(ids) \in ids /\ order'[Min(ids)] = from
  BY <1>4, <1>5, <1>7
<1>15. Cardinality(Topics') = Cardinality(Topics) + n
  <2>1. Topics \subseteq TopicIds
    BY DEF Topics
  <2>2. /\ IsFiniteSet(Topics) /\ IsFiniteSet(ids)
        /\ Cardinality(Topics) \in Nat /\ Cardinality(Topics \cap ids) = 0
    BY <1>3, <2>1, TopicsFinite
  <2>3. Cardinality(Topics \cup ids) = Cardinality(Topics) + Cardinality(ids) - 0
    BY <2>2, FS_Union
  <2>4. QED
    BY <1>1, <1>2, <1>10, <2>2, <2>3
<1>16. QED
  BY <1>3, <1>6, <1>8, <1>9, <1>10, <1>11, <1>12, <1>13, <1>14, <1>15 DEF n, ids

-----------------------------------------------------------------------------
(* What a statement does to the variables of its edit *)

\* The variables of the edit that e runs are replaced.
LEMMA NextEditor ==
  ASSUME Typed, NEW e \in Editors, NEW new \in EditorState,
         new.before <= Len(Levels) + 1, new.pc # "idle" => new.count >= 1,
         new.existing \subseteq new.past \X new.created,
         new.missing \subseteq new.past \X new.created,
         new.pc \in Early => new.existing = {} /\ new.missing = {},
         editor' = [editor EXCEPT ![e] = new]
  PROVE  /\ editor' \in [Editors -> EditorState]
         /\ \A f \in Editors : EditorBounds(f)'
         /\ editor'[e] = new /\ \A f \in Editors : f # e => editor'[f] = editor[f]
<1>1. editor' \in [Editors -> EditorState]
  BY DEF Typed
<1>2. editor'[e] = new /\ \A f \in Editors : f # e => editor'[f] = editor[f]
  BY DEF Typed
<1>3. ASSUME NEW f \in Editors
      PROVE  EditorBounds(f)'
  <2>1. CASE f = e
    BY <1>2, <2>1 DEF EditorBounds
  <2>2. CASE f # e
    BY <1>2, <2>2 DEF EditorBounds, Typed
  <2>3. QED
    BY <2>1, <2>2
<1>4. QED
  BY <1>1, <1>2, <1>3

\* An edit goes on to its next statement with what it knows.
Continues(e, pc) ==
  /\ editor'[e].pc = pc /\ editor'[e].before = editor[e].before
  /\ editor'[e].count = editor[e].count /\ editor'[e].created = editor[e].created
  /\ editor'[e].past = editor[e].past /\ editor'[e].existing = editor[e].existing
  /\ editor'[e].missing = editor[e].missing /\ editor'[e].last = editor[e].last

OthersStay(e) == \A f \in Editors : f # e => editor'[f] = editor[f]

LEMMA GotoEditor ==
  ASSUME Typed, NEW e \in Editors, NEW pc \in EditorPcs, Goto(e, pc),
         editor[e].pc # "idle", pc \in Early => editor[e].pc \in Early
  PROVE  /\ editor' \in [Editors -> EditorState] /\ \A f \in Editors : EditorBounds(f)'
         /\ Continues(e, pc) /\ OthersStay(e)
<1> DEFINE new == [editor[e] EXCEPT !.pc = pc]
<1>1. editor[e] \in EditorState /\ EditorBounds(e)
  BY DEF Typed
<1>2. /\ new \in EditorState /\ new.pc = pc /\ new.before = editor[e].before
      /\ new.count = editor[e].count /\ new.created = editor[e].created
      /\ new.past = editor[e].past /\ new.existing = editor[e].existing
      /\ new.missing = editor[e].missing /\ new.last = editor[e].last
  BY <1>1 DEF EditorState
<1>3. editor' = [editor EXCEPT ![e] = new]
  BY DEF Goto
<1> HIDE DEF new
<1>4. /\ new.before <= Len(Levels) + 1 /\ new.count >= 1
      /\ new.existing \subseteq new.past \X new.created
      /\ new.missing \subseteq new.past \X new.created
      /\ new.pc \in Early => new.existing = {} /\ new.missing = {}
  BY <1>1, <1>2 DEF EditorBounds
<1>5. /\ editor' \in [Editors -> EditorState] /\ \A f \in Editors : EditorBounds(f)'
      /\ editor'[e] = new /\ \A f \in Editors : f # e => editor'[f] = editor[f]
  BY <1>2, <1>3, <1>4, NextEditor
<1>6. QED
  BY <1>2, <1>5 DEF Continues, OthersStay

LEMMA RestingType ==
  /\ Resting \in EditorState /\ Resting.pc = "idle" /\ Resting.before = 1
  /\ Resting.created = {} /\ Resting.past = {}
  /\ Resting.existing = {} /\ Resting.missing = {}
<1>1. Resting \in EditorState
  BY Shift, Bounds DEF Resting, EditorState, EditorPcs
<1>2. QED
  BY <1>1 DEF Resting

\* An edit that is over, or breaks off, has forgotten what it knew.
LEMMA RestEditor ==
  ASSUME Typed, NEW e \in Editors, Rest(e)
  PROVE  /\ editor' \in [Editors -> EditorState] /\ \A f \in Editors : EditorBounds(f)'
         /\ editor'[e] = Resting /\ editor'[e].pc = "idle" /\ OthersStay(e)
<1>1. Resting \in EditorState
  BY RestingType
<1>2. /\ Resting.before = 1 /\ Resting.pc = "idle" /\ Resting.existing = {}
      /\ Resting.missing = {}
  BY RestingType
<1>3. Resting.before <= Len(Levels) + 1
  BY <1>2, Bounds
<1>4. editor' = [editor EXCEPT ![e] = Resting]
  BY DEF Rest
<1>5. /\ editor' \in [Editors -> EditorState] /\ \A f \in Editors : EditorBounds(f)'
      /\ editor'[e] = Resting /\ \A f \in Editors : f # e => editor'[f] = editor[f]
  BY <1>1, <1>2, <1>3, <1>4, NextEditor
<1>6. QED
  BY <1>2, <1>5 DEF OthersStay

\* The last order is one of the orders, or none.
LEMMA LastOrderType ==
  ASSUME Typed
  PROVE  /\ LastOrder \in 0 .. MaxOrder
         /\ LastOrder \in Orders \cup {0} /\ \A k \in Orders : k <= LastOrder
<1> DEFINE S == {order[t] : t \in Topics} \cup {0}
           Above == {k \in Nat : \A y \in S : y <= k}
<1>1. Topics \subseteq TopicIds
  BY DEF Topics
<1>2. \A y \in S : y \in Nat /\ y <= MaxOrder
  BY <1>1, Numbers
<1>3. MaxOrder \in Above
  BY <1>2, Shift
<1>4. PICK k \in Above : \A j \in Above : k <= j
  BY <1>3, Least
<1>5. k \in S
  <2> SUFFICES ASSUME k \notin S PROVE FALSE
    OBVIOUS
  <2>1. k # 0 /\ k \in Nat /\ \A y \in S : y <= k /\ y # k
    BY <1>4
  <2>2. k - 1 \in Nat /\ \A y \in S : y <= k - 1
    <3> HIDE DEF S
    <3>1. QED
      BY <1>2, <2>1
  <2>3. k - 1 \in Above
    BY <2>2
  <2>4. k <= k - 1
    BY <1>4, <2>3
  <2>5. QED
    BY <2>1, <2>4
<1>6. \E x \in S : \A y \in S : x >= y
  <2> HIDE DEF S
  <2>1. \A y \in S : k >= y
    BY <1>2, <1>4
  <2>2. QED
    BY <1>5, <2>1
<1>7. LastOrder \in S /\ \A y \in S : LastOrder >= y
  BY <1>6 DEF LastOrder, Max
<1>8. LastOrder \in 0 .. MaxOrder
  <2> HIDE DEF S
  <2>1. LastOrder \in Nat /\ LastOrder <= MaxOrder /\ MaxOrder \in Nat
    BY <1>2, <1>7, Shift
  <2>2. QED
    BY <2>1
<1>9. QED
  BY <1>2, <1>7, <1>8 DEF Orders

\* An edit begins with the place, the number and the level it is asked for.
LEMMA StartEditor ==
  ASSUME Typed, NEW e \in Editors, NEW n \in 1 .. MaxInsert, NEW lv \in EditLevels,
         (\E before \in 1 .. Len(Levels) + 1 : StartInsert(e, before, n, lv))
           \/ StartAppend(e, n, lv)
  PROVE  /\ editor' \in [Editors -> EditorState] /\ \A f \in Editors : EditorBounds(f)'
         /\ \/ editor'[e].pc = "shift"
            \/ editor'[e].pc = "append" /\ editor'[e].last = LastOrder
         /\ editor'[e].created = {} /\ editor'[e].past = {} /\ editor'[e].count = n
         /\ OthersStay(e)
<1>1. n \in 0 .. MaxInsert /\ n >= 1 /\ lv \in 1 .. 3 /\ Len(Levels) \in Nat
  BY Bounds
<1>2. Len(Levels) + 1 <= MaxOrder /\ MaxOrder \in Nat
  BY <1>1, Shift, Bounds
<1>3. LastOrder \in 0 .. MaxOrder
  BY LastOrderType
<1>4. ASSUME NEW before \in 1 .. Len(Levels) + 1, StartInsert(e, before, n, lv)
      PROVE  /\ editor' \in [Editors -> EditorState] /\ \A f \in Editors : EditorBounds(f)'
             /\ editor'[e].pc = "shift"
             /\ editor'[e].created = {} /\ editor'[e].past = {} /\ editor'[e].count = n
             /\ OthersStay(e)
  <2> DEFINE new == [Resting EXCEPT !.pc = "shift", !.count = n, !.before = before,
                                    !.level = lv]
  <2>1. before \in 1 .. MaxOrder /\ before <= Len(Levels) + 1
    BY <1>1, <1>2
  <2>2. /\ new \in EditorState /\ new.pc = "shift" /\ new.count = n
        /\ new.before = before /\ new.created = {} /\ new.past = {}
        /\ new.existing = {} /\ new.missing = {}
    BY <1>1, <2>1, RestingType DEF EditorState, EditorPcs
  <2>3. editor' = [editor EXCEPT ![e] = new]
    BY <1>4 DEF StartInsert
  <2> HIDE DEF new
  <2>4. /\ editor' \in [Editors -> EditorState] /\ \A f \in Editors : EditorBounds(f)'
        /\ editor'[e] = new /\ \A f \in Editors : f # e => editor'[f] = editor[f]
    BY <1>1, <2>1, <2>2, <2>3, NextEditor
  <2>5. QED
    BY <2>2, <2>4 DEF OthersStay
<1>5. ASSUME StartAppend(e, n, lv)
      PROVE  /\ editor' \in [Editors -> EditorState] /\ \A f \in Editors : EditorBounds(f)'
             /\ editor'[e].pc = "append" /\ editor'[e].last = LastOrder
             /\ editor'[e].created = {} /\ editor'[e].past = {} /\ editor'[e].count = n
             /\ OthersStay(e)
  <2> DEFINE new == [Resting EXCEPT !.pc = "append", !.count = n, !.level = lv,
                                    !.last = LastOrder]
  <2>1. /\ new \in EditorState /\ new.pc = "append" /\ new.count = n
        /\ new.before = 1 /\ new.created = {} /\ new.past = {}
        /\ new.existing = {} /\ new.missing = {} /\ new.last = LastOrder
    BY <1>1, <1>3, RestingType DEF EditorState, EditorPcs
  <2>2. editor' = [editor EXCEPT ![e] = new]
    BY <1>5 DEF StartAppend
  <2> HIDE DEF new
  <2>3. new.before <= Len(Levels) + 1
    BY <1>1, <2>1
  <2>4. /\ editor' \in [Editors -> EditorState] /\ \A f \in Editors : EditorBounds(f)'
        /\ editor'[e] = new /\ \A f \in Editors : f # e => editor'[f] = editor[f]
    BY <1>1, <2>1, <2>2, <2>3, NextEditor
  <2>5. QED
    BY <2>1, <2>4 DEF OthersStay
<1>6. QED
  BY <1>4, <1>5

\* The topics of an insertion are created, and known to the edit.
LEMMA CreateEditor ==
  ASSUME Typed, NEW e \in Editors, CreateInserted(e)
  PROVE  /\ editor' \in [Editors -> EditorState] /\ \A f \in Editors : EditorBounds(f)'
         /\ editor'[e].pc = "shift back" /\ editor'[e].before = editor[e].before
         /\ editor'[e].count = editor[e].count
         /\ editor'[e].created = NewIds(editor[e].count)
         /\ OthersStay(e)
<1> DEFINE ids == NewIds(editor[e].count)
           new == [editor[e] EXCEPT !.pc = "shift back", !.created = ids]
<1>1. editor[e] \in EditorState /\ EditorBounds(e) /\ editor[e].pc = "create"
  BY DEF Typed, CreateInserted, At
<1>2. ids \subseteq TopicIds
  BY DEF NewIds, Unused
<1>3. /\ new \in EditorState /\ new.pc = "shift back" /\ new.before = editor[e].before
      /\ new.count = editor[e].count /\ new.created = ids
      /\ new.existing = editor[e].existing /\ new.missing = editor[e].missing
  <2> HIDE DEF ids
  <2>1. QED
    BY <1>1, <1>2 DEF EditorState, EditorPcs
<1>4. editor' = [editor EXCEPT ![e] = new]
  BY DEF CreateInserted
<1> HIDE DEF new, ids
<1>5. /\ new.before <= Len(Levels) + 1 /\ new.count >= 1
      /\ new.existing = {} /\ new.missing = {}
  BY <1>1, <1>3 DEF EditorBounds, Early
<1>6. /\ editor' \in [Editors -> EditorState] /\ \A f \in Editors : EditorBounds(f)'
      /\ editor'[e] = new /\ \A f \in Editors : f # e => editor'[f] = editor[f]
  BY <1>3, <1>4, <1>5, NextEditor
<1>7. QED
  BY <1>3, <1>6 DEF OthersStay, ids

\* The learners past the insertion are read, then their rows of the new topics.
LEMMA ReadPastEditor ==
  ASSUME Typed, NEW e \in Editors, ReadPast(e)
  PROVE  /\ editor' \in [Editors -> EditorState] /\ \A f \in Editors : EditorBounds(f)'
         /\ editor'[e].pc = "read rows" /\ editor'[e].before = editor[e].before
         /\ editor'[e].created = editor[e].created /\ editor'[e].past = PastLearners(e)
         /\ OthersStay(e)
<1> DEFINE new == [editor[e] EXCEPT !.pc = "read rows", !.past = PastLearners(e)]
<1>1. editor[e] \in EditorState /\ EditorBounds(e) /\ editor[e].pc = "read past"
  BY DEF Typed, ReadPast, At
<1>2. PastLearners(e) \subseteq Users
  BY DEF PastLearners
<1>3. /\ new \in EditorState /\ new.pc = "read rows" /\ new.before = editor[e].before
      /\ new.count = editor[e].count /\ new.created = editor[e].created
      /\ new.past = PastLearners(e)
      /\ new.existing = editor[e].existing /\ new.missing = editor[e].missing
  BY <1>1, <1>2 DEF EditorState, EditorPcs
<1>4. editor' = [editor EXCEPT ![e] = new]
  BY DEF ReadPast
<1> HIDE DEF new
<1>5. /\ new.before <= Len(Levels) + 1 /\ new.count >= 1
      /\ new.existing = {} /\ new.missing = {}
  BY <1>1, <1>3 DEF EditorBounds, Early
<1>6. /\ editor' \in [Editors -> EditorState] /\ \A f \in Editors : EditorBounds(f)'
      /\ editor'[e] = new /\ \A f \in Editors : f # e => editor'[f] = editor[f]
  BY <1>3, <1>4, <1>5, NextEditor
<1>7. QED
  BY <1>3, <1>6 DEF OthersStay

LEMMA ReadRowsEditor ==
  ASSUME Typed, NEW e \in Editors, ReadRows(e)
  PROVE  /\ editor' \in [Editors -> EditorState] /\ \A f \in Editors : EditorBounds(f)'
         /\ editor'[e].pc = "mark rows" /\ editor'[e].before = editor[e].before
         /\ editor'[e].created = editor[e].created /\ editor'[e].past = editor[e].past
         /\ OthersStay(e)
<1> DEFINE rows == editor[e].past \X editor[e].created
           there == {r \in rows : progress[r[1]][r[2]] # "none"}
           absent == {r \in rows : progress[r[1]][r[2]] = "none"}
           new == [editor[e] EXCEPT !.pc = "mark rows", !.existing = there,
                                    !.missing = absent]
<1>1. editor[e] \in EditorState /\ EditorBounds(e) /\ editor[e].pc = "read rows"
  BY DEF Typed, ReadRows, At
<1>2. rows \subseteq Users \X TopicIds /\ there \subseteq rows /\ absent \subseteq rows
  BY <1>1 DEF EditorState
<1>3. /\ new \in EditorState /\ new.pc = "mark rows" /\ new.before = editor[e].before
      /\ new.count = editor[e].count /\ new.created = editor[e].created
      /\ new.past = editor[e].past /\ new.existing = there /\ new.missing = absent
  <2>1. there \in SUBSET (Users \X TopicIds) /\ absent \in SUBSET (Users \X TopicIds)
    BY <1>2
  <2> HIDE DEF rows, there, absent
  <2>2. QED
    BY <1>1, <2>1 DEF EditorState, EditorPcs
<1>4. editor' = [editor EXCEPT ![e] = new]
  BY DEF ReadRows
<1>5. /\ new.existing \subseteq new.past \X new.created
      /\ new.missing \subseteq new.past \X new.created
  BY <1>2, <1>3
<1> HIDE DEF new, rows, there, absent
<1>6. /\ new.before <= Len(Levels) + 1 /\ new.count >= 1 /\ new.pc \notin Early
  BY <1>1, <1>3 DEF EditorBounds, Early
<1>7. /\ editor' \in [Editors -> EditorState] /\ \A f \in Editors : EditorBounds(f)'
      /\ editor'[e] = new /\ \A f \in Editors : f # e => editor'[f] = editor[f]
  BY <1>3, <1>4, <1>5, <1>6, NextEditor
<1>8. QED
  BY <1>3, <1>7 DEF OthersStay

-----------------------------------------------------------------------------
(* What the statements do to the topics *)

Unique == \A t, x \in Topics : order[t] = order[x] => t = x

\* No statement swaps two topics or removes one.
Keeps ==
  /\ Topics \subseteq Topics'
  /\ \A t, x \in Topics : order[t] < order[x] => order'[t] < order'[x]

\* The first update moves the topics from the insertion on away.
LEMMA ShiftsAway ==
  ASSUME Typed, NEW e \in Editors, ShiftAway(e)
  PROVE  /\ order' \in [TopicIds -> 0 .. MaxOrder]
         /\ Topics' = Topics
         /\ \A t \in Topics :
              /\ order[t] >= editor[e].before => order'[t] = order[t] + TempShift
              /\ order[t] < editor[e].before => order'[t] = order[t]
         /\ Unique => Unique'
<1> DEFINE moved == FromOrder(editor[e].before)
<1>1. moved \subseteq Topics /\ Topics \subseteq TopicIds
  BY DEF FromOrder, Topics
<1>2. /\ \A t \in TopicIds : order[t] \in Nat
      /\ editor[e].before \in Nat /\ TempShift \in Nat /\ TempShift >= 1
  BY Numbers, Shift, Bounds
<1>3. CanMove(moved, TempShift) /\ order' = Moved(moved, TempShift)
  BY DEF ShiftAway
<1>4. \A t \in moved : order[t] + TempShift >= 1
  BY <1>1, <1>2
<1>5. /\ order' \in [TopicIds -> 0 .. MaxOrder]
      /\ Topics' = Topics
      /\ \A t \in moved : order'[t] = order[t] + TempShift
      /\ \A t \in TopicIds \ moved : order'[t] = order[t]
      /\ \A t \in moved, x \in Topics \ moved : order'[t] # order'[x]
  <2> HIDE DEF moved
  <2>1. QED
    BY <1>1, <1>2, <1>3, <1>4, Moves
<1>6. \A t \in Topics : t \in moved <=> order[t] >= editor[e].before
  BY DEF FromOrder
<1> HIDE DEF moved
<1>7. Unique => Unique'
  BY <1>1, <1>2, <1>5 DEF Unique
<1>8. QED
  BY <1>1, <1>2, <1>5, <1>6, <1>7

\* The last update moves everything that is away back, behind the new topics.
LEMMA ShiftsBack ==
  ASSUME Typed, NEW e \in Editors, ShiftBack(e)
  PROVE  /\ order' \in [TopicIds -> 0 .. MaxOrder]
         /\ Topics' = Topics
         /\ \A t \in Topics :
              /\ order[t] >= TempShift =>
                   order'[t] = order[t] + editor[e].count - TempShift
              /\ order[t] < TempShift => order'[t] = order[t]
         /\ Unique => Unique'
<1> DEFINE moved == FromOrder(TempShift)
           d == ShiftBackBy(e)
<1>1. moved \subseteq Topics /\ Topics \subseteq TopicIds
  BY DEF FromOrder, Topics
<1>2. /\ \A t \in TopicIds : order[t] \in Nat
      /\ editor[e].count \in Nat /\ editor[e].count >= 1 /\ TempShift \in Nat
  BY Numbers DEF ShiftBack, At
<1>3. CanMove(moved, d) /\ order' = Moved(moved, d)
  BY DEF ShiftBack
<1>4. d = editor[e].count - TempShift /\ d \in Int
  BY <1>2 DEF ShiftBackBy
<1>5. \A t \in Topics : t \in moved <=> order[t] >= TempShift
  BY DEF FromOrder
<1> HIDE DEF moved, d
<1>6. \A t \in moved : order[t] + d >= 1
  BY <1>1, <1>2, <1>4, <1>5
<1>7. /\ order' \in [TopicIds -> 0 .. MaxOrder]
      /\ Topics' = Topics
      /\ \A t \in moved : order'[t] = order[t] + d
      /\ \A t \in TopicIds \ moved : order'[t] = order[t]
      /\ \A t \in moved, x \in Topics \ moved : order'[t] # order'[x]
  <2>1. moved \in SUBSET Topics /\ d \in Int
    BY <1>1, <1>4
  <2>2. QED
    BY <1>3, <1>6, <2>1, Moves
<1>8. Unique => Unique'
  BY <1>1, <1>2, <1>4, <1>7 DEF Unique
<1>9. QED
  BY <1>1, <1>2, <1>4, <1>5, <1>7, <1>8

\* Topics that are created.
LEMMA CreatesInserted ==
  ASSUME Typed, NEW e \in Editors, CreateInserted(e)
  PROVE  LET ids == NewIds(editor[e].count)
             places == editor[e].before .. editor[e].before + editor[e].count - 1
         IN  /\ order' \in [TopicIds -> 0 .. MaxOrder]
             /\ level' \in [TopicIds -> 1 .. 3]
             /\ ids \subseteq TopicIds /\ ids \cap Topics = {} /\ Topics' = Topics \cup ids
             /\ Cardinality(Topics') = Cardinality(Topics) + editor[e].count
             /\ \A t \in Topics : order'[t] = order[t] /\ order'[t] \notin places
             /\ \A t \in ids : order'[t] \in places
             /\ \A k \in places : \E t \in ids : order'[t] = k
             /\ \A t, x \in ids : order'[t] = order'[x] => t = x
             /\ Min(ids) \in ids /\ order'[Min(ids)] = editor[e].before
<1>1. editor[e].pc = "create" /\ CreateTopics(e, editor[e].before)
  BY DEF CreateInserted, At
<1>2. editor[e].before \in Nat \ {0} /\ editor[e].level \in 1 .. 3
  BY Numbers DEF EditorState
<1>3. QED
  BY <1>1, <1>2, NewTopics

LEMMA Appends ==
  ASSUME Typed, NEW e \in Editors, AppendTopics(e)
  PROVE  LET ids == NewIds(editor[e].count)
             places == editor[e].last + 1 .. editor[e].last + 1 + editor[e].count - 1
         IN  /\ order' \in [TopicIds -> 0 .. MaxOrder]
             /\ level' \in [TopicIds -> 1 .. 3]
             /\ ids \subseteq TopicIds /\ ids \cap Topics = {} /\ Topics' = Topics \cup ids
             /\ Cardinality(Topics') = Cardinality(Topics) + editor[e].count
             /\ \A t \in Topics : order'[t] = order[t] /\ order'[t] \notin places
             /\ \A t \in ids : order'[t] \in places
             /\ \A k \in places : \E t \in ids : order'[t] = k
             /\ \A t, x \in ids : order'[t] = order'[x] => t = x
<1>1. editor[e].pc = "append" /\ CreateTopics(e, editor[e].last + 1)
  BY DEF AppendTopics, At
<1>2. editor[e].last + 1 \in Nat \ {0} /\ editor[e].level \in 1 .. 3
  BY Numbers DEF EditorState
<1>3. QED
  BY <1>1, <1>2, NewTopics

-----------------------------------------------------------------------------
(* Every step keeps the types *)

LEMMA LearnerType ==
  ASSUME Typed, NEW u \in Users, CheckLevel(u) \/ \E t \in TopicIds : Study(u, t)
  PROVE  /\ Typed'
         /\ UNCHANGED <<order, level, bonus, editor, first, met, broken>>
         /\ \A v \in Users, t \in TopicIds : Passed(v, t) => Passed(v, t)'
<1>1. LearnersTyped /\ unlocked[u] \in 1 .. 3
  BY DEF Typed, LearnersTyped
<1>2. CASE CheckLevel(u)
  <2>1. unlocked[u] < 3 /\ unlocked' = [unlocked EXCEPT ![u] = unlocked[u] + 1]
    BY <1>2 DEF CheckLevel
  <2>2. unlocked[u] + 1 \in 1 .. 3
    BY <1>1, <2>1
  <2>3. unlocked' \in [Users -> 1 .. 3]
    BY <1>1, <2>1, <2>2 DEF LearnersTyped
  <2>4. UNCHANGED <<order, level, progress, bonus, editor, cast, first, met, broken>>
    BY <1>2 DEF CheckLevel
  <2>5. QED
    BY <1>1, <2>3, <2>4 DEF Typed, LearnersTyped, EditorBounds, Passed
<1>3. ASSUME NEW t \in TopicIds, Study(u, t)
      PROVE  /\ Typed'
             /\ UNCHANGED <<order, level, bonus, editor, first, met, broken>>
             /\ \A v \in Users, x \in TopicIds : Passed(v, x) => Passed(v, x)'
  <2>1. PICK s \in Statuses :
          /\ \/ progress[u][t] = "none" /\ s = "NOT_STARTED"
             \/ progress[u][t] = "NOT_STARTED" /\ s = "PASSED"
             \/ progress[u][t] = "PASSED" /\ s = "ADVANCED_PASSED"
          /\ progress' = [progress EXCEPT ![u][t] = s]
    BY <1>3 DEF Study
  <2>2. UNCHANGED <<order, level, bonus, unlocked, editor, cast, first, met, broken>>
    BY <1>3 DEF Study
  <2>3. progress' \in [Users -> [TopicIds -> Statuses]]
    BY <1>1, <2>1 DEF LearnersTyped
  <2>4. \A v \in Users, x \in TopicIds :
          progress'[v][x] = IF v = u /\ x = t THEN s ELSE progress[v][x]
    BY <1>1, <2>1 DEF LearnersTyped
  <2>5. \A v \in Users, x \in TopicIds : Passed(v, x) => Passed(v, x)'
    BY <2>1, <2>4 DEF Passed, PassedStatuses
  <2>6. QED
    BY <1>1, <2>2, <2>3, <2>5 DEF Typed, LearnersTyped, EditorBounds
<1>4. QED
  BY <1>2, <1>3

\* Rows are marked or added; a row that is there is never taken back.
LEMMA RowsType ==
  ASSUME Typed, NEW e \in Editors, MarkRows(e) \/ AddRows(e)
  PROVE  /\ LearnersTyped'
         /\ \A v \in Users, t \in TopicIds : Passed(v, t) => Passed(v, t)'
         /\ \A v \in Users, t \in TopicIds :
              bonus'[v][t] => bonus[v][t] \/ <<v, t>> \in editor[e].past \X editor[e].created
<1>1. LearnersTyped /\ EditorBounds(e)
  BY DEF Typed
<1>2. ASSUME NEW rows, MarkBonus(rows)
      PROVE  /\ bonus' \in [Users -> [TopicIds -> BOOLEAN]]
             /\ \A v \in Users, t \in TopicIds :
                  bonus'[v][t] => bonus[v][t] \/ <<v, t>> \in rows
  BY <1>1, <1>2 DEF MarkBonus, LearnersTyped
<1>3. CASE MarkRows(e)
  <2>1. MarkBonus(editor[e].existing) /\ UNCHANGED <<progress, unlocked>>
    BY <1>3 DEF MarkRows
  <2>2. QED
    BY <1>1, <1>2, <2>1 DEF LearnersTyped, EditorBounds, Passed
<1>4. CASE AddRows(e)
  <2>1. /\ MarkBonus(editor[e].missing) /\ NoneMade(e) /\ UNCHANGED unlocked
        /\ progress' = [u \in Users |-> [t \in TopicIds |->
             IF <<u, t>> \in editor[e].missing THEN "NOT_STARTED" ELSE progress[u][t]]]
    BY <1>4 DEF AddRows
  <2>2. progress' \in [Users -> [TopicIds -> Statuses]]
    BY <1>1, <2>1 DEF LearnersTyped, Statuses
  <2>3. \A u \in Users, t \in TopicIds : Passed(u, t) => <<u, t>> \notin editor[e].missing
    BY <2>1 DEF NoneMade, Passed, PassedStatuses
  <2>4. \A u \in Users, t \in TopicIds : Passed(u, t) => Passed(u, t)'
    BY <2>1, <2>3 DEF Passed
  <2>5. QED
    BY <1>1, <1>2, <2>1, <2>2, <2>4 DEF LearnersTyped, EditorBounds
<1>5. QED
  BY <1>3, <1>4

LEMMA EditType ==
  ASSUME Typed, NEW e \in Editors, EditStep(e)
  PROVE  Typed'
<1> USE DEF Typed
<1>1. UNCHANGED learnerVars => LearnersTyped'
  BY DEF learnerVars, LearnersTyped
<1>2. ASSUME NEW t \in TopicIds, NEW lv \in EditLevels, UpdateTopic(e, t, lv)
      PROVE  Typed'
  <2>1. level' \in [TopicIds -> 1 .. 3]
    BY <1>2, Bounds DEF UpdateTopic
  <2>2. QED
    BY <1>1, <1>2, <2>1 DEF UpdateTopic, EditorBounds
<1>3. ASSUME NEW n \in 1 .. MaxInsert, NEW lv \in EditLevels,
             (\E before \in 1 .. Len(Levels) + 1 : StartInsert(e, before, n, lv))
               \/ StartAppend(e, n, lv)
      PROVE  Typed'
  <2>1. Meets /\ UNCHANGED <<order, level, learnerVars, cast, first, broken>>
    BY <1>3 DEF StartInsert, StartAppend
  <2>2. editor' \in [Editors -> EditorState] /\ \A f \in Editors : EditorBounds(f)'
    BY <1>3, StartEditor
  <2>3. met' \in BOOLEAN
    BY <2>1 DEF Meets
  <2>4. QED
    BY <1>1, <2>1, <2>2, <2>3
<1>4. CASE ShiftAway(e)
  <2>1. /\ Goto(e, "create") /\ editor[e].pc = "shift"
        /\ UNCHANGED <<level, learnerVars, cast, first, met, broken>>
    BY <1>4 DEF ShiftAway, At
  <2>2. editor' \in [Editors -> EditorState] /\ \A f \in Editors : EditorBounds(f)'
    BY <2>1, GotoEditor DEF EditorPcs, Early
  <2>3. QED
    BY <1>1, <1>4, <2>1, <2>2, ShiftsAway
<1>5. CASE ShiftBack(e)
  <2>1. /\ Goto(e, "read past") /\ editor[e].pc = "shift back"
        /\ UNCHANGED <<level, learnerVars, cast, first, met, broken>>
    BY <1>5 DEF ShiftBack, At
  <2>2. editor' \in [Editors -> EditorState] /\ \A f \in Editors : EditorBounds(f)'
    BY <2>1, GotoEditor DEF EditorPcs, Early
  <2>3. QED
    BY <1>1, <1>5, <2>1, <2>2, ShiftsBack
<1>6. CASE CreateInserted(e)
  <2> DEFINE ids == NewIds(editor[e].count)
  <2>1. UNCHANGED <<learnerVars, cast, met, broken>>
        /\ first' = [t \in TopicIds |-> IF t \in ids THEN Min(ids) ELSE first[t]]
    BY <1>6 DEF CreateInserted
  <2>2. /\ order' \in [TopicIds -> 0 .. MaxOrder] /\ level' \in [TopicIds -> 1 .. 3]
        /\ ids \subseteq TopicIds /\ Min(ids) \in ids
    BY <1>6, CreatesInserted
  <2> HIDE DEF ids
  <2>3. first' \in [TopicIds -> TopicIds]
    BY <2>1, <2>2
  <2>4. editor' \in [Editors -> EditorState] /\ \A f \in Editors : EditorBounds(f)'
    BY <1>6, CreateEditor
  <2>5. QED
    BY <1>1, <2>1, <2>2, <2>3, <2>4
<1>7. CASE ReadPast(e)
  <2>1. UNCHANGED <<order, level, learnerVars, cast, first, met, broken>>
    BY <1>7 DEF ReadPast
  <2>2. QED
    BY <1>1, <1>7, <2>1, ReadPastEditor
<1>8. CASE ReadRows(e)
  <2>1. UNCHANGED <<order, level, learnerVars, cast, first, met, broken>>
    BY <1>8 DEF ReadRows
  <2>2. QED
    BY <1>1, <1>8, <2>1, ReadRowsEditor
<1>9. CASE MarkRows(e)
  <2>1. /\ Goto(e, "add rows") /\ editor[e].pc = "mark rows"
        /\ UNCHANGED <<order, level, cast, first, met, broken>>
    BY <1>9 DEF MarkRows, At
  <2>2. editor' \in [Editors -> EditorState] /\ \A f \in Editors : EditorBounds(f)'
    BY <2>1, GotoEditor DEF EditorPcs, Early
  <2>3. QED
    BY <1>9, <2>1, <2>2, RowsType
<1>10. CASE AddRows(e)
  <2>1. Rest(e) /\ UNCHANGED <<order, level, cast, first, met, broken>>
    BY <1>10 DEF AddRows
  <2>2. QED
    BY <1>10, <2>1, RowsType, RestEditor
<1>11. CASE AppendTopics(e)
  <2>1. Rest(e) /\ UNCHANGED <<learnerVars, cast, first, met, broken>>
    BY <1>11 DEF AppendTopics
  <2>2. QED
    BY <1>1, <1>11, <2>1, RestEditor, Appends
<1>12. CASE Fails(e)
  <2>1. /\ Rest(e) /\ broken' = TRUE
        /\ UNCHANGED <<order, level, learnerVars, cast, first, met>>
    BY <1>12 DEF Fails
  <2>2. QED
    BY <1>1, <2>1, RestEditor
<1> HIDE DEF Typed
<1>13. QED
  BY <1>2, <1>3, <1>4, <1>5, <1>6, <1>7, <1>8, <1>9, <1>10, <1>11, <1>12 DEF EditStep

LEMMA TypedStep ==
  ASSUME Typed, [Next]_vars
  PROVE  Typed'
<1>1. CASE UNCHANGED vars
  BY <1>1 DEF vars, Typed, LearnersTyped, EditorBounds
<1>2. QED
  BY <1>1, LearnerType, EditType DEF Next

LEMMA TypedFirst == Init => Typed
<1> SUFFICES ASSUME Init PROVE Typed
  OBVIOUS
<1>1. /\ Len(Levels) \in Nat /\ MaxOrder \in Nat /\ Len(Levels) <= MaxOrder
      /\ \A t \in 1 .. Len(Levels) : Levels[t] \in 1 .. 3
  BY Bounds, Shift
<1>2. \A t \in TopicIds : t \in Nat /\ t >= 1
  BY Bounds DEF TopicIds
<1>3. order \in [TopicIds -> 0 .. MaxOrder] /\ level \in [TopicIds -> 1 .. 3]
  <2>1. \A t \in TopicIds : (IF t <= Len(Levels) THEN t ELSE Absent) \in 0 .. MaxOrder
    BY <1>1, <1>2 DEF Absent
  <2>2. \A t \in TopicIds : (IF t <= Len(Levels) THEN Levels[t] ELSE 1) \in 1 .. 3
    BY <1>1, <1>2
  <2>3. QED
    BY <2>1, <2>2 DEF Init
<1>4. LearnersTyped
  BY DEF Init, LearnersTyped, Statuses
<1>5. editor \in [Editors -> EditorState] /\ \A e \in Editors : EditorBounds(e)
  <2>1. Resting.before <= Len(Levels) + 1
    BY <1>1, RestingType
  <2>2. editor = [e \in Editors |-> Resting]
    BY DEF Init
  <2>3. QED
    BY <2>1, <2>2, RestingType DEF EditorBounds
<1>6. QED
  BY <1>3, <1>4, <1>5 DEF Init, Typed

LEMMA AlwaysTyped == Spec => []Typed
<1>1. Typed /\ [Next]_vars => Typed'
  BY TypedStep
<1>2. QED
  BY <1>1, TypedFirst, PTL DEF Spec

\* The state has the types the model declares: no statement of an edit, refused
\* or not, alone or among others, moves an order out of its column.
THEOREM CourseTypeCorrect == Spec => []TypeOK
BY AlwaysTyped, TypedIsTypeOK, PTL

-----------------------------------------------------------------------------
(* Edits one at a time *)

OneEdit ==
  ~ met => \A e, f \in Editors :
             editor[e].pc # "idle" /\ editor[f].pc # "idle" => e = f

\* A statement of an edit changes the variables of that edit alone, and while
\* edits come one at a time no other one is under way.
LEMMA EditAlone ==
  ASSUME Typed, OneEdit, NEW e \in Editors, EditStep(e), ~ met'
  PROVE  /\ ~ met /\ OneEdit'
         /\ \/ editor' = editor /\ order' = order
            \/ \A f \in Editors : f # e => editor[f].pc = "idle" /\ editor'[f].pc = "idle"
<1>1. ASSUME ~ met, OthersStay(e), \A f \in Editors : f # e => editor[f].pc = "idle"
      PROVE  /\ ~ met /\ OneEdit'
             /\ \A f \in Editors : f # e => editor[f].pc = "idle" /\ editor'[f].pc = "idle"
  BY <1>1 DEF OthersStay, OneEdit
<1>2. ASSUME met' = met, OthersStay(e), editor[e].pc # "idle"
      PROVE  /\ ~ met /\ OneEdit'
             /\ \A f \in Editors : f # e => editor[f].pc = "idle" /\ editor'[f].pc = "idle"
  <2>1. ~ met /\ \A f \in Editors : f # e => editor[f].pc = "idle"
    BY <1>2 DEF OneEdit
  <2>2. QED
    BY <1>1, <1>2, <2>1
<1>3. CASE \E t \in TopicIds, lv \in EditLevels : UpdateTopic(e, t, lv)
  <2>1. editor' = editor /\ order' = order /\ met' = met
    BY <1>3 DEF UpdateTopic
  <2>2. QED
    BY <2>1 DEF OneEdit
<1>4. ASSUME NEW n \in 1 .. MaxInsert, NEW lv \in EditLevels,
             (\E before \in 1 .. Len(Levels) + 1 : StartInsert(e, before, n, lv))
               \/ StartAppend(e, n, lv)
      PROVE  /\ ~ met /\ OneEdit'
             /\ \A f \in Editors : f # e => editor[f].pc = "idle" /\ editor'[f].pc = "idle"
  <2>1. OthersStay(e)
    BY <1>4, StartEditor
  <2>2. ~ met /\ \A f \in Editors : editor[f].pc = "idle"
    BY <1>4 DEF StartInsert, StartAppend, Meets
  <2>3. QED
    BY <1>1, <2>1, <2>2
<1>5. CASE ShiftAway(e) \/ ShiftBack(e) \/ MarkRows(e)
  <2>1. \E pc \in {"create", "read past", "add rows"} :
          Goto(e, pc) /\ (pc \in Early => editor[e].pc \in Early)
    BY <1>5 DEF ShiftAway, ShiftBack, MarkRows, At, Early
  <2>2. met' = met /\ editor[e].pc # "idle"
    BY <1>5 DEF ShiftAway, ShiftBack, MarkRows, At
  <2>3. OthersStay(e)
    BY <2>1, <2>2, GotoEditor DEF EditorPcs
  <2>4. QED
    BY <1>2, <2>2, <2>3
<1>6. CASE CreateInserted(e)
  BY <1>2, <1>6, CreateEditor DEF CreateInserted, At
<1>7. CASE ReadPast(e)
  BY <1>2, <1>7, ReadPastEditor DEF ReadPast, At
<1>8. CASE ReadRows(e)
  BY <1>2, <1>8, ReadRowsEditor DEF ReadRows, At
<1>9. CASE AddRows(e) \/ AppendTopics(e) \/ Fails(e)
  <2>1. Rest(e) /\ met' = met /\ editor[e].pc # "idle"
    BY <1>9 DEF AddRows, AppendTopics, Fails, At
  <2>2. QED
    BY <1>2, <2>1, RestEditor
<1>10. QED
  BY <1>3, <1>4, <1>5, <1>6, <1>7, <1>8, <1>9 DEF EditStep

\* The steps of an edit that leave the topics where they are.
LEMMA OrderStays ==
  ASSUME Typed, NEW e \in Editors, EditStep(e),
         ~ ShiftAway(e), ~ CreateInserted(e), ~ ShiftBack(e), ~ AppendTopics(e)
  PROVE  /\ order' = order
         /\ \/ editor' = editor
            \/ /\ editor'[e].pc \notin {"create", "shift back"}
               /\ editor'[e].pc = "append" => editor'[e].last = LastOrder
         /\ ~ broken' => /\ ~ broken
                         /\ editor' = editor \/ editor[e].pc \notin {"create", "shift back"}
<1>1. CASE \E t \in TopicIds, lv \in EditLevels : UpdateTopic(e, t, lv)
  BY <1>1 DEF UpdateTopic
<1>2. ASSUME NEW n \in 1 .. MaxInsert, NEW lv \in EditLevels,
             (\E before \in 1 .. Len(Levels) + 1 : StartInsert(e, before, n, lv))
               \/ StartAppend(e, n, lv)
      PROVE  /\ order' = order /\ editor'[e].pc \notin {"create", "shift back"}
             /\ editor'[e].pc = "append" => editor'[e].last = LastOrder
             /\ broken' = broken /\ editor[e].pc \notin {"create", "shift back"}
  <2>1. order' = order /\ broken' = broken /\ editor[e].pc = "idle"
    BY <1>2 DEF StartInsert, StartAppend, At
  <2>2. \/ editor'[e].pc = "shift"
        \/ editor'[e].pc = "append" /\ editor'[e].last = LastOrder
    BY <1>2, StartEditor
  <2>3. QED
    BY <2>1, <2>2
<1>3. CASE ReadPast(e)
  BY <1>3, ReadPastEditor DEF ReadPast, At
<1>4. CASE ReadRows(e)
  BY <1>4, ReadRowsEditor DEF ReadRows, At
<1>5. CASE MarkRows(e)
  <2>1. order' = order /\ broken' = broken /\ Goto(e, "add rows") /\ editor[e].pc = "mark rows"
    BY <1>5 DEF MarkRows, At
  <2>2. QED
    BY <2>1, GotoEditor DEF EditorPcs, Early, Continues
<1>6. CASE AddRows(e) \/ Fails(e)
  <2>1. order' = order /\ Rest(e)
    BY <1>6 DEF AddRows, Fails
  <2>2. ~ broken' => ~ broken /\ editor[e].pc = "add rows"
    BY <1>6 DEF AddRows, Fails, At
  <2>3. QED
    BY <2>1, <2>2, RestEditor
<1>7. CASE \E n \in 1 .. MaxInsert, lv \in EditLevels :
             \/ \E before \in 1 .. Len(Levels) + 1 : StartInsert(e, before, n, lv)
             \/ StartAppend(e, n, lv)
  BY <1>2, <1>7
<1>8. QED
  BY <1>1, <1>3, <1>4, <1>5, <1>6, <1>7 DEF EditStep

-----------------------------------------------------------------------------
(* The topics stay in one sequence *)

\* Between the two updates, the topics from the insertion on are out of the way
\* of the others, and of the new ones.
Apart(e) ==
  /\ editor[e].pc = "create" =>
       \A t \in Topics : order[t] < editor[e].before
                           \/ order[t] >= TempShift + editor[e].before
  /\ editor[e].pc = "shift back" =>
       \A t \in Topics : order[t] < editor[e].before + editor[e].count
                           \/ order[t] >= TempShift + editor[e].before

InSequence == OneEdit /\ Unique /\ (~ met => \A e \in Editors : Apart(e))

LEMMA SameOrder ==
  ASSUME order' = order
  PROVE  Topics' = Topics /\ Keeps /\ (Unique => Unique')
BY DEF Topics, Keeps, Unique

LEMMA SequenceStep ==
  ASSUME Typed, InSequence, [Next]_vars
  PROVE  InSequence' /\ (~ met' => Keeps)
<1>1. ASSUME order' = order, editor' = editor, met' = met
      PROVE  InSequence' /\ (~ met' => Keeps)
  <2>1. Topics' = Topics /\ Keeps /\ Unique'
    BY <1>1, SameOrder DEF InSequence
  <2>2. QED
    BY <1>1, <2>1 DEF InSequence, OneEdit, Apart
<1>2. ASSUME NEW e \in Editors, EditStep(e)
      PROVE  InSequence' /\ (~ met' => Keeps)
  <2>1. OneEdit' /\ (~ met' => ~ met)
    BY <1>2, EditAlone DEF InSequence, OneEdit
  <2>2. \A t \in TopicIds : order[t] \in Nat
    BY Numbers
  <2>3. /\ editor[e].before \in Nat /\ editor[e].before <= Len(Levels) + 1
        /\ editor[e].count \in Nat /\ editor[e].count <= MaxInsert
        /\ Len(Levels) \in Nat /\ MaxInsert \in Nat
        /\ TempShift \in Nat /\ TempShift > Len(Levels) + MaxInsert
    BY Numbers, Shift
  <2>4. Topics \subseteq TopicIds
    BY DEF Topics
  <2>5. ~ met' => \/ editor' = editor /\ order' = order
                  \/ \A f \in Editors : f # e => editor'[f].pc = "idle"
    BY <1>2, EditAlone DEF InSequence
  <2>6. SUFFICES Unique' /\ (~ met' => Apart(e)' /\ Keeps)
    <3>1. ASSUME Apart(e)', ~ met', NEW f \in Editors
          PROVE  Apart(f)'
      <4>1. CASE editor' = editor /\ order' = order
        BY <2>1, <3>1, <4>1, SameOrder DEF InSequence, Apart
      <4>2. CASE editor'[f].pc = "idle"
        BY <4>2 DEF Apart
      <4>3. QED
        BY <2>5, <3>1, <4>1, <4>2
    <3>2. QED
      BY <2>1, <3>1 DEF InSequence
  <2>7. CASE ShiftAway(e)
    <3>1. /\ Topics' = Topics /\ (Unique => Unique')
          /\ \A t \in Topics :
               /\ order[t] >= editor[e].before => order'[t] = order[t] + TempShift
               /\ order[t] < editor[e].before => order'[t] = order[t]
      BY <2>7, ShiftsAway
    <3>2. Goto(e, "create") /\ editor[e].pc = "shift"
      BY <2>7 DEF ShiftAway, At
    <3>3. editor'[e].pc = "create" /\ editor'[e].before = editor[e].before
      BY <3>2, GotoEditor DEF EditorPcs, Early, Continues
    <3>4. \A t \in Topics : order'[t] < editor[e].before
                              \/ order'[t] >= TempShift + editor[e].before
      BY <2>2, <2>3, <2>4, <3>1
    <3>5. \A t, x \in Topics : order[t] < order[x] => order'[t] < order'[x]
      BY <2>2, <2>3, <2>4, <3>1
    <3>6. QED
      BY <3>1, <3>3, <3>4, <3>5 DEF InSequence, Apart, Keeps
  <2>8. CASE CreateInserted(e)
    <3> DEFINE ids == NewIds(editor[e].count)
               places == editor[e].before .. editor[e].before + editor[e].count - 1
    <3>1. /\ ids \subseteq TopicIds /\ Topics' = Topics \cup ids
          /\ \A t \in Topics : order'[t] = order[t] /\ order'[t] \notin places
          /\ \A t \in ids : order'[t] \in places
          /\ \A t, x \in ids : order'[t] = order'[x] => t = x
      BY <2>8, CreatesInserted
    <3>2. /\ editor'[e].pc = "shift back" /\ editor'[e].before = editor[e].before
          /\ editor'[e].count = editor[e].count
      BY <2>8, CreateEditor
    <3>3. editor[e].pc = "create"
      BY <2>8 DEF CreateInserted, At
    <3> HIDE DEF ids
    <3>4. Unique'
      <4> HIDE DEF places
      <4>1. QED
        BY <3>1 DEF InSequence, Unique
    <3>5. ASSUME ~ met'
          PROVE  Apart(e)' /\ Keeps
      <4>1. \A t \in Topics : order[t] < editor[e].before
                                \/ order[t] >= TempShift + editor[e].before
        BY <2>1, <3>3, <3>5 DEF InSequence, Apart
      <4>2. \A t \in Topics \cup ids : order'[t] < editor[e].before + editor[e].count
                                         \/ order'[t] >= TempShift + editor[e].before
        BY <2>2, <2>3, <2>4, <3>1, <4>1
      <4>3. Keeps
        <5> HIDE DEF places
        <5>1. QED
          BY <3>1 DEF Keeps
      <4>4. QED
        BY <3>1, <3>2, <4>2, <4>3 DEF Apart
    <3>6. QED
      BY <3>4, <3>5
  <2>9. CASE ShiftBack(e)
    <3>1. /\ Topics' = Topics /\ (Unique => Unique')
          /\ \A t \in Topics :
               /\ order[t] >= TempShift =>
                    order'[t] = order[t] + editor[e].count - TempShift
               /\ order[t] < TempShift => order'[t] = order[t]
      BY <2>9, ShiftsBack
    <3>2. Goto(e, "read past") /\ editor[e].pc = "shift back"
      BY <2>9 DEF ShiftBack, At
    <3>3. editor'[e].pc = "read past"
      BY <3>2, GotoEditor DEF EditorPcs, Early, Continues
    <3>4. ASSUME ~ met'
          PROVE  Keeps
      <4>1. \A t \in Topics : order[t] < editor[e].before + editor[e].count
                                \/ order[t] >= TempShift + editor[e].before
        BY <2>1, <3>2, <3>4 DEF InSequence, Apart
      <4>2. \A t \in Topics :
              \/ order[t] < editor[e].before + editor[e].count /\ order'[t] = order[t]
              \/ /\ order[t] >= TempShift + editor[e].before
                 /\ order'[t] = order[t] + editor[e].count - TempShift
        BY <2>2, <2>3, <2>4, <3>1, <4>1
      <4>3. \A t, x \in Topics : order[t] < order[x] => order'[t] < order'[x]
        <5>1. ASSUME NEW t \in Topics, NEW x \in Topics, order[t] < order[x]
              PROVE  order'[t] < order'[x]
          <6>1. order[t] \in Nat /\ order[x] \in Nat
            BY <2>2, <2>4
          <6>2. QED
            BY <2>3, <4>2, <5>1, <6>1
        <5>2. QED
          BY <5>1
      <4>4. QED
        BY <3>1, <4>3 DEF Keeps
    <3>5. QED
      BY <3>1, <3>3, <3>4 DEF InSequence, Apart
  <2>10. CASE AppendTopics(e)
    <3> DEFINE ids == NewIds(editor[e].count)
               places == editor[e].last + 1 .. editor[e].last + 1 + editor[e].count - 1
    <3>1. /\ ids \subseteq TopicIds /\ Topics' = Topics \cup ids
          /\ \A t \in Topics : order'[t] = order[t] /\ order'[t] \notin places
          /\ \A t \in ids : order'[t] \in places
          /\ \A t, x \in ids : order'[t] = order'[x] => t = x
      BY <2>10, Appends
    <3>2. editor'[e].pc = "idle"
      BY <2>10, RestEditor DEF AppendTopics
    <3> HIDE DEF ids, places
    <3>3. Unique' /\ Keeps
      BY <3>1 DEF InSequence, Unique, Keeps
    <3>4. QED
      BY <3>2, <3>3 DEF Apart
  <2>11. CASE /\ ~ ShiftAway(e) /\ ~ CreateInserted(e) /\ ~ ShiftBack(e)
              /\ ~ AppendTopics(e)
    <3>1. /\ order' = order
          /\ editor' = editor \/ editor'[e].pc \notin {"create", "shift back"}
      BY <1>2, <2>11, OrderStays
    <3>2. Topics' = Topics /\ Keeps /\ Unique'
      BY <3>1, SameOrder DEF InSequence
    <3>3. ~ met' => Apart(e)'
      BY <2>1, <3>1, <3>2 DEF InSequence, Apart
    <3>4. QED
      BY <3>2, <3>3
  <2>12. QED
    BY <2>7, <2>8, <2>9, <2>10, <2>11
<1>3. CASE UNCHANGED vars
  BY <1>1, <1>3 DEF vars
<1>4. CASE \E u \in Users : CheckLevel(u) \/ \E t \in TopicIds : Study(u, t)
  BY <1>1, <1>4, LearnerType
<1>5. QED
  BY <1>2, <1>3, <1>4 DEF Next

LEMMA SequenceFirst == Init => InSequence
<1> SUFFICES ASSUME Init PROVE InSequence
  OBVIOUS
<1>1. \A e \in Editors : editor[e].pc = "idle"
  BY RestingType DEF Init
<1>2. Unique
  BY DEF Init, Unique, Topics, Absent
<1>3. QED
  BY <1>1, <1>2 DEF InSequence, OneEdit, Apart

LEMMA AlwaysInSequence == Spec => [](Typed /\ InSequence)
<1>1. Typed /\ InSequence /\ [Next]_vars => InSequence'
  BY SequenceStep
<1>2. QED
  BY <1>1, SequenceFirst, AlwaysTyped, PTL DEF Spec

\* Whatever edit is asked for, breaks off or follows one that broke off, no
\* statement swaps two topics that learners see, as long as edits come one at
\* a time.
THEOREM SequenceIsKept == Spec => SequenceKept
<1>1. Typed /\ InSequence /\ [Next]_vars
        => [~ met' => \A t, x \in Topics : order[t] < order[x] => order'[t] < order'[x]]_vars
  BY SequenceStep DEF Keeps
<1>2. QED
  BY <1>1, AlwaysInSequence, PTL DEF Spec, SequenceKept

-----------------------------------------------------------------------------
(* The orders are dense between edits *)

Count == Cardinality(Topics)

\* Where the orders are while an edit has moved them: the gap the new topics
\* fill is as large as they are many, and an append knows the last order.
Gap(e) ==
  LET before == editor[e].before
      n == editor[e].count
  IN  /\ editor[e].pc = "create" =>
           Orders = (1 .. before - 1) \cup (TempShift + before .. TempShift + Count)
      /\ editor[e].pc = "shift back" =>
           /\ Count >= Len(Levels) + n
           /\ Orders = (1 .. before + n - 1)
                         \cup (TempShift + before .. TempShift + Count - n)
      /\ editor[e].pc = "append" => editor[e].last = Count

Dense ==
  ~ met /\ ~ broken =>
    /\ Count >= Len(Levels)
    /\ (\A e \in Editors : editor[e].pc \notin {"create", "shift back"})
         => Orders = 1 .. Count
    /\ \A e \in Editors : Gap(e)

\* The last of dense orders is their number.
LEMMA LastIsCount ==
  ASSUME Typed, Orders = 1 .. Count
  PROVE  LastOrder = Count
<1>1. Count \in Nat
  <2>1. Topics \subseteq TopicIds
    BY DEF Topics
  <2>2. QED
    BY <2>1, TopicsFinite DEF Count
<1>2. LastOrder \in Orders \cup {0} /\ \A k \in Orders : k <= LastOrder
  BY LastOrderType
<1>3. QED
  BY <1>1, <1>2

\* The orders after the statements that move or add topics.
LEMMA ShiftedOrders ==
  ASSUME NEW b \in Nat, b >= 1, NEW n \in Nat, b <= n + 1, NEW shift \in Nat,
         Orders = 1 .. n, Topics' = Topics,
         \A t \in Topics : /\ order[t] >= b => order'[t] = order[t] + shift
                           /\ order[t] < b => order'[t] = order[t]
  PROVE  Orders' = (1 .. b - 1) \cup (shift + b .. shift + n)
<1>1. \A t \in Topics : order[t] \in 1 .. n
  BY DEF Orders
<1>2. \A k \in 1 .. n : \E t \in Topics : order[t] = k
  BY DEF Orders
<1>3. Orders' = {order'[t] : t \in Topics}
  BY DEF Orders
<1>4. ASSUME NEW k \in Orders'
      PROVE  k \in (1 .. b - 1) \cup (shift + b .. shift + n)
  <2>1. PICK t \in Topics : k = order'[t]
    BY <1>3
  <2>2. order[t] \in Nat /\ order[t] >= 1 /\ order[t] <= n
    BY <1>1
  <2>3. CASE order[t] >= b
    <3>1. k = order[t] + shift
      BY <2>1, <2>3
    <3>2. QED
      BY <2>2, <2>3, <3>1
  <2>4. CASE order[t] < b
    <3>1. k = order[t]
      BY <2>1, <2>4
    <3>2. QED
      BY <2>2, <2>4, <3>1
  <2>5. QED
    BY <2>2, <2>3, <2>4
<1>5. ASSUME NEW k \in (1 .. b - 1) \cup (shift + b .. shift + n)
      PROVE  k \in Orders'
  <2>1. CASE k \in 1 .. b - 1
    <3>1. PICK t \in Topics : order[t] = k
      BY <1>2, <2>1
    <3>2. order'[t] = k
      BY <2>1, <3>1
    <3>3. QED
      BY <1>3, <3>2
  <2>2. CASE k \in shift + b .. shift + n
    <3>1. PICK t \in Topics : order[t] = k - shift
      <4>1. k - shift \in 1 .. n
        BY <2>2
      <4>2. QED
        BY <1>2, <4>1
    <3>2. order[t] >= b
      BY <2>2, <3>1
    <3>3. order'[t] = k - shift + shift
      BY <3>1, <3>2
    <3>4. order'[t] = k
      BY <2>2, <3>3
    <3>5. QED
      BY <1>3, <3>4
  <2>3. QED
    BY <1>5, <2>1, <2>2
<1>6. QED
  BY <1>4, <1>5

LEMMA ReturnedOrders ==
  ASSUME NEW b \in Nat, b >= 1, NEW c \in Nat, NEW n \in Nat, NEW shift \in Nat,
         b + c - 1 <= n, b + c - 1 < shift,
         Orders = (1 .. b + c - 1) \cup (shift + b .. shift + n - c), Topics' = Topics,
         \A t \in Topics : /\ order[t] >= shift => order'[t] = order[t] + c - shift
                           /\ order[t] < shift => order'[t] = order[t]
  PROVE  Orders' = 1 .. n
<1>1. \A t \in Topics : order[t] \in (1 .. b + c - 1) \cup (shift + b .. shift + n - c)
  BY DEF Orders
<1>2. \A k \in (1 .. b + c - 1) \cup (shift + b .. shift + n - c) :
        \E t \in Topics : order[t] = k
  BY DEF Orders
<1>3. Orders' = {order'[t] : t \in Topics}
  BY DEF Orders
<1>4. ASSUME NEW k \in Orders'
      PROVE  k \in 1 .. n
  <2>1. PICK t \in Topics : k = order'[t]
    BY <1>3
  <2>2. order[t] \in (1 .. b + c - 1) \cup (shift + b .. shift + n - c)
    BY <1>1
  <2>3. CASE order[t] >= shift
    <3>1. k = order[t] + c - shift
      BY <2>1, <2>3
    <3>2. QED
      BY <2>2, <2>3, <3>1
  <2>4. CASE order[t] < shift
    <3>1. k = order[t]
      BY <2>1, <2>4
    <3>2. QED
      BY <2>2, <2>4, <3>1
  <2>5. order[t] \in Int
    BY <2>2
  <2>6. QED
    BY <2>3, <2>4, <2>5
<1>5. ASSUME NEW k \in 1 .. n
      PROVE  k \in Orders'
  <2>1. CASE k <= b + c - 1
    <3>1. PICK t \in Topics : order[t] = k
      BY <1>2, <2>1
    <3>2. order'[t] = k
      BY <2>1, <3>1
    <3>3. QED
      BY <1>3, <3>2
  <2>2. CASE k > b + c - 1
    <3>1. PICK t \in Topics : order[t] = k - c + shift
      <4>1. k - c + shift \in shift + b .. shift + n - c
        BY <2>2
      <4>2. QED
        BY <1>2, <4>1
    <3>2. order[t] >= shift
      BY <2>2, <3>1
    <3>3. order'[t] = k - c + shift + c - shift
      BY <3>1, <3>2
    <3>4. order'[t] = k
      BY <3>3
    <3>5. QED
      BY <1>3, <3>4
  <2>3. QED
    BY <2>1, <2>2
<1>6. QED
  BY <1>4, <1>5

LEMMA AddedOrders ==
  ASSUME NEW ids, NEW places, Topics' = Topics \cup ids,
         \A t \in Topics : order'[t] = order[t],
         \A t \in ids : order'[t] \in places,
         \A k \in places : \E t \in ids : order'[t] = k
  PROVE  Orders' = Orders \cup places
BY DEF Orders

LEMMA DenseStep ==
  ASSUME Typed, InSequence, Dense, [Next]_vars
  PROVE  Dense'
<1>1. ASSUME order' = order, editor' = editor, ~ met' => ~ met, ~ broken' => ~ broken
      PROVE  Dense'
  <2>1. Topics' = Topics
    BY <1>1, SameOrder
  <2>2. Orders' = Orders /\ Count' = Count
    BY <1>1, <2>1 DEF Orders, Count
  <2>3. QED
    BY <1>1, <2>2 DEF Dense, Gap
<1>2. ASSUME NEW e \in Editors, EditStep(e)
      PROVE  Dense'
  <2> SUFFICES ASSUME ~ met', ~ broken'
               PROVE  /\ Count' >= Len(Levels)
                      /\ (\A f \in Editors : editor'[f].pc \notin {"create", "shift back"})
                           => Orders' = 1 .. Count'
                      /\ \A f \in Editors : Gap(f)'
    BY DEF Dense
  <2>1. ~ met /\ ~ broken
    BY <1>2, EditAlone, OrderStays
         DEF InSequence, ShiftAway, CreateInserted, ShiftBack, AppendTopics
  <2>2. /\ \A t \in TopicIds : order[t] \in Nat
        /\ editor[e].before \in Nat /\ editor[e].before >= 1
        /\ editor[e].before <= Len(Levels) + 1
        /\ editor[e].count \in Nat /\ editor[e].count <= MaxInsert
        /\ Len(Levels) \in Nat /\ MaxInsert \in Nat
        /\ TempShift \in Nat /\ TempShift > Len(Levels) + MaxInsert
    BY Numbers, Shift
  <2>3. Topics \subseteq TopicIds
    BY DEF Topics
  <2>4. Count \in Nat /\ Count >= Len(Levels)
    BY <2>1, <2>3, TopicsFinite DEF Count, Dense
  <2>5. Gap(e)
    BY <2>1 DEF Dense
  <2>6. ASSUME editor[e].pc \notin {"create", "shift back"},
               \A f \in Editors : f # e => editor[f].pc = "idle"
        PROVE  Orders = 1 .. Count
    BY <2>1, <2>6 DEF Dense
  <2>7. ASSUME \A f \in Editors : f # e => editor'[f].pc = "idle",
               Count' >= Len(Levels), Gap(e)',
               editor'[e].pc \notin {"create", "shift back"} => Orders' = 1 .. Count'
        PROVE  /\ Count' >= Len(Levels)
               /\ (\A f \in Editors : editor'[f].pc \notin {"create", "shift back"})
                    => Orders' = 1 .. Count'
               /\ \A f \in Editors : Gap(f)'
    <3>1. \A f \in Editors : f # e => Gap(f)'
      BY <2>7 DEF Gap
    <3>2. QED
      BY <2>7, <3>1
  <2>8. \/ editor' = editor /\ order' = order
        \/ \A f \in Editors : f # e => editor[f].pc = "idle" /\ editor'[f].pc = "idle"
    BY <1>2, EditAlone DEF InSequence
  <2>9. CASE editor' = editor /\ order' = order
    BY <1>1, <2>1, <2>9 DEF Dense
  <2>10. SUFFICES ASSUME \A f \in Editors : f # e => editor[f].pc = "idle"
                                                      /\ editor'[f].pc = "idle"
                  PROVE  /\ Count' >= Len(Levels) /\ Gap(e)'
                         /\ editor'[e].pc \notin {"create", "shift back"}
                              => Orders' = 1 .. Count'
    BY <2>7, <2>8, <2>9
  <2>11. CASE ShiftAway(e)
    <3>1. Goto(e, "create") /\ editor[e].pc = "shift"
      BY <2>11 DEF ShiftAway, At
    <3>2. editor'[e].pc = "create" /\ editor'[e].before = editor[e].before
      BY <3>1, GotoEditor DEF EditorPcs, Early, Continues
    <3>3. /\ Topics' = Topics
          /\ \A t \in Topics :
               /\ order[t] >= editor[e].before => order'[t] = order[t] + TempShift
               /\ order[t] < editor[e].before => order'[t] = order[t]
      BY <2>11, ShiftsAway
    <3>4. Orders = 1 .. Count
      BY <2>6, <2>10, <3>1
    <3>5. Orders' = (1 .. editor[e].before - 1)
                      \cup (TempShift + editor[e].before .. TempShift + Count)
      <4>1. editor[e].before <= Count + 1
        BY <2>2, <2>4
      <4>2. QED
        BY <2>2, <2>4, <3>3, <3>4, <4>1, ShiftedOrders
    <3>6. Count' = Count
      BY <3>3 DEF Count
    <3>7. QED
      BY <2>4, <3>2, <3>5, <3>6 DEF Gap
  <2>12. CASE CreateInserted(e)
    <3> DEFINE ids == NewIds(editor[e].count)
               places == editor[e].before .. editor[e].before + editor[e].count - 1
    <3>1. /\ Topics' = Topics \cup ids
          /\ Count' = Count + editor[e].count
          /\ \A t \in Topics : order'[t] = order[t]
          /\ \A t \in ids : order'[t] \in places
          /\ \A k \in places : \E t \in ids : order'[t] = k
      BY <2>12, CreatesInserted DEF Count
    <3>2. /\ editor'[e].pc = "shift back" /\ editor'[e].before = editor[e].before
          /\ editor'[e].count = editor[e].count
      BY <2>12, CreateEditor
    <3>3. editor[e].pc = "create"
      BY <2>12 DEF CreateInserted, At
    <3> HIDE DEF ids
    <3>4. Orders' = Orders \cup places
      <4> HIDE DEF places
      <4>1. QED
        BY <3>1, AddedOrders
    <3>5. Orders' = (1 .. editor[e].before + editor[e].count - 1)
                      \cup (TempShift + editor[e].before .. TempShift + Count)
      <4>1. Orders = (1 .. editor[e].before - 1)
                       \cup (TempShift + editor[e].before .. TempShift + Count)
        BY <2>5, <3>3 DEF Gap
      <4>2. (1 .. editor[e].before - 1) \cup places
              = 1 .. editor[e].before + editor[e].count - 1
        BY <2>2
      <4> HIDE DEF places
      <4>3. QED
        BY <3>4, <4>1, <4>2
    <3>6. TempShift + Count' - editor[e].count = TempShift + Count
      BY <2>2, <2>4, <3>1
    <3>7. Count' >= Len(Levels) + editor[e].count /\ Count' >= Len(Levels)
      BY <2>2, <2>4, <3>1
    <3>8. QED
      BY <3>2, <3>5, <3>6, <3>7 DEF Gap
  <2>13. CASE ShiftBack(e)
    <3>1. Goto(e, "read past") /\ editor[e].pc = "shift back"
      BY <2>13 DEF ShiftBack, At
    <3>2. editor'[e].pc = "read past"
      BY <3>1, GotoEditor DEF EditorPcs, Early, Continues
    <3>3. /\ Topics' = Topics
          /\ \A t \in Topics :
               /\ order[t] >= TempShift =>
                    order'[t] = order[t] + editor[e].count - TempShift
               /\ order[t] < TempShift => order'[t] = order[t]
      BY <2>13, ShiftsBack
    <3>4. /\ Count >= Len(Levels) + editor[e].count
          /\ Orders = (1 .. editor[e].before + editor[e].count - 1)
                        \cup (TempShift + editor[e].before
                                .. TempShift + Count - editor[e].count)
      BY <2>5, <3>1 DEF Gap
    <3>5. Orders' = 1 .. Count
      <4>1. /\ editor[e].before + editor[e].count - 1 <= Count
            /\ editor[e].before + editor[e].count - 1 < TempShift
        BY <2>2, <2>4, <3>4
      <4>2. QED
        BY <2>2, <2>3, <2>4, <3>3, <3>4, <4>1, ReturnedOrders
    <3>6. Count' = Count
      BY <3>3 DEF Count
    <3>7. QED
      BY <2>4, <3>2, <3>5, <3>6 DEF Gap
  <2>14. CASE AppendTopics(e)
    <3> DEFINE ids == NewIds(editor[e].count)
               places == editor[e].last + 1 .. editor[e].last + 1 + editor[e].count - 1
    <3>1. /\ Topics' = Topics \cup ids
          /\ Count' = Count + editor[e].count
          /\ \A t \in Topics : order'[t] = order[t]
          /\ \A t \in ids : order'[t] \in places
          /\ \A k \in places : \E t \in ids : order'[t] = k
      BY <2>14, Appends DEF Count
    <3>2. editor'[e].pc = "idle" /\ editor[e].pc = "append"
      BY <2>14, RestEditor DEF AppendTopics, At
    <3> HIDE DEF ids
    <3>3. Orders' = Orders \cup places
      <4> HIDE DEF places
      <4>1. QED
        BY <3>1, AddedOrders
    <3>4. Orders = 1 .. Count /\ editor[e].last = Count
      BY <2>5, <2>6, <2>10, <3>2 DEF Gap
    <3>5. Orders' = 1 .. Count'
      BY <2>2, <2>4, <3>1, <3>3, <3>4
    <3>6. Count' >= Len(Levels)
      BY <2>2, <2>4, <3>1
    <3>7. QED
      BY <3>2, <3>5, <3>6 DEF Gap
  <2>15. CASE /\ ~ ShiftAway(e) /\ ~ CreateInserted(e) /\ ~ ShiftBack(e)
              /\ ~ AppendTopics(e) /\ editor' # editor
    <3>1. /\ order' = order
          /\ editor'[e].pc \notin {"create", "shift back"}
          /\ editor'[e].pc = "append" => editor'[e].last = LastOrder
          /\ editor[e].pc \notin {"create", "shift back"}
      BY <1>2, <2>15, OrderStays
    <3>2. Topics' = Topics
      BY <3>1, SameOrder
    <3>3. Orders' = Orders /\ Count' = Count
      BY <3>1, <3>2 DEF Orders, Count
    <3>4. Orders = 1 .. Count /\ LastOrder = Count
      BY <2>6, <2>10, <3>1, LastIsCount
    <3>5. QED
      BY <2>4, <3>1, <3>3, <3>4 DEF Gap
  <2>16. CASE /\ ~ ShiftAway(e) /\ ~ CreateInserted(e) /\ ~ ShiftBack(e)
              /\ ~ AppendTopics(e) /\ editor' = editor
    <3>1. order' = order
      BY <1>2, <2>16, OrderStays
    <3>2. \A f \in Editors : f # e => editor'[f].pc \notin {"create", "shift back"}
      BY <2>10
    <3>3. QED
      BY <2>9, <2>16, <3>1, <3>2
  <2>17. QED
    BY <2>11, <2>12, <2>13, <2>14, <2>15, <2>16
<1>3. CASE UNCHANGED vars
  BY <1>1, <1>3 DEF vars
<1>4. CASE \E u \in Users : CheckLevel(u) \/ \E t \in TopicIds : Study(u, t)
  BY <1>1, <1>4, LearnerType
<1>5. QED
  BY <1>2, <1>3, <1>4 DEF Next

LEMMA DenseFirst == Init => Dense
<1> SUFFICES ASSUME Init PROVE Dense
  OBVIOUS
<1>1. \A e \in Editors : editor[e].pc = "idle"
  BY RestingType DEF Init
<1>2. Topics = 1 .. Len(Levels) /\ Len(Levels) \in Nat
  BY Bounds DEF Init, Topics, TopicIds, Absent
<1>3. Orders = 1 .. Len(Levels)
  <2>1. \A t \in Topics : order[t] = t
    BY <1>2 DEF Init, Topics
  <2>2. Orders = {t : t \in Topics}
    BY <2>1 DEF Orders
  <2>3. QED
    BY <1>2, <2>2
<1>4. Count = Len(Levels)
  <2>1. Cardinality(1 .. Len(Levels))
          = IF 1 > Len(Levels) THEN 0 ELSE Len(Levels) - 1 + 1
    BY <1>2, FS_Interval
  <2>2. QED
    BY <1>2, <2>1 DEF Count
<1>5. \A e \in Editors : Gap(e)
  BY <1>1 DEF Gap
<1>6. Count >= Len(Levels) /\ Orders = 1 .. Count
  BY <1>2, <1>3, <1>4
<1>7. QED
  BY <1>5, <1>6 DEF Dense

\* After any number of edits, one at a time and none broken off, the orders are
\* 1, 2, 3, ...: an edit closes the gaps it makes, wherever it inserts and
\* however many topics.
THEOREM OrdersStayDense == Spec => []OrdersAreDense
<1>1. Typed /\ InSequence /\ Dense /\ [Next]_vars => Dense'
  BY DenseStep
<1>2. Dense => OrdersAreDense
  BY DEF Dense, OrdersAreDense, Orders, Count
<1>3. QED
  BY <1>1, <1>2, DenseFirst, AlwaysInSequence, PTL DEF Spec

-----------------------------------------------------------------------------
(* A bonus is deserved *)

\* u has passed x, or one after it.
PastOrder(u, n) == \E x \in Topics : Passed(u, x) /\ order[x] >= n

DeservesBonus(u, t) ==
  t \in Topics /\ first[t] \in Topics /\ PastOrder(u, order[first[t]])

\* The first topic of an insertion stands where it was asked for, while the edit
\* gives its bonus, and the learners it has read are past it.
Placed(e) ==
  /\ editor[e].pc \in {"shift back", "read past", "read rows", "mark rows", "add rows"} =>
       \A t \in editor[e].created :
         t \in Topics /\ first[t] \in Topics /\ order[first[t]] = editor[e].before
  /\ editor[e].pc \in {"read rows", "mark rows", "add rows"} =>
       \A u \in editor[e].past : PastOrder(u, editor[e].before)

Deserved ==
  ~ met => /\ \A u \in Users, t \in TopicIds : bonus[u][t] => DeservesBonus(u, t)
           /\ \A e \in Editors : Placed(e)

PassesStay == \A u \in Users, t \in TopicIds : Passed(u, t) => Passed(u, t)'

\* Topics that keep their sequence keep who is past whom.
LEMMA StillDeserves ==
  ASSUME Typed, Typed', Unique, Keeps, PassesStay,
         NEW u \in Users, NEW t \in TopicIds, first'[t] = first[t], DeservesBonus(u, t)
  PROVE  DeservesBonus(u, t)'
<1> DEFINE f == first[t]
<1>1. Topics \subseteq TopicIds /\ Topics \subseteq Topics' /\ t \in Topics /\ f \in Topics
  BY DEF Topics, DeservesBonus, Keeps
<1>2. PICK x \in Topics : Passed(u, x) /\ order[x] >= order[f]
  BY DEF DeservesBonus, PastOrder
<1>3. Passed(u, x)'
  BY <1>1, <1>2 DEF PassesStay
<1>4. order[x] \in Nat /\ order[f] \in Nat /\ order'[x] \in Nat /\ order'[f] \in Nat
  <2>1. x \in TopicIds /\ f \in TopicIds
    BY <1>1, <1>2
  <2>2. QED
    BY <2>1, Numbers, Shift DEF Typed
<1>5. order'[x] >= order'[f]
  <2>1. CASE order[x] = order[f]
    BY <1>1, <1>4, <2>1 DEF Unique
  <2>2. CASE order[f] < order[x]
    BY <1>1, <1>4, <2>2 DEF Keeps
  <2>3. QED
    BY <1>2, <1>4, <2>1, <2>2
<1>6. QED
  BY <1>1, <1>3, <1>5 DEF DeservesBonus, PastOrder

\* Statements that only read, and learners, keep what an edit relies on.
LEMMA StillPlaced ==
  ASSUME Typed, order' = order, first' = first, PassesStay, NEW e \in Editors, Placed(e),
         editor'[e] = editor[e]
           \/ \E pc \in EditorPcs : Continues(e, pc) /\ editor[e].pc = "mark rows"
  PROVE  Placed(e)'
<1>1. Topics' = Topics /\ Topics \subseteq TopicIds
  BY SameOrder DEF Topics
<1>2. \A u \in Users, n \in Nat : PastOrder(u, n) => PastOrder(u, n)'
  BY <1>1 DEF PastOrder, PassesStay
<1>3. /\ editor'[e].before = editor[e].before /\ editor'[e].created = editor[e].created
      /\ editor'[e].past = editor[e].past
      /\ editor'[e].pc = editor[e].pc \/ editor[e].pc = "mark rows"
  BY DEF Continues
<1>4. editor[e].before \in Nat /\ editor[e].past \subseteq Users
  BY Numbers DEF EditorState
<1>5. editor'[e].pc \in {"shift back", "read past", "read rows", "mark rows", "add rows"} =>
        \A t \in editor[e].created :
          t \in Topics /\ first[t] \in Topics /\ order[first[t]] = editor[e].before
  BY <1>3 DEF Placed
<1>6. editor'[e].pc \in {"read rows", "mark rows", "add rows"} =>
        \A u \in editor[e].past : PastOrder(u, editor[e].before)'
  <2>1. editor'[e].pc \in {"read rows", "mark rows", "add rows"} =>
          \A u \in editor[e].past : PastOrder(u, editor[e].before)
    BY <1>3 DEF Placed
  <2>2. QED
    BY <1>2, <1>3, <1>4, <2>1 DEF PastOrder
<1>7. QED
  <2>1. \A t \in editor[e].created :
          t \in Topics /\ first[t] \in Topics /\ order[first[t]] = editor[e].before
            => /\ t \in Topics' /\ first'[t] \in Topics'
               /\ order'[first'[t]] = editor'[e].before
    BY <1>1, <1>3
  <2>2. QED
    BY <1>3, <1>5, <1>6, <2>1 DEF Placed

\* The rows an edit marks or adds are deserved.
LEMMA BonusGiven ==
  ASSUME Typed, NEW e \in Editors, Placed(e), MarkRows(e) \/ AddRows(e),
         NEW u \in Users, NEW t \in TopicIds, bonus'[u][t]
  PROVE  bonus[u][t] \/ DeservesBonus(u, t)
<1>1. editor[e].pc \in {"mark rows", "add rows"}
  BY DEF MarkRows, AddRows, At
<1>2. bonus[u][t] \/ <<u, t>> \in editor[e].past \X editor[e].created
  BY RowsType
<1>3. ASSUME u \in editor[e].past, t \in editor[e].created
      PROVE  DeservesBonus(u, t)
  BY <1>1, <1>3 DEF Placed, DeservesBonus
<1>4. QED
  BY <1>2, <1>3

LEMMA DeservedStep ==
  ASSUME Typed, Typed', InSequence, ~ met' => Keeps, Deserved, [Next]_vars
  PROVE  Deserved'
<1> SUFFICES ASSUME ~ met'
             PROVE  /\ \A u \in Users, t \in TopicIds : bonus'[u][t] => DeservesBonus(u, t)'
                    /\ \A e \in Editors : Placed(e)'
  BY DEF Deserved
<1>1. ASSUME ~ met, PassesStay, \A t \in Topics : first'[t] = first[t],
             NEW u \in Users, NEW t \in TopicIds, bonus[u][t] \/ DeservesBonus(u, t)
      PROVE  DeservesBonus(u, t)'
  <2>1. DeservesBonus(u, t)
    BY <1>1 DEF Deserved
  <2>2. first'[t] = first[t]
    BY <1>1, <2>1 DEF DeservesBonus
  <2>3. QED
    BY <1>1, <2>1, <2>2, StillDeserves DEF InSequence
<1>2. ASSUME ~ met, UNCHANGED <<order, first, bonus, editor>>, PassesStay
      PROVE  /\ \A u \in Users, t \in TopicIds : bonus'[u][t] => DeservesBonus(u, t)'
             /\ \A e \in Editors : Placed(e)'
  <2>1. \A e \in Editors : Placed(e)'
    BY <1>2, StillPlaced DEF Deserved
  <2>2. QED
    BY <1>1, <1>2, <2>1
<1>3. ASSUME NEW e \in Editors, EditStep(e)
      PROVE  /\ \A u \in Users, t \in TopicIds : bonus'[u][t] => DeservesBonus(u, t)'
             /\ \A f \in Editors : Placed(f)'
  <2>1. /\ ~ met
        /\ \/ editor' = editor /\ order' = order
           \/ \A f \in Editors : f # e => editor[f].pc = "idle" /\ editor'[f].pc = "idle"
    BY <1>3, EditAlone DEF InSequence
  <2>2. Placed(e) /\ InSequence /\ Topics \subseteq TopicIds
    BY <2>1 DEF Deserved, Topics
  <2>3. /\ \A t \in TopicIds : order[t] \in Nat
        /\ editor[e].pc # "idle" => editor[e].before < TempShift
        /\ editor[e].created \subseteq TopicIds
    <3>1. /\ editor[e].before \in Nat /\ editor[e].before <= Len(Levels) + 1
          /\ editor[e].pc # "idle" => editor[e].count >= 1
          /\ editor[e].count \in Nat /\ editor[e].count <= MaxInsert
          /\ Len(Levels) \in Nat /\ MaxInsert \in Nat
          /\ TempShift \in Nat /\ TempShift > Len(Levels) + MaxInsert
      BY Numbers, Shift
    <3>2. editor[e].pc # "idle" => editor[e].before < TempShift
      BY <3>1
    <3>3. QED
      BY <3>2, Numbers
  <2>4. CASE \E t \in TopicIds, lv \in EditLevels : UpdateTopic(e, t, lv)
    <3>1. UNCHANGED <<order, first, bonus, editor, progress>>
      BY <2>4 DEF UpdateTopic, learnerVars
    <3>2. PassesStay
      BY <3>1 DEF PassesStay, Passed
    <3>3. QED
      BY <1>2, <2>1, <3>1, <3>2
  <2>5. ASSUME bonus' = bonus, PassesStay, \A t \in Topics : first'[t] = first[t],
               Placed(e)', \A f \in Editors : f # e => editor'[f].pc = "idle"
        PROVE  /\ \A u \in Users, t \in TopicIds : bonus'[u][t] => DeservesBonus(u, t)'
               /\ \A f \in Editors : Placed(f)'
    <3>1. \A f \in Editors : f # e => Placed(f)'
      BY <2>5 DEF Placed
    <3>2. QED
      BY <1>1, <2>1, <2>5, <3>1
  <2>6. ASSUME editor[e].pc # "idle" \/ editor'[e].pc # "idle",
               editor'[e] # editor[e]
        PROVE  \A f \in Editors : f # e => editor'[f].pc = "idle"
    BY <2>1, <2>6
  <2>7. ASSUME UNCHANGED learnerVars
        PROVE  PassesStay /\ bonus' = bonus
    BY <2>7 DEF learnerVars, PassesStay, Passed
  <2>8. CASE ShiftAway(e)
    <3>1. Goto(e, "create") /\ editor[e].pc = "shift" /\ UNCHANGED <<learnerVars, first>>
      BY <2>8 DEF ShiftAway, At
    <3>2. editor'[e].pc = "create"
      BY <3>1, GotoEditor DEF EditorPcs, Early, Continues
    <3>3. QED
      BY <2>5, <2>6, <2>7, <3>1, <3>2 DEF Placed
  <2>9. CASE CreateInserted(e)
    <3> DEFINE ids == NewIds(editor[e].count)
    <3>1. /\ UNCHANGED learnerVars /\ editor[e].pc = "create"
          /\ first' = [t \in TopicIds |-> IF t \in ids THEN Min(ids) ELSE first[t]]
      BY <2>9 DEF CreateInserted, At
    <3>2. /\ ids \subseteq TopicIds /\ ids \cap Topics = {} /\ Topics' = Topics \cup ids
          /\ Min(ids) \in ids /\ order'[Min(ids)] = editor[e].before
      BY <2>9, CreatesInserted
    <3>3. /\ editor'[e].pc = "shift back" /\ editor'[e].before = editor[e].before
          /\ editor'[e].created = ids
      BY <2>9, CreateEditor
    <3> HIDE DEF ids
    <3>4. /\ \A t \in ids : first'[t] = Min(ids)
          /\ \A t \in Topics : first'[t] = first[t]
      BY <2>2, <3>1, <3>2
    <3>5. Placed(e)'
      BY <3>2, <3>3, <3>4 DEF Placed
    <3>6. QED
      BY <2>5, <2>6, <2>7, <3>1, <3>3, <3>4, <3>5
  <2>10. CASE ShiftBack(e)
    <3>1. /\ Goto(e, "read past") /\ editor[e].pc = "shift back"
          /\ UNCHANGED <<learnerVars, first>>
      BY <2>10 DEF ShiftBack, At
    <3>2. /\ editor'[e].pc = "read past" /\ editor'[e].before = editor[e].before
          /\ editor'[e].created = editor[e].created
      BY <3>1, GotoEditor DEF EditorPcs, Early, Continues
    <3>3. /\ Topics' = Topics
          /\ \A t \in Topics : order[t] < TempShift => order'[t] = order[t]
      BY <2>10, ShiftsBack
    <3>4. \A t \in editor[e].created :
            t \in Topics /\ first[t] \in Topics /\ order[first[t]] = editor[e].before
      BY <2>2, <3>1 DEF Placed
    <3>5. \A t \in editor[e].created : order'[first[t]] = editor[e].before
      <4>1. editor[e].before < TempShift
        BY <2>3, <3>1
      <4>2. QED
        BY <3>3, <3>4, <4>1
    <3>6. Placed(e)'
      BY <3>1, <3>2, <3>3, <3>4, <3>5 DEF Placed
    <3>7. QED
      BY <2>5, <2>6, <2>7, <3>1, <3>2, <3>6
  <2>11. CASE ReadPast(e)
    <3>1. /\ UNCHANGED <<order, first, learnerVars>> /\ editor[e].pc = "read past"
      BY <2>11 DEF ReadPast, At
    <3>2. /\ editor'[e].pc = "read rows" /\ editor'[e].before = editor[e].before
          /\ editor'[e].created = editor[e].created /\ editor'[e].past = PastLearners(e)
      BY <2>11, ReadPastEditor
    <3>3. Topics' = Topics
      BY <3>1, SameOrder
    <3>4. \A u \in PastLearners(e) : PastOrder(u, editor[e].before)
      BY DEF PastLearners, FromOrder, PastOrder, Passed, PassedStatuses
    <3>5. \A u \in PastLearners(e) :
            \E x \in Topics : Passed(u, x)' /\ order'[x] >= editor[e].before
      BY <3>1, <3>4 DEF PastOrder, Passed, learnerVars
    <3>6. \A t \in editor[e].created :
            t \in Topics /\ first[t] \in Topics /\ order[first[t]] = editor[e].before
      BY <2>2, <3>1 DEF Placed
    <3>7. Placed(e)'
      BY <3>1, <3>2, <3>3, <3>5, <3>6 DEF Placed, PastOrder
    <3>8. QED
      BY <2>5, <2>6, <2>7, <3>1, <3>2, <3>7
  <2>12. CASE ReadRows(e)
    <3>1. /\ UNCHANGED <<order, first, learnerVars>> /\ editor[e].pc = "read rows"
      BY <2>12 DEF ReadRows, At
    <3>2. /\ editor'[e].pc = "mark rows" /\ editor'[e].before = editor[e].before
          /\ editor'[e].created = editor[e].created /\ editor'[e].past = editor[e].past
      BY <2>12, ReadRowsEditor
    <3>3. Topics' = Topics
      BY <3>1, SameOrder
    <3>4. \A u \in editor[e].past :
            \E x \in Topics : Passed(u, x)' /\ order'[x] >= editor[e].before
      BY <2>2, <3>1 DEF Placed, PastOrder, Passed, learnerVars
    <3>5. \A t \in editor[e].created :
            t \in Topics /\ first[t] \in Topics /\ order[first[t]] = editor[e].before
      BY <2>2, <3>1 DEF Placed
    <3>6. Placed(e)'
      BY <3>1, <3>2, <3>3, <3>4, <3>5 DEF Placed, PastOrder
    <3>7. QED
      BY <2>5, <2>6, <2>7, <3>1, <3>2, <3>6
  <2>13. CASE MarkRows(e) \/ AddRows(e)
    <3>1. PassesStay /\ UNCHANGED <<order, first>>
      BY <2>13, RowsType DEF PassesStay, MarkRows, AddRows
    <3>2. \A u \in Users, t \in TopicIds : bonus'[u][t] => DeservesBonus(u, t)'
      BY <1>1, <2>1, <2>2, <2>13, <3>1, BonusGiven
    <3>3. Placed(e)' /\ editor[e].pc # "idle" /\ editor'[e].pc # editor[e].pc
      <4>1. CASE MarkRows(e)
        <5>1. Goto(e, "add rows") /\ editor[e].pc = "mark rows"
          BY <4>1 DEF MarkRows, At
        <5>2. Continues(e, "add rows")
          BY <5>1, GotoEditor DEF EditorPcs, Early
        <5>3. Placed(e)'
          BY <2>2, <3>1, <5>1, <5>2, StillPlaced DEF EditorPcs
        <5>4. QED
          BY <5>1, <5>2, <5>3 DEF Continues
      <4>2. CASE AddRows(e)
        <5>1. editor'[e].pc = "idle" /\ editor[e].pc = "add rows"
          BY <4>2, RestEditor DEF AddRows, At
        <5>2. QED
          BY <5>1 DEF Placed
      <4>3. QED
        BY <2>13, <4>1, <4>2
    <3>4. \A f \in Editors : f # e => editor'[f].pc = "idle"
      BY <2>6, <3>3
    <3>5. QED
      BY <3>2, <3>3, <3>4 DEF Placed
  <2>14. CASE AppendTopics(e) \/ Fails(e)
    <3>1. /\ Rest(e) /\ editor[e].pc # "idle" /\ UNCHANGED <<learnerVars, first>>
      BY <2>14 DEF AppendTopics, Fails, At
    <3>2. editor'[e].pc = "idle"
      BY <3>1, RestEditor
    <3>3. QED
      BY <2>5, <2>6, <2>7, <3>1, <3>2 DEF Placed
  <2>15. ASSUME NEW n \in 1 .. MaxInsert, NEW lv \in EditLevels,
                (\E before \in 1 .. Len(Levels) + 1 : StartInsert(e, before, n, lv))
                  \/ StartAppend(e, n, lv)
         PROVE  /\ \A u \in Users, t \in TopicIds : bonus'[u][t] => DeservesBonus(u, t)'
                /\ \A f \in Editors : Placed(f)'
    <3>1. UNCHANGED <<learnerVars, first>> /\ editor[e].pc = "idle"
      BY <2>15 DEF StartInsert, StartAppend, At
    <3>2. editor'[e].pc \in {"shift", "append"}
      BY <2>15, StartEditor
    <3>3. QED
      BY <2>5, <2>6, <2>7, <3>1, <3>2 DEF Placed
  <2>16. QED
    BY <1>3, <2>4, <2>8, <2>9, <2>10, <2>11, <2>12, <2>13, <2>14, <2>15 DEF EditStep
<1>4. CASE UNCHANGED vars
  BY <1>2, <1>4 DEF vars, PassesStay, Passed
<1>5. CASE \E u \in Users : CheckLevel(u) \/ \E t \in TopicIds : Study(u, t)
  <2>1. UNCHANGED <<order, first, bonus, editor, met>> /\ PassesStay
    BY <1>5, LearnerType DEF PassesStay
  <2>2. QED
    BY <1>2, <2>1
<1>6. QED
  BY <1>3, <1>4, <1>5 DEF Next

LEMMA DeservedFirst == Init => Deserved
<1> SUFFICES ASSUME Init PROVE Deserved
  OBVIOUS
<1>1. \A e \in Editors : editor[e].pc = "idle"
  BY RestingType DEF Init
<1>2. \A u \in Users, t \in TopicIds : ~ bonus[u][t]
  BY DEF Init
<1>3. QED
  BY <1>1, <1>2 DEF Deserved, Placed

\* Who has a bonus has passed one of the topics inserted with it or a later one,
\* whatever learners do between the statements of the edit, wherever edits break
\* off, and wherever later ones move the topics.
THEOREM BonusesAreDeserved == Spec => []BonusIsDeserved
<1>1. Typed /\ Typed' /\ InSequence /\ Deserved /\ [Next]_vars => Deserved'
  BY DeservedStep, SequenceStep
<1>2. Typed /\ Deserved => BonusIsDeserved
  BY DEF Deserved, BonusIsDeserved, DeservesBonus, PastOrder, Topics
<1>3. QED
  BY <1>1, <1>2, DeservedFirst, AlwaysInSequence, PTL DEF Spec

-----------------------------------------------------------------------------
(* The pages agree *)

\* Some topic of a set is the first of it.
LEMMA FirstTopic ==
  ASSUME Typed, NEW S \in SUBSET Topics, S # {}
  PROVE  \E t \in S : \A x \in S : order[t] <= order[x]
<1> DEFINE N == {order[t] : t \in S}
<1>1. S \subseteq TopicIds
  BY DEF Topics
<1>2. N \in SUBSET Nat /\ N # {}
  BY <1>1, Numbers
<1>3. PICK k \in N : \A j \in N : k <= j
  <2> HIDE DEF N
  <2>1. QED
    BY <1>2, Least
<1>4. QED
  BY <1>3

\* The links to the next topic lead to a different topic each.
LEMMA NextTopics ==
  ASSUME Typed, Unique
  PROVE  Cardinality({NextTopic(t) : t \in Topics}) = Cardinality(Topics)
<1> DEFINE After(t) == {x \in Topics : order[x] > order[t]}
<1>1. Topics \subseteq TopicIds /\ \A t \in TopicIds : order[t] \in Nat
  BY Numbers DEF Topics
<1>2. \A t \in Topics : After(t) = {} => NextTopic(t) = Absent
  BY DEF NextTopic
<1>3. ASSUME NEW t \in Topics, After(t) # {}
      PROVE  /\ NextTopic(t) \in After(t) /\ NextTopic(t) # Absent
             /\ \A y \in After(t) : order[NextTopic(t)] <= order[y]
  <2>1. \E x \in After(t) : \A y \in After(t) : order[x] <= order[y]
    <3>1. After(t) \in SUBSET Topics
      OBVIOUS
    <3> HIDE DEF After
    <3>2. QED
      BY <1>3, <3>1, FirstTopic
  <2>2. NextTopic(t) = CHOOSE x \in After(t) : \A y \in After(t) : order[x] <= order[y]
    BY <1>3 DEF NextTopic
  <2>3. NextTopic(t) \in After(t) /\ \A y \in After(t) : order[NextTopic(t)] <= order[y]
    <3> HIDE DEF After
    <3>1. QED
      BY <2>1, <2>2
  <2>4. NextTopic(t) \in TopicIds
    BY <1>1, <2>3
  <2>5. NextTopic(t) # Absent
    BY <2>4, Bounds DEF TopicIds, Absent
  <2>6. QED
    BY <2>3, <2>5
<1>4. ASSUME NEW t \in Topics, NEW x \in Topics, order[t] < order[x]
      PROVE  NextTopic(t) # NextTopic(x)
  <2>1. x \in After(t)
    BY <1>1, <1>4
  <2>2. NextTopic(t) # Absent /\ order[NextTopic(t)] <= order[x] /\ NextTopic(t) \in Topics
    BY <1>3, <2>1
  <2>3. CASE After(x) = {}
    BY <1>2, <2>2, <2>3
  <2>4. CASE After(x) # {}
    <3>1. NextTopic(x) \in Topics /\ order[NextTopic(x)] > order[x]
      BY <1>3, <2>4
    <3>2. order[NextTopic(x)] \in Nat /\ order[NextTopic(t)] \in Nat /\ order[x] \in Nat
      BY <1>1, <2>2, <3>1
    <3>3. order[NextTopic(t)] # order[NextTopic(x)]
      BY <2>2, <3>1, <3>2
    <3>4. QED
      BY <3>3
  <2>5. QED
    BY <2>3, <2>4
<1>5. ASSUME NEW t \in Topics, NEW x \in Topics, NextTopic(t) = NextTopic(x)
      PROVE  t = x
  <2>1. ~ (order[t] < order[x]) /\ ~ (order[x] < order[t])
    BY <1>4, <1>5
  <2>2. order[t] = order[x]
    BY <1>1, <2>1
  <2>3. QED
    BY <2>2 DEF Unique
<1> DEFINE T == {NextTopic(t) : t \in Topics}
           f == [t \in Topics |-> NextTopic(t)]
<1>6. f \in [Topics -> T] /\ \A y \in T : \E t \in Topics : f[t] = y
  OBVIOUS
<1>7. \A t, x \in Topics : f[t] = f[x] => t = x
  BY <1>5
<1>8. IsFiniteSet(Topics)
  BY <1>1, TopicsFinite
<1> HIDE DEF T, f
<1>9. Cardinality(T) = Cardinality(Topics)
  BY <1>6, <1>7, <1>8, SameSize
<1>10. QED
  BY <1>9 DEF T

\* The rows of a learner's passed topics are as many as the topics.
LEMMA RowsOfTopics ==
  ASSUME Typed, NEW u \in Users
  PROVE  ListPassed(u) = Cardinality({t \in Topics : Passed(u, t)})
<1> DEFINE S == {t \in Topics : Passed(u, t)}
           T == {r \in Rows : r[1] = u /\ Passed(u, r[2])}
           f == [t \in S |-> <<u, t>>]
<1>1. \A t \in S : <<u, t>> \in T
  BY DEF Rows, Passed, PassedStatuses
<1>2. f \in [S -> T] /\ \A t, x \in S : f[t] = f[x] => t = x
  BY <1>1
<1>3. ASSUME NEW r \in T
      PROVE  \E t \in S : f[t] = r
  <2>1. r[2] \in S /\ r = <<u, r[2]>>
    BY <1>3 DEF Rows
  <2>2. QED
    BY <2>1
<1>4. IsFiniteSet(S)
  <2>1. S \subseteq TopicIds
    BY DEF Topics
  <2>2. QED
    BY <2>1, TopicsFinite
<1> HIDE DEF S, T, f
<1>5. Cardinality(T) = Cardinality(S)
  BY <1>2, <1>3, <1>4, SameSize
<1>6. QED
  BY <1>5 DEF ListPassed, T, S

\* Every topic has one of the three levels.
LEMMA LevelsAddUp ==
  ASSUME Typed, NEW S \in SUBSET Topics
  PROVE  Cardinality({t \in S : level[t] = 1}) + Cardinality({t \in S : level[t] = 2})
           + Cardinality({t \in S : level[t] = 3}) = Cardinality(S)
<1> DEFINE A == {t \in S : level[t] = 1}
           B == {t \in S : level[t] = 2}
           C == {t \in S : level[t] = 3}
<1>1. S \subseteq TopicIds
  BY DEF Topics
<1>2. \A t \in S : level[t] \in 1 .. 3
  BY <1>1 DEF Typed
<1>3. \A t \in S : level[t] = 1 \/ level[t] = 2 \/ level[t] = 3
  BY <1>2
<1>4. S = (A \cup B) \cup C /\ A \cap B = {} /\ (A \cup B) \cap C = {}
  BY <1>3
<1>5. A \subseteq TopicIds /\ B \subseteq TopicIds /\ C \subseteq TopicIds
  BY <1>1
<1> HIDE DEF A, B, C
<1>6. /\ IsFiniteSet(A) /\ IsFiniteSet(B) /\ IsFiniteSet(C)
      /\ Cardinality(A) \in Nat /\ Cardinality(B) \in Nat /\ Cardinality(C) \in Nat
  BY <1>5, TopicsFinite
<1>7. IsFiniteSet(A \cup B) /\ Cardinality(A \cup B) = Cardinality(A) + Cardinality(B)
  <2>1. /\ IsFiniteSet(A \cup B)
        /\ Cardinality(A \cup B) = Cardinality(A) + Cardinality(B) - Cardinality(A \cap B)
    BY <1>6, FS_Union
  <2>2. Cardinality(A \cap B) = 0
    BY <1>4, FS_EmptySet
  <2>3. QED
    BY <1>6, <2>1, <2>2
<1>8. Cardinality(S) = Cardinality(A \cup B) + Cardinality(C)
  <2>1. Cardinality((A \cup B) \cup C)
          = Cardinality(A \cup B) + Cardinality(C) - Cardinality((A \cup B) \cap C)
    BY <1>6, <1>7, FS_Union
  <2>2. Cardinality(S) = Cardinality(A \cup B) + Cardinality(C) - 0
    BY <1>4, <2>1, FS_EmptySet
  <2>3. QED
    BY <1>6, <1>7, <2>2
<1>9. Cardinality(A) + Cardinality(B) + Cardinality(C) = Cardinality(S)
  BY <1>6, <1>7, <1>8
<1>10. QED
  BY <1>9 DEF A, B, C

\* The current topic of the list is not passed, and unlocked.
LEMMA CurrentTopicOpen ==
  ASSUME Typed, NEW u \in Users, CurrentTopic(u) # Absent
  PROVE  /\ CurrentTopic(u) \in Topics /\ ~ Passed(u, CurrentTopic(u))
         /\ level[CurrentTopic(u)] <= unlocked[u]
<1> DEFINE open == {t \in Topics : level[t] <= unlocked[u] /\ ~ Excluded(u, t)}
<1>1. open # {}
  BY DEF CurrentTopic
<1>2. \E t \in open : \A x \in open : order[t] <= order[x]
  <2>1. open \in SUBSET Topics
    OBVIOUS
  <2> HIDE DEF open
  <2>2. QED
    BY <1>1, <2>1, FirstTopic
<1>3. CurrentTopic(u) = CHOOSE t \in open : \A x \in open : order[t] <= order[x]
  BY <1>1 DEF CurrentTopic
<1>4. CurrentTopic(u) \in open
  <2> HIDE DEF open
  <2>1. QED
    BY <1>2, <1>3
<1>5. \A t \in Topics : Passed(u, t) => Excluded(u, t)
  BY DEF Passed, PassedStatuses, Excluded
<1>6. QED
  BY <1>4, <1>5

\* A part of t things is all of them when it is 100 percent, and only then; the
\* percentage on floats is the whole-number one or one less.
LEMMA PercentOfAll ==
  ASSUME NEW t \in Nat \ {0}, NEW c \in 0 .. t
  PROVE  /\ (c * 100) \div t \in Nat
         /\ (c * 100) \div t = 100 <=> c = t
         /\ FloatPercent(c, t) \in {(c * 100) \div t, (c * 100) \div t - 1}
         /\ FloatPercent(c, t) = 100 <=> c = t
<1> DEFINE q == (c * 100) \div t
<1>1. q \in Int /\ c \in Nat /\ c <= t /\ t \in Nat /\ t > 0
  OBVIOUS
<1>2. q * t <= c * 100 /\ c * 100 < (q + 1) * t
  BY <1>1
<1>3. q >= 0
  BY <1>1, <1>2
<1>4. c = t => q = 100
  BY <1>1, <1>2
<1>5. q = 100 => c = t
  BY <1>1, <1>2
<1> HIDE DEF q
<1>6. FloatPercent(c, t) = IF q \in {29, 57, 58} /\ c * 100 = q * t THEN q - 1 ELSE q
  BY DEF FloatPercent, RoundedDown, q
<1>7. FloatPercent(c, t) \in {q, q - 1} /\ (FloatPercent(c, t) = 100 <=> q = 100)
  BY <1>1, <1>6
<1>8. QED
  BY <1>1, <1>3, <1>4, <1>5, <1>7 DEF q

LEMMA TypedPagesAgree ==
  ASSUME Typed, Unique
  PROVE  PagesAgree
<1> SUFFICES ASSUME NEW u \in Users
             PROVE  /\ ListEntry(u).percent \in {Detail(u).percent, Detail(u).percent - 1}
                    /\ \A percent \in {ListEntry(u).percent, Detail(u).percent} :
                         percent = 100 <=> Topics # {} /\ \A t \in Topics : Passed(u, t)
                    /\ LET shown(lv) == Detail(u).levels[lv].passed
                       IN  shown(1) + shown(2) + shown(3)
                             = Cardinality({t \in Topics : Passed(u, t)})
                    /\ Cardinality({NextTopic(t) : t \in Topics}) = Cardinality(Topics)
                    /\ LET current == ListEntry(u).current
                       IN  current # Absent =>
                             /\ ~ Passed(u, current)
                             /\ Detail(u).levels[level[current]].isUnlocked
  BY DEF PagesAgree
<1> DEFINE P == {t \in Topics : Passed(u, t)}
<1>1. Topics \subseteq TopicIds
  BY DEF Topics
<1>2. /\ ListEntry(u).percent \in {Detail(u).percent, Detail(u).percent - 1}
      /\ \A percent \in {ListEntry(u).percent, Detail(u).percent} :
           percent = 100 <=> Topics # {} /\ \A t \in Topics : Passed(u, t)
  <2> DEFINE total == Cardinality(Topics)
             passed == Cardinality(P)
  <2>1. /\ IsFiniteSet(Topics) /\ total \in Nat /\ (total = 0 <=> Topics = {})
    BY <1>1, TopicsFinite
  <2>2. passed \in 0 .. total /\ (passed = total => P = Topics)
    <3>1. P \subseteq Topics
      OBVIOUS
    <3> HIDE DEF P
    <3>2. passed \in Nat /\ passed <= total /\ (passed = total => P = Topics)
      BY <2>1, <3>1, FS_Subset, FS_CardinalityType
    <3>3. QED
      BY <2>1, <3>2
  <2>3. ListTotal = total /\ ListPassed(u) = passed
    BY RowsOfTopics DEF ListTotal
  <2>4. passed = total <=> \A t \in Topics : Passed(u, t)
    <3>1. (\A t \in Topics : Passed(u, t)) <=> P = Topics
      OBVIOUS
    <3>2. P = Topics => passed = total
      OBVIOUS
    <3>3. QED
      BY <2>2, <3>1, <3>2
  <2>5. /\ ListEntry(u).percent = IF total = 0 THEN 0 ELSE FloatPercent(passed, total)
        /\ Detail(u).percent = IF total = 0 THEN 0 ELSE (passed * 100) \div total
    BY <2>1, <2>3 DEF ListEntry, Detail
  <2> HIDE DEF total, passed
  <2>6. CASE total = 0
    BY <2>1, <2>5, <2>6
  <2>7. CASE total # 0
    <3>1. total \in Nat \ {0}
      BY <2>1, <2>7
    <3>2. /\ FloatPercent(passed, total)
               \in {(passed * 100) \div total, (passed * 100) \div total - 1}
          /\ (passed * 100) \div total = 100 <=> passed = total
          /\ FloatPercent(passed, total) = 100 <=> passed = total
      BY <2>2, <3>1, PercentOfAll
    <3>3. QED
      BY <2>1, <2>4, <2>5, <2>7, <3>2
  <2>8. QED
    BY <2>6, <2>7
<1>3. \A lv \in 1 .. 3 : /\ Detail(u).levels[lv].passed = Cardinality({t \in P : level[t] = lv})
                         /\ Detail(u).levels[lv].isUnlocked = (lv <= unlocked[u])
  <2> SUFFICES ASSUME NEW lv \in 1 .. 3
               PROVE  /\ Detail(u).levels[lv].passed = Cardinality({t \in P : level[t] = lv})
                      /\ Detail(u).levels[lv].isUnlocked = (lv <= unlocked[u])
    OBVIOUS
  <2>1. {t \in {x \in Topics : level[x] = lv} : Passed(u, t)} = {t \in P : level[t] = lv}
    OBVIOUS
  <2>2. Detail(u).levels[lv] = DetailLevel(u, lv)
    BY DEF Detail
  <2>3. /\ DetailLevel(u, lv).passed
             = Cardinality({t \in {x \in Topics : level[x] = lv} : Passed(u, t)})
        /\ DetailLevel(u, lv).isUnlocked = (lv <= unlocked[u])
    BY DEF DetailLevel
  <2>4. QED
    BY <2>1, <2>2, <2>3
<1>4. Cardinality({t \in P : level[t] = 1}) + Cardinality({t \in P : level[t] = 2})
        + Cardinality({t \in P : level[t] = 3}) = Cardinality(P)
  <2>1. P \in SUBSET Topics
    OBVIOUS
  <2> HIDE DEF P
  <2>2. QED
    BY <2>1, LevelsAddUp
<1>5. ASSUME ListEntry(u).current # Absent
      PROVE  /\ ~ Passed(u, ListEntry(u).current)
             /\ Detail(u).levels[level[ListEntry(u).current]].isUnlocked
  <2>1. ListEntry(u).current = CurrentTopic(u)
    BY DEF ListEntry
  <2>2. /\ CurrentTopic(u) \in Topics /\ ~ Passed(u, CurrentTopic(u))
        /\ level[CurrentTopic(u)] <= unlocked[u]
    BY <1>5, <2>1, CurrentTopicOpen
  <2>3. level[CurrentTopic(u)] \in 1 .. 3
    BY <1>1, <2>2 DEF Typed
  <2>4. QED
    BY <1>3, <2>1, <2>2, <2>3
<1>6. Cardinality({NextTopic(t) : t \in Topics}) = Cardinality(Topics)
  BY NextTopics
<1>7. QED
  BY <1>2, <1>3, <1>4, <1>5, <1>6

\* In every state, the middle of an edit included, the list of subjects and the
\* page of the subject show percentages at most one apart and never a wrong 100, every topic but the first is the
\* next one of another, and the current topic is unlocked and not passed.
THEOREM PagesAlwaysAgree == Spec => []PagesAgree
<1>1. Typed /\ InSequence => PagesAgree
  BY TypedPagesAgree DEF InSequence
<1>2. QED
  BY <1>1, AlwaysInSequence, PTL
=============================================================================
