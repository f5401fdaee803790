------------------------- MODULE QuizProgressProofs --------------------------
(***************************************************************************)
(* Quizzes, for any topics, any number of requests and checks, and any     *)
(* number of attempts: the types, what a pass rests on, that topics move   *)
(* as LevelProgress assumes, and that points are those of the attempts.    *)
(*                                                                         *)
(* The points of a subject are a sum over its topics, which the fold of    *)
(* the community modules gives; what that does to a set with one member    *)
(* less is proved by a least counterexample instead of by induction.  The  *)
(* section before the theorems is of learners who never have two requests  *)
(* for one topic under way (Separate): with two, a submission is counted   *)
(* twice.  What LevelProgressProofs proves of levels is taken over at the  *)
(* end.                                                                    *)
(***************************************************************************)
EXTENDS QuizProgress, SequenceTheorems, FiniteSetTheorems, WellFoundedInduction, TLAPS

\* A request that answers has its attempt before it.
Answering == {"save", "count", "read", "topic", "subject", "mark"}

\* What a request rests on: an advanced quiz on what was checked before the model
\* was asked, a submission on its attempt and on the answers it saved.
Rests(r) ==
  LET q == request[r] IN
  /\ q.pc \in {"asking", "create"} /\ q.kind = "ADVANCED" =>
       viewed[q.topic] /\ status[q.topic] # "NOT_STARTED"
  /\ q.pc \in Answering => q.number \in DOMAIN attempts[q.topic][q.kind]
  /\ q.pc \in Answering \ {"save"} =>
       \/ resubmitted
       \/ attempts[q.topic][q.kind][q.number] = IF q.passed THEN "passed" ELSE "failed"
  /\ q.pc \in Answering \ {"save", "count"} => q.passed

\* The inductive invariant.
QuizInv == TypeOK /\ PassIsRecorded /\ \A r \in Requests : Rests(r)

-----------------------------------------------------------------------------
(* Sums over a finite set *)

\* A set of numbers has a least.
LEMMA Least ==
  ASSUME NEW S \in SUBSET Nat, S # {}
  PROVE  \E x \in S : \A y \in S : x <= y
<1>1. PICK x \in S : \A y \in S : <<y, x>> \notin OpToRel(<, Nat)
  BY NatLessThanWellFounded, WFMin, Zenon
<1>2. \A y \in S : ~ (y < x)
  BY <1>1, Zenon DEF OpToRel
<1>3. QED
  BY <1>2

\* The sums of f over the sets of D, as the fold adds them up.
Pick(s) == CHOOSE x \in s : TRUE
Sums(g, f, D) ==
  g = [s \in D |-> IF s = {} THEN 0 ELSE f[Pick(s)] + g[s \ {Pick(s)}]]

\* The subsets of up to n elements.
UpTo(S, n) == {s \in SUBSET S : Cardinality(s) <= n}

\* Taking its pick from a set leaves one less.
LEMMA PickOne ==
  ASSUME NEW S, IsFiniteSet(S), NEW s \in SUBSET S, NEW x \in s
  PROVE  /\ IsFiniteSet(s) /\ Cardinality(s) \in Nat
         /\ s \ {x} \in SUBSET S /\ IsFiniteSet(s \ {x})
         /\ Cardinality(s) >= 1 /\ Cardinality(s \ {x}) = Cardinality(s) - 1
<1>1. IsFiniteSet(s)
  BY FS_Subset
<1>2. Cardinality(s) \in Nat /\ IsFiniteSet(s \ {x})
      /\ Cardinality(s \ {x}) = Cardinality(s) - 1 /\ Cardinality(s \ {x}) \in Nat
  BY <1>1, FS_CardinalityType, FS_RemoveElement
<1>3. QED
  BY <1>1, <1>2

LEMMA PickIn == \A s : s # {} => Pick(s) \in s
BY DEF Pick

\* The fold is well defined: there are such sums.
LEMMA SumsExist ==
  ASSUME NEW S, IsFiniteSet(S), NEW f
  PROVE  \E g : Sums(g, f, SUBSET S)
<1> DEFINE N == {n \in Nat : ~ \E g : Sums(g, f, UpTo(S, n))}
<1>1. ASSUME NEW n \in Nat, NEW g, Sums(g, f, UpTo(S, n))
      PROVE  \E h : Sums(h, f, UpTo(S, n + 1))
  <2> DEFINE h == [s \in UpTo(S, n + 1) |->
                     IF s = {} THEN 0 ELSE f[Pick(s)] + g[s \ {Pick(s)}]]
  <2>1. \A s \in UpTo(S, n) : s \in UpTo(S, n + 1)
    BY FS_CardinalityType, FS_Subset DEF UpTo
  <2>2. \A s \in UpTo(S, n) : h[s] = g[s]
    BY <1>1, <2>1 DEF Sums
  <2>3. ASSUME NEW s \in UpTo(S, n + 1), s # {}
        PROVE  s \ {Pick(s)} \in UpTo(S, n)
    BY <1>1, <2>3, PickOne, PickIn DEF UpTo
  <2>4. h = [s \in UpTo(S, n + 1) |->
               IF s = {} THEN 0 ELSE f[Pick(s)] + h[s \ {Pick(s)}]]
    <3>1. \A s \in UpTo(S, n + 1) : s # {} => h[s \ {Pick(s)}] = g[s \ {Pick(s)}]
      BY <2>2, <2>3
    <3> DEFINE k == [s \in UpTo(S, n + 1) |->
                       IF s = {} THEN 0 ELSE f[Pick(s)] + h[s \ {Pick(s)}]]
    <3>2. \A s \in UpTo(S, n + 1) : h[s] = k[s]
      BY <3>1
    <3>3. QED
      BY <3>2
  <2>5. QED
    BY <2>4 DEF Sums
<1>2. \E g : Sums(g, f, UpTo(S, 0))
  <2> DEFINE g == [s \in UpTo(S, 0) |-> 0]
  <2>1. \A s \in UpTo(S, 0) : s = {}
    BY FS_Subset, FS_EmptySet, FS_CardinalityType DEF UpTo
  <2>2. Sums(g, f, UpTo(S, 0))
    BY <2>1 DEF Sums
  <2>3. QED
    BY <2>2
<1>3. N = {}
  <2>1. SUFFICES ASSUME N # {} PROVE FALSE
    OBVIOUS
  <2>2. PICK m \in N : \A y \in N : m <= y
    BY <2>1, Least
  <2>3. m # 0
    BY <1>2, <2>2
  <2>4. m - 1 \in Nat /\ m - 1 \notin N /\ m = (m - 1) + 1
    BY <2>2, <2>3
  <2>5. PICK g : Sums(g, f, UpTo(S, m - 1))
    BY <2>4
  <2>6. \E h : Sums(h, f, UpTo(S, (m - 1) + 1))
    BY <1>1, <2>4, <2>5
  <2>7. QED
    BY <2>2, <2>4, <2>6
<1>4. Cardinality(S) \in Nat /\ UpTo(S, Cardinality(S)) = SUBSET S
  BY FS_CardinalityType, FS_Subset DEF UpTo
<1>5. PICK g : Sums(g, f, UpTo(S, Cardinality(S)))
  BY <1>3, <1>4
<1>6. Sums(g, f, SUBSET S)
  BY <1>4, <1>5
<1>7. QED
  BY <1>6

Numbered(f, S) == IsFiniteSet(S) /\ f \in [S -> Nat]

AddsUp(g, f, S) ==
  /\ g[{}] = 0
  /\ \A s \in SUBSET S : g[s] \in Nat /\ \A x \in s : g[s] = f[x] + g[s \ {x}]

\* A sum over a set is any of its terms and the sum of the others.
LEMMA SumsAdd ==
  ASSUME NEW S, NEW f, Numbered(f, S), NEW g, Sums(g, f, SUBSET S)
  PROVE  AddsUp(g, f, S)
<1>a. IsFiniteSet(S) /\ \A x \in S : f[x] \in Nat
  BY DEF Numbered
<1> DEFINE Good(s) == g[s] \in Nat /\ \A x \in s : g[s] = f[x] + g[s \ {x}]
           N == {n \in Nat : \E s \in SUBSET S : Cardinality(s) = n /\ ~ Good(s)}
<1>0. \A s \in SUBSET S : g[s] = IF s = {} THEN 0 ELSE f[Pick(s)] + g[s \ {Pick(s)}]
  BY DEF Sums
<1>1. ASSUME NEW s \in SUBSET S, \A t \in SUBSET S : Cardinality(t) < Cardinality(s) => Good(t)
      PROVE  Good(s)
  <2> DEFINE p == Pick(s)
  <2>1. \A x \in s : /\ s \ {x} \in SUBSET S /\ Good(s \ {x})
                     /\ f[x] \in Nat
    <3>1. SUFFICES ASSUME NEW x \in s
                   PROVE  s \ {x} \in SUBSET S /\ Good(s \ {x}) /\ f[x] \in Nat
      OBVIOUS
    <3>2. /\ Cardinality(s) \in Nat /\ Cardinality(s \ {x}) = Cardinality(s) - 1
          /\ s \ {x} \in SUBSET S
      BY <1>a, PickOne
    <3>3. Cardinality(s \ {x}) < Cardinality(s)
      BY <3>2
    <3> HIDE DEF Good
    <3>4. Good(s \ {x})
      BY <1>1, <3>2, <3>3
    <3>5. QED
      BY <1>a, <3>2, <3>4
  <2>2. CASE s = {}
    <3>1. g[s] = 0
      BY <1>0, <2>2
    <3>2. QED
      BY <2>2, <3>1
  <2>3. CASE s # {}
    <3>1. p \in s
      BY <2>3, PickIn
    <3>2. s \ {p} \in SUBSET S /\ g[s \ {p}] \in Nat
          /\ \A x \in s \ {p} : g[s \ {p}] = f[x] + g[(s \ {p}) \ {x}]
      BY <2>1, <3>1
    <3>3. g[s] = f[p] + g[s \ {p}]
      BY <1>0, <2>3
    <3>4. g[s] \in Nat
      BY <2>1, <3>1, <3>2, <3>3
    <3>5. ASSUME NEW x \in s, x # p
          PROVE  g[s] = f[x] + g[s \ {x}]
      <4>1. x \in s \ {p} /\ p \in s \ {x} /\ (s \ {p}) \ {x} = (s \ {x}) \ {p}
        BY <3>1, <3>5
      <4>2. g[s \ {p}] = f[x] + g[(s \ {p}) \ {x}]
        BY <3>2, <4>1
      <4>3. g[s \ {x}] = f[p] + g[(s \ {p}) \ {x}]
        BY <2>1, <4>1
      <4>4. g[(s \ {p}) \ {x}] \in Nat
        <5>1. (s \ {p}) \ {x} \in SUBSET S
          OBVIOUS
        <5>2. Cardinality((s \ {p}) \ {x}) < Cardinality(s)
          <6> DEFINE t == s \ {p}
          <6>1. Cardinality(s) \in Nat /\ Cardinality(t) = Cardinality(s) - 1
            BY <1>a, <3>1, PickOne
          <6>2. t \in SUBSET S /\ x \in t
            BY <4>1
          <6> HIDE DEF t
          <6>3. Cardinality(t) \in Nat /\ Cardinality(t \ {x}) = Cardinality(t) - 1
            BY <1>a, <6>2, PickOne
          <6>4. QED
            BY <6>1, <6>3 DEF t
        <5>3. QED
          BY <1>1, <5>1, <5>2
      <4>5. f[x] \in Nat /\ f[p] \in Nat
        BY <2>1, <3>1
      <4>6. QED
        BY <3>3, <4>2, <4>3, <4>4, <4>5
    <3>6. QED
      BY <3>3, <3>4, <3>5
  <2>4. QED
    BY <2>2, <2>3
<1>2. N = {}
  <2>1. SUFFICES ASSUME N # {} PROVE FALSE
    OBVIOUS
  <2>2. PICK m \in N : \A y \in N : m <= y
    BY <2>1, Least
  <2>3. PICK s \in SUBSET S : Cardinality(s) = m /\ ~ Good(s)
    BY <2>2
  <2>4. \A t \in SUBSET S : Cardinality(t) \in Nat
    BY <1>a, FS_Subset, FS_CardinalityType
  <2>5. \A t \in SUBSET S : Cardinality(t) < m => Good(t)
    BY <2>2, <2>4
  <2>6. Good(s)
    BY <1>1, <2>3, <2>5
  <2>7. QED
    BY <2>3, <2>6
<1>3. ASSUME NEW s \in SUBSET S PROVE Good(s)
  <2>1. SUFFICES ASSUME ~ Good(s) PROVE FALSE
    OBVIOUS
  <2>2. Cardinality(s) \in Nat
    BY <1>a, FS_Subset, FS_CardinalityType
  <2>3. QED
    BY <1>2, <2>1, <2>2
<1>4. g[{}] = 0
  BY <1>0
<1>5. QED
  BY <1>3, <1>4 DEF AddsUp

\* What a fold adds up.
LEMMA TotalIs ==
  ASSUME NEW S, NEW f, Numbered(f, S)
  PROVE  \E g : AddsUp(g, f, S) /\ Total(f) = g[S]
<1> DEFINE g == CHOOSE g : Sums(g, f, SUBSET S)
<1>1. Sums(g, f, SUBSET S)
  BY SumsExist DEF Numbered
<1>2. DOMAIN f = S
  BY DEF Numbered
<1>3. Total(f) = g[S]
  BY <1>2, Zenon DEF Total, FoldFunction, FoldFunctionOnSet, MapThenFoldSet, Sums, Pick
<1> HIDE DEF g
<1>4. AddsUp(g, f, S)
  BY <1>1, SumsAdd
<1>5. QED
  BY <1>3, <1>4

\* Totals are numbers, and nothing adds up to nothing.
LEMMA TotalType ==
  ASSUME NEW S, NEW f, Numbered(f, S)
  PROVE  /\ Total(f) \in Nat
         /\ (\A x \in S : f[x] = 0) => Total(f) = 0
<1>1. PICK g : AddsUp(g, f, S) /\ Total(f) = g[S]
  BY TotalIs
<1>2. /\ IsFiniteSet(S) /\ \A x \in S : f[x] \in Nat
  BY DEF Numbered
<1>3. \A s \in SUBSET S : g[s] \in Nat /\ \A x \in s : g[s] = f[x] + g[s \ {x}]
  BY <1>1 DEF AddsUp
<1> DEFINE N == {n \in Nat : \E s \in SUBSET S : Cardinality(s) = n /\ g[s] # 0}
<1>4. ASSUME \A x \in S : f[x] = 0 PROVE g[S] = 0
  <2>1. SUFFICES ASSUME g[S] # 0 PROVE FALSE
    OBVIOUS
  <2>2. \A s \in SUBSET S : Cardinality(s) \in Nat
    BY <1>2, FS_Subset, FS_CardinalityType
  <2>3. N # {}
    BY <2>1, <2>2
  <2>4. PICK m \in N : \A y \in N : m <= y
    BY <2>3, Least
  <2>5. PICK s \in SUBSET S : Cardinality(s) = m /\ g[s] # 0
    BY <2>4
  <2>6. s # {}
    BY <1>1, <2>5 DEF AddsUp
  <2>7. PICK x \in s : TRUE
    BY <2>6
  <2>8. g[s \ {x}] # 0
    <3>1. x \in S /\ s \ {x} \in SUBSET S
      OBVIOUS
    <3>2. g[s] = f[x] + g[s \ {x}] /\ f[x] = 0 /\ g[s \ {x}] \in Nat
      BY <1>3, <1>4, <3>1
    <3>3. QED
      BY <2>5, <3>2
  <2>9. s \ {x} \in SUBSET S /\ Cardinality(s \ {x}) = m - 1
    BY <1>2, <2>5, PickOne
  <2>10. m - 1 \in N
    BY <2>2, <2>8, <2>9
  <2>11. QED
    BY <2>4, <2>10
<1>5. QED
  BY <1>1, <1>3, <1>4

\* A change of one term changes the total by as much.
LEMMA TotalChange ==
  ASSUME NEW S, NEW f, Numbered(f, S), NEW h, Numbered(h, S), NEW x \in S,
         \A y \in S \ {x} : h[y] = f[y]
  PROVE  Total(h) + f[x] = Total(f) + h[x]
<1>1. PICK gf : AddsUp(gf, f, S) /\ Total(f) = gf[S]
  BY TotalIs
<1>2. PICK gh : AddsUp(gh, h, S) /\ Total(h) = gh[S]
  BY TotalIs
<1>3. IsFiniteSet(S) /\ (\A y \in S : f[y] \in Nat) /\ (\A y \in S : h[y] \in Nat)
  BY DEF Numbered
<1>4. \A s \in SUBSET S : gf[s] \in Nat /\ \A y \in s : gf[s] = f[y] + gf[s \ {y}]
  BY <1>1 DEF AddsUp
<1>5. \A s \in SUBSET S : gh[s] \in Nat /\ \A y \in s : gh[s] = h[y] + gh[s \ {y}]
  BY <1>2 DEF AddsUp
<1>6. gf[S \ {x}] = gh[S \ {x}]
  <2> DEFINE N == {n \in Nat : \E s \in SUBSET (S \ {x}) : Cardinality(s) = n /\ gf[s] # gh[s]}
  <2>1. SUFFICES ASSUME gf[S \ {x}] # gh[S \ {x}] PROVE FALSE
    OBVIOUS
  <2>2. \A s \in SUBSET S : Cardinality(s) \in Nat
    BY <1>3, FS_Subset, FS_CardinalityType
  <2>3. N # {}
    BY <2>1, <2>2
  <2>4. PICK m \in N : \A y \in N : m <= y
    BY <2>3, Least
  <2>5. PICK s \in SUBSET (S \ {x}) : Cardinality(s) = m /\ gf[s] # gh[s]
    BY <2>4
  <2>6. s # {}
    BY <1>1, <1>2, <2>5 DEF AddsUp
  <2>7. PICK y \in s : TRUE
    BY <2>6
  <2>8. s \in SUBSET S /\ s \ {y} \in SUBSET (S \ {x}) /\ f[y] = h[y]
    BY <2>5
  <2>9. gf[s \ {y}] # gh[s \ {y}]
    BY <1>4, <1>5, <2>5, <2>8
  <2>10. Cardinality(s \ {y}) = m - 1
    BY <1>3, <2>5, <2>8, PickOne
  <2>11. m - 1 \in N
    BY <2>2, <2>8, <2>9, <2>10
  <2>12. QED
    BY <2>4, <2>11
<1>7. gf[S] = f[x] + gf[S \ {x}] /\ gh[S] = h[x] + gh[S \ {x}] /\ gf[S \ {x}] \in Nat
  BY <1>4, <1>5
<1>8. QED
  BY <1>1, <1>2, <1>3, <1>6, <1>7

-----------------------------------------------------------------------------
(* Types *)

\* The topic of an idle request is some topic.
LEMMA IdleType == Idle \in RequestState /\ Idle.pc = "idle" /\ Idle.kind = "NORMAL"
<1>1. (CHOOSE t \in Topics : TRUE) \in Topics
  BY QuizParametersOK
<1>2. QED
  BY <1>1 DEF Idle, RequestState, PCs, Kinds, Ladder!TopicStatus

\* What the steps of a request do to its record.
LEMMA RecordSteps ==
  ASSUME request \in [Requests -> RequestState], NEW r \in Requests
  PROVE  /\ request[r] \in RequestState
         /\ \A p \in PCs : Go(r, p) => Become(r, [request[r] EXCEPT !.pc = p])
         /\ \A p \in PCs : /\ [request[r] EXCEPT !.pc = p] \in RequestState
                           /\ [request[r] EXCEPT !.pc = p].pc = p
                           /\ [request[r] EXCEPT !.pc = p].topic = request[r].topic
                           /\ [request[r] EXCEPT !.pc = p].kind = request[r].kind
                           /\ [request[r] EXCEPT !.pc = p].number = request[r].number
                           /\ [request[r] EXCEPT !.pc = p].passed = request[r].passed
         /\ Finish(r) => Become(r, Idle)
<1>1. request[r] \in RequestState
  OBVIOUS
<1>2. \A p \in PCs : /\ [request[r] EXCEPT !.pc = p] \in RequestState
                     /\ [request[r] EXCEPT !.pc = p].pc = p
                     /\ [request[r] EXCEPT !.pc = p].topic = request[r].topic
                     /\ [request[r] EXCEPT !.pc = p].kind = request[r].kind
                     /\ [request[r] EXCEPT !.pc = p].number = request[r].number
                     /\ [request[r] EXCEPT !.pc = p].passed = request[r].passed
  BY <1>1 DEF RequestState
<1>3. QED
  BY <1>1, <1>2 DEF Go, Finish

\* The attempts at a quiz are numbered from 1.
LEMMA AttemptTypes ==
  ASSUME TypeOK, NEW t \in Topics, NEW k \in Kinds
  PROVE  /\ attempts[t][k] \in Seq(Outcomes) /\ Len(attempts[t][k]) \in Nat
         /\ DOMAIN attempts[t][k] = 1 .. Len(attempts[t][k])
         /\ DOMAIN attempts[t][k] \subseteq Nat \ {0}
<1>1. attempts[t][k] \in Seq(Outcomes)
  BY DEF TypeOK
<1>2. Len(attempts[t][k]) \in Nat /\ DOMAIN attempts[t][k] = 1 .. Len(attempts[t][k])
  BY <1>1
<1>3. QED
  BY <1>1, <1>2

Serve(r) == GenerateQuiz(r) \/ SubmitQuiz(r) \/ Crash(r)

\* A step of r puts a record in the place of the one it had.
LEMMA RequestStep ==
  ASSUME TypeOK, NEW r \in Requests, Serve(r)
  PROVE  \E new \in RequestState : Become(r, new)
<1>1. /\ request \in [Requests -> RequestState] /\ request[r] \in RequestState
      /\ Idle \in RequestState
  BY IdleType DEF TypeOK
<1>2. Finish(r) => \E new \in RequestState : Become(r, new)
  BY <1>1 DEF Finish
<1>3. ASSUME NEW p \in PCs, Go(r, p)
      PROVE  \E new \in RequestState : Become(r, new)
  BY <1>1, <1>3, RecordSteps
<1>4. ASSUME NEW t \in Topics, NEW k \in Kinds, AskQuiz(r, t, k)
      PROVE  \E new \in RequestState : Become(r, new)
  <2>1. [Idle EXCEPT !.pc = "asking", !.topic = t, !.kind = k] \in RequestState
    BY <1>1 DEF RequestState, PCs
  <2>2. QED
    BY <1>4, <2>1 DEF AskQuiz
<1>5. ASSUME NEW t \in Topics, NEW k \in Kinds, NEW n \in DOMAIN attempts[t][k],
             NEW pass \in BOOLEAN, Submit(r, t, k, n, pass)
      PROVE  \E new \in RequestState : Become(r, new)
  <2>1. n \in Nat \ {0}
    BY AttemptTypes
  <2>2. [Idle EXCEPT !.pc = "save", !.topic = t, !.kind = k, !.number = n,
                     !.passed = pass] \in RequestState
    BY <1>1, <2>1 DEF RequestState, PCs
  <2>3. QED
    BY <1>5, <2>2 DEF Submit
<1>6. CASE TakeNumber(r)
  <2>1. request[r].topic \in Topics /\ request[r].kind \in Kinds
    BY <1>1 DEF RequestState
  <2> DEFINE n == Len(attempts[request[r].topic][request[r].kind]) + 1
  <2>2. n \in Nat \ {0}
    <3>1. Len(attempts[request[r].topic][request[r].kind]) \in Nat
      BY <2>1, AttemptTypes, Zenon
    <3>2. QED
      BY <3>1
  <2> HIDE DEF n
  <2>3. [request[r] EXCEPT !.pc = "create", !.number = n] \in RequestState
    BY <1>1, <2>2 DEF RequestState, PCs
  <2>4. QED
    BY <1>6, <2>3 DEF TakeNumber, n
<1>7. CASE ReadProgress(r)
  <2>1. status[request[r].topic] \in Ladder!TopicStatus
    BY <1>1 DEF RequestState, TypeOK, Ladder!TypeOK, Topics, Ladder!Topics
  <2>2. [request[r] EXCEPT !.pc = "topic", !.seen = status[request[r].topic]]
          \in RequestState
    BY <1>1, <2>1 DEF RequestState, PCs
  <2>3. QED
    BY <1>7, <2>2 DEF ReadProgress
<1>8. CASE NoQuiz(r) \/ CreateAttempt(r) \/ NumberTaken(r) \/ MarkPassed(r) \/ Crash(r)
  BY <1>2, <1>8 DEF NoQuiz, CreateAttempt, NumberTaken, MarkPassed, Crash
<1>9. CASE SaveAnswers(r) \/ CountTry(r) \/ EarnTopicPoints(r) \/ EarnSubjectPoints(r)
  BY <1>2, <1>3, <1>9 DEF SaveAnswers, CountTry, EarnTopicPoints, EarnSubjectPoints, PCs
<1>10. QED
  BY <1>4, <1>5, <1>6, <1>7, <1>8, <1>9 DEF Serve, GenerateQuiz, SubmitQuiz

-----------------------------------------------------------------------------
(* Attempts are appended, and answered in place *)

\* All of the attempts, with those of one quiz replaced.
Put(t, k, s) == [attempts EXCEPT ![t] = [attempts[t] EXCEPT ![k] = s]]

\* One quiz has new attempts, the others keep theirs.
LEMMA PutType ==
  ASSUME TypeOK, NEW t \in Topics, NEW k \in Kinds, NEW s \in Seq(Outcomes)
  PROVE  /\ Put(t, k, s) \in [Topics -> [Kinds -> Seq(Outcomes)]]
         /\ Put(t, k, s)[t][k] = s
         /\ \A u \in Topics, j \in Kinds :
              u # t \/ j # k => Put(t, k, s)[u][j] = attempts[u][j]
<1>1. attempts \in [Topics -> [Kinds -> Seq(Outcomes)]]
  BY DEF TypeOK
<1>2. /\ [attempts[t] EXCEPT ![k] = s] \in [Kinds -> Seq(Outcomes)]
      /\ [attempts[t] EXCEPT ![k] = s][k] = s
      /\ \A j \in Kinds : j # k => [attempts[t] EXCEPT ![k] = s][j] = attempts[t][j]
  BY <1>1
<1> DEFINE f == [attempts[t] EXCEPT ![k] = s]
<1> HIDE DEF f
<1>3. f \in [Kinds -> Seq(Outcomes)] /\ f[k] = s
      /\ \A j \in Kinds : j # k => f[j] = attempts[t][j]
  BY <1>2 DEF f
<1>4. /\ [attempts EXCEPT ![t] = f] \in [Topics -> [Kinds -> Seq(Outcomes)]]
      /\ [attempts EXCEPT ![t] = f][t] = f
      /\ \A u \in Topics : u # t => [attempts EXCEPT ![t] = f][u] = attempts[u]
  BY <1>1, <1>3
<1>5. Put(t, k, s) = [attempts EXCEPT ![t] = f]
  BY DEF Put, f
<1>6. QED
  BY <1>3, <1>4, <1>5

\* A new attempt is open, and comes after those there are.
LEMMA CreateStep ==
  ASSUME TypeOK, NEW r \in Requests, CreateAttempt(r),
         NEW t, t = request[r].topic, NEW k, k = request[r].kind
  PROVE  /\ t \in Topics /\ k \in Kinds
         /\ attempts' = Put(t, k, Append(attempts[t][k], "open"))
         /\ Append(attempts[t][k], "open") \in Seq(Outcomes)
         /\ DOMAIN attempts[t][k] \subseteq DOMAIN attempts'[t][k]
         /\ \A n \in DOMAIN attempts[t][k] : attempts'[t][k][n] = attempts[t][k][n]
<1>1. t \in Topics /\ k \in Kinds
  BY DEF TypeOK, RequestState
<1>2. attempts' = Put(t, k, Append(attempts[t][k], "open"))
  BY <1>1 DEF CreateAttempt, Put, TypeOK
<1> DEFINE s == attempts[t][k]
           new == Append(s, "open")
<1>3. /\ s \in Seq(Outcomes) /\ new \in Seq(Outcomes) /\ Len(new) = Len(s) + 1
      /\ \A n \in 1 .. Len(s) : new[n] = s[n]
  BY <1>1, AttemptTypes, AppendProperties DEF Outcomes
<1>4. DOMAIN s = 1 .. Len(s) /\ DOMAIN new = 1 .. Len(new) /\ Len(s) \in Nat
  BY <1>3
<1>5. DOMAIN s \subseteq DOMAIN new /\ \A n \in DOMAIN s : new[n] = s[n]
  BY <1>3, <1>4
<1>6. attempts'[t][k] = new
  BY <1>1, <1>2, <1>3, PutType
<1>7. QED
  BY <1>1, <1>2, <1>3, <1>5, <1>6

\* Attempt n of a quiz gets outcome o and the other attempts stay.
Saves(s, t, k, n, o) ==
  /\ attempts' = Put(t, k, s)
  /\ DOMAIN s = DOMAIN attempts[t][k]
  /\ s[n] = o
  /\ \A j \in DOMAIN s : j # n => s[j] = attempts[t][k][j]

\* Answers replace what the attempt was, and remember if it was answered.
LEMMA SaveStep ==
  ASSUME TypeOK, NEW r \in Requests, Rests(r), SaveAnswers(r),
         NEW t, t = request[r].topic, NEW k, k = request[r].kind,
         NEW n, n = request[r].number
  PROVE  /\ t \in Topics /\ k \in Kinds /\ n \in DOMAIN attempts[t][k]
         /\ \E s \in Seq(Outcomes) :
              Saves(s, t, k, n, IF request[r].passed THEN "passed" ELSE "failed")
         /\ resubmitted' = (resubmitted \/ attempts[t][k][n] # "open")
<1>1. t \in Topics /\ k \in Kinds
  BY DEF TypeOK, RequestState
<1>2. n \in DOMAIN attempts[t][k]
  BY DEF Rests, Answering, SaveAnswers
<1> DEFINE o == IF request[r].passed THEN "passed" ELSE "failed"
           s == [attempts[t][k] EXCEPT ![n] = o]
<1>3. o \in Outcomes
  BY DEF Outcomes
<1>4. /\ attempts[t][k] \in Seq(Outcomes)
      /\ DOMAIN attempts[t][k] = 1 .. Len(attempts[t][k])
  BY <1>1, AttemptTypes
<1>5. s \in Seq(Outcomes)
  BY <1>2, <1>3, <1>4, ExceptSeq
<1>6. /\ DOMAIN s = DOMAIN attempts[t][k] /\ s[n] = o
      /\ \A j \in DOMAIN s : j # n => s[j] = attempts[t][k][j]
  BY <1>2
<1>7. attempts' = Put(t, k, s)
  BY <1>1, <1>2 DEF SaveAnswers, Put, TypeOK
<1>8. resubmitted' = (resubmitted \/ attempts[t][k][n] # "open")
  BY DEF SaveAnswers
<1>9. QED
  BY <1>1, <1>2, <1>5, <1>6, <1>7, <1>8 DEF Saves

-----------------------------------------------------------------------------
(* What never goes back *)

\* Steps that neither create nor answer an attempt leave all of them alone.
LEMMA AttemptsStay ==
  ASSUME [Next]_vars, \A r \in Requests : ~ CreateAttempt(r) /\ ~ SaveAnswers(r)
  PROVE  attempts' = attempts /\ resubmitted' = resubmitted
<1>1. ASSUME NEW r \in Requests, Serve(r)
      PROVE  attempts' = attempts /\ resubmitted' = resubmitted
  BY <1>1 DEF Serve, GenerateQuiz, SubmitQuiz, Crash, AskQuiz, NoQuiz, TakeNumber,
     NumberTaken, Submit, CountTry, ReadProgress, EarnTopicPoints, EarnSubjectPoints,
     MarkPassed, dataVars, quizVars
<1>2. ASSUME NEW t \in Topics, MarkViewed(t) \/ \E k \in Kinds : CooldownOver(t, k)
      PROVE  attempts' = attempts /\ resubmitted' = resubmitted
  BY <1>2 DEF MarkViewed, CooldownOver, quizVars
<1>3. CASE LadderStep \/ UNCHANGED vars
  BY <1>3 DEF LadderStep, vars, dataVars, quizVars
<1>4. QED
  BY <1>1, <1>2, <1>3 DEF Next, Serve

\* Only the end of a submission writes a status.
LEMMA StatusStays ==
  ASSUME [Next]_vars, \A r \in Requests : ~ MarkPassed(r)
  PROVE  status' = status
<1>1. ASSUME NEW r \in Requests, Serve(r) PROVE status' = status
  BY <1>1 DEF Serve, GenerateQuiz, SubmitQuiz, Crash, AskQuiz, NoQuiz, TakeNumber,
     CreateAttempt, NumberTaken, Submit, SaveAnswers, CountTry, ReadProgress,
     EarnTopicPoints, EarnSubjectPoints, dataVars, learnerVars
<1>2. ASSUME NEW t \in Topics, MarkViewed(t) \/ \E k \in Kinds : CooldownOver(t, k)
      PROVE  status' = status
  BY <1>2 DEF MarkViewed, CooldownOver, learnerVars
<1>3. CASE LadderStep
  BY <1>3 DEF LadderStep, Ladder!CheckLevel, Ladder!ReadLevel, Ladder!LevelReached,
     Ladder!LevelRefused, Ladder!RaiseLevel, Ladder!CompleteSubject, Ladder!RowGone,
     Ladder!CheckDies, Ladder!Become, Ladder!Enrolling, Ladder!Leave, Ladder!Enroll,
     Ladder!EnrollElsewhere
<1>4. CASE UNCHANGED vars
  BY <1>4 DEF vars, dataVars, learnerVars
<1>5. QED
  BY <1>1, <1>2, <1>3, <1>4 DEF Next, Serve

\* Views and passes stay, attempts stay, and answered ones stay as they are
\* until somebody answers one again.
LEMMA Grows ==
  ASSUME QuizInv, [Next]_vars
  PROVE  /\ \A t \in Topics : viewed[t] => viewed'[t]
         /\ \A t \in Topics : status[t] # "NOT_STARTED" => status'[t] # "NOT_STARTED"
         /\ resubmitted => resubmitted'
         /\ \A t \in Topics, k \in Kinds : DOMAIN attempts[t][k] \subseteq DOMAIN attempts'[t][k]
         /\ ~ resubmitted' =>
              \A t \in Topics, k \in Kinds : \A n \in DOMAIN attempts[t][k] :
                attempts[t][k][n] # "open" => attempts'[t][k][n] = attempts[t][k][n]
<1>1. \A t \in Topics : viewed[t] => viewed'[t]
  <2>1. ASSUME NEW t \in Topics, MarkViewed(t) PROVE \A u \in Topics : viewed[u] => viewed'[u]
    BY <2>1 DEF MarkViewed, QuizInv, TypeOK
  <2>2. ASSUME NEW r \in Requests, Serve(r) PROVE viewed' = viewed
    BY <2>2 DEF Serve, GenerateQuiz, SubmitQuiz, Crash, AskQuiz, NoQuiz, TakeNumber,
       CreateAttempt, NumberTaken, Submit, SaveAnswers, CountTry, ReadProgress,
       EarnTopicPoints, EarnSubjectPoints, MarkPassed, dataVars, learnerVars
  <2>3. CASE \/ \E t \in Topics, k \in Kinds : CooldownOver(t, k)
             \/ LadderStep \/ UNCHANGED vars
    BY <2>3 DEF CooldownOver, LadderStep, vars, dataVars, learnerVars
  <2>4. QED
    BY <2>1, <2>2, <2>3 DEF Next, Serve
<1>2. \A t \in Topics : status[t] # "NOT_STARTED" => status'[t] # "NOT_STARTED"
  <2>1. ASSUME NEW r \in Requests, MarkPassed(r), NEW t \in Topics,
               status[t] # "NOT_STARTED"
        PROVE  status'[t] # "NOT_STARTED"
    BY <2>1 DEF MarkPassed, QuizInv, TypeOK, Ladder!TypeOK, Topics, Ladder!Topics
  <2>2. QED
    BY <2>1, StatusStays
<1>3. CASE \E r \in Requests : CreateAttempt(r)
  <2>1. PICK r \in Requests : CreateAttempt(r)
    BY <1>3
  <2>2. TypeOK
    BY DEF QuizInv
  <2>3. PICK t, k : t = request[r].topic /\ k = request[r].kind
    OBVIOUS
  <2>4. /\ t \in Topics /\ k \in Kinds
        /\ attempts' = Put(t, k, Append(attempts[t][k], "open"))
        /\ Append(attempts[t][k], "open") \in Seq(Outcomes)
        /\ DOMAIN attempts[t][k] \subseteq DOMAIN attempts'[t][k]
        /\ \A n \in DOMAIN attempts[t][k] : attempts'[t][k][n] = attempts[t][k][n]
    BY <2>1, <2>2, <2>3, CreateStep
  <2>5. \A u \in Topics, j \in Kinds : u # t \/ j # k => attempts'[u][j] = attempts[u][j]
    <3>1. PICK s \in Seq(Outcomes) : attempts' = Put(t, k, s)
      BY <2>4
    <3>2. t \in Topics /\ k \in Kinds
      BY <2>4
    <3>3. \A u \in Topics, j \in Kinds :
            u # t \/ j # k => Put(t, k, s)[u][j] = attempts[u][j]
      BY <2>2, <3>2, PutType
    <3>4. QED
      BY <3>1, <3>3
  <2>6. resubmitted' = resubmitted
    BY <2>1 DEF CreateAttempt
  <2>7. QED
    BY <1>1, <1>2, <2>4, <2>5, <2>6
<1>4. CASE \E r \in Requests : SaveAnswers(r)
  <2>1. PICK r \in Requests : SaveAnswers(r)
    BY <1>4
  <2> DEFINE t == request[r].topic
             k == request[r].kind
             n == request[r].number
  <2>2. Rests(r) /\ TypeOK
    BY DEF QuizInv
  <2>3. /\ t \in Topics /\ k \in Kinds /\ n \in DOMAIN attempts[t][k]
        /\ \E s \in Seq(Outcomes) :
             /\ attempts' = Put(t, k, s)
             /\ DOMAIN s = DOMAIN attempts[t][k]
             /\ \A j \in DOMAIN s : j # n => s[j] = attempts[t][k][j]
        /\ resubmitted' = (resubmitted \/ attempts[t][k][n] # "open")
    BY <2>1, <2>2, SaveStep DEF Saves
  <2> HIDE DEF t, k, n
  <2>4. PICK s \in Seq(Outcomes) :
             /\ attempts' = Put(t, k, s)
             /\ DOMAIN s = DOMAIN attempts[t][k]
             /\ \A j \in DOMAIN s : j # n => s[j] = attempts[t][k][j]
    BY <2>3
  <2>5. /\ attempts'[t][k] = s
        /\ \A u \in Topics, j \in Kinds : u # t \/ j # k => attempts'[u][j] = attempts[u][j]
    BY <2>2, <2>3, <2>4, PutType
  <2>6. ASSUME NEW u \in Topics, NEW j \in Kinds
        PROVE  /\ DOMAIN attempts[u][j] \subseteq DOMAIN attempts'[u][j]
               /\ ~ resubmitted' => \A i \in DOMAIN attempts[u][j] :
                    attempts[u][j][i] # "open" => attempts'[u][j][i] = attempts[u][j][i]
    <3>1. CASE u = t /\ j = k
      BY <2>3, <2>4, <2>5, <3>1
    <3>2. CASE u # t \/ j # k
      <4>1. attempts'[u][j] = attempts[u][j]
        BY <2>5, <3>2
      <4>2. QED
        BY <4>1
    <3>3. QED
      BY <3>1, <3>2
  <2>7. QED
    BY <1>1, <1>2, <2>3, <2>6
<1>5. CASE \A r \in Requests : ~ CreateAttempt(r) /\ ~ SaveAnswers(r)
  BY <1>1, <1>2, <1>5, AttemptsStay
<1>6. QED
  BY <1>3, <1>4, <1>5

\* So a passed attempt stays on record.
LEMMA PassStays ==
  ASSUME QuizInv, [Next]_vars, NEW t \in Topics, NEW k \in Kinds,
         resubmitted \/ HasPassed(t, k)
  PROVE  resubmitted' \/ HasPassed(t, k)'
BY Grows DEF HasPassed

-----------------------------------------------------------------------------
(* What requests rest on *)

\* A request that does not move rests on what it rested on.
LEMMA RestStays ==
  ASSUME QuizInv, [Next]_vars, NEW r \in Requests, request'[r] = request[r]
  PROVE  Rests(r)'
<1> DEFINE q == request[r]
<1>1. q.topic \in Topics /\ q.kind \in Kinds /\ q.passed \in BOOLEAN /\ Rests(r)
  BY DEF QuizInv, TypeOK, RequestState
<1>2. q.pc \in {"asking", "create"} /\ q.kind = "ADVANCED" =>
        viewed'[q.topic] /\ status'[q.topic] # "NOT_STARTED"
  BY <1>1, Grows DEF Rests
<1>3. q.pc \in Answering => q.number \in DOMAIN attempts'[q.topic][q.kind]
  BY <1>1, Grows DEF Rests
<1>4. q.pc \in Answering \ {"save"} =>
        \/ resubmitted'
        \/ attempts'[q.topic][q.kind][q.number] = IF q.passed THEN "passed" ELSE "failed"
  <2>1. ASSUME q.pc \in Answering \ {"save"}, ~ resubmitted'
        PROVE  attempts'[q.topic][q.kind][q.number] = attempts[q.topic][q.kind][q.number]
    <3>1. /\ attempts[q.topic][q.kind][q.number] # "open"
          /\ q.number \in DOMAIN attempts[q.topic][q.kind]
      BY <1>1, <2>1, Grows DEF Rests
    <3>2. QED
      BY <1>1, <2>1, <3>1, Grows
  <2>2. QED
    BY <1>1, <2>1, Grows DEF Rests
<1>5. QED
  BY <1>1, <1>2, <1>3, <1>4 DEF Rests

\* The request that moves.
LEMMA RestMoves ==
  ASSUME QuizInv, [Next]_vars, NEW r \in Requests, Serve(r)
  PROVE  Rests(r)'
<1>1. /\ TypeOK /\ request \in [Requests -> RequestState] /\ request[r] \in RequestState
      /\ request[r].topic \in Topics /\ request[r].kind \in Kinds
      /\ request[r].passed \in BOOLEAN /\ Rests(r)
  BY DEF QuizInv, TypeOK, RequestState
<1>2. ASSUME Finish(r) PROVE Rests(r)'
  <2>1. request'[r].pc = "idle"
    BY <1>1, <1>2, IdleType, RecordSteps DEF Become
  <2>2. QED
    BY <2>1 DEF Rests, Answering
<1>3. ASSUME NEW p \in PCs, Go(r, p)
      PROVE  /\ request'[r].pc = p /\ request'[r].topic = request[r].topic
             /\ request'[r].kind = request[r].kind
             /\ request'[r].number = request[r].number
             /\ request'[r].passed = request[r].passed
  <2>1. request'[r] = [request[r] EXCEPT !.pc = p]
    BY <1>1, <1>3, RecordSteps DEF Become
  <2>2. QED
    BY <1>1, <2>1, RecordSteps
<1>4. ASSUME NEW t \in Topics, NEW k \in Kinds, AskQuiz(r, t, k)
      PROVE  Rests(r)'
  <2>1. request'[r] = [Idle EXCEPT !.pc = "asking", !.topic = t, !.kind = k]
    BY <1>1, <1>4 DEF AskQuiz, Become
  <2>2. /\ request'[r].pc = "asking" /\ request'[r].topic = t /\ request'[r].kind = k
    BY <2>1, IdleType DEF RequestState
  <2>3. k = "ADVANCED" => viewed[t] /\ status[t] = "PASSED"
    BY <1>4 DEF AskQuiz, MayTake
  <2>4. QED
    BY <2>2, <2>3, Grows DEF Rests, Answering
<1>5. CASE TakeNumber(r)
  <2>1. request'[r] = [request[r] EXCEPT !.pc = "create",
                         !.number = Len(attempts[request[r].topic][request[r].kind]) + 1]
    BY <1>1, <1>5 DEF TakeNumber, Become
  <2>2. /\ request'[r].pc = "create" /\ request'[r].topic = request[r].topic
        /\ request'[r].kind = request[r].kind
    BY <1>1, <2>1 DEF RequestState
  <2>3. request[r].pc = "asking"
    BY <1>5 DEF TakeNumber
  <2>4. QED
    BY <1>1, <2>2, <2>3, Grows DEF Rests, Answering
<1>6. ASSUME NEW t \in Topics, NEW k \in Kinds, NEW n \in DOMAIN attempts[t][k],
             NEW pass \in BOOLEAN, Submit(r, t, k, n, pass)
      PROVE  Rests(r)'
  <2>1. request'[r] = [Idle EXCEPT !.pc = "save", !.topic = t, !.kind = k,
                         !.number = n, !.passed = pass]
    BY <1>1, <1>6 DEF Submit, Become
  <2>2. /\ request'[r].pc = "save" /\ request'[r].topic = t /\ request'[r].kind = k
        /\ request'[r].number = n
    BY <2>1, IdleType DEF RequestState
  <2>3. QED
    BY <2>2, Grows DEF Rests, Answering
<1>7. CASE SaveAnswers(r)
  <2>1. PICK t, k, n : t = request[r].topic /\ k = request[r].kind /\ n = request[r].number
    OBVIOUS
  <2>2. /\ t \in Topics /\ k \in Kinds /\ n \in DOMAIN attempts[t][k]
        /\ \E s \in Seq(Outcomes) :
             /\ attempts' = Put(t, k, s)
             /\ DOMAIN s = DOMAIN attempts[t][k]
             /\ s[n] = IF request[r].passed THEN "passed" ELSE "failed"
    BY <1>1, <1>7, <2>1, SaveStep DEF Saves
  <2>3. PICK s \in Seq(Outcomes) :
             /\ attempts' = Put(t, k, s)
             /\ DOMAIN s = DOMAIN attempts[t][k]
             /\ s[n] = IF request[r].passed THEN "passed" ELSE "failed"
    BY <2>2
  <2>4. attempts'[t][k] = s
    BY <1>1, <2>2, <2>3, PutType
  <2>5. /\ request'[r].pc = "count" /\ request'[r].topic = t /\ request'[r].kind = k
        /\ request'[r].number = n /\ request'[r].passed = request[r].passed
    BY <1>3, <1>7, <2>1 DEF SaveAnswers, PCs
  <2>6. QED
    BY <2>2, <2>3, <2>4, <2>5 DEF Rests, Answering
<1>8. CASE CountTry(r) \/ ReadProgress(r) \/ EarnTopicPoints(r) \/ EarnSubjectPoints(r)
  <2>1. CASE Finish(r)
    BY <1>2, <2>1
  <2>2. CASE ~ Finish(r)
    <3>1. /\ request[r].pc \in {"count", "read", "topic", "subject"}
          /\ request'[r].pc \in {"read", "topic", "subject", "mark"}
          /\ request'[r].topic = request[r].topic /\ request'[r].kind = request[r].kind
          /\ request'[r].number = request[r].number
          /\ request'[r].passed = request[r].passed /\ request[r].passed
      <4>1. CASE ReadProgress(r)
        <5>1. request'[r] = [request[r] EXCEPT !.pc = "topic",
                               !.seen = status[request[r].topic]]
          BY <1>1, <4>1 DEF ReadProgress, Become
        <5>2. QED
          BY <1>1, <4>1, <5>1 DEF ReadProgress, RequestState, Rests, Answering
      <4>2. CASE CountTry(r)
        BY <1>3, <2>2, <4>2 DEF CountTry, PCs
      <4>3. CASE EarnTopicPoints(r) \/ EarnSubjectPoints(r)
        BY <1>1, <1>3, <4>3
             DEF EarnTopicPoints, EarnSubjectPoints, PCs, Rests, Answering
      <4>4. QED
        BY <1>8, <4>1, <4>2, <4>3
    <3>2. attempts' = attempts /\ resubmitted' = resubmitted
      BY <1>8
           DEF CountTry, ReadProgress, EarnTopicPoints, EarnSubjectPoints, dataVars,
               quizVars
    <3>3. QED
      BY <1>1, <3>1, <3>2 DEF Rests, Answering
  <2>3. QED
    BY <2>1, <2>2
<1>9. CASE NoQuiz(r) \/ CreateAttempt(r) \/ NumberTaken(r) \/ MarkPassed(r) \/ Crash(r)
  BY <1>2, <1>9 DEF NoQuiz, CreateAttempt, NumberTaken, MarkPassed, Crash
<1>10. QED
  BY <1>4, <1>5, <1>6, <1>7, <1>8, <1>9 DEF Serve, GenerateQuiz, SubmitQuiz

-----------------------------------------------------------------------------
(* Types of the whole state *)

\* Requests and views leave the learner's row and the level checks alone.
LEMMA RowStays ==
  ASSUME [Next]_vars, ~ LadderStep
  PROVE  UNCHANGED <<rowVars, check>>
<1>1. ASSUME NEW r \in Requests, Serve(r) PROVE UNCHANGED <<rowVars, check>>
  BY <1>1 DEF Serve, GenerateQuiz, SubmitQuiz, Crash, AskQuiz, NoQuiz, TakeNumber,
     CreateAttempt, NumberTaken, Submit, SaveAnswers, CountTry, ReadProgress,
     EarnTopicPoints, EarnSubjectPoints, MarkPassed, dataVars, learnerVars
<1>2. ASSUME NEW t \in Topics, MarkViewed(t) \/ \E k \in Kinds : CooldownOver(t, k)
      PROVE  UNCHANGED <<rowVars, check>>
  BY <1>2 DEF MarkViewed, CooldownOver, learnerVars
<1>3. CASE UNCHANGED vars
  BY <1>3 DEF vars, dataVars, learnerVars
<1>4. QED
  BY <1>1, <1>2, <1>3 DEF Next, Serve

\* The row, the statuses and the level checks keep their types.
LEMMA LadderType ==
  ASSUME TypeOK, [Next]_vars
  PROVE  Ladder!TypeOK'
<1> USE DEF Ladder!TypeOK, Ladder!Levels, Ladder!CheckState
<1>1. Ladder!TypeOK
  BY DEF TypeOK
<1>2. CASE ~ LadderStep
  <2>1. UNCHANGED <<rowVars, check>>
    BY <1>2, RowStays
  <2>2. status' \in [Ladder!Topics -> Ladder!TopicStatus]
    <3>1. ASSUME NEW r \in Requests, MarkPassed(r)
          PROVE  status' \in [Ladder!Topics -> Ladder!TopicStatus]
      BY <1>1, <3>1 DEF MarkPassed, Ladder!TopicStatus
    <3>2. QED
      BY <1>1, <3>1, StatusStays
  <2>3. QED
    BY <1>1, <2>1, <2>2 DEF rowVars
<1>3. ASSUME NEW c \in Checks, Ladder!CheckLevel(c) PROVE Ladder!TypeOK'
  <2>1. check[c] \in Ladder!CheckState
    BY <1>1
  <2>2. /\ Ladder!Idle \in Ladder!CheckState
        /\ enrolment \in 0 .. MaxEnrolments
    BY <1>1, QuizParametersOK DEF Ladder!Idle
  <2>3. CASE Ladder!ReadLevel(c)
    BY <1>1, <2>2, <2>3 DEF Ladder!ReadLevel, Ladder!Become, Ladder!rowVars
  <2>4. CASE Ladder!LevelReached(c)
    BY <1>1, <2>1, <2>4 DEF Ladder!LevelReached, Ladder!Become, Ladder!rowVars
  <2>5. CASE Ladder!LevelRefused(c) \/ Ladder!RowGone(c) \/ Ladder!CheckDies(c)
    BY <1>1, <2>2, <2>5 DEF Ladder!LevelRefused, Ladder!RowGone, Ladder!CheckDies,
       Ladder!Become, Ladder!rowVars
  <2>6. CASE Ladder!RaiseLevel(c)
    BY <1>1, <2>1, <2>2, <2>6 DEF Ladder!RaiseLevel, Ladder!Become
  <2>7. CASE Ladder!CompleteSubject(c)
    BY <1>1, <2>2, <2>7 DEF Ladder!CompleteSubject, Ladder!Become
  <2>8. QED
    BY <1>3, <2>3, <2>4, <2>5, <2>6, <2>7 DEF Ladder!CheckLevel
<1>4. CASE Ladder!Leave
  BY <1>1, <1>4 DEF Ladder!Leave
<1>5. CASE Ladder!Enroll
  <2>1. enrolment' \in 1 .. MaxEnrolments /\ level' \in Ladder!Levels
    BY <1>1, <1>5, QuizParametersOK DEF Ladder!Enroll
  <2>2. enrolled' = TRUE /\ completed' = FALSE /\ selecting' = FALSE
        /\ status' = status /\ check' = check
    BY <1>5 DEF Ladder!Enroll
  <2>3. QED
    BY <1>1, <2>1, <2>2
<1>6. CASE Ladder!EnrollElsewhere
  BY <1>1, <1>6 DEF Ladder!EnrollElsewhere
<1>7. QED
  BY <1>2, <1>3, <1>4, <1>5, <1>6 DEF LadderStep, Ladder!Enrolling

\* Points and tries are counted up, and the subject's points start again at 0.
LEMMA PointsType ==
  ASSUME TypeOK, [Next]_vars
  PROVE  /\ viewed' \in [Topics -> BOOLEAN] /\ points' \in Nat
         /\ topicPoints' \in [Topics -> Nat] /\ tries' \in [Topics -> [Kinds -> Nat]]
<1> DEFINE Typed == /\ viewed' \in [Topics -> BOOLEAN] /\ points' \in Nat
                    /\ topicPoints' \in [Topics -> Nat]
                    /\ tries' \in [Topics -> [Kinds -> Nat]]
<1>1. /\ viewed \in [Topics -> BOOLEAN] /\ points \in Nat
      /\ topicPoints \in [Topics -> Nat] /\ tries \in [Topics -> [Kinds -> Nat]]
  BY DEF TypeOK
<1>2. ASSUME UNCHANGED <<viewed, pointVars>> PROVE Typed
  BY <1>1, <1>2 DEF pointVars
<1>3. ASSUME NEW r \in Requests, Serve(r) PROVE Typed
  <2>1. request[r].topic \in Topics /\ request[r].kind \in Kinds
    BY DEF TypeOK, RequestState
  <2>2. Worth[request[r].kind] \in Nat
    BY <2>1 DEF Worth, Kinds
  <2>3. CASE CountTry(r)
    <3> DEFINE t == request[r].topic
               k == request[r].kind
               new == [tries[t] EXCEPT ![k] = tries[t][k] + 1]
    <3>1. tries[t] \in [Kinds -> Nat] /\ tries[t][k] \in Nat
      BY <1>1, <2>1
    <3>2. new \in [Kinds -> Nat]
      BY <2>1, <3>1
    <3>3. tries' = [tries EXCEPT ![t] = new]
      BY <1>1, <2>1, <2>3 DEF CountTry
    <3> HIDE DEF new
    <3>4. tries' \in [Topics -> [Kinds -> Nat]]
      BY <1>1, <3>2, <3>3
    <3>5. viewed' = viewed /\ points' = points /\ topicPoints' = topicPoints
      BY <2>3 DEF CountTry, learnerVars
    <3>6. QED
      BY <1>1, <3>4, <3>5
  <2>4. CASE EarnTopicPoints(r)
    BY <1>1, <2>1, <2>2, <2>4 DEF EarnTopicPoints, learnerVars
  <2>5. CASE EarnSubjectPoints(r)
    BY <1>1, <2>2, <2>5 DEF EarnSubjectPoints, learnerVars
  <2>6. CASE ~ CountTry(r) /\ ~ EarnTopicPoints(r) /\ ~ EarnSubjectPoints(r)
    <3>1. UNCHANGED <<viewed, pointVars>>
      BY <1>3, <2>6 DEF Serve, GenerateQuiz, SubmitQuiz, Crash, AskQuiz, NoQuiz,
         TakeNumber, CreateAttempt, NumberTaken, Submit, SaveAnswers, ReadProgress,
         MarkPassed, dataVars, learnerVars
    <3>2. QED
      BY <1>2, <3>1
  <2>7. QED
    BY <2>3, <2>4, <2>5, <2>6
<1>4. ASSUME NEW t \in Topics, MarkViewed(t) PROVE Typed
  BY <1>1, <1>4 DEF MarkViewed, pointVars
<1>5. CASE \E t \in Topics, k \in Kinds : CooldownOver(t, k)
  BY <1>2, <1>5 DEF CooldownOver, learnerVars
<1>6. CASE LadderStep
  BY <1>1, <1>6 DEF LadderStep
<1>7. CASE UNCHANGED vars
  BY <1>2, <1>7 DEF vars, dataVars, learnerVars
<1>8. QED
  BY <1>3, <1>4, <1>5, <1>6, <1>7 DEF Next, Serve

\* Every step keeps the types.
LEMMA TypeStep ==
  ASSUME QuizInv, [Next]_vars
  PROVE  TypeOK'
<1>1. TypeOK /\ \A r \in Requests : Rests(r)
  BY DEF QuizInv
<1>2. request' \in [Requests -> RequestState]
  <2>1. ASSUME NEW r \in Requests, Serve(r) PROVE request' \in [Requests -> RequestState]
    <3>1. PICK new \in RequestState : Become(r, new)
      BY <1>1, <2>1, RequestStep
    <3>2. QED
      BY <1>1, <3>1 DEF Become, TypeOK
  <2>2. CASE \/ \E t \in Topics : MarkViewed(t)
             \/ \E t \in Topics, k \in Kinds : CooldownOver(t, k)
             \/ LadderStep \/ UNCHANGED vars
    BY <1>1, <2>2 DEF MarkViewed, CooldownOver, LadderStep, vars, TypeOK
  <2>3. QED
    BY <2>1, <2>2 DEF Next, Serve
<1>3. attempts' \in [Topics -> [Kinds -> Seq(Outcomes)]] /\ resubmitted' \in BOOLEAN
  <2>1. ASSUME NEW r \in Requests, CreateAttempt(r)
        PROVE  attempts' \in [Topics -> [Kinds -> Seq(Outcomes)]] /\ resubmitted' = resubmitted
    <3>1. PICK t, k : t = request[r].topic /\ k = request[r].kind
      OBVIOUS
    <3>2. /\ t \in Topics /\ k \in Kinds
          /\ attempts' = Put(t, k, Append(attempts[t][k], "open"))
          /\ Append(attempts[t][k], "open") \in Seq(Outcomes)
      BY <1>1, <2>1, <3>1, CreateStep
    <3>3. PICK s \in Seq(Outcomes) : attempts' = Put(t, k, s)
      BY <3>2
    <3>4. t \in Topics /\ k \in Kinds /\ resubmitted' = resubmitted
      BY <2>1, <3>2 DEF CreateAttempt
    <3>5. Put(t, k, s) \in [Topics -> [Kinds -> Seq(Outcomes)]]
      BY <1>1, <3>4, PutType
    <3>6. QED
      BY <3>3, <3>4, <3>5
  <2>2. ASSUME NEW r \in Requests, SaveAnswers(r)
        PROVE  attempts' \in [Topics -> [Kinds -> Seq(Outcomes)]] /\ resubmitted' \in BOOLEAN
    <3>1. PICK t, k, n : t = request[r].topic /\ k = request[r].kind /\ n = request[r].number
      OBVIOUS
    <3>2. t \in Topics /\ k \in Kinds /\ \E s \in Seq(Outcomes) : attempts' = Put(t, k, s)
      BY <1>1, <2>2, <3>1, SaveStep DEF Saves
    <3>3. resubmitted' \in BOOLEAN
      BY <1>1, <2>2 DEF SaveAnswers, TypeOK
    <3>4. QED
      BY <1>1, <3>2, <3>3, PutType
  <2>3. CASE \A r \in Requests : ~ CreateAttempt(r) /\ ~ SaveAnswers(r)
    BY <1>1, <2>3, AttemptsStay DEF TypeOK
  <2>4. QED
    BY <1>1, <2>1, <2>2, <2>3 DEF TypeOK
<1>4. cooling' \subseteq Topics \X Kinds
  <2>1. ASSUME NEW r \in Requests, Serve(r) PROVE cooling' \subseteq Topics \X Kinds
    <3>1. CASE CreateAttempt(r)
      <4>1. <<request[r].topic, request[r].kind>> \in Topics \X Kinds
        BY <1>1 DEF TypeOK, RequestState
      <4>2. cooling' = cooling \cup {<<request[r].topic, request[r].kind>>}
        BY <3>1 DEF CreateAttempt
      <4>3. QED
        BY <1>1, <4>1, <4>2 DEF TypeOK
    <3>2. CASE ~ CreateAttempt(r)
      <4>1. cooling' = cooling
        BY <2>1, <3>2 DEF Serve, GenerateQuiz, SubmitQuiz, Crash, AskQuiz, NoQuiz,
           TakeNumber, NumberTaken, Submit, SaveAnswers, CountTry, ReadProgress,
           EarnTopicPoints, EarnSubjectPoints, MarkPassed, dataVars, quizVars
      <4>2. QED
        BY <1>1, <4>1 DEF TypeOK
    <3>3. QED
      BY <3>1, <3>2
  <2>2. CASE \/ \E t \in Topics : MarkViewed(t)
             \/ \E t \in Topics, k \in Kinds : CooldownOver(t, k)
             \/ LadderStep \/ UNCHANGED vars
    <3>1. cooling' \subseteq cooling
      BY <2>2 DEF MarkViewed, CooldownOver, LadderStep, vars, dataVars, quizVars
    <3>2. QED
      BY <1>1, <3>1 DEF TypeOK
  <2>3. QED
    BY <2>1, <2>2 DEF Next, Serve
<1>5. /\ viewed' \in [Topics -> BOOLEAN] /\ points' \in Nat
      /\ topicPoints' \in [Topics -> Nat] /\ tries' \in [Topics -> [Kinds -> Nat]]
  BY <1>1, PointsType
<1>6. Ladder!TypeOK'
  BY <1>1, LadderType
<1>7. QED
  BY <1>2, <1>3, <1>4, <1>5, <1>6 DEF TypeOK

\* Nothing is asked, passed or viewed at first.
LEMMA QuizInit ==
  ASSUME Init
  PROVE  QuizInv
<1>1. Ladder!TypeOK
  <2>1. Ladder!Idle \in Ladder!CheckState
    BY QuizParametersOK DEF Ladder!Idle, Ladder!CheckState, Ladder!Levels
  <2>2. /\ check \in [Checks -> Ladder!CheckState]
        /\ status \in [Ladder!Topics -> Ladder!TopicStatus]
    BY <2>1 DEF Init, Ladder!Init, Ladder!TopicStatus
  <2>3. enrolment \in 1 .. MaxEnrolments /\ level \in Ladder!Levels
    BY QuizParametersOK DEF Init, Ladder!Init, Ladder!Levels
  <2>4. enrolled = TRUE /\ completed = FALSE /\ selecting = FALSE
    BY DEF Init, Ladder!Init
  <2>5. QED
    BY <2>2, <2>3, <2>4 DEF Ladder!TypeOK
<1>2. attempts \in [Topics -> [Kinds -> Seq(Outcomes)]]
  <2>1. <<>> \in Seq(Outcomes)
    OBVIOUS
  <2>2. [k \in Kinds |-> <<>>] \in [Kinds -> Seq(Outcomes)]
    BY <2>1
  <2>3. QED
    BY <2>2 DEF Init
<1>3. tries \in [Topics -> [Kinds -> Nat]]
  BY DEF Init
<1>4. request \in [Requests -> RequestState]
  BY IdleType DEF Init
<1>5. TypeOK
  BY <1>1, <1>2, <1>3, <1>4 DEF Init, TypeOK
<1>6. PassIsRecorded
  BY DEF Init, Ladder!Init, PassIsRecorded, Kinds, Topics, Ladder!Topics
<1>7. \A r \in Requests : Rests(r)
  BY IdleType DEF Init, Rests, Answering
<1>8. QED
  BY <1>5, <1>6, <1>7 DEF QuizInv

-----------------------------------------------------------------------------
(* What a pass rests on *)

\* The end of a submission marks a topic whose passed attempt is on record, and
\* an advanced pass replaces a pass.
LEMMA MarkStep ==
  ASSUME QuizInv, NEW r \in Requests, MarkPassed(r),
         NEW t, t = request[r].topic, NEW k, k = request[r].kind
  PROVE  /\ t \in Topics /\ k \in Kinds
         /\ resubmitted \/ HasPassed(t, k)
         /\ k = "ADVANCED" => status[t] # "NOT_STARTED"
         /\ status' = [status EXCEPT ![t] = status'[t]]
         /\ k = "ADVANCED" => status'[t] = "ADVANCED_PASSED"
         /\ k # "ADVANCED" => status'[t] \in {"PASSED", status[t]}
<1> DEFINE n == request[r].number
<1>1. TypeOK /\ PassIsRecorded /\ Rests(r) /\ request[r].pc = "mark"
  BY DEF QuizInv, MarkPassed
<1>2. t \in Topics /\ k \in Kinds
  BY <1>1 DEF TypeOK, RequestState
<1>3. n \in DOMAIN attempts[t][k] /\ (resubmitted \/ attempts[t][k][n] = "passed")
  BY <1>1 DEF Rests, Answering
<1>4. resubmitted \/ HasPassed(t, k)
  BY <1>3 DEF HasPassed
<1>5. k = "ADVANCED" => status[t] # "NOT_STARTED"
  <2>1. k = "ADVANCED" => attempts[t]["ADVANCED"] # <<>>
    BY <1>3
  <2>2. QED
    BY <1>1, <1>2, <2>1 DEF PassIsRecorded
<1> DEFINE new == IF k = "ADVANCED" THEN "ADVANCED_PASSED"
                  ELSE IF request[r].seen = "NOT_STARTED" THEN "PASSED" ELSE status[t]
<1>6. status' = [status EXCEPT ![t] = new]
  BY DEF MarkPassed
<1>7. status'[t] = new
  BY <1>1, <1>2, <1>6 DEF TypeOK, Ladder!TypeOK, Topics, Ladder!Topics
<1>8. QED
  BY <1>2, <1>4, <1>5, <1>6, <1>7

\* Only creating an attempt is the first of its quiz.
LEMMA FirstAttempt ==
  ASSUME QuizInv, [Next]_vars, NEW u \in Topics, NEW j \in Kinds,
         attempts[u][j] = <<>>, attempts'[u][j] # <<>>
  PROVE  \E r \in Requests :
           CreateAttempt(r) /\ request[r].topic = u /\ request[r].kind = j
<1>1. TypeOK /\ \A r \in Requests : Rests(r)
  BY DEF QuizInv
<1>2. ASSUME NEW r \in Requests, CreateAttempt(r) \/ SaveAnswers(r)
      PROVE  request[r].topic = u /\ request[r].kind = j
  <2>1. PICK t, k, n : t = request[r].topic /\ k = request[r].kind /\ n = request[r].number
    OBVIOUS
  <2>2. t \in Topics /\ k \in Kinds /\ \E s \in Seq(Outcomes) : attempts' = Put(t, k, s)
    <3>1. CASE CreateAttempt(r)
      <4>1. /\ t \in Topics /\ k \in Kinds
            /\ attempts' = Put(t, k, Append(attempts[t][k], "open"))
            /\ Append(attempts[t][k], "open") \in Seq(Outcomes)
        BY <1>1, <2>1, <3>1, CreateStep
      <4> HIDE DEF Put
      <4>2. QED
        BY <4>1
    <3>2. CASE SaveAnswers(r)
      BY <1>1, <2>1, <3>2, SaveStep DEF Saves
    <3>3. QED
      BY <1>2, <3>1, <3>2
  <2>3. PICK s \in Seq(Outcomes) : attempts' = Put(t, k, s)
    BY <2>2
  <2>4. t \in Topics /\ k \in Kinds
    BY <2>2
  <2>5. \A v \in Topics, i \in Kinds :
          v # t \/ i # k => Put(t, k, s)[v][i] = attempts[v][i]
    BY <1>1, <2>4, PutType
  <2>6. QED
    BY <2>1, <2>3, <2>5
<1>3. ASSUME NEW r \in Requests, SaveAnswers(r) PROVE FALSE
  <2>1. request[r].number \in DOMAIN attempts[u][j]
    BY <1>1, <1>2, <1>3 DEF Rests, Answering, SaveAnswers
  <2>2. QED
    BY <2>1
<1>4. QED
  BY <1>2, <1>3, AttemptsStay

\* What a pass rests on is there when it is marked, and stays.
LEMMA RecordStep ==
  ASSUME QuizInv, [Next]_vars
  PROVE  PassIsRecorded'
<1>1. TypeOK /\ PassIsRecorded /\ \A r \in Requests : Rests(r)
  BY DEF QuizInv
<1>2. "NORMAL" \in Kinds /\ "ADVANCED" \in Kinds
  BY DEF Kinds
<1>3. ASSUME NEW t \in Topics, attempts'[t]["ADVANCED"] # <<>>
      PROVE  viewed'[t] /\ status'[t] # "NOT_STARTED"
  <2>1. viewed[t] /\ status[t] # "NOT_STARTED"
    <3>1. CASE attempts[t]["ADVANCED"] # <<>>
      BY <1>1, <3>1 DEF PassIsRecorded
    <3>2. CASE attempts[t]["ADVANCED"] = <<>>
      <4>1. PICK r \in Requests :
              CreateAttempt(r) /\ request[r].topic = t /\ request[r].kind = "ADVANCED"
        BY <1>2, <1>3, <3>2, FirstAttempt
      <4>2. QED
        BY <1>1, <4>1 DEF CreateAttempt, Rests
    <3>3. QED
      BY <3>1, <3>2
  <2>2. QED
    BY <2>1, Grows
<1>4. ASSUME NEW t \in Topics, status'[t] # status[t]
      PROVE  /\ resubmitted \/ HasPassed(t, "NORMAL")
             /\ status'[t] = "ADVANCED_PASSED" => resubmitted \/ HasPassed(t, "ADVANCED")
  <2>1. PICK r \in Requests : MarkPassed(r)
    BY <1>4, StatusStays
  <2>2. PICK u, k : u = request[r].topic /\ k = request[r].kind
    OBVIOUS
  <2>3. /\ u \in Topics /\ k \in Kinds
        /\ resubmitted \/ HasPassed(u, k)
        /\ k = "ADVANCED" => status[u] # "NOT_STARTED"
        /\ status' = [status EXCEPT ![u] = status'[u]]
        /\ k # "ADVANCED" => status'[u] \in {"PASSED", status[u]}
    BY <2>1, <2>2, MarkStep
  <2>4. u = t
    BY <1>1, <1>4, <2>3 DEF TypeOK, Ladder!TypeOK, Topics, Ladder!Topics
  <2>5. k = "NORMAL" \/ k = "ADVANCED"
    BY <2>3 DEF Kinds
  <2>6. QED
    BY <1>1, <1>4, <2>3, <2>4, <2>5 DEF PassIsRecorded
<1>5. ASSUME NEW t \in Topics
      PROVE  /\ status'[t] # "NOT_STARTED" => resubmitted \/ HasPassed(t, "NORMAL")
             /\ status'[t] = "ADVANCED_PASSED" => resubmitted \/ HasPassed(t, "ADVANCED")
  BY <1>1, <1>4 DEF PassIsRecorded
<1>6. QED
  BY <1>2, <1>3, <1>5, PassStays DEF PassIsRecorded

\* QuizInv is inductive.
LEMMA QuizStep ==
  ASSUME QuizInv, [Next]_vars
  PROVE  QuizInv'
<1>1. ASSUME NEW r \in Requests PROVE Rests(r)'
  <2>1. request'[r] = request[r] \/ Serve(r)
    <3>1. ASSUME NEW s \in Requests, Serve(s), s # r PROVE request'[r] = request[r]
      <4>1. PICK new \in RequestState : Become(s, new)
        BY <3>1, RequestStep DEF QuizInv
      <4>2. QED
        BY <3>1, <4>1 DEF Become, QuizInv, TypeOK
    <3>2. CASE \/ \E t \in Topics : MarkViewed(t)
               \/ \E t \in Topics, k \in Kinds : CooldownOver(t, k)
               \/ LadderStep \/ UNCHANGED vars
      BY <3>2 DEF MarkViewed, CooldownOver, LadderStep, vars
    <3>3. QED
      BY <3>1, <3>2 DEF Next, Serve
  <2>2. QED
    BY <2>1, RestStays, RestMoves
<1>2. QED
  BY <1>1, TypeStep, RecordStep DEF QuizInv

-----------------------------------------------------------------------------
(* What the points add up to *)

\* The inductive invariant of the points.
LedgerInv == QuizInv /\ TopicLedger /\ SubjectLedger

\* A request owes the points of a quiz or none, and sums of what is owed are
\* numbers.
LEMMA OwingType ==
  ASSUME TypeOK, NEW ts, NEW pcs
  PROVE  /\ Numbered(Owing(ts, pcs), Requests)
         /\ Total(Owing(ts, pcs)) \in Nat
         /\ \A r \in Requests : Owing(ts, pcs)[r] \in Nat
<1>1. \A r \in Requests : Worth[request[r].kind] \in Nat
  BY DEF TypeOK, RequestState, Kinds, Worth
<1>2. Owing(ts, pcs) \in [Requests -> Nat]
  BY <1>1 DEF Owing
<1>3. Numbered(Owing(ts, pcs), Requests)
  BY <1>2, QuizParametersOK DEF Numbered
<1>4. QED
  BY <1>2, <1>3, TotalType

\* A step of one request changes what is owed by what that request owes.
LEMMA OwingChange ==
  ASSUME TypeOK, TypeOK', NEW r \in Requests, NEW new, Become(r, new), NEW ts, NEW pcs
  PROVE  /\ Total(Owing(ts, pcs)') \in Nat /\ Owing(ts, pcs)'[r] \in Nat
         /\ Total(Owing(ts, pcs)') + Owing(ts, pcs)[r]
              = Total(Owing(ts, pcs)) + Owing(ts, pcs)'[r]
<1>1. Numbered(Owing(ts, pcs), Requests)
  BY OwingType
<1>2. request' \in [Requests -> RequestState]
  BY DEF TypeOK
<1>a. \A s \in Requests : Worth[request'[s].kind] \in Nat
  BY <1>2 DEF RequestState, Kinds, Worth
<1>3. Owing(ts, pcs)' \in [Requests -> Nat]
  BY <1>a DEF Owing
<1>4. Numbered(Owing(ts, pcs)', Requests)
  BY <1>3, QuizParametersOK DEF Numbered
<1>5. \A s \in Requests \ {r} : request'[s] = request[s]
  BY DEF Become, TypeOK
<1>6. \A s \in Requests \ {r} : Owing(ts, pcs)'[s] = Owing(ts, pcs)[s]
  BY <1>5 DEF Owing
<1>7. QED
  BY <1>1, <1>3, <1>4, <1>6, TotalType, TotalChange

\* What the passed attempts of a topic are worth.
Scored(t) == Recorded(t, "NORMAL") + Recorded(t, "ADVANCED")
ScoresOK == \A t \in Topics, k \in Kinds :
              IsFiniteSet(PassedTries(t, k)) /\ Recorded(t, k) \in Nat

\* Attempts are finite in number.
LEMMA TriesType == TypeOK => ScoresOK
<1> SUFFICES ASSUME TypeOK, NEW t \in Topics, NEW k \in Kinds
             PROVE  IsFiniteSet(PassedTries(t, k)) /\ Recorded(t, k) \in Nat
  BY DEF ScoresOK
<1>1. Len(attempts[t][k]) \in Nat /\ DOMAIN attempts[t][k] = 1 .. Len(attempts[t][k])
  BY AttemptTypes
<1>2. IsFiniteSet(DOMAIN attempts[t][k])
  BY <1>1, FS_Interval
<1>3. PassedTries(t, k) \subseteq DOMAIN attempts[t][k]
  BY DEF PassedTries
<1>4. IsFiniteSet(PassedTries(t, k)) /\ Cardinality(PassedTries(t, k)) \in Nat
  BY <1>2, <1>3, FS_Subset, FS_CardinalityType
<1>5. QED
  BY <1>4 DEF Recorded, Worth, Kinds

\* The attempts with one of some outcomes.
TriesIn(t, k, O) == {n \in DOMAIN attempts[t][k] : attempts[t][k][n] \in O}

\* A new attempt is open, and leaves the others alone.
LEMMA CreatedTries ==
  ASSUME TypeOK, NEW r \in Requests, CreateAttempt(r), NEW u \in Topics, NEW j \in Kinds,
         NEW O, "open" \notin O
  PROVE  TriesIn(u, j, O)' = TriesIn(u, j, O)
<1>1. PICK t, k : t = request[r].topic /\ k = request[r].kind
  OBVIOUS
<1> DEFINE s == attempts[t][k]
           new == Append(s, "open")
<1>2. t \in Topics /\ k \in Kinds /\ attempts' = Put(t, k, new) /\ new \in Seq(Outcomes)
  BY <1>1, CreateStep
<1>3. s \in Seq(Outcomes) /\ "open" \in Outcomes
  BY <1>2, AttemptTypes DEF Outcomes
<1>4. /\ DOMAIN s = 1 .. Len(s) /\ Len(s) \in Nat /\ DOMAIN new = 1 .. (Len(s) + 1)
      /\ \A n \in DOMAIN s : new[n] = s[n]
      /\ new[Len(s) + 1] = "open"
  BY <1>3, AppendProperties
<1> HIDE DEF new
<1>5. attempts'[t][k] = new /\ (u # t \/ j # k => attempts'[u][j] = attempts[u][j])
  BY <1>2, PutType
<1>6. CASE u = t /\ j = k
  <2>1. \A n \in DOMAIN new : n \in DOMAIN s \/ n = Len(s) + 1
    BY <1>4
  <2>2. DOMAIN s \subseteq DOMAIN new
    BY <1>4
  <2>3. {n \in DOMAIN new : new[n] \in O} = {n \in DOMAIN s : s[n] \in O}
    BY <1>4, <2>1, <2>2
  <2>4. QED
    BY <1>5, <1>6, <2>3 DEF TriesIn
<1>7. CASE u # t \/ j # k
  BY <1>5, <1>7 DEF TriesIn
<1>8. QED
  BY <1>6, <1>7

\* The first answers to an attempt add it to those with that outcome.
TriesSaved(t, k, n, o, O) ==
  /\ n \notin TriesIn(t, k, O)
  /\ TriesIn(t, k, O)' = TriesIn(t, k, O) \cup (IF o \in O THEN {n} ELSE {})
  /\ \A u \in Topics, j \in Kinds :
       u # t \/ j # k => TriesIn(u, j, O)' = TriesIn(u, j, O)

LEMMA SavedTries ==
  ASSUME TypeOK, NEW r \in Requests, Rests(r), SaveAnswers(r),
         NEW t, t = request[r].topic, NEW k, k = request[r].kind,
         NEW n, n = request[r].number, attempts[t][k][n] = "open",
         NEW o, o = IF request[r].passed THEN "passed" ELSE "failed",
         NEW O, "open" \notin O
  PROVE  t \in Topics /\ k \in Kinds /\ TriesSaved(t, k, n, o, O)
<1>1. /\ t \in Topics /\ k \in Kinds /\ n \in DOMAIN attempts[t][k]
      /\ \E s \in Seq(Outcomes) :
           Saves(s, t, k, n, IF request[r].passed THEN "passed" ELSE "failed")
  BY SaveStep
<1>2. PICK s \in Seq(Outcomes) : Saves(s, t, k, n, o)
  BY <1>1
<1>3. /\ attempts' = Put(t, k, s) /\ DOMAIN s = DOMAIN attempts[t][k] /\ s[n] = o
      /\ \A j \in DOMAIN s : j # n => s[j] = attempts[t][k][j]
  BY <1>2 DEF Saves
<1>4. /\ attempts'[t][k] = s
      /\ \A u \in Topics, j \in Kinds : u # t \/ j # k => attempts'[u][j] = attempts[u][j]
  <2>1. t \in Topics /\ k \in Kinds /\ s \in Seq(Outcomes)
    BY <1>1, <1>2
  <2>2. Put(t, k, s)[t][k] = s
    BY <2>1, PutType
  <2>3. \A u \in Topics, j \in Kinds :
          u # t \/ j # k => Put(t, k, s)[u][j] = attempts[u][j]
    BY <2>1, PutType
  <2>4. QED
    BY <1>3, <2>2, <2>3
<1>5. n \notin TriesIn(t, k, O)
  BY DEF TriesIn
<1>6. TriesIn(t, k, O)' = {j \in DOMAIN s : s[j] \in O}
  BY <1>4 DEF TriesIn
<1>7. {j \in DOMAIN s : s[j] \in O} = TriesIn(t, k, O) \cup (IF o \in O THEN {n} ELSE {})
  BY <1>1, <1>3 DEF TriesIn
<1>8. \A u \in Topics, j \in Kinds :
        u # t \/ j # k => TriesIn(u, j, O)' = TriesIn(u, j, O)
  BY <1>1, <1>4 DEF TriesIn
<1>9. QED
  BY <1>1, <1>5, <1>6, <1>7, <1>8 DEF TriesSaved

\* Where no passed attempt comes or goes, nothing is scored.
LEMMA SameScore ==
  ASSUME NEW t \in Topics, \A k \in Kinds : PassedTries(t, k)' = PassedTries(t, k)
  PROVE  Scored(t)' = Scored(t)
BY DEF Scored, Recorded, Kinds

\* Answers that pass score what the quiz is worth.
LEMMA SavedScore ==
  ASSUME TypeOK, NEW r \in Requests, Rests(r), SaveAnswers(r), ~ resubmitted',
         NEW u \in Topics
  PROVE  Scored(u)' = Scored(u) + (IF request[r].topic = u /\ request[r].passed
                                   THEN Worth[request[r].kind] ELSE 0)
<1>1. PICK t, k, n : t = request[r].topic /\ k = request[r].kind /\ n = request[r].number
  OBVIOUS
<1>2. /\ t \in Topics /\ k \in Kinds /\ n \notin PassedTries(t, k)
      /\ PassedTries(t, k)' = IF request[r].passed THEN PassedTries(t, k) \cup {n}
                                                   ELSE PassedTries(t, k)
      /\ \A v \in Topics, j \in Kinds :
           v # t \/ j # k => PassedTries(v, j)' = PassedTries(v, j)
  <2>1. attempts[t][k][n] = "open"
    BY <1>1 DEF SaveAnswers
  <2>2. PICK o, O : o = (IF request[r].passed THEN "passed" ELSE "failed") /\ O = {"passed"}
    OBVIOUS
  <2>3. t \in Topics /\ k \in Kinds /\ TriesSaved(t, k, n, o, O)
    BY <1>1, <2>1, <2>2, SavedTries
  <2>4. \A v, j : /\ TriesIn(v, j, O) = PassedTries(v, j)
                  /\ TriesIn(v, j, O)' = PassedTries(v, j)'
    BY <2>2 DEF TriesIn, PassedTries
  <2>5. QED
    BY <2>2, <2>3, <2>4 DEF TriesSaved
<1>3. CASE t = u /\ request[r].passed
  <2>1. IsFiniteSet(PassedTries(t, k))
    BY <1>2, TriesType DEF ScoresOK
  <2>2. /\ Cardinality(PassedTries(t, k) \cup {n}) = Cardinality(PassedTries(t, k)) + 1
        /\ Cardinality(PassedTries(t, k)) \in Nat
    BY <1>2, <2>1, FS_AddElement, FS_CardinalityType
  <2>3. Cardinality(PassedTries(t, k)') = Cardinality(PassedTries(t, k)) + 1
    BY <1>2, <1>3, <2>2
  <2>4. Recorded(t, k)' = Recorded(t, k) + Worth[k]
    BY <1>2, <2>2, <2>3 DEF Recorded, Worth, Kinds
  <2>5. \A j \in Kinds : Recorded(t, j) \in Nat
    BY <1>2, TriesType DEF ScoresOK
  <2>6. \A j \in Kinds : j # k => Recorded(t, j)' = Recorded(t, j)
    BY <1>2 DEF Recorded
  <2>7. Worth[k] \in Nat
    BY <1>2 DEF Worth, Kinds
  <2>8. Scored(t)' = Scored(t) + Worth[k]
    BY <1>2, <2>4, <2>5, <2>6, <2>7 DEF Scored, Kinds
  <2>9. QED
    BY <1>1, <1>3, <2>8
<1>4. CASE ~ (t = u /\ request[r].passed)
  <2>1. \A j \in Kinds : PassedTries(u, j)' = PassedTries(u, j)
    BY <1>2, <1>4
  <2>2. Scored(u)' = Scored(u)
    BY <2>1, SameScore
  <2>3. Scored(u) \in Nat
    BY TriesType DEF Scored, ScoresOK, Kinds
  <2>4. QED
    BY <1>1, <1>4, <2>2, <2>3
<1>5. QED
  BY <1>3, <1>4

\* What a request owes after it went on, or ended.
LEMMA OwingMoves ==
  ASSUME TypeOK, NEW r \in Requests, NEW ts, NEW pcs, "idle" \notin pcs
  PROVE  /\ request[r].pc \notin pcs => Owing(ts, pcs)[r] = 0
         /\ Finish(r) => Owing(ts, pcs)'[r] = 0
         /\ \A p \in PCs : Go(r, p) =>
              Owing(ts, pcs)'[r] =
                IF request[r].topic \in ts /\ p \in pcs /\ request[r].passed
                THEN Worth[request[r].kind] ELSE 0
<1>1. request \in [Requests -> RequestState]
  BY DEF TypeOK
<1>2. Finish(r) => request'[r].pc = "idle"
  BY <1>1, RecordSteps, IdleType DEF Become
<1>3. ASSUME NEW p \in PCs, Go(r, p)
      PROVE  /\ request'[r].pc = p /\ request'[r].topic = request[r].topic
             /\ request'[r].kind = request[r].kind /\ request'[r].passed = request[r].passed
  <2>1. request'[r] = [request[r] EXCEPT !.pc = p]
    BY <1>1, <1>3, RecordSteps DEF Become
  <2>2. QED
    BY <1>1, <2>1, RecordSteps
<1>4. QED
  BY <1>2, <1>3 DEF Owing

\* A request moves what it owes from the attempts to the points.
Adding == {"count", "read", "topic"}

LEMMA TopicAccount ==
  ASSUME QuizInv, TypeOK', NEW r \in Requests, Serve(r), ~ resubmitted',
         NEW t \in Topics
  PROVE  LET owed == Owing({t}, Adding)[r]
             owes == Owing({t}, Adding)'[r]
         IN  /\ topicPoints'[t] + owes + Scored(t) <= topicPoints[t] + owed + Scored(t)'
             /\ ~ Crashes =>
                  topicPoints'[t] + owes + Scored(t) = topicPoints[t] + owed + Scored(t)'
<1>1. /\ TypeOK /\ Rests(r) /\ request \in [Requests -> RequestState]
      /\ request[r] \in RequestState
      /\ request[r].topic \in Topics /\ request[r].kind \in Kinds
      /\ request[r].passed \in BOOLEAN
      /\ "idle" \notin Adding
  BY DEF QuizInv, TypeOK, RequestState, Adding
<1> DEFINE owed == Owing({t}, Adding)[r]
           owes == Owing({t}, Adding)'[r]
           mine == IF request[r].topic = t /\ request[r].passed
                   THEN Worth[request[r].kind] ELSE 0
<1>2. /\ topicPoints[t] \in Nat /\ topicPoints'[t] \in Nat
      /\ mine \in Nat /\ owed \in Nat /\ owes \in Nat
      /\ Scored(t) \in Nat /\ Scored(t)' \in Nat
  <2>1. topicPoints[t] \in Nat /\ topicPoints'[t] \in Nat
    BY <1>1 DEF TypeOK
  <2>2. mine \in Nat
    BY <1>1 DEF Worth, Kinds
  <2>3. owed \in Nat /\ owes \in Nat
    <3>1. PICK new : Become(r, new)
      BY <1>1, RequestStep
    <3>2. QED
      BY <1>1, <3>1, OwingType, OwingChange
  <2>4. ScoresOK /\ ScoresOK'
    <3>1. TypeOK' => ScoresOK'
      BY TriesType, PTL
    <3>2. QED
      BY <1>1, <3>1, TriesType
  <2>5. Scored(t) \in Nat /\ Scored(t)' \in Nat
    BY <1>1, <2>4 DEF ScoresOK, Scored, Kinds
  <2>6. QED
    BY <2>1, <2>2, <2>3, <2>5
<1>3. owed = IF request[r].pc \in Adding THEN mine ELSE 0
  BY DEF Owing
<1>4. /\ Finish(r) => owes = 0
      /\ \A p \in PCs : Go(r, p) => owes = IF p \in Adding THEN mine ELSE 0
  BY <1>1, OwingMoves
<1>5. ASSUME attempts' = attempts PROVE Scored(t)' = Scored(t)
  BY <1>5, SameScore DEF PassedTries
<1> HIDE DEF owed, owes, mine
<1>6. ASSUME UNCHANGED <<topicPoints, attempts>>, owed = owes
      PROVE  topicPoints'[t] + owes + Scored(t) = topicPoints[t] + owed + Scored(t)'
  BY <1>5, <1>6
<1>7. CASE \/ \E u \in Topics, k \in Kinds : AskQuiz(r, u, k)
           \/ \E u \in Topics, k \in Kinds :
                \E n \in DOMAIN attempts[u][k], pass \in BOOLEAN : Submit(r, u, k, n, pass)
  <2>1. UNCHANGED <<topicPoints, attempts>> /\ request[r].pc = "idle"
    BY <1>7 DEF AskQuiz, Submit, At, dataVars, pointVars, quizVars
  <2>2. request'[r].pc \notin Adding
    <3>1. ASSUME NEW u \in Topics, NEW k \in Kinds, AskQuiz(r, u, k)
          PROVE  request'[r].pc \notin Adding
      <4>1. request'[r] = [Idle EXCEPT !.pc = "asking", !.topic = u, !.kind = k]
        BY <1>1, <3>1 DEF AskQuiz, Become
      <4>2. QED
        BY <4>1, IdleType DEF RequestState, Adding
    <3>2. ASSUME NEW u \in Topics, NEW k \in Kinds, NEW n, NEW pass \in BOOLEAN,
                 Submit(r, u, k, n, pass)
          PROVE  request'[r].pc \notin Adding
      <4>1. request'[r] = [Idle EXCEPT !.pc = "save", !.topic = u, !.kind = k,
                             !.number = n, !.passed = pass]
        BY <1>1, <3>2 DEF Submit, Become
      <4>2. QED
        BY <4>1, IdleType DEF RequestState, Adding
    <3>3. QED
      BY <1>7, <3>1, <3>2
  <2>3. owed = 0 /\ owes = 0
    BY <1>3, <2>1, <2>2 DEF owed, owes, Owing, Adding
  <2>4. QED
    BY <1>2, <1>6, <2>1, <2>3 DEF owed, owes
<1>8. CASE NoQuiz(r) \/ NumberTaken(r) \/ MarkPassed(r)
  <2>1. UNCHANGED <<topicPoints, attempts>> /\ request[r].pc \notin Adding /\ Finish(r)
    BY <1>8
         DEF NoQuiz, NumberTaken, MarkPassed, At, Adding, dataVars, pointVars, quizVars
  <2>2. QED
    BY <1>2, <1>3, <1>4, <1>6, <2>1 DEF owed, owes
<1>9. CASE TakeNumber(r)
  <2>1. UNCHANGED <<topicPoints, attempts>> /\ request[r].pc = "asking"
    BY <1>9 DEF TakeNumber, dataVars, pointVars, quizVars
  <2>2. request'[r].pc = "create"
    BY <1>1, <1>9 DEF TakeNumber, Become, RequestState
  <2>3. owed = 0 /\ owes = 0
    BY <1>3, <2>1, <2>2 DEF owed, owes, Owing, Adding
  <2>4. QED
    BY <1>2, <1>6, <2>1, <2>3 DEF owed, owes
<1>10. CASE CreateAttempt(r)
  <2>1. topicPoints' = topicPoints /\ request[r].pc \notin Adding /\ Finish(r)
    BY <1>10 DEF CreateAttempt, Adding, pointVars
  <2>2. \A k \in Kinds : PassedTries(t, k)' = PassedTries(t, k)
    <3>1. \A k \in Kinds : TriesIn(t, k, {"passed"})' = TriesIn(t, k, {"passed"})
      BY <1>1, <1>10, CreatedTries
    <3>2. QED
      BY <3>1 DEF TriesIn, PassedTries
  <2>3. Scored(t)' = Scored(t)
    BY <2>2, SameScore
  <2>4. QED
    BY <1>2, <1>3, <1>4, <2>1, <2>3 DEF owed, owes
<1>11. CASE SaveAnswers(r)
  <2>1. topicPoints' = topicPoints /\ request[r].pc \notin Adding /\ Go(r, "count")
    BY <1>11 DEF SaveAnswers, Adding, pointVars
  <2>2. owed = 0 /\ owes = mine
    BY <1>3, <1>4, <2>1 DEF Adding, PCs
  <2>3. Scored(t)' = Scored(t) + mine
    BY <1>1, <1>11, SavedScore DEF mine
  <2>4. QED
    BY <1>2, <2>1, <2>2, <2>3 DEF owed, owes
<1>12. CASE CountTry(r)
  <2>1. UNCHANGED <<topicPoints, attempts>> /\ request[r].pc = "count"
    BY <1>12 DEF CountTry, quizVars
  <2>2. owed = owes
    <3>1. CASE request[r].passed
      BY <1>3, <1>4, <1>12, <2>1, <3>1 DEF CountTry, Adding, PCs
    <3>2. CASE ~ request[r].passed
      BY <1>3, <1>4, <1>12, <3>2 DEF CountTry, mine
    <3>3. QED
      BY <3>1, <3>2
  <2>3. QED
    BY <1>2, <1>6, <2>1, <2>2 DEF owed, owes
<1>13. CASE ReadProgress(r)
  <2>1. UNCHANGED <<topicPoints, attempts>> /\ request[r].pc = "read"
    BY <1>13 DEF ReadProgress, dataVars, pointVars, quizVars
  <2>2. request'[r] = [request[r] EXCEPT !.pc = "topic", !.seen = status[request[r].topic]]
    BY <1>1, <1>13 DEF ReadProgress, Become
  <2>3. /\ request'[r].pc = "topic" /\ request'[r].topic = request[r].topic
        /\ request'[r].kind = request[r].kind /\ request'[r].passed = request[r].passed
    BY <1>1, <2>2 DEF RequestState
  <2>4. owed = owes
    BY <2>1, <2>3 DEF owed, owes, Owing, Adding
  <2>5. QED
    BY <1>2, <1>6, <2>1, <2>4 DEF owed, owes
<1>14. CASE EarnTopicPoints(r)
  <2>1. /\ attempts' = attempts /\ request[r].pc = "topic" /\ Go(r, "subject")
        /\ topicPoints' = [topicPoints EXCEPT ![request[r].topic] =
                             topicPoints[request[r].topic] + Worth[request[r].kind]]
    BY <1>14 DEF EarnTopicPoints, quizVars
  <2>2. request[r].passed
    BY <1>1, <2>1 DEF Rests, Answering
  <2>3. topicPoints'[t] = topicPoints[t] + mine
    BY <1>1, <1>2, <2>1, <2>2 DEF mine, TypeOK
  <2>4. owed = mine /\ owes = 0
    BY <1>3, <1>4, <2>1 DEF Adding, PCs
  <2>5. QED
    BY <1>2, <1>5, <2>1, <2>3, <2>4 DEF owed, owes
<1>15. CASE EarnSubjectPoints(r)
  <2>1. /\ UNCHANGED <<topicPoints, attempts>> /\ request[r].pc = "subject"
        /\ Go(r, "mark")
    BY <1>15 DEF EarnSubjectPoints, quizVars
  <2>2. owed = 0 /\ owes = 0
    BY <1>3, <1>4, <2>1 DEF Adding, PCs
  <2>3. QED
    BY <1>2, <1>6, <2>1, <2>2 DEF owed, owes
<1>16. CASE Crash(r)
  <2>1. UNCHANGED <<topicPoints, attempts>> /\ Crashes /\ owes = 0
    BY <1>4, <1>16 DEF Crash, dataVars, pointVars, quizVars
  <2>2. QED
    BY <1>2, <1>5, <2>1 DEF owed, owes
<1>17. QED
  BY <1>7, <1>8, <1>9, <1>10, <1>11, <1>12, <1>13, <1>14, <1>15, <1>16
     DEF Serve, GenerateQuiz, SubmitQuiz

\* The steps that are not of a request leave the topics' points, the attempts
\* and the requests alone.
LEMMA LedgersStay ==
  ASSUME [Next]_vars, \A r \in Requests : ~ Serve(r)
  PROVE  UNCHANGED <<topicPoints, attempts, resubmitted, request>>
<1>1. CASE \/ \E t \in Topics : MarkViewed(t)
           \/ \E t \in Topics, k \in Kinds : CooldownOver(t, k)
           \/ LadderStep \/ UNCHANGED vars
  BY <1>1 DEF MarkViewed, CooldownOver, LadderStep, vars, dataVars, pointVars, quizVars
<1>2. QED
  BY <1>1 DEF Next, Serve

\* Answers that were sent twice were sent twice.
LEMMA StaysResubmitted ==
  ASSUME QuizInv, [Next]_vars, ~ resubmitted' PROVE ~ resubmitted
BY Grows

\* Every step keeps each topic's account.
LEMMA TopicStep ==
  ASSUME QuizInv, TopicLedger, TypeOK', [Next]_vars
  PROVE  TopicLedger'
<1> SUFFICES ASSUME ~ resubmitted', NEW t \in Topics
             PROVE  LET added == topicPoints'[t] + Total(Owing({t}, Adding)')
                    IN  added <= Scored(t)' /\ (~ Crashes => added = Scored(t)')
  BY DEF TopicLedger, Scored, Adding
<1> DEFINE due == Total(Owing({t}, Adding))
           dues == Total(Owing({t}, Adding)')
<1>1. TypeOK /\ ~ resubmitted
  BY StaysResubmitted DEF QuizInv
<1>2. topicPoints[t] + due <= Scored(t) /\ (~ Crashes => topicPoints[t] + due = Scored(t))
  BY <1>1 DEF TopicLedger, Scored, Adding
<1>3. CASE \A r \in Requests : ~ Serve(r)
  <2>1. UNCHANGED <<topicPoints, attempts, request>>
    BY <1>3, LedgersStay
  <2>2. Owing({t}, Adding)' = Owing({t}, Adding)
    BY <2>1 DEF Owing
  <2>3. Scored(t)' = Scored(t)
    BY <2>1, SameScore DEF PassedTries
  <2>4. QED
    BY <1>2, <2>1, <2>2, <2>3
<1>4. ASSUME NEW r \in Requests, Serve(r)
      PROVE  LET added == topicPoints'[t] + dues
             IN  added <= Scored(t)' /\ (~ Crashes => added = Scored(t)')
  <2> DEFINE owed == Owing({t}, Adding)[r]
             owes == Owing({t}, Adding)'[r]
  <2>1. PICK new : Become(r, new)
    BY <1>1, <1>4, RequestStep
  <2>2. /\ dues + owed = due + owes
        /\ dues \in Nat /\ owes \in Nat
    BY <1>1, <2>1, OwingChange
  <2>3. due \in Nat /\ owed \in Nat
    BY <1>1, OwingType
  <2>4. /\ topicPoints'[t] + owes + Scored(t) <= topicPoints[t] + owed + Scored(t)'
        /\ ~ Crashes =>
             topicPoints'[t] + owes + Scored(t) = topicPoints[t] + owed + Scored(t)'
    BY <1>4, TopicAccount
  <2>5. topicPoints[t] \in Nat /\ topicPoints'[t] \in Nat
    BY <1>1 DEF TypeOK
  <2>6. Scored(t) \in Nat
    BY <1>1, TriesType DEF ScoresOK, Scored, Kinds
  <2>7. Scored(t)' \in Nat
    <3>1. TypeOK' => ScoresOK'
      BY TriesType, PTL
    <3>2. QED
      BY <3>1 DEF ScoresOK, Scored, Kinds
  <2> HIDE DEF due, dues, owed, owes
  <2>8. QED
    BY <1>2, <2>2, <2>3, <2>4, <2>5, <2>6, <2>7
<1>5. QED
  BY <1>3, <1>4

\* The row of the first enrolment was there before, with the same points, and
\* any other starts without points.
LEMMA FirstRow ==
  ASSUME TypeOK, LadderStep
  PROVE  /\ points' \in {points, 0}
         /\ enrolled' /\ enrolment' = 1 => enrolled /\ enrolment = 1 /\ points' = points
<1>1. enrolment \in Nat \ {0}
  BY QuizParametersOK DEF TypeOK, Ladder!TypeOK
<1>2. ASSUME NEW c \in Checks, Ladder!CheckLevel(c) PROVE UNCHANGED <<enrolled, enrolment>>
  BY <1>2 DEF Ladder!CheckLevel, Ladder!ReadLevel, Ladder!LevelReached,
     Ladder!LevelRefused, Ladder!RaiseLevel, Ladder!CompleteSubject, Ladder!RowGone,
     Ladder!CheckDies, Ladder!rowVars
<1>3. CASE Ladder!Enroll
  BY <1>1, <1>3 DEF Ladder!Enroll, LadderStep
<1>4. CASE Ladder!Leave
  BY <1>4 DEF Ladder!Leave, LadderStep
<1>5. CASE Ladder!EnrollElsewhere
  BY <1>5 DEF Ladder!EnrollElsewhere, LadderStep
<1>6. CASE \E c \in Checks : Ladder!CheckLevel(c)
  BY <1>2, <1>6 DEF LadderStep
<1>7. QED
  BY <1>3, <1>4, <1>5, <1>6 DEF LadderStep, Ladder!Enrolling

\* What is still to be added to the subject's points.
Owed == Total(Owing(Topics, {"subject"}))
SubjectOwing(r) == Owing(Topics, {"subject"})[r]

\* A request moves what it owes from the topics' points to the subject's.
LEMMA SubjectAccount ==
  ASSUME QuizInv, TypeOK', NEW r \in Requests, Serve(r)
  PROVE  /\ UNCHANGED <<enrolled, enrolment>>
         /\ SubjectOwing(r) \in Nat /\ SubjectOwing(r)' \in Nat
         /\ Total(topicPoints) \in Nat /\ Total(topicPoints') \in Nat
         /\ points' + SubjectOwing(r)' + Total(topicPoints)
              <= points + SubjectOwing(r) + Total(topicPoints')
         /\ enrolled /\ ~ Crashes =>
              points' + SubjectOwing(r)' + Total(topicPoints)
                = points + SubjectOwing(r) + Total(topicPoints')
<1>1. /\ TypeOK /\ Rests(r) /\ request \in [Requests -> RequestState]
      /\ request[r] \in RequestState
      /\ request[r].topic \in Topics /\ request[r].kind \in Kinds
      /\ request[r].passed \in BOOLEAN /\ "idle" \notin {"subject"}
      /\ points \in Nat /\ points' \in Nat
  BY DEF QuizInv, TypeOK, RequestState
<1> DEFINE mine == Worth[request[r].kind]
<1>2. mine \in Nat
  BY <1>1 DEF Worth, Kinds
<1>3. SubjectOwing(r) \in Nat /\ SubjectOwing(r)' \in Nat
  <2>1. PICK new : Become(r, new)
    BY <1>1, RequestStep
  <2>2. QED
    BY <1>1, <2>1, OwingType, OwingChange DEF SubjectOwing
<1>4. Numbered(topicPoints, Topics) /\ Numbered(topicPoints', Topics)
  BY <1>1, QuizParametersOK DEF Numbered, TypeOK
<1>5. Total(topicPoints) \in Nat /\ Total(topicPoints') \in Nat
  BY <1>4, TotalType
<1>6. UNCHANGED <<enrolled, enrolment>>
  <2>1. UNCHANGED rowVars
    BY DEF Serve, GenerateQuiz, SubmitQuiz, Crash, AskQuiz, NoQuiz, TakeNumber,
       CreateAttempt, NumberTaken, Submit, SaveAnswers, CountTry, ReadProgress,
       EarnTopicPoints, EarnSubjectPoints, MarkPassed, dataVars, learnerVars
  <2>2. QED
    BY <2>1 DEF rowVars
<1>7. SubjectOwing(r) = IF request[r].pc = "subject" /\ request[r].passed THEN mine ELSE 0
  BY <1>1 DEF Owing, SubjectOwing
<1>8. /\ Finish(r) => SubjectOwing(r)' = 0
      /\ \A p \in PCs : Go(r, p) =>
           SubjectOwing(r)' = IF p = "subject" /\ request[r].passed THEN mine ELSE 0
  <2>1. /\ Finish(r) => Owing(Topics, {"subject"})'[r] = 0
        /\ \A p \in PCs : Go(r, p) =>
             Owing(Topics, {"subject"})'[r] =
               IF request[r].topic \in Topics /\ p \in {"subject"} /\ request[r].passed
               THEN Worth[request[r].kind] ELSE 0
    BY <1>1, OwingMoves
  <2>2. QED
    BY <1>1, <2>1 DEF SubjectOwing
<1> HIDE DEF mine
<1>9. ASSUME UNCHANGED <<points, topicPoints>>, SubjectOwing(r)' = SubjectOwing(r)
      PROVE  /\ points' + SubjectOwing(r)' + Total(topicPoints)
                  <= points + SubjectOwing(r) + Total(topicPoints')
             /\ points' + SubjectOwing(r)' + Total(topicPoints)
                  = points + SubjectOwing(r) + Total(topicPoints')
  BY <1>1, <1>3, <1>5, <1>9
<1>10. CASE EarnTopicPoints(r)
  <2>1. /\ points' = points /\ request[r].pc = "topic" /\ Go(r, "subject")
        /\ topicPoints' = [topicPoints EXCEPT ![request[r].topic] =
                             topicPoints[request[r].topic] + mine]
    BY <1>10 DEF EarnTopicPoints, mine
  <2>2. request[r].passed
    BY <1>1, <2>1 DEF Rests, Answering
  <2>3. SubjectOwing(r) = 0 /\ SubjectOwing(r)' = mine
    BY <1>7, <1>8, <2>1, <2>2 DEF PCs
  <2>4. PICK t \in Topics : t = request[r].topic
    BY <1>1
  <2>5. /\ topicPoints[t] \in Nat /\ topicPoints'[t] = topicPoints[t] + mine
        /\ \A u \in Topics \ {t} : topicPoints'[u] = topicPoints[u]
    BY <1>1, <2>1, <2>4 DEF TypeOK
  <2>6. Total(topicPoints') + topicPoints[t] = Total(topicPoints) + topicPoints'[t]
    BY <1>4, <2>5, TotalChange
  <2>7. Total(topicPoints') = Total(topicPoints) + mine
    BY <1>2, <1>5, <2>5, <2>6
  <2>8. QED
    BY <1>1, <1>2, <1>3, <1>5, <1>6, <2>1, <2>3, <2>7
<1>11. CASE EarnSubjectPoints(r)
  <2>1. /\ topicPoints' = topicPoints /\ request[r].pc = "subject" /\ Go(r, "mark")
        /\ points' = IF enrolled THEN points + mine ELSE points
    BY <1>11 DEF EarnSubjectPoints, mine
  <2>2. request[r].passed
    BY <1>1, <2>1 DEF Rests, Answering
  <2>3. SubjectOwing(r) = mine /\ SubjectOwing(r)' = 0
    BY <1>7, <1>8, <2>1, <2>2 DEF PCs
  <2>4. QED
    BY <1>1, <1>2, <1>3, <1>5, <1>6, <2>1, <2>3
<1>12. CASE Crash(r)
  <2>1. UNCHANGED <<points, topicPoints>> /\ Crashes /\ SubjectOwing(r)' = 0
    BY <1>8, <1>12 DEF Crash, dataVars, pointVars
  <2>2. QED
    BY <1>1, <1>3, <1>5, <1>6, <2>1
<1>13. ASSUME ~ EarnTopicPoints(r), ~ EarnSubjectPoints(r), ~ Crash(r)
       PROVE  UNCHANGED <<points, topicPoints>> /\ SubjectOwing(r)' = SubjectOwing(r)
  <2>1. UNCHANGED <<points, topicPoints>> /\ request[r].pc # "subject"
    BY <1>13 DEF Serve, GenerateQuiz, SubmitQuiz, AskQuiz, NoQuiz, TakeNumber,
       CreateAttempt, NumberTaken, Submit, SaveAnswers, CountTry, ReadProgress,
       MarkPassed, At, dataVars, pointVars
  <2>2. request'[r].pc # "subject"
    <3>1. CASE Finish(r)
      BY <1>1, <3>1, RecordSteps, IdleType DEF Become
    <3>2. ASSUME NEW p \in {"count", "read"}, Go(r, p)
          PROVE  request'[r].pc # "subject"
      <4>1. request'[r] = [request[r] EXCEPT !.pc = p]
        BY <1>1, <3>2 DEF Go, Become
      <4>2. QED
        BY <1>1, <4>1 DEF RequestState
    <3>3. ASSUME NEW t \in Topics, NEW k \in Kinds, AskQuiz(r, t, k)
          PROVE  request'[r].pc # "subject"
      <4>1. request'[r] = [Idle EXCEPT !.pc = "asking", !.topic = t, !.kind = k]
        BY <1>1, <3>3 DEF AskQuiz, Become
      <4>2. QED
        BY <4>1, IdleType DEF RequestState
    <3>4. ASSUME NEW t \in Topics, NEW k \in Kinds, NEW n, NEW pass \in BOOLEAN,
                 Submit(r, t, k, n, pass)
          PROVE  request'[r].pc # "subject"
      <4>1. request'[r] = [Idle EXCEPT !.pc = "save", !.topic = t, !.kind = k,
                             !.number = n, !.passed = pass]
        BY <1>1, <3>4 DEF Submit, Become
      <4>2. QED
        BY <4>1, IdleType DEF RequestState
    <3>5. CASE TakeNumber(r)
      BY <1>1, <3>5 DEF TakeNumber, Become, RequestState
    <3>6. CASE ReadProgress(r)
      BY <1>1, <3>6 DEF ReadProgress, Become, RequestState
    <3>7. QED
      BY <1>13, <3>1, <3>2, <3>3, <3>4, <3>5, <3>6 DEF Serve, GenerateQuiz, SubmitQuiz,
         NoQuiz, CreateAttempt, NumberTaken, SaveAnswers, CountTry, MarkPassed
  <2>3. SubjectOwing(r) = 0 /\ SubjectOwing(r)' = 0
    BY <1>7, <2>1, <2>2 DEF SubjectOwing, Owing
  <2>4. QED
    BY <2>1, <2>3
<1>14. QED
  BY <1>3, <1>5, <1>6, <1>9, <1>10, <1>11, <1>12, <1>13

\* Every step keeps the subject's account.
LEMMA SubjectStep ==
  ASSUME QuizInv, SubjectLedger, TypeOK', [Next]_vars
  PROVE  SubjectLedger'
<1>1. TypeOK
  BY DEF QuizInv
<1>2. /\ points + Owed <= Total(topicPoints)
      /\ enrolled /\ enrolment = 1 /\ ~ Crashes => points + Owed = Total(topicPoints)
  BY DEF SubjectLedger, Owed
<1>3. points \in Nat /\ points' \in Nat /\ Owed \in Nat /\ Total(topicPoints) \in Nat
  <2>1. Numbered(topicPoints, Topics)
    BY <1>1, QuizParametersOK DEF Numbered, TypeOK
  <2>2. QED
    BY <1>1, <2>1, OwingType, TotalType DEF TypeOK, Owed
<1>4. CASE \A r \in Requests : ~ Serve(r)
  <2>1. topicPoints' = topicPoints /\ request' = request
    BY <1>4, LedgersStay
  <2>2. Owed' = Owed
    BY <2>1 DEF Owed, Owing
  <2>3. /\ points' <= points
        /\ enrolled' /\ enrolment' = 1 => enrolled /\ enrolment = 1 /\ points' = points
    <3>1. CASE LadderStep
      BY <1>1, <1>3, <3>1, FirstRow
    <3>2. CASE ~ LadderStep
      <4>1. UNCHANGED <<rowVars, points>>
        BY <1>4, <3>2 DEF Next, Serve, MarkViewed, CooldownOver, vars, dataVars,
           learnerVars, pointVars
      <4>2. QED
        BY <1>3, <4>1 DEF rowVars
    <3>3. QED
      BY <3>1, <3>2
  <2>4. /\ points' + Owed' <= Total(topicPoints')
        /\ enrolled' /\ enrolment' = 1 /\ ~ Crashes => points' + Owed' = Total(topicPoints')
    BY <1>2, <1>3, <2>1, <2>2, <2>3
  <2>5. QED
    BY <2>4 DEF SubjectLedger, Owed
<1>5. ASSUME NEW r \in Requests, Serve(r) PROVE SubjectLedger'
  <2>1. PICK new : Become(r, new)
    BY <1>1, <1>5, RequestStep
  <2>2. /\ Owed' + SubjectOwing(r) = Owed + SubjectOwing(r)'
        /\ Owed' \in Nat
    BY <1>1, <2>1, OwingChange DEF Owed, SubjectOwing
  <2>3. /\ UNCHANGED <<enrolled, enrolment>>
        /\ SubjectOwing(r) \in Nat /\ SubjectOwing(r)' \in Nat
        /\ Total(topicPoints') \in Nat
        /\ points' + SubjectOwing(r)' + Total(topicPoints)
             <= points + SubjectOwing(r) + Total(topicPoints')
        /\ enrolled /\ ~ Crashes =>
             points' + SubjectOwing(r)' + Total(topicPoints)
               = points + SubjectOwing(r) + Total(topicPoints')
    BY <1>5, SubjectAccount
  <2>4. /\ points' + Owed' <= Total(topicPoints')
        /\ enrolled' /\ enrolment' = 1 /\ ~ Crashes => points' + Owed' = Total(topicPoints')
    BY <1>2, <1>3, <2>2, <2>3
  <2>5. QED
    BY <2>4 DEF SubjectLedger, Owed
<1>6. QED
  BY <1>4, <1>5

\* Nothing is owed and nobody has points at first.
LEMMA LedgersInit ==
  ASSUME Init PROVE TopicLedger /\ SubjectLedger
<1>1. TypeOK
  BY QuizInit DEF QuizInv
<1>2. \A r \in Requests : request[r].pc = "idle"
  BY IdleType DEF Init
<1>3. ASSUME NEW ts, NEW pcs, "idle" \notin pcs PROVE Total(Owing(ts, pcs)) = 0
  <2>1. \A r \in Requests : Owing(ts, pcs)[r] = 0
    BY <1>2, <1>3 DEF Owing
  <2>2. Numbered(Owing(ts, pcs), Requests)
    BY <1>1, OwingType
  <2>3. QED
    BY <2>1, <2>2, TotalType
<1>4. Total(topicPoints) = 0
  <2>1. Numbered(topicPoints, Topics)
    BY <1>1, QuizParametersOK DEF Numbered, TypeOK
  <2>2. \A t \in Topics : topicPoints[t] = 0
    BY DEF Init
  <2>3. QED
    BY <2>1, <2>2, TotalType
<1>5. ASSUME NEW t \in Topics, NEW k \in Kinds PROVE Recorded(t, k) = 0
  <2>1. attempts[t][k] = <<>>
    BY DEF Init
  <2>2. PassedTries(t, k) = {}
    BY <2>1 DEF PassedTries
  <2>3. QED
    BY <2>2, FS_EmptySet DEF Recorded, Worth, Kinds
<1>6. TopicLedger
  <2>1. "idle" \notin {"count", "read", "topic"}
    OBVIOUS
  <2>2. \A t \in Topics : Total(Owing({t}, {"count", "read", "topic"})) = 0
    BY <1>3, <2>1
  <2>3. \A t \in Topics : topicPoints[t] = 0
    BY DEF Init
  <2>4. QED
    BY <1>5, <2>2, <2>3 DEF TopicLedger, Kinds
<1>7. SubjectLedger
  BY <1>3, <1>4 DEF SubjectLedger, Init
<1>8. QED
  BY <1>6, <1>7

\* LedgerInv is inductive.
LEMMA LedgerStep ==
  ASSUME LedgerInv, [Next]_vars PROVE LedgerInv'
<1>1. QuizInv' /\ TypeOK'
  BY QuizStep DEF LedgerInv, QuizInv
<1>2. QED
  BY <1>1, TopicStep, SubjectStep DEF LedgerInv

-----------------------------------------------------------------------------
(* One request at a time for each topic *)

\* Requests that are under way are for different topics.
Separate ==
  \A r, s \in Requests :
    /\ request[r].pc # "idle" /\ request[s].pc # "idle"
    /\ request[r].topic = request[s].topic
    => r = s

\* What a request has read is still so when it writes.
Alone(r) ==
  LET q == request[r] IN
  /\ q.pc \in {"asking", "create"} => <<q.topic, q.kind>> \notin cooling
  /\ q.pc = "save" => attempts[q.topic][q.kind][q.number] = "open"
  /\ q.pc \in {"topic", "subject", "mark"} => q.seen = status[q.topic]

\* The answered attempts at a quiz, and whether one of them is not counted yet.
Answered(t, k) == TriesIn(t, k, {"passed", "failed"})
Counting(t, k) == \E r \in Requests :
                    request[r].pc = "count" /\ request[r].topic = t /\ request[r].kind = k
Counted(t, k) == tries[t][k] + (IF Counting(t, k) THEN 1 ELSE 0) <= Cardinality(Answered(t, k))

\* The inductive invariant of requests that are Separate.
SoloInv ==
  /\ QuizInv
  /\ \A r \in Requests : Alone(r)
  /\ \A t \in Topics, k \in Kinds : Counted(t, k)

\* Answered attempts are finite in number.
LEMMA AnsweredType ==
  ASSUME TypeOK, NEW t \in Topics, NEW k \in Kinds
  PROVE  /\ IsFiniteSet(Answered(t, k)) /\ Cardinality(Answered(t, k)) \in Nat
         /\ Answered(t, k) = {n \in DOMAIN attempts[t][k] : attempts[t][k][n] # "open"}
<1>1. /\ Len(attempts[t][k]) \in Nat /\ DOMAIN attempts[t][k] = 1 .. Len(attempts[t][k])
      /\ attempts[t][k] \in Seq(Outcomes)
  BY AttemptTypes
<1>2. IsFiniteSet(DOMAIN attempts[t][k])
  BY <1>1, FS_Interval
<1>3. Answered(t, k) \subseteq DOMAIN attempts[t][k]
  BY DEF Answered, TriesIn
<1>4. \A n \in DOMAIN attempts[t][k] : attempts[t][k][n] \in {"open", "passed", "failed"}
  BY <1>1 DEF Outcomes
<1>5. QED
  BY <1>2, <1>3, <1>4, FS_Subset, FS_CardinalityType DEF Answered, TriesIn

\* A request steps on with what it has just read, or had read before.
LEMMA AloneMoves ==
  ASSUME SoloInv, NEW r \in Requests, Serve(r)
  PROVE  Alone(r)'
<1>1. /\ TypeOK /\ Alone(r) /\ request \in [Requests -> RequestState]
      /\ request[r] \in RequestState /\ request[r].topic \in Topics
  BY DEF SoloInv, QuizInv, TypeOK, RequestState
<1>2. ASSUME Finish(r) PROVE Alone(r)'
  <2>1. request'[r].pc = "idle"
    BY <1>1, <1>2, IdleType, RecordSteps DEF Become
  <2>2. QED
    BY <2>1 DEF Alone
<1>3. ASSUME NEW t \in Topics, NEW k \in Kinds, AskQuiz(r, t, k) PROVE Alone(r)'
  <2>1. request'[r] = [Idle EXCEPT !.pc = "asking", !.topic = t, !.kind = k]
    BY <1>1, <1>3 DEF AskQuiz, Become
  <2>2. request'[r].pc = "asking" /\ request'[r].topic = t /\ request'[r].kind = k
    BY <2>1, IdleType DEF RequestState
  <2>3. <<t, k>> \notin cooling /\ cooling' = cooling
    BY <1>3 DEF AskQuiz, dataVars, quizVars
  <2>4. QED
    BY <2>2, <2>3 DEF Alone
<1>4. CASE TakeNumber(r)
  <2>1. /\ request'[r].pc = "create" /\ request'[r].topic = request[r].topic
        /\ request'[r].kind = request[r].kind
    BY <1>1, <1>4 DEF TakeNumber, Become, RequestState
  <2>2. cooling' = cooling /\ request[r].pc = "asking"
    BY <1>4 DEF TakeNumber, dataVars, quizVars
  <2>3. QED
    BY <1>1, <2>1, <2>2 DEF Alone
<1>5. ASSUME NEW t \in Topics, NEW k \in Kinds, NEW n, NEW pass \in BOOLEAN,
             Submit(r, t, k, n, pass)
      PROVE  Alone(r)'
  <2>1. request'[r] = [Idle EXCEPT !.pc = "save", !.topic = t, !.kind = k,
                         !.number = n, !.passed = pass]
    BY <1>1, <1>5 DEF Submit, Become
  <2>2. /\ request'[r].pc = "save" /\ request'[r].topic = t /\ request'[r].kind = k
        /\ request'[r].number = n
    BY <2>1, IdleType DEF RequestState
  <2>3. attempts[t][k][n] = "open" /\ attempts' = attempts
    BY <1>5 DEF Submit, dataVars, quizVars
  <2>4. QED
    BY <2>2, <2>3 DEF Alone
<1>6. ASSUME NEW p \in {"count", "read"}, Go(r, p) PROVE Alone(r)'
  <2>1. request'[r] = [request[r] EXCEPT !.pc = p]
    BY <1>1, <1>6 DEF Go, Become
  <2>2. request'[r].pc = p
    BY <1>1, <2>1 DEF RequestState
  <2>3. QED
    BY <2>2 DEF Alone
<1>7. CASE ReadProgress(r)
  <2>1. request'[r] = [request[r] EXCEPT !.pc = "topic", !.seen = status[request[r].topic]]
    BY <1>1, <1>7 DEF ReadProgress, Become
  <2>2. /\ request'[r].pc = "topic" /\ request'[r].topic = request[r].topic
        /\ request'[r].seen = status[request[r].topic]
    BY <1>1, <2>1 DEF RequestState
  <2>3. status' = status
    BY <1>7 DEF ReadProgress, dataVars, learnerVars
  <2>4. QED
    BY <2>2, <2>3 DEF Alone
<1>8. ASSUME NEW p \in {"subject", "mark"}, Go(r, p), status' = status,
             request[r].pc \in {"topic", "subject"}
      PROVE  Alone(r)'
  <2>1. request'[r] = [request[r] EXCEPT !.pc = p]
    BY <1>1, <1>8 DEF Go, Become
  <2>2. /\ request'[r].pc = p /\ request'[r].topic = request[r].topic
        /\ request'[r].seen = request[r].seen
    BY <1>1, <2>1 DEF RequestState
  <2>3. QED
    BY <1>1, <1>8, <2>2 DEF Alone
<1>9. CASE EarnTopicPoints(r) \/ EarnSubjectPoints(r)
  <2>1. \/ request[r].pc = "topic" /\ Go(r, "subject")
        \/ request[r].pc = "subject" /\ Go(r, "mark")
    BY <1>9 DEF EarnTopicPoints, EarnSubjectPoints
  <2>2. status' = status
    BY <1>9 DEF EarnTopicPoints, EarnSubjectPoints, learnerVars
  <2>3. QED
    BY <1>8, <2>1, <2>2
<1>10. QED
  BY <1>2, <1>3, <1>4, <1>5, <1>6, <1>7, <1>9
       DEF Serve, GenerateQuiz, SubmitQuiz, NoQuiz,
     CreateAttempt, NumberTaken, SaveAnswers, CountTry, MarkPassed, Crash

\* A step of a request is nothing to the others.
LEMMA OthersStay ==
  ASSUME TypeOK, NEW s \in Requests, Serve(s), NEW r \in Requests, r # s
  PROVE  request'[r] = request[r]
<1>1. PICK new \in RequestState : Become(s, new)
  BY RequestStep
<1>2. QED
  BY <1>1 DEF Become, TypeOK

\* What a request writes is of its own topic.
LEMMA WritesOwn ==
  ASSUME SoloInv, NEW s \in Requests, Serve(s),
         NEW t \in Topics, NEW k \in Kinds, request[s].pc # "idle" => request[s].topic # t
  PROVE  /\ attempts'[t][k] = attempts[t][k] /\ status'[t] = status[t]
         /\ <<t, k>> \in cooling' => <<t, k>> \in cooling
<1>1. TypeOK /\ Rests(s) /\ status \in [Topics -> Ladder!TopicStatus]
  BY DEF SoloInv, QuizInv, TypeOK, Ladder!TypeOK, Topics, Ladder!Topics
<1>2. [Next]_vars
  BY DEF Next, Serve
<1>3. CASE CreateAttempt(s)
  <2>1. PICK u, j, new : /\ u = request[s].topic /\ j = request[s].kind
                         /\ new = Append(attempts[u][j], "open")
    OBVIOUS
  <2>2. u \in Topics /\ j \in Kinds /\ attempts' = Put(u, j, new) /\ new \in Seq(Outcomes)
    BY <1>1, <1>3, <2>1, CreateStep
  <2>3. t # u /\ cooling' = cooling \cup {<<u, j>>} /\ status' = status
    BY <1>3, <2>1 DEF CreateAttempt, learnerVars
  <2>4. attempts'[t][k] = attempts[t][k]
    BY <1>1, <2>2, <2>3, PutType
  <2>5. QED
    BY <2>3, <2>4
<1>4. CASE SaveAnswers(s)
  <2>1. PICK u, j, n : u = request[s].topic /\ j = request[s].kind /\ n = request[s].number
    OBVIOUS
  <2>2. /\ u \in Topics /\ j \in Kinds
        /\ \E new \in Seq(Outcomes) :
             Saves(new, u, j, n, IF request[s].passed THEN "passed" ELSE "failed")
    BY <1>1, <1>4, <2>1, SaveStep
  <2>3. PICK new \in Seq(Outcomes) : attempts' = Put(u, j, new)
    BY <2>2 DEF Saves
  <2>4. t # u /\ cooling' = cooling /\ status' = status
    BY <1>4, <2>1 DEF SaveAnswers, learnerVars
  <2>5. attempts'[t][k] = attempts[t][k]
    BY <1>1, <2>2, <2>3, <2>4, PutType
  <2>6. QED
    BY <2>4, <2>5
<1>5. CASE MarkPassed(s)
  <2>1. t # request[s].topic /\ UNCHANGED <<attempts, cooling>>
    BY <1>5 DEF MarkPassed, quizVars
  <2>2. status'[t] = status[t]
    BY <1>1, <1>5, <2>1 DEF MarkPassed
  <2>3. QED
    BY <2>1, <2>2
<1>6. CASE ~ CreateAttempt(s) /\ ~ SaveAnswers(s) /\ ~ MarkPassed(s)
  BY <1>6 DEF Serve, GenerateQuiz, SubmitQuiz, Crash, AskQuiz, NoQuiz, TakeNumber,
     NumberTaken, Submit, CountTry, ReadProgress, EarnTopicPoints, EarnSubjectPoints,
     dataVars, quizVars, learnerVars
<1>7. QED
  BY <1>3, <1>4, <1>5, <1>6

\* What a request has read stays, as nobody else writes at its topic.
LEMMA AloneStays ==
  ASSUME Separate, SoloInv, NEW s \in Requests, Serve(s), NEW r \in Requests, r # s
  PROVE  Alone(r)'
<1>1. request'[r] = request[r]
  BY OthersStay DEF SoloInv, QuizInv
<1>2. CASE request[r].pc = "idle"
  BY <1>1, <1>2 DEF Alone
<1>3. CASE request[r].pc # "idle"
  <2>1. PICK t, k : t = request[r].topic /\ k = request[r].kind
    OBVIOUS
  <2>2. t \in Topics /\ k \in Kinds
    BY <2>1 DEF SoloInv, QuizInv, TypeOK, RequestState
  <2>3. request[s].pc # "idle" => request[s].topic # t
    BY <1>3, <2>1 DEF Separate
  <2>4. /\ attempts'[t][k] = attempts[t][k] /\ status'[t] = status[t]
        /\ <<t, k>> \in cooling' => <<t, k>> \in cooling
    BY <2>2, <2>3, WritesOwn
  <2>5. Alone(r)
    BY DEF SoloInv
  <2>6. QED
    BY <1>1, <2>1, <2>4, <2>5 DEF Alone
<1>4. QED
  BY <1>2, <1>3

\* Only CountTry writes the tries, and answers only SaveAnswers.
LEMMA TriesStay ==
  ASSUME SoloInv, [Next]_vars, \A r \in Requests : ~ CountTry(r) /\ ~ SaveAnswers(r),
         NEW t \in Topics, NEW k \in Kinds
  PROVE  tries' = tries /\ Answered(t, k)' = Answered(t, k)
<1>1. ASSUME NEW r \in Requests, Serve(r) PROVE tries' = tries
  BY <1>1 DEF Serve, GenerateQuiz, SubmitQuiz, Crash, AskQuiz, NoQuiz, TakeNumber,
     CreateAttempt, NumberTaken, Submit, ReadProgress, EarnTopicPoints,
     EarnSubjectPoints, MarkPassed, dataVars, pointVars
<1>2. ASSUME \/ \E u \in Topics : MarkViewed(u)
             \/ \E u \in Topics, j \in Kinds : CooldownOver(u, j)
             \/ LadderStep \/ UNCHANGED vars
      PROVE  tries' = tries
  BY <1>2 DEF MarkViewed, CooldownOver, LadderStep, vars, dataVars, pointVars
<1>3. tries' = tries
  BY <1>1, <1>2 DEF Next, Serve
<1>4. ASSUME NEW r \in Requests, CreateAttempt(r) PROVE Answered(t, k)' = Answered(t, k)
  <2>1. "open" \notin {"passed", "failed"}
    OBVIOUS
  <2>2. QED
    BY <1>4, <2>1, CreatedTries DEF Answered, SoloInv, QuizInv
<1>5. ASSUME \A r \in Requests : ~ CreateAttempt(r) PROVE Answered(t, k)' = Answered(t, k)
  <2>1. attempts' = attempts
    BY <1>5, AttemptsStay
  <2>2. QED
    BY <2>1 DEF Answered, TriesIn
<1>6. QED
  BY <1>3, <1>4, <1>5

\* Each answered attempt is counted at most once.
LEMMA CountedStep ==
  ASSUME Separate, SoloInv, [Next]_vars, NEW t \in Topics, NEW k \in Kinds
  PROVE  Counted(t, k)'
<1>1. /\ TypeOK /\ request \in [Requests -> RequestState] /\ Counted(t, k)
      /\ tries[t][k] \in Nat /\ Cardinality(Answered(t, k)) \in Nat
  BY AnsweredType DEF SoloInv, QuizInv, TypeOK
<1>2. ASSUME NEW r \in Requests, SaveAnswers(r) PROVE Counted(t, k)'
  <2>1. PICK u, j, n : u = request[r].topic /\ j = request[r].kind /\ n = request[r].number
    OBVIOUS
  <2>2. PICK o, O : /\ o = (IF request[r].passed THEN "passed" ELSE "failed")
                    /\ O = {"passed", "failed"}
    OBVIOUS
  <2>3. Rests(r) /\ attempts[u][j][n] = "open" /\ "open" \notin O /\ o \in O
    BY <1>2, <2>1, <2>2 DEF SoloInv, QuizInv, Alone, SaveAnswers
  <2>4. u \in Topics /\ j \in Kinds /\ TriesSaved(u, j, n, o, O)
    BY <1>1, <1>2, <2>1, <2>2, <2>3, SavedTries
  <2>5. /\ n \notin Answered(u, j) /\ Answered(u, j)' = Answered(u, j) \cup {n}
        /\ t # u \/ k # j => Answered(t, k)' = Answered(t, k)
    BY <2>2, <2>3, <2>4 DEF TriesSaved, Answered
  <2>6. tries' = tries /\ request[r].pc = "save" /\ Go(r, "count")
    BY <1>2 DEF SaveAnswers, pointVars
  <2>7. request'[r] = [request[r] EXCEPT !.pc = "count"]
    BY <1>1, <2>6 DEF Go, Become
  <2>8. /\ request'[r].pc = "count" /\ request'[r].topic = u /\ request'[r].kind = j
    BY <1>1, <2>1, <2>7 DEF RequestState
  <2>9. /\ t = u /\ k = j => ~ Counting(t, k)
        /\ t # u \/ k # j => (Counting(t, k)' => Counting(t, k))
    <3>1. \A s \in Requests : s # r => request'[s] = request[s]
      BY <1>1, <1>2, OthersStay DEF Serve, SubmitQuiz
    <3>2. QED
      BY <2>1, <2>6, <2>8, <3>1 DEF Counting, Separate
  <2>10. CASE t = u /\ k = j
    <3>1. Cardinality(Answered(t, k)') = Cardinality(Answered(t, k)) + 1
      BY <1>1, <2>5, <2>10, AnsweredType, FS_AddElement
    <3>2. QED
      BY <1>1, <2>6, <2>9, <3>1 DEF Counted
  <2>11. CASE t # u \/ k # j
    BY <1>1, <2>5, <2>6, <2>9, <2>11 DEF Counted
  <2>12. QED
    BY <2>10, <2>11
<1>3. ASSUME NEW r \in Requests, CountTry(r) PROVE Counted(t, k)'
  <2>1. PICK u, j : u = request[r].topic /\ j = request[r].kind
    OBVIOUS
  <2>2. /\ request[r].pc = "count" /\ attempts' = attempts
        /\ tries' = [tries EXCEPT ![u][j] = @ + 1]
    BY <1>3, <2>1 DEF CountTry, quizVars
  <2>3. Answered(t, k)' = Answered(t, k)
    BY <2>2 DEF Answered, TriesIn
  <2>4. tries'[t][k] = IF t = u /\ k = j THEN tries[t][k] + 1 ELSE tries[t][k]
    BY <1>1, <2>2 DEF TypeOK
  <2>5. request'[r].pc # "count"
    <3>1. CASE Finish(r)
      BY <1>1, <3>1, IdleType, RecordSteps DEF Become
    <3>2. CASE Go(r, "read")
      <4>1. request'[r] = [request[r] EXCEPT !.pc = "read"]
        BY <1>1, <3>2 DEF Go, Become
      <4>2. QED
        BY <1>1, <4>1 DEF RequestState
    <3>3. QED
      BY <1>3, <3>1, <3>2 DEF CountTry
  <2>6. /\ t = u /\ k = j => Counting(t, k) /\ ~ Counting(t, k)'
        /\ Counting(t, k)' => Counting(t, k)
    <3>1. \A s \in Requests : s # r => request'[s] = request[s]
      BY <1>1, <1>3, OthersStay DEF Serve, SubmitQuiz
    <3>2. QED
      BY <2>1, <2>2, <2>5, <3>1 DEF Counting, Separate
  <2>7. QED
    BY <1>1, <2>3, <2>4, <2>6 DEF Counted
<1>4. CASE \A r \in Requests : ~ CountTry(r) /\ ~ SaveAnswers(r)
  <2>1. tries' = tries /\ Answered(t, k)' = Answered(t, k)
    BY <1>4, TriesStay
  <2>2. Counting(t, k)' => Counting(t, k)
    <3>1. ASSUME NEW r \in Requests, Serve(r) PROVE request'[r].pc # "count"
      <4>1. request[r] \in RequestState
        BY <1>1
      <4>2. CASE Finish(r)
        BY <1>1, <4>2, IdleType, RecordSteps DEF Become
      <4>3. ASSUME NEW u \in Topics, NEW j \in Kinds, AskQuiz(r, u, j)
            PROVE  request'[r].pc # "count"
        <5>1. request'[r] = [Idle EXCEPT !.pc = "asking", !.topic = u, !.kind = j]
          BY <1>1, <4>3 DEF AskQuiz, Become
        <5>2. QED
          BY <5>1, IdleType DEF RequestState
      <4>4. ASSUME NEW u \in Topics, NEW j \in Kinds, NEW n, NEW pass \in BOOLEAN,
                   Submit(r, u, j, n, pass)
            PROVE  request'[r].pc # "count"
        <5>1. request'[r] = [Idle EXCEPT !.pc = "save", !.topic = u, !.kind = j,
                               !.number = n, !.passed = pass]
          BY <1>1, <4>4 DEF Submit, Become
        <5>2. QED
          BY <5>1, IdleType DEF RequestState
      <4>5. CASE TakeNumber(r) \/ ReadProgress(r)
        BY <1>1, <4>1, <4>5 DEF TakeNumber, ReadProgress, Become, RequestState
      <4>6. ASSUME NEW p \in {"subject", "mark"}, Go(r, p) PROVE request'[r].pc # "count"
        <5>1. request'[r] = [request[r] EXCEPT !.pc = p]
          BY <1>1, <4>6 DEF Go, Become
        <5>2. QED
          BY <4>1, <5>1 DEF RequestState
      <4>7. QED
        BY <1>4, <3>1, <4>2, <4>3, <4>4, <4>5, <4>6 DEF Serve, GenerateQuiz, SubmitQuiz,
           NoQuiz, CreateAttempt, NumberTaken, EarnTopicPoints, EarnSubjectPoints,
           MarkPassed, Crash
    <3>2. CASE \E r \in Requests : Serve(r)
      <4>1. PICK r \in Requests : Serve(r)
        BY <3>2
      <4>2. \A s \in Requests : s # r => request'[s] = request[s]
        BY <1>1, <4>1, OthersStay
      <4>3. QED
        BY <3>1, <4>1, <4>2 DEF Counting
    <3>3. CASE \A r \in Requests : ~ Serve(r)
      BY <3>3, LedgersStay DEF Counting
    <3>4. QED
      BY <3>2, <3>3
  <2>3. QED
    BY <1>1, <2>1, <2>2 DEF Counted
<1>5. QED
  BY <1>2, <1>3, <1>4

\* SoloInv is inductive while requests are Separate.
LEMMA SoloStep ==
  ASSUME Separate, SoloInv, [Next]_vars PROVE SoloInv'
<1>1. QuizInv'
  BY QuizStep DEF SoloInv
<1>2. ASSUME NEW r \in Requests PROVE Alone(r)'
  <2>1. CASE \E s \in Requests : Serve(s)
    BY <2>1, AloneMoves, AloneStays
  <2>2. CASE \A s \in Requests : ~ Serve(s)
    <3>1. UNCHANGED <<attempts, request>>
      BY <2>2, LedgersStay
    <3>2. status' = status
      BY <2>2, StatusStays DEF Serve, SubmitQuiz
    <3>3. cooling' \subseteq cooling
      BY <2>2
           DEF Next, Serve, MarkViewed, CooldownOver, LadderStep, vars, dataVars,
               quizVars
    <3>4. QED
      BY <3>1, <3>2, <3>3 DEF SoloInv, Alone
  <2>3. QED
    BY <2>1, <2>2
<1>3. QED
  BY <1>1, <1>2, CountedStep DEF SoloInv

\* Nothing is under way at first.
LEMMA SoloInit ==
  ASSUME Init PROVE SoloInv
<1>1. QuizInv /\ TypeOK
  BY QuizInit DEF QuizInv
<1>2. \A r \in Requests : request[r].pc = "idle"
  BY IdleType DEF Init
<1>3. \A t \in Topics, k \in Kinds : tries[t][k] = 0 /\ ~ Counting(t, k)
  BY <1>2 DEF Init, Counting
<1>4. QED
  BY <1>1, <1>2, <1>3, AnsweredType DEF SoloInv, Alone, Counted

-----------------------------------------------------------------------------
(* Theorems *)

\* The learner's rows, the attempts and the local state of every request keep
\* their types, however requests and level checks interleave and die.
THEOREM QuizTypeCorrect == Spec => []TypeOK
<1>1. QuizInv => TypeOK
  BY DEF QuizInv
<1>2. QED
  BY <1>1, QuizInit, QuizStep, PTL DEF Spec

\* A topic is passed only with a passed attempt on record, and an advanced quiz
\* is asked for only where a normal one was passed and the links were viewed,
\* unless answers were sent twice.
THEOREM PassesAreRecorded == Spec => []PassIsRecorded
<1>1. QuizInv => PassIsRecorded
  BY DEF QuizInv
<1>2. QED
  BY <1>1, QuizInit, QuizStep, PTL DEF Spec

\* A topic's points are those of its passed attempts, apart from what a request
\* under way has still to add or a request that died never added, unless answers
\* were sent twice: whatever the number of requests and how they interleave.
THEOREM TopicsAddUp == Spec => []TopicLedger
<1>1. LedgerInv => TopicLedger
  BY DEF LedgerInv
<1>2. Init => LedgerInv
  BY QuizInit, LedgersInit DEF LedgerInv
<1>3. LedgerInv /\ [Next]_vars => LedgerInv'
  BY LedgerStep
<1>4. QED
  BY <1>1, <1>2, <1>3, PTL DEF Spec

\* The subject's points never exceed those of its topics, and lack nothing that
\* no request has still to add, for a learner who never left: two updates of two
\* rows without a transaction lose nothing of one another.
THEOREM SubjectAddsUp == Spec => []SubjectLedger
<1>1. LedgerInv => SubjectLedger
  BY DEF LedgerInv
<1>2. Init => LedgerInv
  BY QuizInit, LedgersInit DEF LedgerInv
<1>3. LedgerInv /\ [Next]_vars => LedgerInv'
  BY LedgerStep
<1>4. QED
  BY <1>1, <1>2, <1>3, PTL DEF Spec

\* As long as requests for one topic do not overlap, submitting is idempotent: an
\* attempt is answered, counted and paid for once, also where a request dies half
\* way, whatever is under way for other topics.
THEOREM AttemptsCountOnce == Spec /\ []Separate => []EachAttemptCountsOnce
<1>1. SoloInv => EachAttemptCountsOnce
  <2> SUFFICES ASSUME SoloInv, NEW t \in Topics, NEW k \in Kinds
               PROVE  tries[t][k] <= Cardinality({n \in DOMAIN attempts[t][k] :
                                                    attempts[t][k][n] # "open"})
    BY DEF EachAttemptCountsOnce
  <2>1. TypeOK /\ Counted(t, k) /\ tries[t][k] \in Nat
    BY DEF SoloInv, QuizInv, TypeOK
  <2>2. tries[t][k] <= Cardinality(Answered(t, k))
    BY <2>1, AnsweredType DEF Counted
  <2>3. QED
    BY <2>1, <2>2, AnsweredType
<1>2. Init => SoloInv
  BY SoloInit
<1>3. SoloInv /\ Separate /\ [Next]_vars => SoloInv'
  BY SoloStep
<1>4. QED
  BY <1>1, <1>2, <1>3, PTL DEF Spec

\* As long as requests for one topic do not overlap, no attempt is created within
\* the hour after the last one at the same quiz.
THEOREM CooldownIsKept == Spec /\ []Separate => CooldownKept
<1> DEFINE Kept == \A t \in Topics, k \in Kinds :
                     <<t, k>> \in cooling => Len(attempts'[t][k]) = Len(attempts[t][k])
<1>1. SoloInv /\ [Next]_vars => Kept
  <2> SUFFICES ASSUME SoloInv, [Next]_vars, NEW t \in Topics, NEW k \in Kinds,
                      <<t, k>> \in cooling
               PROVE  Len(attempts'[t][k]) = Len(attempts[t][k])
    OBVIOUS
  <2>1. TypeOK /\ \A r \in Requests : Rests(r) /\ Alone(r)
    BY DEF SoloInv, QuizInv
  <2>2. ASSUME NEW r \in Requests, CreateAttempt(r)
        PROVE  Len(attempts'[t][k]) = Len(attempts[t][k])
    <3>1. PICK u, j, s : /\ u = request[r].topic /\ j = request[r].kind
                         /\ s = Append(attempts[u][j], "open")
      OBVIOUS
    <3>2. u \in Topics /\ j \in Kinds /\ attempts' = Put(u, j, s) /\ s \in Seq(Outcomes)
      BY <2>1, <2>2, <3>1, CreateStep
    <3>3. u # t \/ j # k
      BY <2>1, <2>2, <3>1 DEF CreateAttempt, Alone
    <3>4. \A v \in Topics, i \in Kinds :
            v # u \/ i # j => Put(u, j, s)[v][i] = attempts[v][i]
      <4>1. u \in Topics /\ j \in Kinds /\ s \in Seq(Outcomes) /\ TypeOK
        BY <2>1, <3>2
      <4>2. QED
        BY <4>1, PutType
    <3>5. QED
      BY <3>2, <3>3, <3>4
  <2>3. ASSUME NEW r \in Requests, SaveAnswers(r)
        PROVE  Len(attempts'[t][k]) = Len(attempts[t][k])
    <3>1. PICK u, j, n : u = request[r].topic /\ j = request[r].kind /\ n = request[r].number
      OBVIOUS
    <3>2. /\ u \in Topics /\ j \in Kinds
          /\ \E s \in Seq(Outcomes) :
               Saves(s, u, j, n, IF request[r].passed THEN "passed" ELSE "failed")
      BY <2>1, <2>3, <3>1, SaveStep
    <3>3. PICK s \in Seq(Outcomes) :
            attempts' = Put(u, j, s) /\ DOMAIN s = DOMAIN attempts[u][j]
      BY <3>2 DEF Saves
    <3>4. Put(u, j, s)[u][j] = s
      BY <2>1, <3>2, <3>3, PutType
    <3>5. \A v \in Topics, i \in Kinds :
            v # u \/ i # j => Put(u, j, s)[v][i] = attempts[v][i]
      <4>1. u \in Topics /\ j \in Kinds /\ s \in Seq(Outcomes) /\ TypeOK
        BY <2>1, <3>2, <3>3
      <4>2. QED
        BY <4>1, PutType
    <3>6. Len(s) = Len(attempts[u][j])
      <4>1. attempts[u][j] \in Seq(Outcomes)
        BY <2>1, <3>2, AttemptTypes
      <4>2. /\ Len(s) \in Nat /\ DOMAIN s = 1 .. Len(s) /\ Len(attempts[u][j]) \in Nat
            /\ DOMAIN attempts[u][j] = 1 .. Len(attempts[u][j])
        BY <3>3, <4>1
      <4>3. \A n1, n2 \in Nat : 1 .. n1 = 1 .. n2 => n1 <= n2
        <5>1. ASSUME NEW n1 \in Nat, NEW n2 \in Nat, 1 .. n1 = 1 .. n2, n1 # 0 PROVE n1 <= n2
          <6>1. n1 \in 1 .. n1
            BY <5>1
          <6>2. n1 \in 1 .. n2
            BY <5>1, <6>1
          <6>3. QED
            BY <6>2
        <5>2. QED
          BY <5>1
      <4>4. 1 .. Len(s) = 1 .. Len(attempts[u][j])
        BY <3>3, <4>2
      <4>5. Len(s) <= Len(attempts[u][j]) /\ Len(attempts[u][j]) <= Len(s)
        BY <4>2, <4>3, <4>4
      <4>6. QED
        BY <4>2, <4>5
    <3>7. QED
      BY <3>3, <3>4, <3>5, <3>6
  <2>4. QED
    BY <2>2, <2>3, AttemptsStay
<1>2. SoloInv /\ Separate /\ [Next]_vars => SoloInv'
  BY SoloStep
<1>3. Init => SoloInv
  BY SoloInit
<1>4. QED
  BY <1>1, <1>2, <1>3, PTL DEF Spec, CooldownKept

\* As long as requests for one topic do not overlap, it keeps its rank: a normal
\* quiz that was asked for before an advanced pass does not undo it.
THEOREM PassesAreKept == Spec /\ []Separate => PassIsKept
<1> DEFINE Kept == \A t \in Topics : Rank[status'[t]] >= Rank[status[t]]
<1>1. SoloInv /\ [Next]_vars => Kept
  <2> SUFFICES ASSUME SoloInv, [Next]_vars, NEW t \in Topics
               PROVE  Rank[status'[t]] >= Rank[status[t]]
    OBVIOUS
  <2>1. status \in [Topics -> Ladder!TopicStatus] /\ TypeOK /\ QuizInv
    BY DEF SoloInv, QuizInv, TypeOK, Ladder!TypeOK, Topics, Ladder!Topics
  <2>2. status[t] \in Ladder!TopicStatus
    BY <2>1
  <2>3. CASE status' = status
    BY <2>2, <2>3 DEF Rank, Ladder!TopicStatus
  <2>4. ASSUME NEW r \in Requests, MarkPassed(r) PROVE Rank[status'[t]] >= Rank[status[t]]
    <3>1. request[r].topic \in Topics /\ request[r].seen = status[request[r].topic]
      BY <2>1, <2>4 DEF SoloInv, TypeOK, RequestState, Alone, MarkPassed
    <3>2. CASE t # request[r].topic
      <4>1. status'[t] = status[t]
        BY <2>1, <2>4, <3>2 DEF MarkPassed
      <4>2. QED
        BY <2>2, <4>1 DEF Rank, Ladder!TopicStatus
    <3>3. CASE t = request[r].topic
      <4>1. status'[t] = IF request[r].kind = "ADVANCED" THEN "ADVANCED_PASSED"
                         ELSE IF status[t] = "NOT_STARTED" THEN "PASSED" ELSE status[t]
        BY <2>1, <2>4, <3>1, <3>3 DEF MarkPassed
      <4>2. QED
        BY <2>2, <4>1 DEF Rank, Ladder!TopicStatus
    <3>4. QED
      BY <3>2, <3>3
  <2>5. QED
    BY <2>3, <2>4, StatusStays
<1>2. SoloInv /\ Separate /\ [Next]_vars => SoloInv'
  BY SoloStep
<1>3. Init => SoloInv
  BY SoloInit
<1>4. QED
  BY <1>1, <1>2, <1>3, PTL DEF Spec, PassIsKept

\* submit_quiz writes statuses as LevelProgress assumes: a step of a request is
\* a step there that passes a topic, or none.
LEMMA LadderRefined ==
  ASSUME QuizInv, [Next]_vars
  PROVE  [Ladder!Next]_(Ladder!vars)
<1>1. CASE LadderStep
  BY <1>1 DEF LadderStep, Ladder!Next
<1>2. CASE ~ LadderStep
  <2>1. UNCHANGED <<rowVars, check>>
    BY <1>2, RowStays
  <2>2. UNCHANGED Ladder!rowVars /\ check' = check
    BY <2>1 DEF rowVars, Ladder!rowVars
  <2>3. CASE status' = status
    BY <2>2, <2>3 DEF Ladder!vars
  <2>4. CASE status' # status
    <3>1. PICK r \in Requests : MarkPassed(r)
      BY <2>4, StatusStays
    <3>2. PICK t, k : t = request[r].topic /\ k = request[r].kind
      OBVIOUS
    <3>3. /\ t \in Topics /\ k \in Kinds
          /\ k = "ADVANCED" => status[t] # "NOT_STARTED"
          /\ status' = [status EXCEPT ![t] = status'[t]]
          /\ k = "ADVANCED" => status'[t] = "ADVANCED_PASSED"
          /\ k # "ADVANCED" => status'[t] \in {"PASSED", status[t]}
      BY <3>1, <3>2, MarkStep
    <3>4. /\ status \in [Topics -> Ladder!TopicStatus]
          /\ Topics = Ladder!Topics
      BY DEF QuizInv, TypeOK, Ladder!TypeOK, Topics, Ladder!Topics
    <3>5. status'[t] # status[t]
      BY <2>4, <3>3, <3>4
    <3>6. status[t] \in {"NOT_STARTED", "PASSED", "ADVANCED_PASSED"}
      BY <3>3, <3>4 DEF Ladder!TopicStatus
    <3>7. PICK s : s = status'[t]
      OBVIOUS
    <3>8. /\ s \in {"PASSED", "ADVANCED_PASSED"} \ {status[t]}
          /\ s = "ADVANCED_PASSED" => status[t] = "PASSED"
          /\ s \in Ladder!TopicStatus
      BY <3>3, <3>5, <3>6, <3>7 DEF Ladder!TopicStatus
    <3>9. Ladder!TopicPassed(t, s)
      BY <2>2, <3>3, <3>7, <3>8 DEF Ladder!TopicPassed
    <3>10. QED
      BY <3>3, <3>4, <3>8, <3>9 DEF Ladder!Next
  <2>5. QED
    BY <2>3, <2>4
<1>3. QED
  BY <1>1, <1>2

\* Quizzes implement what LevelProgress says of them, so what is proved there
\* of levels holds with quizzes in the place of its assumption.
THEOREM QuizzesImplementLadder == Spec => ImplementsLadder
<1>1. Init => Ladder!Init
  BY DEF Init
<1>2. QED
  BY <1>1, QuizInit, QuizStep, LadderRefined, PTL
       DEF Spec, ImplementsLadder, Ladder!Spec

-----------------------------------------------------------------------------
(* Levels on top of quizzes *)

\* What is proved of LevelProgress, about the rows of this module.
Levels == INSTANCE LevelProgressProofs

\* The parameters are as it assumes.
LEMMA LevelParameters == Levels!LevelParametersOK
<1>1. Levels!IsFiniteSet(Topics)
  BY QuizParametersOK, Zenon DEF Levels!IsFiniteSet, IsFiniteSet
<1>2. QED
  BY <1>1, QuizParametersOK
     DEF Levels!LevelParametersOK, Levels!Levels, Levels!Topics, Topics

\* Both instances are of the same module: they start and step alike.
LEMMA SameSpec == Ladder!Spec => Levels!Spec
<1>1. Ladder!Init => Levels!Init
  BY Zenon DEF Ladder!Init, Levels!Init, Ladder!Topics, Levels!Topics, Ladder!Idle,
               Levels!Idle
<1>2. Ladder!Next => Levels!Next
  BY Zenon DEF Ladder!CountedAt, Levels!CountedAt, Ladder!LevelDone, Levels!LevelDone,
               Ladder!ReadLevel, Levels!ReadLevel, Ladder!LevelReached,
               Levels!LevelReached, Ladder!LevelRefused, Levels!LevelRefused,
               Ladder!SameRow, Levels!SameRow, Ladder!RaiseLevel, Levels!RaiseLevel,
               Ladder!CompleteSubject, Levels!CompleteSubject, Ladder!RowGone,
               Levels!RowGone, Ladder!CheckDies, Levels!CheckDies, Ladder!Leave,
               Levels!Leave, Ladder!Enroll, Levels!Enroll, Ladder!EnrollElsewhere,
               Levels!EnrollElsewhere, Ladder!TopicPassed, Levels!TopicPassed,
               Ladder!CheckLevel, Levels!CheckLevel, Ladder!Enrolling, Levels!Enrolling,
               Ladder!Next, Levels!Next, Ladder!Become, Levels!Become, Ladder!Idle,
               Levels!Idle, Ladder!rowVars, Levels!rowVars, Ladder!TopicStatus,
               Levels!TopicStatus, Ladder!Cardinality, Levels!Cardinality,
               Ladder!IsFiniteSet, Levels!IsFiniteSet, Ladder!TopicsAt, Levels!TopicsAt,
               Ladder!Topics, Levels!Topics, Ladder!Threshold, Levels!Threshold
<1>3. [Ladder!Next]_(Ladder!vars) => [Levels!Next]_(Levels!vars)
  BY <1>2 DEF Ladder!vars, Levels!vars, Ladder!rowVars, Levels!rowVars
<1>4. QED
  BY <1>1, <1>3, PTL DEF Ladder!Spec, Levels!Spec

\* With quizzes for what LevelProgress only assumes of them, level checks still
\* unlock no level, and complete no subject, that the levels below did not earn.
THEOREM QuizLevelsAreEarned == Spec => []Ladder!LevelEarned
<1>1. Levels!Spec => []Levels!LevelEarned
  BY LevelParameters, Levels!LevelsAreEarned
<1>2. Levels!LevelEarned => Ladder!LevelEarned
  BY Zenon DEF Ladder!LevelEarned, Levels!LevelEarned, Ladder!Levels, Levels!Levels,
               Ladder!EnoughPassed, Levels!EnoughPassed, Ladder!PassedAt,
               Levels!PassedAt, Ladder!Cardinality, Levels!Cardinality,
               Ladder!IsFiniteSet, Levels!IsFiniteSet, Ladder!TopicsAt, Levels!TopicsAt,
               Ladder!Topics, Levels!Topics, Ladder!Threshold, Levels!Threshold
<1>3. QED
  BY <1>1, <1>2, SameSpec, QuizzesImplementLadder, PTL DEF ImplementsLadder

\* With quizzes, too, an unlocked level stays unlocked within an enrolment, but
\* for a check that another one overtook.
THEOREM QuizLevelsAreKept == Spec => Ladder!LevelIsKept
<1>1. Levels!Spec => Levels!LevelIsKept
  BY LevelParameters, Levels!LevelsAreKept
<1>2. Levels!LevelIsKept => Ladder!LevelIsKept
  <2> DEFINE Kept == level' >= level /\ (completed' # completed => completed' /\ level = 3)
             A == (\A c \in Checks : ~ Levels!Outdated(c)) /\ enrolment' = enrolment
             B == (\A c \in Checks : ~ Ladder!Outdated(c)) /\ enrolment' = enrolment
  <2>1. [A => Kept]_(Levels!vars) => [B => Kept]_(Ladder!vars)
    BY DEF Ladder!vars, Levels!vars, Ladder!rowVars, Levels!rowVars, Ladder!Outdated,
           Levels!Outdated
  <2>2. QED
    BY <2>1, PTL DEF Levels!LevelIsKept, Ladder!LevelIsKept
<1>3. QED
  BY <1>1, <1>2, SameSpec, QuizzesImplementLadder, PTL DEF ImplementsLadder
=============================================================================
