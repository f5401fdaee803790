------------------------------- MODULE Services -------------------------------
(***************************************************************************)
(* Parts that share no state, each on its own, in one run: the account,    *)
(* the throttle, a call of the AI layer, events, and standings.  part says *)
(* which of them moves; the others stay in an initial state.               *)
(***************************************************************************)
EXTENDS Accounts, Sequences

CONSTANTS
  LockTime, Base, Longest, Reset, MaxTime,
  Learners,
  NumUsers, MaxPoints, BoardLimit, ListLimit

\* Waits and time-outs are positive; the longest wait may be anything.
ASSUME Times ==
  /\ LockTime \in Nat \ {0} /\ Base \in Nat \ {0} /\ Longest \in Nat
  /\ Reset \in Nat \ {0} /\ MaxTime \in Nat

ASSUME Boards ==
  /\ NumUsers \in Nat /\ MaxPoints \in Nat
  /\ BoardLimit \in Nat \ {0} /\ ListLimit \in Nat \ {0}

VARIABLES
  part,
  clock, lock, entry, treq, grants, late,
  call, step, round, result, log,
  kind, status, enrolled, page, pub, silent, missed,
  points, hidden, learner

Throttle == INSTANCE BackoffThrottle WITH req <- treq
Chain == INSTANCE ProviderChain
Events == INSTANCE StatusEvents WITH Publishers <- Requests
Standings == INSTANCE Standings

throttleVars == <<clock, lock, entry, treq, grants, late>>
callVars == <<call, step, round, result, log>>
eventVars == <<kind, status, enrolled, page, pub, silent, missed>>
standingVars == <<points, hidden, learner>>
allVars == <<part, vars, throttleVars, callVars, eventVars, standingVars>>

NoStandings ==
  /\ points = [u \in Standings!Users |-> 0] /\ hidden = {}
  /\ learner = [u \in Standings!Users |->
                  [level |-> 1, enrolment |-> "LEFT", passed |-> FALSE]]

AllInit ==
  /\ part \in {"account", "throttle", "call", "events", "standings"}
  /\ Init /\ Throttle!Init /\ Chain!Init /\ Events!Init
  /\ IF part = "standings" THEN Standings!Init ELSE NoStandings

AllNext ==
  /\ UNCHANGED part
  /\ \/ /\ part = "account" /\ Next
        /\ UNCHANGED <<throttleVars, callVars, eventVars, standingVars>>
     \/ /\ part = "throttle" /\ Throttle!Next
        /\ UNCHANGED <<vars, callVars, eventVars, standingVars>>
     \/ /\ part = "call" /\ Chain!Next
        /\ UNCHANGED <<vars, throttleVars, eventVars, standingVars>>
     \/ /\ part = "events" /\ Events!Next
        /\ UNCHANGED <<vars, throttleVars, callVars, standingVars>>

AllSpec == AllInit /\ [][AllNext]_allVars

\* The lock of the throttle excludes while nobody outlasts it.
MutualExclusion == Throttle!MutualExclusion

\* Allowed requests are as far apart as the backoff says, and all are counted.
BackoffKept == Throttle!BackoffKept

\* What a caller of the AI layer gets has its reason.
ResultHasReason == Chain!ResultHasReason

\* Once publishers are done, pages show the outcome in the database.
PagesAreCurrent == Events!PagesAreCurrent

\* Ranks count the hidden, nobody who is not hidden is passed over, and learners
\* at work come before those who have only passed.
StandingsAreFair ==
  part = "standings" => Standings!RanksCountEverybody /\ Standings!CompanyComesFirst
=============================================================================
