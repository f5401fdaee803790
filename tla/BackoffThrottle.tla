--------------------------- MODULE BackoffThrottle ---------------------------
(***************************************************************************)
(* The throttle of password reset requests (config/utils/throttling.py,    *)
(* apps/core/throttles.py) for one address: a cooldown that doubles with   *)
(* every allowed request, kept in the shared cache and guarded by a lock   *)
(* of the cache that expires.                                              *)
(*                                                                         *)
(* The processes that serve requests interleave at each call of the cache. *)
(* Time is counted in units: all that is assumed of the time-outs is that  *)
(* the lock's, the first wait's and that of the count are positive.        *)
(***************************************************************************)
EXTENDS Integers, Sequences

CONSTANTS
  Requests,   \* requests for the same address
  LockTime,   \* timeout of the lock: 5 seconds
  Base,       \* base_seconds
  Longest,    \* max_seconds
  Reset,      \* reset_seconds
  MaxTime     \* bound: the clock

VARIABLES
  clock,
  lock,     \* when the lock expires; free once the clock is there
  entry,    \* the cached pair, and when it expires
  req,      \* the local variables of each request
  \* Observed, never read by an action of the program:
  grants,   \* when requests were allowed since the backoff was last forgotten
  late      \* some request was still inside when its lock expired

vars == <<clock, lock, entry, req, grants, late>>

NoEntry == [count |-> 0, last |-> 0, until |-> 0]
Out == [pc |-> "out", now |-> 0, count |-> 0, wait |-> 0]

Init ==
  /\ clock = 0 /\ lock = 0 /\ entry = NoEntry
  /\ req = [r \in Requests |-> Out]
  /\ grants = <<>> /\ late = FALSE

At(r, pc) == req[r].pc = pc
Inside(r) == ~ At(r, "out")
Held == clock < lock
\* cache.get(key, (0, 0.0)).
Cached == IF clock < entry.until THEN entry ELSE NoEntry

\* Mutant of Acquire: the lock is read and set, not added.
AcquireBlindly(r) ==
  /\ At(r, "out")
  /\ lock' = clock + LockTime
  /\ req' = [req EXCEPT ![r] = [Out EXCEPT !.pc = "read clock"]]
  /\ UNCHANGED <<clock, entry, grants, late>>

\* cache.add; who finds the lock taken is refused at once.
Acquire(r) ==
  /\ At(r, "out") /\ ~ Held
  /\ lock' = clock + LockTime
  /\ req' = [req EXCEPT ![r] = [Out EXCEPT !.pc = "read clock"]]
  /\ UNCHANGED <<clock, entry, grants, late>>

ReadClock(r) ==
  /\ At(r, "read clock")
  /\ req' = [req EXCEPT ![r].pc = "read entry", ![r].now = clock]
  /\ UNCHANGED <<clock, lock, entry, grants, late>>

\* Mutant of Delay: the wait does not grow.
DelayConstant(count) == IF count = 0 THEN 0 ELSE Base

Delay(count) ==
  LET delay == Base * 2 ^ (count - 1)
  IN  IF count = 0 THEN 0 ELSE IF delay < Longest THEN delay ELSE Longest

WaitFor(remaining) == IF remaining > 0 THEN remaining ELSE 0

\* A refusal carries the time that remains.
ReadEntry(r) ==
  /\ At(r, "read entry")
  /\ LET remaining == Cached.last + Delay(Cached.count) - req[r].now
     IN  req' = [req EXCEPT
           ![r] = [@ EXCEPT !.count = Cached.count,
                            !.wait = WaitFor(remaining),
                            !.pc = IF remaining > 0 THEN "unlock" ELSE "write"]]
  /\ UNCHANGED <<clock, lock, entry, grants, late>>

Counted(r) == req[r].count + 1

Write(r) ==
  /\ At(r, "write")
  /\ entry' = [count |-> Counted(r), last |-> req[r].now, until |-> clock + Reset]
  /\ grants' = Append(grants, req[r].now)
  /\ req' = [req EXCEPT ![r].pc = "unlock"]
  /\ UNCHANGED <<clock, lock, late>>

\* The lock is deleted, whoever holds it by now.
Unlock(r) ==
  /\ At(r, "unlock")
  /\ lock' = 0
  /\ req' = [req EXCEPT ![r] = Out]
  /\ UNCHANGED <<clock, entry, grants, late>>

\* The process dies and leaves the lock to expire.
Dies(r) ==
  /\ Inside(r)
  /\ req' = [req EXCEPT ![r] = Out]
  /\ UNCHANGED <<clock, lock, entry, grants, late>>

\* PasswordResetConfirmView forgets the backoff, without the lock.
Clear ==
  /\ entry # NoEntry
  /\ entry' = NoEntry /\ grants' = <<>>
  /\ UNCHANGED <<clock, lock, req, late>>

Tick ==
  /\ clock < MaxTime
  /\ clock' = clock + 1
  /\ late' = (late \/ (lock = clock + 1 /\ \E r \in Requests : Inside(r)))
  /\ grants' = IF entry.until = clock + 1 THEN <<>> ELSE grants
  /\ UNCHANGED <<lock, entry, req>>

Serve(r) ==
  \/ Acquire(r) \/ ReadClock(r) \/ ReadEntry(r) \/ Write(r) \/ Unlock(r) \/ Dies(r)

Next == (\E r \in Requests : Serve(r)) \/ Clear \/ Tick

Spec == Init /\ [][Next]_vars

-----------------------------------------------------------------------------
(* Properties *)

\* The values the state can take.
TypeOK ==
  /\ clock \in Nat /\ lock \in Nat
  /\ entry \in [count : Nat, last : Nat, until : Nat]
  /\ req \in [Requests ->
       [pc : {"out", "read clock", "read entry", "write", "unlock"},
        now : Nat, count : Nat, wait : Nat]]
  /\ grants \in Seq(Nat) /\ late \in BOOLEAN

\* "the lock makes the read-modify-write below atomic across processes (Redis)
\* and threads": no two requests are between taking and deleting the lock, as
\* long as none of them was slower than the lock's time.
MutualExclusion ==
  ~ late => \A r, s \in Requests : Inside(r) /\ Inside(s) => r = s

\* "The wait after the nth allowed request is min(base_seconds * 2**(n-1),
\* max_seconds)", under the same proviso: allowed requests are that far apart;
\* each is in the count that later ones read, also when the backoff is forgotten
\* while a request is under way; and a refused one is told to wait no longer
\* than the longest wait, although the entry it reads may have been written
\* after it read the clock.
BackoffKept ==
  ~ late =>
    /\ \A n \in 1 .. Len(grants) - 1 :
         LET apart == grants[n + 1] - grants[n]
         IN  apart >= Longest \/ apart >= Base * 2 ^ (n - 1)
    /\ Len(grants) <= Cached.count
    /\ \A r \in Requests : req[r].wait <= Longest
=============================================================================
