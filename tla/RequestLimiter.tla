----------------------------- MODULE RequestLimiter -----------------------------
(***************************************************************************)
(* The limits of one capability at one replica (Acquire): a bounded number *)
(* of concurrent requests, and for each class of request a token bucket.   *)
(* A bucket gains a unit per unit of time and holds at most Minute units;  *)
(* a request of a class costs Minute / Budget[class] of them.  A full      *)
(* bucket is thus a burst of Budget[class], gained back in a minute.       *)
(*                                                                         *)
(* Acquire takes a slot, then a token, and gives the slot back when there  *)
(* is no token.  The two are separate critical sections, and requests of   *)
(* other goroutines may come between them.                                 *)
(***************************************************************************)
EXTENDS Integers, FiniteSets

CONSTANTS
  Callers,      \* goroutines that serve requests of the capability
  Budget,       \* class -> requests per minute
  Minute,       \* units of time in a minute
  Concurrent,   \* slots
  MaxTime       \* bound of the clock

Classes == {"read", "mutation"}

ASSUME BudgetAssumption ==
  /\ Minute \in Nat \ {0}
  /\ Budget \in [Classes -> 1 .. Minute]
  /\ \A class \in Classes : Minute % Budget[class] = 0
ASSUME LimitsAssumption == Concurrent \in Nat \ {0} /\ MaxTime \in Nat

VARIABLES
  now,        \* the clock
  bucket,     \* units in the bucket of each class
  active,     \* slots taken
  holds,      \* how far each goroutine is
  class,      \* the class of its request
  admitted    \* history: admissions of each class before each time

limiterVars == <<now, bucket, active, holds, class, admitted>>

Holdings == {"nothing", "slot", "admitted"}

\* The slots taken are those of goroutines that hold one.
LimiterTypeOK ==
  /\ now \in 0 .. MaxTime
  /\ bucket \in [Classes -> 0 .. Minute]
  /\ holds \in [Callers -> Holdings]
  /\ class \in [Callers -> Classes]
  /\ admitted \in [Classes -> [0 .. MaxTime + 1 -> Nat]]
  /\ active \in 0 .. Concurrent
  /\ active = Cardinality({q \in Callers : holds[q] # "nothing"})

LimiterInit ==
  /\ now = 0
  /\ bucket = [k \in Classes |-> Minute]
  /\ active = 0
  /\ holds = [q \in Callers |-> "nothing"]
  /\ class = [q \in Callers |-> "read"]
  /\ admitted = [k \in Classes |-> [t \in 0 .. MaxTime + 1 |-> 0]]

-----------------------------------------------------------------------------
Cost(k) == Minute \div Budget[k]

Least(a, b) == IF a < b THEN a ELSE b

\* Mutant of TakeSlot: the token is taken first, and lost when no slot is free.
TakeSlotAfterToken(q, k) ==
  /\ holds[q] = "nothing"
  /\ bucket[k] >= Cost(k)
  /\ bucket' = [bucket EXCEPT ![k] = @ - Cost(k)]
  /\ class' = [class EXCEPT ![q] = k]
  /\ IF active < Concurrent
       THEN active' = active + 1 /\ holds' = [holds EXCEPT ![q] = "slot"]
       ELSE UNCHANGED <<active, holds>>
  /\ UNCHANGED <<now, admitted>>

TakeSlot(q, k) ==
  /\ holds[q] = "nothing"
  /\ active < Concurrent
  /\ active' = active + 1
  /\ holds' = [holds EXCEPT ![q] = "slot"]
  /\ class' = [class EXCEPT ![q] = k]
  /\ UNCHANGED <<now, bucket, admitted>>

\* Allow: the bucket of the class, and no other, loses a token.
TakeToken(q) ==
  LET k == class[q]
  IN  /\ holds[q] = "slot"
      /\ bucket[k] >= Cost(k)
      /\ bucket' = [bucket EXCEPT ![k] = @ - Cost(k)]
      /\ holds' = [holds EXCEPT ![q] = "admitted"]
      /\ admitted' = [admitted EXCEPT ![k] =
           [t \in 0 .. MaxTime + 1 |-> IF t > now THEN admitted[k][t] + 1 ELSE admitted[k][t]]]
      /\ UNCHANGED <<now, active, class>>

\* Mutant of NoToken: the refusal keeps the slot.
NoTokenKeepsSlot(q) ==
  /\ holds[q] = "slot"
  /\ bucket[class[q]] < Cost(class[q])
  /\ holds' = [holds EXCEPT ![q] = "nothing"]
  /\ UNCHANGED <<now, bucket, active, class, admitted>>

\* ErrRateLimited: the slot is given back.
NoToken(q) ==
  /\ holds[q] = "slot"
  /\ bucket[class[q]] < Cost(class[q])
  /\ active' = active - 1
  /\ holds' = [holds EXCEPT ![q] = "nothing"]
  /\ UNCHANGED <<now, bucket, class, admitted>>

\* The deferred release, when the answer has been written.
Release(q) ==
  /\ holds[q] = "admitted"
  /\ active' = active - 1
  /\ holds' = [holds EXCEPT ![q] = "nothing"]
  /\ UNCHANGED <<now, bucket, class, admitted>>

\* Mutant of Refill: a bucket is filled at the turn of each minute.
RefillWhole(k) == IF (now + 1) % Minute = 0 THEN Minute ELSE bucket[k]

\* rate.NewLimiter(rate.Every(time.Minute / N), N): no more than a burst is saved up.
Refill(k) == Least(bucket[k] + 1, Minute)

Elapse ==
  /\ now < MaxTime
  /\ now' = now + 1
  /\ bucket' = [k \in Classes |-> Refill(k)]
  /\ UNCHANGED <<active, holds, class, admitted>>

LimiterNext ==
  \/ \E q \in Callers :
       \/ \E k \in Classes : TakeSlot(q, k)
       \/ TakeToken(q) \/ NoToken(q) \/ Release(q)
  \/ Elapse

LimiterSpec == LimiterInit /\ [][LimiterNext]_limiterVars

-----------------------------------------------------------------------------
\* Admissions of class k from time first to time last.
Admissions(k, first, last) == admitted[k][last + 1] - admitted[k][first]

\* A minute that starts at any time admits fewer than twice the budget of a
\* class: at most a full bucket, and what it gains before the minute is over.
MinuteWithinTwoBudgets ==
  \A k \in Classes : \A t \in 0 .. now :
    Admissions(k, t, Least(t + Minute - 1, now)) < 2 * Budget[k]

\* A token is lost only to an admission of its own class: neither a refusal, for
\* want of a slot or of a token, nor a request of the other class costs one.
OnlyAdmissionsSpend ==
  \A k \in Classes : bucket[k] + Cost(k) * Admissions(k, 0, now) >= Minute
=============================================================================
