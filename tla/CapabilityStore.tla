--------------------------- MODULE CapabilityStore ---------------------------
(***************************************************************************)
(* The capability tables of PostgreSQL and the administrative processes    *)
(* that change them.  Every `pgh-broker admin` invocation is a process of  *)
(* its own with its own connection; several run at once.  A replacement is *)
(* a transaction of several statements under READ COMMITTED:               *)
(*                                                                         *)
(*   idle -> begun -> locked -> staged -> idle                             *)
(*                                                                         *)
(* It locks the row (SELECT ... FOR UPDATE OF c), reads clock_timestamp(), *)
(* decides, writes the row and the event, and commits.  Until the commit   *)
(* nobody else sees anything; a crash, a lost connection or a failed       *)
(* statement rolls back and frees the lock.  An acknowledgement that is    *)
(* lost after the commit is the commit itself: the operator who runs the   *)
(* command again begins a new transaction with the same policy.            *)
(***************************************************************************)
EXTENDS CapabilityRegister

CONSTANTS
  Admins,   \* administrative processes
  Free      \* no transaction holds the row lock

ASSUME FreeAssumption == Free \notin Admins

VARIABLES
  lock,          \* the row lock of each capability
  pc,            \* where each process is in ReplaceCapabilityPolicy
  request,       \* the capability and the policy it was called with
  current,       \* the row read under the lock
  effectiveAt    \* clock_timestamp() of the transaction

txnVars == <<lock, pc, request, current, effectiveAt>>
vars == <<now, row, events, lock, pc, request, current, effectiveAt>>

Request == [cap : Capabilities, policy : Policies]

ASSUME RequestAssumption == None \notin Request

TypeOK ==
  /\ RegisterTypeOK
  /\ lock \in [Capabilities -> Admins \cup {Free}]
  /\ pc \in [Admins -> {"idle", "begun", "locked", "staged"}]
  /\ request \in [Admins -> Request \cup {None}]
  /\ current \in [Admins -> CapabilityRow \cup {None}]
  /\ effectiveAt \in [Admins -> Time]

Init ==
  /\ RegisterInit
  /\ lock = [c \in Capabilities |-> Free]
  /\ pc = [a \in Admins |-> "idle"]
  /\ request = [a \in Admins |-> None]
  /\ current = [a \in Admins |-> None]
  /\ effectiveAt = [a \in Admins |-> 0]

\* Mutant of Finish: the deferred rollback is missing, the lock stays.
FinishWithoutRollback(a) ==
  /\ pc' = [pc EXCEPT ![a] = "idle"]
  /\ request' = [request EXCEPT ![a] = None]
  /\ current' = [current EXCEPT ![a] = None]
  /\ effectiveAt' = [effectiveAt EXCEPT ![a] = 0]
  /\ UNCHANGED lock

\* The process returns, whatever the result; the row lock it held is free and
\* its local variables are gone.
Finish(a) ==
  /\ pc' = [pc EXCEPT ![a] = "idle"]
  /\ lock' = [c \in Capabilities |-> IF lock[c] = a THEN Free ELSE lock[c]]
  /\ request' = [request EXCEPT ![a] = None]
  /\ current' = [current EXCEPT ![a] = None]
  /\ effectiveAt' = [effectiveAt EXCEPT ![a] = 0]

-----------------------------------------------------------------------------
\* CreateCapability inserts a row nobody can have locked.
IssueCapability(c, policy, expiresAt) ==
  /\ Issue(c, policy, expiresAt)
  /\ UNCHANGED txnVars

\* Mutant of RevokeCapability: the UPDATE does not wait for the row lock.
RevokeWithoutWaiting(c) == Revoke(c) /\ UNCHANGED txnVars

\* One UPDATE: it waits for the row lock and then re-reads revoked_at.
RevokeCapability(c) ==
  /\ lock[c] = Free
  /\ Revoke(c)
  /\ UNCHANGED txnVars

\* An invalid policy is refused before the transaction begins.
BeginReplace(a, c, policy) ==
  /\ pc[a] = "idle"
  /\ ValidatePolicy(policy)
  /\ pc' = [pc EXCEPT ![a] = "begun"]
  /\ request' = [request EXCEPT ![a] = [cap |-> c, policy |-> policy]]
  /\ UNCHANGED <<registerVars, lock, current, effectiveAt>>

\* Mutant of LockRow: a plain SELECT, without FOR UPDATE.
ReadRow(a) ==
  LET c == request[a].cap
  IN  /\ pc[a] = "begun"
      /\ Issued(c)
      /\ lock' = [lock EXCEPT ![c] = a]
      /\ current' = [current EXCEPT ![a] = row[c]]
      /\ pc' = [pc EXCEPT ![a] = "locked"]
      /\ UNCHANGED <<registerVars, request, effectiveAt>>

LockRow(a) ==
  LET c == request[a].cap
  IN  /\ pc[a] = "begun"
      /\ Issued(c)
      /\ lock[c] = Free
      /\ lock' = [lock EXCEPT ![c] = a]
      /\ current' = [current EXCEPT ![a] = row[c]]
      /\ pc' = [pc EXCEPT ![a] = "locked"]
      /\ UNCHANGED <<registerVars, request, effectiveAt>>

RowMissing(a) ==
  /\ pc[a] = "begun"
  /\ ~ Issued(request[a].cap)
  /\ Finish(a)
  /\ UNCHANGED registerVars

\* Mutant of Stage: the time is now(), when the transaction began, and not
\* clock_timestamp() under the lock.
StageAtTransactionStart(a) ==
  /\ pc[a] = "locked"
  /\ \E start \in 0 .. now :
       /\ Replaceable(current[a], request[a].policy, start)
       /\ effectiveAt' = [effectiveAt EXCEPT ![a] = start]
  /\ pc' = [pc EXCEPT ![a] = "staged"]
  /\ UNCHANGED <<registerVars, lock, request, current>>

\* Mutant of Stage: the state of the capability is not examined again.
StageInAnyState(a) ==
  /\ pc[a] = "locked"
  /\ ClassifyPolicyChange(current[a].policy, request[a].policy) # "unchanged"
  /\ current[a].revision < MaxRevision
  /\ effectiveAt' = [effectiveAt EXCEPT ![a] = now]
  /\ pc' = [pc EXCEPT ![a] = "staged"]
  /\ UNCHANGED <<registerVars, lock, request, current>>

\* The clock is read, the change is accepted, both statements are executed.
Stage(a) ==
  /\ pc[a] = "locked"
  /\ Replaceable(current[a], request[a].policy, now)
  /\ effectiveAt' = [effectiveAt EXCEPT ![a] = now]
  /\ pc' = [pc EXCEPT ![a] = "staged"]
  /\ UNCHANGED <<registerVars, lock, request, current>>

\* Revoked, expired, another profile, unchanged, or the revision at its limit.
Reject(a) ==
  /\ pc[a] = "locked"
  /\ ~ Replaceable(current[a], request[a].policy, now)
  /\ Finish(a)
  /\ UNCHANGED registerVars

\* The UPDATE sets the policy columns and leaves expires_at and revoked_at alone.
Commit(a) ==
  LET c == request[a].cap
      policy == request[a].policy
  IN  /\ pc[a] = "staged"
      /\ row' = [row EXCEPT ![c] =
           [policy |-> policy, revision |-> current[a].revision + 1,
            expiresAt |-> @.expiresAt, revoked |-> @.revoked,
            updatedAt |-> effectiveAt[a]]]
      /\ events' = [events EXCEPT ![c] =
           Append(@, EventOf(current[a], policy, effectiveAt[a]))]
      /\ Finish(a)
      /\ UNCHANGED now

\* The process dies, its context ends or a statement fails.
Abort(a) ==
  /\ pc[a] # "idle"
  /\ Finish(a)
  /\ UNCHANGED registerVars

Advance == Tick /\ UNCHANGED txnVars

ReplaceStep(a) == LockRow(a) \/ RowMissing(a) \/ Stage(a) \/ Reject(a) \/ Commit(a)

Next ==
  \/ Advance
  \/ \E c \in Capabilities :
       \/ \E policy \in Policies, expiresAt \in Time \cup {Never} :
            IssueCapability(c, policy, expiresAt)
       \/ RevokeCapability(c)
  \/ \E a \in Admins :
       \/ \E c \in Capabilities, policy \in Policies : BeginReplace(a, c, policy)
       \/ ReplaceStep(a)
       \/ Abort(a)

Spec == Init /\ [][Next]_vars

\* A process that runs goes on running, and PostgreSQL grants a row lock to
\* those that wait for it in turn.
FairSpec ==
  /\ Spec
  /\ \A a \in Admins : WF_vars(ReplaceStep(a)) /\ SF_vars(LockRow(a))

-----------------------------------------------------------------------------
\* No replacement waits for ever for a row another transaction has locked.
ReplacementEnds == \A a \in Admins : pc[a] # "idle" ~> pc[a] = "idle"
=============================================================================
