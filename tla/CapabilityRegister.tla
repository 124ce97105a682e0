------------------------- MODULE CapabilityRegister -------------------------
(***************************************************************************)
(* What the administration of Repository Capabilities promises: a register *)
(* of capabilities in which issuing, revoking and replacing a policy are   *)
(* each one indivisible step, and a permanent history of replacements.     *)
(* CapabilityStore implements it with PostgreSQL transactions; the request *)
(* path (BrokerRequests) is composed with it.                              *)
(*                                                                         *)
(* Secrets, selectors and hashes are not modelled: a capability is its id, *)
(* drawn from 12 random bytes and never issued twice.                      *)
(***************************************************************************)
EXTENDS Policy, Sequences

CONSTANTS
  Capabilities,   \* ids an issue command may draw
  Policies,       \* policies an operator may submit, malformed ones included
  Never,          \* expires_at IS NULL
  None,           \* no value: a capability without a row
  MaxTime,        \* bound of the clock
  MaxRevision     \* greatest policy_revision (bigint in the schema)

Time == 0 .. MaxTime
ValidPolicies == {policy \in Policies : ValidatePolicy(policy)}

ASSUME BoundsAssumption ==
  /\ MaxTime \in Nat
  /\ MaxRevision \in Nat \ {0}
ASSUME NeverAssumption == Never \notin Int
ASSUME PoliciesAssumption ==
  \A policy \in Policies : policy.tags \in BOOLEAN

VARIABLES
  now,      \* PostgreSQL's clock; it never runs backwards
  row,      \* pgh_capabilities: the policy columns of each capability
  events    \* pgh_capability_policy_events, per capability in id order

registerVars == <<now, row, events>>

CapabilityRow ==
  [policy : Policies, revision : 1 .. MaxRevision,
   expiresAt : Time \cup {Never}, revoked : BOOLEAN, updatedAt : Time]

ASSUME NoneAssumption == None \notin CapabilityRow

PolicyEvent ==
  [occurredAt : Time, beforeRevision : 1 .. MaxRevision, afterRevision : 1 .. MaxRevision,
   before : Policies, after : Policies, direction : ChangeDirections]

RegisterTypeOK ==
  /\ now \in Time
  /\ row \in [Capabilities -> CapabilityRow \cup {None}]
  /\ events \in [Capabilities -> Seq(PolicyEvent)]

Issued(c) == row[c] # None

Expired(r, at) == r.expiresAt # Never /\ r.expiresAt <= at

CapabilityState(r, at) ==
  IF r.revoked THEN "revoked" ELSE IF Expired(r, at) THEN "expired" ELSE "active"

\* A capability that a request may use: issued, neither revoked nor expired.
Usable(r, at) == r # None /\ CapabilityState(r, at) = "active"

\* The new columns of a capability, and the event that records the change.
Replaced(r, policy, at) ==
  [policy |-> policy, revision |-> r.revision + 1, expiresAt |-> r.expiresAt,
   revoked |-> r.revoked, updatedAt |-> at]

EventOf(r, policy, at) ==
  [occurredAt |-> at, beforeRevision |-> r.revision, afterRevision |-> r.revision + 1,
   before |-> r.policy, after |-> policy,
   direction |-> ClassifyPolicyChange(r.policy, policy)]

\* Mutant of Replaceable: revisions are not bounded.
ReplaceableUnbounded(r, policy, at) ==
  /\ CapabilityState(r, at) = "active"
  /\ policy.profile = r.policy.profile
  /\ ClassifyPolicyChange(r.policy, policy) # "unchanged"

\* A replacement of r's policy that takes effect at time "at" is accepted.
\* The last conjunct is the range of bigint.
Replaceable(r, policy, at) ==
  /\ CapabilityState(r, at) = "active"
  /\ policy.profile = r.policy.profile
  /\ ClassifyPolicyChange(r.policy, policy) # "unchanged"
  /\ r.revision < MaxRevision

-----------------------------------------------------------------------------
RegisterInit ==
  /\ now = 0
  /\ row = [c \in Capabilities |-> None]
  /\ events = [c \in Capabilities |-> <<>>]

Issue(c, policy, expiresAt) ==
  /\ ~ Issued(c)
  /\ ValidatePolicy(policy)
  /\ row' = [row EXCEPT ![c] =
       [policy |-> policy, revision |-> 1, expiresAt |-> expiresAt,
        revoked |-> FALSE, updatedAt |-> now]]
  /\ UNCHANGED <<now, events>>

\* The effective time is read inside the transaction, so it lies between the
\* previous change and the commit.
Replace(c, policy, at) ==
  /\ Issued(c)
  /\ ValidatePolicy(policy)
  /\ at \in row[c].updatedAt .. now
  /\ Replaceable(row[c], policy, at)
  /\ row' = [row EXCEPT ![c] = Replaced(@, policy, at)]
  /\ events' = [events EXCEPT ![c] = Append(@, EventOf(row[c], policy, at))]
  /\ UNCHANGED now

Revoke(c) ==
  /\ Issued(c)
  /\ ~ row[c].revoked
  /\ row' = [row EXCEPT ![c].revoked = TRUE]
  /\ UNCHANGED <<now, events>>

Tick ==
  /\ now < MaxTime
  /\ now' = now + 1
  /\ UNCHANGED <<row, events>>

Administer ==
  \E c \in Capabilities :
    \/ \E policy \in Policies, expiresAt \in Time \cup {Never} : Issue(c, policy, expiresAt)
    \/ \E policy \in Policies, at \in Time : Replace(c, policy, at)
    \/ Revoke(c)

RegisterNext == Administer \/ Tick

RegisterSpec == RegisterInit /\ [][RegisterNext]_registerVars

-----------------------------------------------------------------------------
(* What the register guarantees, and with it whatever implements it. *)

\* The history of a capability is one unbroken chain from revision 1 to the
\* current revision: every replacement starts from the policy the previous one
\* left, and the row holds what the last one wrote (no lost update).
ChainOf(r, h) ==
  /\ r.revision = Len(h) + 1
  /\ \A i \in 1 .. Len(h) : h[i].beforeRevision = i /\ h[i].afterRevision = i + 1
  /\ \A i \in 1 .. Len(h) - 1 : h[i].after = h[i + 1].before
  /\ h # <<>> => h[Len(h)].after = r.policy

HistoryChain ==
  \A c \in Capabilities :
    IF Issued(c) THEN ChainOf(row[c], events[c]) ELSE events[c] = <<>>

\* Events are dated in the order of their revisions, none at or after the
\* capability's expiry, and policy_updated_at is the date of the last one.
DatesOf(r, h) ==
  /\ \A i \in 1 .. Len(h) - 1 : h[i].occurredAt <= h[i + 1].occurredAt
  /\ \A i \in 1 .. Len(h) : ~ Expired(r, h[i].occurredAt)
  /\ h # <<>> => h[Len(h)].occurredAt = r.updatedAt

HistoryDates ==
  \A c \in Capabilities : Issued(c) => row[c].updatedAt <= now /\ DatesOf(row[c], events[c])

\* The recorded direction says truly which authority was added or removed, and
\* no replacement that changes nothing is in the history.
TrueDirection(e) ==
  /\ ValidatePolicy(e.before) /\ ValidatePolicy(e.after)
  /\ e.direction = AuthorityChange(Authority(e.before), Authority(e.after))
  /\ e.direction # "unchanged"

HistoryDirections ==
  \A c \in Capabilities :
    /\ Issued(c) => ValidatePolicy(row[c].policy)
    /\ \A i \in 1 .. Len(events[c]) : TrueDirection(events[c][i])

\* What an auditor may rely on.
TruthfulHistory == HistoryChain /\ HistoryDates /\ HistoryDirections

\* A revoked capability never changes again: a replacement that was under way
\* when the operator revoked it has either committed before or never commits.
FrozenOnceRevoked ==
  [][\A c \in Capabilities :
       (Issued(c) /\ row[c].revoked) => row'[c] = row[c] /\ events'[c] = events[c]]_registerVars
=============================================================================
