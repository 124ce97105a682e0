-------------------------- MODULE AuthorizedRequests --------------------------
(***************************************************************************)
(* What the request path promises, with none of its steps: a request is    *)
(* authorized in one instant, by the policy in force at that instant; its  *)
(* preflight event goes to the structured log and, if it mutates, to the   *)
(* database, under the revision of that policy; only then may GitHub       *)
(* receive it, once; and a result event, if there is one, comes last and   *)
(* names the same revision.  BrokerRequests implements it with two reads   *)
(* around an observation, limits, two audit sinks that fail apart, and     *)
(* replicas that die.                                                      *)
(***************************************************************************)
EXTENDS CapabilityRegister

CONSTANTS
  Requests,     \* requests that may arrive
  Operations    \* [mutation : BOOLEAN, needs : set of authorities]

VARIABLES
  asked,     \* the capability and the operation of a request
  granted,   \* the policy and revision it is authorized under, while it lasts
  logged,    \* revision in the structured log, per phase; 0 when absent
  archived,  \* revision in the database, per phase; 0 when absent
  sent       \* whether GitHub received the operation

trailVars == <<asked, granted, logged, archived, sent>>

AuditPhases == {"preflight", "result"}

TrailInit ==
  /\ asked = [q \in Requests |-> None]
  /\ granted = [q \in Requests |-> None]
  /\ logged = [q \in Requests |-> [phase \in AuditPhases |-> 0]]
  /\ archived = [q \in Requests |-> [phase \in AuditPhases |-> 0]]
  /\ sent = [q \in Requests |-> FALSE]

Ask(q, c, op) ==
  /\ asked[q] = None
  /\ asked' = [asked EXCEPT ![q] = [cap |-> c, op |-> op]]
  /\ UNCHANGED <<registerVars, granted, logged, archived, sent>>

Grant(q) ==
  LET r == row[asked[q].cap]
  IN  /\ asked[q] # None /\ granted[q] = None /\ logged[q]["preflight"] = 0
      /\ Usable(r, now)
      /\ granted' = [granted EXCEPT ![q] = [policy |-> r.policy, revision |-> r.revision]]
      /\ UNCHANGED <<registerVars, asked, logged, archived, sent>>

\* A result is of a request whose preflight event was written.
Log(q, phase) ==
  /\ granted[q] # None /\ logged[q][phase] = 0
  /\ phase = "result" => logged[q]["preflight"] # 0
  /\ logged' = [logged EXCEPT ![q][phase] = granted[q].revision]
  /\ UNCHANGED <<registerVars, asked, granted, archived, sent>>

\* A result in the database is the last that is heard of a request.
Archive(q, phase) ==
  /\ granted[q] # None /\ logged[q]["preflight"] # 0 /\ archived[q][phase] = 0
  /\ archived' = [archived EXCEPT ![q][phase] = granted[q].revision]
  /\ granted' = IF phase = "result" THEN [granted EXCEPT ![q] = None] ELSE granted
  /\ UNCHANGED <<registerVars, asked, logged, sent>>

Send(q) ==
  /\ granted[q] # None /\ ~ sent[q]
  /\ logged[q]["preflight"] # 0 /\ logged[q]["result"] = 0 /\ archived[q]["result"] = 0
  /\ Permitted(granted[q].policy, asked[q].op)
  /\ asked[q].op.mutation => archived[q]["preflight"] # 0
  /\ sent' = [sent EXCEPT ![q] = TRUE]
  /\ UNCHANGED <<registerVars, asked, granted, logged, archived>>

\* Requests end, several at once when their replica dies.
End(over) ==
  /\ granted' = [q \in Requests |-> IF q \in over THEN None ELSE granted[q]]
  /\ UNCHANGED <<registerVars, asked, logged, archived, sent>>

AuthorizedInit == RegisterInit /\ TrailInit

AuthorizedNext ==
  \/ RegisterNext /\ UNCHANGED trailVars
  \/ \E q \in Requests :
       \/ \E c \in Capabilities, op \in Operations : Ask(q, c, op)
       \/ \E phase \in AuditPhases : Log(q, phase) \/ Archive(q, phase)
       \/ Grant(q) \/ Send(q)
  \/ \E over \in SUBSET Requests : End(over)

AuthorizedSpec == AuthorizedInit /\ [][AuthorizedNext]_<<registerVars, trailVars>>
=============================================================================
