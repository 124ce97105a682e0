---------------------------- MODULE BrokerRequests ----------------------------
(***************************************************************************)
(* The request path of the Broker (ServeHTTP), composed with the register  *)
(* of capabilities.  Each request is a goroutine of one replica; it takes  *)
(* these stages, and any other request, operator or crash may come between *)
(* two of them:                                                            *)
(*                                                                         *)
(*   idle                                                                  *)
(*     -> firstRead    an authentication slot is held, capability not read *)
(*     -> observing    the Target Repository is being resolved             *)
(*     -> secondRead   the observation is stored, policy not resolved yet  *)
(*     -> admit        a Session, or a refusal, before the rate limiter    *)
(*     -> emit, record the two halves of the preflight audit               *)
(*     -> dispatch     authorize, and forward to GitHub                    *)
(*     -> upstream     waiting for GitHub                                  *)
(*     -> resultEmit, resultRecord   the deferred result audit             *)
(*     -> done                                                             *)
(*                                                                         *)
(* Every call to PostgreSQL, to the log writer and to GitHub may fail (an  *)
(* outage, or the client has gone and its context is cancelled).  A token  *)
(* with an unknown selector or a wrong secret is one of a capability that  *)
(* was never issued.  The Repository Observation itself is the subject of  *)
(* RepositoryObservation; the rate buckets of RequestLimiter.  The clocks  *)
(* of the replicas are taken to agree with PostgreSQL's.                   *)
(***************************************************************************)
EXTENDS CapabilityRegister, FiniteSets

CONSTANTS
  Requests,     \* requests that may arrive
  Replicas,     \* broker processes
  Operations,   \* [mutation : BOOLEAN, needs : set of authorities]
  AuthSlots,    \* authentication slots of a replica
  Concurrent    \* concurrent requests of a capability at a replica

ASSUME SlotsAssumption == AuthSlots \in Nat \ {0} /\ Concurrent \in Nat \ {0}
ASSUME OperationsAssumption ==
  \A op \in Operations : op.mutation \in BOOLEAN

VARIABLES
  stage,      \* where each request is
  call,       \* the replica, the capability and the operation of a request
  session,    \* the resolved Session, its policy and Policy Revision, while it lasts
  emitted,    \* revision in the structured log, per phase; 0 when absent
  recorded,   \* revision in pgh_audit_events, per phase; 0 when absent
  forwarded,  \* whether GitHub received the operation
  authUsed,   \* authentication slots taken, per replica
  active,     \* request slots taken, per replica and capability
  floor       \* history: row and clock when the observation completed, until the
              \*   second read

goroutine == <<call, session, floor>>
auditVars == <<emitted, recorded>>
slotVars == <<authUsed, active>>
requestVars == <<stage, goroutine, auditVars, forwarded, slotVars>>
vars == <<registerVars, requestVars>>

Stages == {"idle", "firstRead", "observing", "secondRead", "admit", "emit", "record",
           "dispatch", "upstream", "resultEmit", "resultRecord", "done"}
Authenticating == {"firstRead", "observing", "secondRead"}
Admitted == {"emit", "record", "dispatch", "upstream", "resultEmit", "resultRecord"}

Phases == {"preflight", "result"}

Call == [replica : Replicas, cap : Capabilities, op : Operations]
Session == [policy : Policies, revision : 1 .. MaxRevision]
Floor == [row : CapabilityRow, at : Time]

ASSUME NobodyAssumption ==
  None \notin Call \cup Session \cup Floor \cup [cap : Capabilities, op : Operations]

TypeOK ==
  /\ RegisterTypeOK
  /\ stage \in [Requests -> Stages]
  /\ call \in [Requests -> Call \cup {None}]
  /\ session \in [Requests -> Session \cup {None}]
  /\ emitted \in [Requests -> [Phases -> 0 .. MaxRevision]]
  /\ recorded \in [Requests -> [Phases -> 0 .. MaxRevision]]
  /\ forwarded \in [Requests -> BOOLEAN]
  /\ authUsed \in [Replicas -> 0 .. AuthSlots]
  /\ active \in [Replicas -> [Capabilities -> 0 .. Concurrent]]
  /\ floor \in [Requests -> Floor \cup {None}]

Init ==
  /\ RegisterInit
  /\ stage = [q \in Requests |-> "idle"]
  /\ call = [q \in Requests |-> None]
  /\ session = [q \in Requests |-> None]
  /\ emitted = [q \in Requests |-> [phase \in Phases |-> 0]]
  /\ recorded = [q \in Requests |-> [phase \in Phases |-> 0]]
  /\ forwarded = [q \in Requests |-> FALSE]
  /\ authUsed = [r \in Replicas |-> 0]
  /\ active = [r \in Replicas |-> [c \in Capabilities |-> 0]]
  /\ floor = [q \in Requests |-> None]

-----------------------------------------------------------------------------
Move(q, from, to) == stage[q] = from /\ stage' = [stage EXCEPT ![q] = to]

ReleaseAuthentication(q) ==
  authUsed' = [authUsed EXCEPT ![call[q].replica] = @ - 1]

ReleaseActive(q) ==
  active' = [active EXCEPT ![call[q].replica][call[q].cap] = @ - 1]

\* The locals of goroutines that return; what they asked for stays (history).
Forget(done) ==
  /\ session' = [q \in Requests |-> IF q \in done THEN None ELSE session[q]]
  /\ floor' = [q \in Requests |-> IF q \in done THEN None ELSE floor[q]]
  /\ UNCHANGED call

-----------------------------------------------------------------------------
(* Authentication: the slot, the two reads around the observation. *)

\* Without a free slot the answer is 429.
Arrive(q, r, c, op) ==
  /\ stage[q] = "idle"
  /\ call' = [call EXCEPT ![q] = [replica |-> r, cap |-> c, op |-> op]]
  /\ IF authUsed[r] < AuthSlots
       THEN /\ authUsed' = [authUsed EXCEPT ![r] = @ + 1]
            /\ stage' = [stage EXCEPT ![q] = "firstRead"]
       ELSE /\ stage' = [stage EXCEPT ![q] = "done"]
            /\ UNCHANGED authUsed
  /\ UNCHANGED <<registerVars, session, floor, auditVars, forwarded, active>>

\* Mutant of Refuse: the authority reads again instead of refusing.
RefuseRetries(q, from) ==
  /\ Move(q, from, "firstRead")
  /\ floor' = [floor EXCEPT ![q] = None]
  /\ UNCHANGED <<registerVars, call, session, auditVars, forwarded, slotVars>>

\* ErrCapabilityInvalid: the slot is released; the limiter comes next.
Refuse(q, from) ==
  /\ Move(q, from, "admit")
  /\ ReleaseAuthentication(q)
  /\ floor' = [floor EXCEPT ![q] = None]
  /\ UNCHANGED <<registerVars, call, session, auditVars, forwarded, active>>

FirstRead(q) ==
  /\ Move(q, "firstRead", "observing")
  /\ Usable(row[call[q].cap], now)
  /\ UNCHANGED <<registerVars, goroutine, auditVars, forwarded, slotVars>>

\* The resolver returned, and the changed observation is stored.
Observe(q) ==
  /\ Move(q, "observing", "secondRead")
  /\ floor' = [floor EXCEPT ![q] = [row |-> row[call[q].cap], at |-> now]]
  /\ UNCHANGED <<registerVars, call, session, auditVars, forwarded, slotVars>>

\* Mutant of ObserveFails: an early return that keeps the slot.
ObserveFailsKeepingSlot(q) ==
  /\ Move(q, "observing", "done")
  /\ UNCHANGED <<registerVars, goroutine, auditVars, forwarded, slotVars>>

\* ErrRepositoryIdentity, 503: from the resolver, or from storing what it returned.
ObserveFails(q) ==
  /\ Move(q, "observing", "done")
  /\ ReleaseAuthentication(q)
  /\ UNCHANGED <<registerVars, goroutine, auditVars, forwarded, active>>

\* The second read finds row r, and the Session takes its policy.
Resolved(q, r) ==
  /\ Move(q, "secondRead", "admit")
  /\ session' = [session EXCEPT ![q] = [policy |-> r.policy, revision |-> r.revision]]
  /\ floor' = [floor EXCEPT ![q] = None]
  /\ ReleaseAuthentication(q)
  /\ UNCHANGED <<registerVars, call, auditVars, forwarded, active>>

\* Mutant of SecondRead: revocation and expiry are checked by the first read only.
SecondReadUnchecked(q) == Resolved(q, row[call[q].cap])

\* Mutant of SecondRead: the Session takes the policy that was read before.
SecondReadEarlierPolicy(q) == Resolved(q, floor[q].row) /\ Usable(row[call[q].cap], now)

\* "Policy resolution linearizes at this final read."
SecondRead(q) == Resolved(q, row[call[q].cap]) /\ Usable(row[call[q].cap], now)

\* A read that fails refuses the token, as does one of an unusable capability.
Resolve(q) ==
  \/ FirstRead(q) \/ Refuse(q, "firstRead")
  \/ Observe(q) \/ ObserveFails(q)
  \/ SecondRead(q) \/ Refuse(q, "secondRead")

-----------------------------------------------------------------------------
(* Admission, audit, dispatch. *)

\* Mutant of Admit: the slots of the capability are counted and not bounded.
AdmitUnbounded(q) ==
  /\ Move(q, "admit", "emit")
  /\ session[q] # None
  /\ active' = [active EXCEPT ![call[q].replica][call[q].cap] = @ + 1]
  /\ UNCHANGED <<registerVars, goroutine, auditVars, forwarded, authUsed>>

Admit(q) ==
  /\ session[q] # None
  /\ active[call[q].replica][call[q].cap] < Concurrent
  /\ Move(q, "admit", "emit")
  /\ active' = [active EXCEPT ![call[q].replica][call[q].cap] = @ + 1]
  /\ UNCHANGED <<registerVars, goroutine, auditVars, forwarded, authUsed>>

\* 429: no slot, or no token in the bucket, of the capability or of the budget that
\* invalid tokens share; 401: an invalid token within that budget, whose slot is
\* given back before anything else happens and is left out.
Reject(q) ==
  /\ Move(q, "admit", "done")
  /\ Forget({q})
  /\ UNCHANGED <<registerVars, auditVars, forwarded, slotVars>>

\* Mutant of PreflightEmit: the event names the revision in force when it is made.
PreflightEmitCurrent(q) ==
  /\ Move(q, "emit", "record")
  /\ emitted' = [emitted EXCEPT ![q]["preflight"] = row[call[q].cap].revision]
  /\ UNCHANGED <<registerVars, goroutine, recorded, forwarded, slotVars>>

PreflightEmit(q) ==
  /\ Move(q, "emit", "record")
  /\ emitted' = [emitted EXCEPT ![q]["preflight"] = session[q].revision]
  /\ UNCHANGED <<registerVars, goroutine, recorded, forwarded, slotVars>>

PreflightRecord(q) ==
  /\ Move(q, "record", "dispatch")
  /\ recorded' = [recorded EXCEPT ![q]["preflight"] = session[q].revision]
  /\ UNCHANGED <<registerVars, goroutine, emitted, forwarded, slotVars>>

\* Mutant of PreflightUnrecorded: mutations too go on without the record.
PreflightUnrecordedAny(q) ==
  /\ Move(q, "record", "dispatch")
  /\ UNCHANGED <<registerVars, goroutine, auditVars, forwarded, slotVars>>

\* A read goes on without its durable record.
PreflightUnrecorded(q) ==
  /\ Move(q, "record", "dispatch")
  /\ ~ call[q].op.mutation
  /\ UNCHANGED <<registerVars, goroutine, auditVars, forwarded, slotVars>>

\* Mutant of PreflightFails: the result audit is deferred before the preflight.
PreflightFailsWithResult(q) ==
  /\ \/ Move(q, "emit", "resultEmit")
     \/ Move(q, "record", "resultEmit") /\ call[q].op.mutation
  /\ UNCHANGED <<registerVars, goroutine, auditVars, forwarded, slotVars>>

\* ErrAuditUnavailable, 503: of the log for any request, of PostgreSQL for mutations.
\* There is no result audit: the deferred call is registered after the preflight.
PreflightFails(q) ==
  /\ \/ Move(q, "emit", "done")
     \/ Move(q, "record", "done") /\ call[q].op.mutation
  /\ ReleaseActive(q)
  /\ Forget({q})
  /\ UNCHANGED <<registerVars, auditVars, forwarded, authUsed>>

Forward(q) ==
  /\ Move(q, "dispatch", "upstream")
  /\ Permitted(session[q].policy, call[q].op)
  /\ forwarded' = [forwarded EXCEPT ![q] = TRUE]
  /\ UNCHANGED <<registerVars, goroutine, auditVars, slotVars>>

\* No forward.  403 and 404: what the policy does not permit, or nobody registered.
\* 400, 502, 503: a path, a body or an upstream that will not do, permitted or not.
\* 200: the context of the Session, which the Broker itself serves.
AnswerHere(q) ==
  /\ Move(q, "dispatch", "resultEmit")
  /\ UNCHANGED <<registerVars, goroutine, auditVars, forwarded, slotVars>>

\* GitHub answers, or the round trip fails: 502.
Respond(q) ==
  /\ Move(q, "upstream", "resultEmit")
  /\ UNCHANGED <<registerVars, goroutine, auditVars, forwarded, slotVars>>

\* Result is best effort: either half may fail, and nobody is told.
ResultEmit(q) ==
  /\ Move(q, "resultEmit", "resultRecord")
  /\ \/ emitted' = [emitted EXCEPT ![q]["result"] = session[q].revision]
     \/ UNCHANGED emitted
  /\ UNCHANGED <<registerVars, goroutine, recorded, forwarded, slotVars>>

ResultRecord(q) ==
  /\ Move(q, "resultRecord", "done")
  /\ \/ recorded' = [recorded EXCEPT ![q]["result"] = session[q].revision]
     \/ UNCHANGED recorded
  /\ ReleaseActive(q)
  /\ Forget({q})
  /\ UNCHANGED <<registerVars, emitted, forwarded, authUsed>>

Serve(q) ==
  \/ Admit(q) \/ Reject(q)
  \/ PreflightEmit(q) \/ PreflightRecord(q) \/ PreflightUnrecorded(q) \/ PreflightFails(q)
  \/ Forward(q) \/ AnswerHere(q) \/ Respond(q)
  \/ ResultEmit(q) \/ ResultRecord(q)

\* A replica dies and is started again: its requests end without an answer, and
\* its limiter starts empty.
Crash(r) ==
  LET lost == {q \in Requests : stage[q] \in Stages \ {"idle", "done"} /\ call[q].replica = r}
  IN  /\ lost # {}
      /\ stage' = [q \in Requests |-> IF q \in lost THEN "done" ELSE stage[q]]
      /\ authUsed' = [authUsed EXCEPT ![r] = 0]
      /\ active' = [active EXCEPT ![r] = [c \in Capabilities |-> 0]]
      /\ Forget(lost)
      /\ UNCHANGED <<registerVars, auditVars, forwarded>>

Next ==
  \/ RegisterNext /\ UNCHANGED requestVars
  \/ \E q \in Requests :
       \/ \E r \in Replicas, c \in Capabilities, op \in Operations : Arrive(q, r, c, op)
       \/ Resolve(q)
       \/ Serve(q)
  \/ \E r \in Replicas : Crash(r)

Spec == Init /\ [][Next]_vars

\* A goroutine that can go on does; GitHub answers, or the reverse proxy ends
\* the request and with it the round trip.
FairSpec == Spec /\ \A q \in Requests : WF_vars(Resolve(q) \/ Serve(q))

-----------------------------------------------------------------------------
(* What the request path promises. *)

\* The policy that history records for a revision of a capability.
PolicyAt(c, revision) ==
  IF revision = row[c].revision THEN row[c].policy ELSE events[c][revision].before

\* A Session comes from a capability that was still usable when the repository
\* observation completed, and its revision is not older than the one in force
\* then: what an operator committed while the observation blocked is not missed.
ResolvedAfterObservation ==
  [][\A q \in Requests : session[q] = None /\ session'[q] # None =>
       /\ floor[q] # None
       /\ Usable(floor[q].row, floor[q].at)
       /\ session'[q].revision >= floor[q].row.revision]_vars

\* The request path implements authorization in one instant, that of the second
\* read, whatever an operator, a failure or a crash does around it: a mutation is
\* sent after its preflight is durable, and a result comes after a preflight and
\* names the same revision.
Authorized == INSTANCE AuthorizedRequests WITH
  asked    <- [q \in Requests |->
                 IF call[q] = None THEN None ELSE [cap |-> call[q].cap, op |-> call[q].op]],
  granted  <- session,
  logged   <- emitted,
  archived <- recorded,
  sent     <- forwarded

ImplementsAuthorization == Authorized!AuthorizedSpec

\* What GitHub received was permitted by the policy that the history of the
\* capability records for the revision the structured log names.
ForwardedUnderRecordedPolicy ==
  \A q \in Requests : forwarded[q] =>
    /\ emitted[q]["preflight"] # 0
    /\ Permitted(PolicyAt(call[q].cap, emitted[q]["preflight"]), call[q].op)

\* Every slot of the limiter belongs to a request that is on its way: whatever
\* return a request takes, and whatever crash, no slot is lost or freed twice.
SlotsBelongToRequests ==
  \A r \in Replicas :
    /\ authUsed[r] = Cardinality({q \in Requests :
                        stage[q] \in Authenticating /\ call[q].replica = r})
    /\ \A c \in Capabilities :
         active[r][c] = Cardinality({q \in Requests :
                          stage[q] \in Admitted /\ call[q].replica = r /\ call[q].cap = c})

\* Every request that arrives is answered or lost with its replica.
RequestsEnd == \A q \in Requests : stage[q] # "idle" ~> stage[q] = "done"
=============================================================================
