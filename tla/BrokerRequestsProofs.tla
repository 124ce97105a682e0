------------------------- MODULE BrokerRequestsProofs -------------------------
(***************************************************************************)
(* The request path, for any requests, replicas, capabilities and bounds.  *)
(* RequestsInv is inductive.  It ties what a request holds (its Session,   *)
(* the revision in its audit events) to the history of its capability,     *)
(* which only grows, and counts the slots of the limiter by the requests   *)
(* that hold them.  The refinement of AuthorizedRequests and the three     *)
(* other properties follow from it.                                        *)
(***************************************************************************)
EXTENDS BrokerRequests, CapabilityRegisterProofs, FiniteSetTheorems

-----------------------------------------------------------------------------
(* The inductive invariant. *)

\* Stages at which nothing has been written, and those between the two audits.
Unaudited == {"idle", "firstRead", "observing", "secondRead", "admit", "emit"}
Audited == {"record", "dispatch", "upstream", "resultEmit", "resultRecord"}

Unwritten(q) ==
  /\ \A phase \in Phases : emitted[q][phase] = 0 /\ recorded[q][phase] = 0
  /\ ~ forwarded[q]

\* What a request has in hand at each stage.
StageOK(q) ==
  /\ call[q] = None <=> stage[q] = "idle"
  /\ stage[q] \in Admitted => session[q] # None
  /\ session[q] # None => stage[q] \in Admitted \cup {"admit"}
  /\ floor[q] # None <=> stage[q] = "secondRead"
  /\ stage[q] \in {"observing", "secondRead"} => Issued(call[q].cap)

\* The history of a capability has a revision.
Reached(c, revision) == Issued(c) /\ revision \in 1 .. row[c].revision

\* A Session is what the history says of its revision, however old it is.
SessionOK(q) ==
  session[q] # None =>
    /\ Reached(call[q].cap, session[q].revision)
    /\ PolicyAt(call[q].cap, session[q].revision) = session[q].policy

\* The row has only moved on since the observation completed.
FloorOK(q) ==
  floor[q] # None =>
    /\ floor[q].at <= now
    /\ floor[q].row.revision <= row[call[q].cap].revision
    /\ floor[q].row.expiresAt = row[call[q].cap].expiresAt
    /\ floor[q].row.revoked => row[call[q].cap].revoked

\* The audit trail at each stage.
TrailOK(q) ==
  /\ stage[q] \in Unaudited => Unwritten(q)
  /\ stage[q] \in Audited => /\ emitted[q]["preflight"] = session[q].revision
                             /\ recorded[q]["result"] = 0
  /\ stage[q] \in Audited \ {"resultRecord"} => emitted[q]["result"] = 0
  /\ stage[q] = "record" => recorded[q]["preflight"] = 0
  /\ stage[q] \in {"record", "dispatch"} => ~ forwarded[q]
  /\ stage[q] = "dispatch" /\ call[q].op.mutation => recorded[q]["preflight"] # 0

ForwardedOK(q) ==
  forwarded[q] =>
    /\ stage[q] # "idle"
    /\ Reached(call[q].cap, emitted[q]["preflight"])
    /\ Permitted(PolicyAt(call[q].cap, emitted[q]["preflight"]), call[q].op)

RequestOK(q) == StageOK(q) /\ SessionOK(q) /\ FloorOK(q) /\ TrailOK(q) /\ ForwardedOK(q)

Authenticates(q, r) == stage[q] \in Authenticating /\ call[q].replica = r
Runs(q, r, c) == stage[q] \in Admitted /\ call[q].replica = r /\ call[q].cap = c

Authenticators(r) == {q \in Requests : Authenticates(q, r)}
Runners(r, c) == {q \in Requests : Runs(q, r, c)}

SlotsOK ==
  \A r \in Replicas :
    /\ IsFiniteSet(Authenticators(r)) /\ authUsed[r] = Cardinality(Authenticators(r))
    /\ \A c \in Capabilities :
         IsFiniteSet(Runners(r, c)) /\ active[r][c] = Cardinality(Runners(r, c))

RequestsInv ==
  RegisterInv /\ TypeOK /\ (\A q \in Requests : RequestOK(q)) /\ SlotsOK

-----------------------------------------------------------------------------
(* The history of a capability. *)

\* A step of the register takes nothing back: a row stays, its revision grows, its
\* expiry is fixed, a revocation is final, and what a revision said it still says.
LEMMA HistoryGrows ==
  ASSUME RegisterInv, [RegisterNext]_registerVars, NEW c \in Capabilities, Issued(c)
  PROVE  /\ Issued(c)' /\ row[c].revision <= row'[c].revision
         /\ row'[c].expiresAt = row[c].expiresAt
         /\ row[c].revoked => row'[c].revoked
         /\ \A n \in 1 .. row[c].revision : PolicyAt(c, n)' = PolicyAt(c, n)
<1>1. row[c] \in CapabilityRow /\ row[c].revision \in 1 .. MaxRevision
  BY RowFields DEF RegisterInv, RegisterTypeOK, Issued
<1>2. CASE UNCHANGED <<row[c], events[c]>>
  BY <1>1, <1>2, BoundsAssumption DEF Issued, PolicyAt
<1>3. ASSUME NEW d \in Capabilities, NEW policy \in Policies,
             NEW expiresAt \in Time \cup {Never}, Issue(d, policy, expiresAt)
      PROVE  UNCHANGED <<row[c], events[c]>>
  BY <1>3 DEF Issue, Issued, RegisterInv, RegisterTypeOK
<1>4. ASSUME NEW d \in Capabilities, Revoke(d), d # c
      PROVE  UNCHANGED <<row[c], events[c]>>
  BY <1>4 DEF Revoke, RegisterInv, RegisterTypeOK
<1>5. ASSUME NEW d \in Capabilities, NEW policy \in Policies, NEW at \in Time,
             Replace(d, policy, at), d # c
      PROVE  UNCHANGED <<row[c], events[c]>>
  BY <1>5 DEF Replace, RegisterInv, RegisterTypeOK
<1>6. CASE Revoke(c)
  <2> DEFINE s == [row[c] EXCEPT !.revoked = TRUE]
  <2>1. /\ s \in CapabilityRow /\ s.policy = row[c].policy /\ s.revision = row[c].revision
        /\ s.expiresAt = row[c].expiresAt /\ s.revoked
    BY <1>1 DEF CapabilityRow
  <2>2. row'[c] = s /\ events' = events
    BY <1>6 DEF Revoke, RegisterInv, RegisterTypeOK
  <2>3. s # None
    BY <2>1, RowFields
  <2> HIDE DEF s
  <2>4. QED
    BY <1>1, <2>1, <2>2, <2>3, BoundsAssumption DEF Issued, PolicyAt
<1>7. ASSUME NEW policy \in Policies, NEW at \in Time, Replace(c, policy, at)
      PROVE  /\ Issued(c)' /\ row[c].revision <= row'[c].revision
             /\ row'[c].expiresAt = row[c].expiresAt
             /\ row[c].revoked => row'[c].revoked
             /\ \A n \in 1 .. row[c].revision : PolicyAt(c, n)' = PolicyAt(c, n)
  <2> DEFINE s == Replaced(row[c], policy, at)
             e == EventOf(row[c], policy, at)
  <2>1. /\ s \in CapabilityRow /\ s.revision = row[c].revision + 1
        /\ s.expiresAt = row[c].expiresAt /\ s.revoked = row[c].revoked
    BY <1>1, <1>7, ReplacedRow DEF Replace, Replaceable
  <2>2. e \in PolicyEvent /\ e.before = row[c].policy
    <3>1. ValidatePolicy(row[c].policy)
      BY <1>7 DEF Replace, RegisterInv, HistoryDirections
    <3>2. QED
      BY <1>1, <1>7, <3>1, EventOfReplacement DEF Replace
  <2>3. row'[c] = s /\ events'[c] = Append(events[c], e)
    BY <1>7 DEF Replace, RegisterInv, RegisterTypeOK
  <2>4. s # None
    BY <2>1, RowFields
  <2>5. events[c] \in Seq(PolicyEvent) /\ row[c].revision = Len(events[c]) + 1
    BY DEF RegisterInv, RegisterTypeOK, HistoryChain, ChainOf
  <2> HIDE DEF s, e
  <2>6. /\ Len(events[c]) \in Nat
        /\ \A n \in 1 .. Len(events[c]) : events'[c][n] = events[c][n]
        /\ events'[c][row[c].revision] = e
    BY <2>2, <2>3, <2>5
  <2>7. ASSUME NEW n \in 1 .. row[c].revision
        PROVE  PolicyAt(c, n)' = PolicyAt(c, n)
    <3>1. n # row'[c].revision
      BY <1>1, <2>1, <2>3, BoundsAssumption
    <3>2. CASE n = row[c].revision
      BY <2>2, <2>6, <3>1, <3>2 DEF PolicyAt
    <3>3. CASE n # row[c].revision
      BY <2>5, <2>6, <3>1, <3>3 DEF PolicyAt
    <3>4. QED
      BY <3>2, <3>3
  <2>8. QED
    BY <1>1, <2>1, <2>3, <2>4, <2>7, BoundsAssumption DEF Issued
<1>8. CASE Tick \/ UNCHANGED registerVars
  BY <1>2, <1>8 DEF Tick, registerVars
<1>9. QED
  BY <1>2, <1>3, <1>4, <1>5, <1>6, <1>7, <1>8 DEF RegisterNext, Administer

-----------------------------------------------------------------------------
(* Facts about one request. *)

LEMMA CallFields ==
  ASSUME NEW k \in Call
  PROVE  k.replica \in Replicas /\ k.cap \in Capabilities /\ k.op \in Operations /\ k # None
BY NobodyAssumption DEF Call

LEMMA SessionFields ==
  ASSUME NEW s \in Session
  PROVE  s.policy \in Policies /\ s.revision \in 1 .. MaxRevision /\ s # None
BY NobodyAssumption DEF Session

LEMMA FloorFields ==
  ASSUME NEW f \in Floor
  PROVE  f.row \in CapabilityRow /\ f.at \in Time /\ f # None
BY NobodyAssumption DEF Floor

LEMMA Moved ==
  ASSUME TypeOK, NEW q \in Requests, NEW from, NEW to \in Stages, Move(q, from, to)
  PROVE  /\ stage[q] = from /\ stage'[q] = to /\ stage' \in [Requests -> Stages]
         /\ \A p \in Requests \ {q} : stage'[p] = stage[p]
BY DEF Move, TypeOK

\* A request that does not move, while the register may.
LEMMA OthersOK ==
  ASSUME RequestsInv, [RegisterNext]_registerVars, NEW q \in Requests,
         stage'[q] = stage[q], call'[q] = call[q], session'[q] = session[q],
         floor'[q] = floor[q], emitted'[q] = emitted[q], recorded'[q] = recorded[q],
         forwarded'[q] = forwarded[q]
  PROVE  RequestOK(q)'
<1>1. RegisterInv /\ TypeOK /\ RequestOK(q)
  BY DEF RequestsInv
<1>2. StageOK(q) /\ SessionOK(q) /\ FloorOK(q) /\ TrailOK(q) /\ ForwardedOK(q)
  BY <1>1 DEF RequestOK
<1> DEFINE c == call[q].cap
<1>3. stage[q] # "idle" => c \in Capabilities
  BY <1>1, <1>2, CallFields DEF TypeOK, StageOK
<1>4. c \in Capabilities /\ Issued(c) =>
        /\ row[c].revision \in Int /\ row'[c].revision \in Int
        /\ Issued(c)' /\ row[c].revision <= row'[c].revision
        /\ row'[c].expiresAt = row[c].expiresAt
        /\ row[c].revoked => row'[c].revoked
        /\ \A n \in 1 .. row[c].revision : PolicyAt(c, n)' = PolicyAt(c, n)
  <2>1. SUFFICES ASSUME c \in Capabilities, Issued(c)
                 PROVE  row[c].revision \in Int /\ row'[c].revision \in Int
    BY <1>1, HistoryGrows
  <2>2. RegisterInv' /\ Issued(c)'
    BY <1>1, <2>1, NextRegisterInv, HistoryGrows
  <2>3. row[c] \in CapabilityRow /\ row'[c] \in CapabilityRow
    BY <1>1, <2>1, <2>2 DEF RegisterInv, RegisterTypeOK, Issued
  <2>4. QED
    BY <2>3, RowFields, BoundsAssumption
<1>5. now <= now' /\ now \in Int /\ now' \in Int
  <2>1. now \in Time /\ RegisterInv'
    BY <1>1, NextRegisterInv DEF RegisterInv, RegisterTypeOK
  <2>2. now' \in Time
    BY <2>1 DEF RegisterInv, RegisterTypeOK
  <2>3. now' = now \/ now' = now + 1
    BY DEF RegisterNext, Administer, Issue, Revoke, Replace, Tick, registerVars
  <2>4. QED
    BY <2>1, <2>2, <2>3, BoundsAssumption DEF Time
<1> HIDE DEF c
<1>6. StageOK(q)'
  BY <1>2, <1>3, <1>4 DEF StageOK, c
<1>7. SessionOK(q)'
  <2>1. SUFFICES ASSUME session[q] # None
                 PROVE  /\ Reached(c, session[q].revision)'
                        /\ PolicyAt(c, session[q].revision)' = session[q].policy
    BY DEF SessionOK, c, Reached, Issued, PolicyAt
  <2>2. /\ stage[q] # "idle" /\ Reached(c, session[q].revision)
        /\ PolicyAt(c, session[q].revision) = session[q].policy
    BY <1>2, <2>1 DEF StageOK, SessionOK, c, Admitted
  <2>3. /\ c \in Capabilities /\ Issued(c)
        /\ session[q].revision \in 1 .. row[c].revision
    BY <1>3, <2>2 DEF Reached
  <2>4. PICK n \in 1 .. row[c].revision : n = session[q].revision
    BY <2>3
  <2>5. PolicyAt(c, n)' = PolicyAt(c, n)
    BY <1>4, <2>3
  <2>6. PolicyAt(c, session[q].revision)' = session[q].policy
    <3>1. session'[q].revision = n
      BY <2>4
    <3>2. PolicyAt(c, session[q].revision)' = PolicyAt(c, n)'
      BY <3>1 DEF PolicyAt
    <3>3. QED
      BY <2>2, <2>4, <2>5, <3>2
  <2>7. Reached(c, session[q].revision)'
    BY <1>3, <1>4, <2>2 DEF Reached, c
  <2>8. QED
    BY <2>6, <2>7
<1>8. FloorOK(q)'
  <2>1. SUFFICES ASSUME floor[q] # None
                 PROVE  /\ floor[q].at <= now'
                        /\ floor[q].row.revision <= row'[c].revision
                        /\ floor[q].row.expiresAt = row'[c].expiresAt
                        /\ floor[q].row.revoked => row'[c].revoked
    BY DEF FloorOK, c
  <2>2. stage[q] = "secondRead" /\ Issued(c)
    BY <1>2, <2>1 DEF StageOK, c
  <2>3. floor[q].at \in Int /\ floor[q].row.revision \in Int
    BY <1>1, <2>1, FloorFields, RowFields, BoundsAssumption DEF TypeOK, Time
  <2>4. QED
    BY <1>2, <1>3, <1>4, <1>5, <2>1, <2>2, <2>3 DEF FloorOK, c
<1>9. TrailOK(q)'
  BY <1>2 DEF TrailOK, Unwritten
<1>10. ForwardedOK(q)'
  <2>1. SUFFICES ASSUME forwarded[q]
                 PROVE  /\ stage[q] # "idle"
                        /\ Reached(c, emitted[q]["preflight"])'
                        /\ Permitted(PolicyAt(c, emitted[q]["preflight"]), call[q].op)'
    BY DEF ForwardedOK, c, Reached, Issued, PolicyAt, Permitted
  <2>2. /\ stage[q] # "idle" /\ Reached(c, emitted[q]["preflight"])
        /\ Permitted(PolicyAt(c, emitted[q]["preflight"]), call[q].op)
    BY <1>2, <2>1 DEF ForwardedOK, c
  <2>3. PolicyAt(c, emitted[q]["preflight"])' = PolicyAt(c, emitted[q]["preflight"])
    <3>1. /\ c \in Capabilities /\ Issued(c)
          /\ emitted[q]["preflight"] \in 1 .. row[c].revision
      BY <1>3, <2>2 DEF Reached
    <3>2. PICK n \in 1 .. row[c].revision : n = emitted[q]["preflight"]
      BY <3>1
    <3>3. PolicyAt(c, n)' = PolicyAt(c, n)
      BY <1>4, <3>1
    <3>4. emitted'[q]["preflight"] = n
      BY <3>2
    <3>5. QED
      BY <3>2, <3>3, <3>4 DEF PolicyAt
  <2>4. Reached(c, emitted[q]["preflight"])'
    BY <1>3, <1>4, <2>2 DEF Reached, c
  <2>5. QED
    BY <2>2, <2>3, <2>4 DEF Permitted
<1>11. QED
  BY <1>6, <1>7, <1>8, <1>9, <1>10 DEF RequestOK

-----------------------------------------------------------------------------
(* Counting the slots. *)

\* A finite set of which one element may have come or gone.
LEMMA OneMoreOrLess ==
  ASSUME NEW S, NEW T, NEW x, IsFiniteSet(S), S \ {x} = T \ {x}
  PROVE  /\ IsFiniteSet(T) /\ Cardinality(S) \in Nat
         /\ Cardinality(T) = IF x \in S THEN IF x \in T THEN Cardinality(S)
                                                        ELSE Cardinality(S) - 1
                                        ELSE IF x \in T THEN Cardinality(S) + 1
                                                        ELSE Cardinality(S)
         /\ x \in S => Cardinality(S) > 0
<1>1. /\ IsFiniteSet(S \ {x}) /\ Cardinality(S) \in Nat
      /\ Cardinality(S \ {x}) = IF x \in S THEN Cardinality(S) - 1 ELSE Cardinality(S)
  BY FS_RemoveElement, FS_CardinalityType
<1>2. x \in S => Cardinality(S) > 0
  BY <1>1, FS_EmptySet
<1>3. CASE x \in T
  <2>1. T = (S \ {x}) \cup {x} /\ x \notin S \ {x}
    BY <1>3
  <2>2. IsFiniteSet(T) /\ Cardinality(T) = Cardinality(S \ {x}) + 1
    BY <1>1, <2>1, FS_AddElement
  <2>3. QED
    BY <1>1, <1>2, <1>3, <2>2
<1>4. CASE x \notin T
  <2>1. T = S \ {x}
    BY <1>4
  <2>2. QED
    BY <1>1, <1>2, <1>4, <2>1
<1>5. QED
  BY <1>3, <1>4

\* One request moves; the slots change as its stage says.
LEMMA SlotsMove ==
  ASSUME RequestsInv, NEW q \in Requests,
         \A p \in Requests \ {q} : stage'[p] = stage[p] /\ call'[p] = call[p],
         \A r \in Replicas :
           /\ authUsed'[r] = IF Authenticates(q, r)
                               THEN IF Authenticates(q, r)' THEN authUsed[r] ELSE authUsed[r] - 1
                               ELSE IF Authenticates(q, r)' THEN authUsed[r] + 1 ELSE authUsed[r]
           /\ \A c \in Capabilities :
                active'[r][c] = IF Runs(q, r, c)
                                  THEN IF Runs(q, r, c)' THEN active[r][c] ELSE active[r][c] - 1
                                  ELSE IF Runs(q, r, c)' THEN active[r][c] + 1 ELSE active[r][c]
  PROVE  SlotsOK'
<1>1. SUFFICES ASSUME NEW r \in Replicas
               PROVE  /\ IsFiniteSet(Authenticators(r)')
                      /\ authUsed'[r] = Cardinality(Authenticators(r)')
                      /\ \A c \in Capabilities :
                           /\ IsFiniteSet(Runners(r, c)')
                           /\ active'[r][c] = Cardinality(Runners(r, c)')
  BY DEF SlotsOK
<1>2. /\ IsFiniteSet(Authenticators(r)) /\ authUsed[r] = Cardinality(Authenticators(r))
      /\ \A c \in Capabilities :
           IsFiniteSet(Runners(r, c)) /\ active[r][c] = Cardinality(Runners(r, c))
  BY DEF RequestsInv, SlotsOK
<1>3. /\ Authenticators(r) \ {q} = Authenticators(r)' \ {q}
      /\ q \in Authenticators(r) <=> Authenticates(q, r)
      /\ q \in Authenticators(r)' <=> Authenticates(q, r)'
  BY DEF Authenticators, Authenticates
<1>4. IsFiniteSet(Authenticators(r)') /\ authUsed'[r] = Cardinality(Authenticators(r)')
  BY <1>2, <1>3, OneMoreOrLess
<1>5. ASSUME NEW c \in Capabilities
      PROVE  IsFiniteSet(Runners(r, c)') /\ active'[r][c] = Cardinality(Runners(r, c)')
  <2>1. /\ Runners(r, c) \ {q} = Runners(r, c)' \ {q}
        /\ q \in Runners(r, c) <=> Runs(q, r, c)
        /\ q \in Runners(r, c)' <=> Runs(q, r, c)'
    BY DEF Runners, Runs
  <2>2. QED
    BY <1>2, <2>1, OneMoreOrLess
<1>6. QED
  BY <1>4, <1>5

LEMMA SlotBounds ==
  ASSUME RequestsInv, NEW q \in Requests, NEW r \in Replicas
  PROVE  /\ authUsed[r] \in 0 .. AuthSlots
         /\ Authenticates(q, r) => authUsed[r] - 1 \in 0 .. AuthSlots
         /\ \A c \in Capabilities :
              /\ active[r][c] \in 0 .. Concurrent
              /\ Runs(q, r, c) => active[r][c] - 1 \in 0 .. Concurrent
<1>1. authUsed[r] \in 0 .. AuthSlots /\ \A c \in Capabilities : active[r][c] \in 0 .. Concurrent
  BY DEF RequestsInv, TypeOK
<1>2. /\ IsFiniteSet(Authenticators(r)) /\ authUsed[r] = Cardinality(Authenticators(r))
      /\ Authenticates(q, r) => q \in Authenticators(r)
  BY DEF RequestsInv, SlotsOK, Authenticators
<1>3. Authenticates(q, r) => authUsed[r] > 0
  BY <1>2, OneMoreOrLess
<1>4. ASSUME NEW c \in Capabilities, Runs(q, r, c)
      PROVE  active[r][c] > 0
  <2>1. /\ IsFiniteSet(Runners(r, c)) /\ active[r][c] = Cardinality(Runners(r, c))
        /\ q \in Runners(r, c)
    BY <1>4 DEF RequestsInv, SlotsOK, Runners
  <2>2. QED
    BY <2>1, OneMoreOrLess
<1>5. Authenticates(q, r) => authUsed[r] - 1 \in 0 .. AuthSlots
  BY <1>1, <1>3, SlotsAssumption
<1>6. ASSUME NEW c \in Capabilities, Runs(q, r, c)
      PROVE  active[r][c] - 1 \in 0 .. Concurrent
  BY <1>1, <1>4, <1>6, SlotsAssumption
<1>7. QED
  BY <1>1, <1>5, <1>6

-----------------------------------------------------------------------------
(* The steps of a request. *)

KeepsOthers(q) ==
  \A p \in Requests \ {q} :
    /\ stage'[p] = stage[p] /\ call'[p] = call[p] /\ session'[p] = session[p]
    /\ floor'[p] = floor[p] /\ emitted'[p] = emitted[p] /\ recorded'[p] = recorded[p]
    /\ forwarded'[p] = forwarded[p]

LEMMA StepKeeps ==
  ASSUME RequestsInv, NEW q \in Requests, UNCHANGED registerVars, KeepsOthers(q),
         TypeOK', RequestOK(q)', SlotsOK'
  PROVE  RequestsInv'
<1>1. RegisterInv'
  BY NextRegisterInv DEF RequestsInv
<1>2. \A p \in Requests \ {q} : RequestOK(p)'
  BY OthersOK DEF KeepsOthers
<1>3. QED
  BY <1>1, <1>2 DEF RequestsInv

\* A step that takes and frees no slot.
LEMMA SlotsKept ==
  ASSUME RequestsInv, NEW q \in Requests, KeepsOthers(q), UNCHANGED <<call, slotVars>>,
         stage[q] \in Authenticating <=> stage'[q] \in Authenticating,
         stage[q] \in Admitted <=> stage'[q] \in Admitted
  PROVE  SlotsOK'
<1>1. \A r \in Replicas :
        /\ Authenticates(q, r) <=> Authenticates(q, r)'
        /\ \A c \in Capabilities : Runs(q, r, c) <=> Runs(q, r, c)'
  BY DEF Authenticates, Runs
<1>2. /\ authUsed' = authUsed /\ active' = active
      /\ \A p \in Requests \ {q} : stage'[p] = stage[p] /\ call'[p] = call[p]
  BY DEF slotVars, KeepsOthers
<1>3. ASSUME NEW r \in Replicas
      PROVE  /\ authUsed'[r] = IF Authenticates(q, r)
                  THEN IF Authenticates(q, r)' THEN authUsed[r] ELSE authUsed[r] - 1
                  ELSE IF Authenticates(q, r)' THEN authUsed[r] + 1 ELSE authUsed[r]
             /\ \A c \in Capabilities :
                  active'[r][c] = IF Runs(q, r, c)
                    THEN IF Runs(q, r, c)' THEN active[r][c] ELSE active[r][c] - 1
                    ELSE IF Runs(q, r, c)' THEN active[r][c] + 1 ELSE active[r][c]
  BY <1>1, <1>2
<1>4. QED
  BY <1>2, <1>3, SlotsMove

\* What is known of a request that is on its way.
LEMMA OnItsWay ==
  ASSUME RequestsInv, NEW q \in Requests, stage[q] # "idle"
  PROVE  /\ call[q] \in Call /\ call[q] # None
         /\ call[q].replica \in Replicas /\ call[q].cap \in Capabilities
         /\ call[q].op \in Operations
         /\ StageOK(q) /\ SessionOK(q) /\ FloorOK(q) /\ TrailOK(q) /\ ForwardedOK(q)
         /\ session[q] # None => session[q] \in Session /\ session[q].revision \in 1 .. MaxRevision
         /\ floor[q] # None => floor[q] \in Floor
BY CallFields, SessionFields DEF RequestsInv, RequestOK, StageOK, TypeOK

LEMMA ArriveKeeps ==
  ASSUME RequestsInv, NEW q \in Requests, NEW r \in Replicas, NEW c \in Capabilities,
         NEW op \in Operations, Arrive(q, r, c, op)
  PROVE  RequestsInv'
<1> DEFINE k == [replica |-> r, cap |-> c, op |-> op]
<1>1. k \in Call /\ k # None /\ k.replica = r /\ k.cap = c /\ k.op = op
  BY CallFields DEF Call
<1>2. stage[q] = "idle" /\ call' = [call EXCEPT ![q] = k]
  BY DEF Arrive
<1> HIDE DEF k
<1>3. TypeOK /\ StageOK(q) /\ TrailOK(q)
  BY DEF RequestsInv, RequestOK
<1>4. stage'[q] \in {"firstRead", "done"} /\ stage' \in [Requests -> Stages] /\ call'[q] = k
  BY <1>2, <1>3 DEF Arrive, TypeOK, Stages
<1>5. KeepsOthers(q)
  BY <1>2, <1>3 DEF KeepsOthers, Arrive, auditVars, TypeOK
<1>6. \A s \in Replicas : authUsed'[s] = IF s = r /\ stage'[q] = "firstRead" THEN authUsed[s] + 1
                                                                           ELSE authUsed[s]
  BY <1>3 DEF Arrive, TypeOK
<1>7. TypeOK'
  <2>1. authUsed' \in [Replicas -> 0 .. AuthSlots]
    <3>1. authUsed[r] < AuthSlots => authUsed[r] + 1 \in 0 .. AuthSlots
      BY <1>3, SlotsAssumption DEF TypeOK
    <3>2. QED
      BY <1>3, <3>1 DEF Arrive, TypeOK
  <2>2. QED
    BY <1>1, <1>2, <1>3, <1>4, <2>1
    DEF Arrive, TypeOK, registerVars, auditVars, RegisterTypeOK
<1>8. RequestOK(q)'
  <2>1. Unwritten(q) /\ session[q] = None /\ floor[q] = None
    BY <1>2, <1>3 DEF StageOK, TrailOK, Unaudited, Admitted
  <2>2. session'[q] = None /\ floor'[q] = None /\ Unwritten(q)'
    BY <2>1 DEF Arrive, Unwritten, auditVars
  <2>3. ~ forwarded'[q]
    BY <2>2 DEF Unwritten
  <2>4. QED
    BY <1>1, <1>4, <2>2, <2>3
    DEF RequestOK, StageOK, SessionOK, FloorOK, TrailOK, ForwardedOK, Unaudited, Audited, Admitted
<1>9. SlotsOK'
  <2>1. ASSUME NEW s \in Replicas
        PROVE  /\ ~ Authenticates(q, s)
               /\ Authenticates(q, s)' <=> s = r /\ stage'[q] = "firstRead"
               /\ \A d \in Capabilities : ~ Runs(q, s, d) /\ ~ Runs(q, s, d)'
    BY <1>1, <1>2, <1>4 DEF Authenticates, Runs, Authenticating, Admitted
  <2>2. active' = active
    BY DEF Arrive
  <2>3. QED
    BY <1>5, <1>6, <2>1, <2>2, SlotsMove DEF KeepsOthers
<1>10. QED
  BY <1>5, <1>7, <1>8, <1>9, StepKeeps DEF Arrive

\* What was granted, observed and forwarded stays true while the register stands still.
LEMMA SessionKept ==
  ASSUME UNCHANGED registerVars, NEW q \in Requests, SessionOK(q), call'[q] = call[q],
         session'[q] = session[q] \/ session'[q] = None
  PROVE  SessionOK(q)'
BY DEF SessionOK, Reached, Issued, PolicyAt, registerVars

LEMMA FloorKept ==
  ASSUME UNCHANGED registerVars, NEW q \in Requests, FloorOK(q), call'[q] = call[q],
         floor'[q] = floor[q] \/ floor'[q] = None
  PROVE  FloorOK(q)'
BY DEF FloorOK, registerVars

LEMMA ForwardedKept ==
  ASSUME UNCHANGED registerVars, NEW q \in Requests, ForwardedOK(q), call'[q] = call[q],
         stage'[q] # "idle", forwarded'[q] = forwarded[q],
         forwarded[q] => emitted'[q]["preflight"] = emitted[q]["preflight"]
  PROVE  ForwardedOK(q)'
BY DEF ForwardedOK, Reached, Issued, PolicyAt, Permitted, registerVars

\* Authentication ends, and its slot is released.
LEMMA AuthenticationReleased ==
  ASSUME RequestsInv, NEW q \in Requests, KeepsOthers(q),
         stage[q] \in Authenticating, stage'[q] \in {"admit", "done"},
         UNCHANGED <<call, active>>, ReleaseAuthentication(q)
  PROVE  SlotsOK' /\ authUsed' \in [Replicas -> 0 .. AuthSlots]
<1> DEFINE r == call[q].replica
<1>1. r \in Replicas /\ Authenticates(q, r)
  BY OnItsWay DEF Authenticates, Authenticating
<1>2. authUsed' = [authUsed EXCEPT ![r] = @ - 1] /\ authUsed \in [Replicas -> 0 .. AuthSlots]
  BY DEF ReleaseAuthentication, RequestsInv, TypeOK
<1>3. ASSUME NEW s \in Replicas
      PROVE  /\ Authenticates(q, s) <=> s = r
             /\ ~ Authenticates(q, s)'
             /\ \A d \in Capabilities : ~ Runs(q, s, d) /\ ~ Runs(q, s, d)'
  BY DEF Authenticates, Runs, Authenticating, Admitted
<1> HIDE DEF r
<1>4. \A s \in Replicas : authUsed'[s] = IF s = r THEN authUsed[s] - 1 ELSE authUsed[s]
  BY <1>2
<1>5. authUsed[r] - 1 \in 0 .. AuthSlots
  BY <1>1, SlotBounds
<1>6. QED
  BY <1>1, <1>2, <1>3, <1>4, <1>5, SlotsMove DEF KeepsOthers

\* A request that held a slot of its capability ends.
LEMMA ActiveReleased ==
  ASSUME RequestsInv, NEW q \in Requests, KeepsOthers(q),
         stage[q] \in Admitted, stage'[q] = "done", UNCHANGED <<call, authUsed>>, ReleaseActive(q)
  PROVE  SlotsOK' /\ active' \in [Replicas -> [Capabilities -> 0 .. Concurrent]]
<1> DEFINE r == call[q].replica
           c == call[q].cap
<1>1. r \in Replicas /\ c \in Capabilities /\ Runs(q, r, c)
  BY OnItsWay DEF Runs, Admitted
<1>2. /\ active' = [active EXCEPT ![r][c] = @ - 1]
      /\ active \in [Replicas -> [Capabilities -> 0 .. Concurrent]]
  BY DEF ReleaseActive, RequestsInv, TypeOK
<1>3. ASSUME NEW s \in Replicas
      PROVE  /\ ~ Authenticates(q, s) /\ ~ Authenticates(q, s)'
             /\ \A d \in Capabilities : /\ Runs(q, s, d) <=> s = r /\ d = c
                                        /\ ~ Runs(q, s, d)'
  BY DEF Authenticates, Runs, Authenticating, Admitted
<1> HIDE DEF r, c
<1>4. \A s \in Replicas, d \in Capabilities :
        active'[s][d] = IF s = r /\ d = c THEN active[s][d] - 1 ELSE active[s][d]
  BY <1>2
<1>5. active[r][c] - 1 \in 0 .. Concurrent
  BY <1>1, SlotBounds
<1>6. active' \in [Replicas -> [Capabilities -> 0 .. Concurrent]]
  BY <1>1, <1>2, <1>5
<1>7. QED
  BY <1>3, <1>4, <1>6, SlotsMove DEF KeepsOthers

LEMMA RefuseKeeps ==
  ASSUME RequestsInv, NEW q \in Requests, NEW from \in {"firstRead", "secondRead"},
         Refuse(q, from)
  PROVE  RequestsInv'
<1>1. TypeOK /\ Move(q, from, "admit")
  BY DEF RequestsInv, Refuse
<1>2. /\ stage[q] = from /\ stage'[q] = "admit" /\ stage' \in [Requests -> Stages]
      /\ \A p \in Requests \ {q} : stage'[p] = stage[p]
  BY <1>1, Moved DEF Stages
<1>3. StageOK(q) /\ TrailOK(q) /\ SessionOK(q) /\ ForwardedOK(q)
  BY <1>2, OnItsWay
<1>4. KeepsOthers(q)
  BY <1>1, <1>2 DEF KeepsOthers, Refuse, auditVars, TypeOK
<1>5. SlotsOK' /\ authUsed' \in [Replicas -> 0 .. AuthSlots]
  BY <1>2, <1>4, AuthenticationReleased DEF Refuse, Authenticating
<1>6. TypeOK'
  <2>1. floor' \in [Requests -> Floor \cup {None}]
    BY <1>1 DEF Refuse, TypeOK
  <2>2. QED
    BY <1>1, <1>2, <1>5, <2>1 DEF Refuse, TypeOK, registerVars, auditVars, RegisterTypeOK
<1>7. RequestOK(q)'
  <2>1. Unwritten(q) /\ session[q] = None
    BY <1>2, <1>3 DEF StageOK, TrailOK, Unaudited, Admitted
  <2>2. /\ session'[q] = None /\ floor'[q] = None /\ Unwritten(q)' /\ ~ forwarded'[q]
        /\ call'[q] = call[q]
    BY <1>1, <2>1 DEF Refuse, Unwritten, auditVars, TypeOK
  <2>3. QED
    BY <1>2, <1>3, <2>2
    DEF RequestOK, StageOK, SessionOK, FloorOK, TrailOK, ForwardedOK, Unaudited, Audited, Admitted
<1>8. QED
  BY <1>4, <1>5, <1>6, <1>7, StepKeeps DEF Refuse

LEMMA FirstReadKeeps ==
  ASSUME RequestsInv, NEW q \in Requests, FirstRead(q)
  PROVE  RequestsInv'
<1>1. /\ TypeOK /\ Move(q, "firstRead", "observing") /\ Issued(call[q].cap)
      /\ UNCHANGED <<registerVars, call, session, floor, emitted, recorded, forwarded, slotVars>>
  BY DEF RequestsInv, FirstRead, Usable, Issued, goroutine, auditVars
<1>2. /\ stage[q] = "firstRead" /\ stage'[q] = "observing" /\ stage' \in [Requests -> Stages]
      /\ \A p \in Requests \ {q} : stage'[p] = stage[p]
  BY <1>1, Moved DEF Stages
<1>3. StageOK(q) /\ TrailOK(q) /\ SessionOK(q) /\ FloorOK(q) /\ ForwardedOK(q)
  BY <1>2, OnItsWay
<1>4. KeepsOthers(q)
  BY <1>1, <1>2 DEF KeepsOthers
<1>5. SlotsOK'
  BY <1>1, <1>2, <1>4, SlotsKept DEF Authenticating, Admitted
<1>6. TypeOK'
  BY <1>1, <1>2 DEF TypeOK, registerVars, slotVars, RegisterTypeOK
<1>7. RequestOK(q)'
  <2>1. StageOK(q)'
    BY <1>1, <1>2, <1>3 DEF StageOK, Admitted, Issued, registerVars
  <2>2. TrailOK(q)'
    BY <1>1, <1>2, <1>3 DEF TrailOK, Unwritten, Unaudited, Audited
  <2>3. QED
    BY <1>1, <1>2, <1>3, <2>1, <2>2, SessionKept, FloorKept, ForwardedKept DEF RequestOK
<1>8. QED
  BY <1>1, <1>4, <1>5, <1>6, <1>7, StepKeeps

LEMMA ObserveKeeps ==
  ASSUME RequestsInv, NEW q \in Requests, Observe(q)
  PROVE  RequestsInv'
<1> DEFINE f == [row |-> row[call[q].cap], at |-> now]
<1>1. /\ RegisterInv /\ TypeOK /\ Move(q, "observing", "secondRead")
      /\ floor' = [floor EXCEPT ![q] = f]
      /\ UNCHANGED <<registerVars, call, session, emitted, recorded, forwarded, slotVars>>
  BY DEF RequestsInv, Observe, auditVars
<1>2. /\ stage[q] = "observing" /\ stage'[q] = "secondRead" /\ stage' \in [Requests -> Stages]
      /\ \A p \in Requests \ {q} : stage'[p] = stage[p]
  BY <1>1, Moved DEF Stages
<1>3. /\ StageOK(q) /\ TrailOK(q) /\ SessionOK(q) /\ ForwardedOK(q)
      /\ call[q].cap \in Capabilities /\ Issued(call[q].cap)
  BY <1>2, OnItsWay DEF StageOK
<1>4. row[call[q].cap] \in CapabilityRow /\ now \in Time
  BY <1>1, <1>3 DEF RegisterInv, RegisterTypeOK, Issued
<1>5. f \in Floor /\ f # None /\ f.row = row[call[q].cap] /\ f.at = now
  BY <1>4, FloorFields DEF Floor
<1> HIDE DEF f
<1>6. floor' \in [Requests -> Floor \cup {None}] /\ floor'[q] = f
      /\ \A p \in Requests \ {q} : floor'[p] = floor[p]
  BY <1>1, <1>5 DEF TypeOK
<1>7. KeepsOthers(q)
  BY <1>1, <1>2, <1>6 DEF KeepsOthers
<1>8. SlotsOK'
  BY <1>1, <1>2, <1>7, SlotsKept DEF Authenticating, Admitted
<1>9. TypeOK'
  BY <1>1, <1>2, <1>6 DEF TypeOK, registerVars, slotVars, RegisterTypeOK
<1>10. RequestOK(q)'
  <2>1. StageOK(q)'
    BY <1>1, <1>2, <1>3, <1>5, <1>6 DEF StageOK, Admitted, Issued, registerVars
  <2>2. TrailOK(q)'
    BY <1>1, <1>2, <1>3 DEF TrailOK, Unwritten, Unaudited, Audited
  <2>3. FloorOK(q)'
    <3>1. now <= now /\ f.row.revision <= f.row.revision
      BY <1>4, <1>5, RowFields, BoundsAssumption DEF Time
    <3>2. QED
      BY <1>1, <1>5, <1>6, <3>1 DEF FloorOK, registerVars
  <2>4. QED
    BY <1>1, <1>2, <1>3, <2>1, <2>2, <2>3, SessionKept, ForwardedKept DEF RequestOK
<1>11. QED
  BY <1>1, <1>7, <1>8, <1>9, <1>10, StepKeeps

LEMMA ObserveFailsKeeps ==
  ASSUME RequestsInv, NEW q \in Requests, ObserveFails(q)
  PROVE  RequestsInv'
<1>1. /\ TypeOK /\ Move(q, "observing", "done") /\ ReleaseAuthentication(q)
      /\ UNCHANGED <<registerVars, call, session, floor, emitted, recorded, forwarded, active>>
  BY DEF RequestsInv, ObserveFails, goroutine, auditVars
<1>2. /\ stage[q] = "observing" /\ stage'[q] = "done" /\ stage' \in [Requests -> Stages]
      /\ \A p \in Requests \ {q} : stage'[p] = stage[p]
  BY <1>1, Moved DEF Stages
<1>3. StageOK(q) /\ TrailOK(q) /\ SessionOK(q) /\ FloorOK(q) /\ ForwardedOK(q)
  BY <1>2, OnItsWay
<1>4. KeepsOthers(q)
  BY <1>1, <1>2 DEF KeepsOthers
<1>5. SlotsOK' /\ authUsed' \in [Replicas -> 0 .. AuthSlots]
  BY <1>1, <1>2, <1>4, AuthenticationReleased DEF Authenticating
<1>6. TypeOK'
  BY <1>1, <1>2, <1>5 DEF TypeOK, registerVars, RegisterTypeOK
<1>7. RequestOK(q)'
  <2>1. StageOK(q)' /\ TrailOK(q)'
    BY <1>1, <1>2, <1>3 DEF StageOK, TrailOK, Unaudited, Audited, Admitted
  <2>2. QED
    BY <1>1, <1>2, <1>3, <2>1, SessionKept, FloorKept, ForwardedKept DEF RequestOK
<1>8. QED
  BY <1>1, <1>4, <1>5, <1>6, <1>7, StepKeeps

\* The Session of the second read is what history says of the revision in force.
LEMMA SecondReadKeeps ==
  ASSUME RequestsInv, NEW q \in Requests, SecondRead(q)
  PROVE  RequestsInv'
<1> DEFINE r == row[call[q].cap]
           s == [policy |-> r.policy, revision |-> r.revision]
<1>1. /\ RegisterInv /\ TypeOK /\ Move(q, "secondRead", "admit") /\ ReleaseAuthentication(q)
      /\ session' = [session EXCEPT ![q] = s] /\ floor' = [floor EXCEPT ![q] = None]
      /\ UNCHANGED <<registerVars, call, emitted, recorded, forwarded, active>>
  BY DEF RequestsInv, SecondRead, Resolved, auditVars
<1>2. /\ stage[q] = "secondRead" /\ stage'[q] = "admit" /\ stage' \in [Requests -> Stages]
      /\ \A p \in Requests \ {q} : stage'[p] = stage[p]
  BY <1>1, Moved DEF Stages
<1>3. /\ StageOK(q) /\ TrailOK(q) /\ ForwardedOK(q)
      /\ call[q].cap \in Capabilities /\ Issued(call[q].cap)
  BY <1>2, OnItsWay DEF StageOK
<1>4. r \in CapabilityRow
  BY <1>1, <1>3 DEF RegisterInv, RegisterTypeOK, Issued
<1>5. s \in Session /\ s # None /\ s.policy = r.policy /\ s.revision = r.revision
      /\ r.revision \in 1 .. r.revision
  BY <1>4, RowFields, SessionFields, BoundsAssumption DEF Session
<1>6. PolicyAt(call[q].cap, s.revision) = s.policy /\ Reached(call[q].cap, s.revision)
  BY <1>3, <1>5 DEF PolicyAt, Reached
<1> HIDE DEF r, s
<1>7. /\ session' \in [Requests -> Session \cup {None}] /\ session'[q] = s
      /\ floor' \in [Requests -> Floor \cup {None}] /\ floor'[q] = None
      /\ \A p \in Requests \ {q} : session'[p] = session[p] /\ floor'[p] = floor[p]
  BY <1>1, <1>5 DEF TypeOK
<1>8. KeepsOthers(q)
  BY <1>1, <1>2, <1>7 DEF KeepsOthers
<1>9. SlotsOK' /\ authUsed' \in [Replicas -> 0 .. AuthSlots]
  BY <1>1, <1>2, <1>8, AuthenticationReleased DEF Authenticating
<1>10. TypeOK'
  BY <1>1, <1>2, <1>7, <1>9 DEF TypeOK, registerVars, RegisterTypeOK
<1>11. RequestOK(q)'
  <2>1. StageOK(q)' /\ TrailOK(q)'
    BY <1>1, <1>2, <1>3, <1>7 DEF StageOK, TrailOK, Unwritten, Unaudited, Audited, Admitted
  <2>2. SessionOK(q)'
    BY <1>1, <1>6, <1>7 DEF SessionOK, Reached, Issued, PolicyAt, registerVars
  <2>3. FloorOK(q)'
    BY <1>7 DEF FloorOK
  <2>4. QED
    BY <1>1, <1>2, <1>3, <2>1, <2>2, <2>3, ForwardedKept DEF RequestOK
<1>12. QED
  BY <1>1, <1>8, <1>9, <1>10, <1>11, StepKeeps

LEMMA AdmitKeeps ==
  ASSUME RequestsInv, NEW q \in Requests, Admit(q)
  PROVE  RequestsInv'
<1> DEFINE r == call[q].replica
           c == call[q].cap
<1>1. /\ TypeOK /\ Move(q, "admit", "emit") /\ session[q] # None
      /\ active[r][c] < Concurrent /\ active' = [active EXCEPT ![r][c] = @ + 1]
      /\ UNCHANGED <<registerVars, call, session, floor, emitted, recorded, forwarded, authUsed>>
  BY DEF RequestsInv, Admit, goroutine, auditVars
<1>2. /\ stage[q] = "admit" /\ stage'[q] = "emit" /\ stage' \in [Requests -> Stages]
      /\ \A p \in Requests \ {q} : stage'[p] = stage[p]
  BY <1>1, Moved DEF Stages
<1>3. /\ StageOK(q) /\ TrailOK(q) /\ SessionOK(q) /\ FloorOK(q) /\ ForwardedOK(q)
      /\ r \in Replicas /\ c \in Capabilities
  BY <1>2, OnItsWay
<1>4. KeepsOthers(q)
  BY <1>1, <1>2 DEF KeepsOthers
<1>5. SlotsOK' /\ active' \in [Replicas -> [Capabilities -> 0 .. Concurrent]]
  <2>1. ASSUME NEW s \in Replicas
        PROVE  /\ ~ Authenticates(q, s) /\ ~ Authenticates(q, s)'
               /\ \A d \in Capabilities : /\ ~ Runs(q, s, d)
                                          /\ Runs(q, s, d)' <=> s = r /\ d = c
    BY <1>1, <1>2 DEF Authenticates, Runs, Authenticating, Admitted
  <2> HIDE DEF r, c
  <2>2. active \in [Replicas -> [Capabilities -> 0 .. Concurrent]]
    BY <1>1 DEF TypeOK
  <2>3. \A s \in Replicas, d \in Capabilities :
          active'[s][d] = IF s = r /\ d = c THEN active[s][d] + 1 ELSE active[s][d]
    BY <1>1, <2>2
  <2>4. active[r][c] + 1 \in 0 .. Concurrent
    BY <1>1, <1>3, <2>2, SlotsAssumption
  <2>5. active' \in [Replicas -> [Capabilities -> 0 .. Concurrent]]
    BY <1>1, <1>3, <2>2, <2>4
  <2>6. QED
    BY <1>1, <1>2, <2>1, <2>3, <2>5, SlotsMove
<1>6. TypeOK'
  BY <1>1, <1>2, <1>5 DEF TypeOK, registerVars, RegisterTypeOK
<1>7. RequestOK(q)'
  <2>1. StageOK(q)' /\ TrailOK(q)'
    BY <1>1, <1>2, <1>3 DEF StageOK, TrailOK, Unwritten, Unaudited, Audited, Admitted
  <2>2. QED
    BY <1>1, <1>2, <1>3, <2>1, SessionKept, FloorKept, ForwardedKept DEF RequestOK
<1>8. QED
  BY <1>1, <1>4, <1>5, <1>6, <1>7, StepKeeps

\* The locals of requests that end.
LEMMA Forgotten ==
  ASSUME TypeOK, NEW over, Forget(over)
  PROVE  /\ session' \in [Requests -> Session \cup {None}]
         /\ floor' \in [Requests -> Floor \cup {None}] /\ call' = call
         /\ \A p \in Requests :
              IF p \in over THEN session'[p] = None /\ floor'[p] = None
                            ELSE session'[p] = session[p] /\ floor'[p] = floor[p]
BY DEF TypeOK, Forget

LEMMA RejectKeeps ==
  ASSUME RequestsInv, NEW q \in Requests, Reject(q)
  PROVE  RequestsInv'
<1>1. /\ TypeOK /\ Move(q, "admit", "done") /\ Forget({q})
      /\ UNCHANGED <<registerVars, call, emitted, recorded, forwarded, slotVars>>
  BY DEF RequestsInv, Reject, Forget, auditVars
<1>2. /\ stage[q] = "admit" /\ stage'[q] = "done" /\ stage' \in [Requests -> Stages]
      /\ \A p \in Requests \ {q} : stage'[p] = stage[p]
  BY <1>1, Moved DEF Stages
<1>3. StageOK(q) /\ TrailOK(q) /\ SessionOK(q) /\ FloorOK(q) /\ ForwardedOK(q)
  BY <1>2, OnItsWay
<1>4. /\ session' \in [Requests -> Session \cup {None}] /\ session'[q] = None
      /\ floor' \in [Requests -> Floor \cup {None}] /\ floor'[q] = None
      /\ \A p \in Requests \ {q} : session'[p] = session[p] /\ floor'[p] = floor[p]
  BY <1>1, Forgotten
<1>5. KeepsOthers(q)
  BY <1>1, <1>2, <1>4 DEF KeepsOthers
<1>6. SlotsOK'
  BY <1>1, <1>2, <1>5, SlotsKept DEF Authenticating, Admitted
<1>7. TypeOK'
  BY <1>1, <1>2, <1>4 DEF TypeOK, registerVars, slotVars, RegisterTypeOK
<1>8. RequestOK(q)'
  <2>1. StageOK(q)' /\ TrailOK(q)'
    BY <1>1, <1>2, <1>3, <1>4 DEF StageOK, TrailOK, Unaudited, Audited, Admitted
  <2>2. QED
    BY <1>1, <1>2, <1>3, <1>4, <2>1, SessionKept, FloorKept, ForwardedKept DEF RequestOK
<1>9. QED
  BY <1>1, <1>5, <1>6, <1>7, <1>8, StepKeeps

LEMMA PreflightEmitKeeps ==
  ASSUME RequestsInv, NEW q \in Requests, PreflightEmit(q)
  PROVE  RequestsInv'
<1> DEFINE n == session[q].revision
<1>1. /\ TypeOK /\ Move(q, "emit", "record")
      /\ emitted' = [emitted EXCEPT ![q]["preflight"] = n]
      /\ UNCHANGED <<registerVars, call, session, floor, recorded, forwarded, slotVars>>
  BY DEF RequestsInv, PreflightEmit, goroutine
<1>2. /\ stage[q] = "emit" /\ stage'[q] = "record" /\ stage' \in [Requests -> Stages]
      /\ \A p \in Requests \ {q} : stage'[p] = stage[p]
  BY <1>1, Moved DEF Stages
<1>3. /\ StageOK(q) /\ TrailOK(q) /\ SessionOK(q) /\ FloorOK(q) /\ ForwardedOK(q)
      /\ n \in 1 .. MaxRevision
  BY <1>2, OnItsWay DEF StageOK, Admitted
<1> HIDE DEF n
<1>4. /\ emitted' \in [Requests -> [Phases -> 0 .. MaxRevision]]
      /\ emitted'[q]["preflight"] = n /\ emitted'[q]["result"] = emitted[q]["result"]
      /\ \A p \in Requests \ {q} : emitted'[p] = emitted[p]
  BY <1>1, <1>3, BoundsAssumption DEF TypeOK, Phases
<1>5. KeepsOthers(q)
  BY <1>1, <1>2, <1>4 DEF KeepsOthers
<1>6. SlotsOK'
  BY <1>1, <1>2, <1>5, SlotsKept DEF Authenticating, Admitted
<1>7. TypeOK'
  BY <1>1, <1>2, <1>4 DEF TypeOK, registerVars, slotVars, RegisterTypeOK
<1>8. RequestOK(q)'
  <2>1. Unwritten(q)
    BY <1>2, <1>3 DEF TrailOK, Unaudited
  <2>2. StageOK(q)' /\ TrailOK(q)'
    BY <1>1, <1>2, <1>3, <1>4, <2>1
    DEF StageOK, TrailOK, Unwritten, Unaudited, Audited, Admitted, Phases, n
  <2>3. QED
    BY <1>1, <1>2, <1>3, <2>1, <2>2, SessionKept, FloorKept, ForwardedKept
    DEF RequestOK, Unwritten
<1>9. QED
  BY <1>1, <1>5, <1>6, <1>7, <1>8, StepKeeps

LEMMA PreflightRecordKeeps ==
  ASSUME RequestsInv, NEW q \in Requests, PreflightRecord(q)
  PROVE  RequestsInv'
<1> DEFINE n == session[q].revision
<1>1. /\ TypeOK /\ Move(q, "record", "dispatch")
      /\ recorded' = [recorded EXCEPT ![q]["preflight"] = n]
      /\ UNCHANGED <<registerVars, call, session, floor, emitted, forwarded, slotVars>>
  BY DEF RequestsInv, PreflightRecord, goroutine
<1>2. /\ stage[q] = "record" /\ stage'[q] = "dispatch" /\ stage' \in [Requests -> Stages]
      /\ \A p \in Requests \ {q} : stage'[p] = stage[p]
  BY <1>1, Moved DEF Stages
<1>3. /\ StageOK(q) /\ TrailOK(q) /\ SessionOK(q) /\ FloorOK(q) /\ ForwardedOK(q)
      /\ n \in 1 .. MaxRevision /\ n # 0
  BY <1>2, OnItsWay, BoundsAssumption DEF StageOK, Admitted
<1> HIDE DEF n
<1>4. /\ recorded' \in [Requests -> [Phases -> 0 .. MaxRevision]]
      /\ recorded'[q]["preflight"] = n /\ recorded'[q]["result"] = recorded[q]["result"]
      /\ \A p \in Requests \ {q} : recorded'[p] = recorded[p]
  BY <1>1, <1>3, BoundsAssumption DEF TypeOK, Phases
<1>5. KeepsOthers(q)
  BY <1>1, <1>2, <1>4 DEF KeepsOthers
<1>6. SlotsOK'
  BY <1>1, <1>2, <1>5, SlotsKept DEF Authenticating, Admitted
<1>7. TypeOK'
  BY <1>1, <1>2, <1>4 DEF TypeOK, registerVars, slotVars, RegisterTypeOK
<1>8. RequestOK(q)'
  <2>1. StageOK(q)' /\ TrailOK(q)'
    BY <1>1, <1>2, <1>3, <1>4 DEF StageOK, TrailOK, Unaudited, Audited, Admitted
  <2>2. QED
    BY <1>1, <1>2, <1>3, <2>1, SessionKept, FloorKept, ForwardedKept DEF RequestOK
<1>9. QED
  BY <1>1, <1>5, <1>6, <1>7, <1>8, StepKeeps

\* A step of an admitted request that changes nothing but its stage.
LEMMA OnlyMoves ==
  ASSUME RequestsInv, NEW q \in Requests, NEW from \in Admitted, NEW to \in Admitted \cap Audited,
         Move(q, from, to), TrailOK(q)',
         UNCHANGED <<registerVars, goroutine, auditVars, forwarded, slotVars>>
  PROVE  RequestsInv'
<1>1. /\ TypeOK
      /\ UNCHANGED <<registerVars, call, session, floor, emitted, recorded, forwarded, slotVars>>
  BY DEF RequestsInv, goroutine, auditVars
<1>2. /\ stage[q] = from /\ stage'[q] = to /\ stage' \in [Requests -> Stages]
      /\ \A p \in Requests \ {q} : stage'[p] = stage[p]
  BY <1>1, Moved DEF Stages, Admitted
<1>3. StageOK(q) /\ SessionOK(q) /\ FloorOK(q) /\ ForwardedOK(q)
  BY <1>2, OnItsWay DEF Admitted
<1>4. KeepsOthers(q)
  BY <1>1, <1>2 DEF KeepsOthers
<1>5. SlotsOK'
  BY <1>1, <1>2, <1>4, SlotsKept DEF Authenticating, Admitted
<1>6. TypeOK'
  BY <1>1, <1>2 DEF TypeOK, registerVars, slotVars, RegisterTypeOK
<1>7. RequestOK(q)'
  <2>1. StageOK(q)'
    BY <1>1, <1>2, <1>3 DEF StageOK, Admitted
  <2>2. QED
    BY <1>1, <1>2, <1>3, <2>1, SessionKept, FloorKept, ForwardedKept DEF RequestOK, Admitted
<1>8. QED
  BY <1>1, <1>4, <1>5, <1>6, <1>7, StepKeeps

LEMMA PreflightUnrecordedKeeps ==
  ASSUME RequestsInv, NEW q \in Requests, PreflightUnrecorded(q)
  PROVE  RequestsInv'
<1>1. /\ Move(q, "record", "dispatch") /\ ~ call[q].op.mutation
      /\ UNCHANGED <<registerVars, goroutine, auditVars, forwarded, slotVars>>
  BY DEF PreflightUnrecorded
<1>2. stage[q] = "record" /\ stage'[q] = "dispatch"
  BY <1>1, Moved DEF RequestsInv, Stages
<1>3. TrailOK(q)
  BY <1>2, OnItsWay
<1>4. TrailOK(q)'
  BY <1>1, <1>2, <1>3 DEF TrailOK, Unaudited, Audited, goroutine, auditVars
<1>5. QED
  BY <1>1, <1>4, OnlyMoves DEF Admitted, Audited

LEMMA AnswerHereKeeps ==
  ASSUME RequestsInv, NEW q \in Requests, AnswerHere(q)
  PROVE  RequestsInv'
<1>1. /\ Move(q, "dispatch", "resultEmit")
      /\ UNCHANGED <<registerVars, goroutine, auditVars, forwarded, slotVars>>
  BY DEF AnswerHere
<1>2. stage[q] = "dispatch" /\ stage'[q] = "resultEmit"
  BY <1>1, Moved DEF RequestsInv, Stages
<1>3. TrailOK(q)
  BY <1>2, OnItsWay
<1>4. TrailOK(q)'
  BY <1>1, <1>2, <1>3 DEF TrailOK, Unaudited, Audited, goroutine, auditVars
<1>5. QED
  BY <1>1, <1>4, OnlyMoves DEF Admitted, Audited

LEMMA RespondKeeps ==
  ASSUME RequestsInv, NEW q \in Requests, Respond(q)
  PROVE  RequestsInv'
<1>1. /\ Move(q, "upstream", "resultEmit")
      /\ UNCHANGED <<registerVars, goroutine, auditVars, forwarded, slotVars>>
  BY DEF Respond
<1>2. stage[q] = "upstream" /\ stage'[q] = "resultEmit"
  BY <1>1, Moved DEF RequestsInv, Stages
<1>3. TrailOK(q)
  BY <1>2, OnItsWay
<1>4. TrailOK(q)'
  BY <1>1, <1>2, <1>3 DEF TrailOK, Unaudited, Audited, goroutine, auditVars
<1>5. QED
  BY <1>1, <1>4, OnlyMoves DEF Admitted, Audited

\* A slot is given back, and the request is over.
LEMMA EndsKeeps ==
  ASSUME RequestsInv, NEW q \in Requests, NEW from \in Admitted, Move(q, from, "done"),
         ReleaseActive(q), Forget({q}), UNCHANGED <<registerVars, emitted, forwarded, authUsed>>,
         recorded' \in [Requests -> [Phases -> 0 .. MaxRevision]],
         \A p \in Requests \ {q} : recorded'[p] = recorded[p]
  PROVE  RequestsInv'
<1>1. TypeOK /\ call' = call
  BY DEF RequestsInv, Forget
<1>2. /\ stage[q] \in Admitted /\ stage'[q] = "done" /\ stage' \in [Requests -> Stages]
      /\ \A p \in Requests \ {q} : stage'[p] = stage[p]
  BY <1>1, Moved DEF Stages
<1>3. StageOK(q) /\ TrailOK(q) /\ SessionOK(q) /\ FloorOK(q) /\ ForwardedOK(q)
  BY <1>2, OnItsWay DEF Admitted
<1>4. /\ session' \in [Requests -> Session \cup {None}] /\ session'[q] = None
      /\ floor' \in [Requests -> Floor \cup {None}] /\ floor'[q] = None
      /\ \A p \in Requests \ {q} : session'[p] = session[p] /\ floor'[p] = floor[p]
  BY <1>1, Forgotten
<1>5. KeepsOthers(q)
  BY <1>1, <1>2, <1>4 DEF KeepsOthers
<1>6. SlotsOK' /\ active' \in [Replicas -> [Capabilities -> 0 .. Concurrent]]
  BY <1>1, <1>2, <1>5, ActiveReleased
<1>7. TypeOK'
  BY <1>1, <1>2, <1>4, <1>6 DEF TypeOK, registerVars, RegisterTypeOK
<1>8. RequestOK(q)'
  <2>1. StageOK(q)' /\ TrailOK(q)'
    BY <1>1, <1>2, <1>3, <1>4 DEF StageOK, TrailOK, Unaudited, Audited, Admitted
  <2>2. QED
    BY <1>1, <1>2, <1>3, <1>4, <2>1, SessionKept, FloorKept, ForwardedKept DEF RequestOK
<1>9. QED
  BY <1>1, <1>5, <1>6, <1>7, <1>8, StepKeeps

LEMMA PreflightFailsKeeps ==
  ASSUME RequestsInv, NEW q \in Requests, PreflightFails(q)
  PROVE  RequestsInv'
<1>1. /\ Move(q, "emit", "done") \/ Move(q, "record", "done")
      /\ ReleaseActive(q) /\ Forget({q}) /\ recorded' = recorded
      /\ UNCHANGED <<registerVars, emitted, forwarded, authUsed>>
  BY DEF PreflightFails, auditVars
<1>2. recorded' \in [Requests -> [Phases -> 0 .. MaxRevision]]
  BY <1>1 DEF RequestsInv, TypeOK
<1>3. QED
  BY <1>1, <1>2, EndsKeeps DEF Admitted

LEMMA ForwardKeeps ==
  ASSUME RequestsInv, NEW q \in Requests, Forward(q)
  PROVE  RequestsInv'
<1>1. /\ TypeOK /\ Move(q, "dispatch", "upstream") /\ Permitted(session[q].policy, call[q].op)
      /\ forwarded' = [forwarded EXCEPT ![q] = TRUE]
      /\ UNCHANGED <<registerVars, call, session, floor, emitted, recorded, slotVars>>
  BY DEF RequestsInv, Forward, goroutine, auditVars
<1>2. /\ stage[q] = "dispatch" /\ stage'[q] = "upstream" /\ stage' \in [Requests -> Stages]
      /\ \A p \in Requests \ {q} : stage'[p] = stage[p]
  BY <1>1, Moved DEF Stages
<1>3. /\ StageOK(q) /\ TrailOK(q) /\ SessionOK(q) /\ FloorOK(q)
      /\ session[q] # None /\ emitted[q]["preflight"] = session[q].revision
  BY <1>2, OnItsWay DEF StageOK, Admitted, TrailOK, Audited
<1>4. /\ forwarded' \in [Requests -> BOOLEAN]
      /\ \A p \in Requests \ {q} : forwarded'[p] = forwarded[p]
  BY <1>1 DEF TypeOK
<1>5. KeepsOthers(q)
  BY <1>1, <1>2, <1>4 DEF KeepsOthers
<1>6. SlotsOK'
  BY <1>1, <1>2, <1>5, SlotsKept DEF Authenticating, Admitted
<1>7. TypeOK'
  BY <1>1, <1>2, <1>4 DEF TypeOK, registerVars, slotVars, RegisterTypeOK
<1>8. RequestOK(q)'
  <2>1. StageOK(q)' /\ TrailOK(q)'
    BY <1>1, <1>2, <1>3 DEF StageOK, TrailOK, Unaudited, Audited, Admitted
  <2>2. ForwardedOK(q)'
    <3>1. /\ Reached(call[q].cap, emitted[q]["preflight"])
          /\ Permitted(PolicyAt(call[q].cap, emitted[q]["preflight"]), call[q].op)
      BY <1>1, <1>3 DEF SessionOK
    <3>2. QED
      BY <1>1, <1>2, <3>1 DEF ForwardedOK, Reached, Issued, PolicyAt, Permitted, registerVars
  <2>3. QED
    BY <1>1, <1>2, <1>3, <2>1, <2>2, SessionKept, FloorKept DEF RequestOK
<1>9. QED
  BY <1>1, <1>5, <1>6, <1>7, <1>8, StepKeeps

LEMMA ResultEmitKeeps ==
  ASSUME RequestsInv, NEW q \in Requests, ResultEmit(q)
  PROVE  RequestsInv'
<1> DEFINE n == session[q].revision
<1>1. /\ TypeOK /\ Move(q, "resultEmit", "resultRecord")
      /\ emitted' = [emitted EXCEPT ![q]["result"] = n] \/ emitted' = emitted
      /\ UNCHANGED <<registerVars, call, session, floor, recorded, forwarded, slotVars>>
  BY DEF RequestsInv, ResultEmit, goroutine
<1>2. /\ stage[q] = "resultEmit" /\ stage'[q] = "resultRecord" /\ stage' \in [Requests -> Stages]
      /\ \A p \in Requests \ {q} : stage'[p] = stage[p]
  BY <1>1, Moved DEF Stages
<1>3. /\ StageOK(q) /\ TrailOK(q) /\ SessionOK(q) /\ FloorOK(q) /\ ForwardedOK(q)
      /\ n \in 0 .. MaxRevision
  BY <1>2, OnItsWay, BoundsAssumption DEF StageOK, Admitted
<1> HIDE DEF n
<1>4. /\ emitted' \in [Requests -> [Phases -> 0 .. MaxRevision]]
      /\ emitted'[q]["preflight"] = emitted[q]["preflight"]
      /\ \A p \in Requests \ {q} : emitted'[p] = emitted[p]
  BY <1>1, <1>3, BoundsAssumption DEF TypeOK, Phases
<1>5. KeepsOthers(q)
  BY <1>1, <1>2, <1>4 DEF KeepsOthers
<1>6. SlotsOK'
  BY <1>1, <1>2, <1>5, SlotsKept DEF Authenticating, Admitted
<1>7. TypeOK'
  BY <1>1, <1>2, <1>4 DEF TypeOK, registerVars, slotVars, RegisterTypeOK
<1>8. RequestOK(q)'
  <2>1. StageOK(q)' /\ TrailOK(q)'
    BY <1>1, <1>2, <1>3, <1>4 DEF StageOK, TrailOK, Unaudited, Audited, Admitted
  <2>2. QED
    BY <1>1, <1>2, <1>3, <1>4, <2>1, SessionKept, FloorKept, ForwardedKept DEF RequestOK
<1>9. QED
  BY <1>1, <1>5, <1>6, <1>7, <1>8, StepKeeps

LEMMA ResultRecordKeeps ==
  ASSUME RequestsInv, NEW q \in Requests, ResultRecord(q)
  PROVE  RequestsInv'
<1> DEFINE n == session[q].revision
<1>1. /\ TypeOK /\ Move(q, "resultRecord", "done") /\ ReleaseActive(q) /\ Forget({q})
      /\ recorded' = [recorded EXCEPT ![q]["result"] = n] \/ recorded' = recorded
      /\ UNCHANGED <<registerVars, emitted, forwarded, authUsed>>
  BY DEF RequestsInv, ResultRecord
<1>2. stage[q] = "resultRecord"
  BY <1>1 DEF Move
<1>3. n \in 0 .. MaxRevision
  BY <1>2, OnItsWay, BoundsAssumption DEF StageOK, Admitted
<1> HIDE DEF n
<1>4. /\ recorded' \in [Requests -> [Phases -> 0 .. MaxRevision]]
      /\ \A p \in Requests \ {q} : recorded'[p] = recorded[p]
  <2>1. recorded \in [Requests -> [Phases -> 0 .. MaxRevision]]
    BY <1>1 DEF TypeOK
  <2>2. CASE recorded' = recorded
    BY <2>1, <2>2
  <2>3. CASE recorded' = [recorded EXCEPT ![q]["result"] = n]
    BY <1>3, <2>1, <2>3 DEF Phases
  <2>4. QED
    BY <1>1, <2>2, <2>3
<1>5. QED
  BY <1>1, <1>4, EndsKeeps DEF Admitted

\* A replica dies with the requests it serves: they hold nothing, and neither does
\* its limiter.
LEMMA CrashKeeps ==
  ASSUME RequestsInv, NEW r \in Replicas, Crash(r)
  PROVE  RequestsInv'
<1> DEFINE lost == {q \in Requests : stage[q] \in Stages \ {"idle", "done"} /\ call[q].replica = r}
<1>1. /\ RegisterInv /\ TypeOK /\ Forget(lost)
      /\ stage' = [q \in Requests |-> IF q \in lost THEN "done" ELSE stage[q]]
      /\ authUsed' = [authUsed EXCEPT ![r] = 0]
      /\ active' = [active EXCEPT ![r] = [c \in Capabilities |-> 0]]
      /\ UNCHANGED <<registerVars, emitted, recorded, forwarded>>
  BY DEF RequestsInv, Crash, auditVars
<1>2. \A q \in lost : q \in Requests /\ stage[q] # "idle" /\ call[q].replica = r
  OBVIOUS
<1>3. \A q \in Requests \ lost : stage[q] \in {"idle", "done"} \/ call[q].replica # r
  BY <1>1 DEF TypeOK
<1> HIDE DEF lost
<1>4. /\ session' \in [Requests -> Session \cup {None}]
      /\ floor' \in [Requests -> Floor \cup {None}] /\ call' = call
      /\ \A q \in Requests :
           IF q \in lost THEN session'[q] = None /\ floor'[q] = None
                         ELSE session'[q] = session[q] /\ floor'[q] = floor[q]
  BY <1>1, Forgotten
<1>5. \A q \in Requests : stage'[q] = IF q \in lost THEN "done" ELSE stage[q]
  BY <1>1
<1>6. RegisterInv'
  BY <1>1, NextRegisterInv
<1>7. TypeOK'
  <2>1. stage' \in [Requests -> Stages]
    BY <1>1 DEF TypeOK, Stages
  <2>2. authUsed' \in [Replicas -> 0 .. AuthSlots]
    BY <1>1, SlotsAssumption DEF TypeOK
  <2>3. active' \in [Replicas -> [Capabilities -> 0 .. Concurrent]]
    <3>1. [c \in Capabilities |-> 0] \in [Capabilities -> 0 .. Concurrent]
      BY SlotsAssumption
    <3>2. QED
      BY <1>1, <3>1 DEF TypeOK
  <2>4. QED
    BY <1>1, <1>4, <2>1, <2>2, <2>3 DEF TypeOK, registerVars, RegisterTypeOK
<1>8. ASSUME NEW q \in Requests PROVE RequestOK(q)'
  <2>1. CASE q \notin lost
    BY <1>1, <1>4, <1>5, <2>1, OthersOK
  <2>2. CASE q \in lost
    <3>1. stage[q] # "idle" /\ stage'[q] = "done" /\ session'[q] = None /\ floor'[q] = None
      BY <1>2, <1>4, <1>5, <2>2
    <3>2. StageOK(q) /\ SessionOK(q) /\ FloorOK(q) /\ ForwardedOK(q)
      BY <3>1, OnItsWay
    <3>3. StageOK(q)' /\ TrailOK(q)'
      BY <1>4, <3>1, <3>2 DEF StageOK, TrailOK, Unaudited, Audited, Admitted
    <3>4. QED
      BY <1>1, <1>4, <3>1, <3>2, <3>3, SessionKept, FloorKept, ForwardedKept DEF RequestOK
  <2>3. QED
    BY <2>1, <2>2
<1>9. ASSUME NEW s \in Replicas
      PROVE  /\ IsFiniteSet(Authenticators(s)') /\ authUsed'[s] = Cardinality(Authenticators(s)')
             /\ \A c \in Capabilities :
                  /\ IsFiniteSet(Runners(s, c)')
                  /\ active'[s][c] = Cardinality(Runners(s, c)')
  <2>1. /\ IsFiniteSet(Authenticators(s)) /\ authUsed[s] = Cardinality(Authenticators(s))
        /\ \A c \in Capabilities :
             IsFiniteSet(Runners(s, c)) /\ active[s][c] = Cardinality(Runners(s, c))
    BY DEF RequestsInv, SlotsOK
  <2>2. CASE s = r
    <3>1. Authenticators(s)' = {} /\ \A c \in Capabilities : Runners(s, c)' = {}
      BY <1>3, <1>4, <1>5, <2>2
      DEF Authenticators, Authenticates, Runners, Runs, Authenticating, Admitted
    <3>2. authUsed'[s] = 0 /\ \A c \in Capabilities : active'[s][c] = 0
      BY <1>1, <2>2 DEF TypeOK
    <3>3. QED
      BY <3>1, <3>2, FS_EmptySet
  <2>3. CASE s # r
    <3>1. Authenticators(s)' = Authenticators(s)
      BY <1>2, <1>4, <1>5, <2>3 DEF Authenticators, Authenticates, Authenticating
    <3>2. \A c \in Capabilities : Runners(s, c)' = Runners(s, c)
      BY <1>2, <1>4, <1>5, <2>3 DEF Runners, Runs, Admitted
    <3>3. authUsed'[s] = authUsed[s] /\ active'[s] = active[s]
      BY <1>1, <2>3 DEF TypeOK
    <3>4. QED
      BY <2>1, <3>1, <3>2, <3>3
  <2>4. QED
    BY <2>2, <2>3
<1>10. SlotsOK'
  BY <1>9 DEF SlotsOK
<1>11. QED
  BY <1>6, <1>7, <1>8, <1>10 DEF RequestsInv

-----------------------------------------------------------------------------
(* The invariant. *)

LEMMA InitRequestsInv == Init => RequestsInv
<1> SUFFICES ASSUME Init PROVE RequestsInv
  OBVIOUS
<1>1. RegisterInv
  BY InitRegisterInv DEF Init
<1>2. TypeOK
  <2>1. 0 \in 0 .. MaxRevision /\ 0 \in 0 .. AuthSlots /\ 0 \in 0 .. Concurrent
    BY BoundsAssumption, SlotsAssumption
  <2>2. [phase \in Phases |-> 0] \in [Phases -> 0 .. MaxRevision]
    BY <2>1
  <2>3. [c \in Capabilities |-> 0] \in [Capabilities -> 0 .. Concurrent]
    BY <2>1
  <2>4. QED
    BY <1>1, <2>1, <2>2, <2>3 DEF Init, TypeOK, Stages, RegisterInv
<1>3. ASSUME NEW q \in Requests PROVE RequestOK(q)
  BY DEF Init, RequestOK, StageOK, SessionOK, FloorOK, TrailOK, ForwardedOK, Unwritten,
         Unaudited, Audited, Admitted
<1>4. SlotsOK
  <2>1. ASSUME NEW r \in Replicas
        PROVE  Authenticators(r) = {} /\ \A c \in Capabilities : Runners(r, c) = {}
    BY DEF Init, Authenticators, Authenticates, Runners, Runs, Authenticating, Admitted
  <2>2. \A r \in Replicas : authUsed[r] = 0 /\ \A c \in Capabilities : active[r][c] = 0
    BY DEF Init
  <2>3. QED
    BY <2>1, <2>2, FS_EmptySet DEF SlotsOK
<1>5. QED
  BY <1>1, <1>2, <1>3, <1>4 DEF RequestsInv

\* The register moves, or nothing does.
LEMMA RegisterStepKeeps ==
  ASSUME RequestsInv, [RegisterNext]_registerVars, UNCHANGED requestVars
  PROVE  RequestsInv'
<1>1. RegisterInv'
  BY NextRegisterInv DEF RequestsInv
<1>2. UNCHANGED <<stage, call, session, floor, emitted, recorded, forwarded, authUsed, active>>
  BY DEF requestVars, goroutine, auditVars, slotVars
<1>3. TypeOK'
  BY <1>1, <1>2 DEF RequestsInv, TypeOK, RegisterInv
<1>4. \A q \in Requests : RequestOK(q)'
  BY <1>2, OthersOK
<1>5. SlotsOK'
  BY <1>2 DEF RequestsInv, SlotsOK, Authenticators, Authenticates, Runners, Runs
<1>6. QED
  BY <1>1, <1>3, <1>4, <1>5 DEF RequestsInv

LEMMA NextRequestsInv ==
  ASSUME RequestsInv, [Next]_vars
  PROVE  RequestsInv'
<1>1. CASE RegisterNext /\ UNCHANGED requestVars
  BY <1>1, RegisterStepKeeps
<1>2. ASSUME NEW q \in Requests, Resolve(q)
      PROVE  RequestsInv'
  BY <1>2, FirstReadKeeps, RefuseKeeps, ObserveKeeps, ObserveFailsKeeps, SecondReadKeeps
  DEF Resolve
<1>3. ASSUME NEW q \in Requests, Serve(q)
      PROVE  RequestsInv'
  BY <1>3, AdmitKeeps, RejectKeeps, PreflightEmitKeeps, PreflightRecordKeeps,
     PreflightUnrecordedKeeps, PreflightFailsKeeps, ForwardKeeps, AnswerHereKeeps, RespondKeeps,
     ResultEmitKeeps, ResultRecordKeeps
  DEF Serve
<1>4. CASE UNCHANGED vars
  BY <1>4, RegisterStepKeeps DEF vars
<1>5. QED
  BY <1>1, <1>2, <1>3, <1>4, ArriveKeeps, CrashKeeps DEF Next

\* The inductive invariant of the request path: it holds in every reachable state.
THEOREM RequestsInvariant == Spec => []RequestsInv
<1>1. Init => RequestsInv
  BY InitRequestsInv
<1>2. RequestsInv /\ [Next]_vars => RequestsInv'
  BY NextRequestsInv
<1>3. QED
  BY <1>1, <1>2, PTL DEF Spec

\* Every variable of the request path keeps its type, the counters of the limiter
\* their bounds among them (ratelimit.go).
THEOREM RequestsAreTyped == Spec => []TypeOK
<1>1. RequestsInv => TypeOK
  BY DEF RequestsInv
<1>2. QED
  BY <1>1, RequestsInvariant, PTL

\* What GitHub received was permitted by the policy that the history of the
\* capability records for the revision the structured log names (server.go).
THEOREM ForwardingIsRecorded == Spec => []ForwardedUnderRecordedPolicy
<1>1. RequestsInv => ForwardedUnderRecordedPolicy
  <2>1. SUFFICES ASSUME RequestsInv, NEW q \in Requests, forwarded[q]
                 PROVE  /\ emitted[q]["preflight"] # 0
                        /\ Permitted(PolicyAt(call[q].cap, emitted[q]["preflight"]), call[q].op)
    BY DEF ForwardedUnderRecordedPolicy
  <2>2. /\ stage[q] # "idle" /\ Reached(call[q].cap, emitted[q]["preflight"])
        /\ Permitted(PolicyAt(call[q].cap, emitted[q]["preflight"]), call[q].op)
    BY <2>1 DEF RequestsInv, RequestOK, ForwardedOK
  <2>3. /\ emitted[q]["preflight"] \in 1 .. row[call[q].cap].revision
        /\ row[call[q].cap].revision \in 1 .. MaxRevision
    BY <2>1, <2>2, OnItsWay, RowFields DEF Reached, RequestsInv, RegisterInv, RegisterTypeOK, Issued
  <2>4. QED
    BY <2>2, <2>3, BoundsAssumption
<1>2. QED
  BY <1>1, RequestsInvariant, PTL

\* No return and no crash loses a slot of the limiter or frees it twice (ratelimit.go).
THEOREM SlotsAreOwned == Spec => []SlotsBelongToRequests
<1>1. RequestsInv => SlotsBelongToRequests
  BY DEF RequestsInv, SlotsOK, SlotsBelongToRequests, Authenticators, Authenticates, Runners, Runs
<1>2. QED
  BY <1>1, RequestsInvariant, PTL

-----------------------------------------------------------------------------
(* What the second read resolves. *)

\* A Session is made by the second read and by nothing else.
LEMMA SessionsAreResolved ==
  ASSUME RequestsInv, [Next]_vars, NEW q \in Requests, session[q] = None, session'[q] # None
  PROVE  SecondRead(q)
<1>1. session \in [Requests -> Session \cup {None}]
  BY DEF RequestsInv, TypeOK
<1>2. session' # session
  OBVIOUS
<1>3. ASSUME NEW over, Forget(over) PROVE FALSE
  BY <1>1, <1>3 DEF Forget
<1>4. ASSUME NEW p \in Requests, Resolve(p) PROVE SecondRead(p)
  BY <1>2, <1>4 DEF Resolve, FirstRead, Refuse, Observe, ObserveFails, goroutine
<1>5. ASSUME NEW p \in Requests, SecondRead(p) PROVE p = q
  BY <1>1, <1>5 DEF SecondRead, Resolved
<1>6. ASSUME NEW p \in Requests, Serve(p) PROVE FALSE
  BY <1>2, <1>3, <1>6
  DEF Serve, Admit, Reject, PreflightEmit, PreflightRecord, PreflightUnrecorded, PreflightFails,
      Forward, AnswerHere, Respond, ResultEmit, ResultRecord, goroutine
<1>7. ASSUME NEW r \in Replicas, Crash(r) PROVE FALSE
  BY <1>3, <1>7 DEF Crash
<1>8. ~ UNCHANGED requestVars /\ ~ UNCHANGED vars
  BY <1>2 DEF vars, requestVars, goroutine
<1>9. \A p \in Requests, r \in Replicas, c \in Capabilities, op \in Operations : ~ Arrive(p, r, c, op)
  BY <1>2 DEF Arrive
<1>10. QED
  BY <1>4, <1>5, <1>6, <1>7, <1>8, <1>9 DEF Next

\* The row of the observation was usable then, if the row of the second read is now.
LEMMA UsableThen ==
  ASSUME RequestsInv, NEW q \in Requests, SecondRead(q)
  PROVE  /\ floor[q] # None
         /\ Usable(floor[q].row, floor[q].at)
         /\ floor[q].row.revision <= session'[q].revision
<1> DEFINE r == row[call[q].cap]
           f == floor[q]
           s == [policy |-> r.policy, revision |-> r.revision]
<1>1. /\ RegisterInv /\ TypeOK /\ stage[q] = "secondRead" /\ Usable(r, now)
      /\ session' = [session EXCEPT ![q] = s] /\ s.revision = r.revision
  BY DEF RequestsInv, SecondRead, Resolved, Move
<1>2. StageOK(q) /\ FloorOK(q) /\ call[q].cap \in Capabilities /\ floor[q] # None
  BY <1>1, OnItsWay DEF StageOK
<1>3. /\ r \in CapabilityRow /\ f \in Floor /\ f.row \in CapabilityRow /\ f.row # None
      /\ now \in Int /\ f.at \in Int
  BY <1>1, <1>2, FloorFields, RowFields, BoundsAssumption
  DEF RegisterInv, RegisterTypeOK, TypeOK, Usable, Time
<1>4. /\ f.at <= now /\ f.row.revision <= r.revision /\ f.row.expiresAt = r.expiresAt
      /\ f.row.revoked => r.revoked
  BY <1>2 DEF FloorOK
<1>5. session'[q].revision = r.revision
  BY <1>1 DEF TypeOK
<1>6. r.expiresAt = Never \/ r.expiresAt \in Int
  BY <1>3, RowFields, BoundsAssumption DEF Time
<1> HIDE DEF r, f, s
<1>7. ~ r.revoked /\ ~ Expired(r, now)
  BY <1>1 DEF Usable, CapabilityState
<1>8. ~ f.row.revoked /\ ~ Expired(f.row, f.at)
  BY <1>3, <1>4, <1>6, <1>7 DEF Expired
<1>9. Usable(f.row, f.at)
  BY <1>3, <1>8 DEF Usable, CapabilityState
<1>10. QED
  BY <1>2, <1>4, <1>5, <1>9 DEF f

\* What an operator committed while the observation blocked is not missed: the
\* capability was usable when the observation completed, and the revision of the
\* Session is not older than the one in force then (capability.go, Authenticate).
THEOREM ObservationComesFirst == Spec => ResolvedAfterObservation
<1>1. RequestsInv /\ [Next]_vars =>
        [\A q \in Requests : session[q] = None /\ session'[q] # None =>
           /\ floor[q] # None
           /\ Usable(floor[q].row, floor[q].at)
           /\ session'[q].revision >= floor[q].row.revision]_vars
  <2>1. SUFFICES ASSUME RequestsInv, [Next]_vars, NEW q \in Requests,
                        session[q] = None, session'[q] # None
                 PROVE  /\ floor[q] # None
                        /\ Usable(floor[q].row, floor[q].at)
                        /\ session'[q].revision >= floor[q].row.revision
    OBVIOUS
  <2>2. QED
    BY <2>1, SessionsAreResolved, UsableThen
<1>2. QED
  BY <1>1, RequestsInvariant, PTL DEF Spec, ResolvedAfterObservation

-----------------------------------------------------------------------------
(* The refinement of AuthorizedRequests. *)

\* The register of the abstract specification is the same register.
LEMMA SameRegister ==
  /\ Authorized!RegisterInit <=> RegisterInit
  /\ Authorized!RegisterNext <=> RegisterNext
  /\ Authorized!registerVars = registerVars
<1>1. \A policy : Authorized!ValidatePolicy(policy) <=> ValidatePolicy(policy)
  BY DEF Authorized!ValidatePolicy, ValidatePolicy, Authorized!Developer, Developer,
         Authorized!PushModes, PushModes, Authorized!IsKnownGrant, IsKnownGrant,
         Authorized!KnownGrants, KnownGrants
<1>2. \A before, after : Authorized!ClassifyPolicyChange(before, after)
                           = ClassifyPolicyChange(before, after)
  BY DEF Authorized!ClassifyPolicyChange, ClassifyPolicyChange, Authorized!Gains, Gains,
         Authorized!Allows, Allows, Authorized!GitPushAuthority, GitPushAuthority
<1>3. \A r, at : Authorized!CapabilityState(r, at) = CapabilityState(r, at)
  BY DEF Authorized!CapabilityState, CapabilityState, Authorized!Expired, Expired
<1>4. ASSUME NEW c \in Capabilities, NEW policy, NEW expiresAt
      PROVE  Authorized!Issue(c, policy, expiresAt) <=> Issue(c, policy, expiresAt)
  BY <1>1 DEF Authorized!Issue, Issue, Authorized!Issued, Issued
<1>5. ASSUME NEW c \in Capabilities, NEW policy, NEW at
      PROVE  Authorized!Replace(c, policy, at) <=> Replace(c, policy, at)
  BY <1>1, <1>2, <1>3
  DEF Authorized!Replace, Replace, Authorized!Issued, Issued, Authorized!Replaceable, Replaceable,
      Authorized!Replaced, Replaced, Authorized!EventOf, EventOf
<1>6. ASSUME NEW c \in Capabilities
      PROVE  Authorized!Revoke(c) <=> Revoke(c)
  BY DEF Authorized!Revoke, Revoke, Authorized!Issued, Issued
<1>7. Authorized!Tick <=> Tick
  BY DEF Authorized!Tick, Tick
<1>8. Authorized!Administer <=> Administer
  BY <1>4, <1>5, <1>6 DEF Authorized!Administer, Administer, Authorized!Time, Time
<1>9. Authorized!RegisterNext <=> RegisterNext
  BY <1>7, <1>8 DEF Authorized!RegisterNext, RegisterNext
<1>10. Authorized!RegisterInit <=> RegisterInit
  BY DEF Authorized!RegisterInit, RegisterInit
<1>11. QED
  BY <1>9, <1>10 DEF Authorized!registerVars, registerVars

\* The capability and the operation of each request, as the refinement maps them.
Asked ==
  [q \in Requests |-> IF call[q] = None THEN None ELSE [cap |-> call[q].cap, op |-> call[q].op]]

LEMMA AskedFields ==
  ASSUME RequestsInv, NEW q \in Requests, stage[q] # "idle"
  PROVE  Asked[q] # None /\ Asked[q].cap = call[q].cap /\ Asked[q].op = call[q].op
<1>1. call[q] # None /\ call[q].cap \in Capabilities /\ call[q].op \in Operations
  BY OnItsWay
<1>2. [cap |-> call[q].cap, op |-> call[q].op] # None
  BY <1>1, NobodyAssumption
<1>3. QED
  BY <1>1, <1>2 DEF Asked

\* A step that the abstract specification does not see.
Unseen == UNCHANGED <<registerVars, call, session, emitted, recorded, forwarded>>

LEMMA UnseenStep ==
  ASSUME Unseen
  PROVE  UNCHANGED <<Authorized!registerVars, Authorized!trailVars>>
BY SameRegister DEF Unseen, Authorized!trailVars, Authorized!registerVars, registerVars

LEMMA ArriveAsks ==
  ASSUME RequestsInv, NEW q \in Requests, NEW r \in Replicas, NEW c \in Capabilities,
         NEW op \in Operations, Arrive(q, r, c, op)
  PROVE  Authorized!Ask(q, c, op)
<1> DEFINE k == [replica |-> r, cap |-> c, op |-> op]
           a == [cap |-> c, op |-> op]
<1>1. k # None /\ k.cap = c /\ k.op = op /\ k \in Call
  BY CallFields DEF Call
<1>2. /\ call' = [call EXCEPT ![q] = k] /\ call[q] = None
      /\ UNCHANGED <<registerVars, session, emitted, recorded, forwarded>>
  BY DEF Arrive, auditVars, RequestsInv, RequestOK, StageOK
<1>3. Asked[q] = None
  BY <1>2 DEF Asked
<1>4. Asked' = [Asked EXCEPT ![q] = a]
  <2>1. /\ call'[q] = k /\ \A p \in Requests \ {q} : call'[p] = call[p]
    BY <1>2 DEF RequestsInv, TypeOK
  <2> HIDE DEF k
  <2>2. Asked'[q] = a /\ \A p \in Requests \ {q} : Asked'[p] = Asked[p]
    BY <1>1, <2>1 DEF Asked
  <2> HIDE DEF a
  <2>3. QED
    BY <2>2 DEF Asked
<1>5. QED
  BY <1>2, <1>3, <1>4 DEF Authorized!Ask, Authorized!registerVars, registerVars, Asked

LEMMA SecondReadGrants ==
  ASSUME RequestsInv, NEW q \in Requests, SecondRead(q)
  PROVE  Authorized!Grant(q)
<1> DEFINE r == row[call[q].cap]
<1>1. /\ stage[q] = "secondRead" /\ Usable(r, now)
      /\ session' = [session EXCEPT ![q] = [policy |-> r.policy, revision |-> r.revision]]
      /\ UNCHANGED <<registerVars, call, emitted, recorded, forwarded>>
  BY DEF SecondRead, Resolved, Move, auditVars
<1>2. /\ session[q] = None /\ emitted[q]["preflight"] = 0
      /\ Asked[q] # None /\ Asked[q].cap = call[q].cap
  BY <1>1, OnItsWay, AskedFields DEF StageOK, TrailOK, Unaudited, Unwritten, Admitted, Phases
<1>3. Authorized!Usable(r, now)
  BY <1>1 DEF Authorized!Usable, Usable, Authorized!CapabilityState, CapabilityState,
              Authorized!Expired, Expired
<1>4. Asked' = Asked
  BY <1>1 DEF Asked
<1> HIDE DEF r
<1>5. QED
  BY <1>1, <1>2, <1>3, <1>4 DEF Authorized!Grant, Authorized!registerVars, registerVars, Asked, r

LEMMA PreflightLogs ==
  ASSUME RequestsInv, NEW q \in Requests, PreflightEmit(q)
  PROVE  Authorized!Log(q, "preflight")
<1>1. /\ stage[q] = "emit"
      /\ emitted' = [emitted EXCEPT ![q]["preflight"] = session[q].revision]
      /\ UNCHANGED <<registerVars, call, session, recorded, forwarded>>
  BY DEF PreflightEmit, Move, goroutine
<1>2. session[q] # None /\ emitted[q]["preflight"] = 0
  BY <1>1, OnItsWay DEF StageOK, TrailOK, Unaudited, Unwritten, Admitted, Phases
<1>3. QED
  BY <1>1, <1>2 DEF Authorized!Log, Authorized!registerVars, registerVars

LEMMA PreflightArchives ==
  ASSUME RequestsInv, NEW q \in Requests, PreflightRecord(q)
  PROVE  Authorized!Archive(q, "preflight")
<1>1. /\ stage[q] = "record"
      /\ recorded' = [recorded EXCEPT ![q]["preflight"] = session[q].revision]
      /\ UNCHANGED <<registerVars, call, session, emitted, forwarded>>
  BY DEF PreflightRecord, Move, goroutine
<1>2. /\ session[q] # None /\ recorded[q]["preflight"] = 0
      /\ emitted[q]["preflight"] = session[q].revision /\ session[q].revision # 0
  BY <1>1, OnItsWay, BoundsAssumption DEF StageOK, TrailOK, Audited, Admitted
<1>3. QED
  BY <1>1, <1>2 DEF Authorized!Archive, Authorized!registerVars, registerVars

LEMMA ForwardSends ==
  ASSUME RequestsInv, NEW q \in Requests, Forward(q)
  PROVE  Authorized!Send(q)
<1>1. /\ stage[q] = "dispatch" /\ Permitted(session[q].policy, call[q].op)
      /\ forwarded' = [forwarded EXCEPT ![q] = TRUE]
      /\ UNCHANGED <<registerVars, call, session, emitted, recorded>>
  BY DEF Forward, Move, goroutine, auditVars
<1>2. /\ session[q] # None /\ ~ forwarded[q]
      /\ emitted[q]["preflight"] = session[q].revision /\ session[q].revision # 0
      /\ emitted[q]["result"] = 0 /\ recorded[q]["result"] = 0
      /\ call[q].op.mutation => recorded[q]["preflight"] # 0
  BY <1>1, OnItsWay, BoundsAssumption DEF StageOK, TrailOK, Audited, Admitted
<1>3. Asked' = Asked /\ Asked[q].op = call[q].op
  BY <1>1, AskedFields DEF Asked
<1>4. Authorized!Permitted(session[q].policy, Asked[q].op)
  BY <1>1, <1>3 DEF Authorized!Permitted, Permitted, Authorized!Authority, Authority
<1>5. QED
  BY <1>1, <1>2, <1>3, <1>4 DEF Authorized!Send, Authorized!registerVars, registerVars, Asked

\* A result in the log, or none.
LEMMA ResultLogs ==
  ASSUME RequestsInv, NEW q \in Requests, ResultEmit(q)
  PROVE  Authorized!Log(q, "result") \/ Unseen
<1>1. /\ stage[q] = "resultEmit"
      /\ \/ emitted' = [emitted EXCEPT ![q]["result"] = session[q].revision]
         \/ emitted' = emitted
      /\ UNCHANGED <<registerVars, call, session, recorded, forwarded>>
  BY DEF ResultEmit, Move, goroutine
<1>2. /\ session[q] # None /\ emitted[q]["result"] = 0
      /\ emitted[q]["preflight"] = session[q].revision /\ session[q].revision # 0
  BY <1>1, OnItsWay, BoundsAssumption DEF StageOK, TrailOK, Audited, Admitted
<1>3. QED
  BY <1>1, <1>2 DEF Authorized!Log, Authorized!registerVars, registerVars, Unseen

\* Requests that end, and the result in the database, or none.
LEMMA ForgottenEnd ==
  ASSUME NEW over \in SUBSET Requests, Forget(over),
         UNCHANGED <<registerVars, emitted, recorded, forwarded>>
  PROVE  Authorized!End(over)
<1>1. Asked' = Asked
  BY DEF Forget, Asked
<1>2. QED
  BY <1>1 DEF Forget, Authorized!End, Authorized!registerVars, registerVars, Asked

LEMMA ResultArchives ==
  ASSUME RequestsInv, NEW q \in Requests, ResultRecord(q)
  PROVE  Authorized!Archive(q, "result") \/ Authorized!End({q})
<1>1. /\ stage[q] = "resultRecord" /\ Forget({q}) /\ call' = call
      /\ \/ recorded' = [recorded EXCEPT ![q]["result"] = session[q].revision]
         \/ recorded' = recorded
      /\ UNCHANGED <<registerVars, emitted, forwarded>>
  BY DEF ResultRecord, Move, Forget
<1>2. /\ session[q] # None /\ recorded[q]["result"] = 0
      /\ emitted[q]["preflight"] = session[q].revision /\ session[q].revision # 0
  BY <1>1, OnItsWay, BoundsAssumption DEF StageOK, TrailOK, Audited, Admitted
<1>3. session' = [session EXCEPT ![q] = None]
  BY <1>1 DEF Forget, RequestsInv, TypeOK
<1>4. CASE recorded' = recorded
  BY <1>1, <1>4, ForgottenEnd
<1>5. CASE recorded' = [recorded EXCEPT ![q]["result"] = session[q].revision]
  BY <1>1, <1>2, <1>3, <1>5 DEF Authorized!Archive, Authorized!registerVars, registerVars
<1>6. QED
  BY <1>1, <1>4, <1>5

LEMMA InitAuthorized == Init => Authorized!AuthorizedInit
BY SameRegister
DEF Init, Phases, Authorized!AuthorizedInit, Authorized!TrailInit,
    Authorized!AuditPhases

LEMMA NextAuthorized ==
  ASSUME RequestsInv, [Next]_vars
  PROVE  [Authorized!AuthorizedNext]_<<Authorized!registerVars, Authorized!trailVars>>
<1>1. CASE Unseen
  BY <1>1, UnseenStep
<1>2. CASE RegisterNext /\ UNCHANGED requestVars
  <2>1. UNCHANGED Authorized!trailVars
    BY <1>2 DEF requestVars, goroutine, auditVars, Authorized!trailVars
  <2>2. QED
    BY <1>2, <2>1, SameRegister DEF Authorized!AuthorizedNext
<1>3. CASE UNCHANGED vars
  BY <1>1, <1>3 DEF vars, requestVars, goroutine, auditVars, Unseen
<1>4. ASSUME NEW q \in Requests, NEW r \in Replicas, NEW c \in Capabilities,
             NEW op \in Operations, Arrive(q, r, c, op)
      PROVE  Authorized!AuthorizedNext
  BY <1>4, ArriveAsks DEF Authorized!AuthorizedNext
<1>5. ASSUME NEW q \in Requests, Resolve(q)
      PROVE  Authorized!AuthorizedNext \/ Unseen
  <2>1. CASE SecondRead(q)
    BY <2>1, SecondReadGrants DEF Authorized!AuthorizedNext
  <2>2. CASE ~ SecondRead(q)
    BY <1>5, <2>2
    DEF Resolve, FirstRead, Refuse, Observe, ObserveFails, goroutine, auditVars, Unseen
  <2>3. QED
    BY <2>1, <2>2
<1>6. ASSUME NEW q \in Requests, Serve(q)
      PROVE  Authorized!AuthorizedNext \/ Unseen
  <2>1. CASE Reject(q) \/ PreflightFails(q)
    <3>1. Forget({q}) /\ UNCHANGED <<registerVars, emitted, recorded, forwarded>>
      BY <2>1 DEF Reject, PreflightFails, auditVars
    <3>2. Authorized!End({q})
      BY <3>1, ForgottenEnd
    <3>3. QED
      BY <3>2 DEF Authorized!AuthorizedNext
  <2>2. CASE PreflightEmit(q)
    BY <2>2, PreflightLogs DEF Authorized!AuthorizedNext, Authorized!AuditPhases
  <2>3. CASE PreflightRecord(q)
    BY <2>3, PreflightArchives DEF Authorized!AuthorizedNext, Authorized!AuditPhases
  <2>4. CASE Forward(q)
    BY <2>4, ForwardSends DEF Authorized!AuthorizedNext
  <2>5. CASE ResultEmit(q)
    BY <2>5, ResultLogs DEF Authorized!AuthorizedNext, Authorized!AuditPhases
  <2>6. CASE ResultRecord(q)
    <3>1. Authorized!Archive(q, "result") \/ Authorized!End({q})
      BY <2>6, ResultArchives
    <3>2. QED
      BY <3>1 DEF Authorized!AuthorizedNext, Authorized!AuditPhases
  <2>7. CASE Admit(q) \/ PreflightUnrecorded(q) \/ AnswerHere(q) \/ Respond(q)
    BY <2>7 DEF Admit, PreflightUnrecorded, AnswerHere, Respond, goroutine, auditVars, Unseen
  <2>8. QED
    BY <1>6, <2>1, <2>2, <2>3, <2>4, <2>5, <2>6, <2>7 DEF Serve
<1>7. ASSUME NEW r \in Replicas, Crash(r)
      PROVE  Authorized!AuthorizedNext
  <2> DEFINE lost == {q \in Requests : stage[q] \in Stages \ {"idle", "done"} /\ call[q].replica = r}
  <2>1. /\ lost \in SUBSET Requests /\ Forget(lost)
        /\ UNCHANGED <<registerVars, emitted, recorded, forwarded>>
    BY <1>7 DEF Crash, auditVars
  <2> HIDE DEF lost
  <2>2. Authorized!End(lost)
    BY <2>1, ForgottenEnd
  <2>3. QED
    BY <2>1, <2>2 DEF Authorized!AuthorizedNext
<1>8. QED
  BY <1>1, <1>2, <1>3, <1>4, <1>5, <1>6, <1>7 DEF Next

\* Two reads around an observation, limits, two audit sinks that fail apart and
\* replicas that die: it is all one authorization, in the instant of the second read,
\* that is logged before GitHub hears of it (server.go, capability.go, audit.go).
THEOREM RequestsImplementAuthorization == Spec => ImplementsAuthorization
<1>1. Init => Authorized!AuthorizedInit
  BY InitAuthorized
<1>2. RequestsInv /\ [Next]_vars =>
        [Authorized!AuthorizedNext]_<<Authorized!registerVars, Authorized!trailVars>>
  BY NextAuthorized
<1>3. QED
  BY <1>1, <1>2, RequestsInvariant, PTL DEF Spec, ImplementsAuthorization, Authorized!AuthorizedSpec
=============================================================================
