---------------------- MODULE RepositoryObservationProofs ----------------------
(***************************************************************************)
(* The resolution of a Target Repository, for any requests, replicas,      *)
(* issuers, lifetimes and renames.  ObservationInv is inductive.  Its      *)
(* parts: nothing is validated in the future; an entry of the cache ends   *)
(* within two lifetimes of its validation; what GitHub answered a request  *)
(* is not older than the request; and whoever waits, waits for a leader.   *)
(***************************************************************************)
EXTENDS RepositoryObservation, TLAPS

-----------------------------------------------------------------------------
(* The inductive invariant. *)

PastOf(obs) == obs # None => obs.validatedAt <= now

\* What an issuer is about to store was never in the memory of a replica.
IssuerOK(i) ==
  issuing[i] # None => PastOf(issuing[i]) /\ ~ issuing[i].monotonic

EntryOK(r) ==
  cache[r] # None =>
    /\ PastOf(cache[r].obs)
    /\ cache[r].expiresAt <= cache[r].obs.validatedAt + 2 * TTL

\* Only reads look into the cache or share a call; what came with GitHub's answer
\* is its state after the request began.
RequestOK(q) ==
  /\ stage[q] # "idle" => call[q] # None
  /\ call[q] # None => PastOf(call[q].target) /\ call[q].floor <= github
  /\ stage[q] \in {"missed", "leading", "waiting"} => ~ call[q].mutation
  /\ stage[q] \in {"asked", "answered"} => known[q] # None
  /\ PastOf(known[q])
  /\ stage[q] = "answered" =>
       (IF answer[q] = None THEN known[q].version ELSE answer[q]) >= call[q].floor
  /\ result[q] # None <=> stage[q] = "store"
  /\ PastOf(result[q])
  /\ stage[q] = "store" /\ call[q].mutation => result[q].version >= call[q].floor

ObservationInv ==
  /\ TypeOK
  /\ PastOf(row) /\ \A i \in Issuers : IssuerOK(i)
  /\ \A r \in Replicas : EntryOK(r)
  /\ \A q \in Requests : RequestOK(q)
  /\ WaitersHaveALeader

-----------------------------------------------------------------------------
(* Fields, and what stays as it is. *)

LEMMA ObservationFields ==
  ASSUME NEW obs \in Observation
  PROVE  /\ obs.version \in Versions /\ obs.validatedAt \in Time /\ obs.monotonic \in BOOLEAN
         /\ obs # None
         /\ Stored(obs) \in Observation /\ ~ Stored(obs).monotonic
         /\ Stored(obs).validatedAt = obs.validatedAt
BY NobodyAssumption DEF Observation, Stored

LEMMA EntryFields ==
  ASSUME NEW entry \in Entry
  PROVE  /\ entry.obs \in Observation /\ entry.expiresAt \in 0 .. MaxTime + TTL /\ entry # None
BY NobodyAssumption DEF Entry

LEMMA CallFields ==
  ASSUME NEW c \in Call
  PROVE  /\ c.replica \in Replicas /\ c.mutation \in BOOLEAN /\ c.target \in Observation
         /\ c.floor \in Versions /\ c # None
BY NobodyAssumption DEF Call

\* Instants and versions are numbers, and time and GitHub only go forward.
LEMMA Numbers ==
  /\ \A t \in Time : t \in Int
  /\ \A v \in Versions : v \in Int /\ v # None
BY LifetimeAssumption, NobodyAssumption DEF Time, Versions

\* What is known of a request that is being served.
LEMMA Serving ==
  ASSUME ObservationInv, NEW q \in Requests, stage[q] # "idle"
  PROVE  /\ RequestOK(q) /\ call[q] \in Call /\ call[q] # None
         /\ call[q].replica \in Replicas /\ call[q].mutation \in BOOLEAN
         /\ call[q].target \in Observation /\ call[q].target.validatedAt <= now
         /\ call[q].floor \in Versions
<1>1. RequestOK(q) /\ call[q] # None /\ PastOf(call[q].target) /\ call[q] \in Call
  BY DEF ObservationInv, RequestOK, TypeOK
<1>2. QED
  BY <1>1, CallFields, ObservationFields DEF PastOf

LEMMA RequestKept ==
  ASSUME TypeOK, NEW q \in Requests, RequestOK(q), now' \in Time, github' \in Versions,
         now <= now', github <= github',
         stage'[q] = stage[q], call'[q] = call[q], known'[q] = known[q],
         answer'[q] = answer[q], result'[q] = result[q]
  PROVE  RequestOK(q)'
<1>1. \A obs \in Observation \cup {None} : PastOf(obs) => PastOf(obs)'
  BY ObservationFields, Numbers DEF PastOf, TypeOK
<1>2. known[q] \in Observation \cup {None} /\ result[q] \in Observation \cup {None}
  BY DEF TypeOK
<1>3. call[q] # None => /\ call[q].target \in Observation /\ call[q].floor \in Int
                        /\ github \in Int /\ github' \in Int
  BY CallFields, Numbers DEF TypeOK
<1>4. PastOf(known[q])' /\ PastOf(result[q])' /\ (call[q] # None => PastOf(call[q].target)')
  BY <1>1, <1>2, <1>3 DEF RequestOK, PastOf
<1>5. QED
  BY <1>3, <1>4 DEF RequestOK, PastOf

LEMMA EntryKept ==
  ASSUME TypeOK, NEW r \in Replicas, EntryOK(r), now' \in Time, now <= now', cache'[r] = cache[r]
  PROVE  EntryOK(r)'
<1>1. cache[r] # None => cache[r].obs.validatedAt \in Int /\ now \in Int /\ now' \in Int
  BY EntryFields, ObservationFields, Numbers DEF TypeOK
<1>2. QED
  BY <1>1 DEF EntryOK, PastOf

-----------------------------------------------------------------------------
(* Leaders and waiters. *)

\* A request moves, and no flight begins or ends.
LEMMA FlightStays ==
  ASSUME ObservationInv, NEW q \in Requests, flight' = flight,
         \A p \in Requests \ {q} : stage'[p] = stage[p] /\ call'[p] = call[p],
         stage'[q] # "waiting",
         stage[q] \in Flying => stage'[q] \in Flying /\ call'[q] = call[q]
  PROVE  WaitersHaveALeader'
<1>1. \A r \in Replicas : flight[r] # None => flight[r] \in Requests
  BY DEF ObservationInv, TypeOK
<1>2. QED
  BY <1>1 DEF ObservationInv, WaitersHaveALeader

\* Those to whom q returns: itself, and the reads that wait for it.
LEMMA ThoseWhoWait ==
  ASSUME ObservationInv, NEW q \in Requests
  PROVE  /\ Returning(q) \subseteq Requests /\ q \in Returning(q)
         /\ \A p \in Returning(q) \ {q} : stage[p] = "waiting" /\ ~ call[p].mutation
<1>1. \A p \in Returning(q) \ {q} : p \in Requests /\ stage[p] = "waiting"
  BY DEF Returning, Waiters
<1>2. QED
  BY <1>1 DEF Returning, ObservationInv, RequestOK

\* A call that ends takes all of its waiters with it.
LEMMA FlightEnds ==
  ASSUME ObservationInv, NEW q \in Requests, stage[q] # "idle", EndFlight(q),
         \A p \in Returning(q) : stage'[p] \in {"store", "idle"},
         \A p \in Requests \ Returning(q) : stage'[p] = stage[p] /\ call'[p] = call[p]
  PROVE  WaitersHaveALeader' /\ flight' \in [Replicas -> Requests \cup {None}]
<1> DEFINE s == call[q].replica
<1>1. flight \in [Replicas -> Requests \cup {None}] /\ s \in Replicas
  BY Serving DEF ObservationInv, TypeOK
<1>2. flight' \in [Replicas -> Requests \cup {None}]
  BY <1>1 DEF EndFlight
<1>3. \A r \in Replicas : flight'[r] = IF r = s /\ flight[s] = q THEN None ELSE flight[r]
  BY <1>1 DEF EndFlight
<1>4. ASSUME NEW r \in Replicas
      PROVE  /\ flight[r] # None => /\ flight[r] \in Requests /\ stage[flight[r]] \in Flying
                                    /\ call[flight[r]].replica = r
             /\ flight[r] = None => \A p \in Requests : ~ (stage[p] = "waiting" /\ call[p].replica = r)
  BY <1>1 DEF ObservationInv, WaitersHaveALeader
<1>5. ASSUME NEW r \in Replicas, flight'[r] # None
      PROVE  stage'[flight'[r]] \in Flying /\ call'[flight'[r]].replica = r
  <2>1. flight'[r] = flight[r] /\ flight[r] # q
    BY <1>3, <1>4, <1>5
  <2>2. flight[r] \notin Returning(q)
    BY <1>4, <1>5, <2>1, ThoseWhoWait DEF Flying
  <2>3. QED
    BY <1>4, <1>5, <2>1, <2>2
<1>6. ASSUME NEW r \in Replicas, flight'[r] = None, NEW p \in Requests, stage'[p] = "waiting"
      PROVE  call'[p].replica # r
  <2>1. p \notin Returning(q) /\ stage[p] = "waiting" /\ call'[p] = call[p]
    BY <1>6
  <2>2. CASE flight[r] = None
    BY <1>4, <2>1, <2>2
  <2>3. CASE r = s /\ flight[s] = q
    BY <2>1, <2>3 DEF Returning, Waiters
  <2>4. QED
    BY <1>3, <1>6, <2>2, <2>3
<1>7. QED
  BY <1>2, <1>5, <1>6 DEF WaitersHaveALeader

\* The resolver returns obs.
LEMMA ReturnKeeps ==
  ASSUME ObservationInv, NEW q \in Requests, stage[q] # "idle",
         NEW obs \in Observation, obs.validatedAt <= now,
         call[q].mutation => obs.version >= call[q].floor,
         Return(q, obs), UNCHANGED <<now, github>>
  PROVE  /\ \A p \in Requests : RequestOK(p)'
         /\ WaitersHaveALeader'
         /\ flight' \in [Replicas -> Requests \cup {None}]
         /\ stage' \in [Requests -> Stages] /\ call' = call
         /\ known' \in [Requests -> Observation \cup {None}]
         /\ answer' \in [Requests -> Versions \cup {None}]
         /\ result' \in [Requests -> Observation \cup {None}]
         /\ \A p \in Requests : PastOf(result'[p])
<1> DEFINE R == Returning(q)
<1>1. TypeOK /\ \A p \in Requests : RequestOK(p)
  BY DEF ObservationInv
<1>2. /\ R \subseteq Requests /\ q \in R
      /\ \A p \in R : stage[p] # "idle" /\ (p = q \/ ~ call[p].mutation)
  BY ThoseWhoWait
<1>3. /\ stage' = [p \in Requests |-> IF p \in R THEN "store" ELSE stage[p]]
      /\ result' = [p \in Requests |-> IF p \in R THEN obs ELSE result[p]]
      /\ known' = [p \in Requests |-> IF p = q THEN None ELSE known[p]]
      /\ answer' = [p \in Requests |-> IF p = q THEN None ELSE answer[p]]
      /\ call' = call /\ EndFlight(q)
  BY DEF Return, ForgetFetch
<1> HIDE DEF R
<1>4. /\ stage' \in [Requests -> Stages]
      /\ known' \in [Requests -> Observation \cup {None}]
      /\ answer' \in [Requests -> Versions \cup {None}]
      /\ result' \in [Requests -> Observation \cup {None}]
  BY <1>1, <1>3 DEF TypeOK, Stages
<1>5. obs # None /\ PastOf(obs) /\ PastOf(obs)'
  BY ObservationFields DEF PastOf
<1>6. ASSUME NEW p \in Requests PROVE RequestOK(p)' /\ PastOf(result'[p])
  <2>1. RequestOK(p)
    BY <1>1
  <2>2. CASE p \in R
    <3>1. /\ stage'[p] = "store" /\ result'[p] = obs /\ call'[p] = call[p]
          /\ known'[p] = None \/ known'[p] = known[p]
      BY <1>3, <2>2
    <3>2. call[p] # None /\ PastOf(call[p].target) /\ call[p].floor <= github
      BY <1>2, <2>1, <2>2 DEF RequestOK
    <3>3. call[p].mutation => obs.version >= call[p].floor
      BY <1>2, <2>2
    <3>4. PastOf(known'[p])
      BY <2>1, <3>1 DEF RequestOK, PastOf
    <3>5. QED
      BY <1>5, <3>1, <3>2, <3>3, <3>4 DEF RequestOK, PastOf
  <2>3. CASE p \notin R
    <3>1. /\ stage'[p] = stage[p] /\ call'[p] = call[p] /\ known'[p] = known[p]
          /\ answer'[p] = answer[p] /\ result'[p] = result[p]
      BY <1>2, <1>3, <2>3
    <3>2. now <= now /\ github <= github
      BY <1>1, Numbers DEF TypeOK
    <3>3. QED
      BY <1>1, <2>1, <3>1, <3>2, RequestKept DEF TypeOK, RequestOK
  <2>4. QED
    BY <2>2, <2>3
<1>7. WaitersHaveALeader' /\ flight' \in [Replicas -> Requests \cup {None}]
  BY <1>2, <1>3, FlightEnds DEF R
<1>8. QED
  BY <1>3, <1>4, <1>6, <1>7

-----------------------------------------------------------------------------
(* The steps of a request. *)

KeepsOthers(q) ==
  \A p \in Requests \ {q} :
    /\ stage'[p] = stage[p] /\ call'[p] = call[p] /\ known'[p] = known[p]
    /\ answer'[p] = answer[p] /\ result'[p] = result[p]

LEMMA Moved ==
  ASSUME TypeOK, NEW q \in Requests, NEW from, NEW to \in Stages, Move(q, from, to)
  PROVE  /\ stage[q] = from /\ stage'[q] = to /\ stage' \in [Requests -> Stages]
         /\ \A p \in Requests \ {q} : stage'[p] = stage[p]
BY DEF Move, TypeOK

LEMMA StandingStill ==
  ASSUME ObservationInv
  PROVE  /\ TypeOK /\ now <= now /\ github <= github /\ now \in Time /\ github \in Versions
         /\ PastOf(row) /\ \A i \in Issuers : IssuerOK(i)
         /\ \A r \in Replicas : EntryOK(r)
         /\ \A q \in Requests : RequestOK(q)
BY Numbers DEF ObservationInv, TypeOK

\* The other parts of the invariant, when one request moves.
LEMMA OneMoves ==
  ASSUME ObservationInv, NEW q \in Requests, UNCHANGED <<now, github, row, issuing>>,
         KeepsOthers(q), TypeOK', RequestOK(q)', WaitersHaveALeader',
         \A r \in Replicas : cache'[r] = cache[r] \/ EntryOK(r)'
  PROVE  ObservationInv'
<1>1. PastOf(row)' /\ \A i \in Issuers : IssuerOK(i)'
  BY StandingStill DEF PastOf, IssuerOK
<1>2. \A r \in Replicas : EntryOK(r)'
  BY StandingStill, EntryKept
<1>3. \A p \in Requests \ {q} : RequestOK(p)'
  BY StandingStill, RequestKept DEF KeepsOthers
<1>4. QED
  BY <1>1, <1>2, <1>3 DEF ObservationInv

LEMMA BeginKeeps ==
  ASSUME ObservationInv, NEW q \in Requests, NEW r \in Replicas, NEW mutation \in BOOLEAN,
         Begin(q, r, mutation)
  PROVE  ObservationInv'
<1> DEFINE c == [replica |-> r, mutation |-> mutation, target |-> row, floor |-> github]
<1>1. /\ TypeOK /\ Move(q, "idle", "lookup") /\ call' = [call EXCEPT ![q] = c]
      /\ UNCHANGED <<now, github, row, cache, flight, known, answer, result, issuing>>
  BY DEF ObservationInv, Begin
<1>2. c \in Call /\ c # None /\ c.target = row /\ c.floor = github
  BY <1>1, CallFields DEF TypeOK, Call
<1> HIDE DEF c
<1>3. /\ stage[q] = "idle" /\ stage'[q] = "lookup" /\ stage' \in [Requests -> Stages]
      /\ \A p \in Requests \ {q} : stage'[p] = stage[p]
  BY <1>1, Moved DEF Stages
<1>4. /\ call' \in [Requests -> Call \cup {None}] /\ call'[q] = c
      /\ \A p \in Requests \ {q} : call'[p] = call[p]
  BY <1>1, <1>2 DEF TypeOK
<1>5. TypeOK'
  BY <1>1, <1>3, <1>4 DEF TypeOK
<1>6. RequestOK(q)'
  BY <1>1, <1>2, <1>3, <1>4, StandingStill DEF RequestOK, PastOf
<1>7. WaitersHaveALeader'
  BY <1>1, <1>3, <1>4, FlightStays DEF Flying
<1>8. QED
  BY <1>1, <1>3, <1>4, <1>5, <1>6, <1>7, OneMoves DEF KeepsOthers

LEMMA CacheHitKeeps ==
  ASSUME ObservationInv, NEW q \in Requests, CacheHit(q)
  PROVE  ObservationInv'
<1> DEFINE obs == cache[call[q].replica].obs
<1>1. /\ TypeOK /\ Move(q, "lookup", "store") /\ ~ call[q].mutation
      /\ cache[call[q].replica] # None /\ result' = [result EXCEPT ![q] = obs]
      /\ UNCHANGED <<now, github, row, cache, flight, call, known, answer, issuing>>
  BY DEF ObservationInv, CacheHit, Live
<1>2. /\ stage[q] = "lookup" /\ stage'[q] = "store" /\ stage' \in [Requests -> Stages]
      /\ \A p \in Requests \ {q} : stage'[p] = stage[p]
  BY <1>1, Moved DEF Stages
<1>3. RequestOK(q) /\ call[q].replica \in Replicas
  BY <1>2, Serving
<1>4. obs \in Observation /\ obs # None /\ PastOf(obs)
  BY <1>1, <1>3, EntryFields, ObservationFields, StandingStill DEF TypeOK, EntryOK
<1> HIDE DEF obs
<1>5. /\ result' \in [Requests -> Observation \cup {None}] /\ result'[q] = obs
      /\ \A p \in Requests \ {q} : result'[p] = result[p]
  BY <1>1, <1>4 DEF TypeOK
<1>6. RequestOK(q)'
  BY <1>1, <1>2, <1>3, <1>4, <1>5 DEF RequestOK, PastOf
<1>7. TypeOK'
  BY <1>1, <1>2, <1>4, <1>5 DEF TypeOK, PastOf
<1>8. WaitersHaveALeader'
  BY <1>1, <1>2, FlightStays DEF Flying
<1>9. QED
  BY <1>1, <1>2, <1>5, <1>6, <1>7, <1>8, OneMoves DEF KeepsOthers

LEMMA CacheMissKeeps ==
  ASSUME ObservationInv, NEW q \in Requests, CacheMiss(q)
  PROVE  ObservationInv'
<1>1. /\ TypeOK /\ Move(q, "lookup", "missed") /\ ~ call[q].mutation
      /\ UNCHANGED <<now, github, row, cache, flight, call, known, answer, result, issuing>>
  BY DEF ObservationInv, CacheMiss
<1>2. /\ stage[q] = "lookup" /\ stage'[q] = "missed" /\ stage' \in [Requests -> Stages]
      /\ \A p \in Requests \ {q} : stage'[p] = stage[p]
  BY <1>1, Moved DEF Stages
<1>3. RequestOK(q)'
  BY <1>1, <1>2, Serving DEF RequestOK, PastOf
<1>4. TypeOK'
  BY <1>1, <1>2 DEF TypeOK
<1>5. WaitersHaveALeader'
  BY <1>1, <1>2, FlightStays DEF Flying
<1>6. QED
  BY <1>1, <1>2, <1>3, <1>4, <1>5, OneMoves DEF KeepsOthers

\* What storeCache writes ends within two lifetimes of its validation.
LEMMA CachedEntry ==
  ASSUME ObservationInv, NEW q \in Requests, stage[q] # "idle", NEW obs \in Observation,
         obs.validatedAt <= now, now <= obs.validatedAt + TTL, now' = now,
         cache' = [cache EXCEPT ![call[q].replica] = Cached(obs)]
  PROVE  /\ cache' \in [Replicas -> Entry \cup {None}]
         /\ \A r \in Replicas : cache'[r] = cache[r] \/ EntryOK(r)'
<1> DEFINE e == Cached(obs)
           s == call[q].replica
<1>1. TypeOK /\ s \in Replicas /\ now \in 0 .. MaxTime /\ obs.validatedAt \in Int
  BY Serving, StandingStill, ObservationFields, Numbers DEF Time
<1>2. e \in Entry /\ e # None /\ e.obs = obs /\ e.expiresAt = now + TTL
  <2>1. now + TTL \in 0 .. MaxTime + TTL
    BY <1>1, LifetimeAssumption
  <2>2. QED
    BY <2>1, EntryFields DEF Cached, Entry
<1> HIDE DEF e
<1>3. /\ cache' \in [Replicas -> Entry \cup {None}] /\ cache'[s] = e
      /\ \A r \in Replicas \ {s} : cache'[r] = cache[r]
  BY <1>1, <1>2 DEF TypeOK, e
<1>4. now + TTL <= obs.validatedAt + 2 * TTL
  BY <1>1, LifetimeAssumption
<1>5. ASSUME NEW r \in Replicas, cache'[r] = e PROVE EntryOK(r)'
  BY <1>2, <1>4, <1>5, ObservationFields DEF EntryOK, PastOf
<1>6. QED
  BY <1>3, <1>5

LEMMA RowFreshKeeps ==
  ASSUME ObservationInv, NEW q \in Requests, RowFresh(q)
  PROVE  ObservationInv'
<1> DEFINE obs == call[q].target
<1>1. /\ TypeOK /\ Move(q, "missed", "store") /\ now < obs.validatedAt + TTL
      /\ cache' = [cache EXCEPT ![call[q].replica] = Cached(obs)]
      /\ result' = [result EXCEPT ![q] = obs]
      /\ UNCHANGED <<now, github, row, flight, call, known, answer, issuing>>
  BY DEF ObservationInv, RowFresh
<1>2. /\ stage[q] = "missed" /\ stage'[q] = "store" /\ stage' \in [Requests -> Stages]
      /\ \A p \in Requests \ {q} : stage'[p] = stage[p]
  BY <1>1, Moved DEF Stages
<1>3. /\ RequestOK(q) /\ ~ call[q].mutation
      /\ obs \in Observation /\ obs # None /\ obs.validatedAt <= now
  BY <1>2, Serving, ObservationFields DEF RequestOK
<1>4. now <= obs.validatedAt + TTL
  BY <1>1, <1>3, ObservationFields, Numbers, LifetimeAssumption DEF TypeOK
<1> HIDE DEF obs
<1>5. /\ cache' \in [Replicas -> Entry \cup {None}]
      /\ \A r \in Replicas : cache'[r] = cache[r] \/ EntryOK(r)'
  BY <1>1, <1>2, <1>3, <1>4, CachedEntry
<1>6. /\ result' \in [Requests -> Observation \cup {None}] /\ result'[q] = obs
      /\ \A p \in Requests \ {q} : result'[p] = result[p]
  BY <1>1, <1>3 DEF TypeOK
<1>7. RequestOK(q)'
  BY <1>1, <1>2, <1>3, <1>6 DEF RequestOK, PastOf
<1>8. TypeOK'
  BY <1>1, <1>2, <1>3, <1>5, <1>6 DEF TypeOK
<1>9. WaitersHaveALeader'
  BY <1>1, <1>2, FlightStays DEF Flying
<1>10. QED
  BY <1>1, <1>2, <1>5, <1>6, <1>7, <1>8, <1>9, OneMoves DEF KeepsOthers

LEMMA JoinKeeps ==
  ASSUME ObservationInv, NEW q \in Requests, Join(q)
  PROVE  ObservationInv'
<1> DEFINE s == call[q].replica
<1>1. /\ TypeOK /\ stage[q] = "missed"
      /\ IF flight[s] = None
           THEN Move(q, "missed", "leading") /\ flight' = [flight EXCEPT ![s] = q]
           ELSE Move(q, "missed", "waiting") /\ flight' = flight
      /\ UNCHANGED <<now, github, row, cache, call, known, answer, result, issuing>>
  BY DEF ObservationInv, Join
<1>2. /\ stage'[q] = (IF flight[s] = None THEN "leading" ELSE "waiting")
      /\ stage' \in [Requests -> Stages]
      /\ \A p \in Requests \ {q} : stage'[p] = stage[p]
  BY <1>1, Moved DEF Stages
<1>3. RequestOK(q) /\ s \in Replicas
  BY <1>1, Serving
<1>4. RequestOK(q)'
  BY <1>1, <1>2, <1>3 DEF RequestOK, PastOf
<1>5. flight' \in [Replicas -> Requests \cup {None}]
  BY <1>1, <1>3 DEF TypeOK
<1>6. TypeOK'
  BY <1>1, <1>2, <1>5 DEF TypeOK
<1>7. WaitersHaveALeader'
  <2>1. ASSUME NEW r \in Replicas
        PROVE  /\ flight[r] # None => /\ flight[r] \in Requests \ {q} /\ stage[flight[r]] \in Flying
                                      /\ call[flight[r]].replica = r
               /\ flight[r] = None => \A p \in Requests : ~ (stage[p] = "waiting" /\ call[p].replica = r)
    BY <1>1 DEF ObservationInv, WaitersHaveALeader, TypeOK, Flying
  <2>2. \A r \in Replicas : flight'[r] = IF r = s /\ flight[s] = None THEN q ELSE flight[r]
    BY <1>1, <1>3 DEF TypeOK
  <2>3. q # None
    BY NobodyAssumption
  <2> HIDE DEF s
  <2>4. ASSUME NEW r \in Replicas, flight'[r] # None
        PROVE  stage'[flight'[r]] \in Flying /\ call'[flight'[r]].replica = r
    <3>1. CASE r = s /\ flight[s] = None
      BY <1>1, <1>2, <2>2, <3>1 DEF Flying, s
    <3>2. CASE ~ (r = s /\ flight[s] = None)
      BY <1>1, <1>2, <2>1, <2>2, <2>4, <3>2
    <3>3. QED
      BY <3>1, <3>2
  <2>5. ASSUME NEW r \in Replicas, flight'[r] = None, NEW p \in Requests
        PROVE  ~ (stage'[p] = "waiting" /\ call'[p].replica = r)
    <3>1. flight[r] = None /\ ~ (r = s /\ flight[s] = None)
      BY <2>2, <2>3, <2>5
    <3>2. CASE p = q
      BY <1>1, <3>1, <3>2 DEF s
    <3>3. CASE p # q
      BY <1>1, <1>2, <2>1, <3>1, <3>3
    <3>4. QED
      BY <3>2, <3>3
  <2>6. QED
    BY <2>4, <2>5 DEF WaitersHaveALeader
<1>8. QED
  BY <1>1, <1>2, <1>4, <1>6, <1>7, OneMoves DEF KeepsOthers

\* The other parts of the invariant, when a call of the resolver ends.
LEMMA ReturnsKeep ==
  ASSUME ObservationInv, UNCHANGED <<now, github, row, issuing>>, TypeOK',
         \A p \in Requests : RequestOK(p)', WaitersHaveALeader',
         \A r \in Replicas : cache'[r] = cache[r] \/ EntryOK(r)'
  PROVE  ObservationInv'
<1>1. PastOf(row)' /\ \A i \in Issuers : IssuerOK(i)'
  BY StandingStill DEF PastOf, IssuerOK
<1>2. \A r \in Replicas : EntryOK(r)'
  BY StandingStill, EntryKept
<1>3. QED
  BY <1>1, <1>2 DEF ObservationInv

LEMMA LeaderHitKeeps ==
  ASSUME ObservationInv, NEW q \in Requests, LeaderHit(q)
  PROVE  ObservationInv'
<1> DEFINE obs == cache[call[q].replica].obs
<1>1. /\ TypeOK /\ stage[q] = "leading" /\ cache[call[q].replica] # None /\ Return(q, obs)
      /\ UNCHANGED <<now, github, row, cache, issuing>>
  BY DEF ObservationInv, LeaderHit, Live
<1>2. call[q].replica \in Replicas /\ ~ call[q].mutation
  BY <1>1, Serving DEF RequestOK
<1>3. obs \in Observation /\ obs.validatedAt <= now
  BY <1>1, <1>2, EntryFields, ObservationFields, StandingStill DEF TypeOK, EntryOK, PastOf
<1> HIDE DEF obs
<1>4. /\ \A p \in Requests : RequestOK(p)'
      /\ WaitersHaveALeader'
      /\ flight' \in [Replicas -> Requests \cup {None}]
      /\ stage' \in [Requests -> Stages] /\ call' = call
      /\ known' \in [Requests -> Observation \cup {None}]
      /\ answer' \in [Requests -> Versions \cup {None}]
      /\ result' \in [Requests -> Observation \cup {None}]
      /\ \A p \in Requests : PastOf(result'[p])
  BY <1>1, <1>2, <1>3, ReturnKeeps
<1>5. TypeOK'
  BY <1>1, <1>4 DEF TypeOK, PastOf
<1>6. QED
  BY <1>1, <1>4, <1>5, ReturnsKeep

LEMMA AskGitHubKeeps ==
  ASSUME ObservationInv, NEW q \in Requests, AskGitHub(q)
  PROVE  ObservationInv'
<1> DEFINE entry == cache[call[q].replica]
           obs == IF entry # None THEN entry.obs ELSE call[q].target
<1>1. /\ TypeOK /\ (Move(q, "leading", "asked") \/ Move(q, "lookup", "asked"))
      /\ known' = [known EXCEPT ![q] = obs]
      /\ UNCHANGED <<now, github, row, cache, flight, call, answer, result, issuing>>
  BY DEF ObservationInv, AskGitHub
<1>2. /\ stage[q] \in {"leading", "lookup"} /\ stage'[q] = "asked" /\ stage' \in [Requests -> Stages]
      /\ \A p \in Requests \ {q} : stage'[p] = stage[p]
  BY <1>1, Moved DEF Stages
<1>3. /\ RequestOK(q) /\ call[q].replica \in Replicas
      /\ call[q].target \in Observation /\ call[q].target.validatedAt <= now
  BY <1>2, Serving
<1>4. obs \in Observation /\ obs # None /\ PastOf(obs)
  BY <1>1, <1>3, EntryFields, ObservationFields, StandingStill DEF TypeOK, EntryOK, PastOf
<1> HIDE DEF obs
<1>5. /\ known' \in [Requests -> Observation \cup {None}] /\ known'[q] = obs
      /\ \A p \in Requests \ {q} : known'[p] = known[p]
  BY <1>1, <1>4 DEF TypeOK
<1>6. RequestOK(q)'
  BY <1>1, <1>2, <1>3, <1>4, <1>5 DEF RequestOK, PastOf
<1>7. TypeOK'
  BY <1>1, <1>2, <1>5 DEF TypeOK
<1>8. WaitersHaveALeader'
  BY <1>1, <1>2, FlightStays DEF Flying
<1>9. QED
  BY <1>1, <1>2, <1>5, <1>6, <1>7, <1>8, OneMoves DEF KeepsOthers

\* GitHub's answer, a 304 included, is what it has now.
LEMMA AnswerKeeps ==
  ASSUME ObservationInv, NEW q \in Requests, Answer(q)
  PROVE  ObservationInv'
<1> DEFINE v == IF known[q].version = github THEN None ELSE github
<1>1. /\ TypeOK /\ Move(q, "asked", "answered") /\ answer' = [answer EXCEPT ![q] = v]
      /\ UNCHANGED <<now, github, row, cache, flight, call, known, result, issuing>>
  BY DEF ObservationInv, Answer
<1>2. /\ stage[q] = "asked" /\ stage'[q] = "answered" /\ stage' \in [Requests -> Stages]
      /\ \A p \in Requests \ {q} : stage'[p] = stage[p]
  BY <1>1, Moved DEF Stages
<1>3. RequestOK(q) /\ call[q].floor <= github /\ call[q].floor \in Int
  BY <1>2, Serving, Numbers DEF RequestOK
<1>4. /\ v \in Versions \cup {None}
      /\ (IF v = None THEN known[q].version ELSE v) >= call[q].floor
  BY <1>1, <1>3, Numbers DEF TypeOK
<1> HIDE DEF v
<1>5. /\ answer' \in [Requests -> Versions \cup {None}] /\ answer'[q] = v
      /\ \A p \in Requests \ {q} : answer'[p] = answer[p]
  BY <1>1, <1>4 DEF TypeOK
<1>6. RequestOK(q)'
  BY <1>1, <1>2, <1>3, <1>4, <1>5 DEF RequestOK, PastOf
<1>7. TypeOK'
  BY <1>1, <1>2, <1>5 DEF TypeOK
<1>8. WaitersHaveALeader'
  BY <1>1, <1>2, FlightStays DEF Flying
<1>9. QED
  BY <1>1, <1>2, <1>5, <1>6, <1>7, <1>8, OneMoves DEF KeepsOthers

LEMMA ReceiveKeeps ==
  ASSUME ObservationInv, NEW q \in Requests, Receive(q)
  PROVE  ObservationInv'
<1> DEFINE v == IF answer[q] = None THEN known[q].version ELSE answer[q]
           obs == [version |-> v, validatedAt |-> now, monotonic |-> TRUE]
<1>1. /\ TypeOK /\ stage[q] = "answered" /\ Return(q, obs)
      /\ cache' = [cache EXCEPT ![call[q].replica] = Cached(obs)]
      /\ UNCHANGED <<now, github, row, issuing>>
  BY DEF ObservationInv, Receive
<1>2. v \in Versions /\ v >= call[q].floor
  <2>1. RequestOK(q) /\ known[q] \in Observation
    BY <1>1, Serving DEF RequestOK, TypeOK
  <2>2. QED
    BY <1>1, <2>1, ObservationFields DEF RequestOK, TypeOK
<1> HIDE DEF v
<1>3. /\ obs \in Observation /\ obs.version = v /\ obs.validatedAt = now
      /\ now <= now /\ now <= now + TTL
  BY <1>1, <1>2, Numbers, LifetimeAssumption DEF Observation, TypeOK
<1> HIDE DEF obs
<1>4. /\ \A p \in Requests : RequestOK(p)'
      /\ WaitersHaveALeader'
      /\ flight' \in [Replicas -> Requests \cup {None}]
      /\ stage' \in [Requests -> Stages] /\ call' = call
      /\ known' \in [Requests -> Observation \cup {None}]
      /\ answer' \in [Requests -> Versions \cup {None}]
      /\ result' \in [Requests -> Observation \cup {None}]
      /\ \A p \in Requests : PastOf(result'[p])
  BY <1>1, <1>2, <1>3, ReturnKeeps
<1>5. /\ cache' \in [Replicas -> Entry \cup {None}]
      /\ \A r \in Replicas : cache'[r] = cache[r] \/ EntryOK(r)'
  BY <1>1, <1>3, CachedEntry
<1>6. TypeOK'
  BY <1>1, <1>4, <1>5 DEF TypeOK, PastOf
<1>7. QED
  BY <1>1, <1>4, <1>5, <1>6, ReturnsKeep

LEMMA FailKeeps ==
  ASSUME ObservationInv, NEW q \in Requests, Fail(q)
  PROVE  ObservationInv'
<1> DEFINE R == Returning(q)
<1>1. /\ TypeOK /\ stage[q] \in {"asked", "answered"} /\ EndFlight(q)
      /\ stage' = [p \in Requests |-> IF p \in R THEN "idle" ELSE stage[p]]
      /\ known' = [p \in Requests |-> IF p = q THEN None ELSE known[p]]
      /\ answer' = [p \in Requests |-> IF p = q THEN None ELSE answer[p]]
      /\ call' = [p \in Requests |-> IF p \in R THEN None ELSE call[p]]
      /\ UNCHANGED <<now, github, row, cache, result, issuing>>
  BY DEF ObservationInv, Fail, ReturnError, ForgetFetch, ForgetCall
<1>2. R \subseteq Requests /\ q \in R /\ \A p \in R : stage[p] \in {"asked", "answered", "waiting"}
  BY <1>1, ThoseWhoWait
<1> HIDE DEF R
<1>3. ASSUME NEW p \in Requests PROVE RequestOK(p)'
  <2>1. CASE p \in R
    <3>1. /\ stage'[p] = "idle" /\ call'[p] = None /\ result'[p] = result[p]
          /\ known'[p] = None \/ known'[p] = known[p]
      BY <1>1, <2>1
    <3>2. result[p] = None /\ PastOf(known[p]) /\ now' = now
      BY <1>1, <1>2, <2>1, StandingStill DEF RequestOK
    <3>3. QED
      BY <3>1, <3>2 DEF RequestOK, PastOf
  <2>2. CASE p \notin R
    <3>1. /\ stage'[p] = stage[p] /\ call'[p] = call[p] /\ known'[p] = known[p]
          /\ answer'[p] = answer[p] /\ result'[p] = result[p]
      BY <1>1, <1>2, <2>2
    <3>2. QED
      BY <1>1, <3>1, StandingStill, RequestKept
  <2>3. QED
    BY <2>1, <2>2
<1>4. WaitersHaveALeader' /\ flight' \in [Replicas -> Requests \cup {None}]
  BY <1>1, <1>2, FlightEnds DEF R
<1>5. TypeOK'
  BY <1>1, <1>4 DEF TypeOK, Stages
<1>6. QED
  BY <1>1, <1>3, <1>4, <1>5, ReturnsKeep

LEMMA WriteBackKeeps ==
  ASSUME ObservationInv, NEW q \in Requests, WriteBack(q)
  PROVE  ObservationInv'
<1>1. /\ TypeOK /\ Move(q, "store", "idle")
      /\ row' = Stored(result[q]) \/ row' = row
      /\ result' = [result EXCEPT ![q] = None]
      /\ call' = [p \in Requests |-> IF p = q THEN None ELSE call[p]]
      /\ UNCHANGED <<now, github, cache, flight, known, answer, issuing>>
  BY DEF ObservationInv, WriteBack, ForgetCall
<1>2. /\ stage[q] = "store" /\ stage'[q] = "idle" /\ stage' \in [Requests -> Stages]
      /\ \A p \in Requests \ {q} : stage'[p] = stage[p]
  BY <1>1, Moved DEF Stages
<1>3. RequestOK(q) /\ result[q] \in Observation /\ result[q].validatedAt <= now
  BY <1>1, <1>2, StandingStill DEF RequestOK, TypeOK, PastOf
<1>4. row' \in Observation /\ ~ row'.monotonic /\ PastOf(row)'
  <2>1. now' = now
    BY <1>1
  <2>2. CASE row' = row
    BY <1>1, <2>1, <2>2, StandingStill DEF TypeOK, PastOf
  <2>3. CASE row' = Stored(result[q])
    BY <1>3, <2>1, <2>3, ObservationFields DEF PastOf
  <2>4. QED
    BY <1>1, <2>2, <2>3
<1>5. /\ result' \in [Requests -> Observation \cup {None}] /\ result'[q] = None
      /\ call' \in [Requests -> Call \cup {None}] /\ call'[q] = None
      /\ \A p \in Requests \ {q} : result'[p] = result[p] /\ call'[p] = call[p]
  BY <1>1 DEF TypeOK
<1>6. TypeOK'
  BY <1>1, <1>2, <1>4, <1>5 DEF TypeOK
<1>7. ASSUME NEW p \in Requests PROVE RequestOK(p)'
  <2>1. CASE p = q
    BY <1>1, <1>2, <1>3, <1>5, <2>1 DEF RequestOK, PastOf
  <2>2. CASE p # q
    BY <1>1, <1>2, <1>5, <2>2, StandingStill, RequestKept
  <2>3. QED
    BY <2>1, <2>2
<1>8. WaitersHaveALeader'
  BY <1>1, <1>2, <1>5, FlightStays DEF Flying
<1>9. /\ \A r \in Replicas : EntryOK(r)'
      /\ \A i \in Issuers : IssuerOK(i)'
  BY <1>1, StandingStill, EntryKept DEF PastOf, IssuerOK
<1>10. QED
  BY <1>4, <1>6, <1>7, <1>8, <1>9 DEF ObservationInv

-----------------------------------------------------------------------------
(* The steps of everybody else. *)

\* The requests and the caches do not move.
LEMMA OthersKeep ==
  ASSUME ObservationInv, now' \in Time, now <= now', github' \in Versions, github <= github',
         row' \in Observation, ~ row'.monotonic, row'.validatedAt <= now',
         issuing' \in [Issuers -> Observation \cup {None}],
         \A i \in Issuers : IssuerOK(i)',
         UNCHANGED <<cache, flight, stage, call, known, answer, result>>
  PROVE  ObservationInv'
<1>1. \A q \in Requests : RequestOK(q)'
  BY StandingStill, RequestKept
<1>2. \A r \in Replicas : EntryOK(r)'
  BY StandingStill, EntryKept
<1>3. TypeOK'
  BY <1>1, StandingStill DEF TypeOK, RequestOK, PastOf
<1>4. WaitersHaveALeader'
  BY DEF ObservationInv, WaitersHaveALeader
<1>5. QED
  BY <1>1, <1>2, <1>3, <1>4 DEF ObservationInv, PastOf

LEMMA IssuerKeeps ==
  ASSUME ObservationInv, NEW i \in Issuers, IssuerObserves(i) \/ IssuerStores(i)
  PROVE  ObservationInv'
<1> DEFINE obs == [version |-> github, validatedAt |-> now, monotonic |-> FALSE]
<1>1. /\ TypeOK /\ issuing \in [Issuers -> Observation \cup {None}]
      /\ row \in Observation /\ ~ row.monotonic /\ row.validatedAt <= now
      /\ \A j \in Issuers : IssuerOK(j)
  BY StandingStill, ObservationFields DEF TypeOK, PastOf, IssuerOK
<1>2. UNCHANGED <<now, github, cache, flight, stage, call, known, answer, result>>
  BY DEF IssuerObserves, IssuerStores
<1>3. CASE IssuerObserves(i)
  <2>1. obs \in Observation /\ obs.validatedAt = now /\ ~ obs.monotonic
    BY <1>1 DEF TypeOK, Observation
  <2>2. issuing' = [issuing EXCEPT ![i] = obs] /\ row' = row
    BY <1>3 DEF IssuerObserves
  <2> HIDE DEF obs
  <2>3. /\ issuing' \in [Issuers -> Observation \cup {None}]
        /\ \A j \in Issuers : IssuerOK(j)'
    BY <1>1, <1>2, <2>1, <2>2, StandingStill DEF PastOf, IssuerOK
  <2>4. QED
    BY <1>1, <1>2, <2>2, <2>3, StandingStill, OthersKeep
<1>4. CASE IssuerStores(i)
  <2>1. issuing[i] # None /\ row' = issuing[i] /\ issuing' = [issuing EXCEPT ![i] = None]
    BY <1>4 DEF IssuerStores
  <2>2. /\ issuing' \in [Issuers -> Observation \cup {None}]
        /\ \A j \in Issuers : IssuerOK(j)'
    BY <1>1, <1>2, <2>1 DEF PastOf, IssuerOK
  <2>3. issuing[i] \in Observation /\ issuing[i].validatedAt <= now /\ ~ issuing[i].monotonic
    BY <1>1, <2>1 DEF PastOf, IssuerOK
  <2>4. QED
    BY <1>1, <1>2, <2>1, <2>2, <2>3, StandingStill, OthersKeep
<1>5. QED
  BY <1>3, <1>4

LEMMA RenameKeeps ==
  ASSUME ObservationInv, Rename
  PROVE  ObservationInv'
<1>1. /\ TypeOK /\ github' \in Versions /\ github <= github'
      /\ row \in Observation /\ ~ row.monotonic /\ row.validatedAt <= now
      /\ UNCHANGED <<now, row, cache, flight, stage, call, known, answer, result, issuing>>
  BY StandingStill, ObservationFields, LifetimeAssumption DEF Rename, TypeOK, PastOf, Versions
<1>2. \A i \in Issuers : IssuerOK(i)'
  BY <1>1, StandingStill DEF PastOf, IssuerOK
<1>3. QED
  BY <1>1, <1>2, StandingStill, OthersKeep DEF TypeOK

LEMMA TickKeeps ==
  ASSUME ObservationInv, Tick
  PROVE  ObservationInv'
<1>1. /\ TypeOK /\ now' \in Time /\ now <= now' /\ now \in Int /\ now' \in Int
      /\ row \in Observation /\ ~ row.monotonic /\ row.validatedAt <= now
      /\ UNCHANGED <<github, row, cache, flight, stage, call, known, answer, result, issuing>>
  BY StandingStill, ObservationFields, LifetimeAssumption DEF Tick, TypeOK, PastOf, Time
<1>2. \A obs \in Observation : obs.validatedAt <= now => obs.validatedAt <= now'
  BY <1>1, ObservationFields, Numbers
<1>3. \A i \in Issuers : IssuerOK(i)'
  BY <1>1, <1>2, StandingStill DEF PastOf, IssuerOK, TypeOK
<1>4. QED
  BY <1>1, <1>2, <1>3, StandingStill, OthersKeep DEF TypeOK

-----------------------------------------------------------------------------
(* The invariant, and what follows from it. *)

LEMMA InitObservationInv == Init => ObservationInv
<1> SUFFICES ASSUME Init PROVE ObservationInv
  OBVIOUS
<1>1. 0 \in Time /\ 0 \in Versions /\ now = 0
  BY LifetimeAssumption DEF Init, Time, Versions
<1>2. row \in Observation /\ ~ row.monotonic /\ row.validatedAt <= now
  BY <1>1 DEF Init, Observation
<1>3. TypeOK
  BY <1>1, <1>2 DEF Init, TypeOK, Stages
<1>4. \A q \in Requests : RequestOK(q)
  BY DEF Init, RequestOK, PastOf
<1>5. /\ \A r \in Replicas : EntryOK(r)
      /\ \A i \in Issuers : IssuerOK(i)
      /\ WaitersHaveALeader
  BY DEF Init, EntryOK, IssuerOK, WaitersHaveALeader
<1>6. QED
  BY <1>2, <1>3, <1>4, <1>5 DEF ObservationInv, PastOf

LEMMA NextObservationInv ==
  ASSUME ObservationInv, [Next]_vars
  PROVE  ObservationInv'
<1>1. ASSUME NEW q \in Requests, Step(q) PROVE ObservationInv'
  BY <1>1, CacheHitKeeps, CacheMissKeeps, RowFreshKeeps, JoinKeeps, LeaderHitKeeps,
     AskGitHubKeeps, AnswerKeeps, ReceiveKeeps, FailKeeps, WriteBackKeeps
  DEF Step
<1>2. CASE UNCHANGED vars
  <2>1. \A i \in Issuers : IssuerOK(i)'
    BY <1>2, StandingStill DEF vars, PastOf, IssuerOK
  <2>2. row \in Observation /\ ~ row.monotonic /\ row.validatedAt <= now
    BY StandingStill, ObservationFields DEF TypeOK, PastOf
  <2>3. QED
    BY <1>2, <2>1, <2>2, StandingStill, OthersKeep DEF vars, TypeOK
<1>3. QED
  BY <1>1, <1>2, BeginKeeps, IssuerKeeps, RenameKeeps, TickKeeps DEF Next

\* The inductive invariant of the resolution.
THEOREM ObservationInvariant == Spec => []ObservationInv
<1>1. Init => ObservationInv
  BY InitObservationInv
<1>2. ObservationInv /\ [Next]_vars => ObservationInv'
  BY NextObservationInv
<1>3. QED
  BY <1>1, <1>2, PTL DEF Spec

\* Every variable keeps its type, nothing a resolver returns was validated in the
\* future, and the row has no monotonic clock reading (postgres.go).
THEOREM ObservationsAreTyped == Spec => []TypeOK
<1>1. ObservationInv => TypeOK
  BY DEF ObservationInv
<1>2. QED
  BY <1>1, ObservationInvariant, PTL

\* A mutation resolves to the repository as GitHub had it at or after the moment the
\* mutation began, whatever is cached, shared, stored or answered by a 304
\* (repository.go, Resolve).
THEOREM MutationsAreCurrent == Spec => []MutationsSeeCurrentRepository
<1>1. ObservationInv => MutationsSeeCurrentRepository
  BY DEF ObservationInv, RequestOK, MutationsSeeCurrentRepository
<1>2. QED
  BY <1>1, ObservationInvariant, PTL

\* No waiter of a singleflight call is left behind (repository.go, resolveCurrent).
THEOREM NobodyWaitsAlone == Spec => []WaitersHaveALeader
<1>1. ObservationInv => WaitersHaveALeader
  BY DEF ObservationInv
<1>2. QED
  BY <1>1, ObservationInvariant, PTL

\* One step of the resolver: what it returns is younger than two lifetimes.
LEMMA ResultsAreYoung ==
  ASSUME ObservationInv, [Next]_vars, NEW p \in Requests, result[p] = None, result'[p] # None
  PROVE  now < result'[p].validatedAt + 2 * TTL
<1>1. /\ TypeOK /\ now \in Int
      /\ TTL \in Int /\ TTL > 0
  BY StandingStill, Numbers, LifetimeAssumption
<1>2. result' # result
  OBVIOUS
<1>3. ASSUME NEW q \in Requests, NEW obs, Return(q, obs)
      PROVE  result'[p] = obs
  BY <1>3 DEF Return
<1>4. ASSUME NEW q \in Requests, stage[q] # "idle", Live(cache[call[q].replica])
      PROVE  now < cache[call[q].replica].obs.validatedAt + 2 * TTL
  <2>1. /\ call[q].replica \in Replicas /\ cache[call[q].replica] \in Entry
        /\ cache[call[q].replica].expiresAt <= cache[call[q].replica].obs.validatedAt + 2 * TTL
    BY <1>1, <1>4, Serving, StandingStill DEF Live, TypeOK, EntryOK
  <2>2. /\ cache[call[q].replica].expiresAt \in Int
        /\ cache[call[q].replica].obs.validatedAt \in Int
    BY <2>1, EntryFields, ObservationFields, Numbers, LifetimeAssumption
  <2>3. QED
    BY <1>1, <1>4, <2>1, <2>2 DEF Live
<1>5. ASSUME NEW q \in Requests, CacheHit(q)
      PROVE  now < result'[p].validatedAt + 2 * TTL
  <2>1. /\ stage[q] = "lookup" /\ Live(cache[call[q].replica])
        /\ result' = [result EXCEPT ![q] = cache[call[q].replica].obs]
    BY <1>5 DEF CacheHit, Move
  <2>2. result'[p] = cache[call[q].replica].obs
    BY <1>1, <2>1 DEF TypeOK
  <2>3. QED
    BY <1>4, <2>1, <2>2
<1>6. ASSUME NEW q \in Requests, RowFresh(q)
      PROVE  now < result'[p].validatedAt + 2 * TTL
  <2>1. /\ stage[q] = "missed" /\ now < call[q].target.validatedAt + TTL
        /\ result' = [result EXCEPT ![q] = call[q].target]
    BY <1>6 DEF RowFresh, Move
  <2>2. result'[p] = call[q].target /\ call[q].target.validatedAt \in Int
    BY <1>1, <2>1, Serving, ObservationFields, Numbers DEF TypeOK
  <2>3. QED
    BY <1>1, <2>1, <2>2
<1>7. ASSUME NEW q \in Requests, LeaderHit(q)
      PROVE  now < result'[p].validatedAt + 2 * TTL
  BY <1>3, <1>4, <1>7 DEF LeaderHit
<1>8. ASSUME NEW q \in Requests, Receive(q)
      PROVE  now < result'[p].validatedAt + 2 * TTL
  <2>1. result'[p].validatedAt = now
    BY <1>3, <1>8 DEF Receive
  <2>2. QED
    BY <1>1, <2>1
<1>9. ASSUME NEW q \in Requests, WriteBack(q) PROVE FALSE
  BY <1>1, <1>9 DEF WriteBack, TypeOK
<1>10. ASSUME NEW q \in Requests, Step(q)
       PROVE  now < result'[p].validatedAt + 2 * TTL
  BY <1>2, <1>5, <1>6, <1>7, <1>8, <1>9, <1>10
  DEF Step, CacheMiss, Join, AskGitHub, Answer, Fail, ReturnError
<1>11. QED
  BY <1>2, <1>10 DEF Next, Begin, IssuerObserves, IssuerStores, Rename, Tick, vars

\* A read never returns what was validated two lifetimes ago or earlier, through the
\* row and the cache of any replica (repository.go, storeCache).
THEOREM ReadsAreYoung == Spec => ReadsWithinTwoLifetimes
<1>1. ObservationInv /\ [Next]_vars =>
        [\A q \in Requests :
           result[q] = None /\ result'[q] # None => now < result'[q].validatedAt + 2 * TTL]_vars
  BY ResultsAreYoung
<1>2. QED
  BY <1>1, ObservationInvariant, PTL DEF Spec, ReadsWithinTwoLifetimes
=============================================================================
