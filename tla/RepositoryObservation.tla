------------------------- MODULE RepositoryObservation -------------------------
(***************************************************************************)
(* The resolution of one Target Repository: the cache and the singleflight *)
(* group of each replica's RepositoryResolver, the observation stored in   *)
(* pgh_repositories, and GitHub, whose repository may be renamed at any    *)
(* time.  A version stands for what a rename, a transfer or a new default  *)
(* branch changes: owner, name, default branch and ETag.                   *)
(*                                                                         *)
(* A request takes these stages:                                           *)
(*   idle -> lookup      the capability and the stored row are loaded      *)
(*        -> missed      a read found nothing in the cache                 *)
(*        -> leading / waiting   the singleflight call of a read           *)
(*        -> asked -> answered   a conditional GET of GitHub               *)
(*        -> store       the resolver returned; the row may be behind      *)
(*        -> idle        done: the goroutine may serve another request     *)
(*                                                                         *)
(* All requests use one Upstream Credential, hence one cache key.  The     *)
(* clocks of the replicas agree, and two reads of a clock with no call     *)
(* between them (before and in storeCache) are one instant: a bound on an  *)
(* age holds up to that pause.  TTL is the configured lifetime of a        *)
(* successful read observation; MaxTime and MaxVersion bound the clock and *)
(* the renames.                                                            *)
(***************************************************************************)
EXTENDS Integers

CONSTANTS Requests, Replicas, Issuers, TTL, MaxTime, MaxVersion, None

ASSUME LifetimeAssumption == TTL \in Nat \ {0} /\ MaxTime \in Nat /\ MaxVersion \in Nat

VARIABLES
  now,      \* the clock
  github,   \* version of the repository at GitHub
  row,      \* the observation in pgh_repositories
  cache,    \* per replica: [obs, expiresAt], or None
  flight,   \* per replica: the request that leads the singleflight call, or None
  stage,    \* where each request is
  call,     \* its replica, whether it mutates, the target it loaded, and
            \*   (history) GitHub's version when it began
  known,    \* the observation its conditional GET is about
  answer,   \* version in the body of GitHub's answer; None for a 304, or no answer yet
  result,   \* the observation the resolver returned
  issuing   \* per issuer: the observation it is about to store, or None

vars == <<now, github, row, cache, flight, stage, call, known, answer, result, issuing>>

Time == 0 .. MaxTime
Versions == 0 .. MaxVersion

\* An observation made in this process carries Go's monotonic clock reading; one
\* loaded from PostgreSQL does not.
Observation == [version : Versions, validatedAt : Time, monotonic : BOOLEAN]
Entry == [obs : Observation, expiresAt : 0 .. MaxTime + TTL]
Call == [replica : Replicas, mutation : BOOLEAN, target : Observation, floor : Versions]
Stages == {"idle", "lookup", "missed", "leading", "waiting", "asked", "answered",
           "store"}
Flying == {"leading", "asked", "answered"}

ASSUME NobodyAssumption ==
  None \notin Requests \cup Versions \cup Observation \cup Entry \cup Call

\* The row is never monotonic, and nothing is validated in the future.
TypeOK ==
  /\ now \in Time
  /\ github \in Versions
  /\ row \in Observation /\ ~ row.monotonic
  /\ cache \in [Replicas -> Entry \cup {None}]
  /\ flight \in [Replicas -> Requests \cup {None}]
  /\ stage \in [Requests -> Stages]
  /\ call \in [Requests -> Call \cup {None}]
  /\ known \in [Requests -> Observation \cup {None}]
  /\ answer \in [Requests -> Versions \cup {None}]
  /\ result \in [Requests -> Observation \cup {None}]
  /\ issuing \in [Issuers -> Observation \cup {None}]
  /\ \A q \in Requests : result[q] # None => result[q].validatedAt <= now

Init ==
  /\ now = 0
  /\ github = 0
  /\ row = [version |-> 0, validatedAt |-> 0, monotonic |-> FALSE]
  /\ cache = [r \in Replicas |-> None]
  /\ flight = [r \in Replicas |-> None]
  /\ stage = [q \in Requests |-> "idle"]
  /\ call = [q \in Requests |-> None]
  /\ known = [q \in Requests |-> None]
  /\ answer = [q \in Requests |-> None]
  /\ result = [q \in Requests |-> None]
  /\ issuing = [i \in Issuers |-> None]

-----------------------------------------------------------------------------
Move(q, from, to) == stage[q] = from /\ stage' = [stage EXCEPT ![q] = to]

Live(entry) == entry # None /\ now < entry.expiresAt

\* Mutant of Cached: the end of the lifetime is taken for the validation time.
CachedAtExpiry(obs) ==
  [obs |-> [obs EXCEPT !.validatedAt = now + TTL], expiresAt |-> now + TTL]

\* What storeCache writes: the lifetime starts now, whenever obs was validated.
Cached(obs) == [obs |-> obs, expiresAt |-> now + TTL]

\* PostgreSQL keeps the wall clock only.
Stored(obs) == [obs EXCEPT !.monotonic = FALSE]

\* The singleflight call of replica r ends: its waiters return what it returns.
Waiters(q) ==
  {p \in Requests : stage[p] = "waiting" /\ call[p].replica = call[q].replica}
Returning(q) == {q} \cup IF flight[call[q].replica] = q THEN Waiters(q) ELSE {}
EndFlight(q) ==
  flight' = IF flight[call[q].replica] = q
              THEN [flight EXCEPT ![call[q].replica] = None] ELSE flight

\* The locals of resolveCurrent, and with the call those of the request, are gone.
ForgetFetch(done) ==
  /\ known' = [p \in Requests |-> IF p \in done THEN None ELSE known[p]]
  /\ answer' = [p \in Requests |-> IF p \in done THEN None ELSE answer[p]]

ForgetCall(done) ==
  call' = [p \in Requests |-> IF p \in done THEN None ELSE call[p]]

\* The resolver returns obs to everybody who waits for q.
Return(q, obs) ==
  /\ stage' = [p \in Requests |-> IF p \in Returning(q) THEN "store" ELSE stage[p]]
  /\ result' = [p \in Requests |-> IF p \in Returning(q) THEN obs ELSE result[p]]
  /\ EndFlight(q)
  /\ ForgetFetch({q})
  /\ UNCHANGED call

\* Mutant of ReturnError: only the leader learns that the call failed.
ReturnErrorToLeader(q) ==
  /\ stage' = [stage EXCEPT ![q] = "idle"]
  /\ EndFlight(q)
  /\ ForgetFetch({q})
  /\ ForgetCall({q})
  /\ UNCHANGED result

\* ErrRepositoryIdentity, also to the waiters: there is no retry, and nothing stale.
ReturnError(q) ==
  /\ stage' = [p \in Requests |-> IF p \in Returning(q) THEN "idle" ELSE stage[p]]
  /\ EndFlight(q)
  /\ ForgetFetch({q})
  /\ ForgetCall(Returning(q))
  /\ UNCHANGED result

-----------------------------------------------------------------------------
(* One action per step of Resolve. *)

Begin(q, r, mutation) ==
  /\ Move(q, "idle", "lookup")
  /\ call' = [call EXCEPT ![q] =
       [replica |-> r, mutation |-> mutation, target |-> row, floor |-> github]]
  /\ UNCHANGED <<now, github, row, cache, flight, known, answer, result, issuing>>

CacheHit(q) ==
  LET entry == cache[call[q].replica]
  IN  /\ Move(q, "lookup", "store")
      /\ ~ call[q].mutation
      /\ Live(entry)
      /\ result' = [result EXCEPT ![q] = entry.obs]
      /\ UNCHANGED <<now, github, row, cache, flight, call, known, answer, issuing>>

CacheMiss(q) ==
  /\ Move(q, "lookup", "missed")
  /\ ~ call[q].mutation
  /\ ~ Live(cache[call[q].replica])
  /\ UNCHANGED <<now, github, row, cache, flight, call, known, answer, result, issuing>>

\* The row it loaded is young enough: it is cached anew and returned.
RowFresh(q) ==
  /\ Move(q, "missed", "store")
  /\ now < call[q].target.validatedAt + TTL
  /\ cache' = [cache EXCEPT ![call[q].replica] = Cached(call[q].target)]
  /\ result' = [result EXCEPT ![q] = call[q].target]
  /\ UNCHANGED <<now, github, row, flight, call, known, answer, issuing>>

\* group.Do: lead the call for this key, or wait for the one under way.
Join(q) ==
  /\ stage[q] = "missed"
  /\ now >= call[q].target.validatedAt + TTL
  /\ IF flight[call[q].replica] = None
       THEN /\ Move(q, "missed", "leading")
            /\ flight' = [flight EXCEPT ![call[q].replica] = q]
       ELSE /\ Move(q, "missed", "waiting")
            /\ UNCHANGED flight
  /\ UNCHANGED <<now, github, row, cache, call, known, answer, result, issuing>>

\* The leader looks again: a call that ended in between may have filled the cache.
LeaderHit(q) ==
  LET entry == cache[call[q].replica]
  IN  /\ stage[q] = "leading"
      /\ Live(entry)
      /\ Return(q, entry.obs)
      /\ UNCHANGED <<now, github, row, cache, issuing>>

\* Mutant of AskGitHub: a mutation joins the call of the reads.
AskGitHubShared(q) ==
  /\ stage[q] \in {"lookup", "leading"}
  /\ \/ Move(q, "leading", "asked") /\ ~ Live(cache[call[q].replica]) /\ UNCHANGED flight
     \/ /\ call[q].mutation
        /\ IF flight[call[q].replica] = None
             THEN Move(q, "lookup", "asked") /\ flight' = [flight EXCEPT ![call[q].replica] = q]
             ELSE Move(q, "lookup", "waiting") /\ UNCHANGED flight
  /\ known' = [known EXCEPT ![q] = call[q].target]
  /\ UNCHANGED <<now, github, row, cache, call, answer, result, issuing>>

\* A mutation always asks, and never shares a call.  The GET is conditional on
\* the cached observation, expired or not, or else on the row.
AskGitHub(q) ==
  LET entry == cache[call[q].replica]
  IN  /\ \/ Move(q, "leading", "asked") /\ ~ Live(entry)
         \/ Move(q, "lookup", "asked") /\ call[q].mutation
      /\ known' = [known EXCEPT ![q] = IF entry # None THEN entry.obs ELSE call[q].target]
      /\ UNCHANGED <<now, github, row, cache, flight, call, answer, result, issuing>>

\* GitHub: 304 when the ETag is the current one, otherwise 200 and the metadata.
Answer(q) ==
  /\ Move(q, "asked", "answered")
  /\ answer' = [answer EXCEPT ![q] = IF known[q].version = github THEN None ELSE github]
  /\ UNCHANGED <<now, github, row, cache, flight, call, known, result, issuing>>

\* The body is read and validated, now; the cache is overwritten, whatever it holds.
Receive(q) ==
  LET obs == [version |-> IF answer[q] = None THEN known[q].version ELSE answer[q],
              validatedAt |-> now, monotonic |-> TRUE]
  IN  /\ stage[q] = "answered"
      /\ cache' = [cache EXCEPT ![call[q].replica] = Cached(obs)]
      /\ Return(q, obs)
      /\ UNCHANGED <<now, github, row, issuing>>

\* Mutant of Fail: a refresh error falls back on the observation it was to refresh.
FailToStale(q) ==
  /\ stage[q] \in {"asked", "answered"}
  /\ Return(q, known[q])
  /\ UNCHANGED <<now, github, row, cache, issuing>>

\* No answer, a refusal, a second redirect, another repository's ID, a bad body.
Fail(q) ==
  /\ stage[q] \in {"asked", "answered"}
  /\ ReturnError(q)
  /\ UNCHANGED <<now, github, row, cache, issuing>>

\* Go compares the structs: one with a monotonic reading never equals a loaded one.
\* The UPDATE is unconditional; when it fails, so does the request.
WriteBack(q) ==
  /\ Move(q, "store", "idle")
  /\ \/ result[q] # call[q].target /\ row' = Stored(result[q])
     \/ UNCHANGED row
  /\ result' = [result EXCEPT ![q] = None]
  /\ ForgetCall({q})
  /\ UNCHANGED <<now, github, cache, flight, known, answer, issuing>>

Step(q) ==
  \/ CacheHit(q) \/ CacheMiss(q) \/ RowFresh(q) \/ Join(q) \/ LeaderHit(q)
  \/ AskGitHub(q) \/ Answer(q) \/ Receive(q) \/ Fail(q) \/ WriteBack(q)

-----------------------------------------------------------------------------
(* Another capability for the same repository is issued from the command line. *)

IssuerObserves(i) ==
  /\ issuing[i] = None
  /\ issuing' = [issuing EXCEPT ![i] =
       [version |-> github, validatedAt |-> now, monotonic |-> FALSE]]
  /\ UNCHANGED <<now, github, row, cache, flight, stage, call, known, answer, result>>

\* INSERT ... ON CONFLICT (credential_id, id) DO UPDATE.
IssuerStores(i) ==
  /\ issuing[i] # None
  /\ row' = issuing[i]
  /\ issuing' = [issuing EXCEPT ![i] = None]
  /\ UNCHANGED <<now, github, cache, flight, stage, call, known, answer, result>>

Rename ==
  /\ github < MaxVersion
  /\ github' = github + 1
  /\ UNCHANGED <<now, row, cache, flight, stage, call, known, answer, result, issuing>>

Tick ==
  /\ now < MaxTime
  /\ now' = now + 1
  /\ UNCHANGED <<github, row, cache, flight, stage, call, known, answer, result, issuing>>

Next ==
  \/ \E q \in Requests :
       \/ \E r \in Replicas, mutation \in BOOLEAN : Begin(q, r, mutation)
       \/ Step(q)
  \/ \E i \in Issuers : IssuerObserves(i) \/ IssuerStores(i)
  \/ Rename
  \/ Tick

Spec == Init /\ [][Next]_vars

\* A goroutine that can go on does; a GET is answered or its context ends.
FairSpec == Spec /\ \A q \in Requests : WF_vars(Step(q))

-----------------------------------------------------------------------------
(* What resolution promises. *)

\* A mutation resolves to the repository as GitHub had it at or after the moment
\* the mutation began: no cache, shared call, 304 or row can hide a rename.
MutationsSeeCurrentRepository ==
  \A q \in Requests :
    result[q] # None /\ call[q].mutation => result[q].version >= call[q].floor

\* A read never returns what was validated two lifetimes ago or earlier: a row
\* may be cached at the end of its lifetime, but a cached one is not cached again.
ReadsWithinTwoLifetimes ==
  [][\A q \in Requests :
       result[q] = None /\ result'[q] # None => now < result'[q].validatedAt + 2 * TTL]_vars

\* Whoever waits for a singleflight call waits for one that is under way: no
\* waiter is left behind, and there is at most one leader per replica.
WaitersHaveALeader ==
  \A r \in Replicas :
    /\ flight[r] # None => stage[flight[r]] \in Flying /\ call[flight[r]].replica = r
    /\ flight[r] = None => \A q \in Requests : ~ (stage[q] = "waiting" /\ call[q].replica = r)

\* Every request that begins is resolved or fails.
RequestsResolve == \A q \in Requests : stage[q] # "idle" ~> stage[q] = "idle"

-----------------------------------------------------------------------------
(* What the documentation says and the code does not do. *)

\* "Successful read-observation lifetime": what a read returns was validated less
\* than TTL ago.
ObservationLifetime ==
  [][\A q \in Requests :
       result[q] = None /\ result'[q] # None => now < result'[q].validatedAt + TTL]_vars

\* "Issuing another capability cannot change an existing repository row."
IssuingKeepsRow == [][\A i \in Issuers : IssuerStores(i) => row' = row]_vars
=============================================================================
