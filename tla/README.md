# pgh-broker in TLA+

This directory models and verifies the part of the repository that is its own: **pgh** and
**pgh-broker**. An agent host holds a *Capability Token*; the broker resolves it to one GitHub
repository, one stored *Upstream Credential* (a PAT) and one *Policy Profile*, and forwards only what
that policy allows. The rest of the tree is the GitHub CLI this fork carries; it is listed at the end.

## 1. The system

| Component | State | Operations | Hard because |
| --- | --- | --- | --- |
| Policy profiles (`policy_change.go`, `policy.go`, `types.go`) | none | validate, classify a change | a change may gain and lose authority at once |
| Capability register (`capability_policy.go`, `postgres.go`) | `pgh_capabilities`, `pgh_capability_policy_events` | issue, replace policy, revoke, history | operators run concurrently; row locks; lost commit acknowledgements |
| Capability authority (`capability.go`) | credentials, selectors, hashes | resolve a token, issue, seal, open | GitHub is asked *between* two reads of the row |
| Repository resolver (`repository.go`) | cache and singleflight group per replica, `pgh_repositories` | resolve for a read or a mutation, resolve by name | several replicas, shared row, renames, failing leaders |
| Request limiter (`ratelimit.go`) | authentication slots; slots and two token buckets per capability | acquire, release | two-step acquisition, many early returns |
| Request auditor (`audit.go`) | `pgh_audit_events`, structured log | preflight, result | two sinks that fail separately |
| Request path (`server.go`) | the request's goroutine | `ServeHTTP` | ties all of the above together |
| REST, GraphQL, Git and LFS policy (`policy.go`, `graphql.go`, `git.go`) | none | authorize one operation | many rules, in order; fragments that lead out of what was validated |
| Administration (`internal/brokeradmin`) | none of its own | credential put, capability issue / revoke / policy replace | a separate process beside running brokers |
| Broker process (`cmd/pgh-broker`, `Migrate`) | schema, pool, retention timer | start, migrate, serve, prune, shut down | replicas start, stop and die at any time |
| Accounts of a client (`internal/config`, `internal/keyring`) | `hosts.yml`, the system's keyring | login, switch, logout, migrate | two stores that fail apart, no lock, calls that time out and go on |
| pgh client (`internal/pghcmd`) | environment | prepare, transport | must never reach GitHub directly |

A request goes `ServeHTTP` → `AcquireAuthentication` → `Authority.Resolve` (row, credential, resolver,
write-back, row again) → `Acquire` → `Preflight` → authorize and forward → deferred `Result` →
deferred release. Replicas share only PostgreSQL. The offline command line works on the same tables
while brokers serve. `gh` and `pgh` keep their accounts alike; of `pgh` they are Capability Tokens.

What makes each component correct: the register's history is a complete, truthful chain and ends at
a revocation; a session is resolved from the policy in force *after* the repository was observed; a
mutation sees the repository as it is now; what GitHub receives was audited before, under the
revision that authorized it, and its trace is kept as long as promised; no slot is lost; a stored PAT
can be opened by every running broker and goes only where it was stored for; a query stays inside its
repository; no replica serves without its schema; no user acts with another's token.
`PROJECT.json` lists under `hazards` where, line by line, each of these could go wrong.

## 2. The modules

```
Policy ── CapabilityRegister ──┬── CapabilityStore ───── CapabilityStoreMC
                               ├── AuthorizedRequests ┐
                               └── BrokerRequests ────┴─ BrokerRequestsMC
Policy ── GitPolicy ── RestPolicy ──┬── Enforcement ──── EnforcementMC
                  GraphQLPolicy ────┘
RepositoryObservation ── RepositoryObservationMC
RequestLimiter ── RequestLimiterMC     BrokerLifecycle
CredentialVault ── CredentialVaultMC   AuthAccounts ── AuthAccountsMC

CapabilityRegisterProofs (and Policy) ──┬── CapabilityStoreProofs
                                        └── BrokerRequestsProofs (and the refinement)
EnforcementProofs     RepositoryObservationProofs     CredentialVaultProofs
AuthAccountsProofs    BrokerProcessProofs (BrokerLifecycle and RequestLimiter)
```

Two modules are abstract specifications that detailed ones implement: CapabilityStore implements
`CapabilityRegister!RegisterSpec`, and BrokerRequests implements AuthorizedRequests through an
`INSTANCE ... WITH` that maps its audit sinks and sessions. Both are checked as a PROPERTY and proved.

**Policy.** The grants the code knows, `ValidatePolicy`, the authority a profile confers (grants, a
ladder of push modes, tags) and `ClassifyPolicyChange`. `Authority` is the reference: a policy as the
set of what it permits; `Gains` is the code's comparison. `Permitted` stands for the handlers where
only the request path matters: a check of authorities, like the one that ends `authorizeREST`.

**CapabilityRegister.** The abstract specification: each capability is a row (policy, revision,
expiry, revocation, time of update) and its list of events; `Issue`, `Replace`, `Revoke` are single
steps. It states what an auditor may rely on:
* `TruthfulHistory`, in three parts: events are consecutive revisions whose after-policy is the next
  before-policy, and the row is at the end (`HistoryChain`); dates grow with revisions, and no event is
  dated at or after the expiry (`HistoryDates`); the direction of every event is the true one
  (`HistoryDirections`);
* `FrozenOnceRevoked`: nothing of a revoked capability changes, and no event is added.

**CapabilityStore.** The transactions of `ReplaceCapabilityPolicy` on the same tables: begin, `SELECT
... FOR UPDATE` (`LockRow`, or `RowMissing`), read the clock and decide (`Stage`, `Reject`), `Commit`,
or `Abort`: a failure at any statement, with the deferred rollback. `RevokeCapability` and
`IssueCapability` are single statements or short transactions; a revocation waits for the row lock.
A retry after a lost acknowledgement is another `BeginReplace` with the same policy.
`RegisterSpec` is checked as a PROPERTY and proved: a replacement takes effect at its commit.

**AuthorizedRequests.** What a request promises, without its steps: it is granted in one instant under
the policy in force then; its preflight event goes to the log and, for a mutation, to the database,
under that revision; only then may GitHub receive it, once; a result comes last and names the same.

**BrokerRequests.** `ServeHTTP` on top of the register. One action per step that another process can
come between: `Arrive`, `FirstRead`, `Observe`, `SecondRead`, `Admit`, `PreflightEmit`,
`PreflightRecord`, `Forward`, `Respond`, `ResultEmit`, `ResultRecord`, with their failures (`Refuse`,
`ObserveFails`, `Reject`, `PreflightUnrecorded`, `PreflightFails`), `AnswerHere` for every answer
without a forward, permitted or not, and `Crash` of a replica. The slot of the bucket that invalid
tokens share is taken and given back with no call between (`server.go:99-105`) and is left out of
`Reject`, so `SlotsBelongToRequests` does not speak of it.
An operation is what the properties need of it: whether it is a mutation, and the authorities it
needs; how the handlers compute that set is the subject of the next modules.
`ImplementsAuthorization` is the refinement; that mutations are durable before they are sent and that
no result precedes its preflight follow from it and are not stated again.

**GitPolicy, RestPolicy.** The decisions of the handlers as pure operators: `AuthorizeGitRef`,
`AuthorizeGit`, `AuthorizeLFS`; the table of the 71 write routes in its order, hard denials,
`AuthorizeREST`, and `AuthorizeRESTBody` for bodies and paths that name refs. A ref is its name space
and its name, the sequence of the segments below that (`PathRef` takes all of them from the path, as
the code joins them), a body the four facts the broker reads from it. Left out are read routes, which
need no grant, and paths with a colon, a NUL or a line break in the name of a branch, which are refused.

**GraphQLPolicy.** `authorizeGraphQL` on a document given as a graph of named selection sets: the
families and the variables they trust, the walk over fields, inline fragments and spreads with its
identity scope, and the variables that are forwarded. `ValidSelection` is one turn of the loop, and
`ValidGraphQLSelections` the recursion, which ends because a fragment is not entered twice in one scope.
JSON decoding and parsing are one flag, `IsDocument` what the parser gives. The second half says which
parts of a document GitHub would evaluate, on a repository or on an identity, as the least set that
holds the roots and is closed under `Successors`, and where that leads (external): `ReachesElsewhere`
is not computed from the code's lists of fields.

**Enforcement.** These decisions in use. `Serve` handles one request, `ServeGraphQL` a document,
`ReceivePush` starts a push whose pkt-lines `ReadFlush`, `ReadCommand`, `ReadShallow` and `ReadInvalid`
take one by one as `readReceiveCommands` does, and `Replace` changes the policy between requests. The
rest of the module says, apart from the code, which refs GitHub writes for a forwarded request
(external) and which authority the tables of `docs/pgh/compatibility.md` ask for it: the properties
compare the two.

**RepositoryObservation.** One repository and one credential: the cache entry and the singleflight
call of each replica, the stored row, and GitHub, which may rename at any time. `Begin` loads the
row; `CacheHit`, `CacheMiss`, `RowFresh`, `Join`, `LeaderHit` are the branches of `Resolve`;
`AskGitHub`, `Answer`, `Receive`, `Fail` are the conditional GET with its 304; `WriteBack` is what
`capabilityAuthority.Resolve` does with a result that differs. `monotonic` is there because Go
compares `time.Time` by its representation: an observation made in this process never equals one
loaded from PostgreSQL, so every use of a fetched one writes the row. A version stands for owner,
name, default branch and ETag. Two reads of a clock with no call between them (the check of the row,
or the date of an answer, and then the clock of `storeCache`) are one instant: the strict bound of
`ReadsWithinTwoLifetimes` holds up to that pause.

**RequestLimiter.** One capability at one replica: slots, and a token bucket for each class in which
a unit is gained per unit of time and a request costs `Minute / Budget`. `admitted` counts, as history,
the admissions of each class before each time. The authentication slots are in BrokerRequests.

**CredentialVault.** One credential name: `PutCredential` as lookup, seal and upsert, `Issue` as open
and insert, the brokers with the keyring they started with, the operator's key rotation as
`docs/pgh/configuration.md` describes it, and requests that read the credential, observe, and read
again, while it is replaced. A seal is the record of the associated data it was made with, and opens
when the row still agrees. `Served`: at every moment every broker opens the row, and
capabilities are bound to it. `PATsReachTheirDestination`: a request sends the PAT it opened to
the destination it was stored for, and one that begins after a put sends the new one.

**BrokerLifecycle.** The processes. A replica connects, creates the table of migrations, checks, applies
and records the migration next to others that do the same, and loses a race at either creation by an
error; it listens, prunes, and stops by a signal (listener, pool and exit, in that
order, which does not wait for the drain: `Serve` returns as soon as the listener is closed) or dies;
a mutation's preflight, call and result are cut wherever the process is gone, and an `INSERT` or a
`COMMIT` without an answer may have happened. An event's age counts from its date, which the handler
takes before it waits for a connection. Restarting a process is the orchestrator's, as in
`compose.yaml` and the chart.

**AuthAccounts.** The accounts of one host: `hosts.yml` with the user, the active token and the list of
users, and the keyring with an entry per user and the one without a user that is the active one.
`AuthConfig.Login`, `SwitchUser`, `Logout`, `activateUser` and `MultiAccount.Do` are processes, one
action per call to the keyring and one for the write of the file (go-gh writes the whole of it; the
model takes that write as atomic, and reading the file and the keyring at the start of a command as one
step). A keyring call that is given up after its timeout may still take effect (`LateEffect`) until the
process exits.

## 3. The runs

| Run | Shows | Bounds |
| --- | --- | --- |
| `store` | types, `TruthfulHistory`, `FrozenOnceRevoked`, `RegisterSpec`, `ReplacementEnds` | two operators, one capability, five policies (one invalid, and pairs that broaden, narrow and mix), three instants, three revisions |
| `requests` | `ResolvedAfterObservation`, `ForwardedUnderRecordedPolicy`, `SlotsBelongToRequests`, `ImplementsAuthorization`, `RequestsEnd` | two requests, one replica, one slot of each kind, two instants, two revisions (287,000 states) |
| `enforcement` | `RefsWithinPushAuthority`, `WritesAsDocumented`, `ChangesAreMutations`, `QueriesStayInside`, `ChangesAreReported`, `ReportedChangesAreReal` | every write route, paths of refs with one segment and with two, and other calls, most of which no route registers, bodies with every form of a ref, all Git and LFS requests, pushes of up to three lines of eight kinds, documents with two selections, two fragments and a nested set in every arrangement and one document for each other refusal, twenty policies |
| `observation` | `MutationsSeeCurrentRepository`, `WaitersHaveALeader`, `ReadsWithinTwoLifetimes` | two goroutines that serve any number of requests, two replicas, a lifetime of two instants of five, one rename that is followed for the first of two lifetimes (`CONSTRAINT RenamesEarly`; 1.5 million states) |
| `observation_live` | `RequestsResolve`, with another capability being issued | one replica, two goroutines |
| `limiter` | `MinuteWithinTwoBudgets`, `OnlyAdmissionsSpend`, slots | budgets 3 and 1 for 300 and 60, one slot, two goroutines, two minutes |
| `vault` | `Served`, `PATsReachTheirDestination` | two commands, two brokers, one request at a time, two destinations, two rotations |
| `lifecycle` | `ServesWholeSchema`, `MutationsLeaveATrace`, `ReplicasServe`, `ExpiredEventsGo` | two replicas, one mutation, two faults, a retention of one unit and a period of two (59,000 states) |
| `accounts` | `ActiveTokenIsOfActiveUser`, `ActiveTokenIsCurrent`, `OnlyLogoutLogsOut` | two users, two commands at once, three tokens of a user, one once commands have run together (1.2 million states) |
| `documented_*` | three statements of the documentation that the code does not keep | smallest instances that show it |

Why the bounds are enough. Capabilities never share a row or a lock, so one is all the store needs;
two transactions give every pair of overlapping steps, and a third would only queue for the same
lock. The limit of 256 lines of a push is three: one, two, and one too many. The default branch is one
of two names, one of which begins with the other, and the twenty policies differ in each control alone and in several at once; the
handlers look at nothing else. Three revisions give an event between two others. Requests meet only in slots, the register
and the crash of a replica; two of them give a taken slot, and one of them alone gives every race
with an operator. Two lifetimes need a clock of twice the lifetime. Two replicas that migrate give every
race there is, since only one can win; the mutation's events and the faults are those of its own
replica, and two faults give a kill after a failed prune or in a second start. Two users are an active
one and another; a third token tells the last login from the one before and from one that failed.
Commands that run together share no more than the file and the keyring, and there one token of a user is
enough to be another's. Sequences of requests are covered
because the goroutines of RepositoryObservation and RequestLimiter and the requests of CredentialVault
return to idle. Requests of BrokerRequests are one-shot (each is the audit trail of one request), and
the commands of AuthAccounts may all be over with no token left to make: for these reasons `requests`
and `accounts`, and no other run, say `CHECK_DEADLOCK FALSE`. The names of the bounds are MaxTime,
MaxRevision, MaxVersion, MaxKey, MaxFaults, MaxLogins, MaxTogether, Concurrent, AuthSlots and
MaxGitCommands; the last three are also parameters of the code.
Operators, requests, replicas, brokers, destinations, users and processes are symmetric: no module
tells one from another by name. Runs with a liveness property use no symmetry.

Fairness. `FairSpec` of the store is weak fairness of each operator's transaction: PostgreSQL grants a
free row lock, a session that can go on does, and a broken one is rolled back. That of the requests
and of the resolution is weak fairness of each goroutine. It includes the answer of GitHub: the
broker sets no timeout on its round trips, so this is the request duration that
`docs/pgh/configuration.md` tells the deployer to limit at the reverse proxy, whose disconnect cancels
the request's context. That of the lifecycle is weak fairness of each replica's own steps, a restart by
its orchestrator among them, of each request's goroutine, and of time, which nothing can stop; faults
are bounded by MaxFaults, so that "in the end" means once they cease. No fairness is assumed of
operators, clients, renames, signals or crashes.

Every property of a passing run has a mutant, a plausible bug of the code written as an operator
beside the definition it replaces ("Mutant of ..."), under which the run must fail.

### What the runs found

Three disagreements of code and documentation, one run each:

* `documented_put`: **credential put races.** `PutCredential` looks up the ID, or makes one up, before
  the upsert and outside a transaction. Of two concurrent first puts of a name, the later keeps the
  earlier's row ID but stores a PAT sealed for its own: the credential opens no more, and a
  capability issued in between stops working until another put. The run starts without the
  credential; `vault` starts with it, and shows that later puts are safe.
* `documented_lifetime`: **a read lifetime is up to two.** `RowFresh` gives a row near the end of its
  lifetime a new one in the cache. `observation` shows that it never becomes three.
* `documented_issuing`: **issuing overwrites the repository row**, which `docs/pgh/architecture.md` says
  it cannot; also with an observation older than the one stored.

Not counted as disagreements:

* A minute may admit up to 2N - 1 requests of a budget N (`docs/pgh/configuration.md` says N), a burst and
  what is gained back meanwhile; `limiter` shows that it is never 2N.
* `Shutdown` has ten seconds to drain, but `Serve` does not wait for them: the process exits as soon as no
  request holds a database connection, and cuts the rest. `MutationsLeaveATrace` holds all the same.
* Of two replicas that create the table of migrations, or migrate, at once the loser exits with an error; `ReplicasServe` needs its restart.
* In `AuthAccounts`: `Logout` says that it "will remove the auth token from the encrypted storage", and
  with several users leaves that user's there; `activateUser` says that only one of its branches is
  taken, and takes both for a user who logged in to the keyring first and to the file later. Two
  commands at once lose each other's logins, because each writes the whole file it read; and a user
  whose own keyring entry an interrupted logout erased falls back on the entry without a user, perhaps
  another's. `ActiveTokenIsOfActiveUser` therefore speaks of users who have a token, and
  `ActiveTokenIsCurrent` and `OnlyLogoutLogsOut` of commands that do not run together.

## 4. What is proved

TLAPS checks all of this for every value of the constants: any number of operators, capabilities,
policies, requests, replicas, brokers, users and commands, any bounds on time, revisions and keys.
Every invariant and action property of a passing run in section 3, and both refinements, are theorems.
For each module there is one inductive invariant; the properties follow from it without another
induction, and TLC checked each on the instance of its run before the proof.

**Policy and register** (`CapabilityRegisterProofs`).
* `ClassificationIsExact`: the code's classification of a change is that of the authorities.
* `RegisterInvariant`: `RegisterTypeOK`, `HistoryChain`, `HistoryDates` and `HistoryDirections` together.
  None is inductive alone: the chain needs the type of the row it ends at, the dates need the row's own
  time of update, and the directions the validity of the policies.
* `RevocationIsFinal`: an action property, from the guards of each step.

**Transactions** (`CapabilityStoreProofs`).
* `StoreInvariant`: the register's invariant with `TypeOK` and `LockDiscipline`. The latter is the
  strengthening: a transaction that is past the lock holds it, what it read is still the row, and what
  it staged could be applied to the row in its place. Hence `Commit` is the register's `Replace`, and
  `StoreImplementsRegister` follows: every step of the transactions is a step of the register or
  leaves it alone. `StoreTruthfulHistory`, `StoreRevocationIsFinal` and `StoreIsTyped` are the checked
  properties, the second through the refinement.

**Request path** (`BrokerRequestsProofs`).
* `RequestsInvariant`: the register's invariant and, for each request, what it has in hand at its stage,
  which audit events exist by then, and that its Session, and the revision in its events, are in the
  history of the capability with that policy. The last is what makes it inductive: the row moves on
  under a running request, and the history only grows. Slots are counted by the requests that hold them.
* `RequestsImplementAuthorization`: the refinement of AuthorizedRequests. The second read is the instant
  of the grant; `ObservationComesFirst` says of that instant what an operator may rely on.
* `ForwardingIsRecorded`, `SlotsAreOwned`, `RequestsAreTyped`: through every early return and crash.

**Decisions** (`EnforcementProofs`).
* `EnforcementIsMonotone`: over REST, Git and LFS a policy with more authority permits no less, one lemma
  for each decision. With the exactness of the classification follows `EveryChangeIsReported`: for all
  policies, operations and branches, a change that is not recorded as broadened or mixed permits nothing
  new.
* `EnforcementInvariant`: the check that a forwarded request passed holds of the policy in force. From it,
  for every call (any sequence of segments, those of a ref's name included), `WritesAreDocumented`: whatever matches a route of
  the table needs the grant its effect is documented with, one lemma for each group of routes;
  `RefsStayWithinAuthority` and `ChangesAreTreatedAsMutations`. The attempt at `WritesAreDocumented` showed
  that its reference was wrong about `PATCH pulls/merge`, an edit of a pull request of an odd name and no
  merge, which no call of the instance was; the reference is corrected, and the instance has such a call.
* `QueriesAreConfined`: for every document, of whatever fragments. The walk of the code is a recursive
  function, so it is first shown that there is one: `Passing`, the largest set of walks each of which
  passes by the others, gives it, and whatever the function lets pass is in that set. The places those
  walks visit, with the scope they know of, hold the roots and are closed under `Successors`; GitHub's
  evaluation, the least such set, is therefore inside, and no field there leads elsewhere. This needs
  no induction over paths.
* `ReportedChangesShow`: `ReportedChangesAreReal`, if each authority is asked for by some operation or
  command alone (`EveryAuthorityIsAskedFor`). The hypothesis is needed: where nothing asks for an
  authority, nothing shows its loss. TLC evaluates it for the instance of `enforcement`.

**Repository resolver** (`RepositoryObservationProofs`).
* `ObservationInvariant`: nothing is validated in the future, an entry of a cache ends within two lifetimes
  of its validation, an answer of GitHub is not older than the request it goes to, and
  `WaitersHaveALeader`, without which a waiter's answer could be anybody's. The others are
  `MutationsAreCurrent`, `NobodyWaitsAlone`, `ObservationsAreTyped` and, as an action property, `ReadsAreYoung`.

**Credentials** (`CredentialVaultProofs`).
* `VaultInvariant`: PATs are paired with their destination in the row, in every request and in what was
  sent; what a request holds was in the row since it began; and while a command runs all brokers have
  the configured keys, so that a rotation cannot overtake a put. Hence `PATsStayWithTheirDestination`.
* `StandingCredentialIsServed`: `Served`, if the credential exists at the start (`FirstID # None`). The
  hypothesis is needed: without it `documented_put` is a counterexample. The invariant adds that all
  puts and issues use the one ID, and that the key of the seal is in every ring.

**Broker process** (`BrokerProcessProofs`).
* `LifecycleInvariant`, for any number of replicas, mutations and faults: types; the tables and the name
  of the migration are committed together or not at all, whole for every replica that is past its
  migration, and who checks or applies it has the table it is recorded in; and a mutation that is about to be sent, or was, has its preflight event or one past the
  retention. `ServesWholeSchema` is not inductive without the second part, nor `MutationsLeaveATrace`
  without "about to be sent". `WholeSchemaServed`, `TraceIsLeft` and `LifecycleIsTyped` are the properties.
* `LimiterInvariant`, for any number of goroutines and slots and all budgets that divide the minute: one
  minute is no inductive statement, because what it may still admit depends on the bucket. `PaidSince`
  says of every stretch of time up to now that its admissions and what is in the bucket were paid from
  a full one and what it gained; `PaidWithin` keeps that for the stretches that are over. Hence
  `TwoBudgetsAMinute`, by exact division; `OnlyAdmissionsCost` and `LimiterIsTyped` (slots) are parts of it.

**Accounts of a client** (`AuthAccountsProofs`).
* `AccountsInvariant`: what the file's list, a user's entry of the keyring, every command's copy and every
  late effect hold for a user is that user's; in the file, and in a copy that may be written over it, the
  active token is the active user's and there if the list has one; before the migration nothing but
  migrations run. None of the parts is inductive alone, because a token passes through all of these
  places. The entry of the keyring without a user may be anybody's between two steps, which is why the
  user's own entry must come first in `ActiveToken`. `ActsForItself` and `AccountsAreTyped` follow.
* `NoTokenComesBack` and `OthersStayLoggedIn`, for commands that come one after another, need two invariants
  more. `OwnedInv`: an active token in the file is the one its user is listed with. `LoneInv`: the only
  command's copy and the file hold no token older than the last login, the copy lists whom the file
  lists, the new token of a login is where its copy says, and a call that was given up may only do what
  the command itself would: so it can come late, after the file was written or not, and do no harm.

The assumptions are the named ASSUMEs of the modules: bounds are positive, `Never` is later than every
instant, policies and operations have the fields that are read, the sets a document names are in it, a budget divides the minute, and `None`
and its like are not among the values they stand beside. TLC evaluates them in every run.

Only model-checked, and why: all liveness (`ReplacementEnds`, `RequestsEnd`, `RequestsResolve`,
`ReplicasServe`, `ExpiredEventsGo`), since TLAPS does not reason about fairness and ENABLED.

## 5. What is not modelled, and the plan

Abstracted throughout: token syntax and hashes, formatting, HTTP headers and bodies, log wording. The
clocks of replicas, command line and PostgreSQL are taken to agree; the code states no bound on their
skew that a property could use. What GitHub does with a request after the broker has observed its
repository (a rename, a new default branch) is out of the broker's reach and not modelled.
`ListAuditEvents`, `ListCapabilityPolicyEvents` and `CapabilityPolicyByID` only read. `PghClient` has no
module: it sets a configuration directory, a keyring namespace and a transport that refuses what is not
the Broker's before the first command, and changes no state afterwards.

Planned next, in this order:
1. Proofs: that the register's history and the audit trail agree (an abstract specification of both
   together).
2. BrokerRequests over Enforcement, so that what an operation needs is computed and no longer given.
3. Of the upstream commands, `gh release create` and `upload`, which delete and create assets side by
   side with retries.

Not planned: the rest of the upstream GitHub CLI (`pkg`, `api`, `git`, `context`, `utils`, most of `internal`), some
275,000 lines of third-party code that the broker does not run and pgh calls unchanged; the Helm
chart, Compose file, scripts and documentation, which have no logic of their own.
