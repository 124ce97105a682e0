--------------------------- MODULE BrokerLifecycle ---------------------------
(***************************************************************************)
(* The processes of the Broker over time: each replica connects, migrates  *)
(* the schema next to replicas that do the same, serves, deletes expired   *)
(* audit events, and stops by a signal or a crash while mutations are on   *)
(* their way.                                                              *)
(*                                                                         *)
(*   down -> connect -> create -> check -> apply -> record -> ready        *)
(*        -> serving -> stopping -> closed -> down                         *)
(*                                                                         *)
(* with short cuts past what is there already; an error on the way to      *)
(* ready, or a signal there, ends in down.                                 *)
(*                                                                         *)
(* A replica that is stopping accepts nothing more but its requests run    *)
(* on; one that is closed has no database connections left; when it is     *)
(* down its requests are cut, however far the drain of ten seconds is:     *)
(* ListenAndServe returns as soon as Shutdown has closed the listener, and *)
(* the process exits with it.  What starts a process again is outside the  *)
(* repository's Go code (restart: unless-stopped, a Deployment).           *)
(*                                                                         *)
(* The clocks of the replicas are taken to agree.  Ages of events stop at  *)
(* the first one that is past the retention.                               *)
(***************************************************************************)
EXTENDS Naturals, FiniteSets

CONSTANTS
  Replicas,   \* broker processes
  Requests,   \* mutations that may arrive
  Retention,  \* PGH_AUDIT_RETENTION, in units of time
  Period,     \* time between two prunes (24 hours)
  MaxFaults   \* bound: outages, kills and signals

ASSUME LifecycleAssumption == Retention \in Nat /\ Period \in Nat \ {0} /\ MaxFaults \in Nat

VARIABLES
  process,  \* where each replica is
  schema,   \* what is committed: the table of migrations, the tables of
            \* 001_initial.sql, its name
  due,      \* time until the next prune of a replica
  stage,    \* where each mutation is
  owner,    \* the replica that serves it
  sent,     \* the mutations GitHub received
  table,    \* pgh_audit_events: the events of a mutation that are stored
  age,      \* history: time since an event was dated, deleted ones included
  faults    \* faults left

processVars == <<process, due>>
requestVars == <<stage, owner, sent>>
auditVars == <<table, age>>
vars == <<processVars, schema, requestVars, auditVars, faults>>

Processes == {"down", "connect", "create", "check", "apply", "record", "ready", "serving",
              "stopping", "closed"}
Stages == {"idle", "arrived", "preflight", "dispatch", "upstream", "answered", "result",
           "done"}
Phases == {"preflight", "result"}
Events == Requests \X Phases
Expired == Retention + 1
WholeSchema == {"migrations", "tables", "name"}

TypeOK ==
  /\ process \in [Replicas -> Processes]
  /\ schema \subseteq WholeSchema
  /\ due \in [Replicas -> 0 .. Period]
  /\ stage \in [Requests -> Stages]
  /\ owner \in [Requests -> Replicas]
  /\ sent \subseteq Requests
  /\ table \subseteq Events
  /\ age \in [Events -> 0 .. Expired]
  /\ faults \in 0 .. MaxFaults

Init ==
  /\ process = [r \in Replicas |-> "down"]
  /\ schema = {}
  /\ due = [r \in Replicas |-> 0]
  /\ stage = [q \in Requests |-> "idle"]
  /\ owner \in [Requests -> Replicas]
  /\ sent = {}
  /\ table = {}
  /\ age = [e \in Events |-> 0]
  /\ faults = MaxFaults

-----------------------------------------------------------------------------
Become(r, from, to) == process[r] = from /\ process' = [process EXCEPT ![r] = to]

(* Starting: initialize, with Migrate. *)

Step(r, from, to) ==
  /\ Become(r, from, to)
  /\ UNCHANGED <<due, schema, requestVars, auditVars, faults>>

Start(r) == Step(r, "down", "connect")

\* The configuration is read, the pool answers; CREATE TABLE IF NOT EXISTS looks for
\* the table of migrations.
Connect(r) == Step(r, "connect", IF "migrations" \in schema THEN "check" ELSE "create")

\* Two that found it missing create it: the second meets a name that is taken, and
\* its replica exits.
CreateMigrations(r) ==
  /\ Become(r, "create", IF "migrations" \in schema THEN "down" ELSE "check")
  /\ schema' = schema \cup {"migrations"}
  /\ UNCHANGED <<due, requestVars, auditVars, faults>>

\* Mutant of CheckMigration: the one that finds the migration missing claims it.
CheckMigrationClaims(r) ==
  /\ Become(r, "check", IF "name" \in schema THEN "ready" ELSE "apply")
  /\ schema' = schema \cup {"name"}
  /\ UNCHANGED <<due, requestVars, auditVars, faults>>

\* Mutant of CheckMigration: the migration is applied whatever is recorded.
CheckMigrationNever(r) == Step(r, "check", "apply")

\* SELECT EXISTS, outside of the transaction that follows.
CheckMigration(r) == Step(r, "check", IF "name" \in schema THEN "ready" ELSE "apply")

\* CREATE TABLE IF NOT EXISTS in a transaction waits for another transaction that
\* creates the same tables.
ApplyMigration(r) ==
  /\ \A other \in Replicas : process[other] # "record"
  /\ Step(r, "apply", "record")

\* The wait ends in an error when the other transaction commits.
ApplyMigrationFails(r) == "tables" \in schema /\ Step(r, "apply", "down")

\* The name is a primary key: the second INSERT fails, and its replica exits.
RecordMigration(r) ==
  /\ Become(r, "record", IF "name" \in schema THEN "down" ELSE "ready")
  /\ schema' = schema \cup {"tables", "name"}
  /\ UNCHANGED <<due, requestVars, auditVars, faults>>

Migrate(r) ==
  \/ CreateMigrations(r) \/ CheckMigration(r)
  \/ ApplyMigration(r) \/ ApplyMigrationFails(r) \/ RecordMigration(r)

\* Mutant of Listen: the first prune is two periods away.
ListenUnpruned(r) ==
  /\ Become(r, "ready", "serving")
  /\ due' = [due EXCEPT ![r] = 2 * Period]
  /\ UNCHANGED <<schema, requestVars, auditVars, faults>>

\* Serve: the listener opens, and the first prune is due at once.
Listen(r) ==
  /\ Become(r, "ready", "serving")
  /\ due' = [due EXCEPT ![r] = 0]
  /\ UNCHANGED <<schema, requestVars, auditVars, faults>>

-----------------------------------------------------------------------------
(* Requests.  Only what this module is about: the audit events around the   *)
(* call to GitHub; BrokerRequests has the rest.                             *)

HoldsConnection(q) == stage[q] \in {"preflight", "result"}
PoolOpen(r) == process[r] \in {"serving", "stopping"}

Move(q, from, to) ==
  /\ stage[q] = from /\ stage' = [stage EXCEPT ![q] = to]
  /\ UNCHANGED <<owner, processVars, schema, faults>>

Arrive(q) ==
  /\ process[owner[q]] = "serving"
  /\ Move(q, "idle", "arrived")
  /\ UNCHANGED <<sent, auditVars>>

\* RecordAuditEvent takes a connection of the pool, and fails once it is closed.
Acquire(q) ==
  /\ \/ /\ PoolOpen(owner[q])
        /\ Move(q, "arrived", "preflight") \/ Move(q, "answered", "result")
     \/ /\ ~ PoolOpen(owner[q])
        /\ Move(q, "arrived", "done") \/ Move(q, "answered", "done")
  /\ UNCHANGED <<sent, auditVars>>

Insert(event) == table' = table \cup {event} /\ UNCHANGED age

\* The INSERT is answered, or it fails, or its answer is lost: 503.
Preflight(q) ==
  /\ \/ Move(q, "preflight", "dispatch") /\ Insert(<<q, "preflight">>)
     \/ Move(q, "preflight", "done") /\ (Insert(<<q, "preflight">>) \/ UNCHANGED auditVars)
  /\ UNCHANGED sent

Forward(q) ==
  /\ Move(q, "dispatch", "upstream")
  /\ sent' = sent \cup {q}
  /\ UNCHANGED auditVars

\* GitHub has answered; the result event is dated.
Respond(q) ==
  /\ Move(q, "upstream", "answered")
  /\ UNCHANGED <<sent, auditVars>>

Result(q) ==
  /\ Move(q, "result", "done")
  /\ Insert(<<q, "result">>) \/ UNCHANGED auditVars
  /\ UNCHANGED sent

Handle(q) == Acquire(q) \/ Preflight(q) \/ Forward(q) \/ Respond(q) \/ Result(q)

-----------------------------------------------------------------------------
(* Retention. *)

\* Mutant of Prune: the cutoff lies after the present, not before it.
PruneAll(r) ==
  /\ process[r] = "serving" /\ due[r] = 0
  /\ due' = [due EXCEPT ![r] = Period]
  /\ table' = {}
  /\ UNCHANGED <<process, schema, requestVars, age, faults>>

Prune(r) ==
  /\ process[r] = "serving" /\ due[r] = 0
  /\ due' = [due EXCEPT ![r] = Period]
  /\ table' = {e \in table : age[e] <= Retention}
  /\ UNCHANGED <<process, schema, requestVars, age, faults>>

\* An event is dated before it waits for a connection, and is stored with that date.
OnTheWay(event) ==
  stage[event[1]] \in IF event[2] = "preflight" THEN {"arrived", "preflight"}
                                              ELSE {"answered", "result"}

\* Mutant of Tick: nothing prunes after the first prune of a process.
TickWithoutTicker ==
  /\ age' = [e \in Events |->
               IF (e \in table \/ OnTheWay(e)) /\ age[e] < Expired
                 THEN age[e] + 1 ELSE age[e]]
  /\ UNCHANGED <<processVars, schema, requestVars, table, faults>>

Tick ==
  /\ due' = [r \in Replicas |-> IF due[r] > 0 THEN due[r] - 1 ELSE 0]
  /\ age' = [e \in Events |->
               IF (e \in table \/ OnTheWay(e)) /\ age[e] < Expired
                 THEN age[e] + 1 ELSE age[e]]
  /\ UNCHANGED <<process, schema, requestVars, table, faults>>

-----------------------------------------------------------------------------
(* Stopping, and what goes wrong. *)

\* The requests of a replica that is gone are cut; an INSERT that was under way
\* may have been committed.
Cut(r) ==
  LET lost == {q \in Requests : owner[q] = r /\ stage[q] # "idle"}
      underway == {<<q, stage[q]>> : q \in {q \in lost : HoldsConnection(q)}}
  IN  /\ stage' = [q \in Requests |-> IF q \in lost THEN "done" ELSE stage[q]]
      /\ \E stored \in SUBSET underway : table' = table \cup stored
      /\ UNCHANGED <<owner, sent, age>>

Fault == faults > 0 /\ faults' = faults - 1

\* SIGTERM: Shutdown closes the listener, ListenAndServe returns, retention stops.
Terminate(r) ==
  /\ Fault
  /\ Become(r, "serving", "stopping")
  /\ UNCHANGED <<due, schema, requestVars, auditVars>>

\* pool.Close waits for the connections that requests hold.
ClosePool(r) ==
  /\ \A q \in Requests : owner[q] = r => ~ HoldsConnection(q)
  /\ Step(r, "stopping", "closed")

Exit(r) ==
  /\ Become(r, "closed", "down")
  /\ Cut(r)
  /\ UNCHANGED <<due, schema, faults>>

\* What a replica is about to commit.
Committing(r) ==
  CASE process[r] = "create" -> {"migrations"}
    [] process[r] = "record" -> {"tables", "name"}
    [] OTHER                 -> {}

\* The process is killed, or an error or a signal ends its start; what it was about
\* to commit may have been committed although the answer is lost.
Kill(r) ==
  /\ Fault
  /\ process[r] # "down" /\ process' = [process EXCEPT ![r] = "down"]
  /\ schema' \in {schema, schema \cup Committing(r)}
  /\ Cut(r)
  /\ UNCHANGED due

\* A prune that fails is logged; the next one is a period away.
PruneFails(r) ==
  /\ Fault
  /\ process[r] = "serving" /\ due[r] = 0
  /\ due' = [due EXCEPT ![r] = Period]
  /\ UNCHANGED <<process, schema, requestVars, auditVars>>

Run(r) ==
  Start(r) \/ Connect(r) \/ Migrate(r) \/ Listen(r) \/ Prune(r) \/ ClosePool(r) \/ Exit(r)

Next ==
  \/ \E r \in Replicas : Run(r) \/ Terminate(r) \/ Kill(r) \/ PruneFails(r)
  \/ \E q \in Requests : Arrive(q) \/ Handle(q)
  \/ Tick

Spec == Init /\ [][Next]_vars

\* Goroutines and the orchestrator go on, GitHub answers, time passes; nothing makes
\* a request arrive, a process fail or a signal come.
FairSpec ==
  /\ Spec
  /\ \A r \in Replicas : WF_vars(Run(r))
  /\ \A q \in Requests : WF_vars(Handle(q))
  /\ WF_vars(Tick)

-----------------------------------------------------------------------------
(* What the processes promise. *)

\* Whoever serves has the whole schema, whichever replica applied it and whichever
\* died on the way: Migrate never takes a migration for done that is not.
ServesWholeSchema ==
  \A r \in Replicas : process[r] \in {"ready", "serving", "stopping", "closed"} =>
    schema = WholeSchema

\* A mutation GitHub received has its preflight event in the database until the
\* event is past the retention: no stop, kill, prune or closed pool leaves a
\* mutation without its trace.
MutationsLeaveATrace ==
  \A q \in sent : <<q, "preflight">> \in table \/ age[<<q, "preflight">>] = Expired

\* Migrating side by side, losing a race and being restarted, every replica serves
\* in the end, once faults stop: no replica exits over and over.
ReplicasServe == \A r \in Replicas : <>[](process[r] = "serving")

\* "Serving deletes expired events automatically", also after a prune that failed
\* and by whichever replica is left.
ExpiredEventsGo == \A e \in Events : e \in table ~> e \notin table
=============================================================================
