--------------------------- MODULE BrokerProcessProofs ---------------------------
(***************************************************************************)
(* Proofs about a broker process: BrokerLifecycle, what it does from its   *)
(* start to its end, and, in the second half, RequestLimiter, the limits   *)
(* it keeps in its memory.                                                 *)
(*                                                                         *)
(* Any number of replicas, mutations and faults, any retention: whoever    *)
(* serves has the whole schema, and what GitHub received keeps its trace.  *)
(***************************************************************************)
EXTENDS BrokerLifecycle, RequestLimiter, FiniteSetTheorems, TLAPS

\* A mutation has a trace: a preflight event that is stored, or past the retention.
Traced(q) == <<q, "preflight">> \in table \/ age[<<q, "preflight">>] = Expired

\* The migration is all there or not at all, as RecordMigration commits it, and who
\* applies it found or made the table of migrations; a mutation has its trace before
\* it may be sent.
SchemaInv ==
  /\ schema \in {{}, {"migrations"}, WholeSchema}
  /\ \A r \in Replicas : process[r] \in {"check", "apply", "record"} => "migrations" \in schema
  /\ ServesWholeSchema
TraceInv == \A q \in Requests : q \in sent \/ stage[q] = "dispatch" => Traced(q)
LifecycleInv == TypeOK /\ SchemaInv /\ TraceInv

LEMMA LifecycleInit == Init => LifecycleInv
<1>1. SUFFICES ASSUME Init PROVE LifecycleInv
  OBVIOUS
<1>2. TypeOK
  BY <1>1, LifecycleAssumption DEF Init, TypeOK, Processes, Stages, Events, Expired
<1>3. SchemaInv /\ TraceInv
  BY <1>1 DEF Init, SchemaInv, ServesWholeSchema, TraceInv
<1>4. QED
  BY <1>2, <1>3 DEF LifecycleInv

-----------------------------------------------------------------------------
(* Replicas. *)

\* Steps of a process that touch nothing else, and let only a replica with the table
\* of migrations go on to check it, and one with the whole schema become ready.
LEMMA StepKeepsInv ==
  ASSUME LifecycleInv, NEW r \in Replicas, NEW from, NEW to \in Processes, Step(r, from, to),
         to \in {"check", "apply", "record"} => "migrations" \in schema,
         to \in {"ready", "serving", "stopping", "closed"} => schema = WholeSchema
  PROVE  LifecycleInv'
<1>1. TypeOK'
  BY DEF LifecycleInv, TypeOK, Step, Become, requestVars, auditVars
<1>2. SchemaInv'
  BY DEF LifecycleInv, SchemaInv, ServesWholeSchema, WholeSchema, TypeOK, Step, Become
<1>3. TraceInv'
  BY DEF LifecycleInv, TraceInv, Traced, Step, requestVars, auditVars
<1>4. QED
  BY <1>1, <1>2, <1>3 DEF LifecycleInv

\* A replica that serves has the whole schema, and the steps after it keep that.
LEMMA ServingIsWhole ==
  ASSUME LifecycleInv, NEW r \in Replicas,
         process[r] \in {"ready", "serving", "stopping", "closed"}
  PROVE  schema = WholeSchema
BY DEF LifecycleInv, SchemaInv, ServesWholeSchema, WholeSchema

\* So does one that checks or applies the migration have the table it is recorded in.
LEMMA MigrationsAreThere ==
  ASSUME LifecycleInv, NEW r \in Replicas, process[r] \in {"check", "apply", "record"}
  PROVE  "migrations" \in schema
BY DEF LifecycleInv, SchemaInv

LEMMA MigrateKeepsInv ==
  ASSUME LifecycleInv, NEW r \in Replicas, Migrate(r)
  PROVE  LifecycleInv'
<1>1. CASE CheckMigration(r)
  <2>0. "migrations" \in schema
    BY <1>1, MigrationsAreThere DEF CheckMigration, Step, Become
  <2>1. "name" \in schema => schema = WholeSchema
    BY DEF LifecycleInv, SchemaInv
  <2>2. CASE "name" \in schema
    BY <1>1, <2>1, <2>2, StepKeepsInv DEF CheckMigration, Processes
  <2>3. CASE "name" \notin schema
    BY <1>1, <2>0, <2>3, StepKeepsInv DEF CheckMigration, Processes
  <2>4. QED
    BY <2>2, <2>3
<1>2. CASE ApplyMigration(r)
  <2>1. "migrations" \in schema
    BY <1>2, MigrationsAreThere DEF ApplyMigration, Step, Become
  <2>2. QED
    BY <1>2, <2>1, StepKeepsInv DEF ApplyMigration, Processes
<1>3. CASE ApplyMigrationFails(r)
  BY <1>3, StepKeepsInv DEF ApplyMigrationFails, Processes
<1>4. CASE RecordMigration(r)
  <2>1. TypeOK'
    BY <1>4 DEF RecordMigration, Become, LifecycleInv, TypeOK, Processes, WholeSchema,
       requestVars, auditVars
  <2>2. SchemaInv'
    <3>1. "migrations" \in schema
      BY <1>4, MigrationsAreThere DEF RecordMigration, Become
    <3>2. schema' = WholeSchema
      BY <1>4, <3>1 DEF RecordMigration, LifecycleInv, SchemaInv, WholeSchema
    <3>3. QED
      BY <3>2 DEF SchemaInv, ServesWholeSchema, WholeSchema
  <2>3. TraceInv'
    BY <1>4 DEF RecordMigration, LifecycleInv, TraceInv, Traced, requestVars, auditVars
  <2>4. QED
    BY <2>1, <2>2, <2>3 DEF LifecycleInv
<1>5. CASE CreateMigrations(r)
  <2>1. schema' = schema \cup {"migrations"} /\ "migrations" \in schema'
    BY <1>5 DEF CreateMigrations
  <2>2. schema' \in {{"migrations"}, WholeSchema} /\ (schema = WholeSchema => schema' = WholeSchema)
    BY <2>1 DEF LifecycleInv, SchemaInv, WholeSchema
  <2>3. TypeOK'
    BY <1>5, <2>2 DEF CreateMigrations, Become, LifecycleInv, TypeOK, Processes, WholeSchema,
                      requestVars, auditVars
  <2>4. \A p \in Replicas : process'[p] \in {"ready", "serving", "stopping", "closed"} =>
                            process[p] \in {"ready", "serving", "stopping", "closed"}
    BY <1>5 DEF CreateMigrations, Become, LifecycleInv, TypeOK
  <2>5. SchemaInv'
    BY <2>1, <2>2, <2>4 DEF LifecycleInv, SchemaInv, ServesWholeSchema
  <2>6. TraceInv'
    BY <1>5 DEF CreateMigrations, LifecycleInv, TraceInv, Traced, requestVars, auditVars
  <2>7. QED
    BY <2>3, <2>5, <2>6 DEF LifecycleInv
<1>6. QED
  BY <1>1, <1>2, <1>3, <1>4, <1>5 DEF Migrate

LEMMA ListenKeepsInv ==
  ASSUME LifecycleInv, NEW r \in Replicas, Listen(r)
  PROVE  LifecycleInv'
<1>1. TypeOK'
  BY LifecycleAssumption
  DEF Listen, Become, LifecycleInv, TypeOK, Processes, requestVars, auditVars
<1>2. SchemaInv'
  <2>1. schema = WholeSchema
    BY ServingIsWhole DEF Listen, Become
  <2>2. QED
    BY <2>1 DEF Listen, SchemaInv, ServesWholeSchema, WholeSchema
<1>3. TraceInv'
  BY DEF Listen, LifecycleInv, TraceInv, Traced, requestVars, auditVars
<1>4. QED
  BY <1>1, <1>2, <1>3 DEF LifecycleInv

\* What is deleted was expired, and stays so.
LEMMA PruneKeepsInv ==
  ASSUME LifecycleInv, NEW r \in Replicas, Prune(r)
  PROVE  LifecycleInv'
<1>1. TypeOK'
  BY LifecycleAssumption DEF Prune, LifecycleInv, TypeOK, requestVars
<1>2. SchemaInv'
  BY DEF Prune, LifecycleInv, SchemaInv, ServesWholeSchema
<1>3. ASSUME NEW q \in Requests, Traced(q)
      PROVE  Traced(q)'
  <2>1. age[<<q, "preflight">>] \in 0 .. Retention + 1
    BY DEF LifecycleInv, TypeOK, Events, Phases, Expired
  <2>2. age[<<q, "preflight">>] <= Retention \/ age[<<q, "preflight">>] = Expired
    BY <2>1, LifecycleAssumption DEF Expired
  <2>3. QED
    BY <1>3, <2>2 DEF Traced, Prune
<1>4. TraceInv'
  BY <1>3 DEF LifecycleInv, TraceInv, Prune, requestVars
<1>5. QED
  BY <1>1, <1>2, <1>4 DEF LifecycleInv

\* A process that ends takes its requests with it: none of them is sent any more, and
\* what is stored stays.
LEMMA CutKeepsTraces ==
  ASSUME LifecycleInv, NEW r \in Replicas, Cut(r)
  PROVE  /\ TraceInv'
         /\ stage' \in [Requests -> Stages] /\ table' \subseteq Events
         /\ UNCHANGED <<owner, sent, age>>
<1> DEFINE lost == {q \in Requests : owner[q] = r /\ stage[q] # "idle"}
           underway == {<<q, stage[q]>> : q \in {q \in lost : HoldsConnection(q)}}
<1>1. PICK stored \in SUBSET underway : table' = table \cup stored
  BY DEF Cut
<1>2. stage' = [q \in Requests |-> IF q \in lost THEN "done" ELSE stage[q]]
  BY DEF Cut
<1>3. UNCHANGED <<owner, sent, age>>
  BY DEF Cut
<1>4. underway \subseteq Events
  BY DEF HoldsConnection, Events, Phases
<1>5. stage' \in [Requests -> Stages] /\ table' \subseteq Events
  BY <1>1, <1>2, <1>4 DEF LifecycleInv, TypeOK, Stages
<1>6. TraceInv'
  BY <1>1, <1>2, <1>3 DEF LifecycleInv, TraceInv, Traced
<1>7. QED
  BY <1>3, <1>5, <1>6

LEMMA ExitKeepsInv ==
  ASSUME LifecycleInv, NEW r \in Replicas, Exit(r)
  PROVE  LifecycleInv'
<1>1. Cut(r)
  BY DEF Exit
<1>2. TypeOK'
  BY <1>1, CutKeepsTraces DEF Exit, Become, LifecycleInv, TypeOK, Processes
<1>3. SchemaInv'
  BY DEF Exit, Become, LifecycleInv, TypeOK, SchemaInv, ServesWholeSchema
<1>4. QED
  BY <1>1, <1>2, <1>3, CutKeepsTraces DEF LifecycleInv

\* A kill leaves the schema as it was, or with what was about to be committed.
LEMMA KillKeepsInv ==
  ASSUME LifecycleInv, NEW r \in Replicas, Kill(r)
  PROVE  LifecycleInv'
<1>1. Cut(r)
  BY DEF Kill
<1>2. /\ schema' \in {{}, {"migrations"}, WholeSchema}
      /\ "migrations" \in schema => "migrations" \in schema'
      /\ schema = WholeSchema => schema' = WholeSchema
  <2>1. CASE process[r] = "create"
    <3>1. schema' \in {schema, schema \cup {"migrations"}}
      BY <2>1 DEF Kill, Committing
    <3>2. QED
      BY <3>1 DEF LifecycleInv, SchemaInv, WholeSchema
  <2>2. CASE process[r] = "record"
    <3>1. schema' \in {schema, schema \cup {"tables", "name"}}
      BY <2>2 DEF Kill, Committing
    <3>2. "migrations" \in schema
      BY <2>2, MigrationsAreThere
    <3>3. QED
      BY <3>1, <3>2 DEF LifecycleInv, SchemaInv, WholeSchema
  <2>3. CASE process[r] \notin {"create", "record"}
    <3>1. schema' = schema
      BY <2>3 DEF Kill, Committing
    <3>2. QED
      BY <3>1 DEF LifecycleInv, SchemaInv
  <2>4. QED
    BY <2>1, <2>2, <2>3
<1>3. faults' \in 0 .. MaxFaults
  BY LifecycleAssumption DEF Kill, Fault, LifecycleInv, TypeOK
<1>4. process' \in [Replicas -> Processes] /\ UNCHANGED due
  BY DEF Kill, LifecycleInv, TypeOK, Processes
<1>5. TypeOK'
  BY <1>1, <1>2, <1>3, <1>4, CutKeepsTraces DEF LifecycleInv, TypeOK, WholeSchema
<1>6. SchemaInv'
  BY <1>2 DEF Kill, LifecycleInv, TypeOK, SchemaInv, ServesWholeSchema, WholeSchema
<1>7. QED
  BY <1>1, <1>5, <1>6, CutKeepsTraces DEF LifecycleInv

-----------------------------------------------------------------------------
(* Requests, time and faults. *)

LEMMA HandleKeepsInv ==
  ASSUME LifecycleInv, NEW q \in Requests, Handle(q)
  PROVE  LifecycleInv'
<1>1. UNCHANGED <<owner, processVars, schema, faults, age>> /\ stage' \in [Requests -> Stages]
  BY DEF Handle, Acquire, Preflight, Forward, Respond, Result, Insert, Move, auditVars,
         LifecycleInv, TypeOK, Stages
<1>2. sent' \subseteq Requests /\ table' \subseteq Events /\ table \subseteq table'
  BY DEF Handle, Acquire, Preflight, Forward, Respond, Result, Insert, Move, auditVars,
         LifecycleInv, TypeOK, Events, Phases
<1>3. TypeOK' /\ SchemaInv'
  BY <1>1, <1>2 DEF LifecycleInv, TypeOK, SchemaInv, ServesWholeSchema, processVars
\* Only the event that was stored lets the mutation go on, and only from there it is sent.
<1>4. ASSUME NEW p \in Requests, p \in sent' \/ stage'[p] = "dispatch"
      PROVE  Traced(p)'
  <2>1. CASE Traced(p)
    BY <1>1, <1>2, <2>1 DEF Traced
  <2>2. CASE ~ Traced(p)
    <3>1. p \notin sent /\ stage[p] # "dispatch"
      BY <2>2 DEF LifecycleInv, TraceInv
    <3>2. p = q /\ <<q, "preflight">> \in table'
      BY <1>4, <3>1 DEF Handle, Acquire, Preflight, Forward, Respond, Result, Insert, Move,
                        auditVars, LifecycleInv, TypeOK
    <3>3. QED
      BY <3>2 DEF Traced
  <2>3. QED
    BY <2>1, <2>2
<1>5. TraceInv'
  BY <1>4 DEF TraceInv
<1>6. QED
  BY <1>3, <1>5 DEF LifecycleInv

LEMMA ArriveKeepsInv ==
  ASSUME LifecycleInv, NEW q \in Requests, Arrive(q)
  PROVE  LifecycleInv'
<1>1. UNCHANGED <<owner, processVars, schema, faults, sent, table, age>>
  BY DEF Arrive, Move, auditVars
<1>2. stage' = [stage EXCEPT ![q] = "arrived"]
  BY DEF Arrive, Move
<1>3. TypeOK' /\ SchemaInv'
  BY <1>1, <1>2 DEF LifecycleInv, TypeOK, SchemaInv, ServesWholeSchema, processVars, Stages
<1>4. TraceInv'
  BY <1>1, <1>2 DEF LifecycleInv, TypeOK, TraceInv, Traced
<1>5. QED
  BY <1>3, <1>4 DEF LifecycleInv

LEMMA TickKeepsInv ==
  ASSUME LifecycleInv, Tick
  PROVE  LifecycleInv'
<1>1. due' \in [Replicas -> 0 .. Period]
  <2>1. \A r \in Replicas : (IF due[r] > 0 THEN due[r] - 1 ELSE 0) \in 0 .. Period
    BY LifecycleAssumption DEF LifecycleInv, TypeOK
  <2>2. QED
    BY <2>1 DEF Tick
<1>2. age' \in [Events -> 0 .. Expired]
  <2>1. \A e \in Events :
          (IF (e \in table \/ OnTheWay(e)) /\ age[e] < Expired THEN age[e] + 1 ELSE age[e])
            \in 0 .. Expired
    BY LifecycleAssumption DEF LifecycleInv, TypeOK, Expired
  <2>2. QED
    BY <2>1 DEF Tick
<1>3. TypeOK' /\ SchemaInv'
  BY <1>1, <1>2 DEF Tick, LifecycleInv, TypeOK, SchemaInv, ServesWholeSchema, requestVars
<1>4. ASSUME NEW q \in Requests, Traced(q)
      PROVE  Traced(q)'
  <2>1. <<q, "preflight">> \in Events /\ Expired \in Nat
    BY LifecycleAssumption DEF Events, Phases, Expired
  <2>2. age[<<q, "preflight">>] = Expired => age'[<<q, "preflight">>] = Expired
    BY <2>1 DEF Tick
  <2>3. QED
    BY <1>4, <2>2 DEF Traced, Tick
<1>5. TraceInv'
  BY <1>4 DEF LifecycleInv, TraceInv, Tick, requestVars
<1>6. QED
  BY <1>3, <1>5 DEF LifecycleInv

LEMMA TerminateKeepsInv ==
  ASSUME LifecycleInv, NEW r \in Replicas, Terminate(r)
  PROVE  LifecycleInv'
<1>1. faults' \in 0 .. MaxFaults
  BY LifecycleAssumption DEF Terminate, Fault, LifecycleInv, TypeOK
<1>2. TypeOK'
  BY <1>1 DEF Terminate, Become, LifecycleInv, TypeOK, Processes, requestVars, auditVars
<1>3. SchemaInv' /\ TraceInv'
  BY DEF Terminate, Become, LifecycleInv, TypeOK, SchemaInv, ServesWholeSchema, TraceInv,
         Traced, requestVars, auditVars
<1>4. QED
  BY <1>2, <1>3 DEF LifecycleInv

LEMMA PruneFailsKeepsInv ==
  ASSUME LifecycleInv, NEW r \in Replicas, PruneFails(r)
  PROVE  LifecycleInv'
<1>1. faults' \in 0 .. MaxFaults /\ due' \in [Replicas -> 0 .. Period]
  BY LifecycleAssumption DEF PruneFails, Fault, LifecycleInv, TypeOK
<1>2. TypeOK'
  BY <1>1 DEF PruneFails, LifecycleInv, TypeOK, requestVars, auditVars
<1>3. SchemaInv' /\ TraceInv'
  BY DEF PruneFails, LifecycleInv, SchemaInv, ServesWholeSchema, TraceInv, Traced,
         requestVars, auditVars
<1>4. QED
  BY <1>2, <1>3 DEF LifecycleInv

-----------------------------------------------------------------------------
LEMMA LifecycleStep == LifecycleInv /\ [Next]_vars => LifecycleInv'
<1>1. SUFFICES ASSUME LifecycleInv, [Next]_vars PROVE LifecycleInv'
  OBVIOUS
<1>2. ASSUME NEW r \in Replicas, Run(r) PROVE LifecycleInv'
  <2>1. CASE Start(r)
    BY <1>1, <2>1, StepKeepsInv DEF Start, Processes
  <2>2. CASE Connect(r)
    BY <1>1, <2>2, StepKeepsInv DEF Connect, Processes
  <2>3. CASE ClosePool(r)
    <3>1. process[r] = "stopping"
      BY <2>3 DEF ClosePool, Step, Become
    <3>2. QED
      BY <1>1, <2>3, <3>1, ServingIsWhole, StepKeepsInv DEF ClosePool, Processes
  <2>4. QED
    BY <1>1, <1>2, <2>1, <2>2, <2>3, MigrateKeepsInv, ListenKeepsInv, PruneKeepsInv,
       ExitKeepsInv DEF Run
<1>3. ASSUME NEW r \in Replicas, Terminate(r) \/ Kill(r) \/ PruneFails(r) PROVE LifecycleInv'
  BY <1>1, <1>3, TerminateKeepsInv, KillKeepsInv, PruneFailsKeepsInv
<1>4. ASSUME NEW q \in Requests, Arrive(q) \/ Handle(q) PROVE LifecycleInv'
  BY <1>1, <1>4, ArriveKeepsInv, HandleKeepsInv
<1>5. CASE UNCHANGED vars
  BY <1>1, <1>5 DEF LifecycleInv, TypeOK, SchemaInv, ServesWholeSchema, TraceInv, Traced,
                    vars, processVars, requestVars, auditVars
<1>6. QED
  BY <1>1, <1>2, <1>3, <1>4, <1>5, TickKeepsInv DEF Next

\* The invariant, of any number of replicas and faults.
THEOREM LifecycleInvariant == Spec => []LifecycleInv
<1>1. QED
  BY LifecycleInit, LifecycleStep, PTL DEF Spec

\* Migrate at start-up never lets a replica serve on half a schema: whoever applied
\* it, whoever died on the way, and however many started at once.
THEOREM WholeSchemaServed == Spec => []ServesWholeSchema
<1>1. LifecycleInv => ServesWholeSchema
  BY DEF LifecycleInv, SchemaInv
<1>2. QED
  BY <1>1, LifecycleInvariant, PTL

\* A mutation that GitHub received keeps its preflight event for the retention, through
\* any stops, kills, failures of the database and prunes of any replica.
THEOREM TraceIsLeft == Spec => []MutationsLeaveATrace
<1>1. LifecycleInv => MutationsLeaveATrace
  BY DEF LifecycleInv, TypeOK, TraceInv, Traced, MutationsLeaveATrace
<1>2. QED
  BY <1>1, LifecycleInvariant, PTL

\* Replicas, requests and the audit keep their types through starts, crashes, drains
\* and pruning (main.go, postgres.go).
THEOREM LifecycleIsTyped == Spec => []TypeOK
<1>1. LifecycleInv => TypeOK
  BY DEF LifecycleInv
<1>2. QED
  BY <1>1, LifecycleInvariant, PTL

-----------------------------------------------------------------------------
(***************************************************************************)
(* RequestLimiter.  An invariant on one minute cannot be inductive: what a *)
(* minute may still admit depends on what the bucket holds.  PaidSince     *)
(* says it of every stretch of time up to now, with the bucket; when the   *)
(* clock moves on, PaidWithin keeps it for the stretches that are over.    *)
(***************************************************************************)

Holders == {q \in Callers : holds[q] # "nothing"}

\* What has been admitted is counted for every time to come.
CountedOn ==
  \A k \in Classes : \A t \in now + 1 .. MaxTime + 1 :
    admitted[k][t] = admitted[k][now + 1]

\* From any time on, admissions were paid from a full bucket and what it gained.
PaidSince ==
  \A k \in Classes : \A first \in 0 .. now :
    bucket[k] + Cost(k) * Admissions(k, first, now) <= Minute + now - first

\* And so they were in any stretch of time that is over.
PaidWithin ==
  \A k \in Classes : \A last \in 0 .. now : \A first \in 0 .. last :
    Cost(k) * Admissions(k, first, last) <= Minute + last - first

LimiterInv ==
  /\ LimiterTypeOK /\ IsFiniteSet(Holders)
  /\ CountedOn /\ PaidSince /\ PaidWithin /\ OnlyAdmissionsSpend

LEMMA ExactDivision ==
  ASSUME NEW m \in Nat, NEW b \in Nat, b > 0, m % b = 0
  PROVE  m \div b \in Nat /\ (m \div b) * b = m
<1>1. PICK q \in Nat : m = b * q
  OBVIOUS
<1>2. m \div b = q
  BY <1>1
<1>3. QED
  BY <1>1, <1>2

\* A budget is paid from a bucket exactly.
LEMMA BudgetCostsABucket ==
  ASSUME NEW k \in Classes
  PROVE  Cost(k) \in Nat /\ Budget[k] \in Nat \ {0} /\ Cost(k) * Budget[k] = Minute
<1>1. Budget[k] \in Nat /\ Budget[k] > 0 /\ Minute \in Nat /\ Minute % Budget[k] = 0
  BY BudgetAssumption
<1>2. QED
  BY <1>1, ExactDivision DEF Cost

\* Counts over a stretch of time.
LEMMA AdmissionsAreCounts ==
  ASSUME LimiterTypeOK, NEW k \in Classes, NEW last \in 0 .. MaxTime, NEW first \in 0 .. last
  PROVE  /\ admitted[k][first] \in Nat /\ admitted[k][last + 1] \in Nat
         /\ Admissions(k, first, last) = admitted[k][last + 1] - admitted[k][first]
         /\ Admissions(k, first, last) \in Int
BY LimitsAssumption DEF LimiterTypeOK, Admissions

LEMMA FirstHolder ==
  ASSUME IsFiniteSet(Holders), NEW q \in Callers, holds \in [Callers -> Holdings],
         holds[q] = "nothing", holds' = [holds EXCEPT ![q] = "slot"]
  PROVE  IsFiniteSet(Holders') /\ Cardinality(Holders') = Cardinality(Holders) + 1
<1>1. Holders' = Holders \cup {q} /\ q \notin Holders
  BY DEF Holders
<1>2. QED
  BY <1>1, FS_AddElement

LEMMA LastHolder ==
  ASSUME IsFiniteSet(Holders), NEW q \in Callers, holds \in [Callers -> Holdings],
         holds[q] # "nothing", holds' = [holds EXCEPT ![q] = "nothing"]
  PROVE  /\ IsFiniteSet(Holders') /\ Cardinality(Holders) \in Nat \ {0}
         /\ Cardinality(Holders') = Cardinality(Holders) - 1
<1>1. Holders' = Holders \ {q} /\ q \in Holders
  BY DEF Holders
<1>2. Cardinality(Holders) # 0
  BY <1>1, FS_EmptySet
<1>3. QED
  BY <1>1, <1>2, FS_RemoveElement, FS_CardinalityType

LEMMA LimiterStarts == LimiterInit => LimiterInv
<1> SUFFICES ASSUME LimiterInit PROVE LimiterInv
  OBVIOUS
<1>1. Holders = {}
  BY DEF LimiterInit, Holders
<1>2. IsFiniteSet(Holders) /\ Cardinality(Holders) = 0
  BY <1>1, FS_EmptySet
<1>3. LimiterTypeOK
  BY <1>2, BudgetAssumption, LimitsAssumption
    DEF LimiterInit, LimiterTypeOK, Holdings, Classes, Holders
<1>4. \A k \in Classes : bucket[k] = Minute /\ \A t \in 0 .. MaxTime + 1 : admitted[k][t] = 0
  BY DEF LimiterInit
<1>5. now = 0 /\ 1 \in 0 .. MaxTime + 1 /\ 0 \in 0 .. MaxTime + 1 /\ MaxTime \in Nat /\ Minute \in Nat
  BY BudgetAssumption, LimitsAssumption DEF LimiterInit
<1>6. CountedOn
  BY <1>4, <1>5 DEF CountedOn
<1>7. \A k \in Classes : Admissions(k, 0, 0) = 0 /\ Cost(k) * Admissions(k, 0, 0) = 0
  BY <1>4, <1>5, BudgetCostsABucket DEF Admissions
<1>8. PaidSince /\ PaidWithin /\ OnlyAdmissionsSpend
  BY <1>4, <1>5, <1>7 DEF PaidSince, PaidWithin, OnlyAdmissionsSpend
<1>9. QED
  BY <1>2, <1>3, <1>6, <1>8 DEF LimiterInv

\* A step that neither moves the clock nor spends: only slots change hands.
LEMMA SlotStepPreserves ==
  ASSUME LimiterInv, UNCHANGED <<now, bucket, admitted>>,
         holds' \in [Callers -> Holdings], class' \in [Callers -> Classes],
         IsFiniteSet(Holders'), active' = Cardinality(Holders'), active' \in 0 .. Concurrent
  PROVE  LimiterInv'
<1>1. LimiterTypeOK'
  BY DEF LimiterInv, LimiterTypeOK, Holders
<1>2. QED
  BY <1>1 DEF LimiterInv, CountedOn, PaidSince, PaidWithin, OnlyAdmissionsSpend, Admissions

LEMMA TakeSlotPreserves ==
  ASSUME LimiterInv, NEW q \in Callers, NEW k \in Classes, TakeSlot(q, k)
  PROVE  LimiterInv'
<1>1. /\ LimiterTypeOK /\ IsFiniteSet(Holders)
      /\ active = Cardinality(Holders) /\ active \in 0 .. Concurrent /\ Concurrent \in Nat
  BY LimitsAssumption DEF LimiterInv, LimiterTypeOK, Holders
<1>2. IsFiniteSet(Holders') /\ active' = Cardinality(Holders')
  BY <1>1, FirstHolder DEF TakeSlot, LimiterTypeOK
<1>3. active' \in 0 .. Concurrent
  BY <1>1 DEF TakeSlot
<1>4. holds' \in [Callers -> Holdings] /\ class' \in [Callers -> Classes]
  BY <1>1 DEF TakeSlot, LimiterTypeOK, Holdings
<1>5. QED
  BY <1>2, <1>3, <1>4, SlotStepPreserves DEF TakeSlot

LEMMA GiveBackPreserves ==
  ASSUME LimiterInv, NEW q \in Callers, NoToken(q) \/ Release(q)
  PROVE  LimiterInv'
<1>1. /\ LimiterTypeOK /\ IsFiniteSet(Holders)
      /\ active = Cardinality(Holders) /\ active \in 0 .. Concurrent /\ Concurrent \in Nat
  BY LimitsAssumption DEF LimiterInv, LimiterTypeOK, Holders
<1>2. /\ holds[q] # "nothing" /\ holds' = [holds EXCEPT ![q] = "nothing"]
      /\ active' = active - 1 /\ UNCHANGED <<now, bucket, class, admitted>>
  BY DEF NoToken, Release
<1>3. /\ IsFiniteSet(Holders') /\ active' = Cardinality(Holders')
      /\ Cardinality(Holders) \in Nat \ {0}
  BY <1>1, <1>2, LastHolder DEF LimiterTypeOK
<1>4. active' \in 0 .. Concurrent
  BY <1>1, <1>2, <1>3
<1>5. holds' \in [Callers -> Holdings] /\ class' \in [Callers -> Classes]
  BY <1>1, <1>2 DEF LimiterTypeOK, Holdings
<1>6. QED
  BY <1>2, <1>3, <1>4, <1>5, SlotStepPreserves

\* An admission takes from the bucket what it adds to the count of its class.
LEMMA TakeTokenPreserves ==
  ASSUME LimiterInv, NEW q \in Callers, TakeToken(q)
  PROVE  LimiterInv'
<1> DEFINE own == class[q]
<1>1. /\ LimiterTypeOK /\ IsFiniteSet(Holders) /\ CountedOn /\ PaidSince /\ PaidWithin
      /\ OnlyAdmissionsSpend
  BY DEF LimiterInv
<1>2. own \in Classes /\ now \in 0 .. MaxTime /\ MaxTime \in Nat /\ Minute \in Nat
  BY <1>1, BudgetAssumption, LimitsAssumption DEF LimiterTypeOK
<1>3. /\ holds[q] = "slot" /\ bucket[own] >= Cost(own)
      /\ bucket' = [bucket EXCEPT ![own] = bucket[own] - Cost(own)]
      /\ holds' = [holds EXCEPT ![q] = "admitted"]
      /\ admitted' = [admitted EXCEPT ![own] =
           [t \in 0 .. MaxTime + 1 |->
              IF t > now THEN admitted[own][t] + 1 ELSE admitted[own][t]]]
      /\ UNCHANGED <<now, active, class>>
  BY DEF TakeToken
<1> HIDE DEF own
<1>4. Holders' = Holders
  BY <1>1, <1>3 DEF Holders, LimiterTypeOK
<1>5. \A k \in Classes :
        /\ bucket[k] \in 0 .. Minute /\ Cost(k) \in Nat
        /\ bucket'[k] = IF k = own THEN bucket[k] - Cost(k) ELSE bucket[k]
  BY <1>1, <1>3, BudgetCostsABucket DEF LimiterTypeOK
<1>6. \A k \in Classes : \A t \in 0 .. MaxTime + 1 :
        /\ admitted[k][t] \in Nat
        /\ admitted'[k][t] = IF k = own /\ t > now THEN admitted[k][t] + 1 ELSE admitted[k][t]
  BY <1>1, <1>3 DEF LimiterTypeOK
<1>7. LimiterTypeOK'
  <2>1. bucket' \in [Classes -> 0 .. Minute]
    BY <1>1, <1>2, <1>3, <1>5 DEF LimiterTypeOK
  <2>2. admitted' \in [Classes -> [0 .. MaxTime + 1 -> Nat]]
    <3>1. /\ admitted' = [k \in Classes |-> admitted'[k]]
          /\ \A k \in Classes : admitted'[k] = [t \in 0 .. MaxTime + 1 |-> admitted'[k][t]]
      BY <1>1, <1>2, <1>3 DEF LimiterTypeOK
    <3>2. \A k \in Classes : \A t \in 0 .. MaxTime + 1 : admitted'[k][t] \in Nat
      BY <1>6
    <3>3. QED
      BY <3>1, <3>2
  <2>3. holds' \in [Callers -> Holdings]
    BY <1>1, <1>3 DEF LimiterTypeOK, Holdings
  <2>4. QED
    BY <1>1, <1>3, <1>4, <2>1, <2>2, <2>3 DEF LimiterTypeOK, Holders
<1>8. CountedOn'
  BY <1>1, <1>2, <1>3, <1>6 DEF CountedOn
<1>9. \A k \in Classes : \A first \in 0 .. now :
        bucket'[k] + Cost(k) * Admissions(k, first, now)'
          = bucket[k] + Cost(k) * Admissions(k, first, now)
  <2> SUFFICES ASSUME NEW k \in Classes, NEW first \in 0 .. now
               PROVE  bucket'[k] + Cost(k) * Admissions(k, first, now)'
                        = bucket[k] + Cost(k) * Admissions(k, first, now)
    OBVIOUS
  <2>1. /\ Admissions(k, first, now) \in Int
        /\ Admissions(k, first, now)' =
             IF k = own THEN Admissions(k, first, now) + 1 ELSE Admissions(k, first, now)
    <3>1. /\ now + 1 \in 0 .. MaxTime + 1 /\ first \in 0 .. MaxTime + 1
          /\ now + 1 > now /\ ~ first > now
      BY <1>2
    <3>2. /\ admitted[k][now + 1] \in Nat /\ admitted[k][first] \in Nat
          /\ admitted'[k][first] = admitted[k][first]
          /\ admitted'[k][now + 1] =
               IF k = own THEN admitted[k][now + 1] + 1 ELSE admitted[k][now + 1]
      BY <1>6, <3>1
    <3>3. QED
      BY <1>3, <3>2 DEF Admissions
  <2>2. CASE k # own
    BY <1>5, <2>1, <2>2
  <2>3. CASE k = own
    BY <1>5, <2>1, <2>3
  <2>4. QED
    BY <2>2, <2>3
<1>10. PaidSince' /\ OnlyAdmissionsSpend'
  BY <1>1, <1>2, <1>3, <1>9 DEF PaidSince, OnlyAdmissionsSpend, Cost
<1>11. PaidWithin'
  <2> SUFFICES ASSUME NEW k \in Classes, NEW last \in 0 .. now, NEW first \in 0 .. last
               PROVE  Cost(k) * Admissions(k, first, last)' <= Minute + last - first
    BY <1>3 DEF PaidWithin, Cost
  <2>1. CASE last = now
    <3>1. bucket'[k] + Cost(k) * Admissions(k, first, now)' <= Minute + now - first
      BY <1>1, <1>2, <1>9, <2>1 DEF PaidSince
    <3>2. bucket'[k] \in Nat /\ Cost(k) \in Nat
      BY <1>2, <1>5, <1>7 DEF LimiterTypeOK
    <3>3. Admissions(k, first, now)' \in Int
      <4>1. /\ now' + 1 \in 0 .. MaxTime + 1 /\ first \in 0 .. MaxTime + 1
            /\ admitted' \in [Classes -> [0 .. MaxTime + 1 -> Nat]]
        BY <1>2, <1>3, <1>7, <2>1 DEF LimiterTypeOK
      <4>2. admitted'[k][now' + 1] \in Nat /\ admitted'[k][first] \in Nat
        BY <4>1
      <4>3. QED
        BY <4>2 DEF Admissions
    <3>4. QED
      BY <1>2, <1>3, <2>1, <3>1, <3>2, <3>3
  <2>2. CASE last # now
    <3>1. Admissions(k, first, last)' = Admissions(k, first, last)
      BY <1>2, <1>6, <2>2 DEF Admissions
    <3>2. QED
      BY <1>1, <3>1 DEF PaidWithin
  <2>3. QED
    BY <2>1, <2>2
<1>12. QED
  BY <1>1, <1>4, <1>7, <1>8, <1>10, <1>11 DEF LimiterInv

LEMMA ElapsePreserves ==
  ASSUME LimiterInv, Elapse
  PROVE  LimiterInv'
<1>1. /\ LimiterTypeOK /\ IsFiniteSet(Holders) /\ CountedOn /\ PaidSince /\ PaidWithin
      /\ OnlyAdmissionsSpend
  BY DEF LimiterInv
<1>2. now \in 0 .. MaxTime /\ MaxTime \in Nat /\ Minute \in Nat
  BY <1>1, BudgetAssumption, LimitsAssumption DEF LimiterTypeOK
<1>3. /\ now < MaxTime /\ now' = now + 1
      /\ bucket' = [k \in Classes |-> Refill(k)]
      /\ UNCHANGED <<active, holds, class, admitted>>
  BY DEF Elapse
<1>4. \A k \in Classes :
        /\ bucket[k] \in 0 .. Minute /\ bucket'[k] \in 0 .. Minute
        /\ bucket[k] <= bucket'[k] /\ bucket'[k] <= bucket[k] + 1 /\ Cost(k) \in Nat
  BY <1>1, <1>2, <1>3, BudgetCostsABucket DEF LimiterTypeOK, Refill, Least
<1>5. \A k \in Classes : \A t \in 0 .. MaxTime + 1 : admitted[k][t] \in Nat
  BY <1>1 DEF LimiterTypeOK
<1>6. LimiterTypeOK'
  BY <1>1, <1>2, <1>3, <1>4 DEF LimiterTypeOK
<1>7. CountedOn'
  BY <1>1, <1>2, <1>3 DEF CountedOn
<1>8. \A k \in Classes : admitted[k][now + 2] = admitted[k][now + 1]
  BY <1>1, <1>2, <1>3 DEF CountedOn
<1>9. \A k \in Classes : \A first \in 0 .. now + 1 :
        /\ Admissions(k, first, now + 1) = admitted[k][now + 1] - admitted[k][first]
        /\ Admissions(k, first, now + 1) \in Int
        /\ first = now + 1 => Admissions(k, first, now + 1) = 0
        /\ first # now + 1 => Admissions(k, first, now + 1) = Admissions(k, first, now)
  <2> SUFFICES ASSUME NEW k \in Classes, NEW first \in 0 .. now + 1
               PROVE  /\ Admissions(k, first, now + 1) = admitted[k][now + 1] - admitted[k][first]
                      /\ Admissions(k, first, now + 1) \in Int
                      /\ first = now + 1 => Admissions(k, first, now + 1) = 0
                      /\ first # now + 1 =>
                           Admissions(k, first, now + 1) = Admissions(k, first, now)
    OBVIOUS
  <2>1. /\ admitted[k][now + 1] \in Nat /\ admitted[k][first] \in Nat
        /\ now + 1 + 1 = now + 2
    BY <1>2, <1>5
  <2>2. QED
    BY <1>8, <2>1 DEF Admissions
<1>10. \A k \in Classes : \A first \in 0 .. now + 1 :
         bucket'[k] + Cost(k) * Admissions(k, first, now + 1) <= Minute + (now + 1) - first
  <2> SUFFICES ASSUME NEW k \in Classes, NEW first \in 0 .. now + 1
               PROVE  bucket'[k] + Cost(k) * Admissions(k, first, now + 1)
                        <= Minute + (now + 1) - first
    OBVIOUS
  <2>1. CASE first = now + 1
    <3>1. Cost(k) * Admissions(k, first, now + 1) = 0
      BY <1>4, <1>9, <2>1
    <3>2. QED
      BY <1>2, <1>4, <2>1, <3>1
  <2>2. CASE first \in 0 .. now
    <3>1. bucket[k] + Cost(k) * Admissions(k, first, now) <= Minute + now - first
      BY <1>1, <2>2 DEF PaidSince
    <3>2. /\ Admissions(k, first, now + 1) = Admissions(k, first, now)
          /\ Cost(k) * Admissions(k, first, now + 1) \in Int
      BY <1>2, <1>4, <1>9, <2>2
    <3>3. QED
      BY <1>2, <1>4, <2>2, <3>1, <3>2
  <2>3. QED
    BY <1>2, <2>1, <2>2
<1>11. \A k \in Classes : \A last \in 0 .. now + 1 : \A first \in 0 .. last :
         Cost(k) * Admissions(k, first, last) <= Minute + last - first
  <2> SUFFICES ASSUME NEW k \in Classes, NEW last \in 0 .. now + 1, NEW first \in 0 .. last
               PROVE  Cost(k) * Admissions(k, first, last) <= Minute + last - first
    OBVIOUS
  <2>1. CASE last = now + 1
    <3>1. bucket'[k] + Cost(k) * Admissions(k, first, now + 1) <= Minute + (now + 1) - first
      BY <1>10, <2>1
    <3>2. Cost(k) * Admissions(k, first, now + 1) \in Int
      BY <1>4, <1>9, <2>1
    <3>3. QED
      BY <1>2, <1>4, <2>1, <3>1, <3>2
  <2>2. CASE last \in 0 .. now
    BY <1>1, <2>2 DEF PaidWithin
  <2>3. QED
    BY <1>2, <2>1, <2>2
<1>12. \A k \in Classes : bucket'[k] + Cost(k) * Admissions(k, 0, now + 1) >= Minute
  <2> SUFFICES ASSUME NEW k \in Classes
               PROVE  bucket'[k] + Cost(k) * Admissions(k, 0, now + 1) >= Minute
    OBVIOUS
  <2>1. bucket[k] + Cost(k) * Admissions(k, 0, now) >= Minute
    BY <1>1 DEF OnlyAdmissionsSpend
  <2>2. /\ Admissions(k, 0, now + 1) = Admissions(k, 0, now)
        /\ Cost(k) * Admissions(k, 0, now + 1) \in Int
    BY <1>2, <1>4, <1>9
  <2>3. QED
    BY <1>2, <1>4, <2>1, <2>2
\* None of the counts changes, only what is asked of them.
<1>13. PaidSince' /\ PaidWithin' /\ OnlyAdmissionsSpend'
  BY <1>3, <1>10, <1>11, <1>12 DEF PaidSince, PaidWithin, OnlyAdmissionsSpend, Admissions, Cost
<1>14. QED
  BY <1>1, <1>3, <1>6, <1>7, <1>13 DEF LimiterInv, Holders

LEMMA LimiterStays ==
  ASSUME LimiterInv, [LimiterNext]_limiterVars
  PROVE  LimiterInv'
<1>1. ASSUME NEW q \in Callers, NEW k \in Classes, TakeSlot(q, k)
      PROVE  LimiterInv'
  BY <1>1, TakeSlotPreserves
<1>2. ASSUME NEW q \in Callers, TakeToken(q) \/ NoToken(q) \/ Release(q)
      PROVE  LimiterInv'
  BY <1>2, TakeTokenPreserves, GiveBackPreserves
<1>3. CASE Elapse
  BY <1>3, ElapsePreserves
<1>4. CASE UNCHANGED limiterVars
  BY <1>4 DEF limiterVars, LimiterInv, LimiterTypeOK, Holders, CountedOn, PaidSince, PaidWithin,
              OnlyAdmissionsSpend, Admissions
<1>5. QED
  BY <1>1, <1>2, <1>3, <1>4 DEF LimiterNext

THEOREM LimiterInvariant == LimiterSpec => []LimiterInv
<1>1. LimiterInv /\ [LimiterNext]_limiterVars => LimiterInv'
  BY LimiterStays
<1>2. QED
  BY LimiterStarts, <1>1, PTL DEF LimiterSpec

\* The slots taken are those of goroutines that hold one, and never too many; no
\* bucket is overdrawn or overflows.
THEOREM LimiterIsTyped == LimiterSpec => []LimiterTypeOK
<1>1. LimiterInv => LimiterTypeOK
  BY DEF LimiterInv
<1>2. QED
  BY LimiterInvariant, <1>1, PTL

\* Whatever the budgets, a minute that starts at any time admits fewer than two.
THEOREM TwoBudgetsAMinute == LimiterSpec => []MinuteWithinTwoBudgets
<1>1. LimiterInv => MinuteWithinTwoBudgets
  <2> SUFFICES ASSUME LimiterInv, NEW k \in Classes, NEW t \in 0 .. now
               PROVE  Admissions(k, t, Least(t + Minute - 1, now)) < 2 * Budget[k]
    BY DEF MinuteWithinTwoBudgets
  <2> DEFINE last == Least(t + Minute - 1, now)
  <2>1. now \in 0 .. MaxTime /\ MaxTime \in Nat /\ Minute \in Nat \ {0}
    BY BudgetAssumption, LimitsAssumption DEF LimiterInv, LimiterTypeOK
  <2>2. /\ last \in 0 .. now /\ last \in 0 .. MaxTime /\ t \in 0 .. last
        /\ last - t < Minute
    BY <2>1 DEF Least
  <2> HIDE DEF last
  <2>3. Cost(k) * Admissions(k, t, last) <= Minute + last - t
    BY <2>2 DEF LimiterInv, PaidWithin
  <2>4. /\ Cost(k) \in Nat /\ Budget[k] \in Nat /\ Cost(k) * Budget[k] = Minute
    BY <2>1, BudgetCostsABucket
  <2>5. Admissions(k, t, last) \in Int
    BY <2>2, AdmissionsAreCounts DEF LimiterInv
  <2>6. Cost(k) * Admissions(k, t, last) < Cost(k) * (2 * Budget[k])
    BY <2>1, <2>2, <2>3, <2>4, <2>5
  <2>7. \A c, a, b \in Int : c >= 0 /\ c * a < c * b => a < b
    OBVIOUS
  <2>8. Admissions(k, t, last) < 2 * Budget[k]
    BY <2>4, <2>6, <2>7, <2>5
  <2>9. QED
    BY <2>8 DEF last
<1>2. QED
  BY LimiterInvariant, <1>1, PTL

\* A token is lost only to an admission of its own class.
THEOREM OnlyAdmissionsCost == LimiterSpec => []OnlyAdmissionsSpend
<1>1. LimiterInv => OnlyAdmissionsSpend
  BY DEF LimiterInv
<1>2. QED
  BY LimiterInvariant, <1>1, PTL
=============================================================================
