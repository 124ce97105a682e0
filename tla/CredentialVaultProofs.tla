------------------------- MODULE CredentialVaultProofs -------------------------
(***************************************************************************)
(* Any number of keys, rotations, brokers, commands and requests: a PAT    *)
(* goes only where it was put for, and a credential that is there from the *)
(* start can be opened by every broker at all times.  The first follows    *)
(* from VaultInv, which also says that the operator finishes a rotation    *)
(* and a command before beginning the other; the second needs StandingInv. *)
(***************************************************************************)
EXTENDS CredentialVault, TLAPS

-----------------------------------------------------------------------------
(* The invariants. *)

\* Active, the newest of the configured keys, is well defined.
KeysOK == \E k \in keys : \A other \in keys : other <= k

\* A PAT at the destination it was put for.
AccessOK(access) == access.pat.at = access.destination

\* What is sealed says the same of the destination as the row.
RowOK == row # None => /\ row.seal.destination = row.destination
                       /\ AccessOK(AccessOf(row))

\* What a request holds was in the row since the request began.
RequestsOK ==
  \A q \in Requests : request[q] # None =>
    AccessOK(request[q].access) /\ request[q].access \in request[q].since

SentOK == \A access \in sent : AccessOK(access)

IssuesOK == \A p \in Commands : command[p] \in Issuing => row # None

\* While a command runs every broker has the configured keyring.
VaultInv ==
  TypeOK /\ KeysOK /\ RowOK /\ RequestsOK /\ SentOK /\ IssuesOK /\ (Quiet \/ Settled)

\* The credential is there, with its first ID, and sealed under a key that every broker
\* has; whoever puts it or binds a capability to it uses that ID.
StandingInv ==
  /\ row # None /\ row.id = FirstID /\ row.seal.id = FirstID
  /\ row.seal.key \in keys /\ \A b \in Brokers : row.seal.key \in ring[b]
  /\ bound \subseteq {FirstID}
  /\ \A p \in Commands : command[p] # None => command[p].id = FirstID

-----------------------------------------------------------------------------
LEMMA RecordsAreNotNone ==
  /\ None \notin CredentialRow
  /\ None \notin Put
  /\ None \notin Issuing
  /\ None \notin Request
  BY NobodyAssumption

\* The newest key of the ring is one of its keys, and there is no other such key.
LEMMA ActiveIsNewest ==
  ASSUME KeysOK
  PROVE  Active \in keys /\ \A other \in keys : other <= Active
  BY DEF KeysOK, Active

LEMMA WitnessedIsRequest ==
  ASSUME NEW r \in Request, NEW a \in Access
  PROVE  LET s == [r EXCEPT !.since = @ \cup {a}]
         IN  s \in Request /\ s.access = r.access /\ s.since = r.since \cup {a}
  BY DEF Request

LEMMA SealedIsRow ==
  ASSUME NEW by \in IDs, NEW id \in IDs, NEW d \in Destinations, NEW k \in Keys
  PROVE  /\ Sealed(by, id, d, k) \in CredentialRow
         /\ Sealed(by, id, d, k).id = id
         /\ Sealed(by, id, d, k).destination = d
         /\ Sealed(by, id, d, k).seal = [id |-> id, key |-> k, destination |-> d,
                                         pat |-> [by |-> by, at |-> d]]
  BY DEF Sealed, CredentialRow, Seal, PATs

LEMMA AccessOfRow ==
  ASSUME NEW r \in CredentialRow
  PROVE  AccessOf(r) \in Access
  BY DEF AccessOf, Access, CredentialRow, Seal

-----------------------------------------------------------------------------
(* The invariant starts, and the commands preserve it. *)

LEMMA VaultStarts == Init => VaultInv
<1> SUFFICES ASSUME Init PROVE VaultInv
  OBVIOUS
<1>1. /\ bound = {} /\ keys = {1} /\ ring = [b \in Brokers |-> {1}]
      /\ command = [p \in Commands |-> None]
      /\ request = [q \in Requests |-> None] /\ sent = {}
  BY DEF Init
<1>2. 1 \in Keys
  BY KeysAssumption DEF Keys
<1>3. KeysOK /\ RequestsOK /\ SentOK /\ Quiet /\ IssuesOK
  <2>1. KeysOK
    BY <1>1 DEF KeysOK
  <2>2. RequestsOK /\ SentOK /\ Quiet
    BY <1>1 DEF RequestsOK, SentOK, Quiet
  <2>3. IssuesOK
    BY <2>2, RecordsAreNotNone DEF IssuesOK, Quiet
  <2>4. QED
    BY <2>1, <2>2, <2>3
<1>4. CASE FirstID = None
  <2>1. row = None
    BY <1>4 DEF Init
  <2>2. TypeOK
    BY <1>1, <1>2, <2>1, RecordsAreNotNone DEF TypeOK
  <2>3. QED
    BY <1>3, <2>1, <2>2 DEF VaultInv, RowOK
<1>5. CASE FirstID # None
  <2>1. PICK d \in Destinations : row = Sealed(FirstID, FirstID, d, 1)
    BY <1>5 DEF Init
  <2>2. FirstID \in IDs
    BY <1>5 DEF IDs
  <2>3. /\ row \in CredentialRow /\ row.destination = d
        /\ row.seal = [id |-> FirstID, key |-> 1, destination |-> d,
                       pat |-> [by |-> FirstID, at |-> d]]
    BY <1>2, <2>1, <2>2, SealedIsRow
  <2>4. TypeOK
    BY <1>1, <1>2, <2>3, RecordsAreNotNone DEF TypeOK
  <2>5. RowOK
    BY <2>3 DEF RowOK, AccessOK, AccessOf
  <2>6. QED
    BY <1>3, <2>4, <2>5 DEF VaultInv
<1>6. QED
  BY <1>4, <1>5

\* A command that starts: the keyring is settled, and a put takes the newest key.
LEMMA BeginPutPreserves ==
  ASSUME VaultInv, NEW p \in Commands, NEW d \in Destinations, BeginPut(p, d)
  PROVE  VaultInv'
<1> DEFINE new == [does |-> "put", id |-> IF row = None THEN p ELSE row.id,
                   destination |-> d, key |-> Active]
<1>1. /\ command' = [command EXCEPT ![p] = new] /\ Settled
      /\ UNCHANGED <<row, bound, keys, ring, request, sent>>
  BY DEF BeginPut, requestVars
<1>2. TypeOK /\ KeysOK
  BY DEF VaultInv
<1>3. new \in Put
  <2>1. Active \in Keys
    BY <1>2, ActiveIsNewest DEF TypeOK
  <2>2. (IF row = None THEN p ELSE row.id) \in IDs
    BY <1>2 DEF TypeOK, CredentialRow, IDs
  <2>3. QED
    BY <2>1, <2>2 DEF Put
<1>4. Active' = Active
  BY <1>1 DEF Active
<1>5. new.key = Active /\ new \notin Issuing
  BY DEF Issuing
<1> HIDE DEF new
<1>6. TypeOK'
  BY <1>1, <1>2, <1>3, <1>4, <1>5 DEF TypeOK
<1>7. IssuesOK'
  BY <1>1, <1>2, <1>5 DEF VaultInv, IssuesOK, TypeOK
<1>8. Settled'
  BY <1>1 DEF Settled
<1>9. QED
  BY <1>1, <1>6, <1>7, <1>8
    DEF VaultInv, KeysOK, RowOK, AccessOf, RequestsOK, SentOK

LEMMA BeginIssuePreserves ==
  ASSUME VaultInv, NEW p \in Commands, BeginIssue(p)
  PROVE  VaultInv'
<1> DEFINE new == [does |-> "issue", id |-> row.id]
<1>1. /\ command' = [command EXCEPT ![p] = new] /\ Settled /\ row # None
      /\ UNCHANGED <<row, bound, keys, ring, request, sent>>
  BY DEF BeginIssue, requestVars, Opens
<1>2. TypeOK /\ KeysOK
  BY DEF VaultInv
<1>3. new \in Issuing /\ new \notin Put
  BY <1>1, <1>2 DEF Issuing, Put, TypeOK, CredentialRow
<1>4. Active' = Active
  BY <1>1 DEF Active
<1> HIDE DEF new
<1>5. TypeOK'
  BY <1>1, <1>2, <1>3, <1>4 DEF TypeOK
<1>6. IssuesOK'
  BY <1>1 DEF IssuesOK
<1>7. Settled'
  BY <1>1 DEF Settled
<1>8. QED
  BY <1>1, <1>5, <1>6, <1>7
    DEF VaultInv, KeysOK, RowOK, AccessOf, RequestsOK, SentOK

LEMMA InterruptPreserves ==
  ASSUME VaultInv, NEW p \in Commands, Interrupt(p)
  PROVE  VaultInv'
<1>1. /\ command' = [command EXCEPT ![p] = None]
      /\ UNCHANGED <<row, bound, keys, ring, request, sent>>
  BY DEF Interrupt, requestVars
<1>2. TypeOK /\ Active' = Active
  BY <1>1 DEF VaultInv, Active
<1>3. TypeOK'
  BY <1>1, <1>2, RecordsAreNotNone DEF TypeOK
<1>4. IssuesOK' /\ (Quiet \/ Settled)'
  BY <1>1, <1>2, RecordsAreNotNone DEF VaultInv, IssuesOK, TypeOK, Quiet, Settled
<1>5. QED
  BY <1>1, <1>3, <1>4 DEF VaultInv, KeysOK, RowOK, AccessOf, RequestsOK, SentOK

LEMMA StoreIssuePreserves ==
  ASSUME VaultInv, NEW p \in Commands, StoreIssue(p)
  PROVE  VaultInv'
<1>1. /\ command[p] # None /\ command[p].does = "issue"
      /\ bound' = bound \cup {command[p].id}
      /\ command' = [command EXCEPT ![p] = None]
      /\ UNCHANGED <<row, keys, ring, request, sent>>
  BY DEF StoreIssue, requestVars
<1>2. TypeOK /\ Active' = Active
  BY <1>1 DEF VaultInv, Active
<1>3. command[p] \in Issuing
  BY <1>1, <1>2 DEF TypeOK, Put
<1>4. command[p].id \in IDs /\ row # None
  BY <1>3 DEF Issuing, VaultInv, IssuesOK
<1>5. TypeOK'
  BY <1>1, <1>2, <1>4, RecordsAreNotNone DEF TypeOK
<1>6. IssuesOK' /\ (Quiet \/ Settled)'
  BY <1>1, <1>2, RecordsAreNotNone DEF VaultInv, IssuesOK, TypeOK, Quiet, Settled
<1>7. QED
  BY <1>1, <1>5, <1>6 DEF VaultInv, KeysOK, RowOK, AccessOf, RequestsOK, SentOK

\* The upsert: what it stores was sealed with what the row then says, but for the ID,
\* and the requests on their way see it.
LEMMA UpsertedIsRow ==
  ASSUME TypeOK, NEW p \in Commands, command[p] \in Put
  PROVE  /\ Upserted(p) \in CredentialRow
         /\ Upserted(p).id = (IF row = None THEN command[p].id ELSE row.id)
         /\ Upserted(p).destination = command[p].destination
         /\ Upserted(p).seal = [id |-> command[p].id, key |-> command[p].key,
                                destination |-> command[p].destination,
                                pat |-> [by |-> p, at |-> command[p].destination]]
<1> DEFINE new == Sealed(p, command[p].id, command[p].destination, command[p].key)
<1>1. /\ command[p].id \in IDs /\ command[p].destination \in Destinations
      /\ command[p].key \in Keys /\ p \in IDs
  BY DEF Put, IDs
<1>2. /\ new \in CredentialRow /\ new.id = command[p].id
      /\ new.destination = command[p].destination
      /\ new.seal = [id |-> command[p].id, key |-> command[p].key,
                     destination |-> command[p].destination,
                     pat |-> [by |-> p, at |-> command[p].destination]]
  BY <1>1, SealedIsRow
<1>3. Upserted(p) = [id |-> IF row = None THEN new.id ELSE row.id,
                     destination |-> new.destination, seal |-> new.seal]
  BY DEF Upserted
<1>4. row # None => row.id \in IDs
  BY DEF TypeOK, CredentialRow
<1> HIDE DEF new
<1>5. QED
  BY <1>1, <1>2, <1>3, <1>4 DEF CredentialRow

LEMMA StorePutPreserves ==
  ASSUME VaultInv, NEW p \in Commands, StorePut(p)
  PROVE  VaultInv'
<1>1. /\ command[p] # None /\ command[p].does = "put"
      /\ row' = Upserted(p) /\ Witnessed
      /\ command' = [command EXCEPT ![p] = None]
      /\ UNCHANGED <<bound, keys, ring, sent>>
  BY DEF StorePut
<1>2. TypeOK /\ Active' = Active
  BY <1>1 DEF VaultInv, Active
<1>3. command[p] \in Put
  BY <1>1, <1>2 DEF TypeOK, Issuing
<1>4. /\ row' \in CredentialRow /\ row'.destination = command[p].destination
      /\ row'.seal = [id |-> command[p].id, key |-> command[p].key,
                      destination |-> command[p].destination,
                      pat |-> [by |-> p, at |-> command[p].destination]]
  BY <1>1, <1>2, <1>3, UpsertedIsRow
<1>5. AccessOf(row') \in Access
  BY <1>4, AccessOfRow
<1>6. \A q \in Requests :
        /\ request[q] = None => request'[q] = None
        /\ request[q] # None =>
             /\ request'[q] \in Request /\ request'[q].access = request[q].access
             /\ request'[q].since = request[q].since \cup {AccessOf(row')}
  BY <1>1, <1>2, <1>5, WitnessedIsRequest DEF Witnessed, TypeOK
<1>7. request' \in [Requests -> Request \cup {None}]
  BY <1>1, <1>6 DEF Witnessed
<1>8. TypeOK'
  BY <1>1, <1>2, <1>4, <1>7, RecordsAreNotNone DEF TypeOK
<1>9. RowOK'
  BY <1>4 DEF RowOK, AccessOK, AccessOf
<1>10. RequestsOK'
  BY <1>6 DEF VaultInv, RequestsOK
<1>11. IssuesOK' /\ (Quiet \/ Settled)'
  BY <1>1, <1>2, <1>4, RecordsAreNotNone DEF VaultInv, IssuesOK, TypeOK, Quiet, Settled
<1>12. QED
  BY <1>1, <1>8, <1>9, <1>10, <1>11 DEF VaultInv, KeysOK, SentOK

-----------------------------------------------------------------------------
(* The requests preserve it. *)

\* Whatever leaves all but the requests and what was sent alone.
LEMMA RequestStepPreserves ==
  ASSUME VaultInv, UNCHANGED <<row, bound, keys, ring, command>>,
         request' \in [Requests -> Request \cup {None}], sent' \in SUBSET Access,
         RequestsOK', SentOK'
  PROVE  VaultInv'
<1>1. TypeOK /\ Active' = Active
  BY DEF VaultInv, Active
<1>2. TypeOK'
  BY <1>1 DEF TypeOK
<1>3. QED
  BY <1>2 DEF VaultInv, KeysOK, RowOK, AccessOf, IssuesOK, Quiet, Settled

LEMMA FirstReadPreserves ==
  ASSUME VaultInv, NEW q \in Requests, NEW b \in Brokers, FirstRead(q, b)
  PROVE  VaultInv'
<1> DEFINE new == [broker |-> b, id |-> row.id, access |-> AccessOf(row),
                   resolved |-> FALSE, since |-> {AccessOf(row)}]
<1>1. /\ row # None /\ request' = [request EXCEPT ![q] = new]
      /\ UNCHANGED <<row, bound, keys, ring, command, sent>>
  BY DEF FirstRead, Begin
<1>2. TypeOK /\ RowOK /\ RequestsOK /\ SentOK
  BY DEF VaultInv
<1>3. AccessOf(row) \in Access /\ row.id \in IDs
  BY <1>1, <1>2, AccessOfRow DEF TypeOK, CredentialRow
<1>4. /\ new \in Request
      /\ new.access = AccessOf(row) /\ new.since = {AccessOf(row)}
  BY <1>3 DEF Request
<1> HIDE DEF new
<1>5. request' \in [Requests -> Request \cup {None}] /\ sent' \in SUBSET Access
  BY <1>1, <1>2, <1>4 DEF TypeOK
<1>6. AccessOK(AccessOf(row))
  BY <1>1, <1>2 DEF RowOK
<1>7. RequestsOK'
  BY <1>1, <1>2, <1>4, <1>6 DEF RequestsOK, TypeOK
<1>8. SentOK'
  BY <1>1, <1>2 DEF SentOK
<1>9. QED
  BY <1>1, <1>5, <1>7, <1>8, RequestStepPreserves

LEMMA SecondReadPreserves ==
  ASSUME VaultInv, NEW q \in Requests, SecondRead(q)
  PROVE  VaultInv'
<1> DEFINE new == [broker |-> request[q].broker, id |-> request[q].id,
                   access |-> request[q].access, resolved |-> TRUE,
                   since |-> request[q].since]
<1>1. /\ request[q] # None /\ request' = [request EXCEPT ![q] = new]
      /\ UNCHANGED <<row, bound, keys, ring, command, sent>>
  BY DEF SecondRead, Resolved
<1>2. TypeOK /\ RequestsOK /\ SentOK
  BY DEF VaultInv
<1>3. request[q] \in Request
  BY <1>1, <1>2 DEF TypeOK
<1>4. /\ new \in Request /\ new.access = request[q].access
      /\ new.since = request[q].since
  BY <1>3 DEF Request
<1> HIDE DEF new
<1>5. request' \in [Requests -> Request \cup {None}] /\ sent' \in SUBSET Access
  BY <1>1, <1>2, <1>4 DEF TypeOK
<1>6. RequestsOK'
  BY <1>1, <1>2, <1>4 DEF RequestsOK, TypeOK
<1>7. SentOK'
  BY <1>1, <1>2 DEF SentOK
<1>8. QED
  BY <1>1, <1>5, <1>6, <1>7, RequestStepPreserves

LEMMA ForwardPreserves ==
  ASSUME VaultInv, NEW q \in Requests, Forward(q)
  PROVE  VaultInv'
<1>1. /\ request[q] # None /\ sent' = sent \cup {request[q].access}
      /\ UNCHANGED <<row, bound, keys, ring, command, request>>
  BY DEF Forward
<1>2. TypeOK /\ RequestsOK /\ SentOK
  BY DEF VaultInv
<1>3. request[q].access \in Access
  BY <1>1, <1>2 DEF TypeOK, Request
<1>4. request' \in [Requests -> Request \cup {None}] /\ sent' \in SUBSET Access
  BY <1>1, <1>2, <1>3 DEF TypeOK
<1>5. AccessOK(request[q].access)
  BY <1>1, <1>2 DEF RequestsOK
<1>6. SentOK'
  BY <1>1, <1>2, <1>5 DEF SentOK
<1>7. RequestsOK'
  BY <1>1, <1>2 DEF RequestsOK
<1>8. QED
  BY <1>1, <1>4, <1>6, <1>7, RequestStepPreserves

LEMMA EndPreserves ==
  ASSUME VaultInv, NEW q \in Requests, End(q)
  PROVE  VaultInv'
<1>1. /\ request' = [request EXCEPT ![q] = None]
      /\ UNCHANGED <<row, bound, keys, ring, command, sent>>
  BY DEF End
<1>2. TypeOK /\ RequestsOK /\ SentOK
  BY DEF VaultInv
<1>3. request' \in [Requests -> Request \cup {None}] /\ sent' \in SUBSET Access
  BY <1>1, <1>2 DEF TypeOK
<1>4. RequestsOK' /\ SentOK'
  BY <1>1, <1>2 DEF RequestsOK, SentOK, TypeOK
<1>5. QED
  BY <1>1, <1>3, <1>4, RequestStepPreserves

-----------------------------------------------------------------------------
(* The rotation preserves it. *)

\* A keyring that changes while no command runs.
LEMMA KeyringStepPreserves ==
  ASSUME VaultInv, Quiet, UNCHANGED <<row, bound, command, request, sent, ring>>,
         keys' \in (SUBSET Keys) \ {{}}, KeysOK'
  PROVE  VaultInv'
<1>1. TypeOK /\ Quiet'
  BY DEF VaultInv, Quiet
<1>2. TypeOK'
  BY <1>1, RecordsAreNotNone DEF TypeOK, Quiet
<1>3. QED
  BY <1>1, <1>2 DEF VaultInv, RowOK, AccessOf, RequestsOK, SentOK, IssuesOK

LEMMA AddKeyPreserves ==
  ASSUME VaultInv, AddKey
  PROVE  VaultInv'
<1>1. /\ Quiet /\ Active < MaxKey /\ keys' = keys \cup {Active + 1}
      /\ UNCHANGED <<row, bound, ring, command, request, sent>>
  BY DEF AddKey, requestVars
<1>2. TypeOK /\ KeysOK
  BY DEF VaultInv
<1>3. Active \in keys /\ \A other \in keys : other <= Active
  BY <1>2, ActiveIsNewest
<1>4. keys \subseteq 1 .. MaxKey /\ Active \in 1 .. MaxKey /\ MaxKey \in Nat
  BY <1>2, <1>3, KeysAssumption DEF TypeOK, Keys
<1>5. keys' \in (SUBSET Keys) \ {{}}
  BY <1>1, <1>4 DEF Keys
<1>6. \A other \in keys' : other <= Active + 1
  BY <1>1, <1>3, <1>4
<1>7. KeysOK'
  BY <1>1, <1>6 DEF KeysOK
<1>8. QED
  BY <1>1, <1>5, <1>7, KeyringStepPreserves

LEMMA RemoveKeyPreserves ==
  ASSUME VaultInv, NEW k \in Keys, RemoveKey(k)
  PROVE  VaultInv'
<1>1. /\ Quiet /\ k # Active /\ keys' = keys \ {k}
      /\ UNCHANGED <<row, bound, ring, command, request, sent>>
  BY DEF RemoveKey, requestVars
<1>2. TypeOK /\ KeysOK
  BY DEF VaultInv
<1>3. Active \in keys' /\ \A other \in keys' : other <= Active
  BY <1>1, <1>2, ActiveIsNewest
<1>4. keys' \in (SUBSET Keys) \ {{}} /\ KeysOK'
  BY <1>1, <1>2, <1>3 DEF TypeOK, KeysOK
<1>5. QED
  BY <1>1, <1>4, KeyringStepPreserves

LEMMA RestartPreserves ==
  ASSUME VaultInv, NEW b \in Brokers, Restart(b)
  PROVE  VaultInv'
<1>1. /\ ring[b] # keys /\ ring' = [ring EXCEPT ![b] = keys]
      /\ request' = [q \in Requests |->
           IF request[q] # None /\ request[q].broker = b THEN None ELSE request[q]]
      /\ UNCHANGED <<row, bound, keys, command, sent>>
  BY DEF Restart
<1>2. TypeOK /\ RequestsOK /\ Active' = Active
  BY <1>1 DEF VaultInv, Active
<1>3. Quiet
  BY <1>1 DEF VaultInv, Settled
<1>4. TypeOK'
  <2>1. request' \in [Requests -> Request \cup {None}]
    BY <1>1, <1>2 DEF TypeOK
  <2>2. ring' \in [Brokers -> (SUBSET Keys) \ {{}}]
    BY <1>1, <1>2 DEF TypeOK
  <2>3. QED
    BY <1>1, <1>2, <2>1, <2>2 DEF TypeOK
<1>5. RequestsOK'
  BY <1>1, <1>2 DEF RequestsOK
<1>6. QED
  BY <1>1, <1>3, <1>4, <1>5
    DEF VaultInv, KeysOK, RowOK, AccessOf, SentOK, IssuesOK, Quiet

LEMMA VaultStays ==
  ASSUME VaultInv, [Next]_vars
  PROVE  VaultInv'
<1>1. ASSUME NEW p \in Commands, NEW d \in Destinations, BeginPut(p, d)
      PROVE  VaultInv'
  BY <1>1, BeginPutPreserves
<1>2. ASSUME NEW p \in Commands,
             StorePut(p) \/ BeginIssue(p) \/ StoreIssue(p) \/ Interrupt(p)
      PROVE  VaultInv'
  BY <1>2, StorePutPreserves, BeginIssuePreserves, StoreIssuePreserves, InterruptPreserves
<1>3. ASSUME NEW q \in Requests, NEW b \in Brokers, FirstRead(q, b)
      PROVE  VaultInv'
  BY <1>3, FirstReadPreserves
<1>4. ASSUME NEW q \in Requests, SecondRead(q) \/ Forward(q) \/ End(q)
      PROVE  VaultInv'
  BY <1>4, SecondReadPreserves, ForwardPreserves, EndPreserves
<1>5. CASE AddKey
  BY <1>5, AddKeyPreserves
<1>6. ASSUME NEW b \in Brokers, Restart(b)
      PROVE  VaultInv'
  BY <1>6, RestartPreserves
<1>7. ASSUME NEW k \in Keys, RemoveKey(k)
      PROVE  VaultInv'
  BY <1>7, RemoveKeyPreserves
<1>8. CASE UNCHANGED vars
  <2>1. UNCHANGED <<row, bound, keys, ring, command, request, sent>>
    BY <1>8 DEF vars, requestVars
  <2>2. TypeOK /\ Active' = Active
    BY <2>1 DEF VaultInv, Active
  <2>3. TypeOK'
    BY <2>1, <2>2 DEF TypeOK
  <2>4. QED
    BY <2>1, <2>3
      DEF VaultInv, KeysOK, RowOK, AccessOf, RequestsOK, SentOK, IssuesOK, Quiet, Settled
<1>9. QED
  BY <1>1, <1>2, <1>3, <1>4, <1>5, <1>6, <1>7, <1>8 DEF Next

\* Whether or not the credential was there at the start.
THEOREM VaultInvariant == Spec => []VaultInv
<1>1. VaultInv /\ [Next]_vars => VaultInv'
  BY VaultStays
<1>2. QED
  BY VaultStarts, <1>1, PTL DEF Spec

\* The credential's row, the keyrings, the commands and the requests are what they
\* should be, and a put under way uses the active key.
THEOREM VaultIsTyped == Spec => []TypeOK
<1>1. VaultInv => TypeOK
  BY DEF VaultInv
<1>2. QED
  BY VaultInvariant, <1>1, PTL

\* A PAT goes to the destination it was put for, and a request uses what was in the
\* row at some moment since it began.
THEOREM PATsStayWithTheirDestination == Spec => []PATsReachTheirDestination
<1>1. VaultInv => PATsReachTheirDestination
  BY DEF VaultInv, RequestsOK, SentOK, AccessOK, PATsReachTheirDestination
<1>2. QED
  BY VaultInvariant, <1>1, PTL

-----------------------------------------------------------------------------
(***************************************************************************)
(* A credential that was there at the start keeps its ID, and every broker *)
(* can open it.  Where it was not, two first puts may each make up an ID,  *)
(* and this does not hold: StandingInv starts with FirstID.                *)
(***************************************************************************)

LEMMA StandingStarts ==
  ASSUME FirstID # None, Init
  PROVE  StandingInv
<1>1. PICK d \in Destinations : row = Sealed(FirstID, FirstID, d, 1)
  BY DEF Init
<1>2. FirstID \in IDs /\ 1 \in Keys
  BY KeysAssumption DEF IDs, Keys
<1>3. /\ row \in CredentialRow /\ row.id = FirstID
      /\ row.seal = [id |-> FirstID, key |-> 1, destination |-> d,
                     pat |-> [by |-> FirstID, at |-> d]]
  BY <1>1, <1>2, SealedIsRow
<1>4. row # None /\ row.seal.id = FirstID /\ row.seal.key = 1
  BY <1>3, RecordsAreNotNone
<1>5. /\ bound = {} /\ keys = {1} /\ ring = [b \in Brokers |-> {1}]
      /\ command = [p \in Commands |-> None]
  BY DEF Init
<1>6. QED
  BY <1>3, <1>4, <1>5 DEF StandingInv

\* A command that starts carries the ID it found.
LEMMA BeginPutStanding ==
  ASSUME VaultInv, StandingInv, NEW p \in Commands, NEW d \in Destinations, BeginPut(p, d)
  PROVE  StandingInv'
<1> DEFINE new == [does |-> "put", id |-> IF row = None THEN p ELSE row.id,
                   destination |-> d, key |-> Active]
<1>1. /\ command' = [command EXCEPT ![p] = new]
      /\ UNCHANGED <<row, bound, keys, ring>>
  BY DEF BeginPut
<1>2. new.id = FirstID
  BY DEF StandingInv
<1> HIDE DEF new
<1>3. \A r \in Commands : command'[r] # None => command'[r].id = FirstID
  BY <1>1, <1>2 DEF StandingInv, VaultInv, TypeOK
<1>4. QED
  BY <1>1, <1>3 DEF StandingInv

LEMMA BeginIssueStanding ==
  ASSUME VaultInv, StandingInv, NEW p \in Commands, BeginIssue(p)
  PROVE  StandingInv'
<1> DEFINE new == [does |-> "issue", id |-> row.id]
<1>1. /\ command' = [command EXCEPT ![p] = new]
      /\ UNCHANGED <<row, bound, keys, ring>>
  BY DEF BeginIssue
<1>2. new.id = FirstID
  BY DEF StandingInv
<1> HIDE DEF new
<1>3. \A r \in Commands : command'[r] # None => command'[r].id = FirstID
  BY <1>1, <1>2 DEF StandingInv, VaultInv, TypeOK
<1>4. QED
  BY <1>1, <1>3 DEF StandingInv

\* The upsert finds the row: it keeps the ID that the PAT was sealed for.  A put is
\* under way only while every ring is the configured one, so all have its key.
LEMMA StorePutStanding ==
  ASSUME VaultInv, StandingInv, NEW p \in Commands, StorePut(p)
  PROVE  StandingInv'
<1>1. /\ command[p] # None /\ command[p].does = "put" /\ row' = Upserted(p)
      /\ command' = [command EXCEPT ![p] = None]
      /\ UNCHANGED <<bound, keys, ring>>
  BY DEF StorePut
<1>2. TypeOK /\ KeysOK /\ Settled
  BY <1>1 DEF VaultInv, Quiet
<1>3. command[p] \in Put
  BY <1>1, <1>2 DEF TypeOK, Issuing
<1>4. /\ row' \in CredentialRow /\ row'.id = row.id
      /\ row'.seal = [id |-> command[p].id, key |-> command[p].key,
                      destination |-> command[p].destination,
                      pat |-> [by |-> p, at |-> command[p].destination]]
  BY <1>1, <1>2, <1>3, UpsertedIsRow DEF StandingInv
<1>5. row' # None /\ row'.id = FirstID /\ row'.seal.id = FirstID
  BY <1>1, <1>4, RecordsAreNotNone DEF StandingInv
<1>6. row'.seal.key \in keys
  BY <1>2, <1>3, <1>4, ActiveIsNewest DEF TypeOK
<1>7. row'.seal.key \in keys' /\ \A b \in Brokers : row'.seal.key \in ring'[b]
  BY <1>1, <1>2, <1>6 DEF Settled
<1>8. \A r \in Commands : command'[r] # None => command'[r].id = FirstID
  BY <1>1, <1>2 DEF StandingInv, TypeOK
<1>9. QED
  BY <1>1, <1>5, <1>7, <1>8 DEF StandingInv

LEMMA StoreIssueStanding ==
  ASSUME VaultInv, StandingInv, NEW p \in Commands, StoreIssue(p) \/ Interrupt(p)
  PROVE  StandingInv'
<1>1. /\ command[p] # None /\ bound' \in {bound, bound \cup {command[p].id}}
      /\ command' = [command EXCEPT ![p] = None]
      /\ UNCHANGED <<row, keys, ring>>
  BY DEF StoreIssue, Interrupt
<1>2. bound' \subseteq {FirstID}
  BY <1>1 DEF StandingInv
<1>3. \A r \in Commands : command'[r] # None => command'[r].id = FirstID
  BY <1>1 DEF StandingInv, VaultInv, TypeOK
<1>4. QED
  BY <1>1, <1>2, <1>3 DEF StandingInv

\* A key is removed when every ring is the configured one and the row names another.
LEMMA RotationStanding ==
  ASSUME VaultInv, StandingInv,
         AddKey \/ (\E b \in Brokers : Restart(b)) \/ (\E k \in Keys : RemoveKey(k))
  PROVE  StandingInv'
<1>1. UNCHANGED <<row, bound, command>> /\ row.seal.key \in keys'
  BY DEF AddKey, Restart, RemoveKey, StandingInv
<1>2. \A b \in Brokers : ring'[b] \in {ring[b], keys}
  BY DEF AddKey, Restart, RemoveKey, VaultInv, TypeOK
<1>3. \A b \in Brokers : row.seal.key \in ring'[b]
  BY <1>2 DEF StandingInv
<1>4. QED
  BY <1>1, <1>3 DEF StandingInv

LEMMA StandingStays ==
  ASSUME VaultInv, StandingInv, [Next]_vars
  PROVE  StandingInv'
<1>1. ASSUME NEW p \in Commands, NEW d \in Destinations, BeginPut(p, d)
      PROVE  StandingInv'
  BY <1>1, BeginPutStanding
<1>2. ASSUME NEW p \in Commands,
             StorePut(p) \/ BeginIssue(p) \/ StoreIssue(p) \/ Interrupt(p)
      PROVE  StandingInv'
  BY <1>2, StorePutStanding, BeginIssueStanding, StoreIssueStanding
<1>3. ASSUME UNCHANGED <<row, bound, keys, ring, command>>
      PROVE  StandingInv'
  BY <1>3 DEF StandingInv
<1>4. ASSUME NEW q \in Requests,
             (\E b \in Brokers : FirstRead(q, b)) \/ SecondRead(q) \/ Forward(q) \/ End(q)
      PROVE  StandingInv'
  BY <1>3, <1>4 DEF FirstRead, Begin, SecondRead, Resolved, Forward, End
<1>5. CASE AddKey \/ (\E b \in Brokers : Restart(b)) \/ (\E k \in Keys : RemoveKey(k))
  BY <1>5, RotationStanding
<1>6. CASE UNCHANGED vars
  BY <1>3, <1>6 DEF vars
<1>7. QED
  BY <1>1, <1>2, <1>4, <1>5, <1>6 DEF Next

\* A credential that was there at the start is served by every running broker through
\* every rotation of the key and every pair of concurrent puts, and the issued
\* capabilities stay bound to it.
THEOREM StandingCredentialIsServed ==
  ASSUME FirstID # None
  PROVE  Spec => []Served
<1>1. Init => StandingInv
  BY StandingStarts
<1>2. VaultInv /\ StandingInv /\ [Next]_vars => StandingInv'
  BY StandingStays
<1>3. VaultInv /\ StandingInv => Served
  BY DEF VaultInv, RowOK, StandingInv, Served, Opens
<1>4. QED
  BY <1>1, <1>2, <1>3, VaultInvariant, PTL DEF Spec
=============================================================================
