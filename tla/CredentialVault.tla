---------------------------- MODULE CredentialVault ----------------------------
(***************************************************************************)
(* One named Upstream Credential: the row of pgh_credentials, the offline  *)
(* commands that put it and issue capabilities for it, the brokers that    *)
(* open it, and the requests that carry its PAT to GitHub, while the       *)
(* operator replaces the PAT and rotates the encryption key.               *)
(*                                                                         *)
(* The PAT is sealed with AES-256-GCM under a named key.  The associated   *)
(* data names the key, the credential's ID and its destination (host, API  *)
(* base URL, API version, resolution mode): the seal opens only when the   *)
(* row carries the same three and the reader has the key.  A seal is the   *)
(* record of what it was made with.                                        *)
(*                                                                         *)
(* The operator follows docs/pgh/configuration.md: the new key is added    *)
(* and made active, every broker is restarted, the credential is put       *)
(* again, and the old key goes when the row no longer names it.  Keys are  *)
(* numbered in the order they become active.  A command reads its          *)
(* environment once, when it starts.                                       *)
(*                                                                         *)
(* A request opens the credential at its first read of the capability and  *)
(* uses what it found, whatever is put before it is answered; the second   *)
(* read only compares IDs (the policy and its state are BrokerRequests').  *)
(***************************************************************************)
EXTENDS Naturals

CONSTANTS
  Commands,      \* runs of the offline command line
  Brokers,       \* replicas
  Requests,      \* requests with a token of some capability of the credential
  Destinations,  \* what a put may set
  MaxKey,        \* the last key of the rotation
  FirstID,       \* the ID of a credential that is there at the start, or None
  None

ASSUME FirstIDAssumption == FirstID \notin Commands
ASSUME KeysAssumption == MaxKey \in Nat \ {0} /\ Destinations # {}

VARIABLES
  row,        \* the row of the credential, or None
  bound,      \* the credential IDs that issued capabilities refer to
  keys,       \* the configured keyring; its newest key is the active one
  ring,       \* the keyring each broker started with
  command,    \* what each command is doing, or None
  request,    \* what each request works with, or None
  sent        \* history: the PATs GitHub received, each with the destination it
              \*   was sent to

requestVars == <<request, sent>>
vars == <<row, bound, keys, ring, command, requestVars>>

Keys == 1 .. MaxKey

\* The ID a put makes up is its own: twelve random bytes.
IDs == Commands \cup ({FirstID} \ {None})

\* A PAT is named for the put that brought it, and for its destination.
PATs == [by : IDs, at : Destinations]

Seal == [id : IDs, key : Keys, destination : Destinations, pat : PATs]
CredentialRow == [id : IDs, destination : Destinations, seal : Seal]
Put == [does : {"put"}, id : IDs, destination : Destinations, key : Keys]
Issuing == [does : {"issue"}, id : IDs]

\* UpstreamAccess, and with it the credential's ID and what a put has made of the
\* credential since the request began (history).
Access == [pat : PATs, destination : Destinations]
Request == [broker : Brokers, id : IDs, access : Access, resolved : BOOLEAN,
            since : SUBSET Access]

ASSUME NobodyAssumption == None \notin UNION {Commands, CredentialRow, Put, Issuing, Request}

Active == CHOOSE k \in keys : \A other \in keys : other <= k

\* Capabilities need a credential, and a put under way uses the active key: what
\* the operator verifies before removing a key, no put can undo.
TypeOK ==
  /\ row \in CredentialRow \cup {None}
  /\ bound \in SUBSET IDs
  /\ keys \in (SUBSET Keys) \ {{}}
  /\ ring \in [Brokers -> (SUBSET Keys) \ {{}}]
  /\ command \in [Commands -> Put \cup Issuing \cup {None}]
  /\ request \in [Requests -> Request \cup {None}]
  /\ sent \in SUBSET Access
  /\ row = None => bound = {}
  /\ \A p \in Commands : command[p] \in Put => command[p].key = Active

Sealed(by, id, destination, key) ==
  [id |-> id, destination |-> destination,
   seal |-> [id |-> id, key |-> key, destination |-> destination,
             pat |-> [by |-> by, at |-> destination]]]

\* DecryptCredential: the reader has the key, and the associated data agree.
Opens(r, available) ==
  /\ r # None
  /\ r.seal.key \in available
  /\ r.seal.id = r.id
  /\ r.seal.destination = r.destination

\* What a request gets from the row.
AccessOf(r) == [pat |-> r.seal.pat, destination |-> r.destination]

Init ==
  /\ row \in IF FirstID = None THEN {None}
             ELSE {Sealed(FirstID, FirstID, d, 1) : d \in Destinations}
  /\ bound = {}
  /\ keys = {1}
  /\ ring = [b \in Brokers |-> {1}]
  /\ command = [p \in Commands |-> None]
  /\ request = [q \in Requests |-> None]
  /\ sent = {}

-----------------------------------------------------------------------------
\* The operator runs commands when every broker has the configured keyring.
Settled == \A b \in Brokers : ring[b] = keys
Quiet == \A p \in Commands : command[p] = None

\* Mutant of BeginPut: every put makes up an ID.
BeginPutAnew(p, d) ==
  /\ command[p] = None
  /\ Settled
  /\ command' = [command EXCEPT ![p] =
       [does |-> "put", id |-> p, destination |-> d, key |-> Active]]
  /\ UNCHANGED <<row, bound, keys, ring, requestVars>>

\* Mutant of BeginPut: any key of the environment will do.
BeginPutAnyKey(p, d) ==
  /\ command[p] = None
  /\ Settled
  /\ \E k \in keys :
       command' = [command EXCEPT ![p] =
         [does |-> "put", id |-> IF row = None THEN p ELSE row.id,
          destination |-> d, key |-> k]]
  /\ UNCHANGED <<row, bound, keys, ring, requestVars>>

\* AdminService.PutCredential: the ID found under the name, or else a new one, is
\* the one the PAT is sealed for.
BeginPut(p, d) ==
  /\ command[p] = None
  /\ Settled
  /\ command' = [command EXCEPT ![p] =
       [does |-> "put", id |-> IF row = None THEN p ELSE row.id,
        destination |-> d, key |-> Active]]
  /\ UNCHANGED <<row, bound, keys, ring, requestVars>>

\* INSERT ... ON CONFLICT (name) DO UPDATE: everything is replaced but the ID.
Upserted(p) ==
  LET new == Sealed(p, command[p].id, command[p].destination, command[p].key)
  IN  [id |-> IF row = None THEN new.id ELSE row.id,
       destination |-> new.destination, seal |-> new.seal]

\* The requests on their way see the credential change (history).
Witnessed ==
  request' = [q \in Requests |->
    IF request[q] = None THEN None
    ELSE [request[q] EXCEPT !.since = @ \cup {AccessOf(row')}]]

\* Mutant of StorePut: the row is deleted and inserted again.
StorePutInserting(p) ==
  /\ command[p] # None /\ command[p].does = "put"
  /\ row' = Sealed(p, p, command[p].destination, command[p].key)
  /\ Witnessed
  /\ command' = [command EXCEPT ![p] = None]
  /\ UNCHANGED <<bound, keys, ring, sent>>

StorePut(p) ==
  /\ command[p] # None /\ command[p].does = "put"
  /\ row' = Upserted(p)
  /\ Witnessed
  /\ command' = [command EXCEPT ![p] = None]
  /\ UNCHANGED <<bound, keys, ring, sent>>

\* CapabilityIssuer.Issue: the credential must be there and open.
BeginIssue(p) ==
  /\ command[p] = None
  /\ Settled
  /\ Opens(row, keys)
  /\ command' = [command EXCEPT ![p] = [does |-> "issue", id |-> row.id]]
  /\ UNCHANGED <<row, bound, keys, ring, requestVars>>

\* The insert of the capability refers to the row: a foreign key.
StoreIssue(p) ==
  /\ command[p] # None /\ command[p].does = "issue"
  /\ command[p].id = row.id
  /\ bound' = bound \cup {command[p].id}
  /\ command' = [command EXCEPT ![p] = None]
  /\ UNCHANGED <<row, keys, ring, requestVars>>

\* Any command may fail, or be interrupted, before it stores anything.
Interrupt(p) ==
  /\ command[p] # None
  /\ command' = [command EXCEPT ![p] = None]
  /\ UNCHANGED <<row, bound, keys, ring, requestVars>>

-----------------------------------------------------------------------------
(* Requests: Resolve, and forwarding with the access of the Session. *)

Begin(q, b, access) ==
  /\ request[q] = None
  /\ row # None /\ row.id \in bound
  /\ Opens(row, ring[b])
  /\ request' = [request EXCEPT ![q] =
       [broker |-> b, id |-> row.id, access |-> access, resolved |-> FALSE,
        since |-> {AccessOf(row)}]]
  /\ UNCHANGED <<row, bound, keys, ring, command, sent>>

\* Mutant of FirstRead: an access that served a request before is used again.
FirstReadKept(q, b) == \E access \in sent \cup {AccessOf(row)} : Begin(q, b, access)

\* The capability is joined with its credential; what cannot be opened is refused.
FirstRead(q, b) == row # None /\ Begin(q, b, AccessOf(row))

Resolved(q, access) ==
  /\ request[q] # None /\ ~ request[q].resolved
  /\ row.id = request[q].id
  /\ request' = [request EXCEPT ![q] =
       [broker |-> request[q].broker, id |-> request[q].id, access |-> access,
        resolved |-> TRUE, since |-> request[q].since]]
  /\ UNCHANGED <<row, bound, keys, ring, command, sent>>

\* Mutant of SecondRead: the destination comes from the second read, the PAT from
\* the first.
SecondReadDestination(q) ==
  request[q] # None
    /\ Resolved(q, [request[q].access EXCEPT !.destination = row.destination])

SecondRead(q) == request[q] # None /\ Resolved(q, request[q].access)

Forward(q) ==
  /\ request[q] # None /\ request[q].resolved
  /\ sent' = sent \cup {request[q].access}
  /\ UNCHANGED <<row, bound, keys, ring, command, request>>

\* Answered, refused, or given up.
End(q) ==
  /\ request[q] # None
  /\ request' = [request EXCEPT ![q] = None]
  /\ UNCHANGED <<row, bound, keys, ring, command, sent>>

-----------------------------------------------------------------------------
(* The rotation, as the documentation has the operator do it. *)

AddKey ==
  /\ Settled /\ Quiet
  /\ Active < MaxKey
  /\ keys' = keys \cup {Active + 1}
  /\ UNCHANGED <<row, bound, ring, command, requestVars>>

Restart(b) ==
  /\ ring[b] # keys
  /\ ring' = [ring EXCEPT ![b] = keys]
  /\ request' = [q \in Requests |->
       IF request[q] # None /\ request[q].broker = b THEN None ELSE request[q]]
  /\ UNCHANGED <<row, bound, keys, command, sent>>

RemoveKey(k) ==
  /\ Settled /\ Quiet
  /\ k \in keys /\ k # Active
  /\ row # None => row.seal.key # k
  /\ keys' = keys \ {k}
  /\ UNCHANGED <<row, bound, ring, command, requestVars>>

Next ==
  \/ \E p \in Commands :
       \/ \E d \in Destinations : BeginPut(p, d)
       \/ StorePut(p) \/ BeginIssue(p) \/ StoreIssue(p) \/ Interrupt(p)
  \/ \E q \in Requests :
       \/ \E b \in Brokers : FirstRead(q, b)
       \/ SecondRead(q) \/ Forward(q) \/ End(q)
  \/ AddKey
  \/ \E b \in Brokers : Restart(b)
  \/ \E k \in Keys : RemoveKey(k)

Spec == Init /\ [][Next]_vars

-----------------------------------------------------------------------------
\* Every running broker can open the credential, and it is still the one the issued
\* capabilities are bound to, whichever of two concurrent puts stored last and however
\* far the rotation of the key has come.
Served ==
  /\ \A b \in Brokers : Opens(row, ring[b])
  /\ bound \subseteq (IF row = None THEN {} ELSE {row.id})

\* A PAT goes to the destination it was put for and to no other, also when a put
\* changes both between the two reads of a request; and what a request uses was in the
\* row at some moment since it began ("new requests for every linked capability use
\* the replacement token").
PATsReachTheirDestination ==
  /\ \A access \in sent : access.pat.at = access.destination
  /\ \A q \in Requests : request[q] # None => request[q].access \in request[q].since

\* "The upsert encrypts the replacement PAT with the active key without
\* invalidating issued capabilities that reference the credential name."
PutKeepsCapabilities ==
  [][bound # {} /\ Served /\ (\E p \in Commands : StorePut(p)) => Served']_vars
=============================================================================
