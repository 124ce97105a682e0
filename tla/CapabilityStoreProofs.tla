------------------------ MODULE CapabilityStoreProofs ------------------------
(***************************************************************************)
(* The transactions of PostgreSQL implement the register: every step of    *)
(* CapabilityStore is a step of CapabilityRegister or leaves it alone, so  *)
(* what is proved of the register holds of the tables.  StoreInv is the    *)
(* inductive invariant: without LockDiscipline a Commit could write over a *)
(* row that changed after it was read, and would not be a Replace.         *)
(***************************************************************************)
EXTENDS CapabilityStore, CapabilityRegisterProofs

Holds(a, c) == pc[a] \in {"locked", "staged"} /\ request[a].cap = c

\* A row is locked by the one process that is between its SELECT ... FOR UPDATE
\* and the end of its transaction, and nobody has changed the row since.
LockDiscipline ==
  /\ \A a \in Admins : pc[a] # "idle" =>
        request[a] \in Request /\ ValidatePolicy(request[a].policy)
  /\ \A a \in Admins, c \in Capabilities : Holds(a, c) <=> lock[c] = a
  /\ \A a \in Admins, c \in Capabilities : Holds(a, c) =>
        Issued(c) /\ current[a] = row[c]
  /\ \A a \in Admins : pc[a] = "staged" =>
        /\ Replaceable(current[a], request[a].policy, effectiveAt[a])
        /\ effectiveAt[a] \in current[a].updatedAt .. now

StoreInv == RegisterInv /\ TypeOK /\ LockDiscipline

LEMMA InitStoreInv == Init => StoreInv
<1> SUFFICES ASSUME Init PROVE StoreInv
  OBVIOUS
<1>1. RegisterInv /\ RegisterTypeOK
  BY InitRegisterInv DEF Init, RegisterInv
<1>2. \A a \in Admins : pc[a] = "idle"
  BY DEF Init
<1>3. TypeOK
  BY <1>1, BoundsAssumption DEF Init, TypeOK, Time
<1>4. \A c \in Capabilities : lock[c] = Free
  BY DEF Init
<1>5. LockDiscipline
  BY <1>2, <1>4, FreeAssumption DEF LockDiscipline, Holds
<1>6. QED
  BY <1>1, <1>3, <1>5 DEF StoreInv

\* What a process that is staged and commits does to the register.
LEMMA CommitIsReplace ==
  ASSUME StoreInv, NEW a \in Admins, Commit(a)
  PROVE  /\ request[a].cap \in Capabilities
         /\ request[a].policy \in Policies
         /\ effectiveAt[a] \in Time
         /\ Replace(request[a].cap, request[a].policy, effectiveAt[a])
<1> DEFINE c == request[a].cap
           policy == request[a].policy
<1>1. pc[a] = "staged"
  BY DEF Commit
<1>2. c \in Capabilities /\ policy \in Policies /\ ValidatePolicy(policy)
  BY <1>1 DEF StoreInv, LockDiscipline, Request
<1>3. Issued(c) /\ current[a] = row[c]
  BY <1>1, <1>2 DEF StoreInv, LockDiscipline, Holds
<1>4. Replaceable(row[c], policy, effectiveAt[a]) /\ effectiveAt[a] \in row[c].updatedAt .. now
  BY <1>1, <1>3 DEF StoreInv, LockDiscipline
<1>5. row' = [row EXCEPT ![c] = Replaced(row[c], policy, effectiveAt[a])]
  BY <1>2, <1>3 DEF Commit, Replaced, StoreInv, TypeOK, RegisterTypeOK
<1>6. /\ events' = [events EXCEPT ![c] = Append(@, EventOf(row[c], policy, effectiveAt[a]))]
      /\ now' = now
  BY <1>3 DEF Commit
<1>7. QED
  BY <1>2, <1>3, <1>4, <1>5, <1>6 DEF Replace, StoreInv, TypeOK

\* Every step of the store is a step of the register, or a stutter.
LEMMA StoreStepIsRegisterStep ==
  ASSUME StoreInv, [Next]_vars
  PROVE  [RegisterNext]_registerVars
<1>1. CASE Advance
  BY <1>1 DEF Advance, RegisterNext
<1>2. ASSUME NEW c \in Capabilities, NEW policy \in Policies,
             NEW expiresAt \in Time \cup {Never}, IssueCapability(c, policy, expiresAt)
      PROVE  RegisterNext
  BY <1>2 DEF IssueCapability, RegisterNext, Administer
<1>3. ASSUME NEW c \in Capabilities, RevokeCapability(c)
      PROVE  RegisterNext
  BY <1>3 DEF RevokeCapability, RegisterNext, Administer
<1>4. ASSUME NEW a \in Admins, NEW c \in Capabilities, NEW policy \in Policies,
             BeginReplace(a, c, policy)
      PROVE  UNCHANGED registerVars
  BY <1>4 DEF BeginReplace
<1>5. ASSUME NEW a \in Admins, LockRow(a) \/ RowMissing(a) \/ Stage(a) \/ Reject(a) \/ Abort(a)
      PROVE  UNCHANGED registerVars
  BY <1>5 DEF LockRow, RowMissing, Stage, Reject, Abort
<1>6. ASSUME NEW a \in Admins, Commit(a)
      PROVE  RegisterNext
  BY <1>6, CommitIsReplace DEF RegisterNext, Administer
<1>7. CASE UNCHANGED vars
  BY <1>7 DEF vars, registerVars
<1>8. QED
  BY <1>1, <1>2, <1>3, <1>4, <1>5, <1>6, <1>7 DEF Next, ReplaceStep

-----------------------------------------------------------------------------
(* LockDiscipline, step by step. *)

\* A process that returns leaves the lock discipline of the others as it was.
LEMMA FinishKeepsLocks ==
  ASSUME StoreInv, NEW a \in Admins, Finish(a), RegisterTypeOK',
         now' = now, \A c \in Capabilities : ~ Holds(a, c) => row'[c] = row[c]
  PROVE  TypeOK' /\ LockDiscipline'
<1>1. /\ pc' = [pc EXCEPT ![a] = "idle"]
      /\ lock' = [c \in Capabilities |-> IF lock[c] = a THEN Free ELSE lock[c]]
      /\ request' = [request EXCEPT ![a] = None]
      /\ current' = [current EXCEPT ![a] = None]
      /\ effectiveAt' = [effectiveAt EXCEPT ![a] = 0]
  BY DEF Finish
<1>2. TypeOK'
  <2>1. 0 \in Time
    BY BoundsAssumption DEF Time
  <2>2. QED
    BY <1>1, <2>1 DEF StoreInv, TypeOK
<1>3. pc'[a] = "idle"
  BY <1>1 DEF StoreInv, TypeOK
<1>4. \A b \in Admins : b # a =>
        /\ pc'[b] = pc[b] /\ request'[b] = request[b]
        /\ current'[b] = current[b] /\ effectiveAt'[b] = effectiveAt[b]
  BY <1>1 DEF StoreInv, TypeOK
<1>5. ASSUME NEW b \in Admins, NEW c \in Capabilities
      PROVE  Holds(b, c)' <=> lock'[c] = b
  <2>1. Holds(b, c) <=> lock[c] = b
    BY DEF StoreInv, LockDiscipline
  <2>2. lock'[c] = IF lock[c] = a THEN Free ELSE lock[c]
    BY <1>1
  <2>3. CASE b = a
    BY <1>3, <2>2, <2>3, FreeAssumption DEF Holds
  <2>4. CASE b # a
    BY <1>4, <2>1, <2>2, <2>4, FreeAssumption DEF Holds
  <2>5. QED
    BY <2>3, <2>4
<1>6. ASSUME NEW b \in Admins, NEW c \in Capabilities, Holds(b, c)'
      PROVE  Issued(c)' /\ current'[b] = row'[c]
  <2>1. b # a /\ Holds(b, c)
    BY <1>3, <1>4, <1>6 DEF Holds
  <2>2. lock[c] = b /\ Issued(c) /\ current[b] = row[c]
    BY <2>1 DEF StoreInv, LockDiscipline
  <2>3. ~ Holds(a, c)
    BY <2>1, <2>2 DEF StoreInv, LockDiscipline
  <2>4. row'[c] = row[c]
    BY <2>3
  <2>5. QED
    BY <1>4, <2>1, <2>2, <2>4 DEF Issued
<1>7. ASSUME NEW b \in Admins
      PROVE  /\ pc'[b] # "idle" => request'[b] \in Request /\ ValidatePolicy(request'[b].policy)
             /\ pc'[b] = "staged" =>
                  /\ Replaceable(current'[b], request'[b].policy, effectiveAt'[b])
                  /\ effectiveAt'[b] \in current'[b].updatedAt .. now'
  BY <1>3, <1>4 DEF StoreInv, LockDiscipline
<1>8. LockDiscipline'
  BY <1>5, <1>6, <1>7 DEF LockDiscipline
<1>9. QED
  BY <1>2, <1>8

\* A step of the register at a capability nobody has locked.
LEMMA RegisterStepKeepsLocks ==
  ASSUME StoreInv, UNCHANGED txnVars, RegisterTypeOK', now' \in Time, now <= now',
         \A c \in Capabilities : (\E a \in Admins : lock[c] = a) => row'[c] = row[c]
  PROVE  TypeOK' /\ LockDiscipline'
<1>1. /\ lock' = lock /\ pc' = pc /\ request' = request /\ current' = current
      /\ effectiveAt' = effectiveAt
  BY DEF txnVars
<1>2. TypeOK'
  BY <1>1 DEF StoreInv, TypeOK
<1>3. ASSUME NEW a \in Admins, NEW c \in Capabilities
      PROVE  /\ Holds(a, c)' <=> lock'[c] = a
             /\ Holds(a, c)' => Issued(c)' /\ current'[a] = row'[c]
  BY <1>1 DEF StoreInv, LockDiscipline, Holds, Issued
<1>4. ASSUME NEW a \in Admins, pc'[a] = "staged"
      PROVE  /\ Replaceable(current'[a], request'[a].policy, effectiveAt'[a])
             /\ effectiveAt'[a] \in current'[a].updatedAt .. now'
  <2>1. /\ Replaceable(current[a], request[a].policy, effectiveAt[a])
        /\ effectiveAt[a] \in current[a].updatedAt .. now
    BY <1>1, <1>4 DEF StoreInv, LockDiscipline
  <2>2. now \in Int /\ now' \in Int /\ current[a].updatedAt \in Int
    <3>1. request[a].cap \in Capabilities /\ Holds(a, request[a].cap)
      BY <1>1, <1>4 DEF StoreInv, LockDiscipline, Holds, Request
    <3>2. current[a] = row[request[a].cap] /\ Issued(request[a].cap)
      BY <3>1 DEF StoreInv, LockDiscipline
    <3>3. current[a] \in CapabilityRow
      BY <3>1, <3>2 DEF StoreInv, TypeOK, RegisterTypeOK, Issued
    <3>4. QED
      BY <3>3, RowFields, BoundsAssumption DEF StoreInv, TypeOK, RegisterTypeOK, Time
  <2>3. QED
    BY <1>1, <2>1, <2>2
<1>5. \A a \in Admins : pc'[a] # "idle" =>
        request'[a] \in Request /\ ValidatePolicy(request'[a].policy)
  BY <1>1 DEF StoreInv, LockDiscipline
<1>6. LockDiscipline'
  BY <1>3, <1>4, <1>5 DEF LockDiscipline
<1>7. QED
  BY <1>2, <1>6

LEMMA BeginStoreInv ==
  ASSUME StoreInv, NEW a \in Admins, NEW c \in Capabilities, NEW policy \in Policies,
         BeginReplace(a, c, policy)
  PROVE  TypeOK' /\ LockDiscipline'
<1>1. /\ pc[a] = "idle" /\ ValidatePolicy(policy)
      /\ pc' = [pc EXCEPT ![a] = "begun"]
      /\ request' = [request EXCEPT ![a] = [cap |-> c, policy |-> policy]]
      /\ UNCHANGED <<now, row, events, lock, current, effectiveAt>>
  BY DEF BeginReplace, registerVars
<1>2. [cap |-> c, policy |-> policy] \in Request
  BY DEF Request
<1>3. TypeOK'
  BY <1>1, <1>2 DEF StoreInv, TypeOK, RegisterTypeOK
<1>4. /\ pc'[a] = "begun" /\ request'[a] = [cap |-> c, policy |-> policy]
      /\ \A b \in Admins : b # a => pc'[b] = pc[b] /\ request'[b] = request[b]
  BY <1>1 DEF StoreInv, TypeOK
<1>5. \A b \in Admins, d \in Capabilities : Holds(b, d)' <=> Holds(b, d)
  BY <1>1, <1>4 DEF Holds
<1>6. LockDiscipline'
  BY <1>1, <1>2, <1>4, <1>5 DEF StoreInv, LockDiscipline, Issued
<1>7. QED
  BY <1>3, <1>6

LEMMA LockRowStoreInv ==
  ASSUME StoreInv, NEW a \in Admins, LockRow(a)
  PROVE  TypeOK' /\ LockDiscipline'
<1> DEFINE c == request[a].cap
<1>1. /\ pc[a] = "begun" /\ Issued(c) /\ lock[c] = Free
      /\ lock' = [lock EXCEPT ![c] = a]
      /\ current' = [current EXCEPT ![a] = row[c]]
      /\ pc' = [pc EXCEPT ![a] = "locked"]
      /\ UNCHANGED <<now, row, events, request, effectiveAt>>
  BY DEF LockRow, registerVars
<1>2. c \in Capabilities /\ request[a] \in Request
  BY <1>1 DEF StoreInv, LockDiscipline, Request
<1>3. TypeOK'
  BY <1>1, <1>2 DEF StoreInv, TypeOK, RegisterTypeOK
<1> HIDE DEF c
<1>4. /\ lock'[c] = a /\ \A d \in Capabilities : d # c => lock'[d] = lock[d]
      /\ pc'[a] = "locked" /\ current'[a] = row[c]
      /\ \A b \in Admins : b # a => pc'[b] = pc[b] /\ current'[b] = current[b]
  BY <1>1, <1>2 DEF StoreInv, TypeOK
<1>5. \A b \in Admins : ~ Holds(b, c)
  BY <1>1, <1>2, FreeAssumption DEF StoreInv, LockDiscipline
<1>6. ASSUME NEW b \in Admins, NEW d \in Capabilities
      PROVE  /\ Holds(b, d)' <=> lock'[d] = b
             /\ Holds(b, d)' => Issued(d)' /\ current'[b] = row'[d]
  <2>1. CASE b = a
    <3>1. Holds(a, d)' <=> d = c
      BY <1>1, <1>4 DEF Holds, c
    <3>2. d # c => lock[d] # a
      <4>1. ~ Holds(a, d)
        BY <1>1 DEF Holds
      <4>2. QED
        BY <4>1 DEF StoreInv, LockDiscipline
    <3>3. QED
      BY <1>1, <1>4, <2>1, <3>1, <3>2 DEF Issued
  <2>2. CASE b # a
    <3>1. Holds(b, d)' <=> Holds(b, d)
      BY <1>1, <1>4, <2>2 DEF Holds
    <3>2. QED
      BY <1>1, <1>4, <1>5, <2>2, <3>1 DEF StoreInv, LockDiscipline, Issued
  <2>3. QED
    BY <2>1, <2>2
<1>7. LockDiscipline'
  BY <1>1, <1>4, <1>6 DEF StoreInv, LockDiscipline
<1>8. QED
  BY <1>3, <1>7

LEMMA StageStoreInv ==
  ASSUME StoreInv, NEW a \in Admins, Stage(a)
  PROVE  TypeOK' /\ LockDiscipline'
<1>1. /\ pc[a] = "locked" /\ Replaceable(current[a], request[a].policy, now)
      /\ effectiveAt' = [effectiveAt EXCEPT ![a] = now]
      /\ pc' = [pc EXCEPT ![a] = "staged"]
      /\ UNCHANGED <<now, row, events, lock, request, current>>
  BY DEF Stage, registerVars
<1>2. TypeOK'
  BY <1>1 DEF StoreInv, TypeOK, RegisterTypeOK
<1>3. /\ pc'[a] = "staged" /\ effectiveAt'[a] = now
      /\ \A b \in Admins : b # a => pc'[b] = pc[b] /\ effectiveAt'[b] = effectiveAt[b]
  BY <1>1 DEF StoreInv, TypeOK
<1>4. \A b \in Admins, d \in Capabilities : Holds(b, d)' <=> Holds(b, d)
  BY <1>1, <1>3 DEF Holds
<1>5. now \in current[a].updatedAt .. now
  <2>1. request[a].cap \in Capabilities /\ Holds(a, request[a].cap)
    BY <1>1 DEF StoreInv, LockDiscipline, Holds, Request
  <2>2. current[a] = row[request[a].cap] /\ Issued(request[a].cap)
    BY <2>1 DEF StoreInv, LockDiscipline
  <2>3. current[a] \in CapabilityRow /\ current[a].updatedAt <= now
    BY <2>1, <2>2 DEF StoreInv, RegisterInv, RegisterTypeOK, HistoryDates, Issued
  <2>4. QED
    BY <2>3, RowFields, BoundsAssumption DEF StoreInv, TypeOK, RegisterTypeOK, Time
<1>6. LockDiscipline'
  <2>1. \A b \in Admins : pc'[b] # "idle" =>
          request'[b] \in Request /\ ValidatePolicy(request'[b].policy)
    BY <1>1, <1>3 DEF StoreInv, LockDiscipline
  <2>2. \A b \in Admins, d \in Capabilities :
          /\ Holds(b, d)' <=> lock'[d] = b
          /\ Holds(b, d)' => Issued(d)' /\ current'[b] = row'[d]
    BY <1>1, <1>4 DEF StoreInv, LockDiscipline, Issued
  <2>3. ASSUME NEW b \in Admins, pc'[b] = "staged"
        PROVE  /\ Replaceable(current'[b], request'[b].policy, effectiveAt'[b])
               /\ effectiveAt'[b] \in current'[b].updatedAt .. now'
    <3>1. CASE b = a
      BY <1>1, <1>3, <1>5, <3>1
    <3>2. CASE b # a
      BY <1>1, <1>3, <2>3, <3>2 DEF StoreInv, LockDiscipline
    <3>3. QED
      BY <3>1, <3>2
  <2>4. QED
    BY <2>1, <2>2, <2>3 DEF LockDiscipline
<1>7. QED
  BY <1>2, <1>6

LEMMA CommitStoreInv ==
  ASSUME StoreInv, NEW a \in Admins, Commit(a), RegisterTypeOK'
  PROVE  TypeOK' /\ LockDiscipline'
<1>1. Finish(a) /\ now' = now /\ pc[a] = "staged"
  BY DEF Commit
<1>2. ASSUME NEW c \in Capabilities, ~ Holds(a, c)
      PROVE  row'[c] = row[c]
  <2>1. c # request[a].cap
    BY <1>1, <1>2 DEF Holds
  <2>2. QED
    BY <2>1, CommitIsReplace DEF Replace, StoreInv, TypeOK, RegisterTypeOK
<1>3. QED
  BY <1>1, <1>2, FinishKeepsLocks

LEMMA IssueStoreInv ==
  ASSUME StoreInv, NEW c \in Capabilities, NEW policy \in Policies,
         NEW expiresAt \in Time \cup {Never}, IssueCapability(c, policy, expiresAt),
         RegisterTypeOK'
  PROVE  TypeOK' /\ LockDiscipline'
<1>1. Issue(c, policy, expiresAt) /\ UNCHANGED txnVars
  BY DEF IssueCapability
<1>2. now' = now /\ now \in Time /\ now \in Int
  BY <1>1, BoundsAssumption DEF Issue, StoreInv, TypeOK, RegisterTypeOK, Time
<1>3. ASSUME NEW d \in Capabilities, NEW a \in Admins, lock[d] = a
      PROVE  row'[d] = row[d]
  <2>1. Issued(d)
    BY <1>3 DEF StoreInv, LockDiscipline
  <2>2. QED
    BY <1>1, <2>1 DEF Issue, StoreInv, TypeOK, RegisterTypeOK
<1>4. QED
  BY <1>1, <1>2, <1>3, RegisterStepKeepsLocks

LEMMA RevokeStoreInv ==
  ASSUME StoreInv, NEW c \in Capabilities, RevokeCapability(c), RegisterTypeOK'
  PROVE  TypeOK' /\ LockDiscipline'
<1>1. lock[c] = Free /\ Revoke(c) /\ UNCHANGED txnVars
  BY DEF RevokeCapability
<1>2. now' = now /\ now \in Time /\ now \in Int
  BY <1>1, BoundsAssumption DEF Revoke, StoreInv, TypeOK, RegisterTypeOK, Time
<1>3. ASSUME NEW d \in Capabilities, NEW a \in Admins, lock[d] = a
      PROVE  row'[d] = row[d]
  BY <1>1, <1>3, FreeAssumption DEF Revoke, StoreInv, TypeOK, RegisterTypeOK
<1>4. QED
  BY <1>1, <1>2, <1>3, RegisterStepKeepsLocks

LEMMA AdvanceStoreInv ==
  ASSUME StoreInv, Advance, RegisterTypeOK'
  PROVE  TypeOK' /\ LockDiscipline'
<1>1. UNCHANGED txnVars /\ row' = row
  BY DEF Advance, Tick
<1>2. now' \in Time /\ now <= now'
  BY BoundsAssumption DEF Advance, Tick, StoreInv, TypeOK, RegisterTypeOK, Time
<1>3. QED
  BY <1>1, <1>2, RegisterStepKeepsLocks

LEMMA ReturnStoreInv ==
  ASSUME StoreInv, NEW a \in Admins, RowMissing(a) \/ Reject(a) \/ Abort(a), RegisterTypeOK'
  PROVE  TypeOK' /\ LockDiscipline'
<1>1. Finish(a) /\ now' = now /\ row' = row
  BY DEF RowMissing, Reject, Abort, registerVars
<1>2. QED
  BY <1>1, FinishKeepsLocks

LEMMA StutterStoreInv ==
  ASSUME StoreInv, UNCHANGED vars
  PROVE  TypeOK' /\ LockDiscipline'
BY DEF StoreInv, vars, TypeOK, RegisterTypeOK, LockDiscipline, Holds, Issued

LEMMA NextStoreInv ==
  ASSUME StoreInv, [Next]_vars
  PROVE  StoreInv'
<1>1. RegisterInv'
  BY StoreStepIsRegisterStep, NextRegisterInv DEF StoreInv
<1>2. RegisterTypeOK'
  BY <1>1 DEF RegisterInv
<1>3. TypeOK' /\ LockDiscipline'
  <2>1. CASE Advance
    BY <1>2, <2>1, AdvanceStoreInv
  <2>2. CASE \E c \in Capabilities :
               \/ \E policy \in Policies, expiresAt \in Time \cup {Never} :
                    IssueCapability(c, policy, expiresAt)
               \/ RevokeCapability(c)
    BY <1>2, <2>2, IssueStoreInv, RevokeStoreInv
  <2>3. ASSUME NEW a \in Admins, NEW c \in Capabilities, NEW policy \in Policies,
               BeginReplace(a, c, policy)
        PROVE  TypeOK' /\ LockDiscipline'
    BY <2>3, BeginStoreInv
  <2>4. ASSUME NEW a \in Admins, ReplaceStep(a) \/ Abort(a)
        PROVE  TypeOK' /\ LockDiscipline'
    BY <1>2, <2>4, LockRowStoreInv, StageStoreInv, CommitStoreInv, ReturnStoreInv
       DEF ReplaceStep
  <2>5. CASE UNCHANGED vars
    BY <2>5, StutterStoreInv
  <2>6. QED
    BY <2>1, <2>2, <2>3, <2>4, <2>5 DEF Next
<1>4. QED
  BY <1>1, <1>3 DEF StoreInv

-----------------------------------------------------------------------------
\* TypeOK, LockDiscipline and the register's invariants hold in every reachable
\* state of the tables and the processes that change them.
THEOREM StoreInvariant == Spec => []StoreInv
<1>1. Init => StoreInv
  BY InitStoreInv
<1>2. StoreInv /\ [Next]_vars => StoreInv'
  BY NextStoreInv
<1>3. QED
  BY <1>1, <1>2, PTL DEF Spec

\* The transactions implement the register: ReplaceCapabilityPolicy takes effect
\* at its Commit, and nothing else changes a policy.
THEOREM StoreImplementsRegister == Spec => RegisterSpec
<1>1. Init => RegisterInit
  BY DEF Init
<1>2. StoreInv /\ [Next]_vars => [RegisterNext]_registerVars
  BY StoreStepIsRegisterStep
<1>3. QED
  BY <1>1, <1>2, StoreInvariant, PTL DEF Spec, RegisterSpec

\* The history of every capability is an unbroken chain of replacements, dated in their
\* order and before the expiry, and every recorded direction is the true one.
THEOREM StoreTruthfulHistory == Spec => []TruthfulHistory
BY StoreInvariant, PTL DEF StoreInv, RegisterInv, TruthfulHistory

\* A replacement under way when a capability is revoked never commits after it.
THEOREM StoreRevocationIsFinal == Spec => FrozenOnceRevoked
BY StoreImplementsRegister, RevocationIsFinal, PTL

\* Rows, locks and transactions under way (postgres.go) keep their types, the clock and
\* the histories included.
THEOREM StoreIsTyped == Spec => []TypeOK
<1>1. StoreInv => TypeOK
  BY DEF StoreInv
<1>2. QED
  BY <1>1, StoreInvariant, PTL
=============================================================================
