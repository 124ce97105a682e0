----------------------- MODULE CapabilityRegisterProofs -----------------------
(***************************************************************************)
(* The register keeps an unbroken, dated and truthful history, for any     *)
(* capabilities, policies and bounds.  RegisterInv is inductive: the chain *)
(* of a history extends only because the row holds the policy, revision    *)
(* and date the last event left, so these parts are proved together.  That *)
(* an event tells the truth rests on what is proved of policies first.     *)
(***************************************************************************)
EXTENDS CapabilityRegister, TLAPS

-----------------------------------------------------------------------------
(* Policies: ClassifyPolicyChange says exactly how the authority of a       *)
(* capability changes, for any two valid policies.                          *)

\* The names of push authority are not names of grants, so that Authority keeps
\* grants and push authority apart.
LEMMA GrantsOfAuthority ==
  ASSUME NEW policy, ValidatePolicy(policy)
  PROVE  /\ DOMAIN policy.grants \subseteq KnownGrants
         /\ \A grant \in KnownGrants :
              grant \in Authority(policy) <=> Allows(policy, grant)
         /\ \A grant \in DOMAIN policy.grants : Allows(policy, grant)
         /\ "push.branch" \in Authority(policy) <=> policy.push \in {"non-default", "all"}
         /\ "push.default-branch" \in Authority(policy) <=> policy.push = "all"
         /\ "push.tag" \in Authority(policy) <=> policy.tags = TRUE
         /\ Authority(policy) \subseteq
              KnownGrants \cup {"push.branch", "push.default-branch", "push.tag"}
<1>1. DOMAIN policy.grants \subseteq KnownGrants
  BY DEF ValidatePolicy, IsKnownGrant
<1>2. KnownGrants \cap {"push.branch", "push.default-branch", "push.tag"} = {}
  BY DEF KnownGrants
<1>3. \A grant \in DOMAIN policy.grants : Allows(policy, grant)
  BY DEF ValidatePolicy, Allows
<1>4. QED
  BY <1>1, <1>2, <1>3 DEF Authority, Allows

\* One direction of the comparison: the code finds something gained exactly when
\* the second policy has authority that the first has not.
LEMMA GainsIsMissingAuthority ==
  ASSUME NEW before, ValidatePolicy(before), before.tags \in BOOLEAN,
         NEW after, ValidatePolicy(after), after.tags \in BOOLEAN
  PROVE  Gains(before, after) <=> ~ (Authority(after) \subseteq Authority(before))
<1>1. GitPushAuthority(after.push) > GitPushAuthority(before.push)
        <=> \/ after.push \in {"non-default", "all"} /\ before.push \notin {"non-default", "all"}
            \/ after.push = "all" /\ before.push # "all"
  BY DEF ValidatePolicy, PushModes, GitPushAuthority
<1>2. ASSUME Gains(before, after)
      PROVE  ~ (Authority(after) \subseteq Authority(before))
  <2>1. CASE \E grant \in DOMAIN after.grants : ~ Allows(before, grant)
    BY <2>1, GrantsOfAuthority
  <2>2. CASE GitPushAuthority(after.push) > GitPushAuthority(before.push)
    BY <2>2, <1>1, GrantsOfAuthority
  <2>3. CASE after.tags /\ ~ before.tags
    BY <2>3, GrantsOfAuthority
  <2>4. QED
    BY <1>2, <2>1, <2>2, <2>3 DEF Gains
<1>3. ASSUME ~ Gains(before, after)
      PROVE  Authority(after) \subseteq Authority(before)
  <2>1. SUFFICES ASSUME NEW x \in Authority(after)
                 PROVE  x \in Authority(before)
    OBVIOUS
  <2>2. CASE x \in KnownGrants
    <3>1. x \in DOMAIN after.grants
      BY <2>2, GrantsOfAuthority DEF Allows
    <3>2. Allows(before, x)
      BY <3>1, <1>3 DEF Gains
    <3>3. QED
      BY <3>2, <2>2, GrantsOfAuthority
  <2>3. CASE x = "push.branch"
    BY <2>3, <1>1, <1>3, GrantsOfAuthority DEF Gains
  <2>4. CASE x = "push.default-branch"
    BY <2>4, <1>1, <1>3, GrantsOfAuthority DEF Gains
  <2>5. CASE x = "push.tag"
    BY <2>5, <1>3, GrantsOfAuthority DEF Gains
  <2>6. QED
    BY <2>2, <2>3, <2>4, <2>5, GrantsOfAuthority
<1>4. QED
  BY <1>2, <1>3

\* The direction ClassifyPolicyChange returns (policy_change.go) is the one the
\* comparison of the two authority sets gives, for all valid policies.
THEOREM ClassificationIsExact ==
  ASSUME NEW before, ValidatePolicy(before), before.tags \in BOOLEAN,
         NEW after, ValidatePolicy(after), after.tags \in BOOLEAN
  PROVE  ClassifyPolicyChange(before, after)
           = AuthorityChange(Authority(before), Authority(after))
<1>1. Gains(before, after) <=> ~ (Authority(after) \subseteq Authority(before))
  BY GainsIsMissingAuthority
<1>2. Gains(after, before) <=> ~ (Authority(before) \subseteq Authority(after))
  BY GainsIsMissingAuthority
<1>3. Authority(before) = Authority(after)
        <=> /\ Authority(before) \subseteq Authority(after)
            /\ Authority(after) \subseteq Authority(before)
  OBVIOUS
<1>4. QED
  BY <1>1, <1>2, <1>3 DEF ClassifyPolicyChange, AuthorityChange

-----------------------------------------------------------------------------
(* The register. *)

RegisterInv == RegisterTypeOK /\ HistoryChain /\ HistoryDates /\ HistoryDirections

-----------------------------------------------------------------------------
(* Lemmas about the operators of the model. *)

LEMMA RowFields ==
  ASSUME NEW r \in CapabilityRow
  PROVE  /\ r.policy \in Policies /\ r.revision \in 1 .. MaxRevision
         /\ r.expiresAt \in Time \cup {Never} /\ r.revoked \in BOOLEAN
         /\ r.updatedAt \in Time
         /\ r = [policy |-> r.policy, revision |-> r.revision, expiresAt |-> r.expiresAt,
                 revoked |-> r.revoked, updatedAt |-> r.updatedAt]
         /\ r # None
BY NoneAssumption DEF CapabilityRow

\* A replaced row is a row that differs in the policy, its revision and its date.
LEMMA ReplacedRow ==
  ASSUME NEW r \in CapabilityRow, NEW policy \in Policies, NEW at \in Time,
         r.revision < MaxRevision
  PROVE  /\ Replaced(r, policy, at) \in CapabilityRow
         /\ Replaced(r, policy, at).policy = policy
         /\ Replaced(r, policy, at).revision = r.revision + 1
         /\ Replaced(r, policy, at).expiresAt = r.expiresAt
         /\ Replaced(r, policy, at).revoked = r.revoked
         /\ Replaced(r, policy, at).updatedAt = at
<1>1. MaxRevision \in Nat
  BY BoundsAssumption
<1>2. r.revision + 1 \in 1 .. MaxRevision
  BY <1>1, RowFields
<1>3. Replaced(r, policy, at) =
        [policy |-> policy, revision |-> r.revision + 1, expiresAt |-> r.expiresAt,
         revoked |-> r.revoked, updatedAt |-> at]
  BY DEF Replaced
<1>4. QED
  BY <1>2, <1>3, RowFields DEF CapabilityRow

LEMMA ClassificationRange ==
  ASSUME NEW before, NEW after
  PROVE  ClassifyPolicyChange(before, after) \in ChangeDirections \cup {"unchanged"}
BY DEF ClassifyPolicyChange, ChangeDirections

\* The event of an accepted replacement.
LEMMA EventOfReplacement ==
  ASSUME NEW r \in CapabilityRow, NEW policy \in Policies, NEW at \in Time,
         ValidatePolicy(r.policy), ValidatePolicy(policy), Replaceable(r, policy, at)
  PROVE  /\ EventOf(r, policy, at) \in PolicyEvent
         /\ TrueDirection(EventOf(r, policy, at))
         /\ EventOf(r, policy, at).beforeRevision = r.revision
         /\ EventOf(r, policy, at).afterRevision = r.revision + 1
         /\ EventOf(r, policy, at).before = r.policy
         /\ EventOf(r, policy, at).after = policy
         /\ EventOf(r, policy, at).occurredAt = at
<1> DEFINE direction == ClassifyPolicyChange(r.policy, policy)
<1>1. direction \in ChangeDirections /\ direction # "unchanged"
  <2>1. direction # "unchanged"
    BY DEF Replaceable
  <2>2. QED
    BY <2>1, ClassificationRange
<1>2. direction = AuthorityChange(Authority(r.policy), Authority(policy))
  <2>1. r.policy.tags \in BOOLEAN /\ policy.tags \in BOOLEAN
    BY RowFields, PoliciesAssumption
  <2>2. QED
    BY <2>1, ClassificationIsExact
<1>3. r.revision \in 1 .. MaxRevision /\ r.revision + 1 \in 1 .. MaxRevision
  <2>1. r.revision < MaxRevision /\ MaxRevision \in Nat
    BY BoundsAssumption DEF Replaceable
  <2>2. QED
    BY <2>1, RowFields
<1> HIDE DEF direction
<1>4. EventOf(r, policy, at) =
        [occurredAt |-> at, beforeRevision |-> r.revision, afterRevision |-> r.revision + 1,
         before |-> r.policy, after |-> policy, direction |-> direction]
  BY DEF EventOf, direction
<1>5. EventOf(r, policy, at) \in PolicyEvent
  BY <1>1, <1>3, <1>4, RowFields DEF PolicyEvent
<1>6. TrueDirection(EventOf(r, policy, at))
  BY <1>1, <1>2, <1>4 DEF TrueDirection
<1>7. QED
  BY <1>4, <1>5, <1>6

\* An accepted replacement extends the chain, the dates and the directions of a
\* history by one event.
LEMMA HistoryExtends ==
  ASSUME NEW r \in CapabilityRow, NEW h \in Seq(PolicyEvent),
         NEW policy \in Policies, NEW at \in Time,
         ValidatePolicy(r.policy), ValidatePolicy(policy), Replaceable(r, policy, at),
         r.updatedAt <= at, ChainOf(r, h), DatesOf(r, h),
         \A i \in 1 .. Len(h) : TrueDirection(h[i]),
         NEW g, g = Append(h, EventOf(r, policy, at))
  PROVE  /\ g \in Seq(PolicyEvent)
         /\ ChainOf(Replaced(r, policy, at), g)
         /\ DatesOf(Replaced(r, policy, at), g)
         /\ \A i \in 1 .. Len(g) : TrueDirection(g[i])
<1> DEFINE e == EventOf(r, policy, at)
           s == Replaced(r, policy, at)
<1>1. /\ e \in PolicyEvent /\ TrueDirection(e)
      /\ e.beforeRevision = r.revision /\ e.afterRevision = r.revision + 1
      /\ e.before = r.policy /\ e.after = policy /\ e.occurredAt = at
  BY EventOfReplacement
<1>2. /\ s \in CapabilityRow /\ s.policy = policy /\ s.revision = r.revision + 1
      /\ s.expiresAt = r.expiresAt /\ s.updatedAt = at
  BY ReplacedRow DEF Replaceable
<1>3. ~ Expired(r, at)
  BY DEF Replaceable, CapabilityState
<1> HIDE DEF e, s
<1>4. /\ g \in Seq(PolicyEvent) /\ Len(g) = Len(h) + 1 /\ Len(h) \in Nat
      /\ \A i \in 1 .. Len(h) : g[i] = h[i]
      /\ g[Len(h) + 1] = e
  BY <1>1 DEF e
<1>5. \A i \in 1 .. Len(g) : i \in 1 .. Len(h) \/ (i = Len(h) + 1 /\ i \notin 1 .. Len(h))
  BY <1>4
<1>6. \A i \in 1 .. Len(g) - 1 :
        \/ i \in 1 .. Len(h) - 1 /\ i \in 1 .. Len(h) /\ i + 1 \in 1 .. Len(h)
        \/ i = Len(h) /\ i \in 1 .. Len(h) /\ i + 1 = Len(g)
  BY <1>4
<1>7. ChainOf(s, g)
  <2>1. s.revision = Len(g) + 1
    BY <1>2, <1>4 DEF ChainOf
  <2>2. \A i \in 1 .. Len(g) : g[i].beforeRevision = i /\ g[i].afterRevision = i + 1
    BY <1>1, <1>4, <1>5 DEF ChainOf
  <2>3. \A i \in 1 .. Len(g) - 1 : g[i].after = g[i + 1].before
    <3>1. SUFFICES ASSUME NEW i \in 1 .. Len(g) - 1
                   PROVE  g[i].after = g[i + 1].before
      OBVIOUS
    <3>2. CASE i \in 1 .. Len(h) - 1 /\ i \in 1 .. Len(h) /\ i + 1 \in 1 .. Len(h)
      <4>1. g[i] = h[i] /\ g[i + 1] = h[i + 1]
        BY <1>4, <3>2
      <4>2. QED
        BY <3>2, <4>1 DEF ChainOf
    <3>3. CASE i = Len(h) /\ i \in 1 .. Len(h) /\ i + 1 = Len(g)
      <4>1. h # <<>> /\ h[Len(h)].after = r.policy
        BY <3>3 DEF ChainOf
      <4>2. QED
        BY <1>1, <1>4, <3>3, <4>1
    <3>4. QED
      BY <1>6, <3>2, <3>3
  <2>4. g[Len(g)].after = s.policy
    BY <1>1, <1>2, <1>4
  <2>5. QED
    BY <2>1, <2>2, <2>3, <2>4 DEF ChainOf
<1>8. DatesOf(s, g)
  <2>1. \A i \in 1 .. Len(g) - 1 : g[i].occurredAt <= g[i + 1].occurredAt
    <3>1. SUFFICES ASSUME NEW i \in 1 .. Len(g) - 1
                   PROVE  g[i].occurredAt <= g[i + 1].occurredAt
      OBVIOUS
    <3>2. CASE i \in 1 .. Len(h) - 1 /\ i \in 1 .. Len(h) /\ i + 1 \in 1 .. Len(h)
      <4>1. g[i] = h[i] /\ g[i + 1] = h[i + 1]
        BY <1>4, <3>2
      <4>2. QED
        BY <3>2, <4>1 DEF DatesOf
    <3>3. CASE i = Len(h) /\ i \in 1 .. Len(h) /\ i + 1 = Len(g)
      <4>1. h # <<>> /\ h[Len(h)].occurredAt = r.updatedAt
        BY <3>3 DEF DatesOf
      <4>2. QED
        BY <1>1, <1>4, <3>3, <4>1
    <3>4. QED
      BY <1>6, <3>2, <3>3
  <2>2. \A i \in 1 .. Len(g) : ~ Expired(s, g[i].occurredAt)
    BY <1>1, <1>2, <1>3, <1>4, <1>5 DEF DatesOf, Expired
  <2>3. g[Len(g)].occurredAt = s.updatedAt
    BY <1>1, <1>2, <1>4
  <2>4. QED
    BY <2>1, <2>2, <2>3 DEF DatesOf
<1>9. \A i \in 1 .. Len(g) : TrueDirection(g[i])
  BY <1>1, <1>4, <1>5
<1>10. QED
  BY <1>4, <1>7, <1>8, <1>9 DEF s

-----------------------------------------------------------------------------
(* Every step preserves RegisterInv. *)

LEMMA InitRegisterInv == RegisterInit => RegisterInv
<1> SUFFICES ASSUME RegisterInit PROVE RegisterInv
  OBVIOUS
<1>1. 0 \in Time
  BY BoundsAssumption DEF Time
<1>2. \A c \in Capabilities : row[c] = None /\ events[c] = <<>>
  BY DEF RegisterInit
<1>3. RegisterTypeOK
  BY <1>1 DEF RegisterInit, RegisterTypeOK
<1>4. HistoryChain /\ HistoryDates
  BY <1>2 DEF HistoryChain, HistoryDates, Issued
<1>5. HistoryDirections
  BY <1>2 DEF HistoryDirections, Issued
<1>6. QED
  BY <1>3, <1>4, <1>5 DEF RegisterInv

LEMMA IssueRegisterInv ==
  ASSUME RegisterInv, NEW c \in Capabilities, NEW policy \in Policies,
         NEW expiresAt \in Time \cup {Never}, Issue(c, policy, expiresAt)
  PROVE  RegisterInv'
<1> DEFINE r == [policy |-> policy, revision |-> 1, expiresAt |-> expiresAt,
                 revoked |-> FALSE, updatedAt |-> now]
<1>1. r \in CapabilityRow
  BY BoundsAssumption DEF CapabilityRow, RegisterInv, RegisterTypeOK
<1>2. r # None /\ r.policy = policy /\ r.revision = 1 /\ r.updatedAt = now
  BY <1>1, RowFields
<1>3. row' = [row EXCEPT ![c] = r] /\ now' = now /\ events' = events
  BY DEF Issue
<1>4. events[c] = <<>> /\ Len(events[c]) = 0
  BY DEF Issue, RegisterInv, HistoryChain
<1> HIDE DEF r
<1>5. row'[c] = r /\ \A d \in Capabilities : d # c => row'[d] = row[d]
  BY <1>3 DEF RegisterInv, RegisterTypeOK
<1>6. RegisterTypeOK'
  BY <1>1, <1>3 DEF RegisterInv, RegisterTypeOK
<1>7. ChainOf(r, events[c]) /\ DatesOf(r, events[c])
  BY <1>2, <1>4 DEF ChainOf, DatesOf
<1>8. HistoryChain'
  BY <1>2, <1>3, <1>5, <1>7 DEF RegisterInv, HistoryChain, Issued
<1>9. HistoryDates'
  <2>1. now \in Int
    BY BoundsAssumption DEF RegisterInv, RegisterTypeOK, Time
  <2>2. QED
    BY <1>2, <1>3, <1>5, <1>7, <2>1 DEF RegisterInv, HistoryDates, Issued
<1>10. HistoryDirections'
  BY <1>2, <1>3, <1>5 DEF RegisterInv, HistoryDirections, Issued, Issue
<1>11. QED
  BY <1>6, <1>8, <1>9, <1>10 DEF RegisterInv

LEMMA ReplaceRegisterInv ==
  ASSUME RegisterInv, NEW c \in Capabilities, NEW policy \in Policies,
         NEW at \in Time, Replace(c, policy, at)
  PROVE  RegisterInv'
<1> DEFINE r == row[c]
           h == events[c]
           s == Replaced(r, policy, at)
           g == Append(h, EventOf(r, policy, at))
<1>1. r \in CapabilityRow /\ h \in Seq(PolicyEvent) /\ Issued(c)
  BY DEF Replace, Issued, RegisterInv, RegisterTypeOK
<1>2. /\ ValidatePolicy(policy) /\ Replaceable(r, policy, at)
      /\ at \in r.updatedAt .. now
      /\ row' = [row EXCEPT ![c] = s] /\ events' = [events EXCEPT ![c] = g] /\ now' = now
  BY DEF Replace
<1>3. /\ ValidatePolicy(r.policy) /\ ChainOf(r, h) /\ DatesOf(r, h)
      /\ \A i \in 1 .. Len(h) : TrueDirection(h[i])
  BY <1>1 DEF RegisterInv, HistoryChain, HistoryDates, HistoryDirections
<1>4. r.updatedAt \in Int /\ now \in Int /\ r.updatedAt <= at /\ at <= now
  BY <1>1, <1>2, RowFields, BoundsAssumption DEF RegisterInv, RegisterTypeOK, Time
<1>5. /\ s \in CapabilityRow /\ s # None /\ s.policy = policy /\ s.updatedAt = at
  BY <1>1, <1>2, ReplacedRow, RowFields DEF Replaceable
<1> HIDE DEF r, h, s, g
<1>6. /\ g \in Seq(PolicyEvent) /\ ChainOf(s, g) /\ DatesOf(s, g)
      /\ \A i \in 1 .. Len(g) : TrueDirection(g[i])
  BY <1>1, <1>2, <1>3, <1>4, HistoryExtends DEF s, g
<1>7. /\ row'[c] = s /\ \A d \in Capabilities : d # c => row'[d] = row[d]
      /\ events'[c] = g /\ \A d \in Capabilities : d # c => events'[d] = events[d]
  BY <1>2 DEF RegisterInv, RegisterTypeOK
<1>8. RegisterTypeOK'
  BY <1>2, <1>5, <1>6 DEF RegisterInv, RegisterTypeOK
<1>9. HistoryChain'
  BY <1>5, <1>6, <1>7 DEF RegisterInv, HistoryChain, Issued
<1>10. HistoryDates'
  BY <1>2, <1>4, <1>5, <1>6, <1>7 DEF RegisterInv, HistoryDates, Issued
<1>11. HistoryDirections'
  BY <1>2, <1>5, <1>6, <1>7 DEF RegisterInv, HistoryDirections, Issued
<1>12. QED
  BY <1>8, <1>9, <1>10, <1>11 DEF RegisterInv

LEMMA RevokeRegisterInv ==
  ASSUME RegisterInv, NEW c \in Capabilities, Revoke(c)
  PROVE  RegisterInv'
<1> DEFINE r == row[c]
           s == [row[c] EXCEPT !.revoked = TRUE]
<1>1. r \in CapabilityRow /\ Issued(c)
  BY DEF Revoke, Issued, RegisterInv, RegisterTypeOK
<1>2. row' = [row EXCEPT ![c] = s] /\ events' = events /\ now' = now
  BY DEF Revoke
<1>3. /\ s \in CapabilityRow /\ s.policy = r.policy /\ s.revision = r.revision
      /\ s.expiresAt = r.expiresAt /\ s.updatedAt = r.updatedAt
  BY <1>1 DEF CapabilityRow
<1>4. s # None
  BY <1>3, RowFields
<1> HIDE DEF s
<1>5. row'[c] = s /\ \A d \in Capabilities : d # c => row'[d] = row[d]
  BY <1>2 DEF RegisterInv, RegisterTypeOK
<1>6. RegisterTypeOK'
  BY <1>2, <1>3 DEF RegisterInv, RegisterTypeOK
<1>7. ChainOf(s, events[c]) /\ DatesOf(s, events[c])
  <2>1. ChainOf(r, events[c]) /\ DatesOf(r, events[c])
    BY <1>1 DEF RegisterInv, HistoryChain, HistoryDates
  <2>2. QED
    BY <1>3, <2>1 DEF ChainOf, DatesOf, Expired
<1>8. HistoryChain'
  BY <1>2, <1>4, <1>5, <1>7 DEF RegisterInv, HistoryChain, Issued
<1>9. HistoryDates'
  BY <1>1, <1>2, <1>3, <1>4, <1>5, <1>7 DEF RegisterInv, HistoryDates, Issued
<1>10. HistoryDirections'
  BY <1>1, <1>2, <1>3, <1>4, <1>5 DEF RegisterInv, HistoryDirections, Issued
<1>11. QED
  BY <1>6, <1>8, <1>9, <1>10 DEF RegisterInv

LEMMA TickRegisterInv ==
  ASSUME RegisterInv, Tick
  PROVE  RegisterInv'
<1>1. /\ now \in Time /\ now' \in Time /\ now <= now' /\ now \in Int /\ now' \in Int
      /\ row' = row /\ events' = events
  BY BoundsAssumption DEF Tick, RegisterInv, RegisterTypeOK, Time
<1>2. RegisterTypeOK' /\ HistoryChain' /\ HistoryDirections'
  BY <1>1 DEF RegisterInv, RegisterTypeOK, HistoryChain, HistoryDirections, Issued
<1>3. HistoryDates'
  <2>1. SUFFICES ASSUME NEW c \in Capabilities, Issued(c)
                 PROVE  row[c].updatedAt <= now' /\ DatesOf(row[c], events[c])
    BY <1>1 DEF HistoryDates, Issued
  <2>2. row[c].updatedAt \in Int
    BY <2>1, RowFields, BoundsAssumption DEF RegisterInv, RegisterTypeOK, Issued, Time
  <2>3. QED
    BY <1>1, <2>1, <2>2 DEF RegisterInv, HistoryDates
<1>4. QED
  BY <1>2, <1>3 DEF RegisterInv

LEMMA StutterRegisterInv ==
  ASSUME RegisterInv, UNCHANGED registerVars
  PROVE  RegisterInv'
BY DEF RegisterInv, registerVars, RegisterTypeOK, HistoryChain, HistoryDates,
       HistoryDirections, Issued

LEMMA NextRegisterInv ==
  ASSUME RegisterInv, [RegisterNext]_registerVars
  PROVE  RegisterInv'
<1>1. CASE Tick
  BY <1>1, TickRegisterInv
<1>2. CASE Administer
  BY <1>2, IssueRegisterInv, ReplaceRegisterInv, RevokeRegisterInv DEF Administer
<1>3. CASE UNCHANGED registerVars
  BY <1>3, StutterRegisterInv
<1>4. QED
  BY <1>1, <1>2, <1>3 DEF RegisterNext

-----------------------------------------------------------------------------
\* Type correctness, the unbroken chain, its dates and its directions hold in
\* every reachable state of the register.
THEOREM RegisterInvariant == RegisterSpec => []RegisterInv
<1>1. RegisterInit => RegisterInv
  BY InitRegisterInv
<1>2. RegisterInv /\ [RegisterNext]_registerVars => RegisterInv'
  BY NextRegisterInv
<1>3. QED
  BY <1>1, <1>2, PTL DEF RegisterSpec

\* No step changes the row or the history of a revoked capability.
LEMMA RevokedIsFrozen ==
  ASSUME RegisterInv, [RegisterNext]_registerVars,
         NEW c \in Capabilities, Issued(c), row[c].revoked
  PROVE  row'[c] = row[c] /\ events'[c] = events[c]
<1> USE DEF RegisterInv, RegisterTypeOK
<1>1. ASSUME NEW d \in Capabilities, NEW policy \in Policies,
             NEW expiresAt \in Time \cup {Never}, Issue(d, policy, expiresAt)
      PROVE  row'[c] = row[c] /\ events'[c] = events[c]
  BY <1>1 DEF Issue
<1>2. ASSUME NEW d \in Capabilities, NEW policy \in Policies, NEW at \in Time,
             Replace(d, policy, at)
      PROVE  row'[c] = row[c] /\ events'[c] = events[c]
  <2>1. d # c
    BY <1>2 DEF Replace, Replaceable, CapabilityState
  <2>2. QED
    BY <1>2, <2>1 DEF Replace
<1>3. ASSUME NEW d \in Capabilities, Revoke(d)
      PROVE  row'[c] = row[c] /\ events'[c] = events[c]
  BY <1>3 DEF Revoke
<1>4. QED
  BY <1>1, <1>2, <1>3 DEF RegisterNext, Administer, Tick, registerVars

\* Revocation is final (FrozenOnceRevoked), for every register behaviour.
THEOREM RevocationIsFinal == RegisterSpec => FrozenOnceRevoked
<1>1. RegisterInv /\ [RegisterNext]_registerVars =>
        [\A c \in Capabilities :
           (Issued(c) /\ row[c].revoked) => row'[c] = row[c] /\ events'[c] = events[c]]_registerVars
  BY RevokedIsFrozen
<1>2. QED
  BY <1>1, RegisterInvariant, PTL DEF RegisterSpec, FrozenOnceRevoked
=============================================================================
