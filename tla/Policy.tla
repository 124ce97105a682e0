------------------------------- MODULE Policy -------------------------------
(***************************************************************************)
(* Policy Profiles: what a capability may do, and how a replacement of one *)
(* profile by another is classified.  A policy is a record                 *)
(*                                                                         *)
(*   profile   the pair (Name, Version) of the Go struct, as one value     *)
(*   grants    Go's map[string]bool: a function from the keys of the map   *)
(*   push      the branch-update mode of Git smart HTTP                    *)
(*   tags      whether tags may be created or moved                        *)
(*                                                                         *)
(* No constant and no variable: every other module of the broker uses it.  *)
(***************************************************************************)
EXTENDS Integers

\* The one supported profile: name "developer", version 1.
Developer == "developer/1"

KnownGrants == {"actions.write", "checks.write", "contents.write",
                "deployments.write", "objects.delete", "pulls.merge",
                "pulls.review.dismiss", "releases.write"}

PushModes == {"none", "non-default", "all"}

IsKnownGrant(grant) == grant \in KnownGrants

ValidatePolicy(policy) ==
  /\ policy.profile = Developer
  /\ policy.push \in PushModes
  /\ \A grant \in DOMAIN policy.grants :
        policy.grants[grant] = TRUE /\ IsKnownGrant(grant)

\* Go's p.Grants[grant]: a key the map does not have reads as false.
Allows(policy, grant) ==
  grant \in DOMAIN policy.grants /\ policy.grants[grant] = TRUE

\* The code panics on any other mode; its callers validate both policies first.
GitPushAuthority(mode) ==
  CASE mode = "none"        -> 0
    [] mode = "non-default" -> 1
    [] mode = "all"         -> 2

\* Mutant of Gains: the comparison forgets tag authority.
GainsWithoutTags(before, after) ==
  \/ \E grant \in DOMAIN after.grants : ~ Allows(before, grant)
  \/ GitPushAuthority(after.push) > GitPushAuthority(before.push)

\* Mutant of Gains: tag authority that both have counts as gained.
GainsKeptTags(before, after) ==
  \/ \E grant \in DOMAIN after.grants : ~ Allows(before, grant)
  \/ GitPushAuthority(after.push) > GitPushAuthority(before.push)
  \/ after.tags

\* "after" allows something "before" does not.  The code computes gained and
\* lost in mirror image, so that lost is Gains with its arguments swapped.
Gains(before, after) ==
  \/ \E grant \in DOMAIN after.grants : ~ Allows(before, grant)
  \/ GitPushAuthority(after.push) > GitPushAuthority(before.push)
  \/ after.tags /\ ~ before.tags

\* Callers establish ValidatePolicy(before) and ValidatePolicy(after), the two
\* early returns of the code.
ClassifyPolicyChange(before, after) ==
  LET gained == Gains(before, after)
      lost   == Gains(after, before)
  IN  CASE gained /\ lost     -> "mixed"
        [] gained /\ ~ lost   -> "broadened"
        [] ~ gained /\ lost   -> "narrowed"
        [] ~ gained /\ ~ lost -> "unchanged"

ChangeDirections == {"broadened", "narrowed", "mixed"}

-----------------------------------------------------------------------------
(* The reference meaning: the set of things a valid policy lets a token do. *)

Authority(policy) ==
  {grant \in DOMAIN policy.grants : policy.grants[grant] = TRUE}
    \cup (IF policy.push \in {"non-default", "all"} THEN {"push.branch"} ELSE {})
    \cup (IF policy.push = "all" THEN {"push.default-branch"} ELSE {})
    \cup (IF policy.tags = TRUE THEN {"push.tag"} ELSE {})

\* The direction of a change by comparing the two sets, nothing else.
AuthorityChange(before, after) ==
  CASE before = after                                             -> "unchanged"
    [] before \subseteq after /\ before # after                   -> "broadened"
    [] after \subseteq before /\ before # after                   -> "narrowed"
    [] ~ (before \subseteq after) /\ ~ (after \subseteq before)   -> "mixed"

\* What an operation needs is all within what the policy confers.
Permitted(policy, op) == op.needs \subseteq Authority(policy)
=============================================================================
