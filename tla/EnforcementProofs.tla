-------------------------- MODULE EnforcementProofs --------------------------
(***************************************************************************)
(* Authorization is monotone in the authority of a policy, and so a change *)
(* of policy that is not recorded as broadened or mixed lets nothing       *)
(* through that was refused before; likewise for narrowed and mixed.  What *)
(* is forwarded, by REST or by a push, stays within the authority that the *)
(* documentation of the resources and of refs asks for, and a GraphQL      *)
(* document that is forwarded leads nowhere but to its repository.         *)
(***************************************************************************)
EXTENDS Enforcement, TLAPS

Covers(large, small) ==
  /\ \A grant : Allows(small, grant) => Allows(large, grant)
  /\ small.push \in {"non-default", "all"} => large.push \in {"non-default", "all"}
  /\ small.push = "all" => large.push = "all"
  /\ small.tags => large.tags

\* What a policy confers: what it allows, and the refs it lets be pushed.
LEMMA AuthorityConferred ==
  ASSUME NEW p
  PROVE  /\ \A grant : Allows(p, grant) => grant \in Authority(p)
         /\ p.push \in {"non-default", "all"} => "push.branch" \in Authority(p)
         /\ p.push = "all" => "push.default-branch" \in Authority(p)
         /\ p.tags = TRUE => "push.tag" \in Authority(p)
BY DEF Allows, Authority

\* Grants and the names of push authority are apart, so that nothing else confers them.
LEMMA AuthorityComesFrom ==
  ASSUME NEW p, ValidatePolicy(p)
  PROVE  /\ \A grant \in KnownGrants : grant \in Authority(p) => Allows(p, grant)
         /\ "push.branch" \in Authority(p) => p.push \in {"non-default", "all"}
         /\ "push.default-branch" \in Authority(p) => p.push = "all"
         /\ "push.tag" \in Authority(p) => p.tags = TRUE
<1>1. KnownGrants \cap {"push.branch", "push.default-branch", "push.tag"} = {}
  BY DEF KnownGrants
<1>2. \A grant \in DOMAIN p.grants : grant \in KnownGrants /\ Allows(p, grant)
  BY DEF ValidatePolicy, IsKnownGrant, Allows
<1>3. QED
  BY <1>1, <1>2 DEF Authority

LEMMA CoversWhatIsIncluded ==
  ASSUME NEW small, ValidatePolicy(small), small.tags \in BOOLEAN,
         NEW large, ValidatePolicy(large), large.tags \in BOOLEAN,
         Authority(small) \subseteq Authority(large)
  PROVE  Covers(large, small)
<1>1. ASSUME NEW grant, Allows(small, grant)
      PROVE  Allows(large, grant)
  <2>1. grant \in KnownGrants
    BY <1>1 DEF Allows, ValidatePolicy, IsKnownGrant
  <2>2. QED
    BY <1>1, <2>1, AuthorityConferred, AuthorityComesFrom
<1>2. /\ small.push \in {"non-default", "all"} => large.push \in {"non-default", "all"}
      /\ small.push = "all" => large.push = "all"
      /\ small.tags => large.tags
  BY AuthorityConferred, AuthorityComesFrom
<1>3. QED
  BY <1>1, <1>2 DEF Covers

\* The comparison of the code finds nothing gained only where nothing is.
LEMMA CoversWhatGainsNothing ==
  ASSUME NEW before, ValidatePolicy(before), NEW after, ValidatePolicy(after),
         ~ Gains(before, after)
  PROVE  Covers(before, after)
<1>1. \A grant : Allows(after, grant) => Allows(before, grant)
  BY DEF Gains, Allows
<1>2. /\ after.push \in {"non-default", "all"} => before.push \in {"non-default", "all"}
      /\ after.push = "all" => before.push = "all"
  BY DEF Gains, GitPushAuthority, ValidatePolicy, PushModes
<1>3. after.tags => before.tags
  BY DEF Gains
<1>4. QED
  BY <1>1, <1>2, <1>3 DEF Covers

LEMMA GitRefIsMonotone ==
  ASSUME NEW small, NEW large, Covers(large, small),
         NEW command, NEW branch, AuthorizeGitRef(command, branch, small)
  PROVE  AuthorizeGitRef(command, branch, large)
<1>1. CASE command.ref.space = "tags" /\ small.tags
  BY <1>1 DEF AuthorizeGitRef, Covers
<1>2. CASE command.ref.space = "heads" /\ small.push = "all"
  BY <1>2 DEF AuthorizeGitRef, Covers
<1>3. CASE /\ command.ref.space = "heads"
           /\ small.push = "non-default" /\ command.ref.name # branch
  BY <1>3 DEF AuthorizeGitRef, Covers
<1>4. QED
  BY <1>1, <1>2, <1>3 DEF AuthorizeGitRef

LEMMA CanPushIsMonotone ==
  ASSUME NEW small, NEW large, Covers(large, small), GitCanPush(small)
  PROVE  GitCanPush(large)
BY DEF GitCanPush, Covers

LEMMA RESTRefIsMonotone ==
  ASSUME NEW small, NEW large, Covers(large, small),
         NEW ref, NEW branch, AuthorizeRESTRef(ref, branch, small)
  PROVE  AuthorizeRESTRef(ref, branch, large)
<1>1. CASE ref.form = "tags" /\ small.tags
  BY <1>1 DEF AuthorizeRESTRef, Covers
<1>2. CASE /\ ref.form \in {"bare", "heads"}
           /\ ref.name # <<"">>
           /\ AuthorizeGitRef(Command(FALSE, "heads", ref.name), branch, small)
  BY <1>2, GitRefIsMonotone DEF AuthorizeRESTRef
<1>3. QED
  BY <1>1, <1>2 DEF AuthorizeRESTRef

LEMMA RESTIsMonotone ==
  ASSUME NEW small, NEW large, Covers(large, small),
         NEW call, AuthorizeREST(call, small)
  PROVE  AuthorizeREST(call, large)
<1>1. PICK i \in DOMAIN RestRoutes :
        /\ IsRouteOf(i, call)
        /\ call[1] = "DELETE" => Allows(small, "objects.delete")
        /\ RestRoutes[i].grant = "" \/ Allows(small, RestRoutes[i].grant)
  BY DEF AuthorizeREST
<1>2. /\ call[1] = "DELETE" => Allows(large, "objects.delete")
      /\ RestRoutes[i].grant = "" \/ Allows(large, RestRoutes[i].grant)
  BY <1>1 DEF Covers
<1>3. QED
  BY <1>1, <1>2 DEF AuthorizeREST

LEMMA RESTBodyIsMonotone ==
  ASSUME NEW small, NEW large, Covers(large, small),
         NEW call, NEW body, NEW branch, AuthorizeRESTBody(call, body, branch, small)
  PROVE  AuthorizeRESTBody(call, body, branch, large)
<1>1. \A ref : AuthorizeRESTRef(ref, branch, small) => AuthorizeRESTRef(ref, branch, large)
  BY RESTRefIsMonotone
<1>2. small.tags => large.tags
  BY DEF Covers
<1>3. QED
  BY <1>1, <1>2 DEF AuthorizeRESTBody

\* Every decision of the broker is one of authority: the operations and the commands.
LEMMA PermitsIsMonotone ==
  ASSUME NEW small, NEW large, Covers(large, small), NEW branch
  PROVE  Permits(small, branch) \subseteq Permits(large, branch)
<1>1. ASSUME NEW op, AuthorizeOperation(op, branch, small)
      PROVE  AuthorizeOperation(op, branch, large)
  <2>1. CASE /\ op.kind = "rest" /\ AuthorizeREST(op.call, small)
             /\ AuthorizeRESTBody(op.call, op.body, branch, small)
    BY <1>1, <2>1, RESTIsMonotone, RESTBodyIsMonotone DEF AuthorizeOperation
  <2>2. CASE op.kind = "git" /\ AuthorizeGit(op, small)
    BY <1>1, <2>2, CanPushIsMonotone DEF AuthorizeOperation, AuthorizeGit
  <2>3. CASE op.kind = "lfs" /\ AuthorizeLFS(op, small)
    BY <1>1, <2>3, CanPushIsMonotone DEF AuthorizeOperation, AuthorizeLFS
  <2>4. QED
    BY <1>1, <2>1, <2>2, <2>3 DEF AuthorizeOperation
<1>2. \A command : AuthorizeGitRef(command, branch, small)
                     => AuthorizeGitRef(command, branch, large)
  BY GitRefIsMonotone
<1>3. QED
  BY <1>1, <1>2 DEF Permits

\* Every decision of the broker follows the authority of the policy: what includes
\* the authority of a policy permits all that the policy permits.
THEOREM EnforcementIsMonotone ==
  ASSUME NEW small \in Policies, ValidatePolicy(small),
         NEW large \in Policies, ValidatePolicy(large),
         Authority(small) \subseteq Authority(large),
         NEW branch \in Branches
  PROVE  Permits(small, branch) \subseteq Permits(large, branch)
BY CoversWhatIsIncluded, PermitsIsMonotone, PoliciesAssumption

-----------------------------------------------------------------------------
(* The table of routes. *)

Words ==
  {"POST", "PATCH", "PUT", "DELETE", ":", "**", "issues", "labels", "milestones", "comments",
   "assignees", "lock", "reactions", "pulls", "merge", "replies", "reviews", "events",
   "dismissals", "requested_reviewers", "actions", "workflows", "dispatches", "enable",
   "disable", "runs", "rerun", "rerun-failed-jobs", "cancel", "force-cancel", "jobs", "logs",
   "artifacts", "caches", "check-runs", "check-suites", "rerequest", "contents", "git",
   "blobs", "commits", "trees", "tags", "refs", "deployments", "statuses", "releases",
   "generate-notes", "assets"}

\* The patterns of routes: a method and a resource, then whatever there is.
Patterns ==
  {c \in Seq(Words) :
     /\ Len(c) > 1
     /\ c[Len(c)] = "**" => Len(c) > 2
     /\ c[1] # ":" /\ c[2] # ":"}

OfResources(resources) == {c \in Patterns : c[2] \in resources}

PlainPatterns ==
  OfResources({"issues", "labels", "milestones"})
    \cup {c \in OfResources({"pulls"}) : c[1] # "PUT"}

Concluding(act) == {c \in OfResources({"pulls"}) : c[1] = "PUT" /\ c[Len(c)] = act}

ContentsPatterns ==
  OfResources({"git"}) \cup {c \in OfResources({"contents"}) : c[1] \in {"PUT", "DELETE"}}

Rows(grant, patterns) == {[grant |-> grant, call |-> c] : c \in patterns}

\* The routes as the documentation sorts them by the grant they need.
DocumentedRoutes ==
  UNION {Rows("", PlainPatterns), Rows("pulls.merge", Concluding("merge")),
         Rows("pulls.review.dismiss", Concluding("dismissals")),
         Rows("actions.write", OfResources({"actions"})),
         Rows("checks.write", OfResources({"check-runs", "check-suites", "statuses"})),
         Rows("contents.write", ContentsPatterns),
         Rows("deployments.write", OfResources({"deployments"})),
         Rows("releases.write", OfResources({"releases"}))}

LEMMA UnderIsASequence ==
  ASSUME NEW patterns, NEW calls \in Seq(patterns), NEW grant,
         NEW routes, Rows(grant, patterns) \subseteq routes
  PROVE  Under(grant, calls) \in Seq(routes)
<1>1. \A c \in patterns : [grant |-> grant, call |-> c] \in routes
  BY DEF Rows
<1>2. QED
  BY <1>1 DEF Under

\* Every row of the table has the shape of a pattern, and the grant the
\* documentation of its resource names.
LEMMA RoutesAreDocumented == RestRoutes \in Seq(DocumentedRoutes)
<1>1. \A calls \in Seq(PlainPatterns) : Under("", calls) \in Seq(DocumentedRoutes)
  BY UnderIsASequence DEF DocumentedRoutes
<1>2. IssueCalls \in Seq(PlainPatterns)
  BY DEF IssueCalls, PlainPatterns, OfResources, Patterns, Words
<1>3. PullCalls \in Seq(PlainPatterns)
  BY DEF PullCalls, PlainPatterns, OfResources, Patterns, Words
<1>4. MergeCalls \in Seq(Concluding("merge"))
  BY DEF MergeCalls, Concluding, OfResources, Patterns, Words
<1>5. ReviewCalls \in Seq(PlainPatterns)
  BY DEF ReviewCalls, PlainPatterns, OfResources, Patterns, Words
<1>6. DismissalCalls \in Seq(Concluding("dismissals"))
  BY DEF DismissalCalls, Concluding, OfResources, Patterns, Words
<1>7. ReviewerCalls \in Seq(PlainPatterns)
  BY DEF ReviewerCalls, PlainPatterns, OfResources, Patterns, Words
<1>8. ActionsCalls \in Seq(OfResources({"actions"}))
  BY DEF ActionsCalls, OfResources, Patterns, Words
<1>9. CheckCalls \in Seq(OfResources({"check-runs", "check-suites", "statuses"}))
  BY DEF CheckCalls, OfResources, Patterns, Words
<1>10. ContentsCalls \in Seq(ContentsPatterns)
  BY DEF ContentsCalls, ContentsPatterns, OfResources, Patterns, Words
<1>11. DeploymentCalls \in Seq(OfResources({"deployments"}))
  BY DEF DeploymentCalls, OfResources, Patterns, Words
<1>12. ReleaseCalls \in Seq(OfResources({"releases"}))
  BY DEF ReleaseCalls, OfResources, Patterns, Words
<1>13. StatusCalls \in Seq(OfResources({"check-runs", "check-suites", "statuses"}))
  BY DEF StatusCalls, OfResources, Patterns, Words
<1>14. /\ Under("", IssueCalls) \in Seq(DocumentedRoutes)
       /\ Under("", PullCalls) \in Seq(DocumentedRoutes)
       /\ Under("", ReviewCalls) \in Seq(DocumentedRoutes)
       /\ Under("", ReviewerCalls) \in Seq(DocumentedRoutes)
  BY <1>1, <1>2, <1>3, <1>5, <1>7
<1>15. /\ Under("pulls.merge", MergeCalls) \in Seq(DocumentedRoutes)
       /\ Under("pulls.review.dismiss", DismissalCalls) \in Seq(DocumentedRoutes)
       /\ Under("actions.write", ActionsCalls) \in Seq(DocumentedRoutes)
  BY <1>4, <1>6, <1>8, UnderIsASequence DEF DocumentedRoutes
<1>16. /\ Under("checks.write", CheckCalls) \in Seq(DocumentedRoutes)
       /\ Under("contents.write", ContentsCalls) \in Seq(DocumentedRoutes)
       /\ Under("deployments.write", DeploymentCalls) \in Seq(DocumentedRoutes)
  BY <1>9, <1>10, <1>11, UnderIsASequence DEF DocumentedRoutes
<1>17. /\ Under("releases.write", ReleaseCalls) \in Seq(DocumentedRoutes)
       /\ Under("checks.write", StatusCalls) \in Seq(DocumentedRoutes)
  BY <1>12, <1>13, UnderIsASequence DEF DocumentedRoutes
<1>18. \A s, r \in Seq(DocumentedRoutes) : s \o r \in Seq(DocumentedRoutes)
  OBVIOUS
<1>19. QED
  BY <1>14, <1>15, <1>16, <1>17, <1>18, Zenon DEF RestRoutes

\* Method and resource of a call are those of the route that it matches, and so is
\* its last segment where the route has a word there.
LEMMA MatchedPattern ==
  ASSUME NEW c \in Patterns, NEW call \in Seq(STRING), MatchRESTPath(c, call)
  PROVE  /\ Len(call) > 1 /\ call[1] = c[1] /\ call[2] = c[2]
         /\ c[Len(c)] \notin {":", "**"} => call[Len(call)] = c[Len(c)]
<1>1. c \in Seq(Words) /\ Len(c) > 1 /\ (c[Len(c)] = "**" => Len(c) > 2) /\ c[1] # ":" /\ c[2] # ":"
  BY DEF Patterns
<1>2. Len(c) \in Nat /\ Len(call) \in Nat
  BY <1>1
<1>3. CASE c[Len(c)] = "**"
  <2>1. Len(call) >= Len(c) - 1 /\ \A i \in 1 .. Len(c) - 1 : c[i] \in {":", call[i]}
    BY <1>3 DEF MatchRESTPath
  <2>2. 1 \in 1 .. Len(c) - 1 /\ 2 \in 1 .. Len(c) - 1
    BY <1>1, <1>2, <1>3
  <2>3. call[1] = c[1] /\ call[2] = c[2]
    BY <1>1, <2>1, <2>2
  <2>4. QED
    BY <1>1, <1>2, <1>3, <2>1, <2>3
<1>4. CASE c[Len(c)] # "**"
  <2>1. Len(call) = Len(c) /\ \A i \in 1 .. Len(c) : c[i] \in {":", call[i]}
    BY <1>4 DEF MatchRESTPath
  <2>2. 1 \in 1 .. Len(c) /\ 2 \in 1 .. Len(c) /\ Len(c) \in 1 .. Len(c)
    BY <1>1, <1>2
  <2>3. call[1] = c[1] /\ call[2] = c[2] /\ c[Len(c)] \in {":", call[Len(c)]}
    BY <1>1, <2>1, <2>2
  <2>4. QED
    BY <1>1, <2>1, <2>3
<1>5. QED
  BY <1>3, <1>4

\* What is known of a call that a policy authorizes: the pattern and the grant of
\* the route that let it through.
LEMMA AuthorizedByRoute ==
  ASSUME NEW call \in Seq(STRING), NEW p, AuthorizeREST(call, p)
  PROVE  \E route \in DocumentedRoutes :
           /\ MatchRESTPath(route.call, call)
           /\ call[1] = "DELETE" => Allows(p, "objects.delete")
           /\ route.grant = "" \/ Allows(p, route.grant)
<1>1. PICK i \in DOMAIN RestRoutes :
        /\ IsRouteOf(i, call)
        /\ call[1] = "DELETE" => Allows(p, "objects.delete")
        /\ RestRoutes[i].grant = "" \/ Allows(p, RestRoutes[i].grant)
  BY DEF AuthorizeREST
<1>2. RestRoutes[i] \in DocumentedRoutes
  BY RoutesAreDocumented
<1>3. MatchRESTPath(RestRoutes[i].call, call)
  BY <1>1 DEF IsRouteOf
<1>4. QED
  BY <1>1, <1>2, <1>3

LEMMA DocumentedWrites ==
  ASSUME NEW call \in Seq(STRING), NEW p, AuthorizeREST(call, p)
  PROVE  DocumentedGrants(call) \subseteq Authority(p)
<1>1. PICK route \in DocumentedRoutes :
        /\ MatchRESTPath(route.call, call)
        /\ call[1] = "DELETE" => Allows(p, "objects.delete")
        /\ route.grant = "" \/ Allows(p, route.grant)
  BY AuthorizedByRoute
<1> DEFINE deletion == IF call[1] = "DELETE" THEN {"objects.delete"} ELSE {}
<1>2. deletion \subseteq Authority(p)
  BY <1>1, AuthorityConferred
<1>3. CASE route \in Rows("", PlainPatterns)
  <2>1. PICK c \in PlainPatterns : route = [grant |-> "", call |-> c]
    BY <1>3 DEF Rows
  <2>2. /\ c \in Patterns
        /\ \/ c[2] \in {"issues", "labels", "milestones"}
           \/ c[2] = "pulls" /\ c[1] # "PUT"
    BY DEF PlainPatterns, OfResources
  <2>3. call[2] = c[2] /\ call[1] = c[1]
    BY <1>1, <2>1, <2>2, MatchedPattern
  <2>4. ~ Concludes(call, "merge") /\ ~ Concludes(call, "dismissals")
    BY <2>2, <2>3 DEF Concludes
  <2>5. DocumentedGrants(call) = deletion
    BY <2>2, <2>3, <2>4 DEF DocumentedGrants
  <2>6. QED
    BY <1>2, <2>5
<1>4. CASE route \in Rows("pulls.merge", Concluding("merge"))
  <2>1. PICK c \in Concluding("merge") : route = [grant |-> "pulls.merge", call |-> c]
    BY <1>4 DEF Rows
  <2>2. c \in Patterns /\ c[2] = "pulls" /\ c[1] = "PUT" /\ c[Len(c)] = "merge"
    BY DEF Concluding, OfResources
  <2>3. Concludes(call, "merge")
    BY <1>1, <2>1, <2>2, MatchedPattern DEF Concludes
  <2>4. DocumentedGrants(call) = {"pulls.merge"} \cup deletion
    BY <2>3 DEF DocumentedGrants, Concludes
  <2>5. "pulls.merge" \in Authority(p)
    BY <1>1, <2>1, AuthorityConferred
  <2>6. QED
    BY <1>2, <2>4, <2>5
<1>5. CASE route \in Rows("pulls.review.dismiss", Concluding("dismissals"))
  <2>1. PICK c \in Concluding("dismissals") :
          route = [grant |-> "pulls.review.dismiss", call |-> c]
    BY <1>5 DEF Rows
  <2>2. c \in Patterns /\ c[2] = "pulls" /\ c[1] = "PUT" /\ c[Len(c)] = "dismissals"
    BY DEF Concluding, OfResources
  <2>3. Concludes(call, "dismissals")
    BY <1>1, <2>1, <2>2, MatchedPattern DEF Concludes
  <2>4. DocumentedGrants(call) = {"pulls.review.dismiss"} \cup deletion
    BY <2>3 DEF DocumentedGrants, Concludes
  <2>5. "pulls.review.dismiss" \in Authority(p)
    BY <1>1, <2>1, AuthorityConferred
  <2>6. QED
    BY <1>2, <2>4, <2>5
<1>6. ASSUME NEW grant, grant # "", NEW resources, NEW patterns,
             patterns \subseteq OfResources(resources),
             route \in Rows(grant, patterns),
             call[2] \in resources => DocumentedGrants(call) = {grant} \cup deletion
      PROVE  DocumentedGrants(call) \subseteq Authority(p)
  <2>1. PICK c \in patterns : route = [grant |-> grant, call |-> c]
    BY <1>6 DEF Rows
  <2>2. c \in Patterns /\ c[2] \in resources
    BY <1>6 DEF OfResources
  <2>3. call[2] \in resources
    BY <1>1, <2>1, <2>2, MatchedPattern
  <2>4. grant \in Authority(p)
    BY <1>1, <1>6, <2>1, AuthorityConferred
  <2>5. QED
    BY <1>2, <1>6, <2>3, <2>4
<1>7. CASE route \in Rows("actions.write", OfResources({"actions"}))
  BY <1>6, <1>7 DEF DocumentedGrants, Concludes
<1>8. CASE route \in Rows("checks.write",
                         OfResources({"check-runs", "check-suites", "statuses"}))
  BY <1>6, <1>8 DEF DocumentedGrants, Concludes
<1>9. CASE route \in Rows("contents.write", ContentsPatterns)
  <2>1. ContentsPatterns \subseteq OfResources({"contents", "git"})
    BY DEF ContentsPatterns, OfResources
  <2>2. QED
    BY <1>6, <1>9, <2>1 DEF DocumentedGrants, Concludes
<1>10. CASE route \in Rows("deployments.write", OfResources({"deployments"}))
  BY <1>6, <1>10 DEF DocumentedGrants, Concludes
<1>11. CASE route \in Rows("releases.write", OfResources({"releases"}))
  BY <1>6, <1>11 DEF DocumentedGrants, Concludes
<1>12. QED
  BY <1>1, <1>3, <1>4, <1>5, <1>7, <1>8, <1>9, <1>10, <1>11 DEF DocumentedRoutes

\* A content write of the table puts or deletes.
LEMMA CallsOfRoutes ==
  ASSUME NEW route \in DocumentedRoutes
  PROVE  /\ route.call \in Patterns
         /\ route.call[2] = "contents" => route.call[1] \in {"PUT", "DELETE"}
<1>1. ASSUME NEW grant, NEW patterns, route \in Rows(grant, patterns)
      PROVE  route.call \in patterns
  BY <1>1 DEF Rows
<1>2. \A c : c \in PlainPatterns \/ c \in ContentsPatterns
               => c \in Patterns /\ (c[2] = "contents" => c[1] \in {"PUT", "DELETE"})
  BY DEF PlainPatterns, ContentsPatterns, OfResources
<1>3. \A c, act : c \in Concluding(act) => c \in Patterns /\ c[2] # "contents"
  BY DEF Concluding, OfResources
<1>4. \A c, resources : c \in OfResources(resources) => c \in Patterns /\ c[2] \in resources
  BY DEF OfResources
<1>5. CASE \/ route \in Rows("", PlainPatterns)
           \/ route \in Rows("contents.write", ContentsPatterns)
  BY <1>1, <1>2, <1>5
<1>6. CASE \/ route \in Rows("pulls.merge", Concluding("merge"))
           \/ route \in Rows("pulls.review.dismiss", Concluding("dismissals"))
  BY <1>1, <1>3, <1>6
<1>7. CASE \/ route \in Rows("actions.write", OfResources({"actions"}))
           \/ route \in Rows("deployments.write", OfResources({"deployments"}))
           \/ route \in Rows("releases.write", OfResources({"releases"}))
  BY <1>1, <1>4, <1>7
<1>8. CASE route \in Rows("checks.write",
                         OfResources({"check-runs", "check-suites", "statuses"}))
  BY <1>1, <1>4, <1>8
<1>9. QED
  BY <1>5, <1>6, <1>7, <1>8 DEF DocumentedRoutes

-----------------------------------------------------------------------------
(* Documents.  The walk of the code is a recursive function: of all the sets  *)
(* of walks in which each passes by the others, the largest, and so there is  *)
(* such a function, and what it lets pass is among them.                      *)

\* The answers that say of the walks of T that they end well, and of no others.
Answers(doc, T) == [v \in Walks(doc) |-> IF v \in T THEN TRUE ELSE FALSE]

\* A walk passes if every selection of its set does, where the walks of T end well.
Passes(doc, w, T) ==
  \A s \in doc.sets[w.set] : ValidSelection(doc, w, s, Answers(doc, T))

\* The largest set of walks that pass by each other.
Passing(doc) == UNION {T \in SUBSET Walks(doc) : \A w \in T : Passes(doc, w, T)}

LEMMA AnswersOfASet ==
  ASSUME NEW doc, NEW T
  PROVE  /\ Answers(doc, T) \in [Walks(doc) -> BOOLEAN]
         /\ \A w \in Walks(doc) : Answers(doc, T)[w] <=> w \in T
BY DEF Answers

LEMMA NextWalks ==
  ASSUME NEW doc, IsDocument(doc), NEW w \in Walks(doc), NEW s \in doc.sets[w.set]
  PROVE  /\ s.kind = "field" =>
              Walk(s.set, w.identity \/ s.name \in IdentityBoundaries, w.visiting) \in Walks(doc)
         /\ s.kind = "inline" => Walk(s.set, w.identity, w.visiting) \in Walks(doc)
         /\ s.kind = "spread" /\ s.name \in DOMAIN doc.fragments =>
              Walk(doc.fragments[s.name], w.identity, w.visiting \cup {<<s.name, w.identity>>})
                \in Walks(doc)
<1>1. /\ w.set \in DOMAIN doc.sets /\ w.identity \in BOOLEAN
      /\ w.visiting \in SUBSET ((DOMAIN doc.fragments) \X BOOLEAN)
  BY DEF Walks
<1>2. s.kind \in {"field", "inline"} => s.set \in DOMAIN doc.sets
  BY <1>1 DEF IsDocument
<1>3. ASSUME s.kind = "spread", s.name \in DOMAIN doc.fragments
      PROVE  /\ doc.fragments[s.name] \in DOMAIN doc.sets
             /\ w.visiting \cup {<<s.name, w.identity>>}
                  \in SUBSET ((DOMAIN doc.fragments) \X BOOLEAN)
  BY <1>1, <1>3 DEF IsDocument
<1>4. (w.identity \/ s.name \in IdentityBoundaries) \in BOOLEAN
  OBVIOUS
<1>5. \A set \in DOMAIN doc.sets, identity \in BOOLEAN,
         visiting \in SUBSET ((DOMAIN doc.fragments) \X BOOLEAN) :
           Walk(set, identity, visiting) \in Walks(doc)
  BY DEF Walk, Walks
<1>6. QED
  BY <1>1, <1>2, <1>3, <1>4, <1>5

LEMMA PassesIsMonotone ==
  ASSUME NEW doc, IsDocument(doc), NEW w \in Walks(doc),
         NEW T, NEW U, T \subseteq U, Passes(doc, w, T)
  PROVE  Passes(doc, w, U)
<1>1. \A v \in Walks(doc) : Answers(doc, T)[v] => Answers(doc, U)[v]
  BY AnswersOfASet
<1>2. ASSUME NEW s \in doc.sets[w.set] PROVE ValidSelection(doc, w, s, Answers(doc, U))
  <2>1. ValidSelection(doc, w, s, Answers(doc, T))
    BY DEF Passes
  <2>2. QED
    BY <1>1, <2>1, NextWalks DEF ValidSelection
<1>3. QED
  BY <1>2 DEF Passes

LEMMA PassingPasses ==
  ASSUME NEW doc, IsDocument(doc)
  PROVE  /\ Passing(doc) \subseteq Walks(doc)
         /\ \A w \in Walks(doc) : w \in Passing(doc) <=> Passes(doc, w, Passing(doc))
<1>1. Passing(doc) \subseteq Walks(doc)
  BY DEF Passing
<1>2. ASSUME NEW w \in Passing(doc) PROVE Passes(doc, w, Passing(doc))
  <2>1. PICK T \in SUBSET Walks(doc) : w \in T /\ \A v \in T : Passes(doc, v, T)
    BY <1>2 DEF Passing
  <2>2. T \subseteq Passing(doc)
    BY <2>1 DEF Passing
  <2>3. QED
    BY <1>1, <2>1, <2>2, PassesIsMonotone
<1>3. ASSUME NEW w \in Walks(doc), Passes(doc, w, Passing(doc)) PROVE w \in Passing(doc)
  <2> DEFINE T == Passing(doc) \cup {w}
  <2>1. T \in SUBSET Walks(doc)
    BY <1>1
  <2>2. \A v \in T : Passes(doc, v, Passing(doc))
    BY <1>2, <1>3
  <2>3. Passing(doc) \subseteq T
    OBVIOUS
  <2>4. \A v \in T : Passes(doc, v, T)
    <3> HIDE DEF T
    <3>1. QED
      BY <2>1, <2>2, <2>3, PassesIsMonotone
  <2>5. T \subseteq Passing(doc)
    <3> HIDE DEF T
    <3>1. QED
      BY <2>1, <2>4 DEF Passing
  <2>6. QED
    BY <2>5
<1>4. QED
  BY <1>1, <1>2, <1>3

LEMMA ValidRootPasses ==
  ASSUME NEW doc, IsDocument(doc), NEW root \in DOMAIN doc.sets,
         ValidGraphQLSelections(doc, root)
  PROVE  Walk(root, FALSE, {}) \in Passing(doc)
<1> DEFINE Turn(w, f) == \A s \in doc.sets[w.set] : ValidSelection(doc, w, s, f)
           IsValid(f) == f = [w \in Walks(doc) |-> Turn(w, f)]
           valid == CHOOSE f : IsValid(f)
           g == Answers(doc, Passing(doc))
<1>1. \A w, f : Turn(w, f) \in BOOLEAN
  BY Zenon
<1>2. IsValid(g)
  <2>1. \A w \in Walks(doc) : w \in Passing(doc) <=> Turn(w, g)
    BY PassingPasses DEF Passes
  <2>2. g \in [Walks(doc) -> BOOLEAN] /\ \A w \in Walks(doc) : g[w] <=> w \in Passing(doc)
    BY AnswersOfASet
  <2> HIDE DEF g, Turn
  <2> DEFINE h == [w \in Walks(doc) |-> Turn(w, g)]
  <2>3. h \in [Walks(doc) -> BOOLEAN] /\ \A w \in Walks(doc) : h[w] <=> Turn(w, g)
    BY <1>1
  <2> HIDE DEF h
  <2>4. g = h
    BY <2>1, <2>2, <2>3
  <2>5. QED
    BY <2>4 DEF h
<1>3. IsValid(valid)
  <2> HIDE DEF IsValid, g
  <2>1. QED
    BY <1>2
<1>4. valid[Walk(root, FALSE, {})]
  BY Zenon DEF ValidGraphQLSelections
<1> DEFINE T == {w \in Walks(doc) : valid[w]}
<1> HIDE DEF valid
<1>5. ASSUME NEW w \in T PROVE Passes(doc, w, T)
  <2>1. w \in Walks(doc) /\ valid[w]
    BY <1>5
  <2>2. Turn(w, valid)
    <3> HIDE DEF Turn
    <3>1. QED
      BY <1>3, <2>1
  <2>3. \A v \in Walks(doc) : valid[v] => Answers(doc, T)[v]
    BY AnswersOfASet
  <2> HIDE DEF T
  <2>4. ASSUME NEW s \in doc.sets[w.set]
        PROVE  ValidSelection(doc, w, s, Answers(doc, T))
    BY <2>1, <2>2, <2>3, NextWalks DEF ValidSelection
  <2>5. QED
    BY <2>4 DEF Passes
<1>6. Walk(root, FALSE, {}) \in Walks(doc)
  BY DEF Walk, Walks
<1>7. Walk(root, FALSE, {}) \in T /\ T \in SUBSET Walks(doc)
  BY <1>4, <1>6
<1>8. QED
  <2> HIDE DEF T
  <2>1. QED
    BY <1>5, <1>7 DEF Passing

\* Where GitHub's evaluation goes, a walk went that passes, and knew of the identity.
Followed(doc) ==
  {at \in Places(doc) :
     \E w \in Passing(doc) : w.set = at[1] /\ (at[2] => w.identity)}

LEMMA SelectionsOfPassing ==
  ASSUME NEW doc, IsDocument(doc), NEW w \in Passing(doc), NEW s \in doc.sets[w.set]
  PROVE  \/ /\ s.kind = "field"
            /\ s.name \in RepositoryFields
            /\ w.identity => s.name \in IdentityFields
            /\ Walk(s.set, w.identity \/ s.name \in IdentityBoundaries, w.visiting)
                 \in Passing(doc)
         \/ /\ s.kind = "inline"
            /\ Walk(s.set, w.identity, w.visiting) \in Passing(doc)
         \/ /\ s.kind = "spread"
            /\ s.name \in DOMAIN doc.fragments
            /\ Walk(doc.fragments[s.name], w.identity, w.visiting \cup {<<s.name, w.identity>>})
                 \in Passing(doc)
<1>1. w \in Walks(doc) /\ Passes(doc, w, Passing(doc))
  BY PassingPasses
<1>2. ValidSelection(doc, w, s, Answers(doc, Passing(doc)))
  BY <1>1 DEF Passes
<1>3. \A v \in Walks(doc) : Answers(doc, Passing(doc))[v] => v \in Passing(doc)
  BY AnswersOfASet
<1>4. QED
  BY <1>1, <1>2, <1>3, NextWalks DEF ValidSelection

LEMMA PlacesBehind ==
  ASSUME NEW doc, IsDocument(doc), NEW v \in Passing(doc), NEW identity \in BOOLEAN,
         identity => v.identity
  PROVE  <<v.set, identity>> \in Followed(doc)
<1>1. v.set \in DOMAIN doc.sets
  BY PassingPasses DEF Walks
<1>2. <<v.set, identity>> \in Places(doc)
  BY <1>1 DEF Places
<1>3. QED
  BY <1>2 DEF Followed

LEMMA FollowedIsClosed ==
  ASSUME NEW doc, IsDocument(doc), NEW at \in Followed(doc)
  PROVE  Successors(doc, at) \subseteq Followed(doc)
<1>1. PICK w \in Passing(doc) : w.set = at[1] /\ (at[2] => w.identity)
  BY DEF Followed
<1>2. at[2] \in BOOLEAN
  BY DEF Followed, Places
<1>3. ASSUME NEW s \in doc.sets[at[1]], s.kind = "field"
      PROVE  <<s.set, at[2] \/ s.name \in IdentityTyped>> \in Followed(doc)
  <2>1. Walk(s.set, w.identity \/ s.name \in IdentityBoundaries, w.visiting) \in Passing(doc)
    BY <1>1, <1>3, SelectionsOfPassing
  <2>2. s.name \in IdentityTyped => s.name \in IdentityBoundaries
    BY DEF IdentityTyped, IdentityBoundaries
  <2>3. QED
    BY <1>1, <1>2, <2>1, <2>2, PlacesBehind DEF Walk
<1>4. ASSUME NEW s \in doc.sets[at[1]], s.kind = "inline"
      PROVE  <<s.set, at[2]>> \in Followed(doc)
  <2>1. Walk(s.set, w.identity, w.visiting) \in Passing(doc)
    BY <1>1, <1>4, SelectionsOfPassing
  <2>2. QED
    BY <1>1, <1>2, <2>1, PlacesBehind DEF Walk
<1>5. ASSUME NEW s \in doc.sets[at[1]], s.kind = "spread", s.name \in DOMAIN doc.fragments
      PROVE  <<doc.fragments[s.name], at[2]>> \in Followed(doc)
  <2>1. Walk(doc.fragments[s.name], w.identity, w.visiting \cup {<<s.name, w.identity>>})
          \in Passing(doc)
    BY <1>1, <1>5, SelectionsOfPassing
  <2>2. QED
    BY <1>1, <1>2, <2>1, PlacesBehind DEF Walk
<1>6. ASSUME NEW s \in doc.sets[at[1]]
      PROVE  (CASE s.kind = "field"  -> {<<s.set, at[2] \/ s.name \in IdentityTyped>>}
                [] s.kind = "inline" -> {<<s.set, at[2]>>}
                [] s.kind = "spread" /\ s.name \in DOMAIN doc.fragments ->
                     {<<doc.fragments[s.name], at[2]>>}
                [] OTHER -> {}) \subseteq Followed(doc)
  <2>1. CASE s.kind = "field"
    BY <1>3, <2>1
  <2>2. CASE s.kind = "inline"
    BY <1>4, <2>2
  <2>3. CASE s.kind = "spread" /\ s.name \in DOMAIN doc.fragments
    BY <1>5, <2>3
  <2>4. CASE ~ (s.kind \in {"field", "inline"}) /\ ~ (s.kind = "spread" /\ s.name \in DOMAIN doc.fragments)
    BY <2>4
  <2>5. QED
    BY <2>1, <2>2, <2>3, <2>4
<1>7. QED
  BY <1>6 DEF Successors

LEMMA NothingFollowedLeadsElsewhere ==
  ASSUME NEW doc, IsDocument(doc), NEW at \in Followed(doc),
         NEW s \in doc.sets[at[1]], s.kind = "field"
  PROVE  s.name \notin LeadsElsewhere(at[2])
<1>1. PICK w \in Passing(doc) : w.set = at[1] /\ (at[2] => w.identity)
  BY DEF Followed
<1>2. s.name \in RepositoryFields /\ (w.identity => s.name \in IdentityFields)
  BY <1>1, SelectionsOfPassing
<1>3. IdentityFields \cap {"issues", "pullRequests", "repositories", "commits"} = {}
  BY DEF IdentityFields
<1>4. RepositoryFields \cap {"parent", "collaborators", "environments"} = {}
  BY DEF RepositoryFields, IdentityFields, IdentityBoundaries
<1>5. QED
  BY <1>1, <1>2, <1>3, <1>4 DEF LeadsElsewhere

LEMMA AuthorizedStaysInside ==
  ASSUME NEW doc \in Documents, AuthorizeGraphQL(doc)
  PROVE  ~ ReachesElsewhere(doc)
<1>1. IsDocument(doc)
  BY DocumentsAssumption
<1>2. ASSUME NEW root \in doc.roots PROVE <<root.set, FALSE>> \in Followed(doc)
  <2>1. ValidGraphQLSelections(doc, root.set)
    BY <1>1, <1>2 DEF AuthorizeGraphQL, ValidGraphQLOperation, IsDocument
  <2>2. Walk(root.set, FALSE, {}) \in Passing(doc)
    BY <1>1, <2>1, ValidRootPasses DEF IsDocument
  <2>3. QED
    BY <1>1, <2>2, PlacesBehind DEF Walk
<1>3. Followed(doc) \in Closed(doc)
  <2>1. Followed(doc) \subseteq Places(doc)
    BY DEF Followed
  <2>2. \A at \in Followed(doc) :
           [x \in Places(doc) |-> Successors(doc, x)][at] \subseteq Followed(doc)
    BY <1>1, <2>1, FollowedIsClosed
  <2>3. QED
    BY <1>2, <2>1, <2>2 DEF Closed
<1>4. Evaluated(doc) \subseteq Followed(doc)
  BY <1>3 DEF Evaluated
<1>5. QED
  BY <1>1, <1>4, NothingFollowedLeadsElsewhere DEF ReachesElsewhere

-----------------------------------------------------------------------------
(* The specification. *)

PolicyInForce == policy \in Policies /\ ValidatePolicy(policy)

\* A command that is authorized writes a ref the documentation lets the policy push.
LEMMA CommandsWithinPushAuthority ==
  ASSUME PolicyInForce, NEW command, AuthorizeGitRef(command, defaultBranch, policy)
  PROVE  DocumentedRefAuthority(command.ref) \in Authority(policy) /\ ~ command.zero
<1>1. ValidatePolicy(policy) /\ policy.tags \in BOOLEAN
  BY PoliciesAssumption DEF PolicyInForce
<1>2. /\ policy.push \in {"non-default", "all"} => "push.branch" \in Authority(policy)
      /\ policy.push = "all" => "push.default-branch" \in Authority(policy)
      /\ policy.tags => "push.tag" \in Authority(policy)
  BY <1>1, AuthorityConferred
<1>3. ~ command.zero
  BY DEF AuthorizeGitRef
<1>4. CASE command.ref.space = "tags" /\ policy.tags
  BY <1>2, <1>3, <1>4 DEF DocumentedRefAuthority
<1>5. CASE command.ref.space = "heads" /\ policy.push = "all"
  <2>1. CASE command.ref.name = defaultBranch
    BY <1>2, <1>3, <1>5, <2>1 DEF DocumentedRefAuthority
  <2>2. CASE command.ref.name # defaultBranch
    BY <1>2, <1>3, <1>5, <2>2 DEF DocumentedRefAuthority
  <2>3. QED
    BY <2>1, <2>2
<1>6. CASE command.ref.space = "heads" /\ policy.push = "non-default"
           /\ command.ref.name # defaultBranch
  BY <1>2, <1>3, <1>6 DEF DocumentedRefAuthority
<1>7. QED
  BY <1>4, <1>5, <1>6 DEF AuthorizeGitRef

LEMMA RESTRefsWithinPushAuthority ==
  ASSUME PolicyInForce, NEW ref, AuthorizeRESTRef(ref, defaultBranch, policy)
  PROVE  /\ ref.form \in {"tags", "bare", "heads"}
         /\ ref.form = "tags" =>
              \A name : DocumentedRefAuthority(Ref("tags", name)) \in Authority(policy)
         /\ ref.form \in {"bare", "heads"} =>
              DocumentedRefAuthority(Ref("heads", ref.name)) \in Authority(policy)
<1>1. CASE ref.form = "tags" /\ policy.tags
  <2>1. ASSUME NEW name
        PROVE  DocumentedRefAuthority(Ref("tags", name)) \in Authority(policy)
    <3>1. AuthorizeGitRef(Command(FALSE, "tags", name), defaultBranch, policy)
      BY <1>1 DEF AuthorizeGitRef, Command
    <3>2. Command(FALSE, "tags", name).ref = Ref("tags", name)
      BY DEF Command, Ref
    <3>3. QED
      BY <3>1, <3>2, CommandsWithinPushAuthority
  <2>2. QED
    BY <1>1, <2>1
<1>2. CASE /\ ref.form \in {"bare", "heads"}
           /\ AuthorizeGitRef(Command(FALSE, "heads", ref.name), defaultBranch, policy)
  <2>1. Command(FALSE, "heads", ref.name).ref = Ref("heads", ref.name)
    BY DEF Command, Ref
  <2>2. QED
    BY <1>2, <2>1, CommandsWithinPushAuthority
<1>3. QED
  BY <1>1, <1>2 DEF AuthorizeRESTRef

\* Every way for a REST write to reach a ref, by its path, by its body or by
\* leaving it out, passes the check of refs; a content write is one that names one.
LEMMA WritesWithinPushAuthority ==
  ASSUME PolicyInForce, NEW op \in Operations, op.kind = "rest",
         AuthorizeOperation(op, defaultBranch, policy)
  PROVE  \A ref \in RefsOfREST(op) : DocumentedRefAuthority(ref) \in Authority(policy)
<1> DEFINE call == op.call
           body == op.body
           meant == IF body.ref.form = "absent"
                      THEN [form |-> "bare", name |-> defaultBranch] ELSE body.ref
           named == IF body.ref.form = "bare" THEN "heads" ELSE body.ref.form
           ref0 == Ref(named, body.ref.name)
<1>1. /\ call \in Seq(STRING)
      /\ AuthorizeREST(call, policy)
      /\ AuthorizeRESTBody(call, body, defaultBranch, policy)
  BY OperationsAssumption DEF AuthorizeOperation
<1>2. CASE MovesRef(call)
  <2>0. /\ call[1] = "PATCH" /\ call[2] = "git" /\ Len(call) > 3
        /\ ~ OpensPull(call) /\ ~ CreatesRelease(call) /\ ~ EditsRelease(call)
        /\ ~ NamesRef(call) /\ call[2] # "contents" /\ call # <<"POST", "git", "refs">>
    BY <1>2 DEF MovesRef, OpensPull, CreatesRelease, EditsRelease, NamesRef
  <2>1. AuthorizeRESTRef(PathRef(call), defaultBranch, policy)
    BY <1>1, <1>2, <2>0 DEF AuthorizeRESTBody
  <2>2. RefsOfREST(op) = {Ref(PathRef(call).form, PathRef(call).name)}
    BY <1>2, <2>0 DEF RefsOfREST
  <2>3. PathRef(call).form \in {"heads", "tags", "other"}
    BY DEF PathRef
  <2>4. QED
    BY <2>1, <2>2, <2>3, RESTRefsWithinPushAuthority
<1>3. CASE call[2] = "contents"
  <2>1. Len(call) > 1 /\ call[1] \in {"PUT", "DELETE"}
    <3>1. PICK route \in DocumentedRoutes : MatchRESTPath(route.call, call)
      BY <1>1, AuthorizedByRoute
    <3>2. route.call \in Patterns
      BY CallsOfRoutes
    <3>3. call[1] = route.call[1] /\ call[2] = route.call[2] /\ Len(call) > 1
      BY <1>1, <3>1, <3>2, MatchedPattern
    <3>4. QED
      BY <1>3, <3>3, CallsOfRoutes
  <2>2. AuthorizeRESTRef(meant, defaultBranch, policy)
    <3>1. NamesRef(call)
      BY <1>3, <2>1 DEF NamesRef
    <3>2. ~ MovesRef(call) /\ ~ OpensPull(call) /\ ~ CreatesRelease(call) /\ ~ EditsRelease(call)
      BY <1>3 DEF MovesRef, OpensPull, CreatesRelease, EditsRelease
    <3>3. QED
      BY <1>1, <3>1, <3>2 DEF AuthorizeRESTBody
  <2>3. RefsOfREST(op) = IF named = "absent" THEN {Ref("heads", defaultBranch)}
                         ELSE IF named = "heads" THEN {ref0} ELSE {}
    <3>1. /\ ~ MovesRef(call) /\ ~ CreatesRelease(call) /\ ~ EditsRelease(call)
          /\ call # <<"POST", "git", "refs">>
      BY <1>3 DEF MovesRef, CreatesRelease, EditsRelease
    <3>2. QED
      BY <1>3, <3>1 DEF RefsOfREST
  <2>4. CASE named = "absent"
    <3>1. body.ref.form = "absent"
      BY <2>4
    <3>2. meant.form = "bare" /\ meant.name = defaultBranch
      BY <3>1
    <3>3. DocumentedRefAuthority(Ref("heads", defaultBranch)) \in Authority(policy)
      BY <2>2, <3>2, RESTRefsWithinPushAuthority
    <3>4. QED
      BY <2>3, <2>4, <3>3
  <2>5. CASE named = "heads"
    <3>1. meant = body.ref /\ body.ref.form \in {"bare", "heads"}
      BY <2>5
    <3>2. QED
      BY <2>2, <2>3, <2>5, <3>1, RESTRefsWithinPushAuthority
  <2>6. QED
    BY <2>3, <2>4, <2>5
<1>4. CASE call = <<"POST", "git", "refs">>
  <2>1. AuthorizeRESTRef(meant, defaultBranch, policy)
    <3>1. NamesRef(call)
      BY <1>4 DEF NamesRef
    <3>2. ~ MovesRef(call) /\ ~ OpensPull(call) /\ ~ CreatesRelease(call) /\ ~ EditsRelease(call)
      BY <1>4 DEF MovesRef, OpensPull, CreatesRelease, EditsRelease
    <3>3. QED
      BY <1>1, <3>1, <3>2 DEF AuthorizeRESTBody
  <2>2. RefsOfREST(op) = IF body.ref.form \in RefSpaces THEN {ref0} ELSE {}
    <3>1. ~ MovesRef(call) /\ call[2] # "contents"
      BY <1>4 DEF MovesRef
    <3>2. ~ CreatesRelease(call) /\ ~ EditsRelease(call)
      BY <1>4 DEF CreatesRelease, EditsRelease
    <3>3. QED
      BY <1>4, <3>1, <3>2 DEF RefsOfREST
  <2>3. CASE body.ref.form \in RefSpaces
    <3>1. meant = body.ref /\ named = body.ref.form
      BY <2>3 DEF RefSpaces
    <3>2. QED
      BY <2>1, <2>2, <2>3, <3>1, RESTRefsWithinPushAuthority
  <2>4. QED
    BY <2>2, <2>3
<1>5. CASE CreatesRelease(call) \/ (EditsRelease(call) /\ body.tag)
  <2>1. ~ MovesRef(call) /\ ~ OpensPull(call) /\ ~ NamesRef(call) /\ call[2] # "contents"
        /\ call # <<"POST", "git", "refs">>
    BY <1>5 DEF MovesRef, OpensPull, NamesRef, CreatesRelease, EditsRelease
  <2>2. policy.tags
    BY <1>1, <1>5, <2>1 DEF AuthorizeRESTBody, CreatesRelease, EditsRelease
  <2>3. RefsOfREST(op) = {Ref("tags", <<"release">>)}
    BY <1>5, <2>1 DEF RefsOfREST
  <2>4. AuthorizeRESTRef([form |-> "tags", name |-> <<"release">>], defaultBranch, policy)
    BY <2>2 DEF AuthorizeRESTRef
  <2>5. QED
    BY <2>3, <2>4, RESTRefsWithinPushAuthority
<1>6. CASE /\ ~ MovesRef(call) /\ call[2] # "contents" /\ call # <<"POST", "git", "refs">>
           /\ ~ (CreatesRelease(call) \/ (EditsRelease(call) /\ body.tag))
  BY <1>6 DEF RefsOfREST
<1>7. QED
  BY <1>2, <1>3, <1>4, <1>5, <1>6

\* While a push is read there is room for one more line.
ReadingAPush == stage = "reading" => request = Push /\ Len(sent) < MaxGitCommands

\* What was found to be allowed when a request was forwarded: the policy and the
\* observed default branch are those the check was made with.
ForwardedIsAuthorized ==
  stage = "forwarded" =>
    \/ request \in Operations /\ AuthorizeOperation(request, defaultBranch, policy)
    \/ /\ request.kind = "graphql" /\ request.document \in Documents
       /\ AuthorizeGraphQL(request.document)
       /\ request.variables = ForwardedVariables(request.document)
    \/ /\ request = Push
       /\ Len(sent) > 0 /\ sent[Len(sent)].kind = "flush"
       /\ \A i \in CommandsRead : AuthorizeGitRef(sent[i], defaultBranch, policy)

EnforcementInv == TypeOK /\ PolicyInForce /\ ReadingAPush /\ ForwardedIsAuthorized

LEMMA TypeOfPolicy ==
  ASSUME PolicyInForce
  PROVE  /\ policy \in Policies
         /\ policy.profile = Developer /\ policy.push \in PushModes
         /\ \A grant \in DOMAIN policy.grants : IsKnownGrant(grant)
BY DEF PolicyInForce, ValidatePolicy

LEMMA InitHoldsInv == Init => EnforcementInv
<1>1. SUFFICES ASSUME Init PROVE EnforcementInv
  OBVIOUS
<1>2. PolicyInForce
  BY <1>1 DEF Init, PolicyInForce
<1>3. sent \in Seq(Lines) /\ Len(sent) <= MaxGitCommands
  BY <1>1, LimitAssumption DEF Init
<1>4. TypeOK
  BY <1>1, <1>2, <1>3, TypeOfPolicy DEF Init, TypeOK
<1>5. QED
  BY <1>1, <1>2, <1>4 DEF Init, EnforcementInv, ReadingAPush, ForwardedIsAuthorized

LEMMA ReplaceHoldsInv ==
  ASSUME EnforcementInv, NEW p \in Policies, Replace(p)
  PROVE  EnforcementInv'
<1>1. /\ stage = "idle" /\ policy' = p /\ ValidatePolicy(p)
      /\ UNCHANGED <<defaultBranch, stage, request, sent>>
  BY DEF Replace
<1>2. PolicyInForce'
  BY <1>1 DEF PolicyInForce, ValidatePolicy
<1>3. TypeOK'
  BY <1>1, <1>2 DEF EnforcementInv, TypeOK, PolicyInForce, ValidatePolicy
<1>4. QED
  BY <1>1, <1>2, <1>3 DEF EnforcementInv, ReadingAPush, ForwardedIsAuthorized

LEMMA ServeHoldsInv ==
  ASSUME EnforcementInv, NEW op \in Operations, NEW branch \in Branches, Serve(op, branch)
  PROVE  EnforcementInv'
<1>1. /\ request' = op /\ defaultBranch' = branch
      /\ stage' = IF AuthorizeOperation(op, branch, policy) THEN "forwarded" ELSE "refused"
      /\ UNCHANGED <<policy, sent>>
  BY DEF Serve
<1>2. PolicyInForce'
  BY <1>1 DEF EnforcementInv, PolicyInForce, ValidatePolicy
<1>3. TypeOK'
  BY <1>1 DEF EnforcementInv, TypeOK
<1>4. ForwardedIsAuthorized'
  <2>1. SUFFICES ASSUME stage' = "forwarded"
                 PROVE  request' \in Operations
                          /\ AuthorizeOperation(request', defaultBranch', policy')
    BY DEF ForwardedIsAuthorized
  <2>2. AuthorizeOperation(op, branch, policy)
    BY <1>1, <2>1
  <2>3. QED
    BY <1>1, <2>2
<1>5. QED
  BY <1>1, <1>2, <1>3, <1>4 DEF EnforcementInv, ReadingAPush

LEMMA ServeGraphQLHoldsInv ==
  ASSUME EnforcementInv, NEW doc \in Documents, ServeGraphQL(doc)
  PROVE  EnforcementInv'
<1>1. /\ request' = Query(doc, ForwardedVariables(doc))
      /\ stage' = IF AuthorizeGraphQL(doc) THEN "forwarded" ELSE "refused"
      /\ UNCHANGED <<policy, defaultBranch, sent>>
  BY DEF ServeGraphQL
<1>2. /\ request'.kind = "graphql" /\ request'.document = doc
      /\ request'.variables = ForwardedVariables(doc)
  BY <1>1 DEF Query
<1>3. PolicyInForce'
  BY <1>1 DEF EnforcementInv, PolicyInForce, ValidatePolicy
<1>4. TypeOK'
  BY <1>1, <1>2 DEF EnforcementInv, TypeOK
<1>5. ForwardedIsAuthorized'
  BY <1>1, <1>2 DEF ForwardedIsAuthorized
<1>6. QED
  BY <1>1, <1>3, <1>4, <1>5 DEF EnforcementInv, ReadingAPush

LEMMA ReceivePushHoldsInv ==
  ASSUME EnforcementInv, NEW branch \in Branches, ReceivePush(branch)
  PROVE  EnforcementInv'
<1>1. /\ request' = Push /\ defaultBranch' = branch /\ stage' = "reading" /\ sent' = <<>>
      /\ UNCHANGED policy
  BY DEF ReceivePush
<1>2. PolicyInForce'
  BY <1>1 DEF EnforcementInv, PolicyInForce, ValidatePolicy
<1>3. sent' \in Seq(Lines) /\ Len(sent') = 0 /\ Len(sent') < MaxGitCommands
  BY <1>1, LimitAssumption
<1>4. TypeOK'
  BY <1>1, <1>3, LimitAssumption DEF EnforcementInv, TypeOK
<1>5. QED
  BY <1>1, <1>2, <1>3, <1>4 DEF EnforcementInv, ReadingAPush, ForwardedIsAuthorized

\* What every step that reads a line has in common.
LEMMA ReadKeeps ==
  ASSUME EnforcementInv, NEW line \in Lines, Read(line)
  PROVE  /\ request' = Push /\ UNCHANGED <<policy, defaultBranch>>
         /\ sent' = Append(sent, line) /\ sent \in Seq(Lines) /\ sent' \in Seq(Lines)
         /\ Len(sent) < MaxGitCommands /\ Len(sent') = Len(sent) + 1
         /\ PolicyInForce'
         /\ stage' \in {"reading", "forwarded", "refused"} => TypeOK'
<1>1. /\ stage = "reading" /\ sent' = Append(sent, line)
      /\ UNCHANGED <<policy, defaultBranch, request>>
  BY DEF Read
<1>2. request = Push /\ Len(sent) < MaxGitCommands /\ sent \in Seq(Lines)
  BY <1>1 DEF EnforcementInv, ReadingAPush, TypeOK
<1>3. sent' \in Seq(Lines) /\ Len(sent') = Len(sent) + 1 /\ Len(sent) \in Nat
  BY <1>1, <1>2
<1>4. PolicyInForce'
  BY <1>1 DEF EnforcementInv, PolicyInForce, ValidatePolicy
<1>5. Len(sent') <= MaxGitCommands
  BY <1>2, <1>3, LimitAssumption
<1>6. stage' \in {"reading", "forwarded", "refused"} => TypeOK'
  BY <1>1, <1>2, <1>3, <1>5 DEF EnforcementInv, TypeOK
<1>7. QED
  BY <1>1, <1>2, <1>3, <1>4, <1>6

LEMMA ReadFlushHoldsInv ==
  ASSUME EnforcementInv, NEW line \in Lines, ReadFlush(line)
  PROVE  EnforcementInv'
<1>1. /\ line.kind = "flush" /\ Read(line)
      /\ stage' = IF /\ CommandsRead # {}
                     /\ \A i \in CommandsRead : AuthorizeGitRef(sent[i], defaultBranch, policy)
                    THEN "forwarded" ELSE "refused"
  BY DEF ReadFlush
<1>2. stage' \in {"forwarded", "refused"}
  BY <1>1
<1>3. TypeOK' /\ PolicyInForce'
  BY <1>1, <1>2, ReadKeeps
<1>4. ForwardedIsAuthorized'
  <2>1. SUFFICES ASSUME stage' = "forwarded"
                 PROVE  /\ request' = Push
                        /\ Len(sent') > 0 /\ sent'[Len(sent')].kind = "flush"
                        /\ \A i \in CommandsRead' :
                             AuthorizeGitRef(sent'[i], defaultBranch', policy')
    BY DEF ForwardedIsAuthorized
  <2>2. \A i \in CommandsRead : AuthorizeGitRef(sent[i], defaultBranch, policy)
    BY <1>1, <2>1
  <2>3. /\ request' = Push /\ UNCHANGED <<policy, defaultBranch>>
        /\ sent' = Append(sent, line) /\ sent \in Seq(Lines) /\ Len(sent') = Len(sent) + 1
    BY <1>1, ReadKeeps
  <2>4. Len(sent') > 0 /\ sent'[Len(sent')] = line
    BY <2>3
  <2>5. ASSUME NEW i \in CommandsRead'
        PROVE  i \in CommandsRead /\ sent'[i] = sent[i]
    <3>1. i \in 1 .. Len(sent) + 1 /\ sent'[i].kind = "command"
      BY <2>3, <2>5 DEF CommandsRead
    <3>2. i # Len(sent) + 1
      BY <1>1, <2>3, <2>4, <3>1
    <3>3. i \in 1 .. Len(sent)
      BY <2>3, <3>1, <3>2
    <3>4. sent'[i] = sent[i]
      BY <2>3, <3>3
    <3>5. QED
      BY <2>3, <3>1, <3>3, <3>4 DEF CommandsRead
  <2>6. QED
    BY <1>1, <2>2, <2>3, <2>4, <2>5
<1>5. QED
  BY <1>2, <1>3, <1>4 DEF EnforcementInv, ReadingAPush

LEMMA ReadOnHoldsInv ==
  ASSUME EnforcementInv, NEW line \in Lines, Read(line), ReadOn \/ stage' = "refused"
  PROVE  EnforcementInv'
<1>1. stage' \in {"reading", "refused"}
  BY DEF ReadOn
<1>2. stage' = "reading" => Len(sent) + 1 < MaxGitCommands
  BY DEF ReadOn
<1>3. TypeOK' /\ PolicyInForce' /\ request' = Push /\ Len(sent') = Len(sent) + 1
  BY <1>1, ReadKeeps
<1>4. QED
  BY <1>1, <1>2, <1>3 DEF EnforcementInv, ReadingAPush, ForwardedIsAuthorized

LEMMA FinishHoldsInv ==
  ASSUME EnforcementInv, Finish
  PROVE  EnforcementInv'
<1>1. /\ stage' = "idle" /\ request' = Push /\ sent' = <<>>
      /\ UNCHANGED <<policy, defaultBranch>>
  BY DEF Finish
<1>2. PolicyInForce'
  BY <1>1 DEF EnforcementInv, PolicyInForce, ValidatePolicy
<1>3. sent' \in Seq(Lines) /\ Len(sent') <= MaxGitCommands
  BY <1>1, LimitAssumption
<1>4. TypeOK'
  BY <1>1, <1>3 DEF EnforcementInv, TypeOK
<1>5. QED
  BY <1>1, <1>2, <1>4 DEF EnforcementInv, ReadingAPush, ForwardedIsAuthorized

LEMMA NextHoldsInv == EnforcementInv /\ [Next]_vars => EnforcementInv'
<1>1. SUFFICES ASSUME EnforcementInv, [Next]_vars PROVE EnforcementInv'
  OBVIOUS
<1>2. ASSUME NEW p \in Policies, Replace(p) PROVE EnforcementInv'
  BY <1>1, <1>2, ReplaceHoldsInv
<1>3. ASSUME NEW op \in Operations, NEW branch \in Branches, Serve(op, branch)
      PROVE  EnforcementInv'
  BY <1>1, <1>3, ServeHoldsInv
<1>4. ASSUME NEW doc \in Documents, ServeGraphQL(doc) PROVE EnforcementInv'
  BY <1>1, <1>4, ServeGraphQLHoldsInv
<1>5. ASSUME NEW branch \in Branches, ReceivePush(branch) PROVE EnforcementInv'
  BY <1>1, <1>5, ReceivePushHoldsInv
<1>6. ASSUME NEW line \in Lines, ReadFlush(line) PROVE EnforcementInv'
  BY <1>1, <1>6, ReadFlushHoldsInv
<1>7. ASSUME NEW line \in Lines, ReadCommand(line) \/ ReadShallow(line) \/ ReadInvalid(line)
      PROVE  EnforcementInv'
  <2>1. Read(line) /\ (ReadOn \/ stage' = "refused")
    BY <1>7 DEF ReadCommand, ReadShallow, ReadInvalid
  <2>2. QED
    BY <1>1, <2>1, ReadOnHoldsInv
<1>8. CASE Finish
  BY <1>1, <1>8, FinishHoldsInv
<1>9. CASE UNCHANGED vars
  BY <1>1, <1>9 DEF vars, EnforcementInv, TypeOK, PolicyInForce, ValidatePolicy, ReadingAPush,
                    ForwardedIsAuthorized, CommandsRead
<1>10. QED
  BY <1>1, <1>2, <1>3, <1>4, <1>5, <1>6, <1>7, <1>8, <1>9 DEF Next

\* What stands behind a forwarded request (server.go, policy.go, git.go): the check
\* it passed still holds of the policy in force.
THEOREM EnforcementInvariant == Spec => []EnforcementInv
<1>1. QED
  BY InitHoldsInv, NextHoldsInv, PTL DEF Spec

\* Every state of the dispatch has its type; only valid profiles are in force.
THEOREM EnforcementIsTyped == Spec => []TypeOK
<1>1. EnforcementInv => TypeOK
  BY DEF EnforcementInv
<1>2. QED
  BY <1>1, EnforcementInvariant, PTL

\* By whatever route a forwarded request reaches a ref (policy.go, authorizeREST and
\* authorizeRESTBody; git.go, authorizeReceivePack), the policy lets the token push it.
THEOREM RefsStayWithinAuthority == Spec => []RefsWithinPushAuthority
<1>1. ASSUME EnforcementInv, stage = "forwarded"
      PROVE  /\ \A ref \in RefsWritten : DocumentedRefAuthority(ref) \in Authority(policy)
             /\ request = Push => /\ sent[Len(sent)].kind = "flush"
                                  /\ \A i \in CommandsRead : ~ sent[i].zero
  <2>1. PolicyInForce
    BY <1>1 DEF EnforcementInv
  <2>2. CASE request \in Operations /\ AuthorizeOperation(request, defaultBranch, policy)
    <3>1. request.kind \in {"rest", "git", "lfs"}
      BY <2>2 DEF AuthorizeOperation
    <3>2. request # Push
      BY <3>1 DEF Push
    <3>3. CASE request.kind = "rest"
      <4>1. RefsWritten = RefsOfREST(request)
        BY <3>3 DEF RefsWritten
      <4>2. QED
        BY <2>1, <2>2, <3>2, <3>3, <4>1, WritesWithinPushAuthority
    <3>4. CASE request.kind # "rest"
      BY <3>1, <3>2, <3>4 DEF RefsWritten
    <3>5. QED
      BY <3>3, <3>4
  <2>3. CASE request.kind = "graphql"
    BY <2>3 DEF RefsWritten, Push
  <2>4. CASE /\ request = Push
             /\ Len(sent) > 0 /\ sent[Len(sent)].kind = "flush"
             /\ \A i \in CommandsRead : AuthorizeGitRef(sent[i], defaultBranch, policy)
    <3>1. RefsWritten = {sent[i].ref : i \in CommandsRead}
      BY <2>4 DEF RefsWritten, Push
    <3>2. \A i \in CommandsRead :
             DocumentedRefAuthority(sent[i].ref) \in Authority(policy) /\ ~ sent[i].zero
      BY <2>1, <2>4, CommandsWithinPushAuthority
    <3>3. QED
      BY <2>4, <3>1, <3>2
  <2>5. QED
    BY <1>1, <2>2, <2>3, <2>4 DEF EnforcementInv, ForwardedIsAuthorized
<1>2. EnforcementInv => RefsWithinPushAuthority
  BY <1>1 DEF RefsWithinPushAuthority
<1>3. QED
  BY <1>2, EnforcementInvariant, PTL

\* A REST write that is forwarded is one of the table of routes (policy.go), and the
\* policy grants what the documentation of its resource asks for.
THEOREM WritesAreDocumented == Spec => []WritesAsDocumented
<1>1. ASSUME EnforcementInv, stage = "forwarded", request.kind = "rest"
      PROVE  request.inside /\ DocumentedGrants(request.call) \subseteq Authority(policy)
  <2>1. request \in Operations /\ AuthorizeOperation(request, defaultBranch, policy)
    BY <1>1 DEF EnforcementInv, ForwardedIsAuthorized, Push
  <2>2. request.inside /\ AuthorizeREST(request.call, policy)
    BY <1>1, <2>1 DEF AuthorizeOperation
  <2>3. request.call \in Seq(STRING)
    BY <1>1, <2>1, OperationsAssumption
  <2>4. QED
    BY <2>2, <2>3, DocumentedWrites
<1>2. EnforcementInv => WritesAsDocumented
  BY <1>1 DEF WritesAsDocumented
<1>3. QED
  BY <1>2, EnforcementInvariant, PTL

\* ClassifyRequest (server.go) calls a mutation whatever changes something at GitHub
\* and is let through.
THEOREM ChangesAreTreatedAsMutations == Spec => []ChangesAreMutations
<1>1. ASSUME EnforcementInv, stage = "forwarded", ChangesGitHub(request)
      PROVE  ClassifyRequest(request) = "mutation"
  <2>1. CASE request.kind \in {"rest", "push"}
    BY <2>1 DEF ClassifyRequest
  <2>2. CASE /\ request.kind = "lfs" /\ request.method = "POST"
             /\ \/ request.path = "locks"
                \/ request.path = "objects/batch" /\ request.operation = "upload"
    BY <2>2 DEF ClassifyRequest
  <2>3. CASE request.kind = "graphql" /\ request.document.operation = "mutation"
    <3>1. AuthorizeGraphQL(request.document)
      BY <1>1, <2>3 DEF EnforcementInv, ForwardedIsAuthorized, AuthorizeOperation, Push
    <3>2. request.document.operation = "query"
      BY <3>1 DEF AuthorizeGraphQL, ValidGraphQLOperation
    <3>3. QED
      BY <2>3, <3>2
  <2>4. QED
    BY <1>1, <2>1, <2>2, <2>3 DEF ChangesGitHub
<1>2. EnforcementInv => ChangesAreMutations
  BY <1>1 DEF ChangesAreMutations
<1>3. QED
  BY <1>2, EnforcementInvariant, PTL

\* A GraphQL document that is forwarded asks for the repository of the Session by the
\* variables the broker sets, and leads to no other one (graphql.go, authorizeGraphQL,
\* validGraphQLOperation and validGraphQLSelections), whatever fragments it is made of.
THEOREM QueriesAreConfined == Spec => []QueriesStayInside
<1>1. ASSUME EnforcementInv, stage = "forwarded", request.kind = "graphql"
      PROVE  /\ \A root \in request.document.roots :
                  /\ request.variables["owner"] = "target's"
                  /\ request.variables[NameOf(request.document.family)] = "target's"
             /\ ~ ReachesElsewhere(request.document)
  <2> DEFINE doc == request.document
  <2>1. doc \in Documents /\ AuthorizeGraphQL(doc) /\ request.variables = ForwardedVariables(doc)
    BY <1>1 DEF EnforcementInv, ForwardedIsAuthorized, AuthorizeOperation, Push
  <2> HIDE DEF doc
  <2>2. ~ ReachesElsewhere(doc)
    BY <2>1, AuthorizedStaysInside
  <2>3. ASSUME NEW root \in doc.roots
        PROVE  /\ request.variables["owner"] = "target's"
               /\ request.variables[NameOf(doc.family)] = "target's"
    <3>1. ~ doc.probe
      BY <2>1, <2>3, DocumentsAssumption DEF IsDocument
    <3>2. doc.family \in RepositoryFamilies
      BY <2>1, <3>1 DEF AuthorizeGraphQL, ValidGraphQLOperation
    <3>3. doc.family \notin SchemaFamilies
      BY <3>2 DEF RepositoryFamilies, SchemaFamilies, NameVariable
    <3>4. "owner" \in Trusted(doc.family) /\ NameOf(doc.family) \in Trusted(doc.family)
      BY DEF Trusted
    <3>5. QED
      BY <2>1, <3>3, <3>4 DEF ForwardedVariables
  <2>4. QED
    BY <2>2, <2>3 DEF doc
<1>2. EnforcementInv => QueriesStayInside
  BY <1>1 DEF QueriesStayInside
<1>3. QED
  BY <1>2, EnforcementInvariant, PTL

\* What the register records for a change (policy_change.go) never understates
\* what policy.go, git.go and server.go let through after it or refuse after it.
THEOREM EveryChangeIsReported == Spec => ChangesAreReported
<1>1. ASSUME PolicyInForce, PolicyInForce', NEW branch \in Branches
      PROVE  /\ \/ Permits(policy', branch) \subseteq Permits(policy, branch)
                \/ ClassifyPolicyChange(policy, policy') \in {"broadened", "mixed"}
             /\ \/ Permits(policy, branch) \subseteq Permits(policy', branch)
                \/ ClassifyPolicyChange(policy, policy') \in {"narrowed", "mixed"}
  <2>1. /\ policy \in Policies /\ ValidatePolicy(policy) /\ policy.tags \in BOOLEAN
        /\ policy' \in Policies /\ ValidatePolicy(policy') /\ policy'.tags \in BOOLEAN
    BY <1>1, PoliciesAssumption DEF PolicyInForce, ValidatePolicy
  <2>2. CASE Gains(policy, policy') /\ Gains(policy', policy)
    BY <2>2 DEF ClassifyPolicyChange
  <2>3. ~ Gains(policy, policy') => Permits(policy', branch) \subseteq Permits(policy, branch)
    BY <2>1, CoversWhatGainsNothing, PermitsIsMonotone
  <2>4. ~ Gains(policy', policy) => Permits(policy, branch) \subseteq Permits(policy', branch)
    BY <2>1, CoversWhatGainsNothing, PermitsIsMonotone
  <2>5. CASE Gains(policy, policy') /\ ~ Gains(policy', policy)
    BY <2>4, <2>5 DEF ClassifyPolicyChange
  <2>6. CASE ~ Gains(policy, policy') /\ Gains(policy', policy)
    BY <2>3, <2>6 DEF ClassifyPolicyChange
  <2>7. QED
    BY <2>2, <2>3, <2>4, <2>5, <2>6
<1>2. PolicyInForce /\ PolicyInForce' =>
        [policy' # policy => \A branch \in Branches :
           LET before    == Permits(policy, branch)
               after     == Permits(policy', branch)
               direction == ClassifyPolicyChange(policy, policy')
           IN  /\ after \subseteq before \/ direction \in {"broadened", "mixed"}
               /\ before \subseteq after \/ direction \in {"narrowed", "mixed"}]_vars
  BY <1>1
<1>3. EnforcementInv => PolicyInForce
  BY DEF EnforcementInv
<1>4. QED
  BY <1>2, <1>3, EnforcementInvariant, PTL DEF ChangesAreReported

\* What the code counts as gained is an authority the old policy does not confer.
LEMMA GainsConfers ==
  ASSUME NEW before, ValidatePolicy(before), before.tags \in BOOLEAN,
         NEW after, ValidatePolicy(after), after.tags \in BOOLEAN,
         Gains(before, after)
  PROVE  \E authority \in Authority(after) : authority \notin Authority(before)
<1>1. CASE \E grant \in DOMAIN after.grants : ~ Allows(before, grant)
  <2>1. PICK grant \in DOMAIN after.grants : ~ Allows(before, grant)
    BY <1>1
  <2>2. grant \in KnownGrants /\ Allows(after, grant)
    BY <2>1 DEF ValidatePolicy, IsKnownGrant, Allows
  <2>3. QED
    BY <2>1, <2>2, AuthorityConferred, AuthorityComesFrom
<1>2. CASE GitPushAuthority(after.push) > GitPushAuthority(before.push)
  <2>1. after.push \in PushModes /\ before.push \in PushModes
    BY DEF ValidatePolicy
  <2>2. \/ after.push \in {"non-default", "all"} /\ before.push \notin {"non-default", "all"}
        \/ after.push = "all" /\ before.push # "all"
    BY <1>2, <2>1 DEF GitPushAuthority, PushModes
  <2>3. QED
    BY <2>2, AuthorityConferred, AuthorityComesFrom
<1>3. CASE after.tags /\ ~ before.tags
  BY <1>3, AuthorityConferred, AuthorityComesFrom
<1>4. QED
  BY <1>1, <1>2, <1>3 DEF Gains

LEMMA GainsLetThrough ==
  ASSUME EveryAuthorityIsAskedFor, NEW branch \in Branches,
         NEW before \in Policies, ValidatePolicy(before),
         NEW after \in Policies, ValidatePolicy(after),
         Gains(before, after)
  PROVE  ~ (Permits(after, branch) \subseteq Permits(before, branch))
<1> DEFINE valid == {p \in Policies : ValidatePolicy(p)}
<1>1. before \in valid /\ after \in valid
  OBVIOUS
<1>2. PICK authority \in Authority(after) : authority \notin Authority(before)
  BY GainsConfers, PoliciesAssumption
<1>3. authority \in UNION {Authority(p) : p \in valid}
  BY <1>1, <1>2
<1>4. \/ \E command \in Commands : \A p \in valid :
           AuthorizeGitRef(command, branch, p) <=> authority \in Authority(p)
      \/ \E op \in Operations : \A p \in valid :
           AuthorizeOperation(op, branch, p) <=> authority \in Authority(p)
  BY <1>3, Zenon DEF EveryAuthorityIsAskedFor
<1> HIDE DEF valid
<1>5. CASE \E command \in Commands : \A p \in valid :
             AuthorizeGitRef(command, branch, p) <=> authority \in Authority(p)
  <2>1. PICK command \in Commands : \A p \in valid :
          AuthorizeGitRef(command, branch, p) <=> authority \in Authority(p)
    BY <1>5
  <2>2. AuthorizeGitRef(command, branch, after) /\ ~ AuthorizeGitRef(command, branch, before)
    BY <1>1, <1>2, <2>1
  <2>3. ~ AuthorizeOperation(command, branch, before)
    BY DEF AuthorizeOperation, Commands
  <2>4. QED
    BY <2>2, <2>3 DEF Permits
<1>6. CASE \E op \in Operations : \A p \in valid :
             AuthorizeOperation(op, branch, p) <=> authority \in Authority(p)
  <2>1. PICK op \in Operations : \A p \in valid :
          AuthorizeOperation(op, branch, p) <=> authority \in Authority(p)
    BY <1>6
  <2>2. AuthorizeOperation(op, branch, after) /\ ~ AuthorizeOperation(op, branch, before)
    BY <1>1, <1>2, <2>1
  <2>3. op \notin Commands
    BY <2>2 DEF AuthorizeOperation, Commands
  <2>4. QED
    BY <2>2, <2>3 DEF Permits
<1>7. QED
  BY <1>4, <1>5, <1>6

\* Where the operations and commands are rich enough to ask for each authority by
\* itself, as those of the run are, the direction ClassifyPolicyChange
\* (policy_change.go) records is no overstatement either: it is the direction in which
\* what the handlers let through changes.
THEOREM ReportedChangesShow ==
  ASSUME EveryAuthorityIsAskedFor
  PROVE  Spec => ReportedChangesAreReal
<1>1. ASSUME PolicyInForce, PolicyInForce', NEW branch \in Branches
      PROVE  ClassifyPolicyChange(policy, policy')
               = AuthorityChange(Permits(policy, branch), Permits(policy', branch))
  <2>1. /\ policy \in Policies /\ ValidatePolicy(policy)
        /\ policy' \in Policies /\ ValidatePolicy(policy')
    BY <1>1 DEF PolicyInForce, ValidatePolicy
  <2>2. Gains(policy, policy')
          <=> ~ (Permits(policy', branch) \subseteq Permits(policy, branch))
    BY <2>1, CoversWhatGainsNothing, PermitsIsMonotone, GainsLetThrough
  <2>3. Gains(policy', policy)
          <=> ~ (Permits(policy, branch) \subseteq Permits(policy', branch))
    BY <2>1, CoversWhatGainsNothing, PermitsIsMonotone, GainsLetThrough
  <2>4. Permits(policy, branch) = Permits(policy', branch)
          <=> /\ Permits(policy, branch) \subseteq Permits(policy', branch)
              /\ Permits(policy', branch) \subseteq Permits(policy, branch)
    OBVIOUS
  <2>5. QED
    BY <2>2, <2>3, <2>4 DEF ClassifyPolicyChange, AuthorityChange
<1>2. PolicyInForce /\ PolicyInForce' =>
        [policy' # policy => \A branch \in Branches :
           ClassifyPolicyChange(policy, policy')
             = AuthorityChange(Permits(policy, branch), Permits(policy', branch))]_vars
  BY <1>1
<1>3. EnforcementInv => PolicyInForce
  BY DEF EnforcementInv
<1>4. QED
  BY <1>2, <1>3, EnforcementInvariant, PTL DEF ReportedChangesAreReal
=============================================================================
