------------------------------ MODULE RestPolicy ------------------------------
(***************************************************************************)
(* What a policy lets a token change over REST.  A call is the method      *)
(* followed by the segments of the path below the repository, such as      *)
(* <<"PUT", "contents", "file">>; reads need no grant and are left out.    *)
(* The fields of a body that the broker looks at are                       *)
(*   object    whether it is present, small enough and a JSON object       *)
(*   ref       the ref it names: absent, empty (or not a string),          *)
(*             malformed, or bare / below heads, tags or other with a name *)
(*             (malformed: a branch with a colon, a NUL or a line break,   *)
(*             all refused; a path with one is left out)                   *)
(*   tag       whether it has a tag_name                                   *)
(*   headRepo  whether it has a head_repo                                  *)
(***************************************************************************)
EXTENDS GitPolicy

RefForms == {"absent", "empty", "malformed", "bare"} \cup RefSpaces

Under(grant, calls) == [i \in DOMAIN calls |-> [grant |-> grant, call |-> calls[i]]]

\* The write routes, in the order of the table.
IssueCalls == <<
  <<"POST", "issues">>, <<"PATCH", "issues", ":">>, <<"POST", "issues", ":", "comments">>,
  <<"PATCH", "issues", "comments", ":">>, <<"DELETE", "issues", "comments", ":">>,
  <<"POST", "issues", ":", "labels">>, <<"PUT", "issues", ":", "labels">>,
  <<"DELETE", "issues", ":", "labels">>, <<"DELETE", "issues", ":", "labels", ":">>,
  <<"POST", "issues", ":", "assignees">>, <<"DELETE", "issues", ":", "assignees">>,
  <<"PUT", "issues", ":", "lock">>, <<"DELETE", "issues", ":", "lock">>,
  <<"POST", "issues", ":", "reactions">>, <<"DELETE", "issues", ":", "reactions", ":">>,
  <<"POST", "issues", "comments", ":", "reactions">>,
  <<"DELETE", "issues", "comments", ":", "reactions", ":">>,
  <<"POST", "labels">>, <<"PATCH", "labels", ":">>, <<"DELETE", "labels", ":">>,
  <<"POST", "milestones">>, <<"PATCH", "milestones", ":">>, <<"DELETE", "milestones", ":">> >>

PullCalls == << <<"POST", "pulls">>, <<"PATCH", "pulls", ":">> >>

MergeCalls == << <<"PUT", "pulls", ":", "merge">> >>

ReviewCalls == <<
  <<"POST", "pulls", ":", "comments">>, <<"POST", "pulls", ":", "comments", ":", "replies">>,
  <<"PATCH", "pulls", "comments", ":">>, <<"DELETE", "pulls", "comments", ":">>,
  <<"POST", "pulls", ":", "reviews">>, <<"DELETE", "pulls", ":", "reviews", ":">>,
  <<"POST", "pulls", ":", "reviews", ":", "events">> >>

DismissalCalls == << <<"PUT", "pulls", ":", "reviews", ":", "dismissals">> >>

ReviewerCalls == <<
  <<"POST", "pulls", ":", "requested_reviewers">>,
  <<"DELETE", "pulls", ":", "requested_reviewers">>,
  <<"POST", "pulls", "comments", ":", "reactions">>,
  <<"DELETE", "pulls", "comments", ":", "reactions", ":">> >>

ActionsCalls == <<
  <<"POST", "actions", "workflows", ":", "dispatches">>,
  <<"PUT", "actions", "workflows", ":", "enable">>,
  <<"PUT", "actions", "workflows", ":", "disable">>,
  <<"POST", "actions", "runs", ":", "rerun">>,
  <<"POST", "actions", "runs", ":", "rerun-failed-jobs">>,
  <<"POST", "actions", "runs", ":", "cancel">>,
  <<"POST", "actions", "runs", ":", "force-cancel">>,
  <<"POST", "actions", "jobs", ":", "rerun">>, <<"DELETE", "actions", "runs", ":">>,
  <<"DELETE", "actions", "runs", ":", "logs">>, <<"DELETE", "actions", "artifacts", ":">>,
  <<"DELETE", "actions", "caches">>, <<"DELETE", "actions", "caches", ":">> >>

CheckCalls == <<
  <<"POST", "check-runs">>, <<"PATCH", "check-runs", ":">>, <<"POST", "check-suites">>,
  <<"POST", "check-suites", ":", "rerequest">> >>

ContentsCalls == <<
  <<"PUT", "contents", "**">>, <<"DELETE", "contents", "**">>, <<"POST", "git", "blobs">>,
  <<"POST", "git", "commits">>, <<"POST", "git", "trees">>, <<"POST", "git", "tags">>,
  <<"POST", "git", "refs">>, <<"PATCH", "git", "refs", "**">> >>

DeploymentCalls == << <<"POST", "deployments">>, <<"POST", "deployments", ":", "statuses">> >>

ReleaseCalls == <<
  <<"POST", "releases">>, <<"POST", "releases", "generate-notes">>,
  <<"PATCH", "releases", ":">>, <<"DELETE", "releases", ":">>,
  <<"DELETE", "releases", "assets", ":">> >>

StatusCalls == << <<"POST", "statuses", ":">> >>

RestRoutes ==
  Under("", IssueCalls) \o Under("", PullCalls) \o Under("pulls.merge", MergeCalls)
    \o Under("", ReviewCalls) \o Under("pulls.review.dismiss", DismissalCalls)
    \o Under("", ReviewerCalls) \o Under("actions.write", ActionsCalls)
    \o Under("checks.write", CheckCalls) \o Under("contents.write", ContentsCalls)
    \o Under("deployments.write", DeploymentCalls) \o Under("releases.write", ReleaseCalls)
    \o Under("checks.write", StatusCalls)

\* ":" stands for one segment, a last "**" for any number of them, none included.
MatchRESTPath(pattern, call) ==
  LET open   == pattern[Len(pattern)] = "**"
      length == IF open THEN Len(pattern) - 1 ELSE Len(pattern)
  IN  /\ IF open THEN Len(call) >= length ELSE Len(call) = length
      /\ \A i \in 1 .. length : pattern[i] \in {":", call[i]}

DeniedResources ==
  {"collaborators", "environments", "hooks", "invitations", "keys", "rulesets",
   "secret-scanning", "security-advisories", "teams", "vulnerability-alerts"}

DeniedIssueSegments ==
  {"transfer", "sub_issues", "sub-issues", "dependencies", "blocked_by", "blocked-by"}

IsHardDeniedREST(call) ==
  LET segments == {call[i] : i \in 2 .. Len(call)}
  IN  /\ Len(call) > 1
      /\ \/ call[2] = "actions" /\ Len(call) > 2 /\ call[3] \in {"secrets", "variables"}
         \/ call[2] \in DeniedResources
         \/ call[2] = "issues" /\ segments \cap DeniedIssueSegments # {}
         \/ call[2] = "pulls" /\ "update-branch" \in segments

\* The first route that matches decides.
IsRouteOf(i, call) ==
  /\ MatchRESTPath(RestRoutes[i].call, call)
  /\ \A j \in 1 .. i - 1 : ~ MatchRESTPath(RestRoutes[j].call, call)

\* Mutant of AuthorizeREST: the grant of the route is looked at first, and is enough.
AuthorizeRESTByGrant(call, policy) ==
  /\ ~ IsHardDeniedREST(call)
  /\ \E i \in DOMAIN RestRoutes :
       /\ IsRouteOf(i, call)
       /\ \/ RestRoutes[i].grant = "" /\ (call[1] = "DELETE" => Allows(policy, "objects.delete"))
          \/ Allows(policy, RestRoutes[i].grant)

AuthorizeREST(call, policy) ==
  /\ ~ IsHardDeniedREST(call)
  /\ \E i \in DOMAIN RestRoutes :
       /\ IsRouteOf(i, call)
       /\ call[1] = "DELETE" => Allows(policy, "objects.delete")
       /\ RestRoutes[i].grant = "" \/ Allows(policy, RestRoutes[i].grant)

-----------------------------------------------------------------------------
(* Bodies and paths that name a ref. *)

AuthorizeRESTRef(ref, defaultBranch, policy) ==
  \/ ref.form = "tags" /\ policy.tags
  \/ /\ ref.form \in {"bare", "heads"}
     /\ ref.name # <<"">>
     /\ AuthorizeGitRef(Command(FALSE, "heads", ref.name), defaultBranch, policy)

\* The ref that the path of PATCH git/refs/... names: its name is all of the path
\* below heads or tags, which may end in "/" (an empty segment).
PathRef(call) ==
  IF Len(call) > 4 /\ call[4] \in {"heads", "tags"}
    THEN [form |-> call[4], name |-> SubSeq(call, 5, Len(call))]
    ELSE [form |-> "other", name |-> <<>>]

MovesRef(call) == Len(call) > 3 /\ <<call[1], call[2], call[3]>> = <<"PATCH", "git", "refs">>

OpensPull(call) == call = <<"POST", "pulls">>

CreatesRelease(call) == call = <<"POST", "releases">>

EditsRelease(call) == Len(call) = 3 /\ call[1] = "PATCH" /\ call[2] = "releases"

\* The other calls whose body must name a permitted ref, or else means the
\* default branch.
NamesRef(call) ==
  \/ call \in {<<"POST", "deployments">>, <<"POST", "git", "refs">>}
  \/ Len(call) > 1 /\ call[1] \in {"PUT", "DELETE"} /\ call[2] = "contents"
  \/ /\ Len(call) > 4 /\ <<call[1], call[2], call[3]>> = <<"POST", "actions", "workflows">>
     /\ call[5] = "dispatches"

AuthorizeRESTBody(call, body, defaultBranch, policy) ==
  LET ref == IF body.ref.form = "absent"
               THEN [form |-> "bare", name |-> defaultBranch]
               ELSE body.ref
      refAllowed == AuthorizeRESTRef(ref, defaultBranch, policy)
  IN  CASE MovesRef(call)       -> AuthorizeRESTRef(PathRef(call), defaultBranch, policy)
        [] OpensPull(call)      -> body.object /\ ~ body.headRepo /\ body.ref.form = "bare"
        [] CreatesRelease(call) -> body.object /\ policy.tags /\ refAllowed
        [] EditsRelease(call)   -> /\ body.object
                                   /\ \/ ~ body.tag /\ body.ref.form = "absent"
                                      \/ policy.tags /\ refAllowed
        [] NamesRef(call)       -> body.object /\ refAllowed
        [] OTHER                -> TRUE
=============================================================================
