---------------------------- MODULE GraphQLPolicy ----------------------------
(***************************************************************************)
(* Authorization of GraphQL documents: graphql.go.  A document is a graph: *)
(* doc.sets gives each selection set by its name, and a selection is       *)
(*   [kind |-> "field", name, set]     set is "none" for a leaf,           *)
(*   [kind |-> "inline", set], or                                          *)
(*   [kind |-> "spread", name]         doc.fragments[name] is its set.     *)
(* doc.roots are the fields of its only operation, with what their         *)
(* arguments owner and name are given.  wellFormed stands for what JSON    *)
(* decoding and the GraphQL parser check: one document within the limits   *)
(* of size and tokens, one operation, and an operationName that is its.    *)
(***************************************************************************)
\* What the parser gives: selections of these kinds, in sets that are there.  The
\* probe's fields are of the schema, and not roots in this sense.
IsDocument(doc) ==
  /\ \A root \in doc.roots : root.set \in DOMAIN doc.sets
  /\ \A name \in DOMAIN doc.fragments : doc.fragments[name] \in DOMAIN doc.sets
  /\ \A set \in DOMAIN doc.sets : \A s \in doc.sets[set] :
       s.kind = "spread" \/ (s.kind \in {"field", "inline"} /\ s.set \in DOMAIN doc.sets)
  /\ doc.probe => doc.roots = {}

NameVariable ==
  [family \in {"IssueByNumber", "IssueList", "LabelList", "PullRequestByNumber",
               "PullRequestForBranch", "PullRequestList"} |-> "repo"]

RepositoryFamilies ==
  DOMAIN NameVariable \cup
  {"IssueNodeID", "IssueRepositoryInfo", "IssueTemplates", "PullRequestTemplates",
   "RepositoryInfo", "RepositoryIssueTypes", "RepositoryLabelList",
   "RepositoryMilestoneList", "RepositoryReleaseList"}

SchemaFamilies == {"Release_fields"}

\* The variables that name the repository in the queries of a family.
NameOf(family) == IF family \in DOMAIN NameVariable THEN NameVariable[family] ELSE "name"
Trusted(family) == {"owner", NameOf(family)}

IdentityFields ==
  {"__typename", "avatarUrl", "edges", "endCursor", "hasNextPage", "hasPreviousPage", "id",
   "isBot", "isDisabled", "login", "name", "nodes", "pageInfo", "requestedReviewer",
   "startCursor", "totalCount", "url"}

IdentityBoundaries ==
  {"assignees", "author", "authors", "owner", "requestedReviewer", "reviewRequests"}

RepositoryFields == IdentityFields \cup IdentityBoundaries \cup
  {"activeLockReason", "additions", "authoredDate", "baseRefName", "baseRefOid", "body",
   "bodyHTML", "bodyText", "changedFiles", "closedAt", "color", "comments", "commit",
   "committedDate", "commits", "completedAt", "conclusion", "contexts", "createdAt",
   "defaultBranchRef", "deleteBranchOnMerge", "deletions", "description",
   "descriptionHTML", "detailsUrl", "dueOn", "fileCount", "filename", "files",
   "hasDiscussionsEnabled", "hasIssuesEnabled", "hasProjectsEnabled", "hasWikiEnabled",
   "headRefName", "headRefOid", "homepageUrl", "immutable", "isArchived", "isDraft",
   "isEmpty", "isFork", "isLatest", "isPrerelease", "isPrivate", "issue",
   "issueOrPullRequest", "issues", "issueTemplates", "issueTypes", "label", "labels",
   "language", "languages", "licenseInfo", "locked", "maintainerCanModify", "mergeable",
   "mergeCommit", "mergeCommitAllowed", "mergedAt", "mergeStateStatus", "message",
   "messageBody", "messageHeadline", "milestone", "milestones", "nameWithOwner", "number",
   "object", "oid", "potentialMergeCommit", "primaryLanguage", "progressPercentage",
   "publishedAt", "pullRequest", "pullRequests", "pullRequestTemplates", "pushedAt",
   "rebaseMergeAllowed", "refs", "release", "releases", "reviewDecision", "reviews",
   "size", "squashMergeAllowed", "sshUrl", "startedAt", "state", "stateReason", "status",
   "statusCheckRollup", "tag", "tagName", "target", "text", "title", "updatedAt",
   "viewerCanAdminister", "viewerCanCreateProjects", "viewerCanSubscribe",
   "viewerPermission", "viewerSubscription", "visibility", "workflowName"}

-----------------------------------------------------------------------------
\* A walk through a document: the set it is in, whether an identity was passed,
\* and the fragments it is inside of, each with the scope it was entered in.
Walk(set, identity, visiting) ==
  [set |-> set, identity |-> identity, visiting |-> visiting]

Walks(doc) ==
  [set : DOMAIN doc.sets, identity : BOOLEAN,
   visiting : SUBSET ((DOMAIN doc.fragments) \X BOOLEAN)]

\* Mutant of ValidSelection: fragments are validated as they are defined, wherever
\* they are spread.
ValidSelectionUnscoped(doc, w, s, valid) ==
  \/ /\ s.kind = "field"
     /\ s.name \in RepositoryFields
     /\ w.identity => s.name \in IdentityFields
     /\ valid[Walk(s.set, w.identity \/ s.name \in IdentityBoundaries, w.visiting)]
  \/ /\ s.kind = "inline"
     /\ valid[Walk(s.set, w.identity, w.visiting)]
  \/ /\ s.kind = "spread"
     /\ s.name \in DOMAIN doc.fragments
     /\ <<s.name, FALSE>> \notin w.visiting
     /\ valid[Walk(doc.fragments[s.name], FALSE, w.visiting \cup {<<s.name, FALSE>>})]

\* One turn of the loop; valid says how the calls it makes end.
ValidSelection(doc, w, s, valid) ==
  \/ /\ s.kind = "field"
     /\ s.name \in RepositoryFields
     /\ w.identity => s.name \in IdentityFields
     /\ valid[Walk(s.set, w.identity \/ s.name \in IdentityBoundaries, w.visiting)]
  \/ /\ s.kind = "inline"
     /\ valid[Walk(s.set, w.identity, w.visiting)]
  \/ /\ s.kind = "spread"
     /\ s.name \in DOMAIN doc.fragments
     /\ <<s.name, w.identity>> \notin w.visiting
     /\ valid[Walk(doc.fragments[s.name], w.identity,
                   w.visiting \cup {<<s.name, w.identity>>})]

ValidGraphQLSelections(doc, root) ==
  LET valid[w \in Walks(doc)] == \A s \in doc.sets[w.set] : ValidSelection(doc, w, s, valid)
  IN  valid[Walk(root, FALSE, {})]

\* The probe is one fixed document, aliases and arguments included.
ValidGraphQLOperation(doc) ==
  /\ doc.operation = "query"
  /\ \/ doc.family \in SchemaFamilies /\ doc.probe
     \/ /\ doc.family \in RepositoryFamilies
        /\ Trusted(doc.family) \subseteq doc.declares
        /\ doc.roots # {}
        /\ \A root \in doc.roots :
             /\ root.name = "repository"
             /\ root.owner = "$owner" /\ root.named = NameOf(doc.family)
             /\ ValidGraphQLSelections(doc, root.set)

AuthorizeGraphQL(doc) ==
  /\ doc.wellFormed
  /\ doc.family \in RepositoryFamilies \cup SchemaFamilies
  /\ doc.family \in SchemaFamilies => doc.variables = {}
  /\ ValidGraphQLOperation(doc)

\* Mutant of Forwarded: variables of the client are kept where it sets them.
ForwardedVariablesKept(doc) ==
  [v \in doc.variables \cup (IF doc.family \in SchemaFamilies THEN {} ELSE Trusted(doc.family)) |->
     IF v \in doc.variables THEN "client's" ELSE "target's"]

\* The values of the variables GitHub gets: those that name the repository are the
\* broker's, whatever the client sent.
ForwardedVariables(doc) ==
  [v \in doc.variables \cup (IF doc.family \in SchemaFamilies THEN {} ELSE Trusted(doc.family)) |->
     IF doc.family \notin SchemaFamilies /\ v \in Trusted(doc.family)
       THEN "target's" ELSE "client's"]

-----------------------------------------------------------------------------
(* GitHub's part: which sets of a document it evaluates, on a repository's  *)
(* data or on an identity's.                                                *)

IdentityTyped == {"assignees", "author", "authors", "owner", "requestedReviewer"}

\* Fields that lead to other repositories, from each side.
LeadsElsewhere(identity) ==
  IF identity THEN {"issues", "pullRequests", "repositories", "commits"}
              ELSE {"parent", "collaborators", "environments"}

\* Places of a document: a set, and whether it is evaluated on an identity.
Places(doc) == (DOMAIN doc.sets) \X BOOLEAN

Successors(doc, at) ==
  UNION {CASE s.kind = "field"  -> {<<s.set, at[2] \/ s.name \in IdentityTyped>>}
           [] s.kind = "inline" -> {<<s.set, at[2]>>}
           [] s.kind = "spread" /\ s.name \in DOMAIN doc.fragments ->
                {<<doc.fragments[s.name], at[2]>>}
           [] OTHER -> {} : s \in doc.sets[at[1]]}

\* Sets of places that hold the roots, and with a place those it leads to.
Closed(doc) ==
  LET next == [at \in Places(doc) |-> Successors(doc, at)]
  IN  {S \in SUBSET Places(doc) : /\ \A root \in doc.roots : <<root.set, FALSE>> \in S
                                  /\ \A at \in S : next[at] \subseteq S}

\* What is evaluated is the least of them.
Evaluated(doc) ==
  LET closed == Closed(doc) IN {at \in Places(doc) : \A S \in closed : at \in S}

ReachesElsewhere(doc) ==
  \E at \in Evaluated(doc) : \E s \in doc.sets[at[1]] :
    s.kind = "field" /\ s.name \in LeadsElsewhere(at[2])
=============================================================================
