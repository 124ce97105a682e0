----------------------------- MODULE Enforcement -----------------------------
(***************************************************************************)
(* The dispatch of authorized requests: a Session's policy is replaced     *)
(* between requests, and each request is authorized by the handler of its  *)
(* kind and forwarded to GitHub, or refused.  A push is read line by line: *)
(* the broker sees its ref commands before it forwards the stream, which   *)
(* GitHub then reads for itself.                                           *)
(*                                                                         *)
(* An operation is                                                         *)
(*   [kind |-> "rest", call, body]          a write of RestPolicy,         *)
(*   [kind |-> "git", method, path, service],                              *)
(*   [kind |-> "lfs", method, path, operation], or                         *)
(*   [kind |-> "graphql", document, variables], for which any policy does; *)
(* "inside" says whether one of the first three names the repository of    *)
(* the Session.                                                            *)
(***************************************************************************)
EXTENDS RestPolicy, GraphQLPolicy

CONSTANTS
  Policies,       \* profiles an operator may submit, valid or not
  Branches,       \* names the default branch may have
  Operations,     \* REST, Git and LFS requests other than pushes
  Documents,      \* documents of GraphQL requests
  Lines,          \* pkt-lines: commands, and lines of other kinds
  MaxGitCommands  \* lines the broker reads of a push, the flush included

ASSUME LimitAssumption == MaxGitCommands \in Nat \ {0}
ASSUME PoliciesAssumption == \A p \in Policies : p.tags \in BOOLEAN
ASSUME DocumentsAssumption == \A doc \in Documents : IsDocument(doc)
ASSUME OperationsAssumption ==
  \A op \in Operations : op.kind = "rest" => op.call \in Seq(STRING)

VARIABLES
  policy,         \* the Policy Profile in force
  defaultBranch,  \* as the resolver observed it for the request
  stage,          \* "idle", "reading" a push, "forwarded" or "refused"
  request,        \* the operation; Push while a push is being read and after
  sent            \* the lines of the push that the broker has read

vars == <<policy, defaultBranch, stage, request, sent>>

Commands == {line \in Lines : line.kind = "command"}

Push == [kind |-> "push", inside |-> TRUE]

\* A GraphQL request, with the values its variables are sent with.
Query(doc, variables) == [kind |-> "graphql", document |-> doc, variables |-> variables]

TypeOK ==
  /\ policy \in Policies
  /\ policy.profile = Developer /\ policy.push \in PushModes
  /\ \A grant \in DOMAIN policy.grants : IsKnownGrant(grant)
  /\ defaultBranch \in Branches
  /\ stage \in {"idle", "reading", "forwarded", "refused"}
  /\ \/ request \in Operations \cup {Push}
     \/ request.kind = "graphql" /\ request.document \in Documents
  /\ sent \in Seq(Lines) /\ Len(sent) <= MaxGitCommands

-----------------------------------------------------------------------------
(* Authorization. *)

AuthorizeOperation(op, branch, p) ==
  /\ op.inside
  /\ \/ op.kind = "rest" /\ AuthorizeREST(op.call, p)
                         /\ AuthorizeRESTBody(op.call, op.body, branch, p)
     \/ op.kind = "git" /\ AuthorizeGit(op, p)
     \/ op.kind = "lfs" /\ AuthorizeLFS(op, p)

\* Mutant of ClassifyRequest: a batch is taken for a lookup, whatever its body says.
ClassifyRequestByPath(op) ==
  IF \/ op.kind \in {"rest", "push"}
     \/ op.kind = "lfs" /\ op.method # "GET" /\ op.path \notin {"locks/verify", "objects/batch"}
    THEN "mutation" ELSE "read"

\* The class decides on a fresh observation, the durable audit and the budget.
ClassifyRequest(op) ==
  IF \/ op.kind \in {"rest", "push"}
     \/ /\ op.kind = "lfs" /\ op.method # "GET"
        /\ ~ (op.method = "POST" /\ op.path = "locks/verify")
        /\ ~ (op.method = "POST" /\ op.path = "objects/batch" /\ op.operation = "download")
    THEN "mutation" ELSE "read"

\* What a profile permits: operations, and commands of a push.
Permits(p, branch) ==
  {op \in Operations : AuthorizeOperation(op, branch, p)}
    \cup {command \in Commands : AuthorizeGitRef(command, branch, p)}

\* Whatever valid profiles confer, an operation or a command asks for that alone.
EveryAuthorityIsAskedFor ==
  LET valid == {p \in Policies : ValidatePolicy(p)}
  IN  \A branch \in Branches : \A authority \in UNION {Authority(p) : p \in valid} :
        \/ \E command \in Commands : \A p \in valid :
             AuthorizeGitRef(command, branch, p) <=> authority \in Authority(p)
        \/ \E op \in Operations : \A p \in valid :
             AuthorizeOperation(op, branch, p) <=> authority \in Authority(p)

-----------------------------------------------------------------------------
Init ==
  /\ policy \in {p \in Policies : ValidatePolicy(p)}
  /\ defaultBranch \in Branches
  /\ stage = "idle"
  /\ request = Push
  /\ sent = <<>>

\* Mutant of Replace: a profile is stored as it was submitted.
ReplaceUnchecked(p) ==
  /\ stage = "idle"
  /\ p # policy
  /\ policy' = p
  /\ UNCHANGED <<defaultBranch, stage, request, sent>>

\* The register as far as a request sees it; an unchanged policy is not stored.
Replace(p) ==
  /\ stage = "idle"
  /\ ValidatePolicy(p)
  /\ ClassifyPolicyChange(policy, p) # "unchanged"
  /\ policy' = p
  /\ UNCHANGED <<defaultBranch, stage, request, sent>>

\* A request other than a push, with the default branch its resolution observed.
Serve(op, branch) ==
  /\ stage = "idle"
  /\ request' = op
  /\ defaultBranch' = branch
  /\ stage' = IF AuthorizeOperation(op, branch, policy) THEN "forwarded" ELSE "refused"
  /\ UNCHANGED <<policy, sent>>

ServeGraphQL(doc) ==
  /\ stage = "idle"
  /\ request' = Query(doc, ForwardedVariables(doc))
  /\ stage' = IF AuthorizeGraphQL(doc) THEN "forwarded" ELSE "refused"
  /\ UNCHANGED <<policy, defaultBranch, sent>>

ReceivePush(branch) ==
  /\ stage = "idle"
  /\ request' = Push
  /\ defaultBranch' = branch
  /\ stage' = "reading"
  /\ sent' = <<>>
  /\ UNCHANGED policy

CommandsRead == {i \in DOMAIN sent : sent[i].kind = "command"}

\* One more line, after which the loop goes on if it still may.
Read(line) ==
  /\ stage = "reading"
  /\ sent' = Append(sent, line)
  /\ UNCHANGED <<policy, defaultBranch, request>>

ReadOn == stage' = IF Len(sent) + 1 < MaxGitCommands THEN "reading" ELSE "refused"

\* The end of the commands: every one of them has to be allowed.
ReadFlush(line) ==
  /\ line.kind = "flush"
  /\ Read(line)
  /\ stage' = IF /\ CommandsRead # {}
                 /\ \A i \in CommandsRead : AuthorizeGitRef(sent[i], defaultBranch, policy)
                THEN "forwarded" ELSE "refused"

\* Mutant of ReadCommand: a push at the limit is judged by the commands read so far.
ReadCommandCutting(line) ==
  /\ line.kind = "command"
  /\ Read(line)
  /\ stage' = IF Len(sent) + 1 < MaxGitCommands THEN "reading"
              ELSE IF \A i \in CommandsRead : AuthorizeGitRef(sent[i], defaultBranch, policy)
                     THEN "forwarded" ELSE "refused"

ReadCommand(line) ==
  /\ line.kind = "command"
  /\ Read(line)
  /\ ReadOn

\* Shallow lines come before the commands.
ReadShallow(line) ==
  /\ line.kind = "shallow"
  /\ CommandsRead = {}
  /\ Read(line)
  /\ ReadOn

\* Anything else, the end of the stream included.
ReadInvalid(line) ==
  /\ \/ line.kind = "invalid"
     \/ line.kind = "shallow" /\ CommandsRead # {}
  /\ Read(line)
  /\ stage' = "refused"

Finish ==
  /\ stage \in {"forwarded", "refused"}
  /\ stage' = "idle"
  /\ request' = Push
  /\ sent' = <<>>
  /\ UNCHANGED <<policy, defaultBranch>>

Next ==
  \/ \E p \in Policies : Replace(p)
  \/ \E op \in Operations, branch \in Branches : Serve(op, branch)
  \/ \E doc \in Documents : ServeGraphQL(doc)
  \/ \E branch \in Branches : ReceivePush(branch)
  \/ \E line \in Lines :
       ReadFlush(line) \/ ReadCommand(line) \/ ReadShallow(line) \/ ReadInvalid(line)
  \/ Finish

Spec == Init /\ [][Next]_vars

-----------------------------------------------------------------------------
(* What GitHub does with a forwarded operation, and what the documentation   *)
(* says it takes.                                                            *)

Ref(space, name) == [space |-> space, name |-> name]

\* The refs a REST call writes: those it names, and the default branch where a
\* content write names none.  A merge is covered by its own grant and not by the
\* push mode.
RefsOfREST(op) ==
  LET named == IF op.body.ref.form = "bare" THEN "heads" ELSE op.body.ref.form
      ref   == Ref(named, op.body.ref.name)
  IN  CASE MovesRef(op.call) -> {Ref(PathRef(op.call).form, PathRef(op.call).name)}
        [] op.call[2] = "contents" ->
             IF named = "absent" THEN {Ref("heads", defaultBranch)}
             ELSE IF named = "heads" THEN {ref} ELSE {}
        [] op.call = <<"POST", "git", "refs">> ->
             IF op.body.ref.form \in RefSpaces THEN {ref} ELSE {}
        [] CreatesRelease(op.call) \/ (EditsRelease(op.call) /\ op.body.tag) ->
             {Ref("tags", <<"release">>)}
        [] OTHER -> {}

RefsWritten ==
  CASE request.kind = "rest" -> RefsOfREST(request)
    [] request.kind = "push" -> {sent[i].ref : i \in CommandsRead}
    [] OTHER                 -> {}

\* docs/pgh/compatibility.md, "Git smart HTTP and LFS".
DocumentedRefAuthority(ref) ==
  CASE ref.space = "tags"                                  -> "push.tag"
    [] ref.space = "heads" /\ ref.name = defaultBranch     -> "push.default-branch"
    [] ref.space = "heads" /\ ref.name # defaultBranch     -> "push.branch"
    [] OTHER                                               -> "nobody's"

\* GitHub merges a pull request, and dismisses a review of one, by PUT; the last
\* segment of another call is a name, even when it reads the same.
Concludes(call, act) == call[1] = "PUT" /\ call[2] = "pulls" /\ call[Len(call)] = act

\* docs/pgh/compatibility.md, "REST API": the grants of a registered write.
DocumentedGrants(call) ==
  (CASE Concludes(call, "merge")                           -> {"pulls.merge"}
     [] Concludes(call, "dismissals")                      -> {"pulls.review.dismiss"}
     [] call[2] = "actions"                                -> {"actions.write"}
     [] call[2] \in {"check-runs", "check-suites", "statuses"} -> {"checks.write"}
     [] call[2] \in {"contents", "git"}                    -> {"contents.write"}
     [] call[2] = "deployments"                            -> {"deployments.write"}
     [] call[2] = "releases"                               -> {"releases.write"}
     [] \/ call[2] \in {"issues", "labels", "milestones"}
        \/ /\ call[2] = "pulls"
           /\ ~ Concludes(call, "merge") /\ ~ Concludes(call, "dismissals") -> {}
     [] OTHER                                              -> {"nobody's"})
  \cup (IF call[1] = "DELETE" THEN {"objects.delete"} ELSE {})

\* Whether an operation leaves something changed at GitHub.
ChangesGitHub(op) ==
  \/ op.kind \in {"rest", "push"}
  \/ /\ op.kind = "lfs" /\ op.method = "POST"
     /\ op.path = "locks" \/ (op.path = "objects/batch" /\ op.operation = "upload")
  \/ op.kind = "graphql" /\ op.document.operation = "mutation"

-----------------------------------------------------------------------------
(* Properties. *)

\* Whatever the route to a ref, by a push or by REST, by name, by path or by
\* leaving it out: the refs that GitHub writes for a forwarded request are ones
\* the policy lets the token push, none is deleted, and no command of a push
\* comes after those the broker has checked.
RefsWithinPushAuthority ==
  stage = "forwarded" =>
    /\ \A ref \in RefsWritten : DocumentedRefAuthority(ref) \in Authority(policy)
    /\ request = Push => /\ sent[Len(sent)].kind = "flush"
                         /\ \A i \in CommandsRead : ~ sent[i].zero

\* The table of routes, the hard denials and the separate grant of deletions
\* never let more through than the documentation of the resources says.
WritesAsDocumented ==
  stage = "forwarded" /\ request.kind = "rest" =>
    request.inside /\ DocumentedGrants(request.call) \subseteq Authority(policy)

\* A forwarded operation that changes something at GitHub was handled as a
\* mutation: with a fresh observation, a durable audit and the smaller budget.
ChangesAreMutations ==
  stage = "forwarded" /\ ChangesGitHub(request) => ClassifyRequest(request) = "mutation"

\* A GraphQL request that is forwarded asks for the repository of the Session and,
\* through whatever fragments and however nested, for nothing of another one.
QueriesStayInside ==
  stage = "forwarded" /\ request.kind = "graphql" =>
    /\ \A root \in request.document.roots :
         /\ request.variables["owner"] = "target's"
         /\ request.variables[NameOf(request.document.family)] = "target's"
    /\ ~ ReachesElsewhere(request.document)

\* A replacement that lets through an operation the old policy refused is
\* recorded as broadened or mixed, and one that refuses an operation the old
\* policy let through as narrowed or mixed: an operator who narrows a policy, or
\* is told it has not changed, never gives anything away.
ChangesAreReported ==
  [][policy' # policy => \A branch \in Branches :
       LET before    == Permits(policy, branch)
           after     == Permits(policy', branch)
           direction == ClassifyPolicyChange(policy, policy')
       IN  /\ after \subseteq before \/ direction \in {"broadened", "mixed"}
           /\ before \subseteq after \/ direction \in {"narrowed", "mixed"}]_vars

\* Conversely no authority is a dead letter: a direction that says that something
\* is gained, or lost, can be told from what the broker lets through.
ReportedChangesAreReal ==
  [][policy' # policy => \A branch \in Branches :
       ClassifyPolicyChange(policy, policy')
         = AuthorityChange(Permits(policy, branch), Permits(policy', branch))]_vars
=============================================================================
