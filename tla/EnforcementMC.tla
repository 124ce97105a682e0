---------------------------- MODULE EnforcementMC ----------------------------
(***************************************************************************)
(* Every write route with its segments filled in, and calls that no route  *)
(* registers; bodies with every form of a ref where a body is looked at;   *)
(* policies that differ in one control and in several.                     *)
(***************************************************************************)
EXTENDS Enforcement, FiniteSets

Profile(granted, push, tags) ==
  [profile |-> Developer, grants |-> [grant \in granted |-> TRUE], push |-> push, tags |-> tags]

Misspelt == Profile({"content.write"}, "none", FALSE)

MCPolicies ==
  {Profile(granted, "none", FALSE) : granted \in {{}} \cup {{grant} : grant \in KnownGrants}}
  \cup {Profile({"contents.write"}, push, tags) : push \in PushModes, tags \in BOOLEAN}
  \cup {Profile({"releases.write"}, push, TRUE) : push \in PushModes}
  \cup {Profile({grant, "objects.delete"}, "non-default", FALSE) :
           grant \in {"contents.write", "actions.write"}}
  \cup {Profile(KnownGrants, "all", TRUE), Misspelt}

\* Branches are alike, but for which of them is the default.
Main == <<"main">>
Dev == <<"main", "dev">>

MCBranches == {Main}

Filled(call) == [i \in DOMAIN call |-> IF call[i] \in {":", "**"} THEN "x" ELSE call[i]]

Calls ==
  {Filled(RestRoutes[i].call) : i \in DOMAIN RestRoutes}
  \cup {<<"PATCH", "git", "refs", space>> \o name : space \in {"heads", "tags", "notes"},
                                                    name \in {Main, Dev}}
  \cup {<<"PATCH", "git", "refs", "heads">>, <<"PATCH", "git", "refs", "heads", "">>,
        <<"PUT", "contents">>, <<"DELETE", "git", "refs", "heads", "dev">>,
        <<"DELETE", "contents", "x", "y">>,
        <<"DELETE", "issues", "comments", "labels">>, <<"PATCH", "pulls", "merge">>,
        <<"PUT", "pulls", "x", "update-branch">>,
        <<"POST", "issues", "x", "transfer">>, <<"PUT", "actions", "secrets", "x">>,
        <<"POST", "hooks">>, <<"DELETE", "x">>, <<"PATCH">>}

Refs ==
  {[form |-> form, name |-> name] : form \in {"bare"} \cup RefSpaces, name \in {Main, Dev}}
  \cup {[form |-> form, name |-> <<>>] : form \in {"absent", "empty", "malformed"}}

Body(ref, tag, headRepo) == [object |-> TRUE, ref |-> ref, tag |-> tag, headRepo |-> headRepo]

Absent == [form |-> "absent", name |-> <<>>]

BodiesOf(call) ==
  CASE NamesRef(call)          -> {Body(ref, FALSE, FALSE) : ref \in Refs}
    [] OpensPull(call)         -> {Body(ref, FALSE, fork) : ref \in Refs, fork \in BOOLEAN}
    [] CreatesRelease(call)    -> {Body(ref, TRUE, FALSE) : ref \in Refs}
    [] EditsRelease(call)      -> {Body(ref, tag, FALSE) : ref \in Refs, tag \in BOOLEAN}
    [] OTHER                   -> {}

NoBody == [object |-> FALSE, ref |-> Absent, tag |-> FALSE, headRepo |-> FALSE]

RestOperations ==
  UNION {{[kind |-> "rest", inside |-> TRUE, call |-> call, body |-> body] :
            body \in BodiesOf(call) \cup {NoBody}} : call \in Calls}

GitOperations ==
  {[kind |-> "git", inside |-> TRUE, method |-> method, path |-> path, service |-> service] :
     method \in {"GET", "POST"}, path \in {"info/refs", "git-upload-pack"},
     service \in {"git-upload-pack", "git-receive-pack", "other"}}

LFSOperations ==
  {[kind |-> "lfs", inside |-> TRUE, method |-> method, path |-> path, operation |-> operation] :
     method \in {"GET", "POST", "DELETE"},
     path \in {"objects/batch", "locks", "locks/verify", "locks/x/unlock"},
     operation \in {"download", "upload", "invalid"}}

Outside ==
  {[kind |-> "rest", inside |-> FALSE, call |-> <<"POST", "issues">>, body |-> NoBody]}

MCOperations == UNION {RestOperations, GitOperations, LFSOperations, Outside}

\* Documents: a repository with two selections, two fragments, and one set below a
\* field; and one document for each other way to be refused.
Field(name, set) == [kind |-> "field", name |-> name, set |-> set]
Spread(name) == [kind |-> "spread", name |-> name]
Inline(set) == [kind |-> "inline", set |-> set]

Root(name, owner, named) == [name |-> name, owner |-> owner, named |-> named, set |-> "root"]

Document(root, f, g, inner) ==
  [wellFormed |-> TRUE, operation |-> "query", family |-> "IssueList", probe |-> FALSE,
   declares |-> {"owner", "repo"}, variables |-> {"owner", "state"},
   roots |-> {Root("repository", "$owner", "repo")},
   sets |-> [root |-> root, f |-> {f}, g |-> {g}, inner |-> {inner}, none |-> {}],
   fragments |-> [f |-> "f", g |-> "g"]]

RootSelections == {Field("title", "none"), Field("parent", "none"), Field("author", "inner"),
                   Inline("inner"), Spread("f"), Spread("h")}

Nested ==
  {Document({s, t}, f, g, inner) :
     s \in RootSelections, t \in RootSelections,
     f \in {Field("issues", "none"), Field("author", "inner"), Spread("g"), Spread("f")},
     g \in {Field("login", "none"), Field("issues", "none"), Spread("f")},
     inner \in {Field("login", "none"), Field("issues", "none"), Spread("g"), Spread("f")}}

Plain == Document({Field("title", "none")}, Spread("f"), Spread("g"), Spread("f"))

Probe ==
  [Plain EXCEPT !.family = "Release_fields", !.probe = TRUE, !.declares = {},
                !.variables = {}, !.roots = {}]

MCDocuments ==
  Nested \cup
  {[Plain EXCEPT !.wellFormed = FALSE], [Plain EXCEPT !.operation = "mutation"],
   [Plain EXCEPT !.family = "Search"], [Plain EXCEPT !.family = "RepositoryInfo"],
   [Plain EXCEPT !.declares = {"owner"}], [Plain EXCEPT !.roots = {}],
   [Plain EXCEPT !.family = "RepositoryInfo", !.declares = {"owner", "name"},
                 !.roots = {Root("repository", "$owner", "name")}],
   [Plain EXCEPT !.roots = @ \cup {Root("viewer", "absent", "absent")}],
   [Plain EXCEPT !.roots = {Root("repository", "literal", "repo")}],
   [Plain EXCEPT !.roots = {Root("repository", "$owner", "state")}],
   Probe, [Probe EXCEPT !.probe = FALSE], [Probe EXCEPT !.variables = {"owner"}]}

MCLines ==
  {Command(FALSE, "heads", Main), Command(FALSE, "heads", Dev), Command(FALSE, "tags", <<"v1">>),
   Command(FALSE, "other", <<"notes">>), Command(TRUE, "heads", Dev),
   [kind |-> "shallow"], [kind |-> "flush"], [kind |-> "invalid"]}

ASSUME RichOperations == EveryAuthorityIsAskedFor
=============================================================================
