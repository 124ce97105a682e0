------------------------------ MODULE GitPolicy ------------------------------
(***************************************************************************)
(* What a policy lets a token do over Git smart HTTP and Git LFS.  A ref   *)
(* is its name space and its name in it: "heads" for refs/heads/, "tags"   *)
(* for refs/tags/, "other" for everything else below refs/.  A name is the *)
(* sequence of its segments: feature/x is <<"feature", "x">>.              *)
(***************************************************************************)
EXTENDS Policy, Sequences

RefSpaces == {"heads", "tags", "other"}

\* A command of git-receive-pack: zero says that the new object ID is all
\* zeros, which deletes the ref.
Command(zero, space, name) ==
  [kind |-> "command", zero |-> zero, ref |-> [space |-> space, name |-> name]]

AuthorizeGitRef(command, defaultBranch, policy) ==
  /\ ~ command.zero
  /\ \/ command.ref.space = "tags" /\ policy.tags
     \/ /\ command.ref.space = "heads"
        /\ \/ policy.push = "all"
           \/ policy.push = "non-default" /\ command.ref.name # defaultBranch

GitCanPush(policy) == policy.push \in {"non-default", "all"} \/ policy.tags

\* A Git request other than a push: [kind |-> "git", method, path, service],
\* where the service is only read for info/refs.
AuthorizeGit(op, policy) ==
  \/ /\ op.method = "GET" /\ op.path = "info/refs"
     /\ \/ op.service = "git-upload-pack"
        \/ op.service = "git-receive-pack" /\ GitCanPush(policy)
  \/ op.method = "POST" /\ op.path = "git-upload-pack"

\* An LFS request: [kind |-> "lfs", method, path, operation], where the operation
\* is the one the body of a batch names, "invalid" when it names none.
AuthorizeLFS(op, policy) ==
  \/ /\ op.method = "POST" /\ op.path = "objects/batch"
     /\ \/ op.operation = "download"
        \/ op.operation = "upload" /\ GitCanPush(policy)
  \/ op.method = "GET" /\ op.path = "locks"
  \/ op.method = "POST" /\ op.path \in {"locks", "locks/verify"} /\ GitCanPush(policy)
=============================================================================
