--------------------------- MODULE BrokerRequestsMC ---------------------------
(* Two requests, one replica, a read and a mutation, two policies. *)
EXTENDS BrokerRequests, TLC

Profile(granted, push, tags) ==
  [profile |-> Developer, grants |-> [grant \in granted |-> TRUE], push |-> push, tags |-> tags]

ReadOnly == Profile({}, "none", FALSE)
Writer   == Profile({"contents.write"}, "non-default", FALSE)

MCPolicies == {ReadOnly, Writer}

MCOperations ==
  {[mutation |-> FALSE, needs |-> {}],
   [mutation |-> TRUE, needs |-> {"contents.write"}]}
=============================================================================
