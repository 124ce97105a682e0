-------------------------- MODULE CapabilityStoreMC --------------------------
(***************************************************************************)
(* A small instance of CapabilityStore for TLC.  It is checked without     *)
(* symmetry, because liveness is.                                          *)
(***************************************************************************)
EXTENDS CapabilityStore

Grants(granted) == [grant \in granted |-> TRUE]

Profile(granted, push, tags) ==
  [profile |-> Developer, grants |-> Grants(granted), push |-> push, tags |-> tags]

ReadOnly == Profile({}, "none", FALSE)
Writer   == Profile({"contents.write"}, "non-default", FALSE)
Tagger   == Profile({}, "non-default", TRUE)
Owner    == Profile({"contents.write"}, "all", TRUE)
Misspelt == Profile({"content.write"}, "all", TRUE)

MCPolicies == {ReadOnly, Writer, Tagger, Owner, Misspelt}
=============================================================================
