-------------------------- MODULE MCToolGovernance --------------------------
(***************************************************************************)
(* Instances of ToolGovernance for TLC: one entry that is approved when it *)
(* is found, a request of it by a member of the crew, two handlers.        *)
(***************************************************************************)
EXTENDS ToolGovernance, TLC

CONSTANTS e1

Sym == Permutations(Request) \cup Permutations(Worker)
Curated == [e \in {e1} |-> "approved"]

=============================================================================
