--------------------------- MODULE MCToolRegistry ---------------------------
(***************************************************************************)
(* Instances of ToolRegistry for TLC.                                      *)
(***************************************************************************)
EXTENDS ToolRegistry, TLC

(* A tool with both texts, one with neither and a schema, one whose schema *)
(* does not parse.                                                         *)
ThreeKinds == {[title |-> TRUE, description |-> TRUE, schema |-> "none"],
               [title |-> FALSE, description |-> FALSE, schema |-> "valid"],
               [title |-> TRUE, description |-> FALSE, schema |-> "invalid"]}

AnyName == Permutations(Names)
=============================================================================
