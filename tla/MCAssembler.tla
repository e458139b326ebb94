----------------------------- MODULE MCAssembler -----------------------------
(***************************************************************************)
(* An instance of Assembler: three generations that share a baseline or a  *)
(* file, one of them without a property plan and one without any target,   *)
(* and two devices, one of which has an optional property unset.           *)
(***************************************************************************)
EXTENDS Assembler

TheOrder == <<"a", "b">>
TheBaselines == [g1 |-> [a |-> "a0", b |-> "b0"], g2 |-> [a |-> "a0", b |-> "b0"],
                 g3 |-> [a |-> "a1"], g4 |-> [t \in {} |-> ""]]
TheContents == [g1 |-> [a |-> "a-x", b |-> "b-x"], g2 |-> [a |-> "a-x", b |-> "b-y"],
                g3 |-> [a |-> "a-x"], g4 |-> [t \in {} |-> ""]]
ThePlans == [g1 |-> "plan1", g2 |-> "plan2", g3 |-> "none", g4 |-> "plan1"]
TheProperties == [d1 |-> [device |-> "x", name |-> "n"], d2 |-> [device |-> "x", name |-> ""]]
=============================================================================
