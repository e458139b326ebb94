---------------------------- MODULE MCLifecycle ----------------------------
(***************************************************************************)
(* An instance of Lifecycle; the .cfg files give the boots, the failures    *)
(* and the owner's commands.                                                *)
(***************************************************************************)
EXTENDS Lifecycle

ThePlans == {Stages, {"early", "boot-completed"}, NoPlan}
=============================================================================
