----------------------- MODULE MCPropertyController -----------------------
(***************************************************************************)
(* Instances of PropertyController for TLC: a stage of two rows, a stage   *)
(* of one and an empty one.                                                *)
(***************************************************************************)
EXTENDS PropertyController, TLC

CONSTANTS k1, k2, k3

TheStages == {"early", "service", "boot-completed"}

TheOrder == <<"boot-completed", "service", "early">>

ThreeRows == [early |-> <<k1>>, service |-> <<k2, k3>>] @@ ("boot-completed" :> <<>>)

ServiceRows == [early |-> <<>>, service |-> <<k2, k3>>] @@ ("boot-completed" :> <<>>)

AllFaults == {"boot-id", "allocate", "preflight", "read", "journal", "set", "reverse",
              "restore", "publish", "commit"}

AllEnv == {"foreign", "kill", "reboot", "recovery-on", "recovery-off", "replan"}
=============================================================================
