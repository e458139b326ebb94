-------------------------------- MODULE Mutex --------------------------------
(***************************************************************************)
(* What fl_acquire_lock and fl_release_lock promise the transactions: one  *)
(* command at a time works on the state directory, and a command that dies *)
(* or is turned away keeps nobody out.                                     *)
(***************************************************************************)
CONSTANTS Procs

VARIABLE phase

Init == phase = [p \in Procs |-> "out"]

\* A command gets the lock while nobody has it.
Acquire(p) ==
    /\ phase[p] = "out"
    /\ \A q \in Procs : phase[q] # "in"
    /\ phase' = [phase EXCEPT ![p] = "in"]

\* It finishes, is refused, or dies.
Leave(p) ==
    /\ phase[p] \in {"out", "in"}
    /\ phase' = [phase EXCEPT ![p] = "gone"]

\* A reboot ends whatever ran.
Reboot == phase' \in [Procs -> {"out", "gone"}] /\ \A p \in Procs :
              phase[p] = "gone" => phase'[p] = "gone"

Next == (\E p \in Procs : Acquire(p) \/ Leave(p)) \/ Reboot

Spec == Init /\ [][Next]_phase
=============================================================================
