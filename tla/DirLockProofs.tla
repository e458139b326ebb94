---------------------------- MODULE DirLockProofs ----------------------------
(***************************************************************************)
(* Proofs about DirLock, for any set of commands, any pids and any events  *)
(* around them: who may find a lock of a running command, that a command   *)
(* alone is served, and that the lock implements Mutex.                    *)
(***************************************************************************)
EXTENDS DirLock, TLAPS

\* What holds in every window.  A token is that of a command that holds the lock
\* or was killed; whoever runs was started in this boot.
Tokens ==
    /\ \A p \in Procs : lock = p => pc[p] \in Holding \cup {"dead"}
    /\ \A p \in Procs : Live(p) => born[p] = boot
    /\ \A p \in Procs : born[p] <= boot
    /\ \A p \in Procs : seen[p] \in Procs => pc[seen[p]] # "new"
    /\ \A p \in Procs : pc[p] = "new" => attempt[p] = 0
    /\ \A p \in Procs : pc[p] \in Acquiring => attempt[p] < MaxAttempts

\* No window but the return of a pid.
NoRaces == Races \subseteq {"pid"}

\* What then makes the lock exclusive.  Between a judgement and its mv the lock is
\* the one that was judged, or gone: nobody stamps, and nobody can make another.
Exclusion ==
    /\ \A p \in Procs : pc[p] \in Holding => lock = p
    /\ \A p \in Procs : pc[p] = "stamp" =>
          lock = Unstamped /\ \A q \in Procs : pc[q] = "stamp" => q = p
    /\ \A p \in Procs : pc[p] \in {"judge", "steal"} =>
          lock \in {Absent, seen[p]} /\ \A q \in Procs : pc[q] # "stamp"
    /\ \A p \in Procs : pc[p] = "steal" /\ lock \in Procs => ~Live(lock)

\* A command that is alone finds the lock as it was when it started, until it has
\* moved it away; its pid is no other's of this boot.
Solitude ==
    /\ \A p \in Procs : alone[p] => pc[p] # "new" /\ \A q \in Procs \ {p} : ~Live(q)
    /\ \A p, q \in Procs : born[p] = born[q] /\ born[p] = boot /\ p # q => Pid[p] # Pid[q]
    /\ \A p \in Procs : alone[p] /\ pc[p] = "mkdir" =>
          attempt[p] = 0 \/ (attempt[p] = 1 /\ lock = Absent)
    /\ \A p \in Procs : alone[p] /\ pc[p] \in {"read", "reread", "judge", "steal"} =>
          attempt[p] = 0 /\ lock # Absent
    /\ \A p \in Procs : pc[p] = "judge" => seen[p] # p
    /\ AloneIsServed

Inv == TypeOK /\ Tokens

-----------------------------------------------------------------------------
\* The start.
LEMMA InvInit == Init => Inv
  BY LockAssumption DEF Init, Inv, TypeOK, Tokens, Live, Acquiring, Holding, MaxAttempts

\* Every call, signal, kill and reboot keeps the types and the tokens.
LEMMA InvNext == Inv /\ [Next]_vars => Inv'
  <1> USE LockAssumption DEF Inv, TypeOK, Tokens, Live, Acquiring, Holding, GoTo, MaxAttempts
  <1> SUFFICES ASSUME Inv, [Next]_vars PROVE Inv'
    OBVIOUS
  <1>1. CASE Reboot
    BY <1>1 DEF Reboot
  <1>2. ASSUME NEW p \in Procs, Start(p) PROVE Inv'
    BY <1>2 DEF Start
  <1>3. ASSUME NEW p \in Procs, Mkdir(p) PROVE Inv'
    BY <1>3 DEF Mkdir
  <1>4. ASSUME NEW p \in Procs, Stamp(p) PROVE Inv'
    BY <1>4 DEF Stamp
  <1>5. ASSUME NEW p \in Procs, ReadOwner(p) PROVE Inv'
    BY <1>5 DEF ReadOwner, Owner
  <1>6. ASSUME NEW p \in Procs, RereadOwner(p) PROVE Inv'
    BY <1>6 DEF RereadOwner, Owner
  <1>7. ASSUME NEW p \in Procs, Judge(p) PROVE Inv'
    BY <1>7 DEF Judge
  <1>8. ASSUME NEW p \in Procs, Steal(p) PROVE Inv'
    BY <1>8 DEF Steal
  <1>9. ASSUME NEW p \in Procs, Finish(p) \/ Release(p) \/ Remove(p) PROVE Inv'
    BY <1>9 DEF Finish, Release, Remove
  <1>10. ASSUME NEW p \in Procs, Signal(p) \/ Kill(p) PROVE Inv'
    BY <1>10 DEF Signal, Kill
  <1>11. CASE UNCHANGED vars
    BY <1>11 DEF vars
  <1> QED
    BY <1>1, <1>2, <1>3, <1>4, <1>5, <1>6, <1>7, <1>8, <1>9, <1>10, <1>11 DEF Next, Call

-----------------------------------------------------------------------------
\* Outside the stamp and the steal window every step keeps the lock exclusive.
LEMMA ExclusionNext ==
    ASSUME NoRaces, Inv, Exclusion, [Next]_vars
    PROVE  Exclusion'
  <1> USE LockAssumption DEF NoRaces, Inv, TypeOK, Tokens, Exclusion, Live, Acquiring, Holding, GoTo
  <1>1. CASE Reboot
    BY <1>1 DEF Reboot
  <1>2. ASSUME NEW p \in Procs, Start(p) PROVE Exclusion'
    BY <1>2 DEF Start
  <1>3. ASSUME NEW p \in Procs, Mkdir(p) PROVE Exclusion'
    BY <1>3 DEF Mkdir, Undisturbed
  <1>4. ASSUME NEW p \in Procs, Stamp(p) PROVE Exclusion'
    BY <1>4 DEF Stamp
  <1>5. ASSUME NEW p \in Procs, ReadOwner(p) PROVE Exclusion'
    BY <1>5 DEF ReadOwner, Owner
  <1>6. ASSUME NEW p \in Procs, RereadOwner(p) PROVE Exclusion'
    BY <1>6 DEF RereadOwner, Owner
  <1>7. ASSUME NEW p \in Procs, Judge(p) PROVE Exclusion'
    BY <1>7 DEF Judge, OwnerAlive
  <1>8. ASSUME NEW p \in Procs, Steal(p) PROVE Exclusion'
    BY <1>8 DEF Steal
  <1>9. ASSUME NEW p \in Procs, Finish(p) \/ Release(p) \/ Remove(p) PROVE Exclusion'
    BY <1>9 DEF Finish, Release, Remove
  <1>10. ASSUME NEW p \in Procs, Signal(p) \/ Kill(p) PROVE Exclusion'
    BY <1>10 DEF Signal, Kill
  <1>11. CASE UNCHANGED vars
    BY <1>11 DEF vars
  <1> QED
    BY <1>1, <1>2, <1>3, <1>4, <1>5, <1>6, <1>7, <1>8, <1>9, <1>10, <1>11 DEF Next, Call

\* As long as no pid returns, a command that is alone stays served.
LEMMA SolitudeNext ==
    ASSUME "pid" \notin Races, Inv, Solitude, [Next]_vars
    PROVE  Solitude'
  <1> USE LockAssumption
      DEF Inv, TypeOK, Tokens, Solitude, AloneIsServed, Live, Acquiring, Holding, GoTo
  <1>1. CASE Reboot
    BY <1>1 DEF Reboot
  <1>2. ASSUME NEW p \in Procs, Start(p) PROVE Solitude'
    BY <1>2 DEF Start
  <1>3. ASSUME NEW p \in Procs, Mkdir(p) PROVE Solitude'
    BY <1>3 DEF Mkdir, Undisturbed
  <1>4. ASSUME NEW p \in Procs, Stamp(p) PROVE Solitude'
    BY <1>4 DEF Stamp
  <1>5. ASSUME NEW p \in Procs, ReadOwner(p) PROVE Solitude'
    BY <1>5 DEF ReadOwner, Owner
  <1>6. ASSUME NEW p \in Procs, RereadOwner(p) PROVE Solitude'
    BY <1>6 DEF RereadOwner, Owner
  <1>7. ASSUME NEW p \in Procs, Judge(p) PROVE Solitude'
    BY <1>7 DEF Judge, OwnerAlive
  <1>8. ASSUME NEW p \in Procs, Steal(p) PROVE Solitude'
    BY <1>8 DEF Steal, MaxAttempts
  <1>9. ASSUME NEW p \in Procs, Finish(p) \/ Release(p) \/ Remove(p) PROVE Solitude'
    BY <1>9 DEF Finish, Release, Remove
  <1>10. ASSUME NEW p \in Procs, Signal(p) \/ Kill(p) PROVE Solitude'
    BY <1>10 DEF Signal, Kill
  <1>11. CASE UNCHANGED vars
    BY <1>11 DEF vars
  <1> QED
    BY <1>1, <1>2, <1>3, <1>4, <1>5, <1>6, <1>7, <1>8, <1>9, <1>10, <1>11 DEF Next, Call

\* A call of p moves the phase of p and of nobody else.
LEMMA PhaseMoves ==
    ASSUME NEW p \in Procs, NEW next, TypeOK, GoTo(p, next)
    PROVE  /\ phase' = [phase EXCEPT ![p] = PhaseOf(next)]
           /\ PhaseOf(next) = PhaseOf(pc[p]) => phase' = phase
           /\ \A q \in Procs : phase[q] = PhaseOf(pc[q])
  BY DEF phase, GoTo, TypeOK

\* Every step acquires or leaves the abstract mutex, or does not touch it.
LEMMA PhaseNext ==
    ASSUME NoRaces, Inv, Exclusion, [Next]_vars
    PROVE  [M!Next]_phase
  <1> USE DEF Inv
  <1>1. CASE Reboot
    <2>1. M!Reboot
      BY <1>1 DEF Reboot, TypeOK, Live, Acquiring, Holding, phase, PhaseOf, M!Reboot
    <2> QED
      BY <2>1 DEF M!Next
  <1>2. ASSUME NEW p \in Procs, Start(p) \/ Mkdir(p) \/ ReadOwner(p) \/ RereadOwner(p) \/ Finish(p)
        PROVE  UNCHANGED phase
    <2>1. \E next : GoTo(p, next) /\ PhaseOf(next) = PhaseOf(pc[p])
      BY <1>2 DEF Start, Mkdir, ReadOwner, RereadOwner, Finish, PhaseOf, Holding
    <2> QED
      BY <2>1, PhaseMoves
  <1>3. ASSUME NEW p \in Procs, Stamp(p) PROVE M!Acquire(p) \/ M!Leave(p)
    <2>1. PhaseOf(pc[p]) = "out" /\ PhaseOf("critical") = "in" /\ PhaseOf("failed") = "gone"
      BY <1>3 DEF Stamp, PhaseOf, Holding
    <2>2. \A q \in Procs : PhaseOf(pc[q]) # "in"
      BY <1>3, LockAssumption DEF Stamp, PhaseOf, Exclusion
    <2> QED
      BY <1>3, <2>1, <2>2, PhaseMoves DEF Stamp, M!Acquire, M!Leave
  <1>4. ASSUME NEW p \in Procs,
               Judge(p) \/ Steal(p) \/ Release(p) \/ Remove(p) \/ Signal(p) \/ Kill(p)
        PROVE  M!Leave(p) \/ UNCHANGED phase
    <2>1. PICK next : GoTo(p, next) /\ (PhaseOf(next) = "gone" \/ PhaseOf(next) = PhaseOf(pc[p]))
      BY <1>4 DEF Judge, Steal, Release, Remove, Signal, Kill, PhaseOf, Holding
    <2>2. PhaseOf(pc[p]) \in {"out", "in", "gone"}
      BY DEF PhaseOf
    <2> QED
      BY <2>1, <2>2, PhaseMoves DEF M!Leave
  <1>5. CASE UNCHANGED vars
    BY <1>5 DEF vars, phase
  <1> QED
    BY <1>1, <1>2, <1>3, <1>4, <1>5 DEF Next, Call, M!Next

-----------------------------------------------------------------------------
\* Inv holds in every state, in whatever windows.
LEMMA Always == Spec => []Inv
  BY InvInit, InvNext, PTL DEF Spec

\* The types, for any commands, pids, windows and events.
THEOREM TypeCorrect == Spec => []TypeOK
  <1>1. Inv => TypeOK
    BY DEF Inv
  <1> QED
    BY <1>1, Always, PTL

\* Whoever ended by itself has left no lock behind, whatever the windows: a lost
\* race never makes a lock that nobody may take over.
THEOREM NothingLeftBehind == Spec => []EndedLeavesNoLock
  <1>1. Inv => EndedLeavesNoLock
    BY DEF Inv, Tokens, EndedLeavesNoLock, Holding
  <1> QED
    BY <1>1, Always, PTL

\* Outside the stamp and the steal window, Exclusion holds in every state.
LEMMA AlwaysExclusive ==
    ASSUME NoRaces
    PROVE  Spec => []Exclusion
  <1>1. Init => Exclusion
    BY LockAssumption DEF Init, Exclusion, Holding
  <1>2. Inv /\ Exclusion /\ [Next]_vars => Exclusion'
    BY ExclusionNext
  <1> QED
    BY <1>1, <1>2, Always, PTL DEF Spec

\* Outside those two windows at most one command holds the lock, across kills,
\* signals, reboots, failing writes and pids that come back.
THEOREM Exclusive ==
    ASSUME NoRaces
    PROVE  Spec => []MutualExclusion
  <1>1. Exclusion => MutualExclusion
    BY DEF Exclusion, MutualExclusion
  <1> QED
    BY <1>1, AlwaysExclusive, PTL

\* Outside those two windows the lock is a Mutex: every call of a command is an
\* acquisition with nobody inside, an end, or nothing to it.
THEOREM Refinement ==
    ASSUME NoRaces
    PROVE  Spec => ImplementsMutex
  <1>1. Init => M!Init
    BY DEF Init, M!Init, phase, PhaseOf, Holding
  <1>2. Inv /\ Exclusion /\ [Next]_vars => [M!Next]_phase
    BY PhaseNext
  <1> QED
    BY <1>1, <1>2, Always, AlwaysExclusive, PTL DEF Spec, ImplementsMutex, M!Spec

\* If no pid comes back within a boot, a command that has nobody beside it is
\* never refused, whatever lock it finds; in any of the other windows.
THEOREM Served ==
    ASSUME "pid" \notin Races
    PROVE  Spec => []AloneIsServed
  <1>1. Init => Solitude
    BY LockAssumption DEF Init, Solitude, AloneIsServed
  <1>2. Inv /\ Solitude /\ [Next]_vars => Solitude'
    BY SolitudeNext
  <1>3. Solitude => AloneIsServed
    BY DEF Solitude
  <1> QED
    BY <1>1, <1>2, <1>3, Always, PTL DEF Spec
=============================================================================
