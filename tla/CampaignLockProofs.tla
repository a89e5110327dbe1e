------------------------- MODULE CampaignLockProofs -------------------------
(***************************************************************************)
(* The campaign lock excludes for any number of processes, updates and     *)
(* resets: in general among the commands that hold the file at the lock    *)
(* path, and among all commands as long as no reset has removed that file. *)
(*                                                                         *)
(* The invariant is that flock keeps holders of one file apart             *)
(* (OneHolder), that before the first removal there is only one file       *)
(* (OneFile), and that a state a command has loaded under the lock is      *)
(* still the newest one when it is saved (Fresh).                          *)
(***************************************************************************)
EXTENDS CampaignLock, TLAPS

OneHolder == \A p, q \in InSection : handle[p] = handle[q] => p = q

OneFile == removals = 0 => path = files /\ files <= 1

Fresh == removals = 0 =>
  \A p \in Procs : pc[p] = "loaded" => committed \subseteq loaded[p]

IInv == TypeOK /\ OneHolder /\ OneFile /\ NoLostUpdate /\ Fresh

\* Before any file is removed, every open handle is on the file at the path.
LEMMA HandlesCurrent ==
  ASSUME TypeOK, OneFile, removals = 0
  PROVE  \A p \in Procs : handle[p] \in {0, path}
<1> TAKE p \in Procs
<1>1. handle[p] \in 0..files /\ path = files /\ files \in {0, 1}
  BY DEF TypeOK, OneFile
<1> QED BY <1>1

\* Holders whose handles are all on the file at the path hold one lock.
LEMMA CurrentExcludes ==
  ASSUME TypeOK, OneHolder
  PROVE  ExclusionReturns
  BY DEF TypeOK, OneHolder, ExclusionReturns, MutualExclusion, InSection, Section

LEMMA Exclusive ==
  ASSUME IInv
  PROVE  ExclusiveUntilRemoval
  BY HandlesCurrent, CurrentExcludes DEF IInv, ExclusiveUntilRemoval, ExclusionReturns

LEMMA InitInv == Init => IInv
  BY BoundAssumption DEF Init, IInv, TypeOK, OneHolder, OneFile, NoLostUpdate, Fresh,
    InSection, Section

\* Closing a handle takes a process out of the section and touches no file.
LEMMA CloseInv ==
  ASSUME IInv, NEW p \in Procs, Close(p)
  PROVE  IInv'
  BY DEF IInv, TypeOK, OneHolder, OneFile, NoLostUpdate, Fresh, InSection, Section, Close

LEMMA StepInv == IInv /\ [Next]_vars => IInv'
<1> SUFFICES ASSUME IInv, [Next]_vars PROVE IInv'
  OBVIOUS
<1> USE BoundAssumption
<1>1. ASSUME NEW p \in Procs, Open(p) PROVE IInv'
  <2>1. TypeOK'
    BY <1>1 DEF IInv, Open, Step, TypeOK, Section
  <2>2. OneHolder' /\ OneFile' /\ NoLostUpdate' /\ Fresh'
    BY <1>1 DEF IInv, Open, Step, TypeOK, OneHolder, OneFile, NoLostUpdate, Fresh,
      InSection, Section
  <2> QED BY <2>1, <2>2 DEF IInv
<1>2. ASSUME NEW p \in Procs, Acquire(p) PROVE IInv'
  <2>1. OneHolder'
    BY <1>2 DEF IInv, Acquire, Free, Held, Step, TypeOK, OneHolder, InSection, Section
  <2>2. TypeOK' /\ OneFile' /\ NoLostUpdate' /\ Fresh'
    BY <1>2 DEF IInv, Acquire, Step, TypeOK, OneFile, NoLostUpdate, Fresh, Section
  <2> QED BY <2>1, <2>2 DEF IInv
<1>3. ASSUME NEW p \in Procs, Load(p) PROVE IInv'
  <2>1. TypeOK'
    BY <1>3 DEF IInv, Load, Step, TypeOK, Section
  <2>2. OneHolder' /\ OneFile' /\ NoLostUpdate' /\ Fresh'
    BY <1>3 DEF IInv, Load, Step, TypeOK, OneHolder, OneFile, NoLostUpdate, Fresh,
      InSection, Section
  <2> QED BY <2>1, <2>2 DEF IInv
<1>4. ASSUME NEW p \in Procs, Save(p) PROVE IInv'
  <2>1. TypeOK'
    BY <1>4 DEF IInv, Save, Step, TypeOK, Section
  <2>2. OneHolder' /\ OneFile'
    BY <1>4 DEF IInv, Save, Step, TypeOK, OneHolder, OneFile, InSection, Section
  <2>3. NoLostUpdate'
    BY <1>4 DEF IInv, Save, Step, TypeOK, NoLostUpdate, Fresh
  <2>4. Fresh'
    \* Nobody else is in the section, so nobody else has a state loaded.
    <3>1. removals = 0 => \A q \in Procs : pc[q] = "loaded" => q = p
      BY Exclusive, <1>4 DEF Save, Step, ExclusiveUntilRemoval, MutualExclusion,
        InSection, Section
    <3>2. pc'[p] = "done" /\ \A q \in Procs : q # p => pc'[q] = pc[q]
      BY <1>4 DEF IInv, TypeOK, Save, Step
    <3>3. removals = 0 => \A q \in Procs : pc'[q] # "loaded"
      BY <3>1, <3>2
    <3>4. removals' = removals
      BY <1>4 DEF Save
    <3> QED BY <3>3, <3>4 DEF Fresh
  <2> QED BY <2>1, <2>2, <2>3, <2>4 DEF IInv
<1>5. ASSUME NEW p \in Procs, WipeState(p) PROVE IInv'
  BY <1>5 DEF IInv, WipeState, Step, TypeOK, OneHolder, OneFile, NoLostUpdate, Fresh,
    InSection, Section
<1>6. ASSUME NEW p \in Procs, UnlinkLock(p) PROVE IInv'
  <2>1. TypeOK'
    BY <1>6 DEF IInv, UnlinkLock, Step, TypeOK, Section
  <2>2. OneHolder' /\ OneFile' /\ NoLostUpdate' /\ Fresh'
    BY <1>6 DEF IInv, UnlinkLock, Step, TypeOK, OneHolder, OneFile, NoLostUpdate, Fresh,
      InSection, Section
  <2> QED BY <2>1, <2>2 DEF IInv
<1>7. ASSUME NEW p \in Procs, GiveUp(p) \/ Release(p) \/ Die(p) PROVE IInv'
  BY <1>7, CloseInv DEF GiveUp, Release, Die
<1>8. CASE Probe \/ EndProbe
  <2>1. probe' \in 0..files
    BY <1>8 DEF IInv, TypeOK, Probe, EndProbe
  <2>2. UNCHANGED <<path, files, pc, handle, loaded, content, committed, updates, removals>>
    BY <1>8 DEF Probe, EndProbe
  <2>3. TypeOK'
    BY <2>1, <2>2 DEF IInv, TypeOK
  <2>4. OneHolder' /\ OneFile' /\ NoLostUpdate' /\ Fresh'
    BY <2>2 DEF IInv, OneHolder, OneFile, NoLostUpdate, Fresh, InSection, Section
  <2> QED BY <2>3, <2>4 DEF IInv
<1>9. CASE UNCHANGED vars
  BY <1>9 DEF IInv, vars, TypeOK, OneHolder, OneFile, NoLostUpdate, Fresh, InSection, Section
<1> QED
  BY <1>1, <1>2, <1>3, <1>4, <1>5, <1>6, <1>7, <1>8, <1>9 DEF Next, Poll

\* The inductive invariant holds in every reachable state.
THEOREM LockInvariant == Spec => []IInv
  BY InitInv, StepInv, PTL DEF Spec

\* A process has a lock file open exactly while it runs a command, handles and
\* loaded states are files and updates that exist, and no bound is exceeded.
THEOREM TypeCorrect == Spec => []TypeOK
<1>1. IInv => TypeOK
  BY DEF IInv
<1> QED BY <1>1, LockInvariant, PTL

\* Whatever the number of processes and resets: once no handle on a removed
\* lock file is open (runtime.py opens the file at the path), at most one
\* command is between acquire and release.
THEOREM ExclusionAlwaysReturns == Spec => []ExclusionReturns
<1>1. IInv => ExclusionReturns
  BY CurrentExcludes DEF IInv
<1> QED BY <1>1, LockInvariant, PTL

\* Until cmd_reset removes the lock file, at most one command is between
\* acquire and release, and so no command saves over a state it has not seen.
THEOREM ExclusiveWithoutReset == Spec => []ExclusiveUntilRemoval
<1>1. IInv => ExclusiveUntilRemoval
  BY Exclusive
<1> QED BY <1>1, LockInvariant, PTL

\* Both: overlapping commands need a removed lock file that is still open.
THEOREM ExclusionHolds == Spec => []Exclusion
<1>1. IInv => Exclusion
  BY Exclusive, CurrentExcludes DEF IInv, Exclusion
<1> QED BY <1>1, LockInvariant, PTL

THEOREM UpdatesLast == Spec => []NoLostUpdate
<1>1. IInv => NoLostUpdate
  BY DEF IInv
<1> QED BY <1>1, LockInvariant, PTL
=============================================================================
