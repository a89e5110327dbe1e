---------------------------- MODULE CampaignLock ----------------------------
(***************************************************************************)
(* The campaign's lock file, templates/_shared/runtime.py, as the mutating *)
(* commands use it: open the file at the lock path (creating it if it is   *)
(* not there), poll flock() on that handle until it is granted or the      *)
(* deadline passes, then load the state, save it, and release.             *)
(*                                                                         *)
(* flock() locks the file a handle was opened on, not the path.  A reset   *)
(* removes the lock file it holds along with the rest of the campaign      *)
(* (archives.py, reset_artifact_paths), so handles opened before and after *)
(* the removal no longer exclude one another.  Files are numbered in the   *)
(* order they are created; 0 is no file.                                   *)
(***************************************************************************)
EXTENDS Naturals

CONSTANTS
  Procs,       \* processes that run commands on the campaign
  MaxUpdates,  \* bound: commands that save a state
  MaxRemovals  \* bound: lock files removed by a reset

ASSUME BoundAssumption == MaxUpdates \in Nat /\ MaxRemovals \in Nat

VARIABLES
  path,       \* the file at the lock path
  files,      \* lock files created so far
  pc, handle, \* where each process is, and the lock file it has open
  probe,      \* the file a health check holds a shared lock on
  loaded,     \* the state each process has loaded
  content,    \* bo_state.json, as the set of updates it contains
  committed,  \* history: updates saved since the last reset
  updates,    \* history: updates saved so far
  removals    \* history: lock files removed so far

vars == <<path, files, pc, handle, probe, loaded, content, committed, updates, removals>>

Section == {"acquired", "loaded", "wiped", "done"}   \* between acquire and release

TypeOK ==
  /\ path \in 0..files /\ files \in Nat /\ probe \in 0..files
  /\ pc \in [Procs -> {"idle", "waiting"} \cup Section]
  /\ handle \in [Procs -> 0..files]
  /\ \A p \in Procs : pc[p] = "idle" <=> handle[p] = 0
  /\ loaded \in [Procs -> SUBSET (1..updates)]
  /\ content \subseteq 1..updates /\ committed \subseteq 1..updates
  /\ updates \in 0..MaxUpdates /\ removals \in 0..MaxRemovals

Init ==
  /\ path = 0 /\ files = 0 /\ probe = 0
  /\ pc = [p \in Procs |-> "idle"] /\ handle = [p \in Procs |-> 0]
  /\ loaded = [p \in Procs |-> {}]
  /\ content = {} /\ committed = {} /\ updates = 0 /\ removals = 0

Step(p, from, to) == pc[p] = from /\ pc' = [pc EXCEPT ![p] = to]

\* Mutation: "r" instead of "a+", without creating the file.
Open_Existing(p) ==
  /\ Step(p, "idle", "waiting")
  /\ handle' = [handle EXCEPT ![p] = path]
  /\ UNCHANGED <<path, files, probe, loaded, content, committed, updates, removals>>

\* self.path.open("a+")
Open(p) ==
  /\ Step(p, "idle", "waiting")
  /\ IF path = 0 THEN path' = files + 1 /\ files' = files + 1
                 ELSE UNCHANGED <<path, files>>
  /\ handle' = [handle EXCEPT ![p] = path']
  /\ UNCHANGED <<probe, loaded, content, committed, updates, removals>>

Held(f) == \E q \in Procs : handle[q] = f /\ pc[q] \in Section

\* Mutation: the answer of flock is not looked at.
Free_Unchecked(f) == probe # f
\* flock(LOCK_EX | LOCK_NB) is granted.
Free(f) == probe # f /\ ~Held(f)

Acquire(p) ==
  /\ Step(p, "waiting", "acquired")
  /\ Free(handle[p])
  /\ UNCHANGED <<path, files, handle, probe, loaded, content, committed, updates, removals>>

Close(p) ==
  /\ pc' = [pc EXCEPT ![p] = "idle"] /\ handle' = [handle EXCEPT ![p] = 0]
  /\ UNCHANGED <<path, files, probe, loaded, content, committed, updates, removals>>

\* Mutation: no deadline, poll for ever.
GiveUp_Never(p) == FALSE /\ Close(p)
\* Refused, and fail-fast or past the deadline.
GiveUp(p) == pc[p] = "waiting" /\ ~Free(handle[p]) /\ Close(p)

\* Mutation: the state is loaded while the process waits for the lock.
Load_Early(p) ==
  /\ \/ pc[p] = "waiting" /\ loaded' = [loaded EXCEPT ![p] = content] /\ UNCHANGED pc
     \/ Step(p, "acquired", "loaded") /\ UNCHANGED loaded
  /\ UNCHANGED <<path, files, handle, probe, content, committed, updates, removals>>

Load(p) ==
  /\ Step(p, "acquired", "loaded")
  /\ loaded' = [loaded EXCEPT ![p] = content]
  /\ UNCHANGED <<path, files, handle, probe, content, committed, updates, removals>>

\* save_state: the state loaded, with this command's update, replaces the file.
Save(p) ==
  /\ Step(p, "loaded", "done")
  /\ updates < MaxUpdates /\ updates' = updates + 1
  /\ content' = loaded[p] \cup {updates'}
  /\ committed' = committed \cup {updates'}
  /\ UNCHANGED <<path, files, handle, probe, loaded, removals>>

\* A reset: bo_state.json is removed first, the lock file a few files later.
WipeState(p) ==
  /\ Step(p, "acquired", "wiped")
  /\ content' = {} /\ committed' = {}
  /\ UNCHANGED <<path, files, handle, probe, loaded, updates, removals>>

\* Whatever file is at the path by then goes; a missing one is skipped.
UnlinkLock(p) ==
  /\ Step(p, "wiped", "done")
  /\ IF path = 0 THEN UNCHANGED removals
                 ELSE removals < MaxRemovals /\ removals' = removals + 1
  /\ path' = 0
  /\ UNCHANGED <<files, handle, probe, loaded, content, committed, updates>>

Release(p) == pc[p] = "done" /\ Close(p)

\* The command fails, or the process dies: the kernel closes the handle.
Die(p) == pc[p] # "idle" /\ Close(p)

\* inspect_lock_state, run by health: a shared lock, taken and dropped.
Probe ==
  /\ probe = 0 /\ path # 0 /\ ~Held(path)
  /\ probe' = path
  /\ UNCHANGED <<path, files, pc, handle, loaded, content, committed, updates, removals>>

EndProbe ==
  /\ probe # 0 /\ probe' = 0
  /\ UNCHANGED <<path, files, pc, handle, loaded, content, committed, updates, removals>>

Poll(p) == Acquire(p) \/ GiveUp(p)

Next ==
  \/ \E p \in Procs :
       \/ Open(p) \/ Poll(p)
       \/ Load(p) \/ Save(p) \/ WipeState(p) \/ UnlinkLock(p)
       \/ Release(p) \/ Die(p)
  \/ Probe \/ EndProbe

Spec == Init /\ [][Next]_vars

\* A process that polls is scheduled, and its deadline is finite; nothing is
\* asked of the process that holds the lock.
FairSpec == Spec /\ \A p \in Procs : WF_vars(Poll(p))

-----------------------------------------------------------------------------
InSection == {p \in Procs : pc[p] \in Section}

\* At most one command runs between acquire and release: what
\* docs/operational-semantics.md says of the mutating commands.
MutualExclusion == \A p, q \in InSection : p = q

\* Until a reset removes the lock file, the lock excludes: this is what module
\* Controller builds on.
ExclusiveUntilRemoval == removals = 0 => MutualExclusion

\* Once every handle on a removed lock file has been closed, commands exclude
\* one another again, whatever overlapped before.
ExclusionReturns ==
  (\A p \in Procs : handle[p] \in {0, path}) => MutualExclusion

\* The lock excludes, but for a reset's removal of its file and what is still
\* open then.
Exclusion == ExclusiveUntilRemoval /\ ExclusionReturns

\* Until a reset removes the lock file, no saved update is lost: none is
\* overwritten by a command that loaded the state before it.
NoLostUpdate == removals = 0 => committed \subseteq content

\* A command that waits for the lock gets it or reports a timeout, even if the
\* holder never finishes or others keep taking the lock.
WaitingEnds == \A p \in Procs : pc[p] = "waiting" ~> pc[p] # "waiting"
=============================================================================
