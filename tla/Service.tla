------------------------------ MODULE Service -------------------------------
(***************************************************************************)
(* The HTTP service's mutating requests on one campaign: service/app.py,   *)
(* coordination.py, runtime.py, _runtime_worker.py and auth.py, with the   *)
(* registry (module Registry) and the campaign's lock file and state       *)
(* (module CampaignLock).                                                  *)
(*                                                                         *)
(* A request is checked, takes the campaign's lease if the service runs in *)
(* sqlite_lease mode, runs the command in a child process, gives the lease *)
(* back and answers.  The child takes the campaign's file lock like any    *)
(* other command.  A lease is a database row with an expiry: nothing stops *)
(* a child that outlives it, or whose server has died, and commands typed  *)
(* at a shell take no lease at all.                                        *)
(***************************************************************************)
EXTENDS Registry

CONSTANTS
  Requests,    \* POST suggest, ingest, reset and restore requests
  Shell,       \* commands typed at a shell
  KindOf,      \* "update" or "reset"
  KeyOf,       \* the campaign id as the request's path spells it
  CampaignOf,  \* the registered id that spelling is normalised to
  Setups,      \* deployments: [arrivals, lease]
  Ttl, Timeout,           \* lease_ttl_seconds, the lock timeout
  MaxClock, MaxCrashes,   \* bounds: the clock, servers that die
  MaxUpdates, MaxRemovals \* bounds: see CampaignLock

Workers == Requests \cup Shell
NoLease == [owner |-> "nobody", expires |-> 0]

ASSUME ServiceAssumption ==
  /\ Ttl \in Nat \ {0} /\ Timeout \in Nat /\ MaxClock \in Nat /\ MaxCrashes \in Nat
  /\ MaxUpdates \in Nat /\ MaxRemovals \in Nat
  /\ Requests \cap Shell = {}
  /\ KindOf \in [Workers -> {"update", "reset"}]
  /\ \A d \in Setups : \A r, q \in d.arrivals \cap Requests : CampaignOf[r] = CampaignOf[q]

VARIABLES
  setup,     \* the deployment
  clock,     \* time.time() and time.monotonic()
  svc,       \* where the server's thread for each request is
  deadline,  \* until when the request waits for the lease
  asked,     \* the clock as the request read it before its transaction
  lease,     \* campaign_leases, by campaign id as spelled
  until,     \* history: the expiry of the last lease granted to the request
  child,     \* the child process: none, running, or how it ended
  wrote,     \* history: the command has changed the campaign's state
  answer,    \* what the client was told
  audit,     \* auth_audit_log.jsonl: requests with a privileged_action event
  exposed,   \* history: a command was running that no live lease covered
  crashes,   \* history: servers that died
  path, files, pc, handle, probe, loaded, content, committed,
  updates, removals                                              \* CampaignLock

L == INSTANCE CampaignLock WITH Procs <- Workers

thread == <<svc, deadline, asked, answer, audit>>
leaseVars == <<lease, until>>
childVars == <<child, wrote>>
world == <<setup, clock, crashes>>
lockVars == <<path, files, pc, handle, probe, loaded, content, committed, updates, removals>>
vars == <<world, thread, leaseVars, childVars, exposed, registryVars, lockVars>>

Keys == {KeyOf[r] : r \in Requests}
Untouched == {"insufficient_role", "campaign_not_found", "preview_disabled",
              "coordination_unavailable", "lock_unavailable"}
Unknown == {"command_error", "worker_error", "registry_state_error"}
Ended == {"ok", "refused", "failed", "killed"}
Threads == {"idle", "polling", "asking", "granted", "running", "releasing",
            "auditing", "answered", "lost"}

TypeOK ==
  /\ setup \in Setups /\ clock \in 0..MaxClock /\ crashes \in 0..MaxCrashes
  /\ svc \in [Requests -> Threads]
  /\ deadline \in [Requests -> 0..MaxClock] /\ asked \in [Requests -> 0..MaxClock]
  /\ \A k \in Keys : lease[k] = NoLease \/ lease[k].owner \in Requests
  /\ DOMAIN lease = Keys
  /\ child \in [Workers -> {"none", "running"} \cup Ended]
  /\ wrote \in [Workers -> BOOLEAN] /\ exposed \in BOOLEAN
  /\ answer \in [Requests -> {"none", "ok"} \cup Untouched \cup Unknown]
  /\ audit \subseteq Requests
  /\ L!TypeOK

Init ==
  /\ setup \in Setups /\ clock = 0 /\ crashes = 0
  /\ svc = [r \in Requests |-> "idle"]
  /\ deadline = [r \in Requests |-> 0] /\ asked = [r \in Requests |-> 0]
  /\ lease = [k \in Keys |-> NoLease] /\ until = [r \in Requests |-> 0]
  /\ child = [w \in Workers |-> IF w \in Shell \cap setup.arrivals THEN "running" ELSE "none"]
  /\ wrote = [w \in Workers |-> FALSE]
  /\ answer = [r \in Requests |-> "none"] /\ audit = {} /\ exposed = FALSE
  /\ RegistryInit /\ L!Init

At(r, from) == svc[r] = from
Goto(r, to) == svc' = [svc EXCEPT ![r] = to] /\ UNCHANGED answer
Answer(r, code) ==
  /\ svc' = [svc EXCEPT ![r] = "answered"] /\ answer' = [answer EXCEPT ![r] = code]

-----------------------------------------------------------------------------
(* The request's thread in the server. *)

Elsewhere == UNCHANGED <<world, childVars, audit, registryVars, lockVars>>
Quiet == Elsewhere /\ UNCHANGED <<leaseVars, deadline, asked>>

\* The wait is over: its local variables go out of scope.
WaitOver(r) ==
  /\ asked' = [asked EXCEPT ![r] = 0] /\ deadline' = [deadline EXCEPT ![r] = 0]

\* _require_role, get_campaign and the campaign's preview flags, in this order.
Reject(r) ==
  /\ At(r, "idle") /\ r \in setup.arrivals
  /\ \/ Answer(r, "insufficient_role")
     \/ /\ \A x \in registry : x.id # CampaignOf[r]
        /\ Answer(r, "campaign_not_found")
     \/ Answer(r, "preview_disabled")
  /\ Quiet

\* The wait is counted from here; a fail-fast request does not wait.
Accept(r) ==
  /\ At(r, "idle") /\ r \in setup.arrivals
  /\ \E x \in registry : x.id = CampaignOf[r]
  /\ clock + Timeout <= MaxClock
  /\ \E patience \in {0, Timeout} :
       deadline' = [deadline EXCEPT ![r] = IF setup.lease THEN clock + patience ELSE 0]
  /\ Goto(r, IF setup.lease THEN "polling" ELSE "granted")
  /\ UNCHANGED <<leaseVars, asked>> /\ Elsewhere

ReadClock(r) ==
  /\ At(r, "polling")
  /\ asked' = [asked EXCEPT ![r] = clock]
  /\ Goto(r, "asking")
  /\ UNCHANGED <<leaseVars, deadline>> /\ Elsewhere

\* _lease_duration_seconds
Longer == IF Ttl > Timeout THEN Ttl ELSE Timeout
LeaseDuration == Longer + Ttl

\* No row, or one that has expired by the request's reading of the clock.
Grantable(r) ==
  lease[KeyOf[r]] = NoLease \/ lease[KeyOf[r]].expires <= asked[r]

\* The insert or update of _try_acquire, in one transaction.
Granted(r) ==
  LET expires == asked[r] + LeaseDuration IN
  /\ At(r, "asking") /\ Grantable(r)
  /\ lease' = [lease EXCEPT ![KeyOf[r]] = [owner |-> r, expires |-> expires]]
  /\ until' = [until EXCEPT ![r] = expires]
  /\ Goto(r, "granted")
  /\ WaitOver(r) /\ Elsewhere

\* Mutation: the loop never looks at its deadline.
NotGranted_Forever(r) ==
  /\ At(r, "asking") /\ ~Grantable(r) /\ Goto(r, "polling")
  /\ UNCHANGED <<leaseVars, asked, deadline>> /\ Elsewhere
\* Held by another: poll again, or give up once the deadline has passed.
NotGranted(r) ==
  /\ At(r, "asking") /\ ~Grantable(r)
  /\ IF clock >= deadline[r]
     THEN Answer(r, "coordination_unavailable") /\ WaitOver(r)
     ELSE Goto(r, "polling") /\ UNCHANGED deadline /\ asked' = [asked EXCEPT ![r] = 0]
  /\ UNCHANGED leaseVars /\ Elsewhere

\* The database stays busy past its own timeout.
DatabaseBusy(r) ==
  /\ At(r, "asking") /\ Answer(r, "registry_state_error")
  /\ WaitOver(r) /\ UNCHANGED leaseVars /\ Elsewhere

TryAcquire(r) == Granted(r) \/ NotGranted(r) \/ DatabaseBusy(r)

\* _invoke starts the worker process, or fails to.
StartWorker(r) ==
  /\ At(r, "granted")
  /\ \E how \in {"running", "killed"} :
       /\ child' = [child EXCEPT ![r] = how]
       /\ Goto(r, IF how = "running" THEN "running" ELSE "releasing")
  /\ UNCHANGED <<world, leaseVars, wrote, deadline, asked, audit, registryVars, lockVars>>

\* The worker has ended: its envelope or its exit code is read.
Collect(r) ==
  /\ At(r, "running") /\ child[r] \in Ended
  /\ Goto(r, "releasing")
  /\ Quiet

\* Mutation: a worker that died is taken for one that printed nothing.
Verdict_Silent(r) ==
  IF child[r] = "refused" THEN "lock_unavailable"
  ELSE IF child[r] = "failed" THEN "command_error" ELSE "ok"
\* Mutation: the exit of the process is passed on as it is.
Verdict_Raw(r) == child[r]
\* _classify_command_error, and RuntimeArtifactError for a worker that died
Verdict(r) ==
  CASE child[r] = "ok"      -> "ok"
    [] child[r] = "refused" -> "lock_unavailable"
    [] child[r] = "failed"  -> "command_error"
    [] child[r] = "killed"  -> "worker_error"

\* Mutation: the row is deleted whoever owns it.
Given_Any(r) == [lease EXCEPT ![KeyOf[r]] = NoLease]
\* DELETE ... WHERE campaign_id = ? AND owner_token = ?
Given(r) ==
  IF lease[KeyOf[r]].owner = r THEN [lease EXCEPT ![KeyOf[r]] = NoLease] ELSE lease

\* The lease is given back whatever became of the command; after a successful
\* reset or restore the audit event comes before the answer.
Release(r) ==
  /\ At(r, "releasing")
  /\ lease' = IF setup.lease THEN Given(r) ELSE lease
  /\ IF Verdict(r) = "ok" /\ KindOf[r] = "reset" THEN Goto(r, "auditing")
                                                 ELSE Answer(r, Verdict(r))
  /\ UNCHANGED <<world, until, childVars, deadline, asked, audit, registryVars, lockVars>>

\* The error of the release replaces the command's result; the row stays.
ReleaseBusy(r) ==
  /\ At(r, "releasing") /\ setup.lease
  /\ Answer(r, "registry_state_error")
  /\ Quiet

\* record_auth_audit_event(event_type="privileged_action")
Audit(r) ==
  /\ At(r, "auditing")
  /\ audit' = audit \cup {r}
  /\ Answer(r, "ok")
  /\ UNCHANGED <<world, leaseVars, childVars, deadline, asked, registryVars, lockVars>>

-----------------------------------------------------------------------------
(* The child process, and commands typed at a shell. *)

Outside == UNCHANGED <<world, thread, leaseVars, registryVars>>
Writes(w) == wrote' = [wrote EXCEPT ![w] = TRUE] /\ UNCHANGED child
Ends(w, how) == child' = [child EXCEPT ![w] = how] /\ UNCHANGED wrote

\* One command, step by step as in CampaignLock.  It may fail or be killed
\* anywhere, also after it has changed the state; the file lock's own refusal
\* comes before anything is read.
Command(w) ==
  /\ child[w] = "running"
  /\ \/ (L!Open(w) \/ L!Acquire(w)) /\ UNCHANGED childVars
     \/ L!GiveUp(w) /\ Ends(w, "refused")
     \/ KindOf[w] = "update" /\ L!Load(w) /\ UNCHANGED childVars
     \/ L!Save(w) /\ Writes(w)
     \/ KindOf[w] = "reset" /\ L!WipeState(w) /\ Writes(w)
     \/ L!UnlinkLock(w) /\ UNCHANGED childVars
     \/ L!Release(w) /\ Ends(w, "ok")
     \/ L!Die(w) /\ \E how \in {"failed", "killed"} : Ends(w, how)
  /\ Outside

-----------------------------------------------------------------------------
\* A server dies: its threads are gone, its children are not, and the lease
\* rows it owns stay until they expire.
ServerDies(s) ==
  /\ crashes < MaxCrashes /\ crashes' = crashes + 1
  /\ svc' = [r \in Requests |->
       IF ServerOf[r] = s /\ svc[r] \notin {"idle", "answered"} THEN "lost" ELSE svc[r]]
  /\ Abandon(s)
  /\ UNCHANGED <<setup, clock, deadline, asked, answer, audit, leaseVars, childVars, lockVars>>

\* POST /campaigns
RegisterCampaign(q) ==
  /\ q \in setup.arrivals
  /\ Register(q)
  /\ UNCHANGED <<world, thread, leaseVars, childVars, lockVars>>

Tick ==
  /\ clock < MaxClock /\ clock' = clock + 1
  /\ UNCHANGED <<setup, crashes, thread, leaseVars, childVars, registryVars, lockVars>>

\* The lease covers a command while it has not expired, by its own reckoning.
Covered(w) == w \in Requests /\ setup.lease /\ until[w] > clock
Open == {w \in Workers : pc[w] # "idle"}
Exposes ==
  \/ \E w \in Open : ~Covered(w)
  \/ \E w, v \in Open \cap Requests : KeyOf[w] # KeyOf[v]

Request(r) ==
  \/ Reject(r) \/ Accept(r) \/ ReadClock(r) \/ TryAcquire(r) \/ StartWorker(r)
  \/ Collect(r) \/ Release(r) \/ ReleaseBusy(r) \/ Audit(r)

Next ==
  /\ \/ \E r \in Requests : Request(r)
     \/ \E w \in Workers : Command(w)
     \/ \E q \in Registrations : RegisterCampaign(q)
     \/ \E s \in Servers : ServerDies(s)
     \/ Tick
  /\ exposed' = (exposed \/ Exposes')

Spec == Init /\ [][Next]_vars

\* A thread that waits for the lease keeps polling, and time passes; nothing is
\* asked of whoever holds the lease.
FairSpec ==
  /\ Spec /\ WF_vars(Tick /\ exposed' = (exposed \/ Exposes'))
  /\ \A r \in Requests :
       /\ WF_vars(ReadClock(r) /\ exposed' = (exposed \/ Exposes'))
       /\ WF_vars(TryAcquire(r) /\ exposed' = (exposed \/ Exposes'))

-----------------------------------------------------------------------------
\* While every running command is covered by a live lease on one spelling of
\* the campaign's id, the service's commands exclude one another and no update
\* is lost, even when a reset removes the lock file they queue on: the lease
\* closes the gap that the file lock alone leaves (CampaignLock).
LeaseCoversReset ==
  ~exposed => L!MutualExclusion /\ committed \subseteq content

\* A lease row is only ever taken over after it has expired, and only deleted by
\* the request that owns it: a request that finishes late, after its lease went
\* to another, leaves that one's lease alone.
RowsAreOwned == \A k \in Keys :
  lease[k] # NoLease /\ lease'[k] # lease[k] =>
    \/ lease[k].expires <= clock /\ lease'[k] # NoLease
    \/ lease'[k] = NoLease /\ svc[lease[k].owner] = "releasing"
                           /\ svc'[lease[k].owner] # "releasing"

\* coordination.py keeps one mutation per campaign: what the lease is for, and
\* that nobody takes or drops another's.
LeaseHolds == []LeaseCoversReset /\ [][RowsAreOwned]_vars

\* An answer can be relied on: "ok" says that the command changed the campaign,
\* a refusal that it never will, an audit event that the reset took place; and
\* a campaign answered as registered is in the registry, unless a save of
\* another server dropped it.
AnswersAreTrue ==
  /\ \A r \in Requests :
       /\ answer[r] = "ok" => wrote[r]
       /\ answer[r] \in Untouched => ~wrote[r] /\ child[r] # "running"
       /\ answer[r] = "ok" /\ KindOf[r] = "reset" => r \in audit
  /\ \A r \in audit : wrote[r]
  /\ RegistrationsKept /\ RegistryDistinct

\* A request that waits for the lease is granted it or answered, even if the
\* holder never finishes.
LeaseWaitEnds == \A r \in Requests :
  svc[r] = "polling" ~> svc[r] \notin {"polling", "asking"}

=============================================================================
