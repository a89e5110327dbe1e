------------------------------ MODULE Registry ------------------------------
(***************************************************************************)
(* The service's campaign registry, service/registry.py: one JSON file,    *)
(* rewritten whole on every registration.  A server reads it, checks the   *)
(* new record against what it read and writes it back, under a lock that   *)
(* only the threads of that server share.  Several servers may be run on   *)
(* one file (docs/coordination-preview.md).                                *)
(***************************************************************************)
EXTENDS Naturals

CONSTANTS
  Servers,        \* service processes
  Registrations,  \* POST /campaigns requests
  ServerOf,       \* the server each request is sent to
  RecordOf,       \* the record it asks for: [id, root]
  Registered      \* the records in the file at the start

ASSUME RegistryAssumption ==
  /\ Registrations \subseteq DOMAIN ServerOf
  /\ \A q \in Registrations : ServerOf[q] \in Servers
  /\ Registrations \subseteq DOMAIN RecordOf
  /\ \A x, y \in Registered : x.id = y.id \/ x.root = y.root => x = y

VARIABLES
  registry,  \* campaign_registry.json, as the set of its records
  reg,       \* where each registration is
  snapshot,  \* the records each registration has read
  dropped    \* history: records left out by the save of another server

registryVars == <<registry, reg, snapshot, dropped>>

Locked == {"locked", "checked"}              \* inside self._write_lock

RegistryInit ==
  /\ registry = Registered /\ dropped = {}
  /\ reg = [q \in Registrations |-> "idle"]
  /\ snapshot = [q \in Registrations |-> {}]

Move(q, from, to) == reg[q] = from /\ reg' = [reg EXCEPT ![q] = to]

\* validate_campaign_root: the root is not a campaign, or has not opted in.
Refuse(q) == Move(q, "idle", "refused") /\ UNCHANGED <<registry, snapshot, dropped>>

\* Mutation: the threads of a server share no lock.
EnterWriteLock_Shared(q) ==
  Move(q, "idle", "locked") /\ UNCHANGED <<registry, snapshot, dropped>>
EnterWriteLock(q) ==
  /\ \A p \in Registrations : reg[p] \in Locked => ServerOf[p] # ServerOf[q]
  /\ Move(q, "idle", "locked")
  /\ UNCHANGED <<registry, snapshot, dropped>>

Conflicts(record, records) ==
  \E x \in records : x.id = record.id \/ x.root = record.root

LoadAndCheck(q) ==
  /\ Move(q, "locked", IF Conflicts(RecordOf[q], registry) THEN "conflict" ELSE "checked")
  /\ snapshot' = [snapshot EXCEPT ![q] = registry]
  /\ UNCHANGED <<registry, dropped>>

Without(records) == registry \ records

\* save_registry_snapshot replaces the file by the snapshot and the new record.
SaveSnapshot(q) ==
  LET saved == snapshot[q] \cup {RecordOf[q]} IN
  /\ Move(q, "checked", "created")
  /\ registry' = saved
  /\ dropped' = dropped \cup {x \in Without(saved) :
       \E p \in Registrations : RecordOf[p] = x /\ ServerOf[p] # ServerOf[q]}
  /\ UNCHANGED snapshot

\* The server dies: the file has either the old records or the new ones.
Abandon(s) ==
  /\ reg' = [q \in Registrations |->
       IF ServerOf[q] = s /\ reg[q] \in Locked THEN "lost" ELSE reg[q]]
  /\ UNCHANGED <<registry, snapshot, dropped>>

Register(q) == Refuse(q) \/ EnterWriteLock(q) \/ LoadAndCheck(q) \/ SaveSnapshot(q)

\* The registry by itself: servers that register campaigns and may die.
RegistryNext ==
  (\E q \in Registrations : Register(q)) \/ (\E s \in Servers : Abandon(s))
RegistrySpec == RegistryInit /\ [][RegistryNext]_registryVars

-----------------------------------------------------------------------------
\* A registration answered 201 stays in the file unless a server that read the
\* file before rewrote it afterwards: the threads of one server lose none.
RegistrationsKept ==
  \A q \in Registrations : reg[q] = "created" => RecordOf[q] \in registry \cup dropped

\* No two records of the file share an id or a root.
RegistryDistinct ==
  \A x, y \in registry : x.id = y.id \/ x.root = y.root => x = y
=============================================================================
