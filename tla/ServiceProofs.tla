---------------------------- MODULE ServiceProofs ----------------------------
(***************************************************************************)
(* The service for any number of servers, requests and registrations.      *)
(* The registry by itself: it never holds two records with one id or root, *)
(* and the threads of one server never lose a registration.  The service:  *)
(* a lease closes the gap that a reset opens in the file lock, rows are    *)
(* taken over only when they have expired, and answers can be relied on.   *)
(***************************************************************************)
EXTENDS Service, TLAPS

-----------------------------------------------------------------------------
(* The registry. *)

Distinct(records) == \A x, y \in records : x.id = y.id \/ x.root = y.root => x = y

\* The write lock admits one registration per server.
OneWriter == \A p, q \in Registrations :
  reg[p] \in Locked /\ reg[q] \in Locked /\ ServerOf[p] = ServerOf[q] => p = q

\* What a server's thread is about to write has its server's registrations.
SeenByChecked == \A p, q \in Registrations :
  reg[q] = "checked" /\ reg[p] = "created" /\ ServerOf[p] = ServerOf[q] =>
    RecordOf[p] \in snapshot[q] \cup dropped

\* What a thread is about to write is a sound registry.
CheckedIsSound == \A q \in Registrations :
  reg[q] = "checked" => Distinct(snapshot[q]) /\ ~Conflicts(RecordOf[q], snapshot[q])

Functions == DOMAIN reg = Registrations /\ DOMAIN snapshot = Registrations

RegistryInv ==
  /\ Functions /\ OneWriter /\ SeenByChecked /\ CheckedIsSound
  /\ RegistrationsKept /\ RegistryDistinct

LEMMA RegistryInitInv == RegistryInit => RegistryInv
BY RegistryAssumption DEF RegistryInit, RegistryInv, Functions, OneWriter, SeenByChecked,
   CheckedIsSound, RegistrationsKept, RegistryDistinct, Locked

\* A step that moves one registration to a place outside the lock, and nothing
\* else, keeps the invariant.
LEMMA Unlocked ==
  ASSUME RegistryInv, NEW q \in Registrations, NEW to,
         to \notin Locked, to # "created",
         reg' = [reg EXCEPT ![q] = to], DOMAIN snapshot' = Registrations,
         \A p \in Registrations \ {q} : snapshot'[p] = snapshot[p],
         UNCHANGED <<registry, dropped>>
  PROVE  RegistryInv'
BY DEF RegistryInv, Functions, OneWriter, SeenByChecked, CheckedIsSound, RegistrationsKept,
   RegistryDistinct, Locked, Distinct, Conflicts

\* Entering the write lock: no other thread of the server is inside.
LEMMA EnterKeeps ==
  ASSUME RegistryInv, NEW q \in Registrations, EnterWriteLock(q)
  PROVE  RegistryInv'
<1>1. \A p \in Registrations : ServerOf[p] = ServerOf[q] => reg[p] \notin Locked
  BY DEF EnterWriteLock
<1>2. /\ reg' = [reg EXCEPT ![q] = "locked"]
      /\ UNCHANGED <<registry, snapshot, dropped>>
  BY DEF EnterWriteLock, Move
<1>3. Functions' /\ RegistryDistinct'
  BY <1>2 DEF RegistryInv, Functions, RegistryDistinct
<1>4. OneWriter'
  BY <1>1, <1>2 DEF RegistryInv, Functions, OneWriter, Locked
<1>5. SeenByChecked' /\ CheckedIsSound' /\ RegistrationsKept'
  BY <1>2 DEF RegistryInv, Functions, SeenByChecked, CheckedIsSound, RegistrationsKept,
     Distinct, Conflicts
<1> QED BY <1>3, <1>4, <1>5 DEF RegistryInv

\* Reading the file: what is read has every registration of the server, since
\* none of its threads can have been left out.
LEMMA LoadKeeps ==
  ASSUME RegistryInv, NEW q \in Registrations, LoadAndCheck(q)
  PROVE  RegistryInv'
<1>1. /\ reg[q] = "locked" /\ snapshot' = [snapshot EXCEPT ![q] = registry]
      /\ UNCHANGED <<registry, dropped>>
  BY DEF LoadAndCheck, Move
<1>2. CASE Conflicts(RecordOf[q], registry)
  <2>1. reg' = [reg EXCEPT ![q] = "conflict"]
    BY <1>2 DEF LoadAndCheck, Move
  <2>2. DOMAIN snapshot' = Registrations
        /\ \A p \in Registrations \ {q} : snapshot'[p] = snapshot[p]
    BY <1>1 DEF RegistryInv, Functions
  <2> QED BY <1>1, <2>1, <2>2, Unlocked DEF Locked
<1>3. CASE ~Conflicts(RecordOf[q], registry)
  <2>1. reg' = [reg EXCEPT ![q] = "checked"]
    BY <1>3 DEF LoadAndCheck, Move
  <2>2. Functions' /\ RegistryDistinct' /\ RegistrationsKept'
    BY <1>1, <2>1 DEF RegistryInv, Functions, RegistryDistinct, RegistrationsKept
  <2>3. OneWriter'
    BY <1>1, <2>1 DEF RegistryInv, Functions, OneWriter, Locked
  <2>4. SeenByChecked'
    BY <1>1, <2>1 DEF RegistryInv, Functions, SeenByChecked, RegistrationsKept
  <2>5. CheckedIsSound'
    BY <1>1, <1>3, <2>1 DEF RegistryInv, Functions, CheckedIsSound, RegistryDistinct,
       Distinct, Conflicts
  <2> QED BY <2>2, <2>3, <2>4, <2>5 DEF RegistryInv
<1> QED BY <1>2, <1>3

\* Rewriting the file: what it leaves out is another server's.
LEMMA SaveKeeps ==
  ASSUME RegistryInv, NEW q \in Registrations, SaveSnapshot(q)
  PROVE  RegistryInv'
<1> DEFINE saved == snapshot[q] \cup {RecordOf[q]}
<1>1. /\ reg[q] = "checked" /\ reg' = [reg EXCEPT ![q] = "created"]
      /\ registry' = saved /\ snapshot' = snapshot
      /\ dropped \subseteq dropped'
      /\ \A x \in registry \ saved : \A p \in Registrations :
           RecordOf[p] = x /\ ServerOf[p] # ServerOf[q] => x \in dropped'
  BY DEF SaveSnapshot, Move, Without
<1>2. Functions' /\ OneWriter'
  BY <1>1 DEF RegistryInv, Functions, OneWriter, Locked
<1>3. SeenByChecked'
  <2> SUFFICES ASSUME NEW p \in Registrations, NEW r \in Registrations,
                      reg'[r] = "checked", reg'[p] = "created", ServerOf[p] = ServerOf[r]
               PROVE  RecordOf[p] \in snapshot'[r] \cup dropped'
    BY DEF SeenByChecked
  <2>1. r # q /\ reg[r] = "checked"
    BY <1>1 DEF RegistryInv, Functions
  <2>2. p # q
    BY <1>1, <2>1 DEF RegistryInv, OneWriter, Locked
  <2>3. reg[p] = "created"
    BY <1>1, <2>2 DEF RegistryInv, Functions
  <2> QED BY <1>1, <2>1, <2>3 DEF RegistryInv, SeenByChecked
<1>4. CheckedIsSound'
  BY <1>1 DEF RegistryInv, Functions, CheckedIsSound, Distinct, Conflicts
<1>5. RegistrationsKept'
  <2> SUFFICES ASSUME NEW p \in Registrations, reg'[p] = "created"
               PROVE  RecordOf[p] \in registry' \cup dropped'
    BY DEF RegistrationsKept
  <2>1. CASE p = q
    BY <1>1, <2>1
  <2>2. CASE p # q
    <3>1. reg[p] = "created" /\ RecordOf[p] \in registry \cup dropped
      BY <1>1, <2>2 DEF RegistryInv, Functions, RegistrationsKept
    <3>2. ServerOf[p] = ServerOf[q] => RecordOf[p] \in snapshot[q] \cup dropped
      BY <1>1, <3>1 DEF RegistryInv, SeenByChecked
    <3> QED BY <1>1, <3>1, <3>2
  <2> QED BY <2>1, <2>2
<1>6. RegistryDistinct'
  <2>1. Distinct(snapshot[q]) /\ ~Conflicts(RecordOf[q], snapshot[q])
    BY <1>1 DEF RegistryInv, CheckedIsSound
  <2> QED BY <1>1, <2>1 DEF RegistryDistinct, Distinct, Conflicts
<1> QED BY <1>2, <1>3, <1>4, <1>5, <1>6 DEF RegistryInv

\* A server's death loses its registrations under way, not the file.
LEMMA AbandonKeeps ==
  ASSUME RegistryInv, NEW s \in Servers, Abandon(s)
  PROVE  RegistryInv'
<1>1. /\ reg' = [q \in Registrations |->
           IF ServerOf[q] = s /\ reg[q] \in Locked THEN "lost" ELSE reg[q]]
      /\ UNCHANGED <<registry, snapshot, dropped>>
  BY DEF Abandon
<1>2. \A q \in Registrations : reg'[q] = reg[q] \/ reg'[q] = "lost"
  BY <1>1
<1>3. Functions' /\ RegistryDistinct'
  BY <1>1 DEF RegistryInv, Functions, RegistryDistinct
<1>4. OneWriter'
  BY <1>2 DEF RegistryInv, OneWriter, Locked
<1>5. SeenByChecked' /\ RegistrationsKept'
  BY <1>1, <1>2 DEF RegistryInv, SeenByChecked, RegistrationsKept
<1>6. CheckedIsSound'
  BY <1>1, <1>2 DEF RegistryInv, CheckedIsSound, Distinct, Conflicts
<1> QED BY <1>3, <1>4, <1>5, <1>6 DEF RegistryInv

LEMMA RegistryStep == RegistryInv /\ [RegistryNext]_registryVars => RegistryInv'
<1> SUFFICES ASSUME RegistryInv, [RegistryNext]_registryVars PROVE RegistryInv'
  OBVIOUS
<1>1. CASE UNCHANGED registryVars
  BY <1>1 DEF registryVars, RegistryInv, Functions, OneWriter, SeenByChecked,
     CheckedIsSound, RegistrationsKept, RegistryDistinct, Distinct, Conflicts
<1>2. ASSUME NEW q \in Registrations, Refuse(q) PROVE RegistryInv'
  <2>1. /\ reg' = [reg EXCEPT ![q] = "refused"] /\ UNCHANGED <<registry, snapshot, dropped>>
        /\ DOMAIN snapshot' = Registrations
    BY <1>2 DEF Refuse, Move, RegistryInv, Functions
  <2> QED BY <2>1, Unlocked DEF Locked
<1> QED BY <1>1, <1>2, EnterKeeps, LoadKeeps, SaveKeeps, AbandonKeeps
        DEF RegistryNext, Register

\* No two records of the registry ever share an id or a root, however many
\* servers rewrite the file at once (register_campaign checks what it read).
THEOREM RegistryStaysDistinct == RegistrySpec => []RegistryDistinct
BY RegistryInitInv, RegistryStep, PTL DEF RegistrySpec, RegistryInv

\* A registration answered 201 is in the file, or was left out by a server that
\* had read the file before: the write lock is enough for one server.
THEOREM RegistrationsStay == RegistrySpec => []RegistrationsKept
BY RegistryInitInv, RegistryStep, PTL DEF RegistrySpec, RegistryInv

-----------------------------------------------------------------------------
(* The invariant of the service. *)

LP == INSTANCE CampaignLockProofs WITH Procs <- Workers

\* How far a command has come tells whether it has changed the campaign.
Honest ==
  /\ \A w \in Workers : pc[w] # "idle" => child[w] = "running"
  /\ \A w \in Workers : child[w] \in {"none", "refused"} => ~wrote[w]
  /\ \A w \in Workers : child[w] = "running" =>
       (wrote[w] <=> pc[w] \in {"wiped", "done"})
  /\ \A w \in Workers : child[w] = "ok" => wrote[w]

\* Where a request is tells how its command is, and only an answered one has
\* an answer.
Placed == \A r \in Requests :
  /\ svc[r] \in {"idle", "polling", "asking", "granted"} => child[r] = "none"
  /\ svc[r] = "releasing" => child[r] \in Ended
  /\ svc[r] = "auditing" => child[r] = "ok"
  /\ svc[r] = "answered" => child[r] # "running"
  /\ answer[r] # "none" => svc[r] = "answered"

\* A request with a live lease that may still run its command has the row.
Leased ==
  /\ until \in [Requests -> Nat]
  /\ \A k \in Keys : lease[k] # NoLease => lease[k].expires \in Nat
  /\ \A r \in Requests : asked[r] <= clock
  /\ setup.lease => \A r \in Requests :
       (svc[r] = "granted" \/ child[r] = "running") /\ until[r] > clock =>
         lease[KeyOf[r]] = [owner |-> r, expires |-> until[r]]

\* As long as nothing is exposed one command is open, and it has seen what
\* was saved before.
Secure == ~exposed =>
  /\ ~Exposes
  /\ committed \subseteq content
  /\ \A w \in Workers : pc[w] = "loaded" => committed \subseteq loaded[w]

\* What AnswersAreTrue says of requests.
Told ==
  /\ \A r \in Requests :
       /\ answer[r] = "ok" => wrote[r]
       /\ answer[r] \in Untouched => ~wrote[r] /\ child[r] # "running"
       /\ answer[r] = "ok" /\ KindOf[r] = "reset" => r \in audit
  /\ \A r \in audit : wrote[r]

ServiceInv ==
  /\ TypeOK /\ LP!IInv /\ RegistryInv
  /\ Honest /\ Placed /\ Leased /\ Secure /\ Told

LEMMA LockStep ==
  ASSUME LP!IInv, NEW w \in Workers, Command(w)
  PROVE  LP!IInv'
<1>1. MaxUpdates \in Nat /\ MaxRemovals \in Nat
  BY ServiceAssumption
<1>2. LP!Free(handle[w]) <=> L!Free(handle[w])
  BY DEF LP!Free, L!Free, LP!Held, L!Held, LP!Section, L!Section
<1>3. LP!Close(w) <=> L!Close(w)
  BY DEF LP!Close, L!Close
<1>4. /\ L!Open(w) => LP!Open(w)
      /\ L!Acquire(w) => LP!Acquire(w)
      /\ L!GiveUp(w) => LP!GiveUp(w)
      /\ L!Load(w) => LP!Load(w)
      /\ L!Save(w) => LP!Save(w)
      /\ L!WipeState(w) => LP!WipeState(w)
      /\ L!UnlinkLock(w) => LP!UnlinkLock(w)
      /\ L!Release(w) \/ L!Die(w) => LP!Release(w) \/ LP!Die(w)
  <2>1. L!Open(w) => LP!Open(w)
    BY DEF LP!Open, L!Open, LP!Step, L!Step
  <2>2. L!Acquire(w) => LP!Acquire(w)
    BY <1>2 DEF LP!Acquire, L!Acquire, LP!Step, L!Step
  <2>3. L!GiveUp(w) => LP!GiveUp(w)
    BY <1>2, <1>3 DEF LP!GiveUp, L!GiveUp
  <2>4. L!Load(w) => LP!Load(w)
    BY DEF LP!Load, L!Load, LP!Step, L!Step
  <2>5. L!Save(w) => LP!Save(w)
    BY DEF LP!Save, L!Save, LP!Step, L!Step
  <2>6. L!WipeState(w) => LP!WipeState(w)
    BY DEF LP!WipeState, L!WipeState, LP!Step, L!Step
  <2>7. L!UnlinkLock(w) => LP!UnlinkLock(w)
    BY DEF LP!UnlinkLock, L!UnlinkLock, LP!Step, L!Step
  <2>8. L!Release(w) \/ L!Die(w) => LP!Release(w) \/ LP!Die(w)
    BY <1>3 DEF LP!Release, L!Release, LP!Die, L!Die
  <2> QED
    BY <2>1, <2>2, <2>3, <2>4, <2>5, <2>6, <2>7, <2>8
<1>5. LP!Next
  BY <1>4 DEF Command, LP!Next, LP!Poll
<1> QED
  BY <1>1, <1>5, LP!StepInv

LEMMA LockTyped == LP!IInv => L!TypeOK
BY DEF LP!IInv, LP!TypeOK, L!TypeOK, LP!Section, L!Section

LEMMA LockInit == L!Init => LP!IInv
<1>1. MaxUpdates \in Nat /\ MaxRemovals \in Nat
  BY ServiceAssumption
<1>2. L!Init => LP!Init
  BY DEF L!Init, LP!Init
<1> QED
  BY <1>1, <1>2, LP!InitInv

LEMMA LockStays ==
  ASSUME LP!IInv, UNCHANGED lockVars
  PROVE  LP!IInv'
<1>1. MaxUpdates \in Nat /\ MaxRemovals \in Nat
  BY ServiceAssumption
<1>2. UNCHANGED LP!vars
  BY DEF lockVars, LP!vars
<1> QED
  BY <1>1, <1>2, LP!StepInv

LEMMA RegistryStays ==
  ASSUME RegistryInv, UNCHANGED registryVars
  PROVE  RegistryInv'
BY RegistryStep

\* Two commands that are open at once expose the campaign.
LEMMA OneOpen ==
  ASSUME ServiceInv, ~Exposes, NEW w \in Workers, NEW v \in Workers,
         pc[w] # "idle", pc[v] # "idle"
  PROVE  w = v
<1>1. /\ w \in Requests /\ v \in Requests /\ setup.lease
      /\ until[w] > clock /\ until[v] > clock /\ KeyOf[w] = KeyOf[v]
  BY DEF Exposes, Open, Covered
<1>2. child[w] = "running" /\ child[v] = "running"
  BY DEF ServiceInv, Honest
<1>3. /\ lease[KeyOf[w]] = [owner |-> w, expires |-> until[w]]
      /\ lease[KeyOf[v]] = [owner |-> v, expires |-> until[v]]
  BY <1>1, <1>2 DEF ServiceInv, Leased
<1> QED
  BY <1>1, <1>3

LEMMA SecureStays ==
  ASSUME Secure, UNCHANGED lockVars, exposed' = (exposed \/ Exposes')
  PROVE  Secure'
BY DEF Secure, lockVars

LEMMA HonestStays ==
  ASSUME Honest, UNCHANGED childVars, UNCHANGED pc
  PROVE  Honest'
BY DEF Honest, childVars

-----------------------------------------------------------------------------
(* The thread of a request. *)

Codes == {"none", "ok"} \cup Untouched \cup Unknown

\* The thread moves on, and perhaps answers; the rows are another matter.
LEMMA ThreadMoves ==
  ASSUME ServiceInv, NEW r \in Requests, NEW to \in Threads, NEW code \in Codes,
         UNCHANGED <<world, childVars, registryVars, lockVars>>,
         exposed' = (exposed \/ Exposes'),
         svc' = [svc EXCEPT ![r] = to], answer' = [answer EXCEPT ![r] = code],
         to \in {"idle", "polling", "asking", "granted"} => child[r] = "none",
         to = "releasing" => child[r] \in Ended,
         to = "auditing" => child[r] = "ok",
         to = "answered" => child[r] # "running",
         code # "none" => to = "answered",
         code \in Untouched => ~wrote[r] /\ child[r] # "running",
         code = "ok" => wrote[r] /\ (KindOf[r] = "reset" => r \in audit'),
         audit \subseteq audit', audit' \subseteq audit \cup {r}, r \in audit' => wrote[r],
         deadline' \in [Requests -> 0..MaxClock], asked' \in [Requests -> 0..MaxClock],
         DOMAIN lease' = Keys,
         \A k \in Keys : lease'[k] = NoLease \/ lease'[k].owner \in Requests,
         Leased'
  PROVE  ServiceInv'
<1>1. /\ UNCHANGED <<setup, clock, crashes, child, wrote>>
      /\ UNCHANGED childVars /\ UNCHANGED lockVars /\ UNCHANGED registryVars /\ UNCHANGED pc
  BY DEF world, childVars, lockVars
<1>2. LP!IInv' /\ L!TypeOK'
  <2>1. LP!IInv'
    BY <1>1, LockStays DEF ServiceInv
  <2>2. (LP!IInv => L!TypeOK)'
    BY LockTyped, PTL
  <2> QED
    BY <2>1, <2>2
<1>3. RegistryInv' /\ Honest' /\ Secure'
  BY <1>1, RegistryStays, HonestStays, SecureStays DEF ServiceInv
<1>4. exposed' \in BOOLEAN
  OBVIOUS
<1>5. svc \in [Requests -> Threads] /\ answer \in [Requests -> Codes] /\ audit \subseteq Requests
  BY DEF ServiceInv, TypeOK, Codes
<1>6. /\ \A q \in Requests : svc'[q] = IF q = r THEN to ELSE svc[q]
      /\ \A q \in Requests : answer'[q] = IF q = r THEN code ELSE answer[q]
      /\ svc' \in [Requests -> Threads] /\ answer' \in [Requests -> Codes]
  BY <1>5
<1>7. TypeOK'
  BY <1>1, <1>2, <1>4, <1>5, <1>6 DEF ServiceInv, TypeOK, Codes
<1>8. Placed'
  BY <1>1, <1>6 DEF ServiceInv, Placed
<1>9. Told'
  BY <1>1, <1>5, <1>6 DEF ServiceInv, Told
<1> QED
  BY <1>2, <1>3, <1>7, <1>8, <1>9 DEF ServiceInv

\* The same for a step that does not answer.
LEMMA GoneTo ==
  ASSUME ServiceInv, NEW r \in Requests, svc[r] # "answered"
  PROVE  /\ answer[r] = "none" /\ answer = [answer EXCEPT ![r] = "none"]
         /\ "none" \in Codes
<1>1. answer \in [Requests -> Codes]
  BY DEF ServiceInv, TypeOK, Codes
<1>2. answer[r] = "none"
  BY DEF ServiceInv, Placed
<1> QED
  BY <1>1, <1>2 DEF Codes

\* No row is touched.
LEMMA RowsStay ==
  ASSUME ServiceInv, NEW r \in Requests, NEW to \in Threads,
         svc' = [svc EXCEPT ![r] = to], UNCHANGED <<world, child, leaseVars>>,
         to = "granted" => ~setup.lease,
         \A q \in Requests : asked'[q] <= clock
  PROVE  /\ Leased' /\ DOMAIN lease' = Keys
         /\ \A k \in Keys : lease'[k] = NoLease \/ lease'[k].owner \in Requests
<1>1. UNCHANGED <<setup, clock, child, lease, until>>
  BY DEF world, leaseVars
<1>2. \A q \in Requests : svc'[q] = IF q = r THEN to ELSE svc[q]
  BY DEF ServiceInv, TypeOK
<1>3. Leased'
  BY <1>1, <1>2 DEF ServiceInv, Leased
<1> QED
  BY <1>1, <1>3 DEF ServiceInv, TypeOK

LEMMA Typing ==
  ASSUME ServiceInv
  PROVE  /\ clock \in 0..MaxClock /\ setup \in Setups /\ MaxClock \in Nat /\ Timeout \in Nat
         /\ Ttl \in Nat \ {0} /\ clock \in Nat
         /\ svc \in [Requests -> Threads] /\ audit \subseteq Requests
         /\ deadline \in [Requests -> 0..MaxClock] /\ asked \in [Requests -> 0..MaxClock]
         /\ child \in [Workers -> {"none", "running"} \cup Ended]
         /\ wrote \in [Workers -> BOOLEAN]
         /\ DOMAIN lease = Keys
         /\ \A r \in Requests : asked[r] <= clock /\ KeyOf[r] \in Keys /\ r \in Workers
BY ServiceAssumption DEF ServiceInv, TypeOK, Leased, Keys, Workers

LEMMA WaitsOver ==
  ASSUME ServiceInv, NEW r \in Requests, WaitOver(r)
  PROVE  /\ deadline' \in [Requests -> 0..MaxClock] /\ asked' \in [Requests -> 0..MaxClock]
         /\ \A q \in Requests : asked'[q] <= clock
BY Typing DEF WaitOver

\* An answer that the command had no part in.
LEMMA AnsweredUntouched ==
  ASSUME ServiceInv, NEW r \in Requests, NEW code \in Codes \ {"ok"},
         exposed' = (exposed \/ Exposes'), Elsewhere, UNCHANGED leaseVars,
         svc[r] \in {"idle", "polling", "asking", "granted"} \/ code \notin Untouched,
         child[r] # "running",
         Answer(r, code),
         deadline' \in [Requests -> 0..MaxClock], asked' \in [Requests -> 0..MaxClock],
         \A q \in Requests : asked'[q] <= clock
  PROVE  ServiceInv'
<1>1. /\ svc' = [svc EXCEPT ![r] = "answered"] /\ answer' = [answer EXCEPT ![r] = code]
      /\ UNCHANGED <<world, childVars, registryVars, lockVars>> /\ audit' = audit
  BY DEF Answer, Elsewhere
<1>2. "answered" \in Threads /\ UNCHANGED child
  BY <1>1 DEF Threads, childVars
<1>3. svc[r] \in {"idle", "polling", "asking", "granted"} => ~wrote[r]
  BY Typing DEF ServiceInv, Placed, Honest
<1>4. r \in audit' => wrote[r]
  BY <1>1 DEF ServiceInv, Told
<1>5. /\ Leased' /\ DOMAIN lease' = Keys
      /\ \A k \in Keys : lease'[k] = NoLease \/ lease'[k].owner \in Requests
  BY <1>1, <1>2, RowsStay
<1> QED
  BY <1>1, <1>2, <1>3, <1>4, <1>5, ThreadMoves

\* A step to a place, with no answer and the rows as they were.
LEMMA Wanders ==
  ASSUME ServiceInv, NEW r \in Requests, NEW to \in Threads,
         exposed' = (exposed \/ Exposes'), Elsewhere,
         svc[r] # "answered", to # "answered", Goto(r, to),
         to \in {"idle", "polling", "asking", "granted"} => child[r] = "none",
         to = "releasing" => child[r] \in Ended,
         to = "auditing" => child[r] = "ok",
         deadline' \in [Requests -> 0..MaxClock], asked' \in [Requests -> 0..MaxClock],
         DOMAIN lease' = Keys,
         \A k \in Keys : lease'[k] = NoLease \/ lease'[k].owner \in Requests,
         Leased'
  PROVE  ServiceInv'
<1>1. /\ svc' = [svc EXCEPT ![r] = to]
      /\ answer' = [answer EXCEPT ![r] = "none"] /\ "none" \in Codes
      /\ UNCHANGED <<world, childVars, registryVars, lockVars>> /\ audit' = audit
  BY GoneTo DEF Goto, Elsewhere
<1>2. r \in audit' => wrote[r]
  BY <1>1 DEF ServiceInv, Told
<1>3. "none" \notin Untouched
  BY DEF Untouched
<1> QED
  BY <1>1, <1>2, <1>3, ThreadMoves

LEMMA RejectKeeps ==
  ASSUME ServiceInv, exposed' = (exposed \/ Exposes'), NEW r \in Requests, Reject(r)
  PROVE  ServiceInv'
<1>1. PICK code \in {"insufficient_role", "campaign_not_found", "preview_disabled"} :
        Answer(r, code)
  BY DEF Reject
<1>2. svc[r] = "idle" /\ Elsewhere /\ UNCHANGED <<leaseVars, deadline, asked>>
  BY DEF Reject, At, Quiet
<1>3. code \in Codes \ {"ok"}
  BY DEF Codes, Untouched
<1>4. child[r] # "running"
  BY <1>2 DEF ServiceInv, Placed
<1>5. /\ deadline' \in [Requests -> 0..MaxClock] /\ asked' \in [Requests -> 0..MaxClock]
      /\ \A q \in Requests : asked'[q] <= clock
  BY <1>2, Typing
<1> QED
  BY <1>1, <1>2, <1>3, <1>4, <1>5, AnsweredUntouched

LEMMA AcceptKeeps ==
  ASSUME ServiceInv, exposed' = (exposed \/ Exposes'), NEW r \in Requests, Accept(r)
  PROVE  ServiceInv'
<1> DEFINE to == IF setup.lease THEN "polling" ELSE "granted"
<1>1. /\ svc[r] = "idle" /\ Goto(r, to) /\ clock + Timeout <= MaxClock
      /\ Elsewhere /\ UNCHANGED <<leaseVars, asked>>
  BY DEF Accept, At
<1>2. PICK patience \in {0, Timeout} :
        deadline' = [deadline EXCEPT ![r] = IF setup.lease THEN clock + patience ELSE 0]
  BY DEF Accept
<1>3. clock + patience \in 0..MaxClock /\ 0 \in 0..MaxClock
  BY <1>1, Typing
<1>4. deadline' \in [Requests -> 0..MaxClock]
  BY <1>2, <1>3, Typing
<1>5. /\ asked' \in [Requests -> 0..MaxClock]
      /\ \A q \in Requests : asked'[q] <= clock
  BY <1>1, Typing
<1>6. /\ to \in Threads /\ to # "answered" /\ to # "releasing" /\ to # "auditing"
      /\ to = "granted" => ~setup.lease
  BY DEF Threads
<1>7. child[r] = "none"
  BY <1>1 DEF ServiceInv, Placed
<1>8. svc' = [svc EXCEPT ![r] = to] /\ UNCHANGED <<world, child, leaseVars>>
  BY <1>1 DEF Goto, Elsewhere, childVars
<1> HIDE DEF to
<1>9. /\ Leased' /\ DOMAIN lease' = Keys
      /\ \A k \in Keys : lease'[k] = NoLease \/ lease'[k].owner \in Requests
  BY <1>5, <1>6, <1>8, RowsStay
<1> QED
  BY <1>1, <1>4, <1>5, <1>6, <1>7, <1>9, Wanders

LEMMA ReadClockKeeps ==
  ASSUME ServiceInv, exposed' = (exposed \/ Exposes'), NEW r \in Requests, ReadClock(r)
  PROVE  ServiceInv'
<1>1. /\ svc[r] = "polling" /\ Goto(r, "asking") /\ asked' = [asked EXCEPT ![r] = clock]
      /\ Elsewhere /\ UNCHANGED <<leaseVars, deadline>>
  BY DEF ReadClock, At
<1>2. /\ asked' \in [Requests -> 0..MaxClock] /\ deadline' \in [Requests -> 0..MaxClock]
      /\ \A q \in Requests : asked'[q] <= clock
  BY <1>1, Typing
<1>3. child[r] = "none" /\ "asking" \in Threads
  BY <1>1 DEF ServiceInv, Placed, Threads
<1>4. svc' = [svc EXCEPT ![r] = "asking"] /\ UNCHANGED <<world, child, leaseVars>>
  BY <1>1 DEF Goto, Elsewhere, childVars
<1>5. /\ Leased' /\ DOMAIN lease' = Keys
      /\ \A k \in Keys : lease'[k] = NoLease \/ lease'[k].owner \in Requests
  BY <1>2, <1>3, <1>4, RowsStay
<1> QED
  BY <1>1, <1>2, <1>3, <1>5, Wanders

LEMMA DurationIs == LeaseDuration \in Nat /\ LeaseDuration > 0
BY ServiceAssumption DEF LeaseDuration, Longer

\* A row that was granted is not taken from a request whose lease is live.
LEMMA GrantedKeeps ==
  ASSUME ServiceInv, exposed' = (exposed \/ Exposes'), NEW r \in Requests, Granted(r)
  PROVE  ServiceInv'
<1> DEFINE expires == asked[r] + LeaseDuration
           row == [owner |-> r, expires |-> expires]
<1>1. /\ svc[r] = "asking" /\ Grantable(r)
      /\ lease' = [lease EXCEPT ![KeyOf[r]] = row]
      /\ until' = [until EXCEPT ![r] = expires]
      /\ Goto(r, "granted") /\ WaitOver(r) /\ Elsewhere
  BY DEF Granted, At
<1>2. expires \in Nat /\ row.owner = r /\ row.expires = expires
  BY DurationIs, Typing
<1> HIDE DEF expires
<1>3. /\ deadline' \in [Requests -> 0..MaxClock] /\ asked' \in [Requests -> 0..MaxClock]
      /\ \A q \in Requests : asked'[q] <= clock
  BY <1>1, WaitsOver
<1>4. child[r] = "none" /\ "granted" \in Threads
  BY <1>1 DEF ServiceInv, Placed, Threads
<1>5. /\ DOMAIN lease' = Keys
      /\ \A k \in Keys : lease'[k] = IF k = KeyOf[r] THEN row ELSE lease[k]
  BY <1>1, Typing
<1>6. \A k \in Keys : lease'[k] = NoLease \/ lease'[k].owner \in Requests
  BY <1>2, <1>5 DEF ServiceInv, TypeOK
<1>7. /\ UNCHANGED <<setup, clock, child>>
      /\ \A q \in Requests : svc'[q] = IF q = r THEN "granted" ELSE svc[q]
  BY <1>1, Typing DEF Elsewhere, world, childVars, Goto
<1>8. /\ until \in [Requests -> Nat] /\ until' \in [Requests -> Nat]
      /\ \A q \in Requests : until'[q] = IF q = r THEN expires ELSE until[q]
  BY <1>1, <1>2 DEF ServiceInv, Leased
<1>9. Leased'
  <2>1. \A k \in Keys : lease'[k] # NoLease => lease'[k].expires \in Nat
    BY <1>2, <1>5 DEF ServiceInv, Leased
  <2>2. ASSUME setup.lease, NEW q \in Requests, q # r,
               svc[q] = "granted" \/ child[q] = "running", until[q] > clock
        PROVE  KeyOf[q] # KeyOf[r] /\ lease[KeyOf[q]] = [owner |-> q, expires |-> until[q]]
    <3>1. lease[KeyOf[q]] = [owner |-> q, expires |-> until[q]]
      BY <2>2 DEF ServiceInv, Leased
    <3>2. asked[r] \in Nat /\ asked[r] <= clock /\ until[q] \in Nat /\ clock \in Nat
      BY <1>8, Typing
    <3>3. lease[KeyOf[q]].expires = until[q] /\ NoLease.expires = 0
      BY <3>1 DEF NoLease
    <3> QED
      BY <1>1, <2>2, <3>1, <3>2, <3>3 DEF Grantable
  <2>3. ASSUME setup.lease, NEW q \in Requests,
               svc'[q] = "granted" \/ child[q] = "running", until'[q] > clock
        PROVE  lease'[KeyOf[q]] = [owner |-> q, expires |-> until'[q]]
    <3>1. CASE q = r
      BY <1>5, <1>8, <3>1, Typing
    <3>2. CASE q # r
      BY <1>5, <1>7, <1>8, <2>2, <2>3, <3>2, Typing
    <3> QED
      BY <3>1, <3>2
  <2> QED
    BY <1>3, <1>7, <1>8, <2>1, <2>3 DEF Leased
<1> QED
  BY <1>1, <1>3, <1>4, <1>5, <1>6, <1>9, Wanders

LEMMA NotGrantedKeeps ==
  ASSUME ServiceInv, exposed' = (exposed \/ Exposes'), NEW r \in Requests, NotGranted(r)
  PROVE  ServiceInv'
<1>1. svc[r] = "asking" /\ UNCHANGED leaseVars /\ Elsewhere
  BY DEF NotGranted, At
<1>2. child[r] = "none"
  BY <1>1 DEF ServiceInv, Placed
<1>3. CASE Answer(r, "coordination_unavailable") /\ WaitOver(r)
  <2>1. "coordination_unavailable" \in Codes \ {"ok"}
    BY DEF Codes, Untouched
  <2> QED
    BY <1>1, <1>2, <1>3, <2>1, WaitsOver, AnsweredUntouched
<1>4. CASE Goto(r, "polling") /\ UNCHANGED deadline /\ asked' = [asked EXCEPT ![r] = 0]
  <2>1. /\ deadline' \in [Requests -> 0..MaxClock] /\ asked' \in [Requests -> 0..MaxClock]
        /\ \A q \in Requests : asked'[q] <= clock
    BY <1>4, Typing
  <2>2. /\ svc' = [svc EXCEPT ![r] = "polling"] /\ UNCHANGED <<world, child, leaseVars>>
        /\ "polling" \in Threads
    BY <1>1, <1>4 DEF Goto, Elsewhere, childVars, Threads
  <2>3. /\ Leased' /\ DOMAIN lease' = Keys
        /\ \A k \in Keys : lease'[k] = NoLease \/ lease'[k].owner \in Requests
    BY <2>1, <2>2, RowsStay
  <2> QED
    BY <1>1, <1>2, <1>4, <2>1, <2>2, <2>3, Wanders
<1> QED
  BY <1>3, <1>4 DEF NotGranted

LEMMA DatabaseBusyKeeps ==
  ASSUME ServiceInv, exposed' = (exposed \/ Exposes'), NEW r \in Requests, DatabaseBusy(r)
  PROVE  ServiceInv'
<1>1. /\ svc[r] = "asking" /\ UNCHANGED leaseVars /\ Elsewhere /\ WaitOver(r)
      /\ Answer(r, "registry_state_error")
  BY DEF DatabaseBusy, At
<1>2. child[r] # "running"
  BY <1>1 DEF ServiceInv, Placed
<1>3. "registry_state_error" \in Codes \ {"ok"}
  BY DEF Codes, Unknown
<1> QED
  BY <1>1, <1>2, <1>3, WaitsOver, AnsweredUntouched

LEMMA CollectKeeps ==
  ASSUME ServiceInv, exposed' = (exposed \/ Exposes'), NEW r \in Requests, Collect(r)
  PROVE  ServiceInv'
<1>1. /\ svc[r] = "running" /\ child[r] \in Ended /\ Goto(r, "releasing")
      /\ Elsewhere /\ UNCHANGED <<leaseVars, deadline, asked>>
  BY DEF Collect, At, Quiet
<1>2. /\ deadline' \in [Requests -> 0..MaxClock] /\ asked' \in [Requests -> 0..MaxClock]
      /\ \A q \in Requests : asked'[q] <= clock
  BY <1>1, Typing
<1>3. /\ svc' = [svc EXCEPT ![r] = "releasing"] /\ UNCHANGED <<world, child, leaseVars>>
      /\ "releasing" \in Threads
  BY <1>1 DEF Goto, Elsewhere, childVars, Threads
<1>4. /\ Leased' /\ DOMAIN lease' = Keys
      /\ \A k \in Keys : lease'[k] = NoLease \/ lease'[k].owner \in Requests
  BY <1>2, <1>3, RowsStay
<1> QED
  BY <1>1, <1>2, <1>3, <1>4, Wanders

LEMMA ReleaseBusyKeeps ==
  ASSUME ServiceInv, exposed' = (exposed \/ Exposes'), NEW r \in Requests, ReleaseBusy(r)
  PROVE  ServiceInv'
<1>1. /\ svc[r] = "releasing" /\ Answer(r, "registry_state_error")
      /\ Elsewhere /\ UNCHANGED <<leaseVars, deadline, asked>>
  BY DEF ReleaseBusy, At, Quiet
<1>2. child[r] # "running"
  BY <1>1 DEF ServiceInv, Placed, Ended
<1>3. "registry_state_error" \in Codes \ {"ok"} /\ "registry_state_error" \notin Untouched
  BY DEF Codes, Unknown, Untouched
<1>4. /\ deadline' \in [Requests -> 0..MaxClock] /\ asked' \in [Requests -> 0..MaxClock]
      /\ \A q \in Requests : asked'[q] <= clock
  BY <1>1, Typing
<1> QED
  BY <1>1, <1>2, <1>3, <1>4, AnsweredUntouched

LEMMA StartWorkerKeeps ==
  ASSUME ServiceInv, exposed' = (exposed \/ Exposes'), NEW r \in Requests, StartWorker(r)
  PROVE  ServiceInv'
<1>1. PICK how \in {"running", "killed"} :
        /\ child' = [child EXCEPT ![r] = how]
        /\ Goto(r, IF how = "running" THEN "running" ELSE "releasing")
  BY DEF StartWorker
<1> DEFINE to == IF how = "running" THEN "running" ELSE "releasing"
<1>2. /\ svc[r] = "granted" /\ svc' = [svc EXCEPT ![r] = to] /\ answer' = answer
      /\ UNCHANGED <<setup, clock, crashes, lease, until, wrote, deadline, asked, audit>>
      /\ UNCHANGED registryVars /\ UNCHANGED lockVars /\ UNCHANGED pc
  BY <1>1 DEF StartWorker, At, Goto, world, leaseVars, lockVars
<1>3. /\ \A q \in Requests : svc'[q] = IF q = r THEN to ELSE svc[q]
      /\ \A w \in Workers : child'[w] = IF w = r THEN how ELSE child[w]
      /\ svc' \in [Requests -> Threads]
      /\ child' \in [Workers -> {"none", "running"} \cup Ended]
      /\ to \in {"running", "releasing"}
  BY <1>1, <1>2, Typing DEF Threads, Ended
<1>4. child[r] = "none" /\ ~wrote[r] /\ pc[r] = "idle" /\ answer[r] = "none"
  BY <1>2, Typing DEF ServiceInv, Placed, Honest
<1>5. LP!IInv' /\ L!TypeOK' /\ RegistryInv' /\ Secure'
  <2>1. LP!IInv'
    BY <1>2, LockStays DEF ServiceInv
  <2>2. (LP!IInv => L!TypeOK)'
    BY LockTyped, PTL
  <2> QED
    BY <1>2, <2>1, <2>2, RegistryStays, SecureStays DEF ServiceInv
<1>6. TypeOK'
  BY <1>2, <1>3, <1>5 DEF ServiceInv, TypeOK
<1>7. Honest'
  BY <1>2, <1>3, <1>4 DEF ServiceInv, Honest
<1>8. Placed'
  BY <1>2, <1>3, <1>4, Typing DEF ServiceInv, Placed, Ended
<1>9. Leased'
  BY <1>2, <1>3, Typing DEF ServiceInv, Leased
<1>10. Told'
  BY <1>2, <1>3, <1>4, Typing DEF ServiceInv, Told, Untouched
<1> QED
  BY <1>5, <1>6, <1>7, <1>8, <1>9, <1>10 DEF ServiceInv

\* A request that finishes deletes its own row or none.
LEMMA ReleaseKeeps ==
  ASSUME ServiceInv, exposed' = (exposed \/ Exposes'), NEW r \in Requests, Release(r)
  PROVE  ServiceInv'
<1> DEFINE done == Verdict(r) = "ok" /\ KindOf[r] = "reset"
           to == IF done THEN "auditing" ELSE "answered"
           code == IF done THEN "none" ELSE Verdict(r)
<1>1. /\ svc[r] = "releasing" /\ lease' = (IF setup.lease THEN Given(r) ELSE lease)
      /\ UNCHANGED <<world, until, childVars, deadline, asked, audit, registryVars, lockVars>>
  BY DEF Release, At
<1>2. child[r] \in Ended /\ child[r] # "running" /\ r \in Workers
  BY <1>1, Typing DEF ServiceInv, Placed, Ended
<1>3. /\ Verdict(r) \in Codes \ {"none"}
      /\ Verdict(r) = "ok" <=> child[r] = "ok"
      /\ Verdict(r) \in Untouched <=> child[r] = "refused"
  BY <1>2 DEF Verdict, Ended, Codes, Untouched, Unknown
<1>4. (child[r] = "ok" => wrote[r]) /\ (child[r] = "refused" => ~wrote[r])
  BY <1>2 DEF ServiceInv, Honest
<1>5. svc' = [svc EXCEPT ![r] = to] /\ answer' = [answer EXCEPT ![r] = code]
  BY <1>1, GoneTo DEF Release, Goto, Answer
<1>6. /\ to \in Threads /\ to \in {"auditing", "answered"} /\ code \in Codes
      /\ to = "auditing" => child[r] = "ok"
      /\ code # "none" => to = "answered"
      /\ code \in Untouched => ~wrote[r]
      /\ code = "ok" => wrote[r] /\ KindOf[r] # "reset"
  BY <1>3, <1>4, GoneTo DEF Threads, Untouched, Codes
<1> HIDE DEF to, code, done
<1>7. \A k \in Keys : lease'[k] = lease[k] \/ (lease'[k] = NoLease /\ lease[k].owner = r)
  BY <1>1, Typing DEF Given
<1>8. DOMAIN lease' = Keys
  BY <1>1, Typing DEF Given
<1>9. \A k \in Keys : lease'[k] = NoLease \/ lease'[k].owner \in Requests
  BY <1>7 DEF ServiceInv, TypeOK
<1>10. UNCHANGED <<setup, clock, child, until, asked, deadline, audit>>
  BY <1>1 DEF world, childVars
<1>11. Leased'
  <2>1. \A k \in Keys : lease'[k] # NoLease => lease'[k].expires \in Nat
    BY <1>7 DEF ServiceInv, Leased
  <2>2. ASSUME setup.lease, NEW q \in Requests,
               svc'[q] = "granted" \/ child[q] = "running", until[q] > clock
        PROVE  lease'[KeyOf[q]] = [owner |-> q, expires |-> until[q]]
    <3>1. q # r /\ (svc[q] = "granted" \/ child[q] = "running")
      BY <1>2, <1>5, <1>6, <2>2, Typing
    <3>2. lease[KeyOf[q]] = [owner |-> q, expires |-> until[q]]
      BY <2>2, <3>1 DEF ServiceInv, Leased
    <3>3. lease[KeyOf[q]].owner = q
      BY <3>2
    <3> QED
      BY <1>7, <3>1, <3>2, <3>3, Typing
  <2> QED
    BY <1>10, <2>1, <2>2 DEF ServiceInv, Leased
<1>12. /\ deadline' \in [Requests -> 0..MaxClock] /\ asked' \in [Requests -> 0..MaxClock]
       /\ r \in audit' => wrote[r]
  BY <1>10, Typing DEF ServiceInv, Told
<1> QED
  BY <1>1, <1>2, <1>5, <1>6, <1>8, <1>9, <1>10, <1>11, <1>12, ThreadMoves

LEMMA AuditKeeps ==
  ASSUME ServiceInv, exposed' = (exposed \/ Exposes'), NEW r \in Requests, Audit(r)
  PROVE  ServiceInv'
<1>1. /\ svc[r] = "auditing" /\ audit' = audit \cup {r}
      /\ svc' = [svc EXCEPT ![r] = "answered"] /\ answer' = [answer EXCEPT ![r] = "ok"]
      /\ UNCHANGED <<world, leaseVars, childVars, deadline, asked, registryVars, lockVars>>
  BY DEF Audit, At, Answer
<1>2. child[r] = "ok" /\ wrote[r]
  BY <1>1, Typing DEF ServiceInv, Placed, Honest
<1>3. /\ "answered" \in Threads /\ "ok" \in Codes /\ "ok" \notin Untouched
      /\ UNCHANGED child
  BY <1>1 DEF Threads, Codes, Untouched, childVars
<1>4. /\ deadline' \in [Requests -> 0..MaxClock] /\ asked' \in [Requests -> 0..MaxClock]
      /\ \A q \in Requests : asked'[q] <= clock
  BY <1>1, Typing
<1>5. /\ Leased' /\ DOMAIN lease' = Keys
      /\ \A k \in Keys : lease'[k] = NoLease \/ lease'[k].owner \in Requests
  BY <1>1, <1>3, <1>4, RowsStay
<1> QED
  BY <1>1, <1>2, <1>3, <1>4, <1>5, ThreadMoves

LEMMA RequestKeeps ==
  ASSUME ServiceInv, exposed' = (exposed \/ Exposes'), NEW r \in Requests, Request(r)
  PROVE  ServiceInv'
BY RejectKeeps, AcceptKeeps, ReadClockKeeps, GrantedKeeps, NotGrantedKeeps, DatabaseBusyKeeps,
   StartWorkerKeeps, CollectKeeps, ReleaseKeeps, ReleaseBusyKeeps, AuditKeeps
   DEF Request, TryAcquire

-----------------------------------------------------------------------------
(* Commands. *)

\* What a step of a command does to the command and to nobody else.
LEMMA CommandMoves ==
  ASSUME ServiceInv, NEW w \in Workers, Command(w)
  PROVE  /\ child[w] = "running"
         /\ \A v \in Workers \ {w} :
              pc'[v] = pc[v] /\ loaded'[v] = loaded[v] /\ child'[v] = child[v]
              /\ wrote'[v] = wrote[v]
         /\ child' \in [Workers -> {"none", "running"} \cup Ended]
         /\ wrote' \in [Workers -> BOOLEAN]
         /\ child'[w] # "none" /\ (wrote[w] => wrote'[w])
         /\ pc'[w] # "idle" => child'[w] = "running"
         /\ child'[w] = "refused" => ~wrote'[w]
         /\ child'[w] = "running" => (wrote'[w] <=> pc'[w] \in {"wiped", "done"})
         /\ child'[w] = "ok" => wrote'[w]
<1>1. /\ child[w] = "running" /\ (wrote[w] <=> pc[w] \in {"wiped", "done"})
      /\ child \in [Workers -> {"none", "running"} \cup Ended]
      /\ wrote \in [Workers -> BOOLEAN]
      /\ DOMAIN pc = Workers /\ DOMAIN loaded = Workers
  BY Typing DEF Command, ServiceInv, Honest, TypeOK, L!TypeOK
<1>2. CASE (L!Open(w) \/ L!Acquire(w)) /\ UNCHANGED childVars
  BY <1>1, <1>2 DEF L!Open, L!Acquire, L!Step, childVars
<1>3. CASE L!GiveUp(w) /\ Ends(w, "refused")
  BY <1>1, <1>3 DEF L!GiveUp, L!Close, Ends, Ended
<1>4. CASE L!Load(w) /\ UNCHANGED childVars
  BY <1>1, <1>4 DEF L!Load, L!Step, childVars
<1>5. CASE L!Save(w) /\ Writes(w)
  BY <1>1, <1>5 DEF L!Save, L!Step, Writes
<1>6. CASE L!WipeState(w) /\ Writes(w)
  BY <1>1, <1>6 DEF L!WipeState, L!Step, Writes
<1>7. CASE L!UnlinkLock(w) /\ UNCHANGED childVars
  BY <1>1, <1>7 DEF L!UnlinkLock, L!Step, childVars
<1>8. CASE L!Release(w) /\ Ends(w, "ok")
  BY <1>1, <1>8 DEF L!Release, L!Close, Ends, Ended
<1>9. CASE L!Die(w) /\ \E how \in {"failed", "killed"} : Ends(w, how)
  BY <1>1, <1>9 DEF L!Die, L!Close, Ends, Ended
<1> QED
  BY <1>2, <1>3, <1>4, <1>5, <1>6, <1>7, <1>8, <1>9 DEF Command

\* The only open command has seen what was saved.
LEMMA CommandSecure ==
  ASSUME ServiceInv, exposed' = (exposed \/ Exposes'), NEW w \in Workers, Command(w)
  PROVE  Secure'
<1> SUFFICES ASSUME ~exposed, ~Exposes'
             PROVE  /\ committed' \subseteq content'
                    /\ \A v \in Workers : pc'[v] = "loaded" => committed' \subseteq loaded'[v]
  BY DEF Secure
<1>1. /\ ~Exposes /\ committed \subseteq content
      /\ \A v \in Workers : pc[v] = "loaded" => committed \subseteq loaded[v]
  BY DEF ServiceInv, Secure
<1>2. /\ DOMAIN pc = Workers /\ DOMAIN loaded = Workers
  BY DEF ServiceInv, TypeOK, L!TypeOK
<1>3. CASE L!Open(w) \/ L!Acquire(w) \/ L!GiveUp(w) \/ L!UnlinkLock(w) \/ L!Release(w) \/ L!Die(w)
  <2>1. /\ UNCHANGED <<loaded, content, committed>>
        /\ \A v \in Workers : pc'[v] = "loaded" => pc[v] = "loaded"
    BY <1>2, <1>3 DEF L!Open, L!Acquire, L!GiveUp, L!UnlinkLock, L!Release, L!Die, L!Close, L!Step
  <2> QED
    BY <1>1, <2>1
<1>4. CASE L!Load(w)
  BY <1>1, <1>2, <1>4 DEF L!Load, L!Step
<1>5. CASE L!Save(w)
  <2>1. pc[w] = "loaded" /\ pc' = [pc EXCEPT ![w] = "done"]
        /\ content' = loaded[w] \cup {updates'} /\ committed' = committed \cup {updates'}
    BY <1>5 DEF L!Save, L!Step
  <2>2. \A v \in Workers : pc'[v] # "loaded"
    <3> SUFFICES ASSUME NEW v \in Workers, pc'[v] = "loaded" PROVE FALSE
      OBVIOUS
    <3>1. v # w /\ pc[v] = "loaded"
      BY <1>2, <2>1
    <3> QED
      BY <1>1, <2>1, <3>1, OneOpen
  <2> QED
    BY <1>1, <2>1, <2>2
<1>6. CASE L!WipeState(w)
  BY <1>6 DEF L!WipeState
<1> QED
  BY <1>3, <1>4, <1>5, <1>6 DEF Command

LEMMA CommandKeeps ==
  ASSUME ServiceInv, exposed' = (exposed \/ Exposes'), NEW w \in Workers, Command(w)
  PROVE  ServiceInv'
<1>1. /\ UNCHANGED <<setup, clock, crashes, svc, deadline, asked, answer, audit, lease, until>>
      /\ UNCHANGED registryVars
  BY DEF Command, Outside, world, thread, leaseVars
<1>2. /\ \A v \in Workers : v # w => child'[v] = child[v] /\ wrote'[v] = wrote[v]
      /\ \A v \in Workers : wrote[v] => wrote'[v]
      /\ \A v \in Workers : child'[v] = "running" => child[v] = "running"
      /\ child[w] = "running"
  BY CommandMoves
<1>3. LP!IInv' /\ L!TypeOK' /\ RegistryInv' /\ Secure'
  <2>1. LP!IInv'
    BY LockStep DEF ServiceInv
  <2>2. (LP!IInv => L!TypeOK)'
    BY LockTyped, PTL
  <2> QED
    BY <1>1, <2>1, <2>2, RegistryStays, CommandSecure DEF ServiceInv
<1>4. TypeOK'
  BY <1>1, <1>3, CommandMoves DEF ServiceInv, TypeOK
<1>5. Honest'
  BY CommandMoves DEF ServiceInv, Honest
<1>6. Placed'
  BY <1>1, <1>2, Typing DEF ServiceInv, Placed, Ended
<1>7. Leased'
  BY <1>1, <1>2, Typing DEF ServiceInv, Leased
<1>8. Told'
  BY <1>1, <1>2, Typing DEF ServiceInv, Told
<1> QED
  BY <1>3, <1>4, <1>5, <1>6, <1>7, <1>8 DEF ServiceInv

-----------------------------------------------------------------------------
(* Everything else. *)

LEMMA ServerDiesKeeps ==
  ASSUME ServiceInv, exposed' = (exposed \/ Exposes'), NEW s \in Servers, ServerDies(s)
  PROVE  ServiceInv'
<1>1. /\ UNCHANGED <<setup, clock, deadline, asked, answer, audit, lease, until, child, wrote>>
      /\ UNCHANGED lockVars /\ UNCHANGED pc /\ UNCHANGED childVars
      /\ crashes' = crashes + 1 /\ crashes < MaxCrashes
      /\ Abandon(s)
  BY DEF ServerDies, leaseVars, childVars, lockVars
<1>2. svc' = [r \in Requests |->
        IF ServerOf[r] = s /\ svc[r] \notin {"idle", "answered"} THEN "lost" ELSE svc[r]]
  BY DEF ServerDies
<1>3. /\ \A r \in Requests : svc'[r] = svc[r] \/ (svc'[r] = "lost" /\ svc[r] # "answered")
      /\ svc' \in [Requests -> Threads]
  BY <1>2, Typing DEF Threads
<1>4. LP!IInv' /\ L!TypeOK' /\ RegistryInv' /\ Secure' /\ Honest'
  <2>1. LP!IInv'
    BY <1>1, LockStays DEF ServiceInv
  <2>2. (LP!IInv => L!TypeOK)'
    BY LockTyped, PTL
  <2>3. RegistryInv'
    BY <1>1, RegistryStep DEF RegistryNext, ServiceInv
  <2> QED
    BY <1>1, <2>1, <2>2, <2>3, SecureStays, HonestStays DEF ServiceInv
<1>5. crashes' \in 0..MaxCrashes
  BY <1>1, ServiceAssumption DEF ServiceInv, TypeOK
<1>6. TypeOK'
  BY <1>1, <1>3, <1>4, <1>5 DEF ServiceInv, TypeOK
<1>7. Placed'
  BY <1>1, <1>3 DEF ServiceInv, Placed
<1>8. Leased'
  BY <1>1, <1>3 DEF ServiceInv, Leased
<1>9. Told'
  BY <1>1 DEF ServiceInv, Told
<1> QED
  BY <1>4, <1>6, <1>7, <1>8, <1>9 DEF ServiceInv

LEMMA RegisterKeeps ==
  ASSUME ServiceInv, exposed' = (exposed \/ Exposes'), NEW q \in Registrations,
         RegisterCampaign(q)
  PROVE  ServiceInv'
<1>1. /\ UNCHANGED <<setup, clock, crashes, svc, deadline, asked, answer, audit,
                     lease, until, child, wrote>>
      /\ UNCHANGED lockVars /\ UNCHANGED pc /\ UNCHANGED childVars
      /\ Register(q)
  BY DEF RegisterCampaign, world, thread, leaseVars, childVars, lockVars
<1>2. LP!IInv' /\ L!TypeOK' /\ RegistryInv' /\ Secure' /\ Honest'
  <2>1. LP!IInv'
    BY <1>1, LockStays DEF ServiceInv
  <2>2. (LP!IInv => L!TypeOK)'
    BY LockTyped, PTL
  <2>3. RegistryInv'
    BY <1>1, RegistryStep DEF RegistryNext, ServiceInv
  <2> QED
    BY <1>1, <2>1, <2>2, <2>3, SecureStays, HonestStays DEF ServiceInv
<1>3. TypeOK'
  BY <1>1, <1>2 DEF ServiceInv, TypeOK
<1>4. Placed' /\ Leased' /\ Told'
  BY <1>1 DEF ServiceInv, Placed, Leased, Told
<1> QED
  BY <1>2, <1>3, <1>4 DEF ServiceInv

LEMMA TickKeeps ==
  ASSUME ServiceInv, exposed' = (exposed \/ Exposes'), Tick
  PROVE  ServiceInv'
<1>1. /\ UNCHANGED <<setup, crashes, svc, deadline, asked, answer, audit,
                     lease, until, child, wrote>>
      /\ UNCHANGED lockVars /\ UNCHANGED pc /\ UNCHANGED childVars /\ UNCHANGED registryVars
      /\ clock' = clock + 1 /\ clock < MaxClock
  BY DEF Tick, thread, leaseVars, childVars, lockVars
<1>2. LP!IInv' /\ L!TypeOK' /\ RegistryInv' /\ Secure' /\ Honest'
  <2>1. LP!IInv'
    BY <1>1, LockStays DEF ServiceInv
  <2>2. (LP!IInv => L!TypeOK)'
    BY LockTyped, PTL
  <2> QED
    BY <1>1, <2>1, <2>2, RegistryStays, SecureStays, HonestStays DEF ServiceInv
<1>3. clock' \in 0..MaxClock
  BY <1>1, Typing
<1>4. TypeOK'
  BY <1>1, <1>2, <1>3 DEF ServiceInv, TypeOK
<1>5. Placed' /\ Told'
  BY <1>1 DEF ServiceInv, Placed, Told
<1>6. Leased'
  <2>1. \A r \in Requests : asked'[r] <= clock' /\ (until'[r] > clock' => until[r] > clock)
    <3> TAKE r \in Requests
    <3>1. asked[r] \in Nat /\ asked[r] <= clock /\ until[r] \in Nat /\ clock \in Nat
      BY Typing DEF ServiceInv, Leased
    <3> QED
      BY <1>1, <3>1
  <2> QED
    BY <1>1, <2>1 DEF ServiceInv, Leased
<1> QED
  BY <1>2, <1>4, <1>5, <1>6 DEF ServiceInv

LEMMA ServiceInit == Init => ServiceInv
<1> SUFFICES ASSUME Init PROVE ServiceInv
  OBVIOUS
<1>1. LP!IInv /\ L!TypeOK /\ RegistryInv
  BY LockInit, LockTyped, RegistryInitInv DEF Init
<1>2. /\ \A w \in Workers : pc[w] = "idle" /\ child[w] \in {"none", "running"} /\ ~wrote[w]
      /\ \A r \in Requests : child[r] = "none" /\ svc[r] = "idle" /\ answer[r] = "none"
      /\ child \in [Workers -> {"none", "running"} \cup Ended]
      /\ wrote \in [Workers -> BOOLEAN]
  BY ServiceAssumption DEF Init, L!Init, Workers
<1>3. TypeOK
  <2>1. /\ setup \in Setups /\ clock = 0 /\ crashes = 0 /\ 0 \in 0..MaxClock
        /\ 0 \in 0..MaxCrashes /\ exposed = FALSE /\ audit = {}
    BY ServiceAssumption DEF Init
  <2>2. svc \in [Requests -> Threads] /\ "none" \in Codes
    BY DEF Init, Threads, Codes
  <2>3. /\ deadline \in [Requests -> 0..MaxClock] /\ asked \in [Requests -> 0..MaxClock]
        /\ answer \in [Requests -> Codes]
    BY <2>1, <2>2 DEF Init
  <2>4. DOMAIN lease = Keys /\ \A k \in Keys : lease[k] = NoLease
    BY DEF Init
  <2> QED
    BY <1>1, <1>2, <2>1, <2>2, <2>3, <2>4 DEF TypeOK, Codes
<1>4. Honest /\ Placed /\ Told
  BY <1>2 DEF Init, Honest, Placed, Told, Untouched
<1>5. Leased
  BY ServiceAssumption DEF Init, Leased, Keys
<1>6. Secure
  BY <1>2 DEF Init, Secure, Exposes, Open, L!Init
<1> QED
  BY <1>1, <1>3, <1>4, <1>5, <1>6 DEF ServiceInv

LEMMA ServiceStep == ServiceInv /\ [Next]_vars => ServiceInv'
<1> SUFFICES ASSUME ServiceInv, [Next]_vars PROVE ServiceInv'
  OBVIOUS
<1>1. CASE UNCHANGED vars
  <2>1. /\ UNCHANGED <<setup, clock, crashes, svc, deadline, asked, answer, audit,
                       lease, until, child, wrote, exposed>>
        /\ UNCHANGED lockVars /\ UNCHANGED pc /\ UNCHANGED childVars /\ UNCHANGED registryVars
        /\ UNCHANGED <<committed, content, loaded>>
    BY <1>1 DEF vars, world, thread, leaseVars, childVars, lockVars
  <2>2. LP!IInv'
    BY <2>1, LockStays DEF ServiceInv
  <2>3. (LP!IInv => L!TypeOK)'
    BY LockTyped, PTL
  <2>4. TypeOK'
    BY <2>1, <2>2, <2>3 DEF ServiceInv, TypeOK
  <2>5. RegistryInv' /\ Honest' /\ Placed' /\ Leased' /\ Told'
    BY <2>1, RegistryStays, HonestStays DEF ServiceInv, Placed, Leased, Told
  <2>6. Secure'
    BY <2>1 DEF ServiceInv, Secure, Exposes, Open, Covered
  <2> QED
    BY <2>2, <2>4, <2>5, <2>6 DEF ServiceInv
<1>2. CASE Next
  BY <1>2, RequestKeeps, CommandKeeps, RegisterKeeps, ServerDiesKeeps, TickKeeps DEF Next
<1> QED
  BY <1>1, <1>2

-----------------------------------------------------------------------------
(* What follows. *)

\* A granted row was free or had expired; a released one was the request's.
LEMMA RowsOwned == ServiceInv /\ [Next]_vars => [RowsAreOwned]_vars
<1> SUFFICES ASSUME ServiceInv, [Next]_vars, lease' # lease PROVE RowsAreOwned
  BY DEF RowsAreOwned
<1>1. PICK r \in Requests : Request(r)
  BY DEF Next, vars, Command, Outside, RegisterCampaign, ServerDies, Tick, leaseVars
<1>2. Granted(r) \/ Release(r)
  BY <1>1 DEF Request, TryAcquire, Reject, Accept, ReadClock, NotGranted, DatabaseBusy,
     StartWorker, Collect, ReleaseBusy, Audit, Quiet, leaseVars
<1> SUFFICES ASSUME NEW k \in Keys, lease[k] # NoLease, lease'[k] # lease[k]
             PROVE  \/ lease[k].expires <= clock /\ lease'[k] # NoLease
                    \/ lease'[k] = NoLease /\ svc[lease[k].owner] = "releasing"
                                           /\ svc'[lease[k].owner] # "releasing"
  BY DEF RowsAreOwned
<1>3. CASE Granted(r)
  <2> DEFINE row == [owner |-> r, expires |-> asked[r] + LeaseDuration]
  <2>1. k = KeyOf[r] /\ lease'[k] = row /\ Grantable(r)
    BY <1>3, Typing DEF Granted
  <2>2. lease[k].expires <= asked[r] /\ lease[k].expires \in Nat
    BY <2>1 DEF Grantable, ServiceInv, Leased
  <2>3. asked[r] \in Nat /\ asked[r] <= clock /\ clock \in Nat
    BY Typing
  <2>4. row.expires # 0 /\ NoLease.expires = 0
    BY <2>3, DurationIs DEF NoLease
  <2>5. lease'[k] # NoLease
    BY <2>1, <2>4
  <2> QED
    BY <2>2, <2>3, <2>5
<1>4. CASE Release(r)
  <2>1. lease' = lease \/ lease' = Given(r)
    BY <1>4 DEF Release
  <2>2. lease[KeyOf[r]].owner = r /\ k = KeyOf[r] /\ lease'[k] = NoLease
    BY <2>1, Typing DEF Given
  <2>3. /\ svc[r] = "releasing"
        /\ svc' = [svc EXCEPT ![r] = "auditing"] \/ svc' = [svc EXCEPT ![r] = "answered"]
    BY <1>4 DEF Release, At, Goto, Answer
  <2>4. svc'[r] # "releasing"
    BY <2>3, Typing
  <2> QED
    BY <2>2, <2>3, <2>4
<1> QED
  BY <1>2, <1>3, <1>4

\* The inductive invariant holds in every reachable state.
THEOREM ServiceInvariant == Spec => []ServiceInv
  BY ServiceInit, ServiceStep, PTL DEF Spec

\* Every request is at one of its places, has one of the documented answers,
\* and each lease row has an owner (service/app.py, coordination.py).
THEOREM TypeCorrect == Spec => []TypeOK
<1>1. ServiceInv => TypeOK
  BY DEF ServiceInv
<1> QED
  BY <1>1, ServiceInvariant, PTL

\* The lease does what coordination.py keeps it for: as long as every command
\* that runs is covered by a live lease on one spelling of the campaign's id,
\* commands exclude one another, also across the reset that removes the lock
\* file, and no update is lost; and nobody takes or drops another's lease.
THEOREM LeaseAlwaysHolds == Spec => LeaseHolds
<1>1. ServiceInv => LeaseCoversReset
  <2> SUFFICES ASSUME ServiceInv, ~exposed
               PROVE  L!MutualExclusion /\ committed \subseteq content
    BY DEF LeaseCoversReset
  <2>1. ~Exposes /\ committed \subseteq content
    BY DEF ServiceInv, Secure
  <2>2. \A w \in L!InSection : w \in Workers /\ pc[w] # "idle"
    BY DEF L!InSection, L!Section
  <2> QED
    BY <2>1, <2>2, OneOpen DEF L!MutualExclusion
<1> QED
  BY <1>1, ServiceInvariant, RowsOwned, PTL DEF Spec, LeaseHolds

\* What a client was told can be relied on: "ok" says that the command changed
\* the campaign, a refusal that it never will, an audit event that the reset
\* took place, and a registration that its record is in the registry unless
\* another server left it out.
THEOREM AnswersStayTrue == Spec => []AnswersAreTrue
<1>1. ServiceInv => AnswersAreTrue
  BY DEF ServiceInv, Told, AnswersAreTrue, RegistryInv
<1> QED
  BY <1>1, ServiceInvariant, PTL
=============================================================================
