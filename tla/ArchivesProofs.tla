--------------------------- MODULE ArchivesProofs ---------------------------
(***************************************************************************)
(* Reset archives for any artifacts, any number of archives and commands   *)
(* and any faults: there is a whole copy of what a command found as long   *)
(* as it runs, an archive reported as ok is whole, a restore installs its  *)
(* archive or is undone, and a prune takes the oldest first.               *)
(***************************************************************************)
EXTENDS Archives, FiniteSetTheorems, TLAPS

-----------------------------------------------------------------------------
(* The invariant: what each phase has copied so far, and that archives are  *)
(* sealed whole and in the order of their numbers.                          *)

Plan == [phase: Phases, todo: SUBSET Nat, entries: SUBSET Artifacts, id: Nat, sound: BOOLEAN,
         before: Contents, staging: Contents, backup: Contents]

Typed ==
  /\ TypeOK /\ op \in Plan
  /\ op.phase # "prune" => op.todo \subseteq op.entries

Written(i) == archives[i].manifest = "written"

Sealed ==
  /\ \A i \in DOMAIN archives : archives[i].at <= clock
  /\ \A i, j \in DOMAIN archives : j < i /\ Written(i) /\ Written(j) =>
       archives[j].at <= archives[i].at
  /\ \A i \in DOMAIN archives \ doomed : Written(i) =>
       archives[i].files = taken[i] /\ archives[i].entries = Present(taken[i])
  /\ op.phase = "prune" => op.todo \subseteq doomed

\* A reset copies what is live, and removes it when the copy is sealed.
Resetting ==
  op.phase \in {"archive", "seal"} \/ (op.phase = "wipe" /\ op.id # 0) =>
    /\ op.id \in DOMAIN archives \ doomed
    /\ op.before = taken[op.id] /\ op.entries = Present(op.before)
    /\ op.phase = "wipe" => Written(op.id)
    /\ op.phase # "wipe" => op.id = made /\ live = op.before /\ ~Written(op.id)
    /\ \A a \in Artifacts : op.phase # "archive" \/ a \notin op.todo =>
         archives[op.id].files[a] = op.before[a]

\* A restore stages the archived artifacts, backs the live ones up and puts the
\* staged ones in their place.
Installing ==
  op.phase \in {"stage", "backup", "clear", "apply"} =>
    /\ op.sound /\ op.id \in DOMAIN archives
    /\ op.phase \in {"stage", "backup"} => live = op.before
    /\ \A a \in op.entries : op.phase # "stage" \/ a \notin op.todo =>
         op.staging[a] = archives[op.id].files[a]
    /\ \A a \in op.entries : op.phase = "apply" /\ a \notin op.todo =>
         live[a] = op.staging[a]

\* What is replaced is in the backup, and the rollback puts it back.
Undoable ==
  op.phase \in {"stage", "backup", "clear", "apply", "undo", "putback"} /\ op.sound =>
    /\ \A a \in Artifacts \ op.entries : live[a] = op.before[a]
    /\ \A a \in op.entries : op.phase # "stage" /\ (op.phase # "backup" \/ a \notin op.todo) =>
         op.backup[a] = op.before[a]
    /\ \A a \in op.entries :
         (op.phase = "undo" /\ a \notin op.todo) \/ (op.phase = "putback" /\ a \in op.todo) =>
           live[a] = 0
    /\ \A a \in op.entries : op.phase = "putback" /\ a \notin op.todo => live[a] = op.before[a]

ArchInv == Typed /\ Sealed /\ Resetting /\ Installing /\ Undoable

LEMMA IdleFields ==
  /\ Idle \in Plan /\ Nothing \in Contents /\ Idle.phase = "idle" /\ Idle.todo = {}
  /\ Idle.entries = {} /\ Idle.id = 0 /\ Idle.sound = TRUE
<1>1. 0 \in 0..Torn
  BY BoundAssumption DEF Torn
<1>2. Nothing \in Contents
  BY <1>1 DEF Nothing, Contents
<1> QED
  BY <1>2 DEF Idle, Plan, Phases

LEMMA ArchInvInit == Init => ArchInv
<1> SUFFICES ASSUME Init PROVE ArchInv
  OBVIOUS
<1>1. /\ live = Nothing /\ op = Idle /\ archives = <<>> /\ DOMAIN archives = {}
      /\ version = 0 /\ made = 0 /\ clock = 0 /\ taken = <<>> /\ doomed = {} /\ faults = 0
  BY DEF Init
<1>2. op.phase = "idle" /\ op.todo = {}
  BY <1>1, IdleFields
<1>3. TypeOK
  <2>1. taken \in [1..made -> Contents]
    <3>1. 1..made = {}
      BY <1>1
    <3>2. <<>> \in [{} -> Contents]
      OBVIOUS
    <3> QED
      BY <1>1, <3>1, <3>2
  <2>2. op.entries \subseteq Artifacts /\ op.id \in 0..made /\ op.sound \in BOOLEAN
    <3>1. op.entries = {} /\ op.id = 0 /\ op.sound = TRUE
      BY <1>1, IdleFields
    <3>2. 0 \in 0..made
      BY <1>1
    <3> QED
      BY <3>1, <3>2
  <2>3. op.before \in Contents /\ op.staging \in Contents /\ op.backup \in Contents
    BY <1>1, IdleFields DEF Plan
  <2>4. version \in 0..MaxVersion /\ made \in 0..MaxArchives /\ clock \in 0..MaxClock
        /\ faults \in 0..MaxFaults
    BY <1>1, BoundAssumption
  <2>5. op.phase \in Phases
    BY <1>2 DEF Phases
  <2> QED
    BY <1>1, <1>2, <2>1, <2>2, <2>3, <2>4, <2>5, IdleFields DEF TypeOK
<1>4. Typed
  BY <1>1, <1>2, <1>3, IdleFields DEF Typed
<1>5. Sealed
  BY <1>1, <1>2 DEF Sealed
<1>6. Resetting /\ Installing /\ Undoable
  BY <1>2 DEF Resetting, Installing, Undoable
<1> QED
  BY <1>4, <1>5, <1>6 DEF ArchInv

-----------------------------------------------------------------------------
(* What every step needs to know.                                           *)

LEMMA Facts ==
  ASSUME ArchInv
  PROVE  /\ live \in Contents /\ op \in Plan /\ op.phase \in Phases
         /\ made \in Nat /\ clock \in Nat /\ DOMAIN archives \in SUBSET (1..made)
         /\ \A i \in DOMAIN archives : archives[i] \in Archive
         /\ taken \in [1..made -> Contents] /\ doomed \in SUBSET (1..made)
         /\ op.phase # "prune" => op.todo \subseteq op.entries
         /\ op.entries \in SUBSET Artifacts
         /\ op.before \in Contents /\ op.staging \in Contents /\ op.backup \in Contents
         /\ op.id \in 0..made
BY BoundAssumption DEF ArchInv, Typed, TypeOK

LEMMA SetIs ==
  ASSUME NEW c \in Contents, NEW a \in Artifacts, NEW v \in 0..Torn
  PROVE  /\ Set(c, a, v) \in Contents
         /\ \A b \in Artifacts : Set(c, a, v)[b] = IF b = a THEN v ELSE c[b]
BY DEF Contents, Set

\* One file of the archive being made is written.
LEMMA FileIs ==
  ASSUME ArchInv, op.id \in DOMAIN archives, NEW a \in Artifacts, NEW v \in 0..Torn,
         archives' = [archives EXCEPT ![op.id].files[a] = v]
  PROVE  /\ DOMAIN archives' = DOMAIN archives
         /\ \A j \in DOMAIN archives : archives'[j] \in Archive
         /\ \A j \in DOMAIN archives \ {op.id} : archives'[j] = archives[j]
         /\ archives'[op.id].manifest = archives[op.id].manifest /\ archives'[op.id].at = archives[op.id].at
         /\ \A b \in Artifacts :
              archives'[op.id].files[b] = IF b = a THEN v ELSE archives[op.id].files[b]
<1>1. archives[op.id] \in Archive /\ archives[op.id].files \in Contents
  BY Facts DEF Archive
<1>2. archives'[op.id] = [archives[op.id] EXCEPT !.files = Set(archives[op.id].files, a, v)]
  BY DEF Set
<1>3. DOMAIN archives' = DOMAIN archives /\ \A j \in DOMAIN archives \ {op.id} : archives'[j] = archives[j]
  OBVIOUS
<1>4. Set(archives[op.id].files, a, v) \in Contents
  BY <1>1, SetIs
<1>5. archives'[op.id] \in Archive /\ archives'[op.id].files = Set(archives[op.id].files, a, v)
      /\ archives'[op.id].manifest = archives[op.id].manifest /\ archives'[op.id].at = archives[op.id].at
  BY <1>1, <1>2, <1>4 DEF Archive
<1>6. \A b \in Artifacts :
        archives'[op.id].files[b] = IF b = a THEN v ELSE archives[op.id].files[b]
  BY <1>1, <1>5, SetIs
<1>7. \A j \in DOMAIN archives : archives'[j] \in Archive
  BY <1>3, <1>5, Facts
<1> QED
  BY <1>3, <1>5, <1>6, <1>7

\* A step that makes no archive and tells no time keeps the types.
LEMMA Within ==
  ASSUME ArchInv, UNCHANGED <<version, made, clock, taken, doomed>>, faults' \in 0..MaxFaults,
         live' \in Contents, op' \in Plan, op'.phase # "prune", op'.phase = "idle" => op' = Idle,
         op'.todo \subseteq op'.entries, op'.id \in 0..made,
         DOMAIN archives' = DOMAIN archives,
         \A i \in DOMAIN archives : archives'[i] \in Archive
  PROVE  Typed'
<1>1. /\ op'.phase \in Phases /\ op'.entries \subseteq Artifacts /\ op'.sound \in BOOLEAN
      /\ op'.before \in Contents /\ op'.staging \in Contents /\ op'.backup \in Contents
  BY DEF Plan
<1>2. op'.todo \subseteq (1..N) \cup (1..made)
  BY <1>1 DEF Artifacts
<1>3. TypeOK
  BY DEF ArchInv, Typed
<1>4. TypeOK'
  BY <1>1, <1>2, <1>3 DEF TypeOK
<1> QED
  BY <1>4 DEF Typed

\* A step that seals no archive, and leaves alone those no prune removes.
LEMMA StaySealed ==
  ASSUME ArchInv, UNCHANGED <<clock, taken>>, doomed \subseteq doomed',
         DOMAIN archives' \subseteq DOMAIN archives,
         \A i \in DOMAIN archives' :
           /\ archives'[i].at = archives[i].at
           /\ archives'[i].manifest = "written" =>
                Written(i) /\ (i \in doomed \/ archives'[i] = archives[i]),
         op'.phase = "prune" => op'.todo \subseteq doomed'
  PROVE  Sealed'
<1>1. Sealed
  BY DEF ArchInv
<1>2. \A i \in DOMAIN archives' : archives'[i].at <= clock'
  BY <1>1 DEF Sealed
<1>3. ASSUME NEW i \in DOMAIN archives', NEW j \in DOMAIN archives',
             j < i, archives'[i].manifest = "written", archives'[j].manifest = "written"
      PROVE  archives'[j].at <= archives'[i].at
  BY <1>1, <1>3 DEF Sealed
<1>4. ASSUME NEW i \in DOMAIN archives' \ doomed', archives'[i].manifest = "written"
      PROVE  archives'[i].files = taken'[i] /\ archives'[i].entries = Present(taken'[i])
  BY <1>1, <1>4 DEF Sealed
<1> QED
  BY <1>2, <1>3, <1>4 DEF Sealed, Written

-----------------------------------------------------------------------------
(* One artifact of a reset or a restore. *)

Works == {"archive", "wipe", "stage", "backup", "clear", "apply", "undo", "putback"}

LEMMA Values ==
  ASSUME ArchInv, NEW a \in op.todo, op.phase \in Works
  PROVE  /\ a \in Artifacts /\ Value(a) \in 0..Torn
         /\ op.phase \in {"archive", "backup"} => Value(a) = live[a]
         /\ op.phase = "stage" => Value(a) = archives[op.id].files[a]
         /\ op.phase = "apply" => Value(a) = op.staging[a]
         /\ op.phase = "putback" => Value(a) = PutBack(a)
         /\ op.phase \in {"wipe", "clear", "undo"} => Value(a) = 0
<1>1. a \in Artifacts
  BY Facts DEF Works
<1>2. /\ op.phase \in {"archive", "backup"} => Value(a) = live[a]
      /\ op.phase = "stage" => Value(a) = archives[op.id].files[a]
      /\ op.phase = "apply" => Value(a) = op.staging[a]
      /\ op.phase = "putback" => Value(a) = PutBack(a)
      /\ op.phase \in {"wipe", "clear", "undo"} => Value(a) = 0
  BY DEF Value
<1>3. live[a] \in 0..Torn /\ op.staging[a] \in 0..Torn /\ op.backup[a] \in 0..Torn /\ 0 \in 0..Torn
  BY <1>1, Facts, BoundAssumption DEF Contents, Torn
<1>4. op.phase = "stage" => archives[op.id].files[a] \in 0..Torn
  <2> SUFFICES ASSUME op.phase = "stage" PROVE archives[op.id].files[a] \in 0..Torn
    OBVIOUS
  <2>1. op.id \in DOMAIN archives
    BY DEF ArchInv, Installing
  <2>2. archives[op.id] \in Archive
    BY <2>1, Facts
  <2>3. archives[op.id].files \in Contents
    BY <2>2 DEF Archive
  <2> QED
    BY <1>1, <2>3 DEF Contents
<1>5. PutBack(a) \in 0..Torn
  BY <1>3 DEF PutBack
<1>6. Value(a) \in 0..Torn
  BY <1>2, <1>3, <1>4, <1>5 DEF Works
<1> QED
  BY <1>1, <1>2, <1>6

LEMMA Effects ==
  ASSUME NEW a, NEW v, Effect(a, v)
  PROVE  /\ op.phase = "archive" =>
              archives' = [archives EXCEPT ![op.id].files[a] = v] /\ live' = live
         /\ op.phase \in {"wipe", "clear", "apply", "undo", "putback"} =>
              live' = Set(live, a, v) /\ archives' = archives
         /\ op.phase \in {"stage", "backup"} => live' = live /\ archives' = archives
BY DEF Effect

\* What a copy, whole or torn, does to the files.
LEMMA Copied ==
  ASSUME ArchInv, op.phase \in Works, NEW a \in Artifacts, NEW v \in 0..Torn, Effect(a, v)
  PROVE  /\ live' \in Contents /\ DOMAIN archives' = DOMAIN archives
         /\ \A i \in DOMAIN archives : archives'[i] \in Archive
         /\ \A i \in DOMAIN archives :
              /\ archives'[i].at = archives[i].at
              /\ archives'[i].manifest = "written" => Written(i) /\ archives'[i] = archives[i]
         /\ op.phase # "archive" => archives' = archives
         /\ op.phase = "archive" =>
              /\ ~(archives'[op.id].manifest = "written")
              /\ \A b \in Artifacts :
                   archives'[op.id].files[b] = IF b = a THEN v ELSE archives[op.id].files[b]
         /\ op.phase \in {"archive", "stage", "backup"} => live' = live
         /\ op.phase \in {"wipe", "clear", "apply", "undo", "putback"} =>
              \A b \in Artifacts : live'[b] = IF b = a THEN v ELSE live[b]
<1>1. CASE op.phase = "archive"
  <2>1. op.id \in DOMAIN archives /\ ~Written(op.id)
    BY <1>1 DEF ArchInv, Resetting
  <2>2. archives' = [archives EXCEPT ![op.id].files[a] = v] /\ live' = live
    BY <1>1, Effects
  <2>3. /\ DOMAIN archives' = DOMAIN archives
        /\ \A j \in DOMAIN archives : archives'[j] \in Archive
        /\ \A j \in DOMAIN archives \ {op.id} : archives'[j] = archives[j]
        /\ archives'[op.id].manifest = archives[op.id].manifest
        /\ archives'[op.id].at = archives[op.id].at
        /\ \A b \in Artifacts :
             archives'[op.id].files[b] = IF b = a THEN v ELSE archives[op.id].files[b]
    <3>1. op.id \in DOMAIN archives
      BY <2>1
    <3>2. archives' = [archives EXCEPT ![op.id].files[a] = v]
      BY <2>2
    <3> QED
      BY <3>1, <3>2, FileIs
  <2>4. ~(archives'[op.id].manifest = "written")
    BY <2>1, <2>3 DEF Written
  <2>5. \A i \in DOMAIN archives :
          /\ archives'[i].at = archives[i].at
          /\ archives'[i].manifest = "written" => Written(i) /\ archives'[i] = archives[i]
    BY <2>3, <2>4 DEF Written
  <2>6. live' \in Contents
    BY <2>2, Facts
  <2> QED
    BY <1>1, <2>2, <2>3, <2>4, <2>5, <2>6
<1>2. CASE op.phase # "archive"
  <2>1. archives' = archives
    BY <1>2, Effects DEF Works
  <2>2. op.phase \in {"stage", "backup"} => live' = live
    BY Effects
  <2>3. op.phase \in {"wipe", "clear", "apply", "undo", "putback"} =>
          live' = Set(live, a, v)
    BY Effects
  <2>4. live \in Contents /\ Set(live, a, v) \in Contents
        /\ \A b \in Artifacts : Set(live, a, v)[b] = IF b = a THEN v ELSE live[b]
    BY Facts, SetIs
  <2>5. live' \in Contents
    BY <1>2, <2>2, <2>3, <2>4 DEF Works
  <2>6. \A i \in DOMAIN archives :
          /\ archives'[i] \in Archive /\ archives'[i].at = archives[i].at
          /\ archives'[i].manifest = "written" => Written(i) /\ archives'[i] = archives[i]
    BY <2>1, Facts DEF Written
  <2> QED
    BY <1>2, <2>1, <2>2, <2>3, <2>4, <2>5, <2>6
<1> QED
  BY <1>1, <1>2

LEMMA StepPlan ==
  ASSUME ArchInv, NEW a \in Artifacts, Step(a)
  PROVE  /\ op.phase \in Works /\ a \in op.todo /\ op' \in Plan
         /\ op'.phase = op.phase /\ op'.todo = op.todo \ {a} /\ op'.entries = op.entries
         /\ op'.id = op.id /\ op'.sound = op.sound /\ op'.before = op.before
         /\ op.phase # "stage" => op'.staging = op.staging
         /\ op.phase = "stage" => \A b \in Artifacts :
              op'.staging[b] = IF b = a THEN Value(a) ELSE op.staging[b]
         /\ op.phase # "backup" => op'.backup = op.backup
         /\ op.phase = "backup" => \A b \in Artifacts :
              op'.backup[b] = IF b = a THEN Value(a) ELSE op.backup[b]
<1>1. op.phase \in Works /\ a \in op.todo
  BY Facts DEF Step, Works, Phases
<1>2. Value(a) \in 0..Torn
  BY <1>1, Values
<1> DEFINE S == IF op.phase = "stage" THEN Set(op.staging, a, Value(a)) ELSE op.staging
<1> DEFINE B == IF op.phase = "backup" THEN Set(op.backup, a, Value(a)) ELSE op.backup
<1>3. S \in Contents /\ B \in Contents
  BY <1>2, Facts, SetIs
<1>4. op' = [op EXCEPT !.todo = @ \ {a}, !.staging = S, !.backup = B]
  BY DEF Step
<1>5. /\ op.phase = "stage" => \A b \in Artifacts :
           S[b] = IF b = a THEN Value(a) ELSE op.staging[b]
      /\ op.phase = "backup" => \A b \in Artifacts :
           B[b] = IF b = a THEN Value(a) ELSE op.backup[b]
      /\ op.phase # "stage" => S = op.staging
      /\ op.phase # "backup" => B = op.backup
  BY <1>2, Facts, SetIs
<1> HIDE DEF S, B
<1>6. op \in Plan
  BY Facts
<1>7. /\ op'.phase = op.phase /\ op'.todo = op.todo \ {a} /\ op'.entries = op.entries
      /\ op'.id = op.id /\ op'.sound = op.sound /\ op'.before = op.before
      /\ op'.staging = S /\ op'.backup = B /\ op' \in Plan
  BY <1>3, <1>4, <1>6 DEF Plan
<1> QED
  BY <1>1, <1>5, <1>7

LEMMA StepKeeps ==
  ASSUME ArchInv, NEW a \in Artifacts, Step(a)
  PROVE  ArchInv'
<1>1. /\ op.phase \in Works /\ a \in op.todo /\ op' \in Plan
      /\ op'.phase = op.phase /\ op'.todo = op.todo \ {a} /\ op'.entries = op.entries
      /\ op'.id = op.id /\ op'.sound = op.sound /\ op'.before = op.before
      /\ op.phase # "stage" => op'.staging = op.staging
      /\ op.phase = "stage" => \A b \in Artifacts :
           op'.staging[b] = IF b = a THEN Value(a) ELSE op.staging[b]
      /\ op.phase # "backup" => op'.backup = op.backup
      /\ op.phase = "backup" => \A b \in Artifacts :
           op'.backup[b] = IF b = a THEN Value(a) ELSE op.backup[b]
  BY StepPlan
<1>2. /\ Value(a) \in 0..Torn
      /\ op.phase \in {"archive", "backup"} => Value(a) = live[a]
      /\ op.phase = "stage" => Value(a) = archives[op.id].files[a]
      /\ op.phase = "apply" => Value(a) = op.staging[a]
      /\ op.phase = "putback" => Value(a) = PutBack(a)
      /\ op.phase \in {"wipe", "clear", "undo"} => Value(a) = 0
  BY <1>1, Values
<1>3. Effect(a, Value(a)) /\ UNCHANGED <<version, made, clock, taken, doomed, faults>>
  BY DEF Step
<1>4. /\ live' \in Contents /\ DOMAIN archives' = DOMAIN archives
      /\ \A i \in DOMAIN archives : archives'[i] \in Archive
      /\ \A i \in DOMAIN archives :
           /\ archives'[i].at = archives[i].at
           /\ archives'[i].manifest = "written" => Written(i) /\ archives'[i] = archives[i]
      /\ op.phase # "archive" => archives' = archives
      /\ op.phase = "archive" =>
           /\ ~(archives'[op.id].manifest = "written")
           /\ \A b \in Artifacts :
                archives'[op.id].files[b] = IF b = a THEN Value(a) ELSE archives[op.id].files[b]
      /\ op.phase \in {"archive", "stage", "backup"} => live' = live
      /\ op.phase \in {"wipe", "clear", "apply", "undo", "putback"} =>
           \A b \in Artifacts : live'[b] = IF b = a THEN Value(a) ELSE live[b]
  BY <1>1, <1>2, <1>3, Copied
<1>5. /\ op.todo \subseteq op.entries /\ a \in op.entries /\ op.entries \in SUBSET Artifacts
  BY <1>1, Facts DEF Works
<1>6. Typed'
  <2>1. op'.todo \subseteq op'.entries /\ op'.id \in 0..made /\ op'.phase \notin {"idle", "prune"}
    BY <1>1, <1>5, Facts DEF Works
  <2>2. faults' \in 0..MaxFaults
    BY <1>3 DEF ArchInv, Typed, TypeOK
  <2> QED
    BY <1>1, <1>3, <1>4, <2>1, <2>2, Within
<1>7. Sealed'
  BY <1>1, <1>3, <1>4, StaySealed DEF Works
<1>8. Resetting'
  <2>1. CASE op.phase = "archive"
    <3>1. /\ op.id \in DOMAIN archives \ doomed
          /\ op.before = taken[op.id] /\ op.entries = Present(op.before)
          /\ op.id = made /\ live = op.before
          /\ \A b \in Artifacts : b \notin op.todo => archives[op.id].files[b] = op.before[b]
      BY <2>1 DEF ArchInv, Resetting
    <3>2. \A b \in Artifacts : b \notin op'.todo => archives'[op.id].files[b] = op.before[b]
      BY <1>1, <1>2, <1>4, <2>1, <3>1
    <3> QED
      BY <1>1, <1>3, <1>4, <2>1, <3>1, <3>2 DEF Resetting, Written, Present
  <2>2. CASE op.phase = "wipe"
    <3>1. op.id # 0 =>
            /\ op.id \in DOMAIN archives \ doomed
            /\ op.before = taken[op.id] /\ op.entries = Present(op.before)
            /\ Written(op.id)
            /\ \A b \in Artifacts : archives[op.id].files[b] = op.before[b]
      BY <2>2 DEF ArchInv, Resetting
    <3>2. archives' = archives
      BY <1>4, <2>2
    <3> QED
      BY <1>1, <1>3, <2>2, <3>1, <3>2 DEF Resetting, Written, Present
  <2> QED
    BY <1>1, <2>1, <2>2 DEF Works, Resetting
<1>9. Installing'
  <2> SUFFICES ASSUME op.phase \in {"stage", "backup", "clear", "apply"} PROVE Installing'
    BY <1>1 DEF Installing
  <2>1. /\ op.sound /\ op.id \in DOMAIN archives
        /\ op.phase \in {"stage", "backup"} => live = op.before
        /\ \A b \in op.entries : op.phase # "stage" \/ b \notin op.todo =>
             op.staging[b] = archives[op.id].files[b]
        /\ \A b \in op.entries : op.phase = "apply" /\ b \notin op.todo => live[b] = op.staging[b]
    BY DEF ArchInv, Installing
  <2>2. archives' = archives
    BY <1>4
  <2>3. \A b \in op.entries : op.phase # "stage" \/ b \notin op'.todo =>
          op'.staging[b] = archives[op.id].files[b]
    BY <1>1, <1>2, <1>5, <2>1
  <2>4. \A b \in op.entries : op.phase = "apply" /\ b \notin op'.todo => live'[b] = op'.staging[b]
    BY <1>1, <1>2, <1>4, <1>5, <2>1
  <2>5. op.phase \in {"stage", "backup"} => live' = op.before
    BY <1>4, <2>1
  <2> QED
    BY <1>1, <2>1, <2>2, <2>3, <2>4, <2>5 DEF Installing
<1>10. Undoable'
  <2> SUFFICES ASSUME op.phase \in {"stage", "backup", "clear", "apply", "undo", "putback"},
                      op.sound
               PROVE  Undoable'
    BY <1>1 DEF Undoable
  <2>1. /\ \A b \in Artifacts \ op.entries : live[b] = op.before[b]
        /\ \A b \in op.entries :
             op.phase # "stage" /\ (op.phase # "backup" \/ b \notin op.todo) =>
               op.backup[b] = op.before[b]
        /\ \A b \in op.entries :
             (op.phase = "undo" /\ b \notin op.todo) \/ (op.phase = "putback" /\ b \in op.todo) =>
               live[b] = 0
        /\ \A b \in op.entries : op.phase = "putback" /\ b \notin op.todo => live[b] = op.before[b]
    BY DEF ArchInv, Undoable
  <2>2. \A b \in Artifacts : b # a => live'[b] = live[b]
    BY <1>4
  <2>3. \A b \in Artifacts \ op.entries : live'[b] = op.before[b]
    BY <1>5, <2>1, <2>2
  <2>4. \A b \in op.entries :
          op.phase # "stage" /\ (op.phase # "backup" \/ b \notin op'.todo) =>
            op'.backup[b] = op.before[b]
    <3>1. op.phase = "backup" => live = op.before
      BY DEF ArchInv, Installing
    <3> QED
      BY <1>1, <1>2, <1>5, <2>1, <3>1
  <2>5. \A b \in op.entries :
          (op.phase = "undo" /\ b \notin op'.todo) \/ (op.phase = "putback" /\ b \in op'.todo) =>
            live'[b] = 0
    BY <1>1, <1>2, <1>4, <1>5, <2>1
  <2>6. \A b \in op.entries : op.phase = "putback" /\ b \notin op'.todo => live'[b] = op.before[b]
    <3>1. op.phase = "putback" => live'[a] = op.before[a]
      BY <1>1, <1>2, <1>4, <1>5, <2>1 DEF PutBack
    <3> QED
      BY <1>1, <1>5, <2>1, <2>2, <3>1
  <2> QED
    BY <1>1, <2>3, <2>4, <2>5, <2>6 DEF Undoable
<1> QED
  BY <1>6, <1>7, <1>8, <1>9, <1>10 DEF ArchInv

-----------------------------------------------------------------------------
(* The phases follow one another. *)

LEMMA ProceedKeeps ==
  ASSUME ArchInv, Proceed
  PROVE  ArchInv'
<1>1. /\ op.phase \in DOMAIN After /\ op.todo = {}
      /\ op' = IF After[op.phase] = "idle" THEN Idle
               ELSE [op EXCEPT !.phase = After[op.phase], !.todo = op.entries]
      /\ UNCHANGED <<live, archives, version, made, clock, taken, doomed, faults>>
  BY DEF Proceed
<1>2. \/ op.phase \in {"wipe", "apply", "putback", "prune"} /\ After[op.phase] = "idle"
      \/ op.phase = "archive" /\ After[op.phase] = "seal"
      \/ op.phase = "stage" /\ After[op.phase] = "backup"
      \/ op.phase = "backup" /\ After[op.phase] = "clear"
      \/ op.phase = "clear" /\ After[op.phase] = "apply"
      \/ op.phase = "undo" /\ After[op.phase] = "putback"
  BY <1>1 DEF After
<1> DEFINE next == After[op.phase]
<1>3. next = "idle" \/ next \in {"seal", "backup", "clear", "apply", "putback"}
  BY <1>2
<1>4. next # "idle" =>
        /\ op'.phase = next /\ op'.todo = op.entries /\ op'.entries = op.entries
        /\ op'.id = op.id /\ op'.sound = op.sound /\ op'.before = op.before
        /\ op'.staging = op.staging /\ op'.backup = op.backup /\ op' \in Plan
  <2> SUFFICES ASSUME next # "idle"
               PROVE  /\ op'.phase = next /\ op'.todo = op.entries /\ op'.entries = op.entries
                      /\ op'.id = op.id /\ op'.sound = op.sound /\ op'.before = op.before
                      /\ op'.staging = op.staging /\ op'.backup = op.backup /\ op' \in Plan
    OBVIOUS
  <2>1. op' = [op EXCEPT !.phase = next, !.todo = op.entries]
    BY <1>1
  <2>2. next \in Phases
    BY <1>3 DEF Phases
  <2>3. op.entries \in SUBSET Nat
    BY Facts DEF Artifacts
  <2> HIDE DEF next
  <2>4. op \in Plan
    BY Facts
  <2> QED
    BY <2>1, <2>2, <2>3, <2>4 DEF Plan
<1>5. next = "idle" => op' = Idle
  BY <1>1
<1>6. /\ op' \in Plan /\ op'.phase # "prune" /\ op'.phase = next
      /\ op'.todo \subseteq op'.entries /\ op'.id \in 0..made /\ (op'.phase = "idle" => op' = Idle)
  <2>1. CASE next = "idle"
    <3>1. op'.id = 0 /\ made \in Nat
      BY <1>5, <2>1, IdleFields, Facts
    <3>2. op' \in Plan /\ op'.phase = "idle" /\ op'.todo = {}
      BY <1>5, <2>1, IdleFields
    <3> QED
      BY <1>5, <2>1, <3>1, <3>2
  <2>2. CASE next # "idle"
    BY <1>3, <1>4, <2>2, Facts
  <2> QED
    BY <2>1, <2>2
<1> HIDE DEF next
<1>7. Typed'
  <2>1. live' \in Contents /\ \A i \in DOMAIN archives : archives'[i] \in Archive
    BY <1>1, Facts
  <2>2. faults' \in 0..MaxFaults
    BY <1>1 DEF ArchInv, Typed, TypeOK
  <2> QED
    BY <1>1, <1>6, <2>1, <2>2, Within
<1>8. Sealed'
  BY <1>1, <1>6, StaySealed DEF Written
<1>9. Resetting'
  <2>1. CASE op.phase = "archive"
    <3>1. /\ op.id \in DOMAIN archives \ doomed
          /\ op.before = taken[op.id] /\ op.entries = Present(op.before)
          /\ op.id = made /\ live = op.before /\ ~Written(op.id)
          /\ \A a \in Artifacts : archives[op.id].files[a] = op.before[a]
      BY <1>1, <2>1 DEF ArchInv, Resetting
    <3>2. next = "seal"
      BY <1>2, <2>1 DEF next
    <3> QED
      BY <1>1, <1>4, <3>1, <3>2 DEF Resetting, Written, Present
  <2>2. CASE op.phase # "archive"
    <3>1. next \notin {"archive", "seal", "wipe"}
      BY <1>2, <2>2 DEF next
    <3> QED
      BY <1>6, <3>1 DEF Resetting
  <2> QED
    BY <2>1, <2>2
<1>10. Installing'
  <2> SUFFICES ASSUME op'.phase \in {"stage", "backup", "clear", "apply"} PROVE Installing'
    BY DEF Installing
  <2>1. /\ op.phase \in {"stage", "backup", "clear"}
        /\ next \in {"backup", "clear", "apply"} /\ (next = "backup" => op.phase = "stage")
    BY <1>2, <1>6 DEF next
  <2>2. /\ op.sound /\ op.id \in DOMAIN archives
        /\ op.phase \in {"stage", "backup"} => live = op.before
        /\ \A a \in op.entries : op.staging[a] = archives[op.id].files[a]
    BY <1>1, <2>1 DEF ArchInv, Installing
  <2>3. /\ op'.phase = next /\ op'.todo = op.entries /\ op'.entries = op.entries
        /\ op'.id = op.id /\ op'.sound = op.sound /\ op'.before = op.before
        /\ op'.staging = op.staging /\ live' = live /\ archives' = archives
    BY <1>1, <1>4, <2>1
  <2>4. op'.phase \in {"stage", "backup"} => live' = op'.before
    BY <2>1, <2>2, <2>3
  <2>5. \A a \in op'.entries : op'.staging[a] = archives'[op'.id].files[a]
    BY <2>2, <2>3
  <2> QED
    BY <2>2, <2>3, <2>4, <2>5 DEF Installing
<1>11. Undoable'
  <2> SUFFICES ASSUME op'.phase \in {"stage", "backup", "clear", "apply", "undo", "putback"},
                      op'.sound
               PROVE  Undoable'
    BY DEF Undoable
  <2>1. /\ op.phase \in {"stage", "backup", "clear", "undo"}
        /\ next \in {"backup", "clear", "apply", "putback"}
        /\ next = "backup" <=> op.phase = "stage"
        /\ next = "putback" => op.phase = "undo"
    BY <1>2, <1>6 DEF next
  <2>2. op.sound
    BY <1>4, <2>1
  <2>3. /\ \A a \in Artifacts \ op.entries : live[a] = op.before[a]
        /\ \A a \in op.entries : op.phase # "stage" => op.backup[a] = op.before[a]
        /\ \A a \in op.entries : op.phase = "undo" => live[a] = 0
    BY <1>1, <2>1, <2>2 DEF ArchInv, Undoable
  <2>4. /\ op'.phase = next /\ op'.todo = op.entries /\ op'.entries = op.entries
        /\ op'.before = op.before /\ op'.backup = op.backup /\ live' = live
    BY <1>1, <1>4, <2>1
  <2>5. \A a \in Artifacts \ op'.entries : live'[a] = op'.before[a]
    BY <2>3, <2>4
  <2>6. \A a \in op'.entries :
          op'.phase # "stage" /\ (op'.phase # "backup" \/ a \notin op'.todo) =>
            op'.backup[a] = op'.before[a]
    BY <2>1, <2>3, <2>4
  <2>7. \A a \in op'.entries : op'.phase = "putback" => live'[a] = 0
    BY <2>1, <2>3, <2>4
  <2> QED
    BY <2>1, <2>4, <2>5, <2>6, <2>7 DEF Undoable
<1> QED
  BY <1>7, <1>8, <1>9, <1>10, <1>11 DEF ArchInv

LEMMA SealKeeps ==
  ASSUME ArchInv, Seal
  PROVE  ArchInv'
<1> DEFINE k == op.id
<1>1. /\ op.phase = "seal" /\ UNCHANGED <<live, version, made, clock, taken, doomed, faults>>
      /\ archives' = [archives EXCEPT ![k].manifest = "written", ![k].entries = op.entries,
                                      ![k].at = clock]
      /\ op' = [op EXCEPT !.phase = "wipe", !.todo = op.entries]
  BY DEF Seal
<1>2. /\ k \in DOMAIN archives \ doomed /\ op.before = taken[k]
      /\ op.entries = Present(op.before) /\ k = made
      /\ \A a \in Artifacts : archives[k].files[a] = op.before[a]
  BY <1>1 DEF ArchInv, Resetting
<1>3. /\ op \in Plan /\ archives[k] \in Archive /\ op.before \in Contents
      /\ archives[k].files \in Contents
  BY <1>2, Facts DEF Archive
<1>4. archives[k].files = op.before
  <2>1. \A c, d \in Contents : (\A a \in Artifacts : c[a] = d[a]) => c = d
    BY DEF Contents
  <2> QED
    BY <1>2, <1>3, <2>1
<1>5. /\ op'.phase = "wipe" /\ op'.todo = op.entries /\ op'.entries = op.entries
      /\ op'.id = k /\ op'.sound = op.sound /\ op'.before = op.before /\ op' \in Plan
  <2>1. op.entries \in SUBSET Nat /\ "wipe" \in Phases
    BY Facts DEF Artifacts, Phases
  <2> QED
    BY <1>1, <1>3, <2>1 DEF Plan
<1> HIDE DEF k
<1>6. /\ DOMAIN archives' = DOMAIN archives
      /\ \A i \in DOMAIN archives \ {k} : archives'[i] = archives[i]
      /\ archives'[k] = [archives[k] EXCEPT !.manifest = "written", !.entries = op.entries,
                                            !.at = clock]
  BY <1>1, <1>2
<1>7. /\ archives'[k].manifest = "written" /\ archives'[k].entries = op.entries
      /\ archives'[k].at = clock /\ archives'[k].files = op.before /\ archives'[k] \in Archive
  <2>1. clock \in 0..MaxClock /\ "written" \in Manifests /\ op.entries \in SUBSET Artifacts
    <3>1. clock \in 0..MaxClock
      BY DEF ArchInv, Typed, TypeOK
    <3> QED
      BY <3>1, Facts DEF Manifests
  <2> QED
    BY <1>3, <1>4, <1>6, <2>1 DEF Archive
<1>8. Typed'
  <2>1. \A i \in DOMAIN archives : archives'[i] \in Archive
    BY <1>6, <1>7, Facts
  <2>2. live' \in Contents /\ op'.id \in 0..made /\ faults' \in 0..MaxFaults
    <3>1. op.id \in 0..made /\ live \in Contents
      BY Facts
    <3>2. faults \in 0..MaxFaults
      BY DEF ArchInv, Typed, TypeOK
    <3> QED
      BY <1>1, <1>5, <3>1, <3>2 DEF k
  <2> QED
    BY <1>1, <1>5, <1>6, <2>1, <2>2, Within
<1>9. Sealed'
  <2>1. /\ \A i \in DOMAIN archives : archives[i].at <= clock
        /\ \A i, j \in DOMAIN archives : j < i /\ Written(i) /\ Written(j) =>
             archives[j].at <= archives[i].at
        /\ \A i \in DOMAIN archives \ doomed : Written(i) =>
             archives[i].files = taken[i] /\ archives[i].entries = Present(taken[i])
    BY DEF ArchInv, Sealed
  <2>2. \A i \in DOMAIN archives' : archives'[i].at <= clock'
    <3>1. clock \in Nat
      BY Facts
    <3> QED
      BY <1>1, <1>6, <1>7, <2>1, <3>1
  <2>3. ASSUME NEW i \in DOMAIN archives', NEW j \in DOMAIN archives', j < i,
               Written(i)', Written(j)'
        PROVE  archives'[j].at <= archives'[i].at
    <3>1. CASE i = k
      BY <1>1, <1>7, <2>2, <2>3, <3>1
    <3>2. CASE i # k
      <4>1. i <= made /\ made \in Nat /\ i \in Nat /\ j \in Nat
        BY <1>6, <2>3, Facts
      <4>2. j # k
        BY <1>2, <2>3, <4>1
      <4> QED
        BY <1>6, <2>1, <2>3, <3>2, <4>2 DEF Written
    <3> QED
      BY <3>1, <3>2
  <2>4. ASSUME NEW i \in DOMAIN archives' \ doomed', Written(i)'
        PROVE  archives'[i].files = taken'[i] /\ archives'[i].entries = Present(taken'[i])
    <3>1. CASE i = k
      BY <1>1, <1>2, <1>7, <3>1
    <3>2. CASE i # k
      BY <1>1, <1>6, <2>1, <2>4, <3>2 DEF Written
    <3> QED
      BY <3>1, <3>2
  <2> QED
    BY <1>5, <2>2, <2>3, <2>4 DEF Sealed
<1>10. Resetting'
  <2>1. op'.id \in DOMAIN archives' \ doomed' /\ archives'[op'.id].manifest = "written"
    BY <1>1, <1>2, <1>5, <1>6, <1>7
  <2>2. op'.before = taken'[op'.id] /\ op'.entries = Present(op'.before)
    BY <1>1, <1>2, <1>5
  <2>3. \A a \in Artifacts : archives'[op'.id].files[a] = op'.before[a]
    BY <1>5, <1>7
  <2> QED
    BY <1>5, <2>1, <2>2, <2>3 DEF Resetting, Written, Present
<1>11. Installing' /\ Undoable'
  BY <1>5 DEF Installing, Undoable
<1> QED
  BY <1>8, <1>9, <1>10, <1>11 DEF ArchInv

-----------------------------------------------------------------------------
(* Faults. *)

\* The command gives up: only what it leaves in the files counts.
LEMMA GivenUp ==
  ASSUME ArchInv, op' = Idle, UNCHANGED <<version, made, clock, taken, doomed>>,
         faults' \in 0..MaxFaults, live' \in Contents, DOMAIN archives' = DOMAIN archives,
         \A i \in DOMAIN archives :
           /\ archives'[i] \in Archive /\ archives'[i].at = archives[i].at
           /\ archives'[i].manifest = "written" =>
                Written(i) /\ (i \in doomed \/ archives'[i] = archives[i])
  PROVE  ArchInv'
<1>1. op' \in Plan /\ op'.phase = "idle" /\ op'.todo = {} /\ op'.id \in 0..made
  <2>1. made \in Nat
    BY Facts
  <2>2. op' \in Plan /\ op'.phase = "idle" /\ op'.todo = {} /\ op'.id = 0
    BY IdleFields
  <2> QED
    BY <2>1, <2>2
<1>2. Typed'
  BY <1>1, Within
<1>3. Sealed'
  BY <1>1, StaySealed
<1>4. Resetting' /\ Installing' /\ Undoable'
  BY <1>1 DEF Resetting, Installing, Undoable
<1> QED
  BY <1>2, <1>3, <1>4 DEF ArchInv

LEMMA TornedIs ==
  ASSUME ArchInv, NEW a \in Artifacts
  PROVE  /\ Torned(a) \in Plan /\ Torned(a).entries = op.entries /\ Torned(a).id = op.id
         /\ Torned(a).before = op.before
         /\ op.phase \in {"clear", "apply"} => Torned(a) = op
<1>1. Torn \in 0..Torn
  BY BoundAssumption DEF Torn
<1>2. /\ Set(op.staging, a, Torn) \in Contents /\ Set(op.backup, a, Torn) \in Contents
  BY <1>1, Facts, SetIs
<1>3. op \in Plan
  BY Facts
<1>4. CASE op.phase = "stage"
  BY <1>2, <1>3, <1>4 DEF Torned, Plan
<1>5. CASE op.phase = "backup"
  BY <1>2, <1>3, <1>5 DEF Torned, Plan
<1>6. CASE op.phase \notin {"stage", "backup"}
  BY <1>3, <1>6 DEF Torned
<1> QED
  BY <1>4, <1>5, <1>6

\* A restore begins its rollback, and knows whether it has a whole backup.
LEMMA RollsBack ==
  ASSUME ArchInv, Restoring, NEW o \in Plan, op' = Raised(o),
         o.entries = op.entries, o.id = op.id, o.before = op.before,
         op.phase \in {"clear", "apply"} => o = op,
         UNCHANGED <<archives, version, made, clock, taken, doomed>>,
         faults' \in 0..MaxFaults, live' \in Contents,
         \A a \in Artifacts \ op.entries : live'[a] = live[a]
  PROVE  ArchInv'
<1> DEFINE late == op.phase \in {"clear", "apply"}
<1>1. op' = [o EXCEPT !.phase = "undo", !.todo = o.entries, !.sound = late]
  BY DEF Raised
<1>2. late \in BOOLEAN /\ "undo" \in Phases /\ o.entries \in SUBSET Nat
  BY DEF Phases, Plan, Artifacts
<1> HIDE DEF late
<1>3. /\ op' \in Plan /\ op'.phase = "undo" /\ op'.todo = op.entries /\ op'.entries = op.entries
      /\ op'.id = op.id /\ op'.sound = late /\ op'.before = op.before /\ op'.backup = o.backup
  BY <1>1, <1>2 DEF Plan
<1>4. Typed'
  <2>1. op'.id \in 0..made /\ \A i \in DOMAIN archives : archives'[i] \in Archive
    BY <1>3, Facts
  <2> QED
    BY <1>3, <2>1, Within
<1>5. Sealed'
  BY <1>3, StaySealed DEF Written
<1>6. Resetting' /\ Installing'
  BY <1>3 DEF Resetting, Installing
<1>7. Undoable'
  <2> SUFFICES ASSUME late PROVE Undoable'
    BY <1>3 DEF Undoable
  <2>1. op.phase \in {"clear", "apply"} /\ o = op
    BY DEF late
  <2>2. op.sound
    BY <2>1 DEF ArchInv, Installing
  <2>3. /\ \A a \in Artifacts \ op.entries : live[a] = op.before[a]
        /\ \A a \in op.entries : op.backup[a] = op.before[a]
    BY <2>1, <2>2 DEF ArchInv, Undoable
  <2> QED
    BY <1>3, <2>1, <2>3 DEF Undoable
<1> QED
  BY <1>4, <1>5, <1>6, <1>7 DEF ArchInv

LEMMA Breaks ==
  ASSUME ArchInv, Raise \/ Crash
  PROVE  /\ op.phase \in Works /\ faults' \in 0..MaxFaults
         /\ UNCHANGED <<version, made, clock, taken, doomed>>
         /\ \E o \in {op} \cup {Torned(a) : a \in op.todo} :
              /\ op' = Raised(o) \/ op' = Idle
              /\ Restoring \/ op' = Idle
              /\ \/ o = op /\ UNCHANGED <<live, archives>>
                 \/ \E a \in op.todo : o = Torned(a) /\ Effect(a, Torn)
<1>1. CASE Raise
  <2>1. /\ op.phase \notin {"idle", "seal", "prune"} /\ faults < MaxFaults /\ faults' = faults + 1
        /\ UNCHANGED <<version, made, clock, taken, doomed>>
        /\ \/ op' = Raised(op) /\ UNCHANGED <<live, archives>>
           \/ \E a \in Artifacts : CanTear(a) /\ Effect(a, Torn) /\ op' = Raised(Torned(a))
    BY <1>1 DEF Raise, Fault
  <2>2. Restoring \/ op' = Idle
    BY <2>1 DEF Raised
  <2>3. op.phase \in Works /\ faults' \in 0..MaxFaults
    <3>1. op.phase \in Phases /\ faults \in 0..MaxFaults
      BY DEF ArchInv, Typed, TypeOK
    <3> QED
      BY <2>1, <3>1, BoundAssumption DEF Works, Phases
  <2> QED
    BY <2>1, <2>2, <2>3 DEF CanTear
<1>2. CASE Crash
  <2>1. /\ op.phase \notin {"idle", "seal", "prune"} /\ faults < MaxFaults /\ faults' = faults + 1
        /\ UNCHANGED <<version, made, clock, taken, doomed>>
        /\ \/ op' = Idle /\ UNCHANGED <<live, archives>>
           \/ \E a \in Artifacts : CanTear(a) /\ Effect(a, Torn) /\ op' = Idle
    BY <1>2 DEF Crash, Fault, Died
  <2>3. op.phase \in Works /\ faults' \in 0..MaxFaults
    <3>1. op.phase \in Phases /\ faults \in 0..MaxFaults
      BY DEF ArchInv, Typed, TypeOK
    <3> QED
      BY <2>1, <3>1, BoundAssumption DEF Works, Phases
  <2> QED
    BY <2>1, <2>3 DEF CanTear
<1> QED
  BY <1>1, <1>2

LEMMA FaultKeeps ==
  ASSUME ArchInv, Raise \/ Crash
  PROVE  ArchInv'
<1>1. /\ op.phase \in Works /\ faults' \in 0..MaxFaults
      /\ UNCHANGED <<version, made, clock, taken, doomed>>
  BY Breaks
<1>2. PICK o \in {op} \cup {Torned(a) : a \in op.todo} :
        /\ op' = Raised(o) \/ op' = Idle
        /\ Restoring \/ op' = Idle
        /\ \/ o = op /\ UNCHANGED <<live, archives>>
           \/ \E a \in op.todo : o = Torned(a) /\ Effect(a, Torn)
  BY Breaks
<1>3. op.todo \subseteq op.entries /\ op.entries \in SUBSET Artifacts /\ Torn \in 0..Torn
  BY <1>1, Facts, BoundAssumption DEF Works, Torn
<1>4. /\ o \in Plan /\ o.entries = op.entries /\ o.id = op.id /\ o.before = op.before
      /\ op.phase \in {"clear", "apply"} => o = op
  BY <1>2, <1>3, Facts, TornedIs
<1>5. /\ live' \in Contents /\ DOMAIN archives' = DOMAIN archives
      /\ \A i \in DOMAIN archives :
           /\ archives'[i] \in Archive /\ archives'[i].at = archives[i].at
           /\ archives'[i].manifest = "written" => Written(i) /\ archives'[i] = archives[i]
      /\ op.phase # "archive" => archives' = archives
      /\ \A a \in Artifacts \ op.entries : live'[a] = live[a]
  <2>1. CASE UNCHANGED <<live, archives>>
    BY <2>1, Facts DEF Written
  <2>2. ASSUME NEW a \in op.todo, Effect(a, Torn)
        PROVE  /\ live' \in Contents /\ DOMAIN archives' = DOMAIN archives
               /\ \A i \in DOMAIN archives :
                    /\ archives'[i] \in Archive /\ archives'[i].at = archives[i].at
                    /\ archives'[i].manifest = "written" =>
                         Written(i) /\ archives'[i] = archives[i]
               /\ op.phase # "archive" => archives' = archives
               /\ \A b \in Artifacts \ op.entries : live'[b] = live[b]
    <3>1. a \in Artifacts
      BY <1>3
    <3>2. /\ live' \in Contents /\ DOMAIN archives' = DOMAIN archives
          /\ \A i \in DOMAIN archives : archives'[i] \in Archive
          /\ \A i \in DOMAIN archives :
               /\ archives'[i].at = archives[i].at
               /\ archives'[i].manifest = "written" => Written(i) /\ archives'[i] = archives[i]
          /\ op.phase # "archive" => archives' = archives
          /\ op.phase \in {"archive", "stage", "backup"} => live' = live
          /\ op.phase \in {"wipe", "clear", "apply", "undo", "putback"} =>
               \A b \in Artifacts : live'[b] = IF b = a THEN Torn ELSE live[b]
      BY <1>1, <1>3, <2>2, <3>1, Copied
    <3>3. \A b \in Artifacts \ op.entries : live'[b] = live[b]
      BY <1>1, <1>3, <3>2 DEF Works
    <3> QED
      BY <3>2, <3>3
  <2> QED
    BY <1>2, <2>1, <2>2
<1>6. CASE op' = Idle
  BY <1>1, <1>5, <1>6, GivenUp
<1>7. CASE Restoring /\ op' = Raised(o)
  <2>1. archives' = archives
    BY <1>5, <1>7 DEF Restoring
  <2> QED
    BY <1>1, <1>4, <1>5, <1>7, <2>1, RollsBack
<1> QED
  BY <1>2, <1>6, <1>7

LEMMA SealFaultKeeps ==
  ASSUME ArchInv, SealFault
  PROVE  ArchInv'
<1>1. PICK m \in {"missing", "invalid"} : archives' = [archives EXCEPT ![op.id].manifest = m]
  BY DEF SealFault
<1>2. /\ op.phase = "seal" /\ faults < MaxFaults /\ faults' = faults + 1 /\ op' = Idle
      /\ UNCHANGED <<live, version, made, clock, taken, doomed>>
  BY DEF SealFault
<1>3. op.id \in DOMAIN archives
  BY <1>2 DEF ArchInv, Resetting
<1>4. /\ DOMAIN archives' = DOMAIN archives
      /\ \A i \in DOMAIN archives \ {op.id} : archives'[i] = archives[i]
      /\ archives'[op.id] = [archives[op.id] EXCEPT !.manifest = m]
  BY <1>1, <1>3
<1>5. archives'[op.id] \in Archive /\ archives'[op.id].manifest = m
      /\ archives'[op.id].at = archives[op.id].at
  <2>1. archives[op.id] \in Archive /\ m \in Manifests
    BY <1>3, Facts DEF Manifests
  <2> QED
    BY <1>4, <2>1 DEF Archive
<1>6. \A i \in DOMAIN archives :
        /\ archives'[i] \in Archive /\ archives'[i].at = archives[i].at
        /\ archives'[i].manifest = "written" =>
             Written(i) /\ (i \in doomed \/ archives'[i] = archives[i])
  <2>1. m # "written"
    OBVIOUS
  <2> QED
    BY <1>4, <1>5, <2>1, Facts DEF Written
<1>7. faults' \in 0..MaxFaults /\ live' \in Contents
  <2>1. faults \in 0..MaxFaults
    BY DEF ArchInv, Typed, TypeOK
  <2> QED
    BY <1>2, <2>1, Facts, BoundAssumption
<1> QED
  BY <1>2, <1>4, <1>6, <1>7, GivenUp

-----------------------------------------------------------------------------
(* Commands begin. *)

LEMMA PresentIs ==
  ASSUME NEW c \in Contents
  PROVE  Present(c) \in SUBSET Artifacts /\ Present(c) \in SUBSET Nat
         /\ \A a \in Artifacts \ Present(c) : c[a] = 0
BY DEF Present, Artifacts

\* Begin(phase, todo, id), with its fields.
LEMMA Begun ==
  ASSUME ArchInv, NEW phase \in Phases, NEW todo \in SUBSET Artifacts, NEW id \in Nat,
         Begin(phase, todo, id)
  PROVE  /\ op' \in Plan /\ op'.phase = phase /\ op'.todo = todo /\ op'.entries = todo
         /\ op'.id = id /\ op'.before = live /\ op'.sound = TRUE
<1>1. op' = [Idle EXCEPT !.phase = phase, !.todo = todo, !.entries = todo, !.id = id,
                         !.before = live]
  BY DEF Begin
<1>2. Idle \in Plan /\ live \in Contents /\ todo \in SUBSET Nat /\ Idle.sound = TRUE
  BY Facts, IdleFields DEF Artifacts
<1> QED
  BY <1>1, <1>2 DEF Plan

LEMMA ResetArchivedKeeps ==
  ASSUME ArchInv, ResetArchived
  PROVE  ArchInv'
<1> DEFINE blank == [files |-> Nothing, manifest |-> "missing", entries |-> {}, at |-> 0]
<1>1. /\ made < MaxArchives /\ made' = made + 1
      /\ Begin("archive", Present(live), made')
      /\ archives' = [i \in DOMAIN archives \cup {made'} |->
                        IF i = made' THEN blank ELSE archives[i]]
      /\ taken' = [i \in 1..made' |-> IF i = made' THEN live ELSE taken[i]]
      /\ UNCHANGED <<live, version, clock, doomed, faults>>
  BY DEF ResetArchived
<1>2. blank \in Archive /\ blank.at = 0 /\ blank.manifest = "missing"
  BY IdleFields, BoundAssumption DEF Archive, Manifests
<1>3. made \in Nat /\ made' \in Nat /\ made' \in 0..MaxArchives /\ made' # 0
  BY <1>1, Facts, BoundAssumption
<1>4. \A i \in DOMAIN archives : i \in 1..made /\ i # made'
  BY <1>1, <1>3, Facts
<1> HIDE DEF blank
<1>5. /\ DOMAIN archives' = DOMAIN archives \cup {made'} /\ archives'[made'] = blank
      /\ \A i \in DOMAIN archives : archives'[i] = archives[i]
  BY <1>1, <1>4
<1>6. /\ op' \in Plan /\ op'.phase = "archive" /\ op'.todo = Present(live)
      /\ op'.entries = Present(live) /\ op'.id = made' /\ op'.before = live
  <2>1. Present(live) \in SUBSET Artifacts /\ "archive" \in Phases
    BY Facts, PresentIs DEF Phases
  <2> QED
    BY <1>1, <1>3, <2>1, Begun
<1>7. Typed'
  <2>1. TypeOK
    BY DEF ArchInv, Typed
  <2>2. \A i \in DOMAIN archives' : archives'[i] \in Archive
    BY <1>2, <1>5, Facts
  <2>3. DOMAIN archives' \subseteq 1..made'
    BY <1>1, <1>3, <1>4, <1>5
  <2>4. taken' \in [1..made' -> Contents]
    <3>1. \A i \in 1..made' : i = made' \/ i \in 1..made
      BY <1>1, <1>3
    <3>2. \A i \in 1..made' : (IF i = made' THEN live ELSE taken[i]) \in Contents
      BY <3>1, Facts
    <3> QED
      BY <1>1, <3>2
  <2>5. doomed' \subseteq 1..made'
    BY <1>1, <1>3, Facts
  <2>6. /\ op'.phase \in Phases /\ op'.phase # "idle" /\ op'.entries \subseteq Artifacts
        /\ op'.todo \subseteq (1..N) \cup (1..made') /\ op'.sound \in BOOLEAN
        /\ op'.before \in Contents /\ op'.staging \in Contents /\ op'.backup \in Contents
        /\ op'.id \in 0..made'
    <3>1. Present(live) \in SUBSET (1..N)
      BY Facts, PresentIs DEF Artifacts
    <3>2. op'.id \in 0..made'
      BY <1>3, <1>6
    <3> QED
      BY <1>6, <3>1, <3>2 DEF Plan
  <2>7. /\ live' \in Contents /\ version' \in 0..MaxVersion /\ clock' \in 0..MaxClock
        /\ faults' \in 0..MaxFaults
    BY <1>1, <2>1 DEF TypeOK
  <2>8. TypeOK'
    BY <1>3, <2>2, <2>3, <2>4, <2>5, <2>6, <2>7 DEF TypeOK
  <2> QED
    BY <1>6, <2>8 DEF Typed
<1>8. Sealed'
  <2>1. /\ \A i \in DOMAIN archives : archives[i].at <= clock
        /\ \A i, j \in DOMAIN archives : j < i /\ Written(i) /\ Written(j) =>
             archives[j].at <= archives[i].at
        /\ \A i \in DOMAIN archives \ doomed : Written(i) =>
             archives[i].files = taken[i] /\ archives[i].entries = Present(taken[i])
    BY DEF ArchInv, Sealed
  <2>2. \A i \in DOMAIN archives' : archives'[i].at <= clock'
    <3>1. clock \in Nat
      BY Facts
    <3> QED
      BY <1>1, <1>2, <1>5, <2>1, <3>1
  <2>3. ASSUME NEW i \in DOMAIN archives', archives'[i].manifest = "written"
        PROVE  i \in DOMAIN archives /\ Written(i)
    BY <1>2, <1>5, <2>3 DEF Written
  <2>4. \A i, j \in DOMAIN archives' :
          j < i /\ archives'[i].manifest = "written" /\ archives'[j].manifest = "written" =>
            archives'[j].at <= archives'[i].at
    BY <1>5, <2>1, <2>3
  <2>5. \A i \in DOMAIN archives : taken'[i] = taken[i]
    BY <1>1, <1>3, <1>4
  <2>6. \A i \in DOMAIN archives' \ doomed' : archives'[i].manifest = "written" =>
          archives'[i].files = taken'[i] /\ archives'[i].entries = Present(taken'[i])
    BY <1>1, <1>5, <2>1, <2>3, <2>5
  <2> QED
    BY <1>6, <2>2, <2>4, <2>6 DEF Sealed, Written
<1>9. Resetting'
  <2>1. op'.id \in DOMAIN archives' \ doomed'
    <3>1. made' \notin doomed
      BY <1>1, <1>3, Facts
    <3> QED
      BY <1>1, <1>5, <1>6, <3>1
  <2>2. op'.before = taken'[op'.id] /\ op'.entries = Present(op'.before)
    <3>1. made' \in 1..made'
      BY <1>3
    <3> QED
      BY <1>1, <1>6, <3>1
  <2>3. op'.id = made' /\ live' = op'.before /\ ~(archives'[op'.id].manifest = "written")
    BY <1>1, <1>2, <1>5, <1>6
  <2>4. \A a \in Artifacts : a \notin op'.todo => archives'[op'.id].files[a] = op'.before[a]
    <3>1. \A a \in Artifacts : a \notin Present(live) => live[a] = 0
      BY Facts, PresentIs
    <3>2. \A a \in Artifacts : blank.files[a] = 0
      BY DEF blank, Nothing
    <3> QED
      BY <1>5, <1>6, <3>1, <3>2
  <2> QED
    BY <1>6, <2>1, <2>2, <2>3, <2>4 DEF Resetting, Written, Present
<1>10. Installing' /\ Undoable'
  BY <1>6 DEF Installing, Undoable
<1> QED
  BY <1>7, <1>8, <1>9, <1>10 DEF ArchInv

LEMMA ResetPlainKeeps ==
  ASSUME ArchInv, ResetPlain
  PROVE  ArchInv'
<1>1. /\ Begin("wipe", Present(live), 0)
      /\ UNCHANGED <<live, archives, version, made, clock, taken, doomed, faults>>
  BY DEF ResetPlain
<1>2. /\ op' \in Plan /\ op'.phase = "wipe" /\ op'.todo = Present(live)
      /\ op'.entries = Present(live) /\ op'.id = 0
  <2>1. Present(live) \in SUBSET Artifacts /\ "wipe" \in Phases /\ 0 \in Nat
    BY Facts, PresentIs DEF Phases
  <2> QED
    BY <1>1, <2>1, Begun
<1>3. Typed'
  <2>1. op'.id \in 0..made
    BY <1>2, Facts
  <2>2. faults' \in 0..MaxFaults
    BY <1>1 DEF ArchInv, Typed, TypeOK
  <2>3. live' \in Contents /\ \A i \in DOMAIN archives : archives'[i] \in Archive
    BY <1>1, Facts
  <2> QED
    BY <1>1, <1>2, <2>1, <2>2, <2>3, Within
<1>4. Sealed'
  BY <1>1, <1>2, StaySealed DEF Written
<1>5. Resetting' /\ Installing' /\ Undoable'
  BY <1>2 DEF Resetting, Installing, Undoable
<1> QED
  BY <1>3, <1>4, <1>5 DEF ArchInv

LEMMA RestoreKeeps ==
  ASSUME ArchInv, NEW i \in DOMAIN archives, Restore(i)
  PROVE  ArchInv'
<1>1. /\ Begin("stage", EntriesOf(archives[i]), i)
      /\ UNCHANGED <<live, archives, version, made, clock, taken, doomed, faults>>
  BY DEF Restore
<1>2. /\ op' \in Plan /\ op'.phase = "stage" /\ op'.todo = op'.entries
      /\ op'.id = i /\ op'.before = live /\ op'.sound = TRUE
  <2>1. EntriesOf(archives[i]) \in SUBSET Artifacts
    <3>1. archives[i] \in Archive
      BY Facts
    <3>2. archives[i].entries \in SUBSET Artifacts /\ archives[i].files \in Contents
      BY <3>1 DEF Archive
    <3> QED
      BY <3>2, PresentIs DEF EntriesOf
  <2>2. "stage" \in Phases /\ i \in Nat
    BY Facts DEF Phases
  <2> QED
    BY <1>1, <2>1, <2>2, Begun
<1>3. Typed'
  <2>1. op'.id \in 0..made
    BY <1>2, Facts
  <2>2. faults' \in 0..MaxFaults
    BY <1>1 DEF ArchInv, Typed, TypeOK
  <2>3. live' \in Contents /\ \A j \in DOMAIN archives : archives'[j] \in Archive
    BY <1>1, Facts
  <2> QED
    BY <1>1, <1>2, <2>1, <2>2, <2>3, Within
<1>4. Sealed'
  BY <1>1, <1>2, StaySealed DEF Written
<1>5. Resetting'
  BY <1>2 DEF Resetting
<1>6. Installing' /\ Undoable'
  BY <1>1, <1>2 DEF Installing, Undoable
<1> QED
  BY <1>3, <1>4, <1>5, <1>6 DEF ArchInv

LEMMA PruneKeeps ==
  ASSUME ArchInv, NEW rules, NEW keep, NEW age, Prune(rules, keep, age)
  PROVE  ArchInv'
<1> DEFINE gone == Prunable(rules, keep, age)
<1>1. /\ op' = [Idle EXCEPT !.phase = "prune", !.todo = gone, !.before = live]
      /\ doomed' = doomed \cup gone
      /\ UNCHANGED <<live, archives, version, made, clock, taken, faults>>
  BY DEF Prune
<1>2. gone \in SUBSET (1..made) /\ gone \in SUBSET Nat
  BY Facts DEF Prunable
<1> HIDE DEF gone
<1>3. /\ op' \in Plan /\ op'.phase = "prune" /\ op'.todo = gone /\ op'.entries = {}
      /\ op'.id = 0
  <2>1. Idle \in Plan /\ live \in Contents /\ Idle.entries = {} /\ Idle.id = 0
    BY IdleFields, Facts
  <2>2. "prune" \in Phases
    BY DEF Phases
  <2> QED
    BY <1>1, <1>2, <2>1, <2>2 DEF Plan
<1>4. Typed'
  <2>1. TypeOK
    BY DEF ArchInv, Typed
  <2>2. /\ op'.sound \in BOOLEAN /\ op'.phase \in Phases
        /\ op'.before \in Contents /\ op'.staging \in Contents /\ op'.backup \in Contents
    BY <1>3 DEF Plan
  <2>3. op'.id \in 0..made'
    BY <1>1, <1>3, Facts
  <2>4. doomed' \subseteq 1..made' /\ op'.todo \subseteq (1..N) \cup (1..made')
    BY <1>1, <1>2, <1>3, Facts
  <2>5. TypeOK'
    BY <1>1, <1>3, <2>1, <2>2, <2>3, <2>4 DEF TypeOK
  <2> QED
    BY <1>3, <2>5 DEF Typed
<1>5. Sealed'
  BY <1>1, <1>3, StaySealed DEF Written
<1>6. Resetting' /\ Installing' /\ Undoable'
  BY <1>3 DEF Resetting, Installing, Undoable
<1> QED
  BY <1>4, <1>5, <1>6 DEF ArchInv

LEMMA PruneOneKeeps ==
  ASSUME ArchInv, NEW i \in DOMAIN archives, PruneOne(i)
  PROVE  ArchInv'
<1>1. /\ op.phase = "prune" /\ archives' = [j \in DOMAIN archives \ {i} |-> archives[j]]
      /\ op' = [op EXCEPT !.todo = @ \ {i}]
      /\ UNCHANGED <<live, version, made, clock, taken, doomed, faults>>
  BY DEF PruneOne
<1>2. /\ op' \in Plan /\ op'.phase = "prune" /\ op'.todo = op.todo \ {i}
      /\ op'.entries = op.entries /\ op'.id = op.id /\ op'.before = op.before
      /\ op'.staging = op.staging /\ op'.backup = op.backup /\ op'.sound = op.sound
  <2>1. op \in Plan
    BY Facts
  <2> QED
    BY <1>1, <2>1 DEF Plan
<1>3. DOMAIN archives' = DOMAIN archives \ {i}
      /\ \A j \in DOMAIN archives' : archives'[j] = archives[j]
  BY <1>1
<1>4. Typed'
  <2>1. TypeOK
    BY DEF ArchInv, Typed
  <2>2. TypeOK'
    BY <1>1, <1>2, <1>3, <2>1 DEF TypeOK
  <2> QED
    BY <1>2, <2>2 DEF Typed
<1>5. Sealed'
  <2>1. op'.todo \subseteq doomed'
    BY <1>1, <1>2 DEF ArchInv, Sealed
  <2> QED
    BY <1>1, <1>3, <2>1, StaySealed DEF Written
<1>6. Resetting' /\ Installing' /\ Undoable'
  BY <1>2 DEF Resetting, Installing, Undoable
<1> QED
  BY <1>4, <1>5, <1>6 DEF ArchInv

LEMMA PruneFaultKeeps ==
  ASSUME ArchInv, NEW i \in DOMAIN archives, PruneFault(i)
  PROVE  ArchInv'
<1>1. /\ op.phase = "prune" /\ i \in op.todo /\ faults < MaxFaults /\ faults' = faults + 1
      /\ op' = Idle /\ UNCHANGED <<live, version, made, clock, taken, doomed>>
  BY DEF PruneFault
<1>2. PICK gone \in SUBSET Artifacts, torn \in SUBSET Directories, m \in BOOLEAN :
        archives' = [archives EXCEPT
          ![i].files = [a \in Artifacts |-> IF a \in gone \/ @[a] = 0 THEN 0
                                            ELSE IF a \in torn THEN Torn ELSE @[a]],
          ![i].manifest = IF m THEN "missing" ELSE @]
  BY DEF PruneFault
<1> DEFINE left == [a \in Artifacts |-> IF a \in gone \/ archives[i].files[a] = 0 THEN 0
                                        ELSE IF a \in torn THEN Torn ELSE archives[i].files[a]]
           says == IF m THEN "missing" ELSE archives[i].manifest
<1>3. archives[i] \in Archive
  BY Facts
<1>4. left \in Contents /\ says \in Manifests
  <2>1. archives[i].files \in Contents /\ archives[i].manifest \in Manifests
    BY <1>3 DEF Archive
  <2>2. 0 \in 0..Torn /\ Torn \in 0..Torn
    BY BoundAssumption DEF Torn
  <2> QED
    BY <2>1, <2>2 DEF Contents, Manifests
<1>5. says = "written" => Written(i)
  BY DEF Written
<1>6. archives' = [archives EXCEPT ![i] = [archives[i] EXCEPT !.files = left, !.manifest = says]]
  BY <1>2, <1>3 DEF Archive
<1> HIDE DEF left, says
<1>7. /\ DOMAIN archives' = DOMAIN archives
      /\ \A j \in DOMAIN archives \ {i} : archives'[j] = archives[j]
      /\ archives'[i] = [archives[i] EXCEPT !.files = left, !.manifest = says]
  BY <1>6
<1>8. /\ archives'[i] \in Archive /\ archives'[i].at = archives[i].at
      /\ archives'[i].manifest = says
  BY <1>3, <1>4, <1>7 DEF Archive
<1>9. i \in doomed
  BY <1>1 DEF ArchInv, Sealed
<1>10. \A j \in DOMAIN archives :
         /\ archives'[j] \in Archive /\ archives'[j].at = archives[j].at
         /\ archives'[j].manifest = "written" =>
              Written(j) /\ (j \in doomed \/ archives'[j] = archives[j])
  BY <1>5, <1>7, <1>8, <1>9, Facts DEF Written
<1>11. faults' \in 0..MaxFaults /\ live' \in Contents
  <2>1. faults \in 0..MaxFaults
    BY DEF ArchInv, Typed, TypeOK
  <2> QED
    BY <1>1, <2>1, Facts, BoundAssumption
<1> QED
  BY <1>1, <1>7, <1>10, <1>11, GivenUp

LEMMA WorkKeeps ==
  ASSUME ArchInv, Work \/ Tick
  PROVE  ArchInv'
<1>1. CASE Work
  <2>1. PICK changed \in SUBSET Artifacts :
          live' = [a \in Artifacts |-> IF a \in changed THEN version' ELSE live[a]]
    BY <1>1 DEF Work
  <2>2. /\ op.phase = "idle" /\ version < MaxVersion /\ version' = version + 1
        /\ UNCHANGED <<archives, op, made, clock, taken, doomed, faults>>
    BY <1>1 DEF Work
  <2>3. version' \in 0..MaxVersion /\ version' \in 0..Torn
    <3>1. version \in 0..MaxVersion
      BY DEF ArchInv, Typed, TypeOK
    <3> QED
      BY <2>2, <3>1, BoundAssumption DEF Torn
  <2>4. live' \in Contents
    BY <2>1, <2>3, Facts DEF Contents
  <2>5. Typed'
    BY <2>2, <2>3, <2>4 DEF ArchInv, Typed, TypeOK
  <2>6. Sealed'
    BY <2>2, StaySealed DEF Written
  <2>7. Resetting' /\ Installing' /\ Undoable'
    BY <2>2 DEF Resetting, Installing, Undoable
  <2> QED
    BY <2>5, <2>6, <2>7 DEF ArchInv
<1>2. CASE Tick
  <2>1. /\ clock < MaxClock /\ clock' = clock + 1
        /\ UNCHANGED <<live, archives, op, version, made, taken, doomed, faults>>
    BY <1>2 DEF Tick
  <2>2. clock' \in 0..MaxClock /\ clock \in Nat
    BY <2>1, BoundAssumption DEF ArchInv, Typed, TypeOK
  <2>3. Typed'
    BY <2>1, <2>2 DEF ArchInv, Typed, TypeOK
  <2>4. Sealed'
    <3>1. \A i \in DOMAIN archives : archives[i].at \in Nat /\ archives[i].at <= clock
      <4>1. \A i \in DOMAIN archives : archives[i].at \in 0..MaxClock
        BY Facts DEF Archive
      <4> QED
        BY <4>1, BoundAssumption DEF ArchInv, Sealed
    <3>2. \A i \in DOMAIN archives : archives[i].at <= clock'
      BY <2>1, <2>2, <3>1
    <3> QED
      BY <2>1, <3>2 DEF ArchInv, Sealed, Written, Present
  <2>5. Resetting'
    BY <2>1 DEF ArchInv, Resetting, Written, Present
  <2>6. Installing' /\ Undoable'
    BY <2>1 DEF ArchInv, Installing, Undoable
  <2> QED
    BY <2>3, <2>4, <2>5, <2>6 DEF ArchInv
<1> QED
  BY <1>1, <1>2

LEMMA ArchInvStep == ArchInv /\ [Next]_vars => ArchInv'
<1> SUFFICES ASSUME ArchInv, [Next]_vars PROVE ArchInv'
  OBVIOUS
<1>1. CASE Work \/ Tick
  BY <1>1, WorkKeeps
<1>2. CASE ResetArchived
  BY <1>2, ResetArchivedKeeps
<1>3. CASE ResetPlain
  BY <1>3, ResetPlainKeeps
<1>4. CASE \E i \in DOMAIN archives : Restore(i)
  BY <1>4, RestoreKeeps
<1>5. CASE \E i \in DOMAIN archives : PruneOne(i)
  BY <1>5, PruneOneKeeps
<1>6. CASE \E i \in DOMAIN archives : PruneFault(i)
  BY <1>6, PruneFaultKeeps
<1>7. CASE \E rules \in SUBSET {"count", "age"} \ {{}}, keep \in 0..1, age \in 0..1 :
             Prune(rules, keep, age)
  BY <1>7, PruneKeeps
<1>8. CASE \E a \in Artifacts : Step(a)
  BY <1>8, StepKeeps
<1>9. CASE Seal
  BY <1>9, SealKeeps
<1>10. CASE Proceed
  BY <1>10, ProceedKeeps
<1>11. CASE Raise \/ Crash
  BY <1>11, FaultKeeps
<1>12. CASE SealFault
  BY <1>12, SealFaultKeeps
<1>13. CASE UNCHANGED vars
  <2>1. UNCHANGED <<live, archives, op, version, made, clock, taken, doomed, faults>>
    BY <1>13 DEF vars
  <2>2. Typed'
    BY <2>1 DEF ArchInv, Typed, TypeOK
  <2>3. Sealed' /\ Resetting'
    BY <2>1 DEF ArchInv, Sealed, Resetting, Written, Present
  <2>4. Installing' /\ Undoable'
    BY <2>1 DEF ArchInv, Installing, Undoable
  <2> QED
    BY <2>2, <2>3, <2>4 DEF ArchInv
<1> QED
  BY <1>1, <1>2, <1>3, <1>4, <1>5, <1>6, <1>7, <1>8, <1>9, <1>10, <1>11, <1>12, <1>13 DEF Next

-----------------------------------------------------------------------------
(* The theorems. *)

\* The invariant from which the promises follow.
THEOREM ArchivesInvariant == Spec => []ArchInv
BY ArchInvInit, ArchInvStep, PTL DEF Spec

\* The campaign, the archives and what a command has staged and backed up keep
\* their shape, whatever fails where.
THEOREM TypeCorrect == Spec => []TypeOK
<1>1. ArchInv => TypeOK
  BY DEF ArchInv, Typed
<1> QED
  BY <1>1, ArchivesInvariant, PTL

\* While a reset or a restore runs, each artifact it found is whole somewhere,
\* and an archive listed as ok is the whole campaign that was reset.
THEOREM CopiesStayWhole == Spec => []CopiesAreWhole
<1>1. ArchInv => NothingLost
  <2> SUFFICES ASSUME ArchInv PROVE NothingLost
    OBVIOUS
  <2>1. ASSUME op.phase \in {"archive", "seal", "wipe"}, op.id # 0
        PROVE  \A a \in Artifacts : op.before[a] \in {live[a], archives[op.id].files[a]}
    <3>1. /\ op.phase # "wipe" => live = op.before
          /\ op.phase = "wipe" =>
               \A a \in Artifacts : archives[op.id].files[a] = op.before[a]
      BY <2>1 DEF ArchInv, Resetting
    <3> QED
      BY <3>1
  <2>2. ASSUME op.phase = "wipe", op.id # 0
        PROVE  Integrity(archives[op.id]) = "ok"
    <3>1. /\ op.id \in DOMAIN archives \ doomed /\ Written(op.id)
      BY <2>2 DEF ArchInv, Resetting
    <3>2. archives[op.id].files = taken[op.id] /\ archives[op.id].entries = Present(taken[op.id])
      BY <3>1 DEF ArchInv, Sealed
    <3>3. archives[op.id].entries \subseteq Present(archives[op.id].files)
      BY <3>2
    <3> QED
      BY <3>1, <3>3 DEF Integrity, Written
  <2>3. ASSUME op.phase \in {"stage", "backup", "clear", "apply", "undo", "putback"}, op.sound
        PROVE  \A a \in Artifacts : op.before[a] \in {live[a], op.backup[a]}
    <3>1. /\ \A a \in Artifacts \ op.entries : live[a] = op.before[a]
          /\ \A a \in op.entries : op.phase \notin {"stage", "backup"} =>
               op.backup[a] = op.before[a]
      BY <2>3 DEF ArchInv, Undoable
    <3>2. op.phase \in {"stage", "backup"} => live = op.before
      BY <2>3 DEF ArchInv, Installing
    <3> QED
      BY <3>1, <3>2
  <2> QED
    BY <2>1, <2>2, <2>3 DEF NothingLost
<1>2. ArchInv => OkIsWhole
  <2> SUFFICES ASSUME ArchInv, NEW i \in DOMAIN archives \ doomed, Integrity(archives[i]) = "ok"
               PROVE  archives[i].files = taken[i]
    BY DEF OkIsWhole
  <2>1. archives[i].manifest \in Manifests
    BY Facts DEF Archive
  <2>2. Written(i)
    BY <2>1 DEF Integrity, Written, Manifests
  <2> QED
    BY <2>2 DEF ArchInv, Sealed
<1> QED
  BY <1>1, <1>2, ArchivesInvariant, PTL DEF CopiesAreWhole

\* A restore that comes to its end has installed the archive and nothing else,
\* and one that fails late has put back what it found.
THEOREM RestoresAreWhole == Spec => []RestoreIsWhole
<1>1. ArchInv => RestoreInstalls
  <2> SUFFICES ASSUME ArchInv, op.phase = "apply", op.todo = {}, NEW a \in Artifacts
               PROVE  live[a] = IF a \in op.entries THEN archives[op.id].files[a]
                                ELSE op.before[a]
    BY DEF RestoreInstalls
  <2>1. /\ op.sound
        /\ a \in op.entries => op.staging[a] = archives[op.id].files[a] /\ live[a] = op.staging[a]
    BY DEF ArchInv, Installing
  <2>2. a \notin op.entries => live[a] = op.before[a]
    BY <2>1 DEF ArchInv, Undoable
  <2> QED
    BY <2>1, <2>2
<1>2. ArchInv => LateFailureRollsBack
  <2> SUFFICES ASSUME ArchInv, op.sound, op.phase = "putback", op.todo = {}
               PROVE  live = op.before
    BY DEF LateFailureRollsBack, RolledBack
  <2>1. \A a \in Artifacts : live[a] = op.before[a]
    BY DEF ArchInv, Undoable
  <2>2. live \in Contents /\ op.before \in Contents
    BY Facts
  <2>3. \A c, d \in Contents : (\A a \in Artifacts : c[a] = d[a]) => c = d
    BY DEF Contents
  <2> QED
    BY <2>1, <2>2, <2>3
<1> QED
  BY <1>1, <1>2, ArchivesInvariant, PTL DEF RestoreIsWhole

\* Archives are sealed in the order of their numbers, so an archive is newer
\* than whatever a younger one is newer than.
LEMMA RanksFollowAge ==
  ASSUME ArchInv, NEW i \in DOMAIN archives, NEW j \in DOMAIN archives,
         Written(i), Written(j), j < i
  PROVE  /\ Rank(i) \in Nat /\ Rank(j) \in Nat /\ Rank(i) <= Rank(j)
         /\ archives[j].at <= archives[i].at
<1> DEFINE above(k) == {n \in DOMAIN archives : Newer(archives[n], archives[k], n, k)}
<1>1. archives[j].at <= archives[i].at
  BY DEF ArchInv, Sealed
<1>2. \A n \in DOMAIN archives : n \in Nat /\ archives[n].at \in Nat
  <2>1. \A n \in DOMAIN archives : n \in 1..made /\ archives[n].at \in 0..MaxClock
    BY Facts DEF Archive
  <2> QED
    BY <2>1, Facts, BoundAssumption
<1>3. above(i) \subseteq above(j)
  <2> SUFFICES ASSUME NEW n \in DOMAIN archives, Newer(archives[n], archives[i], n, i)
               PROVE  Newer(archives[n], archives[j], n, j)
    OBVIOUS
  <2>1. archives[n].manifest = "written"
        /\ (archives[n].at > archives[i].at \/ (archives[n].at = archives[i].at /\ n > i))
    BY DEF Newer, Written
  <2>2. archives[n].at > archives[j].at \/ (archives[n].at = archives[j].at /\ n > j)
    BY <1>1, <1>2, <2>1
  <2> QED
    BY <2>1, <2>2 DEF Newer, Written
<1>4. IsFiniteSet(above(j))
  <2>1. IsFiniteSet(1..made)
    BY Facts, FS_Interval
  <2>2. above(j) \subseteq 1..made
    BY Facts
  <2> QED
    BY <2>1, <2>2, FS_Subset
<1>5. Rank(i) = Cardinality(above(i)) /\ Rank(j) = Cardinality(above(j))
  BY DEF Rank
<1> HIDE DEF above
<1>6. /\ IsFiniteSet(above(i)) /\ Cardinality(above(i)) <= Cardinality(above(j))
  BY <1>3, <1>4, FS_Subset
<1>7. Cardinality(above(i)) \in Nat /\ Cardinality(above(j)) \in Nat
  BY <1>4, <1>6, FS_CardinalityType
<1> QED
  BY <1>1, <1>5, <1>6, <1>7

\* No prune takes an archive and leaves an older one of known age.
THEOREM PruneKeepsOrder == Spec => PruneTakesOldest
<1>1. ArchInv /\ [Next]_vars =>
        [op.phase = "idle" /\ op'.phase = "prune" =>
           \A i \in op'.todo, j \in DOMAIN archives :
             /\ archives[i].manifest = "written" /\ archives[j].manifest = "written"
             /\ j < i
             => j \in op'.todo]_vars
  <2> SUFFICES ASSUME ArchInv, [Next]_vars, op.phase = "idle", op'.phase = "prune",
                      NEW i \in op'.todo, NEW j \in DOMAIN archives,
                      Written(i), Written(j), j < i
               PROVE  j \in op'.todo
    BY DEF Written
  <2>1. PICK rules \in SUBSET {"count", "age"}, keep \in 0..1, age \in 0..1 :
          Prune(rules, keep, age)
    <3>1. CASE Work \/ Tick
      BY <3>1 DEF Work, Tick
    <3>2. CASE ResetArchived
      <4>1. Begin("archive", Present(live), made')
        BY <3>2 DEF ResetArchived
      <4> QED
        BY <4>1 DEF Begin, Idle
    <3>3. CASE ResetPlain
      BY <3>3 DEF ResetPlain, Begin, Idle
    <3>4. CASE \E k \in DOMAIN archives : Restore(k)
      BY <3>4 DEF Restore, Begin, Idle
    <3>5. CASE \E k \in DOMAIN archives : PruneOne(k) \/ PruneFault(k)
      BY <3>5 DEF PruneOne, PruneFault
    <3>6. CASE \E a \in Artifacts : Step(a)
      BY <3>6 DEF Step
    <3>7. CASE Seal \/ Proceed \/ SealFault
      BY <3>7 DEF Seal, Proceed, SealFault, After
    <3>8. CASE Raise \/ Crash
      BY <3>8, Breaks DEF Works
    <3>9. CASE UNCHANGED vars
      BY <3>9 DEF vars
    <3> QED
      BY <3>1, <3>2, <3>3, <3>4, <3>5, <3>6, <3>7, <3>8, <3>9 DEF Next
  <2>2. op'.todo = Prunable(rules, keep, age)
    <3>1. op' = [Idle EXCEPT !.phase = "prune", !.todo = Prunable(rules, keep, age),
                             !.before = live]
      BY <2>1 DEF Prune
    <3>2. Prunable(rules, keep, age) \in SUBSET Nat
      BY Facts DEF Prunable
    <3> HIDE DEF Prunable
    <3> QED
      BY <3>1, <3>2 DEF Idle
  <2>3. i \in DOMAIN archives
    BY <2>2 DEF Prunable
  <2>4. /\ Rank(i) \in Nat /\ Rank(j) \in Nat /\ Rank(i) <= Rank(j)
        /\ archives[j].at <= archives[i].at
    BY <2>3, RanksFollowAge
  <2>5. "count" \in rules => Rank(j) >= keep
    <3>1. "count" \in rules => Rank(i) >= keep
      BY <2>2 DEF Prunable
    <3> QED
      BY <2>4, <3>1
  <2>6. "age" \in rules => clock - archives[j].at >= age
    <3>1. "age" \in rules => clock - archives[i].at >= age
      BY <2>2 DEF Prunable
    <3>2. archives[i].at \in 0..MaxClock /\ archives[j].at \in 0..MaxClock
      BY <2>3, Facts DEF Archive
    <3>3. archives[i].at \in Nat /\ archives[j].at \in Nat /\ clock \in Nat
      BY <3>2, Facts, BoundAssumption
    <3> QED
      BY <2>4, <3>1, <3>3
  <2> QED
    BY <2>2, <2>5, <2>6 DEF Prunable, Written
<1> QED
  BY <1>1, ArchivesInvariant, PTL DEF Spec, PruneTakesOldest
=============================================================================
