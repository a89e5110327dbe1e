---------------------------- MODULE TrialLedger ----------------------------
(***************************************************************************)
(* What a campaign promises about its trials, without files, locks or      *)
(* crashes (docs/operational-semantics.md, "Core Files and Authority" and  *)
(* "Pending Trial Semantics"): ids are dealt out consecutively and never   *)
(* twice, an open trial is resolved once, its outcome is final, and only a *)
(* reset forgets anything.  Controller implements it by bo_state.json.     *)
(***************************************************************************)
EXTENDS Naturals

VARIABLES
  next,    \* the next trial id
  open,    \* trials waiting for an outcome: [id, params, serial]
  closed   \* trials with their outcome: [id, params, serial, status, loss]

ledger == <<next, open, closed>>

IdsOf(rows) == {r.id : r \in rows}
Distinct(rows) == \A r, q \in rows : r.id = q.id => r = q
TrialOf(c) == [id |-> c.id, params |-> c.params, serial |-> c.serial]

Init == next = 1 /\ open = {} /\ closed = {}

Gone == open \ open'
Fresh == open' \ open
Settled == closed' \ closed

\* Exactly the trials that leave `open` receive an outcome, one each, and no
\* outcome already recorded is touched.
Resolves ==
  /\ closed \subseteq closed'
  /\ {TrialOf(c) : c \in Settled} = Gone
  /\ Distinct(Settled)

\* The rows take the next ids, in one consecutive run.
TakesNextIds(rows) ==
  /\ rows # {}
  /\ next' >= next
  /\ IdsOf(rows) = next..next' - 1
  /\ Distinct(rows)

\* ingest, cancel, retire: outcomes for open trials.
Settle ==
  /\ Settled # {}
  /\ Resolves
  /\ Fresh = {}
  /\ next' = next

\* suggest: stale trials are settled and a batch of new ones opened at once.
Allocate ==
  /\ Resolves
  /\ \A c \in Settled : c.status = "stale"
  /\ TakesNextIds(Fresh)

\* import-observations: finished trials enter a ledger with nothing open.
Record ==
  /\ open = {} /\ open' = {}
  /\ closed \subseteq closed'
  /\ TakesNextIds(Settled)

\* reset
Clear == next' = 1 /\ open' = {} /\ closed' = {}

Next == Settle \/ Allocate \/ Record \/ Clear

Spec == Init /\ [][Next]_ledger
=============================================================================
