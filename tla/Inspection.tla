----------------------------- MODULE Inspection -----------------------------
(***************************************************************************)
(* Looking at a campaign without its lock: validate, health, metrics       *)
(* (run_bo.py, governance.py) and the read models of the service           *)
(* (_runtime_worker.py).  Each reads several files, one after another,     *)
(* while a command may be writing them or after one died half way.         *)
(*                                                                         *)
(* The commands are those of module Controller, one trial at a time, in    *)
(* finer steps where a reader can tell: a trial's directory is there       *)
(* before its manifest, and a log line before its end.  The event log is   *)
(* read the way the acquisition log is; one stands for both.               *)
(***************************************************************************)
EXTENDS Naturals, SequencesExt

CONSTANTS
  Allowed,       \* governance.allowed_statuses
  MaxDeals, MaxDeaths, MaxWipes, MaxMade   \* bounds

ASSUME LookAssumption == {MaxDeals, MaxDeaths, MaxWipes, MaxMade} \subseteq Nat

VARIABLES
  ledger,     \* bo_state.json: rows [id, serial, status], next id, best id
  folders,    \* state/trials: what trial_<id> is, for every id
  trace,      \* acquisition_log.jsonl: lines [id, serial, form]
  reports,    \* report.json and report.md: the outcomes each one lists
  writes,     \* what the running command has left to write
  look,       \* the reader
  dealt,      \* trials proposed so far: what tells two with one id apart
  discarded,  \* history: proposals that are in no state file, and never will be
  died, wipes, made   \* commands that died, resets, reports

campaignVars == <<ledger, folders, trace, reports, writes, dealt, discarded, died, wipes, made>>
inspectionVars == <<campaignVars, look>>

TrialIds == 1..MaxDeals
Ended == {"ok", "failed"}
RowsOf(state, statuses) == {r \in state.rows : r.status \in statuses}
IdsOf(rows) == {r.id : r \in rows}
SerialsOf(rows) == {r.serial : r \in rows}
RowFor(state, id) == {r \in state.rows : r.id = id}

\* update_best on equal objectives: the first ok trial.
BestId(rows) == LET ok == {r \in rows : r.status = "ok"} IN
  {r.id : r \in {o \in ok : \A p \in ok : o.id <= p.id}}

NewLedger == [rows |-> {}, next |-> 1, best |-> {}]
Nothing == [serial |-> 0, status |-> "nothing"]
Bare == [serial |-> 0, status |-> "bare"]       \* a directory without manifest
NoReport == [exists |-> FALSE, lists |-> {}]

\* The reader: what it is asked, what it has left to read and what it saw.
NoLook == [op |-> "none", id |-> 0, left |-> <<>>, state |-> NewLedger, views |-> {},
           decision |-> {}, report |-> {}, alarms |-> {}, warnings |-> {}, done |-> FALSE,
           torn |-> FALSE, bare |-> {}, quiet |-> TRUE, wiped |-> FALSE]

InspectionInit ==
  /\ ledger = NewLedger
  /\ folders = [id \in TrialIds |-> Nothing]
  /\ trace = <<>>
  /\ reports = [json |-> NoReport, md |-> NoReport]
  /\ writes = <<>> /\ look = NoLook
  /\ dealt = 0 /\ discarded = {} /\ died = 0 /\ wipes = 0 /\ made = 0

-----------------------------------------------------------------------------
(* The commands.  Each plans its writes; the lock admits one at a time.     *)

Calm == writes = <<>> /\ ~look.done

To(file, row) == [to |-> file, row |-> row]
For(row, files) == [i \in DOMAIN files |-> To(files[i], row)]

\* save_trial_manifest makes the directory; the state comes last.
SettleWrites == <<"folder", "manifest", "ledger">>

Allocate ==
  /\ Calm /\ dealt < MaxDeals /\ dealt' = dealt + 1
  /\ writes' = For([id |-> ledger.next, serial |-> dealt', status |-> "pending"],
                   <<"folder", "manifest", "line", "end", "ledger">>)
  /\ UNCHANGED <<ledger, folders, trace, reports, discarded, died, wipes, made, look>>

\* No feasible candidate: the attempt is logged under the id it did not get.
LogInfeasible ==
  /\ Calm /\ dealt < MaxDeals /\ dealt' = dealt + 1
  /\ discarded' = discarded \cup {dealt'}
  /\ writes' = For([id |-> ledger.next, serial |-> dealt', status |-> "pending"],
                   <<"line", "end">>)
  /\ UNCHANGED <<ledger, folders, trace, reports, died, wipes, made, look>>

Settle(row, status) ==
  /\ Calm
  /\ writes' = For([row EXCEPT !.status = status], SettleWrites)
  /\ UNCHANGED <<ledger, folders, trace, reports, dealt, discarded, died, wipes, made, look>>

MakeReport ==
  /\ Calm /\ made < MaxMade /\ made' = made + 1
  /\ writes' = For([id |-> 0, serial |-> 0, status |-> "ok"], <<"json", "md">>)
  /\ UNCHANGED <<ledger, folders, trace, reports, dealt, discarded, died, wipes, look>>

\* The order in which reset removes what is modelled here.
Removal == <<"no_ledger", "no_trace", "no_json", "no_md", "no_folders">>
Removals == ToSet(Removal)

ResetCampaign ==
  /\ Calm /\ wipes < MaxWipes /\ wipes' = wipes + 1
  /\ writes' = For([id |-> 0, serial |-> 0, status |-> "ok"], Removal)
  /\ UNCHANGED <<ledger, folders, trace, reports, dealt, discarded, died, made, look>>

-----------------------------------------------------------------------------
(* Their writes.                                                            *)

Saved(row) ==
  LET rows == {r \in ledger.rows : r.id # row.id} \cup {row}
  IN [rows |-> rows, next |-> IF row.id < ledger.next THEN ledger.next ELSE row.id + 1,
      best |-> BestId(rows)]

Cut(lines) == lines # <<>> /\ Last(lines).form \in {"cut", "joined"}

\* append_jsonl: what is appended to a line without its end becomes part of it.
LineBegun(row) ==
  IF Cut(trace) THEN [trace EXCEPT ![Len(trace)].form = "joined"]
  ELSE Append(trace, [id |-> row.id, serial |-> row.serial, form |-> "cut"])
LineEnded == [trace EXCEPT ![Len(trace)].form = IF @ = "cut" THEN "row" ELSE "broken"]

\* Reset removes the trials directory file by file.
Removed(id) == IF folders[id] = Bare THEN Nothing ELSE Bare
FoldersLeft == {id \in TrialIds : folders[id] # Nothing}

Shown == [exists |-> TRUE, lists |-> SerialsOf(RowsOf(ledger, Ended))]

\* The effect of a write on every file; only "no_folders" takes several steps.
Effect(file, row) ==
  /\ ledger' = CASE file = "ledger" -> Saved(row)
                 [] file = "no_ledger" -> NewLedger [] OTHER -> ledger
  /\ discarded' = IF file = "no_ledger" THEN 1..dealt ELSE discarded
  /\ CASE file = "folder" /\ folders[row.id] = Nothing ->
            folders' = [folders EXCEPT ![row.id] = Bare]
       [] file = "manifest" ->
            folders' = [folders EXCEPT ![row.id] = [serial |-> row.serial, status |-> row.status]]
       [] file = "no_folders" /\ FoldersLeft # {} ->
            \E id \in FoldersLeft : folders' = [folders EXCEPT ![id] = Removed(id)]
       [] OTHER -> UNCHANGED folders
  /\ trace' = CASE file = "line" -> LineBegun(row) [] file = "end" -> LineEnded
                [] file = "no_trace" -> <<>> [] OTHER -> trace
  /\ reports' = CASE file \in {"json", "md"} -> [reports EXCEPT ![file] = Shown]
                  [] file = "no_json" -> [reports EXCEPT !.json = NoReport]
                  [] file = "no_md" -> [reports EXCEPT !.md = NoReport]
                  [] OTHER -> reports

Noticed(file) ==
  [look EXCEPT !.quiet = @ /\ look.op = "none",
               !.wiped = @ \/ (look.op # "none" /\ file \in Removals)]

WriteFile ==
  /\ ~Calm /\ ~look.done
  /\ LET w == Head(writes) IN
       /\ Effect(w.to, w.row)
       /\ writes' = IF w.to = "no_folders" /\ FoldersLeft # {} THEN writes ELSE Tail(writes)
       /\ look' = Noticed(w.to)
  /\ UNCHANGED <<dealt, died, wipes, made>>

\* The command dies or an exception unwinds it: the rest is not written.
CommandDies ==
  /\ ~Calm /\ ~look.done /\ died < MaxDeaths /\ died' = died + 1
  /\ discarded' = discarded \cup
       {w.row.serial : w \in {x \in ToSet(writes) : x.to = "ledger" /\ x.row.status = "pending"}}
  /\ writes' = <<>>
  /\ UNCHANGED <<ledger, folders, trace, reports, dealt, wipes, made, look>>

-----------------------------------------------------------------------------
(* What a reader does with each file it opens.                              *)

Read(file) == [file |-> file, ids |-> {}]
ReadFolders(ids) == [file |-> "folder", ids |-> ids]

\* metrics answers what health answers, and reads the log once more.
Checks == {"validate", "metrics"}
\* The files each of them opens, in the order of the code.
ValidateReads == <<Read("state"), Read("trace"), Read("folders"), Read("presence")>>
HealthReads ==
  <<Read("state"), Read("trace"), Read("presence"), Read("folders"), Read("statuses")>>
MetricsReads == Append(HealthReads, Read("latency"))
TrialsReads == <<Read("state"), Read("folders")>>
\* Mutation: a trial's log is read before the state.
TrialReads_LogFirst(id) == <<Read("trace"), Read("state"), ReadFolders({id})>>
TrialReads(id) == <<Read("state"), ReadFolders({id}), Read("trace")>>
ReportReads == <<Read("report")>>
AlertReads == <<Read("state"), Read("available")>>

Whole(lines) == \A i \in DOMAIN lines : lines[i].form = "row"

Ask(op, id, reads) ==
  /\ look.op = "none"
  /\ look' = [NoLook EXCEPT !.op = op, !.id = id, !.left = reads,
                            !.torn = \E i \in DOMAIN trace : trace[i].form = "broken",
                            !.bare = {f \in TrialIds : folders[f] = Bare},
                            !.quiet = writes = <<>>]
  /\ UNCHANGED campaignVars

Reading(file) == look.op # "none" /\ look.left # <<>> /\ Head(look.left).file = file

\* _validate_state_hard_checks.
StateErrors(state) ==
  LET ids == IdsOf(state.rows) ok == RowsOf(state, {"ok"}) IN
  \/ Cardinality(state.rows) # Cardinality(ids)
  \/ \E id \in ids : id >= state.next
  \/ ~(state.best \subseteq IdsOf(ok))
  \/ ok # {} /\ state.best # BestId(state.rows)

Alarm(what, found) == IF found THEN {what} ELSE {}

Onward(rest, left, alarms) ==
  look' = [rest EXCEPT !.left = left, !.alarms = @ \cup alarms, !.done = left = <<>>]
Further(rest, alarms) == Onward(rest, Tail(look.left), alarms)

\* An answer that is an error ends the look: the service raises.
Raises(alarm) == look' = [look EXCEPT !.left = <<>>, !.alarms = {alarm}, !.done = TRUE]

ReadState ==
  /\ Reading("state")
  /\ Further([look EXCEPT !.state = ledger],
             Alarm("state", look.op \in Checks /\ StateErrors(ledger)))

FirstWith(id) ==
  {trace[i].serial : i \in {j \in DOMAIN trace :
     trace[j].id = id /\ \A k \in 1..j - 1 : trace[k].id # id}}

\* _validate_jsonl_file_hard counts every line that is no JSON; the service's
\* reader raises, and shows the first decision with the trial's id.
ReadTrace ==
  /\ Reading("trace")
  /\ IF look.op \in Checks
       THEN Further(look, Alarm("broken_line", ~Whole(trace)))
       ELSE IF Whole(trace)
              THEN Further([look EXCEPT !.decision = FirstWith(look.id)], {})
              ELSE Raises("broken_line")

\* metrics reads the log once more, unless there are hard errors already.
ReadLatency ==
  /\ Reading("latency")
  /\ Further(look, Alarm("broken_line", look.alarms = {} /\ ~Whole(trace)))

\* The directory is listed, and each trial of the list is read: in ascending
\* order by the checks, in descending order and with the trials of the state by
\* the service.
Listed ==
  {id \in TrialIds : folders[id] # Nothing}
    \cup (IF look.op \in Checks THEN {} ELSE IdsOf(look.state.rows))

WithTrials(ids, left) == IF ids = {} THEN left ELSE <<ReadFolders(ids)>> \o left

ListFolders ==
  /\ Reading("folders")
  /\ Onward(look, WithTrials(Listed, Tail(look.left)), {})

Turn ==
  LET ids == Head(look.left).ids
  IN  CHOOSE id \in ids :
        \A other \in ids : IF look.op \in Checks THEN id <= other ELSE id >= other
Others == WithTrials(Head(look.left).ids \ {Turn}, Tail(look.left))

\* _validate_trial_manifests_hard, one trial.
CheckFolder ==
  /\ Reading("folder") /\ look.op \in Checks
  /\ Onward(look, Others, Alarm("no_manifest", folders[Turn] = Bare))

\* _build_trial_record: what the manifest says, else what the state says;
\* whether the trial is pending is always said by the state.
View(id, entry, known) ==
  [id |-> id,
   serial |-> IF entry.serial # 0 THEN entry.serial ELSE known.serial,
   status |-> IF entry.serial # 0 THEN entry.status ELSE known.status,
   pending |-> known.status = "pending",
   known |-> known]

ShowFolder ==
  /\ Reading("folder") /\ look.op \notin Checks
  /\ LET entry == folders[Turn]
         rows == RowFor(look.state, Turn)
         known == IF rows = {} THEN Nothing
                  ELSE LET r == CHOOSE x \in rows : TRUE
                       IN [serial |-> r.serial, status |-> r.status]
     IN IF rows = {} /\ entry.serial = 0
          THEN Raises("not_found")
          ELSE Onward([look EXCEPT !.views = @ \cup {View(Turn, entry, known)}], Others, {})

\* _validate_state_warnings: a campaign that has begun has a log and trials.
ReadPresence ==
  /\ Reading("presence")
  /\ Further([look EXCEPT !.warnings = @ \cup Alarm("missing", trace = <<>> \/ FoldersLeft = {})], {})

\* build_alert_payload: whether there is a decision trace to look at.
ReadAvailable ==
  /\ Reading("available")
  /\ Further([look EXCEPT !.warnings = Alarm("no_trace", trace = <<>>)], {})

\* evaluate_governance_findings, on the statuses of the state it was given.
ReadStatuses ==
  /\ Reading("statuses")
  /\ Further([look EXCEPT !.warnings = @ \cup
                Alarm("status", ~({r.status : r \in RowsOf(look.state, Ended)} \subseteq Allowed))], {})

ReadReport ==
  /\ Reading("report")
  /\ IF reports.json.exists
       THEN Further([look EXCEPT !.report = reports.json.lists], {})
       ELSE Raises("not_generated")

LookOn ==
  /\ ReadState \/ ReadTrace \/ ReadLatency \/ ListFolders \/ CheckFolder \/ ShowFolder
     \/ ReadPresence \/ ReadAvailable \/ ReadStatuses \/ ReadReport
  /\ UNCHANGED campaignVars

InspectionNext ==
  \/ Allocate \/ LogInfeasible \/ MakeReport \/ ResetCampaign
  \/ \E row \in RowsOf(ledger, {"pending"}), status \in Ended : Settle(row, status)
  \/ WriteFile \/ CommandDies
  \/ Ask("validate", 0, ValidateReads) \/ Ask("metrics", 0, MetricsReads)
  \/ Ask("trials", 0, TrialsReads) \/ Ask("report", 0, ReportReads)
  \/ Ask("alerts", 0, AlertReads)
  \/ \E id \in TrialIds : Ask("trial", id, TrialReads(id))
  \/ LookOn

-----------------------------------------------------------------------------
(* What a reader may conclude.                                              *)

\* _health_state, and the exit status of validate.
Verdict == IF look.alarms # {} THEN "error" ELSE IF look.warnings # {} THEN "warning" ELSE "ok"

Damaged == ~Whole(trace) \/ \E id \in TrialIds : folders[id] = Bare

\* An alarm of validate, health or metrics is never raised by a command that
\* merely runs or finished: without writes during the look it says that there
\* is damage, which only a command that died can have left.  Damage that was
\* there throughout the look is reported; and whatever runs meanwhile, the
\* state itself is found sound.
AlarmsHaveCause ==
  look.done /\ look.op \in Checks =>
    /\ "state" \notin look.alarms
    /\ look.quiet => (Verdict = "error") = Damaged
    /\ look.quiet /\ died = 0 => Verdict # "error"
    /\ ~look.wiped /\ look.torn => Verdict = "error"
    /\ ~look.wiped /\ (\E id \in look.bare : folders[id] = Bare) => Verdict = "error"

\* What the service shows of a trial runs ahead of the state it read, never
\* behind: a trial the state knows is shown under its own allocation, with its
\* outcome if it has one, unless a reset went through the middle of the look.
TrialsRunAhead ==
  look.done /\ look.op \in {"trials", "trial"} =>
    /\ ~look.wiped => \A v \in look.views :
         v.known # Nothing =>
           /\ v.serial = v.known.serial
           /\ v.known.status \in Ended => v.status = v.known.status
    /\ look.quiet /\ died = 0 =>
         /\ look.alarms \subseteq (IF look.op = "trial" THEN {"not_found"} ELSE {})
         /\ \A v \in look.views : v.pending = (v.status = "pending")

\* A trial the state knows has a decision in the log; the one that is shown is
\* another trial's only if that one was given up before it got the id.
DecisionsAreExplained ==
  look.done /\ look.op = "trial" /\ look.alarms = {} /\ ~look.wiped =>
    \A v \in look.views : v.known # Nothing =>
      /\ look.decision # {}
      /\ look.decision \subseteq {v.known.serial} \cup discarded

\* A report lists no outcome the campaign does not have.
ReportsFollow ==
  look.done /\ look.op = "report" /\ look.alarms = {} =>
    /\ look.report \subseteq SerialsOf(RowsOf(ledger, Ended)) \cup discarded
    /\ look.quiet /\ died = 0 =>
         /\ look.report \subseteq SerialsOf(RowsOf(ledger, Ended))
         /\ look.report = reports.md.lists

\* Pending trials are not announced without the decisions that made them.
AlertsAreTraced ==
  look.done /\ look.op = "alerts" /\ ~look.wiped /\ RowsOf(look.state, {"pending"}) # {} =>
    look.warnings = {}

\* What is read without the lock is what was, is, or is about to be.
ViewsAreTrue ==
  TrialsRunAhead /\ DecisionsAreExplained /\ ReportsFollow /\ AlertsAreTraced
=============================================================================
