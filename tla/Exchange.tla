------------------------------ MODULE Exchange ------------------------------
(***************************************************************************)
(* Observations carried from campaign to campaign                          *)
(* (templates/_shared/observations_io.py, import-observations and          *)
(* export-observations of templates/bo_client/run_bo.py).                  *)
(*                                                                         *)
(* A trial has one categorical parameter.  A choice is [kind, text]: the   *)
(* number 1 and the string "1" differ in JSON and are one text in CSV.     *)
(* Optional values are sets of at most one element.  A row of a file also  *)
(* says whether its file has a column of source ids (CSV) or the row a     *)
(* field (JSONL).                                                          *)
(***************************************************************************)
EXTENDS Naturals, SequencesExt

CONSTANTS
  Campaigns,
  Contract,     \* optimizer.ax.contract_version of each campaign
  Options,      \* choices of the parameter, the same in all campaigns
  Handwritten,  \* rows a user may put into a file
  MaxTrials,    \* bound: trials run
  MaxImports    \* bound: imports

ASSUME ContractAssumption ==
  Contract \in [Campaigns -> {1, 2}] /\ MaxTrials \in Nat /\ MaxImports \in Nat

Choice == [kind : {"number", "text"}, text : STRING]
Reasons == {"crashed", "status=failed"}
Outcome ==
  [status : {"ok", "failed"}, value : SUBSET Nat, penalty : SUBSET Nat, reason : SUBSET Reasons]
FileRow ==
  [id : SUBSET Nat, sourceField : BOOLEAN, source : SUBSET Nat, choice : Choice,
   outcome : Outcome, run : Nat, dropped : BOOLEAN]

ASSUME RowAssumption ==
  /\ Options \subseteq Choice
  /\ \A row \in Handwritten : row \in FileRow /\ row.run = 0

VARIABLES
  observed,     \* state.observations of each campaign
  nextId,       \* state.next_trial_id of each campaign
  file,         \* the file last written: [format, typed, rows]
  imports,
  ran           \* history: the trials as they were first recorded

exchangeVars == <<observed, nextId, file, imports, ran>>

NoFile == [format |-> "none", typed |-> FALSE, rows |-> <<>>]
Number(text) == [kind |-> "number", text |-> text]
Text(text) == [kind |-> "text", text |-> text]
Blank == Text("")

Mixed == Blank \in Options \/ Cardinality({c.kind : c \in Options}) > 1

ExchangeInit ==
  /\ observed = [c \in Campaigns |-> <<>>]
  /\ nextId = [c \in Campaigns |-> 1]
  /\ file = NoFile /\ imports = 0 /\ ran = <<>>

\* A trial runs in campaign c and ends, well or not.
Outcomes ==
  {[status |-> "ok", value |-> {1}, penalty |-> {}, reason |-> {}]}
    \cup {[status |-> "failed", value |-> {}, penalty |-> p, reason |-> {"crashed"}] :
            p \in {{}, {1}}}

Conclude(c) ==
  /\ Len(ran) < MaxTrials
  /\ \E o \in Outcomes, choice \in Options :
       LET row == [id |-> nextId[c], source |-> {}, choice |-> choice, outcome |-> o,
                   run |-> Len(ran) + 1, dropped |-> FALSE]
       IN  /\ observed' = [observed EXCEPT ![c] = Append(@, row)]
           /\ ran' = Append(ran, row)
  /\ nextId' = [nextId EXCEPT ![c] = @ + 1]
  /\ UNCHANGED <<file, imports>>

(* export_observation_json_record *)
JsonRow(r) ==
  [id |-> {r.id}, sourceField |-> r.source # {}, source |-> r.source, choice |-> r.choice,
   outcome |-> r.outcome, run |-> r.run, dropped |-> r.dropped]

(* flatten_observation_for_csv and render_observations_csv: every row has  *)
(* the columns any row has, and a parameter is written as its text unless  *)
(* the campaign's parameters are typed.                                    *)
CsvRows(rows, typed) ==
  LET Column == \E i \in DOMAIN rows : rows[i].source # {}
  IN  [i \in DOMAIN rows |->
         [JsonRow(rows[i]) EXCEPT
            !.sourceField = Column,
            !.choice = IF typed THEN @ ELSE Text(@.text),
            !.dropped = @ \/ (Column /\ rows[i].source = {})]]

(* cmd_export_observations *)
Export(c) ==
  /\ \/ file' = [format |-> "jsonl", typed |-> FALSE,
                 rows |-> [i \in DOMAIN observed[c] |-> JsonRow(observed[c][i])]]
     \/ file' = [format |-> "csv", typed |-> Contract[c] = 2,
                 rows |-> CsvRows(observed[c], Contract[c] = 2)]
  /\ UNCHANGED <<observed, nextId, imports, ran>>

\* A user writes a file, or adds a row to an exported one.
Edit ==
  /\ \E row \in Handwritten :
       file' = [format |-> IF file = NoFile THEN "jsonl" ELSE file.format,
                typed |-> file.typed,
                rows |-> <<row>> \o file.rows]
  /\ Len(file.rows) < MaxTrials
  /\ \A i \in DOMAIN file.rows : file.rows[i].run # 0
  /\ UNCHANGED <<observed, nextId, imports, ran>>

(* _normalize_categorical_param_value: the choice itself, or the number a  *)
(* text stands for; a blank value counts as absent.                        *)
Readings(value) ==
  IF value = Blank THEN {}
  ELSE IF value \in Options THEN {value}
  ELSE IF value.kind = "text" THEN {Number(value.text)} \cap Options
  ELSE {}

(* _normalize_param_payload, _normalize_csv_param_payload: typed parameters*)
(* are taken as they are; a text column cannot carry mixed choices to a    *)
(* campaign of contract 2, nor a typed one anything to contract 1.         *)
ReadChoice(c, row) ==
  CASE file.format = "csv" /\ file.typed -> IF Contract[c] = 2 THEN {row.choice} \cap Options ELSE {}
    [] file.format = "csv" /\ ~file.typed -> IF Contract[c] = 2 /\ Mixed THEN {} ELSE Readings(row.choice)
    [] OTHER -> IF Contract[c] = 2 THEN {row.choice} \cap Options ELSE Readings(row.choice)

(* _normalize_common_observation_fields, _normalize_objective_payload *)
OutcomeAccepted(o) ==
  \/ o.status = "ok" /\ o.value # {} /\ o.penalty = {}
  \/ o.status = "failed" /\ o.value = {}

Reason(o) == IF o.status # "ok" /\ o.reason = {} THEN {"status=failed"} ELSE o.reason

\* Mutation: the id in the last campaign hides the one before.
SourceOf_Last(row) == row.id

(* _normalize_source_trial_id_from_jsonl and _from_csv: the source id where*)
(* there is such a field or column, even an empty one; else the trial id.  *)
SourceOf(row) == IF row.sourceField THEN row.source ELSE row.id

(* normalize_import_record *)
Accepted(c, row) == ReadChoice(c, row) # {} /\ OutcomeAccepted(row.outcome)

Imported(c, row, id) ==
  [id |-> id, source |-> SourceOf(row),
   choice |-> CHOOSE v \in ReadChoice(c, row) : TRUE,
   outcome |-> [row.outcome EXCEPT !.reason = Reason(row.outcome)],
   run |-> row.run, dropped |-> row.dropped]

(* normalize_import_records_permissive: a rejected row takes no id. *)
Numbered(c, rows) ==
  [k \in DOMAIN rows |-> Imported(c, rows[k], nextId[c] + k - 1)]

\* The rows that are not rejected, in the order of the file.
Kept(c) ==
  LET fits == {i \in DOMAIN file.rows : Accepted(c, file.rows[i])}
      Ordered(places) == \A j, k \in DOMAIN places : j < k => places[j] < places[k]
  IN  {[k \in DOMAIN places |-> file.rows[places[k]]] :
         places \in {p \in [1..Cardinality(fits) -> fits] : Ordered(p)}}

Takes(c, rows) ==
  /\ observed' = [observed EXCEPT ![c] = @ \o Numbered(c, rows)]
  /\ nextId' = [nextId EXCEPT ![c] = @ + Len(rows)]

(* cmd_import_observations, in strict and in permissive mode *)
Import(c) ==
  /\ imports < MaxImports /\ file # NoFile /\ file.rows # <<>>
  /\ \/ /\ \A i \in DOMAIN file.rows : Accepted(c, file.rows[i])
        /\ Takes(c, file.rows)
     \/ \E rows \in Kept(c) : rows # <<>> /\ Takes(c, rows)
  /\ imports' = imports + 1
  /\ UNCHANGED <<file, ran>>

ExchangeNext ==
  \/ \E c \in Campaigns : Conclude(c) \/ Export(c) \/ Import(c)
  \/ Edit

---------------------------------------------------------------------------
Rows == UNION {ToSet(observed[c]) : c \in Campaigns}

\* The text a CSV file has for the number is itself a choice.
Ambiguous(choice) == choice.kind = "number" /\ Text(choice.text) \in Options

\* An imported trial is the trial that ran: same outcome, same choice unless
\* a CSV file could not tell it from another one.
SameTrial(r) ==
  r.run # 0 =>
    /\ r.outcome = ran[r.run].outcome
    /\ \/ r.choice = ran[r.run].choice
       \/ Ambiguous(ran[r.run].choice) /\ r.choice = Text(ran[r.run].choice.text)

\* Its source id is the id it had where it ran, however many campaigns lie
\* between, unless it went through a CSV file in which other rows have one.
SourceTraced(r) ==
  r.run # 0 /\ ~r.dropped => r.source = {ran[r.run].id} \/ r = ran[r.run]

\* What enters a campaign is a complete observation under an id of its own.
Complete(r, id) ==
  /\ r.id = id
  /\ r.choice \in Options
  /\ (r.outcome.status = "ok") = (r.outcome.value # {})
  /\ r.outcome.status = "ok" => r.outcome.penalty = {}
  /\ r.outcome.status = "failed" => r.outcome.reason # {}

WellFormed(c) ==
  /\ nextId[c] = Len(observed[c]) + 1
  /\ \A i \in DOMAIN observed[c] : Complete(observed[c][i], i)

\* observations_io.py: rows survive the exchange, know where they come from
\* and get fresh consecutive ids whatever rows were rejected between them.
RowsSurvive ==
  /\ \A r \in Rows : SameTrial(r) /\ SourceTraced(r)
  /\ \A c \in Campaigns : WellFormed(c)
=============================================================================
