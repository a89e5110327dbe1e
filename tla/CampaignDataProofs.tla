------------------------- MODULE CampaignDataProofs -------------------------
(***************************************************************************)
(* What goes into a campaign and what is made of it, for any campaigns,    *)
(* declarations, answers and files: one component after the other, each    *)
(* with its invariant, and what it means for CampaignData.                 *)
(***************************************************************************)
EXTENDS CampaignData, CampaignDataLemmas

-----------------------------------------------------------------------------
(* Exchange: what a file says of a trial that ran is what the trial was.    *)

Row ==
  [id : Nat, source : SUBSET Nat, choice : Options, outcome : Outcome, run : Nat,
   dropped : BOOLEAN]
Files == [format : {"none", "csv", "jsonl"}, typed : BOOLEAN, rows : Seq(FileRow)]

ExchangeTyped ==
  /\ observed \in [Campaigns -> Seq(Row)] /\ nextId \in [Campaigns -> Nat]
  /\ file \in Files /\ ran \in Seq(Row)

\* A trial as it was first recorded.
RunsAreRecorded == \A k \in 1..Len(ran) :
  ran[k].run = k /\ ran[k].source = {} /\ ran[k].dropped = FALSE /\ ran[k].outcome \in Outcomes

\* A choice, or what a CSV file makes of it.
SameChoice(choice, original) ==
  choice = original \/ (Ambiguous(original) /\ choice = Text(original.text))

TrueRow(row, typed, format) ==
  /\ row.run \in 0..Len(ran)
  /\ row.run # 0 =>
       /\ row.outcome = ran[row.run].outcome
       /\ IF format = "csv" /\ ~typed THEN row.choice = Text(ran[row.run].choice.text)
          ELSE SameChoice(row.choice, ran[row.run].choice)
       /\ ~row.dropped =>
            SourceOf(row) = {ran[row.run].id}

FileIsTrue == \A i \in DOMAIN file.rows : TrueRow(file.rows[i], file.typed, file.format)

Traced(r) == r.run \in 0..Len(ran) /\ SameTrial(r) /\ SourceTraced(r)
RowsTraced == \A c \in Campaigns : \A i \in DOMAIN observed[c] : Traced(observed[c][i])

ExchangeInv ==
  /\ ExchangeTyped /\ RunsAreRecorded /\ FileIsTrue /\ RowsTraced
  /\ \A c \in Campaigns : WellFormed(c)

LEMMA OutcomesTyped ==
  ASSUME NEW o \in Outcomes
  PROVE  /\ o \in Outcome /\ (o.status = "ok" \/ (o.status = "failed" /\ o.reason = {"crashed"}))
         /\ (o.status = "ok") = (o.value # {}) /\ (o.status = "ok" => o.penalty = {})
<1>1. CASE o = [status |-> "ok", value |-> {1}, penalty |-> {}, reason |-> {}]
  <2>1. {1} \in SUBSET Nat /\ {} \in SUBSET Nat /\ {} \in SUBSET Reasons
    OBVIOUS
  <2> QED
    BY <1>1, <2>1 DEF Outcome
<1>2. CASE \E p \in {{}, {1}} :
             o = [status |-> "failed", value |-> {}, penalty |-> p, reason |-> {"crashed"}]
  <2>1. PICK p \in {{}, {1}} :
          o = [status |-> "failed", value |-> {}, penalty |-> p, reason |-> {"crashed"}]
    BY <1>2
  <2>2. p \in SUBSET Nat /\ {"crashed"} \in SUBSET Reasons /\ {} \in SUBSET Nat
    BY DEF Reasons
  <2> QED
    BY <2>1, <2>2 DEF Outcome
<1> QED
  BY <1>1, <1>2 DEF Outcomes

LEMMA ExchangeInitInv == ExchangeInit => ExchangeInv
<1> SUFFICES ASSUME ExchangeInit PROVE ExchangeInv
  OBVIOUS
<1>1. /\ observed = [c \in Campaigns |-> <<>>] /\ nextId = [c \in Campaigns |-> 1]
      /\ file = NoFile /\ ran = <<>>
  BY DEF ExchangeInit
<1>2. ExchangeTyped
  BY <1>1 DEF ExchangeTyped, NoFile, Files
<1>3. RunsAreRecorded
  BY <1>1 DEF RunsAreRecorded
<1>4. FileIsTrue
  BY <1>1 DEF FileIsTrue, NoFile
<1>5. RowsTraced
  BY <1>1 DEF RowsTraced
<1>6. \A c \in Campaigns : WellFormed(c)
  BY <1>1 DEF WellFormed
<1> QED
  BY <1>2, <1>3, <1>4, <1>5, <1>6 DEF ExchangeInv

\* The fields of a row read from a file.
LEMMA ImportedIs ==
  ASSUME ExchangeInv, NEW c \in Campaigns, NEW f \in FileRow, NEW id \in Nat,
         TrueRow(f, file.typed, file.format), Accepted(c, f)
  PROVE  LET r == Imported(c, f, id) IN
         r \in Row /\ r.run = f.run /\ Traced(r) /\ Complete(r, id)
<1> DEFINE r == Imported(c, f, id)
           v == CHOOSE x \in ReadChoice(c, f) : TRUE
           o == f.outcome
           o2 == [o EXCEPT !.reason = Reason(o)]
<1>1. f.choice \in Choice /\ o \in Outcome /\ f.run \in Nat /\ f.dropped \in BOOLEAN
      /\ f.id \in SUBSET Nat /\ f.source \in SUBSET Nat /\ f.sourceField \in BOOLEAN
  BY DEF FileRow
<1>2. v \in ReadChoice(c, f) /\ OutcomeAccepted(o)
  BY DEF Accepted
<1>3. /\ Contract[c] \in {1, 2} /\ file.typed \in BOOLEAN
      /\ file.format \in {"none", "csv", "jsonl"}
  BY ContractAssumption DEF ExchangeInv, ExchangeTyped, Files
<1>4. \A value : \A x \in Readings(value) :
        x \in Options /\ (x = value \/ (value.kind = "text" /\ value \notin Options
                                        /\ x = Number(value.text)))
  BY DEF Readings
<1>5. /\ v \in Options
      /\ v = f.choice \/ (f.choice.kind = "text" /\ f.choice \notin Options
                          /\ v = Number(f.choice.text))
      /\ file.format = "csv" /\ file.typed => v = f.choice
  BY <1>2, <1>3, <1>4 DEF ReadChoice
<1>6. Reason(o) \in SUBSET Reasons /\ (o.status = "failed" => Reason(o) # {})
      /\ (o \in Outcomes => Reason(o) = o.reason)
  <2>1. o.reason \in SUBSET Reasons /\ {"status=failed"} \in SUBSET Reasons
    BY <1>1 DEF Outcome, Reasons
  <2>2. o \in Outcomes => Reason(o) = o.reason
    BY OutcomesTyped DEF Reason
  <2> QED
    BY <2>1, <2>2 DEF Reason
<1>7. /\ o2 \in Outcome /\ o2.status = o.status /\ o2.value = o.value /\ o2.penalty = o.penalty
      /\ o2.reason = Reason(o) /\ (o \in Outcomes => o2 = o)
  BY <1>1, <1>6 DEF Outcome
<1>8. SourceOf(f) \in SUBSET Nat
  BY <1>1 DEF SourceOf
<1>9. /\ r.id = id /\ r.source = SourceOf(f) /\ r.choice = v /\ r.outcome = o2 /\ r.run = f.run
      /\ r.dropped = f.dropped /\ r \in Row
  BY <1>1, <1>5, <1>7, <1>8 DEF Imported, Row
<1> HIDE DEF r, v, o, o2
<1>10. f.run \in 0..Len(ran)
  BY DEF TrueRow
<1>11. ASSUME f.run # 0
       PROVE  r.outcome = ran[f.run].outcome /\ SameChoice(v, ran[f.run].choice)
  <2>1. f.run \in 1..Len(ran) /\ o = ran[f.run].outcome
    BY <1>10, <1>11 DEF TrueRow, o
  <2>2. o \in Outcomes /\ ran[f.run] \in Row
    BY <2>1 DEF ExchangeInv, RunsAreRecorded, ExchangeTyped
  <2> DEFINE first == ran[f.run].choice
  <2>3. first \in Options /\ first \in Choice
    BY <2>2, RowAssumption DEF Row
  <2> HIDE DEF first
  <2>4. CASE file.format = "csv" /\ ~file.typed
    <3>1. f.choice = Text(first.text)
      BY <1>11, <2>4 DEF TrueRow, first
    <3>2. f.choice.kind = "text" /\ f.choice.text = first.text
      BY <3>1 DEF Text
    <3>3. first = Number(first.text) \/ first = Text(first.text)
      BY <2>3 DEF Choice, Number, Text
    <3>4. first = Number(first.text) => first.kind = "number"
      BY DEF Number
    <3>5. SameChoice(v, first)
      BY <1>5, <2>3, <3>1, <3>2, <3>3, <3>4 DEF SameChoice, Ambiguous
    <3> QED
      BY <1>7, <1>9, <2>1, <2>2, <3>5 DEF first
  <2>5. CASE ~(file.format = "csv" /\ ~file.typed)
    <3>1. SameChoice(f.choice, first)
      BY <1>11, <2>5 DEF TrueRow, first
    <3>2. f.choice \in Options
      BY <2>3, <3>1 DEF SameChoice, Ambiguous
    <3>3. v = f.choice
      BY <1>5, <3>2
    <3> QED
      BY <1>7, <1>9, <2>1, <2>2, <3>1, <3>3 DEF first
  <2> QED
    BY <2>4, <2>5
<1>12. SameTrial(r)
  BY <1>9, <1>11 DEF SameTrial, SameChoice
<1>13. SourceTraced(r)
  BY <1>9 DEF SourceTraced, TrueRow
<1> QED
  BY <1>2, <1>5, <1>6, <1>7, <1>9, <1>10, <1>12, <1>13 DEF Traced, OutcomeAccepted, Complete, r

\* Trials that ran stay as they were recorded.
LEMMA TracedStay ==
  ASSUME ExchangeInv, Len(ran') \in Nat, Len(ran') >= Len(ran),
         \A k \in 1..Len(ran) : ran'[k] = ran[k]
  PROVE  /\ \A r \in Row : Traced(r) => Traced(r)'
         /\ \A f \in FileRow, typed \in BOOLEAN, format \in {"none", "csv", "jsonl"} :
              TrueRow(f, typed, format) => TrueRow(f, typed, format)'
<1>1. Len(ran) \in Nat
  BY DEF ExchangeInv, ExchangeTyped
<1>2. \A r \in Row : Traced(r) => Traced(r)'
  <2> SUFFICES ASSUME NEW r \in Row, Traced(r) PROVE Traced(r)'
    OBVIOUS
  <2>1. r.run \in Nat /\ r.run <= Len(ran) /\ (r.run # 0 => r.run \in 1..Len(ran))
    BY <1>1 DEF Traced
  <2>2. r.run \in 0..Len(ran') /\ (r.run # 0 => ran'[r.run] = ran[r.run])
    BY <1>1, <2>1
  <2> QED
    BY <2>2 DEF Traced, SameTrial, SourceTraced
<1>3. \A f \in FileRow, typed \in BOOLEAN, format \in {"none", "csv", "jsonl"} :
        TrueRow(f, typed, format) => TrueRow(f, typed, format)'
  <2> SUFFICES ASSUME NEW f \in FileRow, NEW typed \in BOOLEAN,
                      NEW format \in {"none", "csv", "jsonl"}, TrueRow(f, typed, format)
               PROVE  TrueRow(f, typed, format)'
    OBVIOUS
  <2>1. f.run \in Nat /\ f.run <= Len(ran) /\ (f.run # 0 => f.run \in 1..Len(ran))
    BY <1>1 DEF TrueRow
  <2>2. f.run \in 0..Len(ran') /\ (f.run # 0 => ran'[f.run] = ran[f.run])
    BY <1>1, <2>1
  <2> QED
    BY <2>2 DEF TrueRow
<1> QED
  BY <1>2, <1>3

\* Rows are added to a campaign.
LEMMA Grows ==
  ASSUME ExchangeInv, NEW c \in Campaigns, NEW n \in Nat, NEW new \in [1..n -> Row],
         NEW grown \in Seq(Row), Len(grown) = Len(observed[c]) + n,
         \A i \in 1..Len(observed[c]) : grown[i] = observed[c][i],
         \A k \in 1..n : grown[Len(observed[c]) + k] = new[k],
         \A k \in 1..n : Complete(new[k], Len(observed[c]) + k),
         \A k \in 1..n : Traced(new[k])',
         Len(ran') \in Nat, Len(ran') >= Len(ran), \A k \in 1..Len(ran) : ran'[k] = ran[k],
         observed' = [observed EXCEPT ![c] = grown],
         nextId' = [nextId EXCEPT ![c] = @ + n]
  PROVE  /\ observed' \in [Campaigns -> Seq(Row)] /\ nextId' \in [Campaigns -> Nat]
         /\ RowsTraced' /\ \A d \in Campaigns : WellFormed(d)'
<1>1. /\ observed \in [Campaigns -> Seq(Row)] /\ nextId \in [Campaigns -> Nat]
      /\ observed[c] \in Seq(Row) /\ Len(observed[c]) \in Nat
      /\ \A d \in Campaigns : WellFormed(d)
  BY DEF ExchangeInv, ExchangeTyped
<1>2. /\ \A d \in Campaigns : observed'[d] = IF d = c THEN grown ELSE observed[d]
      /\ \A d \in Campaigns : nextId'[d] = IF d = c THEN nextId[c] + n ELSE nextId[d]
      /\ observed' \in [Campaigns -> Seq(Row)] /\ nextId' \in [Campaigns -> Nat]
  BY <1>1
<1>3. ASSUME NEW i \in 1..Len(grown), i \notin 1..Len(observed[c])
      PROVE  \E k \in 1..n : i = Len(observed[c]) + k
  <2>1. i - Len(observed[c]) \in 1..n /\ i = Len(observed[c]) + (i - Len(observed[c]))
    BY <1>1, <1>3
  <2> QED
    BY <2>1
<1>4. RowsTraced'
  <2> SUFFICES ASSUME NEW d \in Campaigns, NEW i \in DOMAIN observed'[d]
               PROVE  Traced(observed[d][i])'
    BY DEF RowsTraced
  <2>1. ASSUME i \in DOMAIN observed[d], observed'[d][i] = observed[d][i]
        PROVE  Traced(observed[d][i])'
    <3>1. PICK r \in Row : r = observed[d][i]
      BY <1>1, <2>1
    <3>2. Traced(r)
      BY <2>1, <3>1 DEF ExchangeInv, RowsTraced
    <3>3. Traced(r)'
      BY <3>2, TracedStay
    <3> QED
      BY <2>1, <3>1, <3>3 DEF Traced, SameTrial, SourceTraced
  <2>2. CASE d = c /\ i \in 1..Len(observed[c])
    <3>1. observed'[d][i] = observed[d][i] /\ i \in DOMAIN observed[d]
      BY <1>1, <1>2, <2>2
    <3> QED
      BY <2>1, <3>1
  <2>3. CASE d = c /\ i \notin 1..Len(observed[c])
    <3>1. PICK k \in 1..n : i = Len(observed[c]) + k
      BY <1>2, <1>3, <2>3
    <3>2. observed'[d][i] = new[k] /\ Traced(new[k])'
      BY <1>2, <2>3, <3>1
    <3> QED
      BY <3>2 DEF Traced, SameTrial, SourceTraced
  <2>4. CASE d # c
    BY <1>2, <2>1, <2>4
  <2> QED
    BY <2>2, <2>3, <2>4
<1>5. ASSUME NEW d \in Campaigns PROVE WellFormed(d)'
  <2>1. CASE d # c
    BY <1>1, <1>2, <2>1 DEF WellFormed
  <2>2. CASE d = c
    <3>1. nextId'[d] = Len(observed'[d]) + 1
      BY <1>1, <1>2, <2>2 DEF WellFormed
    <3>2. ASSUME NEW i \in DOMAIN observed'[d]
          PROVE  Complete(observed'[d][i], i)
      <4>1. CASE i \in 1..Len(observed[c])
        <5>1. observed'[d][i] = observed[c][i] /\ i \in DOMAIN observed[c]
          BY <1>1, <1>2, <2>2, <4>1
        <5> QED
          BY <1>1, <5>1 DEF WellFormed
      <4>2. CASE i \notin 1..Len(observed[c])
        <5>1. PICK k \in 1..n : i = Len(observed[c]) + k
          <6>1. i \in 1..Len(grown)
            <7>1. observed'[d] = grown
              BY <1>2, <2>2
            <7> QED
              BY <3>2, <7>1
          <6> QED
            BY <1>3, <4>2, <6>1
        <5> QED
          BY <1>2, <2>2, <5>1
      <4> QED
        BY <4>1, <4>2
    <3> QED
      BY <3>1, <3>2 DEF WellFormed
  <2> QED
    BY <2>1, <2>2
<1> QED
  BY <1>2, <1>4, <1>5

LEMMA ConcludeKeeps ==
  ASSUME ExchangeInv, NEW c \in Campaigns, Conclude(c)
  PROVE  ExchangeInv'
<1>1. PICK o \in Outcomes, choice \in Options :
        LET row == [id |-> nextId[c], source |-> {}, choice |-> choice, outcome |-> o,
                    run |-> Len(ran) + 1, dropped |-> FALSE]
        IN  /\ observed' = [observed EXCEPT ![c] = Append(@, row)]
            /\ ran' = Append(ran, row)
  BY DEF Conclude
<1> DEFINE row == [id |-> nextId[c], source |-> {}, choice |-> choice, outcome |-> o,
                   run |-> Len(ran) + 1, dropped |-> FALSE]
<1>2. /\ observed' = [observed EXCEPT ![c] = Append(@, row)] /\ ran' = Append(ran, row)
      /\ nextId' = [nextId EXCEPT ![c] = @ + 1] /\ file' = file
  BY <1>1 DEF Conclude
<1>3. /\ observed \in [Campaigns -> Seq(Row)] /\ nextId \in [Campaigns -> Nat]
      /\ file \in Files /\ ran \in Seq(Row) /\ Len(ran) \in Nat
  BY DEF ExchangeInv, ExchangeTyped
<1>4. /\ row \in Row /\ row.id = nextId[c] /\ row.source = {} /\ row.choice = choice
      /\ row.outcome = o /\ row.run = Len(ran) + 1 /\ row.dropped = FALSE
  BY <1>3, OutcomesTyped DEF Row
<1> HIDE DEF row
<1>5. /\ ran' \in Seq(Row) /\ Len(ran') = Len(ran) + 1 /\ ran'[Len(ran) + 1] = row
      /\ \A k \in 1..Len(ran) : ran'[k] = ran[k]
  BY <1>2, <1>3, <1>4
<1>6. RunsAreRecorded'
  <2> SUFFICES ASSUME NEW k \in 1..Len(ran')
               PROVE  /\ ran'[k].run = k /\ ran'[k].source = {} /\ ran'[k].dropped = FALSE
                      /\ ran'[k].outcome \in Outcomes
    BY DEF RunsAreRecorded
  <2>1. CASE k \in 1..Len(ran)
    BY <1>5, <2>1 DEF ExchangeInv, RunsAreRecorded
  <2>2. CASE k = Len(ran) + 1
    BY <1>4, <1>5, <2>2
  <2>3. k \in 1..Len(ran) \/ k = Len(ran) + 1
    <3>1. Len(ran') = Len(ran) + 1 /\ Len(ran) \in Nat
      BY <1>3, <1>5
    <3> QED
      BY <3>1
  <2> QED
    BY <2>1, <2>2, <2>3
<1>7. FileIsTrue'
  <2> SUFFICES ASSUME NEW i \in DOMAIN file.rows
               PROVE  TrueRow(file.rows[i], file.typed, file.format)'
    BY <1>2 DEF FileIsTrue
  <2>1. PICK f \in FileRow, typed \in BOOLEAN, format \in {"none", "csv", "jsonl"} :
          f = file.rows[i] /\ typed = file.typed /\ format = file.format
    BY <1>3 DEF Files
  <2>2. TrueRow(f, typed, format)'
    BY <1>3, <1>5, <2>1, TracedStay DEF ExchangeInv, FileIsTrue
  <2> QED
    BY <1>2, <2>1, <2>2 DEF TrueRow, SourceOf
<1>8. PICK new \in [1..1 -> Row] : new[1] = row
  <2>1. [k \in 1..1 |-> row] \in [1..1 -> Row] /\ [k \in 1..1 |-> row][1] = row
    BY <1>4
  <2> QED
    BY <2>1
<1>9. PICK grown : grown = Append(observed[c], row)
  OBVIOUS
<1>10. /\ grown \in Seq(Row) /\ Len(grown) = Len(observed[c]) + 1
       /\ \A i \in 1..Len(observed[c]) : grown[i] = observed[c][i]
       /\ grown[Len(observed[c]) + 1] = row
       /\ observed' = [observed EXCEPT ![c] = grown]
       /\ Len(observed[c]) \in Nat
  <2>1. observed[c] \in Seq(Row)
    BY <1>3
  <2> QED
    BY <1>2, <1>4, <1>9, <2>1
<1>11. Complete(new[1], Len(observed[c]) + 1)
  BY <1>4, <1>8, OutcomesTyped DEF Complete, ExchangeInv, WellFormed
<1>12. Traced(new[1])'
  <2>1. new[1].run \in 0..Len(ran') /\ new[1].run # 0 /\ ran'[new[1].run] = new[1]
    BY <1>3, <1>4, <1>5, <1>8
  <2> QED
    BY <2>1 DEF Traced, SameTrial, SourceTraced
<1>13. /\ observed' \in [Campaigns -> Seq(Row)] /\ nextId' \in [Campaigns -> Nat]
       /\ RowsTraced' /\ \A d \in Campaigns : WellFormed(d)'
  <2>1. \A k \in 1..1 : k = 1
    OBVIOUS
  <2>2. /\ \A k \in 1..1 : grown[Len(observed[c]) + k] = new[k]
        /\ \A k \in 1..1 : Complete(new[k], Len(observed[c]) + k)
    BY <1>8, <1>10, <1>11, <2>1
  <2>3. \A k \in 1..1 : Traced(new[k])'
    BY <1>12, <2>1
  <2>4. 1 \in Nat /\ Len(ran') \in Nat /\ Len(ran') >= Len(ran)
    BY <1>3, <1>5
  <2> QED
    BY <1>2, <1>5, <1>10, <2>2, <2>3, <2>4, Grows
<1>14. ExchangeTyped'
  BY <1>2, <1>3, <1>5, <1>13 DEF ExchangeTyped
<1> QED
  BY <1>6, <1>7, <1>13, <1>14 DEF ExchangeInv

\* What an export writes of a row.
LEMMA JsonIs ==
  ASSUME ExchangeInv, NEW r \in Row, Traced(r)
  PROVE  /\ JsonRow(r) \in FileRow /\ JsonRow(r).run = r.run /\ JsonRow(r).choice = r.choice
         /\ JsonRow(r).dropped = r.dropped /\ JsonRow(r).outcome = r.outcome
         /\ JsonRow(r).source = r.source /\ JsonRow(r).id = {r.id}
         /\ r.choice \in Choice
         /\ TrueRow(JsonRow(r), FALSE, "jsonl")
         /\ r.run # 0 /\ ~r.dropped =>
              IF r.source # {} THEN r.source = {ran[r.run].id} ELSE r.id = ran[r.run].id
<1> DEFINE f == JsonRow(r)
<1>1. /\ r.id \in Nat /\ r.source \in SUBSET Nat /\ r.choice \in Choice /\ r.outcome \in Outcome
      /\ r.run \in Nat /\ r.dropped \in BOOLEAN
  BY RowAssumption DEF Row
<1>2. /\ f.id = {r.id} /\ f.sourceField = (r.source # {}) /\ f.source = r.source
      /\ f.choice = r.choice /\ f.outcome = r.outcome /\ f.run = r.run /\ f.dropped = r.dropped
      /\ f \in FileRow
  BY <1>1 DEF JsonRow, FileRow
<1> HIDE DEF f
<1>3. r.run # 0 /\ ~r.dropped =>
        IF r.source # {} THEN r.source = {ran[r.run].id} ELSE r.id = ran[r.run].id
  <2> SUFFICES ASSUME r.run # 0, ~r.dropped
               PROVE  IF r.source # {} THEN r.source = {ran[r.run].id} ELSE r.id = ran[r.run].id
    OBVIOUS
  <2>1. r.run \in 1..Len(ran) /\ (r.source = {ran[r.run].id} \/ r = ran[r.run])
    BY <1>1 DEF Traced, SourceTraced
  <2>2. ran[r.run].source = {}
    BY <2>1 DEF ExchangeInv, RunsAreRecorded
  <2> QED
    BY <2>1, <2>2
<1>4. r.run # 0 => SameChoice(r.choice, ran[r.run].choice) /\ r.outcome = ran[r.run].outcome
  BY DEF Traced, SameTrial, SameChoice
<1>5. TrueRow(f, FALSE, "jsonl")
  BY <1>2, <1>3, <1>4 DEF TrueRow, SourceOf, Traced
<1> QED
  BY <1>1, <1>2, <1>3, <1>5 DEF f

LEMMA CsvIs ==
  ASSUME ExchangeInv, NEW r \in Row, Traced(r), NEW typed \in BOOLEAN, NEW Column \in BOOLEAN,
         r.source # {} => Column,
         NEW f, f = [JsonRow(r) EXCEPT !.sourceField = Column,
                                       !.choice = IF typed THEN @ ELSE Text(@.text),
                                       !.dropped = @ \/ (Column /\ r.source = {})]
  PROVE  f \in FileRow /\ TrueRow(f, typed, "csv")
<1> DEFINE j == JsonRow(r)
<1>1. /\ j \in FileRow /\ j.run = r.run /\ j.choice = r.choice /\ j.dropped = r.dropped
      /\ j.outcome = r.outcome /\ j.source = r.source /\ j.id = {r.id} /\ r.choice \in Choice
      /\ r.run # 0 /\ ~r.dropped =>
           IF r.source # {} THEN r.source = {ran[r.run].id} ELSE r.id = ran[r.run].id
  BY JsonIs
<1> HIDE DEF j
<1>2. Text(r.choice.text) \in Choice
  BY <1>1 DEF Text, Choice
<1>3. /\ f.run = r.run /\ f.sourceField = Column
      /\ f.choice = (IF typed THEN r.choice ELSE Text(r.choice.text))
      /\ f.dropped = (r.dropped \/ (Column /\ r.source = {})) /\ f.outcome = r.outcome
      /\ f.source = r.source /\ f.id = {r.id} /\ f \in FileRow
  <2>1. f = [j EXCEPT !.sourceField = Column,
                      !.choice = IF typed THEN @ ELSE Text(@.text),
                      !.dropped = @ \/ (Column /\ r.source = {})]
    BY DEF j
  <2>2. r.dropped \in BOOLEAN
    BY DEF Row
  <2> DEFINE choice == IF typed THEN r.choice ELSE Text(r.choice.text)
             dropped == r.dropped \/ (Column /\ r.source = {})
  <2>3. choice \in Choice /\ dropped \in BOOLEAN
    BY <1>1, <1>2, <2>2
  <2>4. f = [j EXCEPT !.sourceField = Column, !.choice = choice, !.dropped = dropped]
    <3>1. j = [id |-> j.id, sourceField |-> j.sourceField, source |-> j.source,
               choice |-> j.choice, outcome |-> j.outcome, run |-> j.run,
               dropped |-> j.dropped]
      BY <1>1 DEF FileRow
    <3> QED
      BY <1>1, <2>1, <3>1
  <2> HIDE DEF choice, dropped
  <2>5. f \in FileRow
    BY <1>1, <2>3, <2>4 DEF FileRow
  <2>6. /\ f.run = j.run /\ f.sourceField = Column /\ f.choice = choice /\ f.dropped = dropped
        /\ f.outcome = j.outcome /\ f.source = j.source /\ f.id = j.id
    BY <1>1, <2>4 DEF FileRow
  <2> QED
    BY <1>1, <2>5, <2>6 DEF choice, dropped
<1>4. r.run # 0 => SameChoice(r.choice, ran[r.run].choice) /\ r.outcome = ran[r.run].outcome
  BY DEF Traced, SameTrial, SameChoice
<1>5. SameChoice(r.choice, ran[r.run].choice) =>
        Text(r.choice.text) = Text(ran[r.run].choice.text)
  BY DEF SameChoice, Text
<1>6. TrueRow(f, typed, "csv")
  BY <1>1, <1>3, <1>4, <1>5 DEF TrueRow, SourceOf, Traced
<1> QED
  BY <1>3, <1>6

\* A function on 1..n is a sequence of length n.
LEMMA SequenceOf ==
  ASSUME NEW S, NEW n \in Nat, NEW s, s = [i \in 1..n |-> s[i]], \A i \in 1..n : s[i] \in S
  PROVE  s \in Seq(S) /\ Len(s) = n /\ DOMAIN s = 1..n
<1>1. s \in [1..n -> S]
  OBVIOUS
<1>2. s \in Seq(S)
  BY <1>1
<1>3. Len(s) = n
  BY <1>1, <1>2
<1> QED
  BY <1>1, <1>2, <1>3

LEMMA Joined ==
  ASSUME NEW s \in Seq(Row), NEW t \in Seq(Row)
  PROVE  /\ s \o t \in Seq(Row) /\ Len(s \o t) = Len(s) + Len(t)
         /\ \A i \in 1..Len(s) : (s \o t)[i] = s[i]
         /\ \A k \in 1..Len(t) : (s \o t)[Len(s) + k] = t[k]
<1>1. Len(s) \in Nat /\ Len(t) \in Nat
  OBVIOUS
<1>2. s \o t \in Seq(Row) /\ Len(s \o t) = Len(s) + Len(t)
  OBVIOUS
<1>3. ASSUME NEW i \in 1..Len(s) PROVE (s \o t)[i] = s[i]
  BY <1>1, <1>3
<1>4. ASSUME NEW k \in 1..Len(t) PROVE (s \o t)[Len(s) + k] = t[k]
  <2>1. /\ Len(s) + k \in 1..(Len(s) + Len(t)) /\ ~(Len(s) + k <= Len(s))
        /\ (Len(s) + k) - Len(s) = k
    BY <1>1, <1>4
  <2> QED
    BY <1>1, <2>1
<1> QED
  BY <1>2, <1>3, <1>4

LEMMA ExportKeeps ==
  ASSUME ExchangeInv, NEW c \in Campaigns, Export(c)
  PROVE  ExchangeInv'
<1>1. UNCHANGED <<observed, nextId, ran>>
  BY DEF Export
<1>2. /\ observed[c] \in Seq(Row) /\ DOMAIN observed[c] = 1..Len(observed[c])
      /\ Len(observed[c]) \in Nat
      /\ \A i \in DOMAIN observed[c] : observed[c][i] \in Row /\ Traced(observed[c][i])
  BY DEF ExchangeInv, ExchangeTyped, RowsTraced
<1>3. file' \in Files /\ \A i \in DOMAIN file'.rows :
                           TrueRow(file'.rows[i], file'.typed, file'.format)
  <2>1. CASE file' = [format |-> "jsonl", typed |-> FALSE,
                      rows |-> [i \in DOMAIN observed[c] |-> JsonRow(observed[c][i])]]
    <3> DEFINE lines == [i \in DOMAIN observed[c] |-> JsonRow(observed[c][i])]
    <3>1. \A i \in DOMAIN observed[c] :
            /\ JsonRow(observed[c][i]) \in FileRow
            /\ TrueRow(JsonRow(observed[c][i]), FALSE, "jsonl")
      BY <1>2, JsonIs
    <3>2. lines \in Seq(FileRow)
      <4>1. lines = [i \in 1..Len(observed[c]) |-> lines[i]]
        BY <1>2
      <4>2. \A i \in 1..Len(observed[c]) : lines[i] \in FileRow
        BY <1>2, <3>1
      <4> HIDE DEF lines
      <4> QED
        BY <1>2, <4>1, <4>2, SequenceOf
    <3>3. /\ file'.format = "jsonl" /\ file'.typed = FALSE /\ file'.rows = lines
          /\ file' = [format |-> "jsonl", typed |-> FALSE, rows |-> lines]
      BY <2>1
    <3>4. \A i \in DOMAIN lines : TrueRow(lines[i], FALSE, "jsonl")
      BY <3>1
    <3> HIDE DEF lines
    <3> QED
      BY <3>2, <3>3, <3>4 DEF Files
  <2>2. CASE file' = [format |-> "csv", typed |-> Contract[c] = 2,
                      rows |-> CsvRows(observed[c], Contract[c] = 2)]
    <3> DEFINE Column == \E i \in DOMAIN observed[c] : observed[c][i].source # {}
               typed == Contract[c] = 2
               lines == CsvRows(observed[c], typed)
    <3>1. lines = [i \in DOMAIN observed[c] |->
                    [JsonRow(observed[c][i]) EXCEPT
                       !.sourceField = Column,
                       !.choice = IF typed THEN @ ELSE Text(@.text),
                       !.dropped = @ \/ (Column /\ observed[c][i].source = {})]]
      BY DEF CsvRows
    <3>2. ASSUME NEW i \in DOMAIN observed[c]
          PROVE  lines[i] \in FileRow /\ TrueRow(lines[i], typed, "csv")
      <4>1. observed[c][i].source # {} => Column
        OBVIOUS
      <4>2. Column \in BOOLEAN /\ typed \in BOOLEAN
        OBVIOUS
      <4>3. lines[i] = [JsonRow(observed[c][i]) EXCEPT
                         !.sourceField = Column,
                         !.choice = IF typed THEN @ ELSE Text(@.text),
                         !.dropped = @ \/ (Column /\ observed[c][i].source = {})]
        BY <3>1, <3>2
      <4>4. PICK r \in Row : r = observed[c][i] /\ Traced(r)
        BY <1>2, <3>2
      <4>5. PICK f : f = lines[i]
        OBVIOUS
      <4>6. PICK column \in BOOLEAN : column = Column
        <5> HIDE DEF Column
        <5> QED
          BY <4>2
      <4>7. PICK t \in BOOLEAN : t = typed
        <5> HIDE DEF typed
        <5> QED
          BY <4>2
      <4>8. /\ f = [JsonRow(r) EXCEPT
                      !.sourceField = column,
                      !.choice = IF t THEN @ ELSE Text(@.text),
                      !.dropped = @ \/ (column /\ r.source = {})]
            /\ r.source # {} => column
        BY <4>1, <4>3, <4>4, <4>5, <4>6, <4>7
      <4>9. f \in FileRow /\ TrueRow(f, t, "csv")
        BY ZenonT(30), <4>4, <4>8, CsvIs
      <4> HIDE DEF Column, typed, lines
      <4> QED
        BY <4>5, <4>9, <4>7
    <3>3. /\ file'.format = "csv" /\ file'.typed = typed /\ file'.rows = lines
          /\ file' = [format |-> "csv", typed |-> typed, rows |-> lines] /\ typed \in BOOLEAN
      BY <2>2
    <3>4. DOMAIN lines = DOMAIN observed[c] /\ lines = [i \in DOMAIN observed[c] |-> lines[i]]
      BY <3>1
    <3> HIDE DEF lines, typed, Column
    <3>5. lines \in Seq(FileRow)
      <4>1. lines = [i \in 1..Len(observed[c]) |-> lines[i]]
        BY <1>2, <3>4
      <4>2. \A i \in 1..Len(observed[c]) : lines[i] \in FileRow
        BY <1>2, <3>2
      <4> QED
        BY <1>2, <4>1, <4>2, SequenceOf
    <3> QED
      BY <3>2, <3>3, <3>4, <3>5 DEF Files
  <2> QED
    BY <2>1, <2>2 DEF Export
<1>4. FileIsTrue'
  BY <1>1, <1>3 DEF FileIsTrue, TrueRow
<1>5. ExchangeTyped' /\ RunsAreRecorded'
  BY <1>1, <1>3 DEF ExchangeInv, ExchangeTyped, RunsAreRecorded
<1>6. RowsTraced' /\ \A d \in Campaigns : WellFormed(d)'
  BY <1>1 DEF ExchangeInv, RowsTraced, Traced, SameTrial, SourceTraced, WellFormed
<1> QED
  BY <1>4, <1>5, <1>6 DEF ExchangeInv

LEMMA EditKeeps ==
  ASSUME ExchangeInv, Edit
  PROVE  ExchangeInv'
<1>1. PICK row \in Handwritten :
        file' = [format |-> IF file = NoFile THEN "jsonl" ELSE file.format,
                 typed |-> file.typed, rows |-> <<row>> \o file.rows]
  BY DEF Edit
<1>2. UNCHANGED <<observed, nextId, ran>>
  BY DEF Edit
<1>3. row \in FileRow /\ row.run = 0
  BY RowAssumption
<1>4. /\ file.rows \in Seq(FileRow) /\ file.typed \in BOOLEAN
      /\ file.format \in {"none", "csv", "jsonl"} /\ Len(file.rows) \in Nat
  BY DEF ExchangeInv, ExchangeTyped, Files
<1> DEFINE lines == <<row>> \o file.rows
<1>5. /\ lines \in Seq(FileRow) /\ Len(lines) = Len(file.rows) + 1 /\ lines[1] = row
      /\ \A i \in 1..Len(file.rows) : lines[i + 1] = file.rows[i]
  BY <1>3, <1>4
<1>6. /\ file'.rows = lines /\ file'.typed = file.typed
      /\ file'.format = (IF file = NoFile THEN "jsonl" ELSE file.format)
      /\ file' = [format |-> file'.format, typed |-> file'.typed, rows |-> lines]
  BY <1>1
<1> HIDE DEF lines
<1>7. ASSUME NEW i \in DOMAIN lines
      PROVE  TrueRow(lines[i], file'.typed, file'.format)
  <2>1. CASE i = 1
    <3>1. 0 \in 0..Len(ran)
      BY DEF ExchangeInv, ExchangeTyped
    <3> QED
      BY <1>3, <1>5, <2>1, <3>1 DEF TrueRow
  <2>2. CASE i # 1
    <3>1. i - 1 \in 1..Len(file.rows) /\ (i - 1) + 1 = i
      <4>1. PICK n \in Nat : n = Len(file.rows)
        BY <1>4
      <4>2. i \in 1..(n + 1)
        BY <1>5, <1>7, <4>1
      <4> QED
        BY <2>2, <4>1, <4>2
    <3>2. lines[i] = file.rows[i - 1] /\ i - 1 \in DOMAIN file.rows
      BY <1>4, <1>5, <3>1
    <3>3. file # NoFile
      BY <1>4, <3>1 DEF NoFile
    <3> QED
      BY <1>6, <3>2, <3>3 DEF ExchangeInv, FileIsTrue
  <2> QED
    BY <2>1, <2>2
<1>8. file' \in Files
  BY <1>4, <1>5, <1>6 DEF Files
<1>9. FileIsTrue'
  BY <1>2, <1>6, <1>7 DEF FileIsTrue, TrueRow
<1>10. ExchangeTyped' /\ RunsAreRecorded'
  BY <1>2, <1>8 DEF ExchangeInv, ExchangeTyped, RunsAreRecorded
<1>11. RowsTraced' /\ \A d \in Campaigns : WellFormed(d)'
  BY <1>2 DEF ExchangeInv, RowsTraced, Traced, SameTrial, SourceTraced, WellFormed
<1> QED
  BY <1>9, <1>10, <1>11 DEF ExchangeInv

\* Accepted rows of the file are taken in.
LEMMA TakesKeeps ==
  ASSUME ExchangeInv, NEW c \in Campaigns, NEW lines \in Seq(FileRow),
         \A k \in DOMAIN lines :
           Accepted(c, lines[k]) /\ TrueRow(lines[k], file.typed, file.format),
         Takes(c, lines), UNCHANGED <<file, ran>>
  PROVE  ExchangeInv'
<1>1. /\ observed[c] \in Seq(Row) /\ nextId[c] = Len(observed[c]) + 1 /\ Len(observed[c]) \in Nat
      /\ Len(lines) \in Nat /\ DOMAIN lines = 1..Len(lines)
      /\ observed \in [Campaigns -> Seq(Row)] /\ Len(ran) \in Nat
  BY DEF ExchangeInv, ExchangeTyped, WellFormed
<1>2. PICK new : new = Numbered(c, lines)
  OBVIOUS
<1>3. \A k \in 1..Len(lines) :
        nextId[c] + k - 1 = Len(observed[c]) + k /\ Len(observed[c]) + k \in Nat
  BY <1>1
<1>4. /\ DOMAIN new = 1..Len(lines)
      /\ new = [k \in 1..Len(lines) |-> Imported(c, lines[k], nextId[c] + k - 1)]
  BY <1>1, <1>2 DEF Numbered
<1>5. ASSUME NEW k \in 1..Len(lines)
      PROVE  /\ new[k] \in Row /\ Traced(new[k]) /\ Complete(new[k], Len(observed[c]) + k)
  <2>1. new[k] = Imported(c, lines[k], Len(observed[c]) + k)
    BY <1>3, <1>4
  <2>2. /\ lines[k] \in FileRow /\ Accepted(c, lines[k])
        /\ TrueRow(lines[k], file.typed, file.format)
    BY <1>1
  <2> QED
    BY <1>3, <2>1, <2>2, ImportedIs
<1>6. new \in Seq(Row) /\ Len(new) = Len(lines) /\ new \in [1..Len(lines) -> Row]
  <2>1. new = [k \in 1..Len(lines) |-> new[k]]
    BY <1>4
  <2>2. \A k \in 1..Len(lines) : new[k] \in Row
    BY <1>5
  <2>3. new \in Seq(Row) /\ Len(new) = Len(lines)
    BY <1>1, <2>1, <2>2, SequenceOf
  <2>4. new \in [1..Len(lines) -> Row]
    BY <2>1, <2>2
  <2> QED
    BY <2>3, <2>4
<1>7. PICK grown : grown = observed[c] \o new
  OBVIOUS
<1>8. /\ grown \in Seq(Row) /\ Len(grown) = Len(observed[c]) + Len(lines)
      /\ \A i \in 1..Len(observed[c]) : grown[i] = observed[c][i]
      /\ \A k \in 1..Len(lines) : grown[Len(observed[c]) + k] = new[k]
  <2>1. PICK old \in Seq(Row) : old = observed[c]
    BY <1>1
  <2>2. /\ old \o new \in Seq(Row) /\ Len(old \o new) = Len(old) + Len(new)
        /\ \A i \in 1..Len(old) : (old \o new)[i] = old[i]
        /\ \A k \in 1..Len(new) : (old \o new)[Len(old) + k] = new[k]
    BY <1>6, <2>1, Joined
  <2> QED
    BY <1>6, <1>7, <2>1, <2>2
<1>9. /\ observed' = [observed EXCEPT ![c] = grown]
      /\ nextId' = [nextId EXCEPT ![c] = @ + Len(lines)]
  BY <1>2, <1>7 DEF Takes
<1>10. /\ Len(ran') \in Nat /\ Len(ran') >= Len(ran) /\ \A k \in 1..Len(ran) : ran'[k] = ran[k]
  BY <1>1
<1>11. \A k \in 1..Len(lines) : Traced(new[k])'
  BY <1>5 DEF Traced, SameTrial, SourceTraced
<1>12. \A k \in 1..Len(lines) : Complete(new[k], Len(observed[c]) + k)
  BY <1>5
<1>13. /\ observed' \in [Campaigns -> Seq(Row)] /\ nextId' \in [Campaigns -> Nat]
       /\ RowsTraced' /\ \A d \in Campaigns : WellFormed(d)'
  BY <1>1, <1>6, <1>8, <1>9, <1>10, <1>11, <1>12, Grows
<1>14. ExchangeTyped' /\ RunsAreRecorded' /\ FileIsTrue'
  BY <1>13 DEF ExchangeInv, ExchangeTyped, RunsAreRecorded, FileIsTrue, TrueRow
<1> QED
  BY <1>13, <1>14 DEF ExchangeInv

LEMMA ImportKeeps ==
  ASSUME ExchangeInv, NEW c \in Campaigns, Import(c)
  PROVE  ExchangeInv'
<1>1. UNCHANGED <<file, ran>>
  BY DEF Import
<1>2. /\ file.rows \in Seq(FileRow) /\ DOMAIN file.rows = 1..Len(file.rows)
      /\ Len(file.rows) \in Nat
      /\ \A i \in DOMAIN file.rows : TrueRow(file.rows[i], file.typed, file.format)
  BY DEF ExchangeInv, ExchangeTyped, Files, FileIsTrue
<1>3. CASE (\A i \in DOMAIN file.rows : Accepted(c, file.rows[i])) /\ Takes(c, file.rows)
  BY <1>1, <1>2, <1>3, TakesKeeps
<1>4. ASSUME NEW lines \in Kept(c), Takes(c, lines)
      PROVE  ExchangeInv'
  <2> DEFINE fits == {i \in DOMAIN file.rows : Accepted(c, file.rows[i])}
             n == Cardinality(fits)
  <2>1. n \in Nat
    <3>1. PICK m \in Nat : m = Len(file.rows)
      BY <1>2
    <3>2. IsFiniteSet(1..m)
      <4>1. 1 \in Int /\ m \in Int
        OBVIOUS
      <4> QED
        BY <4>1, FS_Interval
    <3>3. fits \subseteq 1..m
      BY <1>2, <3>1
    <3> HIDE DEF fits
    <3>4. IsFiniteSet(fits)
      BY <3>2, <3>3, FS_Subset
    <3> QED
      BY <3>4, FS_CardinalityType
  <2>2. PICK places \in [1..n -> fits] : lines = [k \in DOMAIN places |-> file.rows[places[k]]]
    BY <1>4 DEF Kept
  <2> HIDE DEF n
  <2>3. /\ DOMAIN lines = 1..n /\ lines = [k \in 1..n |-> lines[k]]
        /\ \A k \in 1..n : lines[k] = file.rows[places[k]] /\ places[k] \in fits
    BY <2>2
  <2>4. \A k \in 1..n : /\ lines[k] \in FileRow /\ Accepted(c, lines[k])
                        /\ TrueRow(lines[k], file.typed, file.format)
    BY <1>2, <2>3
  <2>5. lines \in Seq(FileRow)
    BY <2>1, <2>3, <2>4
  <2> QED
    BY <1>1, <1>4, <2>3, <2>4, <2>5, TakesKeeps
<1> QED
  BY <1>3, <1>4 DEF Import

LEMMA ExchangeKept == ExchangeInv /\ [ExchangeNext]_exchangeVars => ExchangeInv'
<1> SUFFICES ASSUME ExchangeInv, [ExchangeNext]_exchangeVars PROVE ExchangeInv'
  OBVIOUS
<1>1. CASE UNCHANGED exchangeVars
  <2>1. UNCHANGED <<observed, nextId, file, ran>>
    BY <1>1 DEF exchangeVars
  <2>2. ExchangeTyped' /\ RunsAreRecorded' /\ FileIsTrue'
    BY <2>1 DEF ExchangeInv, ExchangeTyped, RunsAreRecorded, FileIsTrue, TrueRow
  <2>3. RowsTraced' /\ \A d \in Campaigns : WellFormed(d)'
    BY <2>1 DEF ExchangeInv, RowsTraced, Traced, SameTrial, SourceTraced, WellFormed
  <2> QED
    BY <2>2, <2>3 DEF ExchangeInv
<1>2. CASE ExchangeNext
  BY <1>2, ConcludeKeeps, ExportKeeps, ImportKeeps, EditKeeps DEF ExchangeNext
<1> QED
  BY <1>1, <1>2

LEMMA ExchangeRuns == [Next]_dataVars => [ExchangeNext]_exchangeVars
<1> SUFFICES ASSUME [Next]_dataVars PROVE [ExchangeNext]_exchangeVars
  OBVIOUS
<1>1. CASE ExchangeStep
  BY <1>1 DEF ExchangeStep
<1>2. CASE UNCHANGED exchangeVars
  BY <1>2
<1> QED
  BY <1>1, <1>2 DEF Next, SamplingStep, RankingStep, InspectionStep, ReportingStep,
                    ProjectionStep, dataVars

\* observations_io.py: an imported trial is the trial that ran, wherever it has
\* been, it knows where it came from, and its id is its own.
THEOREM RowsAlwaysSurvive == Spec => []RowsSurvive
<1>1. ExchangeInv => RowsSurvive
  <2> SUFFICES ASSUME ExchangeInv PROVE RowsSurvive
    OBVIOUS
  <2>1. ASSUME NEW r \in Rows PROVE SameTrial(r) /\ SourceTraced(r)
    <3>1. PICK c \in Campaigns : r \in ToSet(observed[c])
      BY <2>1 DEF Rows
    <3>2. PICK i \in DOMAIN observed[c] : r = observed[c][i]
      BY <3>1 DEF ToSet
    <3> QED
      BY <3>2 DEF ExchangeInv, RowsTraced, Traced
  <2> QED
    BY <2>1 DEF RowsSurvive, ExchangeInv
<1>2. Init => ExchangeInv
  BY ExchangeInitInv DEF Init
<1> QED
  BY <1>1, <1>2, ExchangeRuns, ExchangeKept, PTL DEF Spec

-----------------------------------------------------------------------------
(* Reporting: a record is what its result is read as, and reads as itself.  *)

Identified(map) == \A t \in DOMAIN map : IsResult(map[t]) /\ map[t].id = t

\* A record reads as itself.
ReadsAsItself(row) == row.status \in Statuses /\ Received(row) = {row}

ReportingInv ==
  /\ declared \in Declarations /\ DeclarationAccepted(declared)
  /\ result = NoResult \/ IsResult(result)
  /\ Identified(recorded) /\ \A t \in DOMAIN recorded : ReadsAsItself(recorded[t])
  /\ Identified(told) /\ DOMAIN told \subseteq DOMAIN recorded
  /\ \A t \in DOMAIN told : SchemaAllows(told[t]) /\ Received(told[t]) = {recorded[t]}
  /\ declared.version = 2 => \A t, u \in Successes : Known(recorded[t]) = Known(recorded[u])

ReadOf(r) ==
  [r EXCEPT !.status = CanonicalStatus(r.status),
            !.reason = TerminalReason(r, CanonicalStatus(r.status)), !.legacy = {}]

\* What a result is read as reads as itself.
LEMMA ReadingSettles ==
  ASSUME NEW r, IsResult(r), SchemaAllows(r), NEW row \in Received(r)
  PROVE  /\ IsResult(row) /\ row.id = r.id /\ row = ReadOf(r) /\ Received(r) = {row}
         /\ ReadsAsItself(row) /\ SameMeaning(r, row)
<1>1. /\ row = ReadOf(r) /\ Received(r) = {row}
      /\ ObjectivesFit(r, CanonicalStatus(r.status))
      /\ MeasurementsFit(r, CanonicalStatus(r.status))
  BY DEF Received, ReadOf
<1> DEFINE status == CanonicalStatus(r.status)
           reason == TerminalReason(r, status)
<1>2. status \in Statuses /\ CanonicalStatus(status) = status
  BY DEF SchemaAllows, CanonicalStatus, Statuses
<1> HIDE DEF status, reason
<1>3. row = [id |-> r.id, status |-> status, vector |-> r.vector, penalty |-> r.penalty,
             reason |-> reason, legacy |-> {}, sems |-> r.sems, measured |-> r.measured,
             msems |-> r.msems, scalarSem |-> r.scalarSem]
  BY <1>1 DEF ReadOf, IsResult, status, reason
<1>4. /\ row.id = r.id /\ row.status = status /\ row.vector = r.vector /\ row.penalty = r.penalty
      /\ row.reason = reason /\ row.legacy = {} /\ row.sems = r.sems
      /\ row.measured = r.measured /\ row.msems = r.msems /\ row.scalarSem = r.scalarSem
  BY <1>3
<1>5. IsResult(row)
  BY <1>3, <1>4 DEF IsResult
<1>6. TerminalReason(row, status) = reason
  <2>1. CASE status = "ok"
    BY <2>1 DEF TerminalReason, reason
  <2>2. CASE status # "ok"
    <3>1. reason # {}
      BY <2>2 DEF TerminalReason, reason
    <3> QED
      BY <1>4, <2>2, <3>1 DEF TerminalReason
  <2> QED
    BY <2>1, <2>2
<1>7. ObjectivesFit(row, status)
  BY <1>1, <1>4 DEF ObjectivesFit, status
<1>8. Measured(row) = Measured(r)
  <2>1. \A n \in {"sems", "measured", "msems"} : row[n] = r[n]
    BY <1>4
  <2> QED
    BY <1>4, <2>1 DEF Measured
<1>9. MeasurementsFit(row, status)
  BY <1>1, <1>4, <1>8 DEF MeasurementsFit, status
<1>10. [row EXCEPT !.status = status, !.reason = reason, !.legacy = {}] = row
  BY <1>3, <1>4
<1>11. Received(row) = {row}
  BY <1>2, <1>4, <1>6, <1>7, <1>9, <1>10 DEF Received
<1>12. SameMeaning(r, row)
  BY <1>4 DEF SameMeaning, status
<1> QED
  BY <1>1, <1>2, <1>4, <1>5, <1>11, <1>12 DEF ReadsAsItself

\* As long as the declaration stays, a result is read alike.
LEMMA ReadAlike ==
  ASSUME declared' = declared, NEW r
  PROVE  Received(r)' = Received(r)
<1>1. ObjectivesFit(r, CanonicalStatus(r.status))' = ObjectivesFit(r, CanonicalStatus(r.status))
  BY DEF ObjectivesFit, FiniteOption, CanonicalStatus
<1>2. MeasurementsFit(r, CanonicalStatus(r.status))'
        = MeasurementsFit(r, CanonicalStatus(r.status))
  BY DEF MeasurementsFit, FiniteOption, Finite, WeightedPolicy, Measured, CanonicalStatus
<1> QED
  BY <1>1, <1>2 DEF Received

LEMMA KnownAlike ==
  ASSUME declared' = declared, NEW r
  PROVE  Known(r)' = Known(r)
  BY DEF Known, ModeledSems, ScoreSem, Modeled, Limited, ErrorOf, Primary

LEMMA ReportingInitInv == ReportingInit => ReportingInv
<1> SUFFICES ASSUME ReportingInit PROVE ReportingInv
  OBVIOUS
<1>1. DOMAIN NoMap = {}
  BY DEF NoMap
<1> QED
  BY <1>1 DEF ReportingInit, ReportingInv, Identified, Successes

\* A record is added for a trial that has none.
LEMMA RecordsKeep ==
  ASSUME ReportingInv, NEW row, Records(row), row.id \notin DOMAIN recorded,
         IsResult(row), ReadsAsItself(row), CoverageFits(row)
  PROVE  /\ declared' \in Declarations /\ DeclarationAccepted(declared)' /\ declared' = declared
         /\ DOMAIN recorded' = DOMAIN recorded \cup {row.id}
         /\ recorded'[row.id] = row
         /\ \A t \in DOMAIN recorded : recorded'[t] = recorded[t]
         /\ Identified(recorded') /\ (\A t \in DOMAIN recorded : ReadsAsItself(recorded[t]))'
         /\ (declared.version = 2 =>
               \A t, u \in Successes : Known(recorded[t]) = Known(recorded[u]))'
<1>1. declared' = declared /\ recorded' = With(recorded, row.id, row)
  BY DEF Records
<1>2. /\ DOMAIN recorded' = DOMAIN recorded \cup {row.id} /\ recorded'[row.id] = row
      /\ \A t \in DOMAIN recorded : recorded'[t] = recorded[t]
  BY <1>1 DEF With
<1>3. declared' \in Declarations /\ DeclarationAccepted(declared)'
  BY <1>1 DEF ReportingInv
<1>4. Identified(recorded')
  BY <1>2 DEF ReportingInv, Identified
<1>5. ASSUME NEW t \in DOMAIN recorded' PROVE ReadsAsItself(recorded[t])'
  <2>1. PICK r : r = recorded'[t]
    OBVIOUS
  <2>2. ReadsAsItself(r)
    BY <1>2, <1>5, <2>1 DEF ReportingInv
  <2>3. r.status \in Statuses /\ Received(r)' = {r}
    BY <1>1, <2>2, ReadAlike DEF ReadsAsItself
  <2> QED
    BY <2>1, <2>3 DEF ReadsAsItself
<1>6. ASSUME declared.version = 2, NEW t \in DOMAIN recorded', NEW u \in DOMAIN recorded',
             recorded'[t].status = "ok", recorded'[u].status = "ok"
      PROVE  Known(recorded[t])' = Known(recorded[u])'
  <2>1. PICK r, s : r = recorded'[t] /\ s = recorded'[u]
    OBVIOUS
  <2>2. CoverageFits(row) /\ \A v, w \in Successes : Known(recorded[v]) = Known(recorded[w])
    BY <1>6 DEF ReportingInv
  <2>3. Known(r) = Known(s)
    <3>1. \A v \in DOMAIN recorded : recorded[v].status = "ok" /\ row.status = "ok" =>
            Known(recorded[v]) = Known(row)
      BY <1>6, <2>2 DEF CoverageFits
    <3>2. \A v, w \in DOMAIN recorded : recorded[v].status = "ok" /\ recorded[w].status = "ok" =>
            Known(recorded[v]) = Known(recorded[w])
      BY <2>2 DEF Successes
    <3> QED
      BY <1>2, <1>6, <2>1, <3>1, <3>2
  <2>4. Known(r)' = Known(r) /\ Known(s)' = Known(s)
    BY <1>1, KnownAlike
  <2> QED
    BY <2>1, <2>3, <2>4
<1>7. (declared.version = 2 => \A t, u \in Successes : Known(recorded[t]) = Known(recorded[u]))'
  BY <1>1, <1>6 DEF Successes
<1> QED
  BY <1>1, <1>2, <1>3, <1>4, <1>5, <1>7 DEF ReportingInv

LEMMA EvaluateKeeps ==
  ASSUME ReportingInv, IsResult(result') \/ result' = NoResult,
         UNCHANGED <<declared, recorded, told>>
  PROVE  ReportingInv'
<1>1. declared' = declared /\ recorded' = recorded /\ told' = told
  OBVIOUS
<1>2. ASSUME NEW t \in DOMAIN recorded PROVE ReadsAsItself(recorded[t])'
  <2>1. PICK r : r = recorded[t]
    OBVIOUS
  <2>2. ReadsAsItself(r)
    BY <1>2, <2>1 DEF ReportingInv
  <2>3. r.status \in Statuses /\ Received(r)' = {r}
    BY <1>1, <2>2, ReadAlike DEF ReadsAsItself
  <2> QED
    BY <1>1, <2>1, <2>3 DEF ReadsAsItself
<1>3. ASSUME NEW t \in DOMAIN told PROVE Received(told[t])' = {recorded[t]}'
  <2>1. PICK r : r = told[t]
    OBVIOUS
  <2>2. Received(r)' = {recorded[t]}
    BY <1>1, <2>1, ReadAlike DEF ReportingInv
  <2> QED
    BY <1>1, <2>1, <2>2
<1>4. ASSUME declared.version = 2, NEW t \in Successes, NEW u \in Successes
      PROVE  Known(recorded[t])' = Known(recorded[u])'
  <2>1. PICK r, s : r = recorded[t] /\ s = recorded[u]
    OBVIOUS
  <2>2. Known(r)' = Known(r) /\ Known(s)' = Known(s)
    BY <1>1, KnownAlike
  <2>3. Known(r) = Known(s)
    BY <1>4, <2>1 DEF ReportingInv
  <2> QED
    BY <1>1, <2>1, <2>2, <2>3
<1> QED
  BY <1>1, <1>2, <1>3, <1>4 DEF ReportingInv, Identified, Successes

LEMMA WithdrawKeeps ==
  ASSUME ReportingInv, NEW id \in Assigned, Withdraw(id)
  PROVE  ReportingInv'
<1> DEFINE row == [id |-> id, status |-> "killed",
                   vector |-> [n \in ToSet(declared.names) |-> {}], penalty |-> {},
                   reason |-> {"canceled"}, legacy |-> {},
                   sems |-> NoMap, measured |-> NoMap, msems |-> NoMap, scalarSem |-> {}]
<1>1. /\ row.id = id /\ row.status = "killed" /\ row.penalty = {} /\ row.reason = {"canceled"}
      /\ row.legacy = {} /\ row.vector = [n \in ToSet(declared.names) |-> {}]
      /\ row.sems = NoMap /\ row.measured = NoMap /\ row.msems = NoMap /\ row.scalarSem = {}
  OBVIOUS
<1>2. [Failed(id) EXCEPT !.status = "killed", !.penalty = {}, !.reason = {"canceled"},
                         !.vector = [n \in ToSet(declared.names) |-> {}]] = row
  <2> DEFINE none == Only(Primary, {})
             all == [n \in ToSet(declared.names) |-> {}]
             failed == [id |-> id, status |-> "failed", vector |-> none, penalty |-> {Penalty},
                        reason |-> {"exception"}, legacy |-> {},
                        sems |-> NoMap, measured |-> NoMap, msems |-> NoMap, scalarSem |-> {}]
  <2>1. Failed(id) = failed
    BY DEF Failed
  <2>2. /\ failed.id = id /\ failed.legacy = {} /\ failed.scalarSem = {}
        /\ failed.sems = NoMap /\ failed.measured = NoMap /\ failed.msems = NoMap
        /\ row.vector = all /\ DOMAIN failed = DOMAIN row
        /\ failed = [n \in DOMAIN row |-> failed[n]] /\ row = [n \in DOMAIN row |-> row[n]]
        /\ DOMAIN row = {"id", "status", "vector", "penalty", "reason", "legacy", "sems",
                         "measured", "msems", "scalarSem"}
    OBVIOUS
  <2> HIDE DEF none, all, failed, row
  <2>3. PICK f : f = [failed EXCEPT !.status = "killed", !.penalty = {},
                                    !.reason = {"canceled"}, !.vector = all]
    OBVIOUS
  <2>4. f.status = "killed" /\ f.penalty = {} /\ f.reason = {"canceled"} /\ f.vector = all
    BY <2>2, <2>3
  <2>5. /\ f.id = id /\ f.legacy = {} /\ f.scalarSem = {}
        /\ f.sems = NoMap /\ f.measured = NoMap /\ f.msems = NoMap
    BY <2>2, <2>3
  <2>6. DOMAIN f = DOMAIN row /\ f = [n \in DOMAIN row |-> f[n]]
    BY <2>2, <2>3
  <2>7. \A n \in DOMAIN row : f[n] = row[n]
    BY <1>1, <2>2, <2>4, <2>5
  <2>8. f = row
    BY <2>2, <2>6, <2>7
  <2> QED
    BY <2>1, <2>3, <2>8 DEF all
<1>3. Records(row) /\ id \notin DOMAIN recorded /\ result' = result /\ told' = told
  BY <1>2 DEF Withdraw
<1>4. IsResult(row)
  BY DEF IsResult
<1>5. row = [id |-> row.id, status |-> row.status, vector |-> row.vector,
              penalty |-> row.penalty, reason |-> row.reason, legacy |-> row.legacy,
              sems |-> row.sems, measured |-> row.measured, msems |-> row.msems,
              scalarSem |-> row.scalarSem]
  BY <1>4 DEF IsResult
<1> HIDE DEF row
<1>6. [row EXCEPT !.status = "killed", !.reason = {"canceled"}, !.legacy = {}] = row
  BY <1>1, <1>5
<1>7. ObjectivesFit(row, "killed")
  BY <1>1 DEF ObjectivesFit, FiniteOption
<1>8. Measured(row) = {}
  <2>1. row["sems"] = NoMap /\ row["measured"] = NoMap /\ row["msems"] = NoMap
    BY <1>1
  <2> QED
    BY <1>1, <2>1 DEF Measured
<1>9. MeasurementsFit(row, "killed")
  BY <1>8 DEF MeasurementsFit
<1>10. CanonicalStatus(row.status) = "killed" /\ TerminalReason(row, "killed") = {"canceled"}
  BY <1>1 DEF CanonicalStatus, TerminalReason
<1>11. ReadsAsItself(row)
  BY <1>1, <1>7, <1>9, <1>10, <1>6 DEF ReadsAsItself, Received, Statuses
<1>12. CoverageFits(row)
  BY <1>1 DEF CoverageFits
<1>13. /\ declared' \in Declarations /\ DeclarationAccepted(declared)' /\ declared' = declared
       /\ DOMAIN recorded' = DOMAIN recorded \cup {row.id}
       /\ \A t \in DOMAIN recorded : recorded'[t] = recorded[t]
       /\ Identified(recorded') /\ (\A t \in DOMAIN recorded : ReadsAsItself(recorded[t]))'
       /\ (declared.version = 2 =>
             \A t, u \in Successes : Known(recorded[t]) = Known(recorded[u]))'
  BY <1>3, <1>1, <1>11, <1>12, <1>4, RecordsKeep
<1>14. ASSUME NEW t \in DOMAIN told PROVE Received(told[t])' = {recorded'[t]}
  <2>1. PICK r : r = told[t]
    OBVIOUS
  <2>2. Received(r)' = {recorded[t]} /\ t \in DOMAIN recorded
    BY <1>13, <2>1, ReadAlike DEF ReportingInv
  <2> QED
    BY <1>3, <1>13, <2>1, <2>2
<1> QED
  BY <1>3, <1>13, <1>14 DEF ReportingInv, Identified

LEMMA IngestResultKeeps ==
  ASSUME ReportingInv, IngestResult
  PROVE  ReportingInv'
<1>1. /\ result # NoResult /\ IsResult(result) /\ result' = result
      /\ result.id \notin DOMAIN recorded /\ SchemaAllows(result)
      /\ told' = With(told, result.id, result)
  BY DEF IngestResult, Ingestible, ReportingInv
<1>2. PICK row \in Received(result) : Records(row) /\ CoverageFits(row)
  BY DEF IngestResult, Ingestible
<1>3. PICK r : r = result
  OBVIOUS
<1>4. /\ IsResult(row) /\ row.id = r.id /\ Received(r) = {row} /\ ReadsAsItself(row)
  BY <1>1, <1>2, <1>3, ReadingSettles
<1>5. /\ declared' \in Declarations /\ DeclarationAccepted(declared)' /\ declared' = declared
      /\ DOMAIN recorded' = DOMAIN recorded \cup {r.id} /\ recorded'[r.id] = row
      /\ \A t \in DOMAIN recorded : recorded'[t] = recorded[t]
      /\ Identified(recorded') /\ (\A t \in DOMAIN recorded : ReadsAsItself(recorded[t]))'
      /\ (declared.version = 2 =>
            \A t, u \in Successes : Known(recorded[t]) = Known(recorded[u]))'
  BY <1>1, <1>2, <1>3, <1>4, RecordsKeep
<1>6. /\ DOMAIN told' = DOMAIN told \cup {r.id} /\ told'[r.id] = r
      /\ \A t \in DOMAIN told : t # r.id => told'[t] = told[t]
  BY <1>1, <1>3 DEF With
<1>7. Identified(told')
  BY <1>1, <1>3, <1>6 DEF ReportingInv, Identified
<1>8. ASSUME NEW t \in DOMAIN told'
      PROVE  SchemaAllows(told'[t]) /\ Received(told[t])' = {recorded'[t]}
  <2>1. CASE t = r.id
    <3>1. Received(r)' = {row}
      BY <1>4, <1>5, ReadAlike
    <3> QED
      BY <1>1, <1>3, <1>5, <1>6, <2>1, <3>1
  <2>2. CASE t # r.id
    <3>1. PICK s : s = told[t]
      OBVIOUS
    <3>2. t \in DOMAIN told /\ s = told'[t] /\ t \in DOMAIN recorded
      BY <1>6, <1>8, <2>2, <3>1 DEF ReportingInv
    <3>3. Received(s)' = {recorded[t]} /\ SchemaAllows(s)
      BY <1>5, <3>1, <3>2, ReadAlike DEF ReportingInv
    <3> QED
      BY <1>5, <3>2, <3>3
  <2> QED
    BY <2>1, <2>2
<1>9. DOMAIN told' \subseteq DOMAIN recorded'
  BY <1>5, <1>6 DEF ReportingInv
<1> QED
  BY <1>1, <1>5, <1>7, <1>8, <1>9 DEF ReportingInv

\* Whatever the evaluator answers, what is written is a result.
LEMMA AnswersAreResults ==
  ASSUME NEW id, NEW a, NEW executor
  PROVE  IsResult(ResultOf(id, a, executor))
<1>1. IsResult(Failed(id))
  BY DEF IsResult, Failed
<1>2. IsResult(Evaluated(id, a))
  BY DEF IsResult, Evaluated
<1> QED
  BY <1>1, <1>2 DEF ResultOf

LEMMA ReportingKept == ReportingInv /\ [ReportingNext]_reportingVars => ReportingInv'
<1> SUFFICES ASSUME ReportingInv, [ReportingNext]_reportingVars PROVE ReportingInv'
  OBVIOUS
<1>1. ASSUME NEW id \in Assigned, NEW a \in Answers, NEW executor \in {"local", "aws-batch"},
             Evaluate(id, a, executor)
      PROVE  ReportingInv'
  <2>1. IsResult(result')
    BY <1>1, AnswersAreResults DEF Evaluate
  <2> QED
    BY <1>1, <2>1, EvaluateKeeps DEF Evaluate
<1>2. ASSUME NEW id \in Assigned, NEW s \in Submissions, Write(id, s)
      PROVE  ReportingInv'
  <2>1. IsResult(s) /\ result' = [s EXCEPT !.id = id]
    BY <1>2, ReportingAssumption DEF Write
  <2>2. IsResult(result')
    BY <2>1 DEF IsResult
  <2> QED
    BY <1>2, <2>2, EvaluateKeeps DEF Write
<1>3. CASE UNCHANGED reportingVars
  <2>1. UNCHANGED <<declared, recorded, told>> /\ result' = result
    BY <1>3 DEF reportingVars
  <2> QED
    BY <2>1, EvaluateKeeps DEF ReportingInv
<1> QED
  BY <1>1, <1>2, <1>3, WithdrawKeeps, IngestResultKeeps DEF ReportingNext

LEMMA LimitsMet ==
  ASSUME ReportingInv
  PROVE  LimitsCanBeMet
<1> SUFFICES ASSUME NEW m \in declared.metrics
             PROVE  \E v \in {c.bound : c \in declared.limits} \cup {0} :
                      \A c \in declared.limits :
                        c.metric = m => IF c.op = "<=" THEN v <= c.bound ELSE v >= c.bound
  BY DEF LimitsCanBeMet
<1> DEFINE up == {c \in declared.limits : c.metric = m /\ c.op = ">="}
           down == {c \in declared.limits : c.metric = m /\ c.op = "<="}
           rising == {p \in up \X up : p[1].bound <= p[2].bound}
           falling == {p \in down \X down : p[1].bound >= p[2].bound}
<1>1. /\ IsFiniteSet(declared.limits)
      /\ declared.limits \subseteq [metric : STRING, op : {"<=", ">="}, bound : Int]
  BY ReportingAssumption DEF ReportingInv
<1>2. \A c \in declared.limits : c.bound \in Int /\ c.op \in {"<=", ">="}
  BY <1>1
<1>3. IsFiniteSet(up) /\ IsFiniteSet(down)
  BY <1>1, FS_Subset
<1>4. \A c \in up, d \in down : c.bound <= d.bound
  BY DEF ReportingInv, DeclarationAccepted, OutcomesFit, Limit
<1>5. CASE up # {}
  <2>1. PICK c \in up : \A d \in up : <<d, c>> \in rising
    <3>1. \A d, e \in up : <<d, e>> \in rising \/ <<e, d>> \in rising
      BY <1>2
    <3>2. \A d, e, f \in up : <<d, e>> \in rising /\ <<e, f>> \in rising => <<d, f>> \in rising
      BY <1>2
    <3> HIDE DEF up, rising
    <3> QED
      BY <1>3, <1>5, <3>1, <3>2, LastOfFinite
  <2>2. \A d \in up : d.bound <= c.bound
    BY <2>1
  <2> WITNESS c.bound \in {k.bound : k \in declared.limits} \cup {0}
  <2> QED
    BY <1>2, <1>4, <2>2
<1>6. CASE up = {} /\ down # {}
  <2>1. PICK c \in down : \A d \in down : <<d, c>> \in falling
    <3>1. \A d, e \in down : <<d, e>> \in falling \/ <<e, d>> \in falling
      BY <1>2
    <3>2. \A d, e, f \in down :
             <<d, e>> \in falling /\ <<e, f>> \in falling => <<d, f>> \in falling
      BY <1>2
    <3> HIDE DEF down, falling
    <3> QED
      BY <1>3, <1>6, <3>1, <3>2, LastOfFinite
  <2>2. \A d \in down : d.bound >= c.bound
    BY <2>1
  <2> WITNESS c.bound \in {k.bound : k \in declared.limits} \cup {0}
  <2> QED
    BY <1>2, <1>6, <2>2
<1>7. CASE up = {} /\ down = {}
  <2> WITNESS 0 \in {k.bound : k \in declared.limits} \cup {0}
  <2> QED
    BY <1>2, <1>7
<1> QED
  BY <1>5, <1>6, <1>7

\* A record fits the contract it was read under.
LEMMA ContractFits ==
  ASSUME NEW row, ReadsAsItself(row)
  PROVE  ObjectivesFit(row, row.status) /\ MeasurementsFit(row, row.status)
<1>1. CanonicalStatus(row.status) = row.status
  BY DEF ReadsAsItself, CanonicalStatus, Statuses
<1> QED
  BY <1>1 DEF ReadsAsItself, Received

LEMMA OutcomesClean ==
  ASSUME ReportingInv
  PROVE  OutcomesAreClean
<1> SUFFICES ASSUME NEW t \in DOMAIN recorded, NEW row, row = recorded[t]
             PROVE  /\ DOMAIN row.vector = ToSet(declared.names)
                    /\ t \in Successes =>
                         /\ row.penalty = {}
                         /\ \A n \in DOMAIN row.vector :
                              row.vector[n] # {} /\ FiniteOption(row.vector[n])
                    /\ t \notin Successes =>
                         Measured(row) = {} /\ \A n \in DOMAIN row.vector : row.vector[n] = {}
  BY DEF OutcomesAreClean
<1>1. ObjectivesFit(row, row.status) /\ MeasurementsFit(row, row.status)
  BY ContractFits DEF ReportingInv
<1>2. t \in Successes <=> row.status = "ok"
  BY DEF Successes
<1> QED
  BY <1>1, <1>2 DEF ObjectivesFit, MeasurementsFit

LEMMA RepetitionsKnown ==
  ASSUME ReportingInv
  PROVE  RepetitionsAreKnown
<1>1. ASSUME NEW t \in DOMAIN told PROVE Repeats(told[t])
  <2>1. /\ told[t].id = t /\ t \in DOMAIN recorded /\ SchemaAllows(told[t])
        /\ Received(told[t]) = {recorded[t]}
    BY DEF ReportingInv, Identified
  <2>2. Received(recorded[t]) = {recorded[t]}
    BY <2>1 DEF ReportingInv, ReadsAsItself
  <2> QED
    BY <2>1, <2>2 DEF Repeats, Rebuilt
<1>2. ASSUME result # NoResult, result.id \in DOMAIN recorded, Repeats(result)
      PROVE  SameMeaning(result, recorded[result.id])
  <2>1. PICK r, row : r = result /\ row = recorded[result.id]
    OBVIOUS
  <2>2. IsResult(r) /\ SchemaAllows(r) /\ Received(r) = {row}
    <3>1. Received(row) = {row}
      BY <1>2, <2>1 DEF ReportingInv, ReadsAsItself
    <3>2. Received(r) = Received(row) /\ SchemaAllows(r)
      BY <1>2, <2>1 DEF Repeats, Rebuilt
    <3> QED
      BY <1>2, <2>1, <3>1, <3>2 DEF ReportingInv
  <2> QED
    BY <2>1, <2>2, ReadingSettles
<1> QED
  BY <1>1, <1>2 DEF RepetitionsAreKnown

LEMMA ModelFed ==
  ASSUME ReportingInv
  PROVE  ModelIsFed
<1>1. Limited \subseteq declared.metrics /\ (declared.version # 2 => declared.metrics = {})
  BY ReportingAssumption DEF ReportingInv, DeclarationAccepted, OutcomesFit, Limited
<1>2. Primary \in ToSet(declared.names)
  <2>1. declared.names \in Seq(STRING) /\ declared.names # <<>>
    BY ReportingAssumption DEF ReportingInv
  <2>2. 1 \in DOMAIN declared.names /\ Primary = declared.names[1]
    BY <2>1 DEF Primary
  <2> QED
    BY <2>2 DEF ToSet
<1>3. ASSUME NEW row, ReadsAsItself(row), row.status = "ok", NEW n \in Modeled
      PROVE  /\ Projected(row)[n].mean # {} /\ FiniteOption(Projected(row)[n].mean)
             /\ Projected(row)[n].sem = ModeledSems(row)[n]
             /\ declared.version # 2 => Projected(row)[n].sem = {}
  <2>1. ObjectivesFit(row, "ok") /\ MeasurementsFit(row, "ok")
    BY <1>3, ContractFits
  <2>2. \A name \in ToSet(declared.names) :
          row.vector[name] # {} /\ FiniteOption(row.vector[name])
    BY <2>1 DEF ObjectivesFit
  <2>3. declared.version # 2 => row.sems = NoMap /\ row.msems = NoMap /\ row.scalarSem = {}
    <3>1. ASSUME declared.version # 2 PROVE Measured(row) = {}
      BY <2>1, <3>1, ReportingAssumption DEF MeasurementsFit, ReportingInv
    <3>2. ASSUME declared.version # 2 PROVE row["sems"] = NoMap /\ row["msems"] = NoMap
      BY <3>1, <3>2 DEF Measured
    <3>3. ASSUME declared.version # 2 PROVE row.scalarSem = {}
      BY <3>1, <3>3 DEF Measured
    <3> QED
      BY <3>2, <3>3
  <2>4. DOMAIN NoMap = {}
    BY DEF NoMap
  <2>5. CASE n \in Limited
    <3>1. declared.version = 2 /\ n \in declared.metrics
      BY <1>1, <2>5
    <3>2. n \in DOMAIN row.measured /\ row.measured[n] # NotFinite
      BY <2>1, <3>1 DEF MeasurementsFit, Finite
    <3>3. /\ Projected(row)[n].mean = ErrorOf(row.measured, n)
          /\ Projected(row)[n].sem = ErrorOf(row.msems, n)
          /\ ModeledSems(row)[n] = ErrorOf(row.msems, n)
      BY <1>3, <2>5 DEF Projected, ModeledSems
    <3> QED
      BY <3>1, <3>2, <3>3 DEF ErrorOf, FiniteOption
  <2>6. CASE n \notin Limited /\ declared.acquisition = "pareto"
    <3>1. n \in ToSet(declared.names)
      BY <1>3, <2>6 DEF Modeled
    <3>2. /\ Projected(row)[n].mean = row.vector[n]
          /\ Projected(row)[n].sem = ErrorOf(row.sems, n)
          /\ ModeledSems(row)[n] = ErrorOf(row.sems, n)
      BY <1>3, <2>6 DEF Projected, ModeledSems
    <3> QED
      BY <2>2, <2>3, <2>4, <3>1, <3>2 DEF ErrorOf
  <2>7. CASE n \notin Limited /\ declared.acquisition # "pareto"
    <3>1. /\ Projected(row)[n].mean = row.vector[Primary] /\ Projected(row)[n].sem = ScoreSem(row)
          /\ ModeledSems(row)[n] = ScoreSem(row)
      BY <1>3, <2>7 DEF Projected, ModeledSems
    <3> QED
      BY <1>2, <2>2, <2>3, <2>4, <3>1 DEF ScoreSem, ErrorOf
  <2> QED
    BY <2>5, <2>6, <2>7
<1>4. ASSUME NEW t \in Successes, NEW u \in Successes, NEW n \in DOMAIN Projected(recorded[t])
      PROVE  /\ Projected(recorded[t])[n].mean # {}
             /\ FiniteOption(Projected(recorded[t])[n].mean)
             /\ (Projected(recorded[t])[n].sem = {}) = (Projected(recorded[u])[n].sem = {})
  <2>1. PICK r, s : r = recorded[t] /\ s = recorded[u]
    OBVIOUS
  <2>2. ReadsAsItself(r) /\ r.status = "ok" /\ ReadsAsItself(s) /\ s.status = "ok"
    BY <2>1 DEF Successes, ReportingInv
  <2>3. n \in Modeled
    BY DEF Projected
  <2>4. declared.version = 2 => Known(r) = Known(s)
    BY <2>1 DEF ReportingInv
  <2>5. (n \in Known(r) <=> ModeledSems(r)[n] # {}) /\ (n \in Known(s) <=> ModeledSems(s)[n] # {})
    BY <2>3 DEF Known, ModeledSems
  <2>6. /\ Projected(r)[n].mean # {} /\ FiniteOption(Projected(r)[n].mean)
        /\ Projected(r)[n].sem = ModeledSems(r)[n] /\ Projected(s)[n].sem = ModeledSems(s)[n]
        /\ declared.version # 2 => Projected(r)[n].sem = {} /\ Projected(s)[n].sem = {}
    BY <1>3, <2>2, <2>3
  <2>7. Projected(r)[n].sem = {} <=> Projected(s)[n].sem = {}
    BY <2>4, <2>5, <2>6
  <2> QED
    BY <2>1, <2>6, <2>7
<1> QED
  BY <1>4 DEF ModelIsFed

LEMMA FailureReaches ==
  ASSUME NEW id \in Assigned \ DOMAIN recorded, NEW a, NEW executor \in {"local", "aws-batch"},
         NEW r, r = ResultOf(id, a, executor), r.status # "ok"
  PROVE  Ingestible(r) <=> DOMAIN r.vector = ToSet(declared.names)
<1>1. id \in Nat /\ id >= 1 /\ FiniteOption({Penalty})
  BY ReportingAssumption DEF FiniteOption
<1>2. /\ r.id = id /\ r.status \in Statuses /\ Measured(r) = {} /\ FiniteOption(r.penalty)
      /\ r.sems = NoMap /\ r.msems = NoMap /\ r.scalarSem = {}
      /\ \A n \in DOMAIN r.vector : r.vector[n] = {}
  <2>1. CASE r = Failed(id)
    <3>1. /\ r.id = id /\ r.status = "failed" /\ r.penalty = {Penalty}
          /\ r.vector = Only(Primary, {})
          /\ r.sems = NoMap /\ r.measured = NoMap /\ r.msems = NoMap /\ r.scalarSem = {}
      BY <2>1 DEF Failed
    <3>2. r["sems"] = NoMap /\ r["measured"] = NoMap /\ r["msems"] = NoMap
      BY <3>1
    <3>3. Measured(r) = {}
      BY <3>1, <3>2 DEF Measured
    <3> QED
      BY <1>1, <3>1, <3>3 DEF Statuses, Only
  <2>2. CASE r = Evaluated(id, a) /\ AnswerFits(a)
    <3>1. PICK status : status = CanonicalStatus(a.status)
      OBVIOUS
    <3>2. /\ r.id = id /\ r.status = status
          /\ r.vector = IF a.vector # NoMap THEN a.vector ELSE Only(Primary, a.objective)
          /\ r.penalty = IF status # "ok" /\ a.penalty = {} THEN {Penalty} ELSE a.penalty
          /\ r.sems = a.sems /\ r.measured = a.measured /\ r.msems = a.msems
          /\ r.scalarSem = a.scalarSem
      BY <2>2, <3>1 DEF Evaluated
    <3>3. /\ status \in Statuses /\ status # "ok" /\ Measured(a) = {}
          /\ a.objective = {} /\ FiniteOption(a.penalty)
          /\ a.vector # NoMap => \A n \in DOMAIN a.vector : a.vector[n] = {}
      BY <2>2, <3>1, <3>2 DEF AnswerFits, VectorFits
    <3>4. a["sems"] = NoMap /\ a["measured"] = NoMap /\ a["msems"] = NoMap /\ a.scalarSem = {}
      BY <3>3 DEF Measured
    <3>5. Measured(r) = {}
      <4>1. r["sems"] = NoMap /\ r["measured"] = NoMap /\ r["msems"] = NoMap /\ r.scalarSem = {}
        BY <3>2, <3>4
      <4> QED
        BY <4>1 DEF Measured
    <3>6. FiniteOption(r.penalty)
      BY <1>1, <3>2, <3>3
    <3>7. \A n \in DOMAIN r.vector : r.vector[n] = {}
      BY <3>2, <3>3 DEF Only
    <3> QED
      BY <3>2, <3>3, <3>4, <3>5, <3>6, <3>7
  <2> QED
    BY <2>1, <2>2 DEF ResultOf, RemoteFits
<1>3. SchemaAllows(r)
  <2>1. \A n \in {"sems", "msems"} : DOMAIN r[n] = {}
    BY <1>2 DEF NoMap
  <2> QED
    BY <1>1, <1>2, <2>1 DEF SchemaAllows
<1>4. CanonicalStatus(r.status) = r.status /\ MeasurementsFit(r, r.status)
  BY <1>2 DEF CanonicalStatus, Statuses, MeasurementsFit
<1>5. ObjectivesFit(r, r.status) <=> DOMAIN r.vector = ToSet(declared.names)
  BY <1>2 DEF ObjectivesFit
<1>6. \A row \in Received(r) : row.status # "ok"
  <2>1. ASSUME NEW row \in Received(r) PROVE row.status = r.status
    <3>1. IsResult(r)
      BY AnswersAreResults
    <3> QED
      BY <1>3, <3>1, <1>4, ReadingSettles DEF SameMeaning
  <2> QED
    BY <2>1
<1>7. Received(r) # {} <=> ObjectivesFit(r, r.status)
  BY <1>4 DEF Received
<1> QED
  BY <1>2, <1>3, <1>5, <1>6, <1>7 DEF Ingestible, CoverageFits

LEMMA ReportingRuns == [Next]_dataVars => [ReportingNext]_reportingVars
<1> SUFFICES ASSUME [Next]_dataVars PROVE [ReportingNext]_reportingVars
  OBVIOUS
<1>1. CASE ReportingStep
  BY <1>1 DEF ReportingStep
<1>2. CASE UNCHANGED reportingVars
  BY <1>2
<1> QED
  BY <1>1, <1>2 DEF Next, SamplingStep, RankingStep, ExchangeStep, InspectionStep,
                    ProjectionStep, dataVars

\* run_one_eval.py, contract.py, ax_contract.py: whatever evaluators answer and users
\* write, no outcome is lost, changed or counted as another on its way to the optimizer.
THEOREM ReportsAlwaysSettle == Spec => []ReportsAreSettled
<1>1. ReportingInv => ReportsAreSettled
  <2> SUFFICES ASSUME ReportingInv PROVE ReportsSettle
    BY DEF ReportsAreSettled
  <2>1. FailuresReach
    <3>1. ASSUME NEW id \in Assigned \ DOMAIN recorded, NEW a \in Answers,
                 NEW executor \in {"local", "aws-batch"}, ResultOf(id, a, executor).status # "ok"
          PROVE  Ingestible(ResultOf(id, a, executor))
                   <=> DOMAIN ResultOf(id, a, executor).vector = ToSet(declared.names)
      BY <3>1, FailureReaches
    <3>2. \A r : Ingestible(r) \in BOOLEAN
      BY DEF Ingestible
    <3> QED
      BY <3>1, <3>2 DEF FailuresReach
  <2> QED
    BY <2>1, OutcomesClean, ModelFed, RepetitionsKnown, LimitsMet DEF ReportsSettle
<1>2. Init => ReportingInv
  BY ReportingInitInv DEF Init
<1> QED
  BY <1>1, <1>2, ReportingRuns, ReportingKept, PTL DEF Spec

-----------------------------------------------------------------------------
(* Inspection: its invariant is that of InspectionProofs.                   *)

LEMMA InspectionRuns == [Next]_dataVars => [InspectionNext]_inspectionVars
<1> SUFFICES ASSUME [Next]_dataVars PROVE [InspectionNext]_inspectionVars
  OBVIOUS
<1>1. CASE InspectionStep
  BY <1>1 DEF InspectionStep
<1>2. CASE UNCHANGED inspectionVars
  BY <1>2
<1> QED
  BY <1>1, <1>2 DEF Next, SamplingStep, RankingStep, ExchangeStep, ReportingStep,
                    ProjectionStep, dataVars

\* run_bo.py validate, health and metrics, and the reads of _runtime_worker.py: whatever
\* command is running, was interrupted or died meanwhile, what they say of a campaign
\* they did not lock is what was, is, or is about to be.
THEOREM LooksStayTrue == Spec => []LooksAreTrue
<1>1. InspectionInv => LooksAreTrue
  BY LooksTrue DEF LooksAreTrue
<1>2. Init => InspectionInv
  BY InspectionInitInv DEF Init
<1> QED
  BY <1>1, <1>2, InspectionRuns, InspectionKept, PTL DEF Spec

-----------------------------------------------------------------------------
(* AxProjection: what is known of a snapshot, and that a client made anew   *)
(* from the records is up to date.                                          *)

TrialStatuses == {"pending", "ok", "failed", "killed"}
TrialRecord == [point : Everywhere, status : TrialStatuses]
Fields == {"format", "fingerprint", "lineage", "generation", "last", "due", "snapshot"}
Commands == [pc : {"idle", "allocate", "publish", "clear"}, count : Nat]

ProjectionTyped ==
  /\ config \in Configurations
  /\ records \in Seq(TrialRecord)
  /\ rebuilds \in Nat
  /\ command \in Commands

\* A client that agrees with the records, as far as it was told of them.
Agrees(client) ==
  /\ client.trials \in Seq(TrialRecord)
  /\ Projectable(client) /\ IsInjective(client.mapping)
  /\ \A id \in DOMAIN client.mapping :
       /\ client.mapping[id] \in DOMAIN client.trials
       /\ client.trials[client.mapping[id]] = client.signatures[id]
  /\ \A i \in DOMAIN client.trials : client.trials[i].status = "pending" =>
       \E id \in DOMAIN client.mapping : client.mapping[id] = i

\* One that was told of all of them.
UpToDate(client) ==
  Agrees(client) /\ DOMAIN client.mapping = Ids /\ client.signatures = records

\* The state of the optimizer is that of its snapshot, of which there is one as
\* soon as Ax has suggested a trial or was rebuilt.
Described(o) ==
  /\ optimizer = {o} /\ DOMAIN o = Fields
  /\ o.format \in {1, 2} /\ o.fingerprint.contract = o.format
  /\ o.snapshot = {} => DOMAIN origin = {} /\ rebuilds = 0
  /\ \A s \in o.snapshot :
       /\ o.snapshot = {s} /\ Agrees(s)
       /\ s.format = o.format /\ s.fingerprint = o.fingerprint
       /\ s.lineage = o.lineage /\ s.generation = o.generation /\ s.last = o.last
  /\ \A id \in Ids : records[id].point \notin o.fingerprint.setup.points =>
       o.format = 1 /\ id \notin DOMAIN origin

Suggested == DOMAIN origin \subseteq Ids /\ Pending \subseteq DOMAIN origin

\* Rebuilds are numbered in the order in which they are committed; the last one
\* may wait for its event.
Numbers(n) == [i \in 1..n |-> i]
Audited ==
  /\ committed = Numbers(rebuilds)
  /\ optimizer = {} => rebuilds = 0
  /\ \A o \in optimizer : o.lineage = rebuilds
  /\ Due = {} => audit = committed
  /\ Due # {} =>
       /\ rebuilds > 0 /\ audit \in {committed, Numbers(rebuilds - 1)}
       /\ Due = {[rebuild |-> rebuilds, lineage |-> rebuilds, generation |-> 0]}
       /\ \A o \in optimizer : o.last = {rebuilds} /\ o.generation = 0

\* What a command has found out so far still holds: nothing else runs.
Underway ==
  /\ command.pc = "idle" => Idle
  /\ ~Idle => BackendMatches
  /\ command.pc = "allocate" => Due = {}
  /\ command.pc = "publish" => Due # {}
  /\ command.pc = "clear" => Due # {} /\ audit = committed

ProjectionInv ==
  /\ ProjectionTyped /\ (\A o \in optimizer : Described(o))
  /\ Suggested /\ WorkIsDistinct /\ WorkIsDeliverable /\ Audited /\ Underway

-----------------------------------------------------------------------------
(* Sequences made of sets.                                                  *)

Lists(s, S) ==
  /\ s \in Seq(S) /\ DOMAIN s = 1..Len(s) /\ IsInjective(s)
  /\ \A x \in S : \E k \in DOMAIN s : s[k] = x

\* SetToSeq lists every element of a finite set once.
LEMMA SequenceOfSet ==
  ASSUME NEW S, IsFiniteSet(S)
  PROVE  /\ SetToSeq(S) \in Seq(S) /\ IsInjective(SetToSeq(S))
         /\ DOMAIN SetToSeq(S) = 1..Len(SetToSeq(S))
         /\ \A x \in S : \E k \in DOMAIN SetToSeq(S) : SetToSeq(S)[k] = x
         /\ Len(SetToSeq(S)) = Cardinality(S)
<1>1. Cardinality(S) \in Nat /\ ExistsBijection(1..Cardinality(S), S)
  BY FS_CardinalityType
<1>2. PICK f \in [1..Cardinality(S) -> S] : IsInjective(f)
  BY <1>1 DEF ExistsBijection, Bijection, Injection, IsInjective
<1>3. SetToSeq(S) \in [1..Cardinality(S) -> S] /\ IsInjective(SetToSeq(S))
  BY <1>2 DEF SetToSeq
<1>4. PICK s : s = SetToSeq(S)
  OBVIOUS
<1>5. s \in Seq(S) /\ Len(s) = Cardinality(S) /\ DOMAIN s = 1..Len(s)
  BY <1>1, <1>3, <1>4
<1>6. s \in Injection(1..Cardinality(S), S)
  BY <1>3, <1>4 DEF Injection, IsInjective
<1>7. IsFiniteSet(1..Cardinality(S)) /\ Cardinality(1..Cardinality(S)) = Cardinality(S)
  BY <1>1, FS_Interval
<1>8. s \in Surjection(1..Cardinality(S), S)
  BY <1>6, <1>7, FS_Injection
<1>9. \A x \in S : \E k \in 1..Cardinality(S) : s[k] = x
  BY <1>8 DEF Surjection
<1>10. 1..Cardinality(S) = DOMAIN s
  BY <1>1, <1>5
<1> QED
  BY <1>3, <1>4, <1>5, <1>9, <1>10

\* Two of them, one after the other.
LEMMA TwoSequences ==
  ASSUME NEW A, NEW B, IsFiniteSet(A), IsFiniteSet(B), A \cap B = {},
         NEW s, s = SetToSeq(A) \o SetToSeq(B)
  PROVE  Lists(s, A \cup B)
<1>1. PICK a : a = SetToSeq(A)
  OBVIOUS
<1>2. PICK b : b = SetToSeq(B)
  OBVIOUS
<1>3. /\ a \in Seq(A) /\ DOMAIN a = 1..Len(a) /\ IsInjective(a)
      /\ \A x \in A : \E k \in DOMAIN a : a[k] = x
  BY <1>1, SequenceOfSet
<1>4. /\ b \in Seq(B) /\ DOMAIN b = 1..Len(b) /\ IsInjective(b)
      /\ \A x \in B : \E k \in DOMAIN b : b[k] = x
  BY <1>2, SequenceOfSet
<1>5. a \in Seq(A \cup B) /\ b \in Seq(A \cup B) /\ s = a \o b
  BY <1>1, <1>2, <1>3, <1>4, SeqMonotonic
<1>6. /\ s \in Seq(A \cup B) /\ Len(s) = Len(a) + Len(b) /\ DOMAIN s = 1..Len(s)
      /\ Len(a) \in Nat /\ Len(b) \in Nat
      /\ \A k \in 1..Len(s) : s[k] = IF k <= Len(a) THEN a[k] ELSE b[k - Len(a)]
  BY <1>5, ConcatProperties
<1>7. ASSUME NEW k \in 1..Len(s), k <= Len(a)
      PROVE  k \in DOMAIN a /\ s[k] = a[k] /\ s[k] \in A
  BY <1>3, <1>6, <1>7
<1>8. ASSUME NEW k \in 1..Len(s), ~(k <= Len(a))
      PROVE  k - Len(a) \in DOMAIN b /\ s[k] = b[k - Len(a)] /\ s[k] \in B
  <2>1. k - Len(a) \in 1..Len(b)
    BY <1>6, <1>8
  <2>2. s[k] = b[k - Len(a)]
    BY <1>6, <1>8
  <2> QED
    BY <1>4, <2>1, <2>2
<1>9. ASSUME NEW i \in DOMAIN s, NEW j \in DOMAIN s, s[i] = s[j] PROVE i = j
  <2>1. i \in 1..Len(s) /\ j \in 1..Len(s)
    BY <1>6
  <2>2. CASE i <= Len(a) /\ j <= Len(a)
    BY <1>3, <1>7, <1>9, <2>1, <2>2 DEF IsInjective
  <2>3. CASE ~(i <= Len(a)) /\ ~(j <= Len(a))
    <3>1. /\ i - Len(a) \in DOMAIN b /\ s[i] = b[i - Len(a)]
          /\ j - Len(a) \in DOMAIN b /\ s[j] = b[j - Len(a)]
      BY <1>8, <2>1, <2>3
    <3>2. i - Len(a) = j - Len(a)
      BY <1>4, <1>9, <3>1 DEF IsInjective
    <3> QED
      BY <1>6, <2>1, <3>2
  <2>4. (i <= Len(a)) = (j <= Len(a))
    BY <1>7, <1>8, <1>9, <2>1
  <2> QED
    BY <2>2, <2>3, <2>4
<1>10. ASSUME NEW x \in A \cup B PROVE \E k \in DOMAIN s : s[k] = x
  <2>1. CASE x \in A
    <3>1. PICK k \in DOMAIN a : a[k] = x
      BY <1>3, <2>1
    <3>2. k \in 1..Len(s) /\ k <= Len(a)
      BY <1>3, <1>6, <3>1
    <3> QED
      BY <1>6, <1>7, <3>1, <3>2
  <2>2. CASE x \in B
    <3>1. PICK k \in DOMAIN b : b[k] = x
      BY <1>4, <2>2
    <3>2. k + Len(a) \in 1..Len(s) /\ ~(k + Len(a) <= Len(a)) /\ (k + Len(a)) - Len(a) = k
      BY <1>4, <1>6, <3>1
    <3> QED
      BY <1>6, <1>8, <3>1, <3>2
  <2> QED
    BY <2>1, <2>2
<1> QED
  BY <1>6, <1>9, <1>10 DEF IsInjective, Lists


-----------------------------------------------------------------------------
(* The projection of the records into a client.                             *)

LEMMA RecordsAre ==
  ASSUME ProjectionTyped
  PROVE  /\ Ids = 1..Len(records) /\ Len(records) \in Nat /\ IsFiniteSet(Ids)
         /\ \A id \in Ids : records[id] \in TrialRecord
         /\ Pending \subseteq Ids
<1>1. records \in Seq(TrialRecord)
  BY DEF ProjectionTyped
<1>2. Ids = 1..Len(records) /\ Len(records) \in Nat
  BY <1>1 DEF Ids
<1>3. IsFiniteSet(Ids)
  BY <1>2, FS_Interval
<1>4. \A id \in Ids : records[id] \in TrialRecord
  BY <1>1, <1>2, ElementOfSeq
<1> QED
  BY <1>2, <1>3, <1>4 DEF Pending

\* A client that followed the records is brought up to date, whatever it was
\* told before.
LEMMA ProjectionUpToDate ==
  ASSUME ProjectionTyped, NEW base, Agrees(base), NEW c, c = Projection(base)
  PROVE  UpToDate(c)
<1> DEFINE known == DOMAIN base.mapping
<1>1. PICK new : new = SetToSeq(Ids \ (Pending \cup known)) \o SetToSeq(Pending \ known)
  OBVIOUS
<1>2. /\ Ids = 1..Len(records) /\ Len(records) \in Nat /\ IsFiniteSet(Ids)
      /\ \A id \in Ids : records[id] \in TrialRecord
      /\ Pending \subseteq Ids
  BY RecordsAre
<1>3. /\ base.trials \in Seq(TrialRecord)
      /\ known \subseteq Ids /\ IsInjective(base.mapping)
      /\ \A id \in known :
           base.mapping[id] \in DOMAIN base.trials
      /\ \A i \in DOMAIN base.trials : base.trials[i].status = "pending" =>
           \E id \in known : base.mapping[id] = i
  BY DEF Agrees, Projectable
<1>4. /\ new \in Seq(Ids \ known) /\ DOMAIN new = 1..Len(new) /\ IsInjective(new)
      /\ \A id \in Ids \ known : \E k \in DOMAIN new : new[k] = id
  <2>1. IsFiniteSet(Ids \ (Pending \cup known)) /\ IsFiniteSet(Pending \ known)
    BY <1>2, FS_Subset
  <2>2. (Ids \ (Pending \cup known)) \cup (Pending \ known) = Ids \ known
    BY <1>2
  <2>3. PICK A, B : A = Ids \ (Pending \cup known) /\ B = Pending \ known
    OBVIOUS
  <2>4. A \cap B = {} /\ IsFiniteSet(A) /\ IsFiniteSet(B) /\ A \cup B = Ids \ known
    BY <2>1, <2>2, <2>3
  <2>5. new = SetToSeq(A) \o SetToSeq(B)
    BY <1>1, <2>3
  <2>6. Lists(new, A \cup B)
    BY <2>4, <2>5, TwoSequences
  <2> QED
    BY <2>4, <2>6 DEF Lists
<1>5. PICK n : n = Len(base.trials) /\ n \in Nat /\ DOMAIN base.trials = 1..n
  BY <1>3
<1> DEFINE Told(i) == IF \E id \in known : base.mapping[id] = i
                      THEN records[CHOOSE id \in known : base.mapping[id] = i] ELSE base.trials[i]
<1>6. PICK old : old = [i \in DOMAIN base.trials |-> Told(i)]
  OBVIOUS
<1>7. PICK att : att = [k \in DOMAIN new |-> records[new[k]]]
  OBVIOUS
<1>8. /\ c.trials = old \o att
      /\ c.mapping = Merged(base.mapping,
           [id \in Ids \ known |-> Len(base.trials) + (CHOOSE k \in DOMAIN new : new[k] = id)])
      /\ c.signatures = records
  <2>1. c = [trials |-> old \o att,
             mapping |-> Merged(base.mapping,
               [id \in Ids \ known |-> Len(base.trials) + (CHOOSE k \in DOMAIN new : new[k] = id)]),
             signatures |-> records]
    BY <1>1, <1>5, <1>6, <1>7 DEF Projection
  <2> QED
    BY <2>1
<1>9. ASSUME NEW i \in 1..n PROVE old[i] \in TrialRecord
  <2>1. CASE \E id \in known : base.mapping[id] = i
    <3>1. PICK id \in known : id = (CHOOSE x \in known : base.mapping[x] = i)
      BY <2>1
    <3> QED
      BY <1>2, <1>3, <1>5, <1>6, <2>1, <3>1
  <2>2. CASE ~\E id \in known : base.mapping[id] = i
    <3>1. old[i] = base.trials[i]
      BY <1>5, <1>6, <2>2
    <3> QED
      BY <1>3, <1>5, <3>1, ElementOfSeq
  <2> QED
    BY <2>1, <2>2
<1>10. old \in Seq(TrialRecord) /\ Len(old) = n
  <2>1. old \in [1..n -> TrialRecord]
    BY <1>5, <1>6, <1>9
  <2> QED
    BY <1>5, <2>1
<1>11. \A k \in 1..Len(new) : new[k] \in Ids \ known
  BY <1>4, ElementOfSeq
<1>12. att \in Seq(TrialRecord) /\ Len(att) = Len(new) /\ Len(new) \in Nat
  BY <1>2, <1>4, <1>7, <1>11
<1>13. /\ c.trials \in Seq(TrialRecord) /\ DOMAIN c.trials = 1..(n + Len(new))
       /\ \A i \in 1..(n + Len(new)) : c.trials[i] = IF i <= n THEN old[i] ELSE att[i - n]
  <2>1. PICK t : t = old \o att
    OBVIOUS
  <2>2. /\ t \in Seq(TrialRecord) /\ Len(t) = Len(old) + Len(att)
        /\ \A i \in 1..(Len(old) + Len(att)) :
             t[i] = IF i <= Len(old) THEN old[i] ELSE att[i - Len(old)]
    BY ZenonT(30), <1>10, <1>12, <2>1, ConcatProperties
  <2>3. DOMAIN t = 1..Len(t)
    BY <2>2
  <2> QED
    BY <1>8, <1>10, <1>12, <2>1, <2>2, <2>3
<1>14. DOMAIN c.mapping = Ids
  BY <1>3, <1>8 DEF Merged
<1>15. ASSUME NEW id \in known
       PROVE  /\ c.mapping[id] = base.mapping[id] /\ c.mapping[id] \in 1..n
              /\ c.trials[c.mapping[id]] = records[id]
  <2>1. c.mapping[id] = base.mapping[id] /\ c.mapping[id] \in 1..n
    BY <1>3, <1>5, <1>8 DEF Merged
  <2>2. old[base.mapping[id]] = records[id]
    <3>1. PICK i \in DOMAIN base.trials : i = base.mapping[id]
      BY <1>5, <2>1
    <3>2. old[i] = Told(i)
      BY <1>6
    <3>3. PICK x : x = CHOOSE y \in known : base.mapping[y] = i
      OBVIOUS
    <3>4. x \in known /\ base.mapping[x] = i
      BY <3>1, <3>3
    <3>5. x = id
      BY <1>3, <3>1, <3>4 DEF IsInjective
    <3>6. Told(i) = records[x]
      BY <3>1, <3>3
    <3> HIDE DEF Told
    <3> QED
      BY <3>1, <3>2, <3>5, <3>6
  <2>3. PICK m \in 1..n : m = c.mapping[id]
    BY <2>1
  <2>4. m \in 1..(n + Len(new)) /\ m <= n
    BY <1>5, <1>12
  <2>5. c.trials[m] = old[m]
    BY <1>13, <2>4
  <2> QED
    BY <2>1, <2>2, <2>3, <2>5
<1>16. ASSUME NEW k \in 1..Len(new)
       PROVE  c.mapping[new[k]] = n + k /\ c.trials[n + k] = records[new[k]]
  <2>1. (CHOOSE x \in DOMAIN new : new[x] = new[k]) = k
    BY <1>4 DEF IsInjective
  <2>2. c.mapping[new[k]] = n + k
    BY <1>5, <1>8, <1>11, <2>1 DEF Merged
  <2>3. n + k \in 1..(n + Len(new)) /\ ~(n + k <= n) /\ (n + k) - n = k
    BY <1>5, <1>12
  <2>4. c.trials[n + k] = att[k]
    BY <1>13, <2>3
  <2> QED
    BY <1>4, <1>7, <2>2, <2>4
<1>17. ASSUME NEW id \in Ids \ known
       PROVE  \E k \in 1..Len(new) : new[k] = id
  BY <1>4
<1>18. ASSUME NEW id \in Ids
       PROVE  c.mapping[id] \in DOMAIN c.trials /\ c.trials[c.mapping[id]] = records[id]
  <2>1. CASE id \in known
    <3>1. c.mapping[id] \in 1..(n + Len(new))
      BY <1>5, <1>12, <1>15, <2>1
    <3> QED
      BY <1>13, <1>15, <2>1, <3>1
  <2>2. CASE id \notin known
    <3>1. PICK k \in 1..Len(new) : new[k] = id
      BY <1>17, <2>2
    <3>2. n + k \in 1..(n + Len(new))
      BY <1>5, <1>12
    <3> QED
      BY <1>13, <1>16, <3>1, <3>2
  <2> QED
    BY <2>1, <2>2
<1>19. ASSUME NEW x \in Ids, NEW y \in Ids, c.mapping[x] = c.mapping[y] PROVE x = y
  <2>1. CASE x \in known /\ y \in known
    BY <1>3, <1>15, <1>19, <2>1 DEF IsInjective
  <2>2. CASE x \notin known /\ y \notin known
    <3>1. PICK k \in 1..Len(new) : new[k] = x
      BY <1>17, <2>2
    <3>2. PICK l \in 1..Len(new) : new[l] = y
      BY <1>17, <2>2
    <3>3. n + k = n + l
      BY <1>16, <1>19, <3>1, <3>2
    <3>4. k = l
      BY <1>5, <1>12, <3>3
    <3> QED
      BY <3>1, <3>2, <3>4
  <2>3. ASSUME NEW u \in known, NEW v \in Ids \ known PROVE c.mapping[u] # c.mapping[v]
    <3>1. PICK k \in 1..Len(new) : new[k] = v
      BY <1>17
    <3>2. c.mapping[u] \in 1..n /\ c.mapping[v] = n + k
      BY <1>15, <1>16, <3>1
    <3> QED
      BY <1>5, <1>12, <3>2
  <2> QED
    BY <1>19, <2>1, <2>2, <2>3
<1>20. ASSUME NEW i \in DOMAIN c.trials, c.trials[i].status = "pending"
       PROVE  \E id \in Ids : c.mapping[id] = i
  <2>1. i \in 1..(n + Len(new))
    BY <1>13
  <2>2. CASE i <= n
    <3>1. i \in 1..n /\ c.trials[i] = old[i]
      BY <1>5, <1>13, <2>1, <2>2
    <3>2. \E id \in known : base.mapping[id] = i
      <4>1. SUFFICES ASSUME ~\E id \in known : base.mapping[id] = i PROVE FALSE
        OBVIOUS
      <4>2. old[i] = base.trials[i]
        BY <1>5, <1>6, <3>1, <4>1
      <4> QED
        BY <1>3, <1>5, <1>20, <3>1, <4>1, <4>2
    <3> QED
      BY <1>3, <1>15, <3>2
  <2>3. CASE ~(i <= n)
    <3>1. i - n \in 1..Len(new) /\ n + (i - n) = i
      BY <1>5, <1>12, <2>1, <2>3
    <3>2. new[i - n] \in Ids /\ c.mapping[new[i - n]] = i
      BY <1>11, <1>16, <3>1
    <3> QED
      BY <3>2
  <2> QED
    BY <2>2, <2>3
<1> HIDE DEF known
<1>21. IsInjective(c.mapping) /\ Projectable(c)
  BY <1>8, <1>14, <1>19 DEF IsInjective, Projectable
<1> QED
  BY <1>8, <1>13, <1>14, <1>18, <1>20, <1>21 DEF UpToDate, Agrees

-----------------------------------------------------------------------------
(* The client does not hear of what happens to the records.                 *)

\* Trials are added, and those that are open may be decided.
RecordsAge ==
  /\ Ids \subseteq Ids'
  /\ \A id \in Ids :
       /\ records'[id].point = records[id].point
       /\ records[id].status # "pending" => records'[id] = records[id]

\* A client that followed the records goes on following them.
LEMMA FollowsOn ==
  ASSUME ProjectionTyped, ProjectionTyped', RecordsAge, NEW CONSTANT c, Agrees(c)
  PROVE  Agrees(c)'
<1>1. \A id \in Ids : records[id] \in TrialRecord
  BY RecordsAre
<1>2. \A id \in Ids' : records'[id] \in TrialRecord
  <2>1. records' \in Seq(TrialRecord) /\ Ids' = DOMAIN records'
    BY DEF ProjectionTyped, Ids
  <2> QED
    BY <2>1
<1>3. Ids \subseteq Ids'
  BY DEF RecordsAge
<1>4. ASSUME NEW id \in DOMAIN c.mapping
      PROVE  c.signatures[id] = records'[id]
               \/ c.signatures[id] = [records'[id] EXCEPT !.status = "pending"]
  <2>1. /\ id \in Ids /\ records[id] \in TrialRecord /\ records'[id] \in TrialRecord
        /\ \/ c.signatures[id] = records[id]
           \/ c.signatures[id] = [records[id] EXCEPT !.status = "pending"]
    BY <1>1, <1>2, <1>3 DEF Agrees, Projectable
  <2>2. /\ records'[id].point = records[id].point
        /\ records[id].status # "pending" => records'[id] = records[id]
    BY <2>1 DEF RecordsAge
  <2>3. [records[id] EXCEPT !.status = "pending"] = [records'[id] EXCEPT !.status = "pending"]
    BY <2>1, <2>2 DEF TrialRecord
  <2>4. CASE records[id].status = "pending"
    <3>1. records[id] = [records[id] EXCEPT !.status = "pending"]
      BY <2>1, <2>4 DEF TrialRecord
    <3> QED
      BY <2>1, <2>3, <3>1
  <2>5. CASE records[id].status # "pending"
    BY <2>1, <2>2, <2>5
  <2> QED
    BY <2>4, <2>5
<1>5. Projectable(c)'
  BY <1>3, <1>4 DEF Agrees, Projectable
<1> QED
  BY <1>5 DEF Agrees

\* What becomes of the records when trials are added at their end.
Extended(added) ==
  /\ records' \in Seq(TrialRecord)
  /\ Ids' = 1..(Len(records) + Len(added))
  /\ \A id \in Ids : records'[id] = records[id]
  /\ \A k \in 1..Len(added) : records'[Len(records) + k] = added[k]

LEMMA RowsExtend ==
  ASSUME ProjectionTyped, NEW CONSTANT added, added \in Seq(TrialRecord),
         records' = records \o added
  PROVE  Extended(added) /\ RecordsAge
<1>1. records \in Seq(TrialRecord) /\ Ids = 1..Len(records) /\ Len(records) \in Nat
  BY RecordsAre DEF ProjectionTyped
<1>2. PICK old : old = records
  OBVIOUS
<1>3. PICK t : t = old \o added
  OBVIOUS
<1>4. /\ t \in Seq(TrialRecord) /\ Len(t) = Len(old) + Len(added)
      /\ \A i \in 1..(Len(old) + Len(added)) :
           t[i] = IF i <= Len(old) THEN old[i] ELSE added[i - Len(old)]
  BY <1>1, <1>2, <1>3, ConcatProperties
<1>5. records' = t
  BY <1>2, <1>3
<1>6. Ids' = 1..(Len(records) + Len(added))
  BY <1>2, <1>4, <1>5 DEF Ids
<1>7. Len(added) \in Nat
  OBVIOUS
<1>8. \A id \in Ids : records'[id] = records[id]
  <2>1. TAKE id \in Ids
  <2>2. id \in 1..(Len(old) + Len(added)) /\ id <= Len(old)
    BY <1>1, <1>2, <1>7
  <2> QED
    BY <1>2, <1>4, <1>5, <2>2
<1>9. \A k \in 1..Len(added) : records'[Len(records) + k] = added[k]
  <2>1. TAKE k \in 1..Len(added)
  <2>2. /\ Len(old) + k \in 1..(Len(old) + Len(added)) /\ ~(Len(old) + k <= Len(old))
        /\ (Len(old) + k) - Len(old) = k
    BY <1>1, <1>2, <1>7
  <2> QED
    BY <1>2, <1>4, <1>5, <2>2
<1>10. Ids \subseteq Ids'
  BY <1>1, <1>6, <1>7
<1> QED
  BY <1>4, <1>5, <1>6, <1>8, <1>9, <1>10 DEF Extended, RecordsAge

\* The trials of a batch: pending ones at the taken places.
LEMMA BatchIs ==
  ASSUME NEW shots \in Seq(Everywhere), NEW n \in Nat, NEW places \in [1..n -> DOMAIN shots]
  PROVE  /\ Candidates(shots, places) \in Seq(TrialRecord) /\ Len(Candidates(shots, places)) = n
         /\ \A k \in 1..n : Candidates(shots, places)[k]
                             = [point |-> shots[places[k]], status |-> "pending"]
         /\ Len(places) = n /\ DOMAIN places = 1..n
         /\ DOMAIN shots = 1..Len(shots) /\ Len(shots) \in Nat
<1>1. DOMAIN shots = 1..Len(shots) /\ Len(shots) \in Nat
  OBVIOUS
<1>2. DOMAIN places = 1..n /\ Len(places) = n
  OBVIOUS
<1>3. \A k \in 1..n : shots[places[k]] \in Everywhere
  BY ElementOfSeq, <1>1
<1>4. Candidates(shots, places)
        = [k \in 1..n |-> [point |-> shots[places[k]], status |-> "pending"]]
  BY <1>2 DEF Candidates
<1>5. Candidates(shots, places) \in [1..n -> TrialRecord]
  BY <1>3, <1>4 DEF TrialRecord, TrialStatuses
<1> QED
  BY <1>1, <1>2, <1>4, <1>5

\* A batch is added to the client as it is to the records.
LEMMA BatchFollows ==
  ASSUME ProjectionTyped, NEW CONSTANT c, UpToDate(c),
         NEW CONSTANT shots \in Seq(Everywhere), NEW CONSTANT n \in Nat,
         NEW CONSTANT places \in [1..n -> DOMAIN shots], Fill(places, shots, n),
         records' = records \o Candidates(shots, places),
         NEW CONSTANT w, w = WithBatch(c, shots, places)
  PROVE  Agrees(w)'
<1>1. /\ records \in Seq(TrialRecord) /\ Ids = 1..Len(records)
  BY RecordsAre DEF ProjectionTyped
<1>2. PICK r \in Nat : r = Len(records)
  BY <1>1
<1>3. PICK added : added = Candidates(shots, places)
  OBVIOUS
<1>4. /\ added \in Seq(TrialRecord) /\ Len(added) = n
      /\ \A k \in 1..n : added[k] = [point |-> shots[places[k]], status |-> "pending"]
      /\ Len(places) = n /\ DOMAIN places = 1..n
      /\ DOMAIN shots = 1..Len(shots) /\ Len(shots) \in Nat
  BY <1>3, BatchIs
<1>5. Extended(added)
  BY <1>3, <1>4, RowsExtend
<1>6. /\ Ids' = 1..(r + n) /\ \A id \in Ids : records'[id] = records[id]
      /\ \A k \in 1..n : records'[r + k] = added[k]
  BY <1>2, <1>4, <1>5 DEF Extended
<1>7. /\ c.trials \in Seq(TrialRecord) /\ IsInjective(c.mapping)
      /\ DOMAIN c.mapping = 1..r /\ c.signatures = records
      /\ \A id \in 1..r : c.mapping[id] \in DOMAIN c.trials
                            /\ c.trials[c.mapping[id]] = records[id]
      /\ \A i \in DOMAIN c.trials : c.trials[i].status = "pending" =>
           \E id \in 1..r : c.mapping[id] = i
  BY <1>1, <1>2 DEF UpToDate, Agrees
<1>8. PICK m \in Nat : m = Len(c.trials) /\ DOMAIN c.trials = 1..m
  BY <1>7
<1>9. PICK batch : batch = [i \in DOMAIN shots |-> [point |-> shots[i],
        status |-> IF i \in Taken(shots) THEN "pending" ELSE "killed"]]
  OBVIOUS
<1>10. batch \in Seq(TrialRecord) /\ Len(batch) = Len(shots)
  <2>1. PICK l \in Nat : l = Len(shots) /\ DOMAIN shots = 1..l
    BY <1>4
  <2>2. \A i \in 1..l : shots[i] \in Everywhere
    BY <2>1, ElementOfSeq
  <2>3. batch = [i \in 1..l |-> [point |-> shots[i],
                   status |-> IF i \in Taken(shots) THEN "pending" ELSE "killed"]]
    BY <1>9, <2>1
  <2>4. batch \in [1..l -> TrialRecord]
    BY <2>2, <2>3 DEF TrialRecord, TrialStatuses
  <2> QED
    BY SMTT(30), <2>1, <2>4
<1>11. w = [trials |-> c.trials \o batch,
            mapping |-> Merged(c.mapping,
              [id \in Len(records) + 1..Len(records) + Len(places) |->
                 Len(c.trials) + places[id - Len(records)]]),
            signatures |-> records \o added]
  BY <1>3, <1>9 DEF WithBatch
<1>12. /\ w.trials = c.trials \o batch /\ w.signatures = records'
       /\ w.mapping = Merged(c.mapping, [id \in r + 1..r + n |-> m + places[id - r]])
  BY SMTT(30), <1>2, <1>3, <1>4, <1>8, <1>11
<1>13. /\ w.trials \in Seq(TrialRecord) /\ DOMAIN w.trials = 1..(m + Len(shots))
       /\ \A i \in 1..(m + Len(shots)) : w.trials[i] = IF i <= m THEN c.trials[i] ELSE batch[i - m]
  <2>1. PICK u \in Seq(TrialRecord) : u = c.trials
    BY <1>7
  <2>2. PICK t : t = u \o batch
    OBVIOUS
  <2>3. batch \in Seq(TrialRecord)
    BY <1>10
  <2>4. /\ t \in Seq(TrialRecord) /\ Len(t) = Len(u) + Len(batch)
        /\ \A i \in 1..(Len(u) + Len(batch)) :
             t[i] = IF i <= Len(u) THEN u[i] ELSE batch[i - Len(u)]
    BY <2>2, <2>3, ConcatProperties
  <2>5. DOMAIN t = 1..Len(t)
    BY <2>4
  <2> QED
    BY <1>8, <1>10, <1>12, <2>1, <2>2, <2>4, <2>5
<1>14. DOMAIN w.mapping = 1..(r + n)
  BY <1>2, <1>7, <1>12 DEF Merged
<1>15. ASSUME NEW id \in 1..r
       PROVE  /\ w.mapping[id] = c.mapping[id] /\ w.mapping[id] \in 1..m
              /\ w.trials[w.mapping[id]] = records'[id]
  <2>1. w.mapping[id] = c.mapping[id]
    BY <1>7, <1>12 DEF Merged
  <2>2. c.mapping[id] \in 1..m
    BY <1>7, <1>8
  <2>3. c.mapping[id] \in 1..(m + Len(shots)) /\ c.mapping[id] <= m
    BY <1>4, <1>8, <2>2
  <2>4. w.trials[c.mapping[id]] = c.trials[c.mapping[id]]
    BY <1>13, <2>3
  <2> QED
    BY <1>1, <1>2, <1>6, <1>7, <2>1, <2>2, <2>4
<1>16. ASSUME NEW k \in 1..n
       PROVE  /\ w.mapping[r + k] = m + places[k] /\ m + places[k] \in 1..(m + Len(shots))
              /\ w.trials[m + places[k]] = records'[r + k]
  <2>1. places[k] \in 1..Len(shots)
    BY <1>4
  <2>2. r + k \in (r + 1)..(r + n) /\ r + k \notin 1..r /\ (r + k) - r = k
    BY <1>2
  <2>3. w.mapping[r + k] = m + places[k]
    BY <1>7, <1>12, <2>2 DEF Merged
  <2>4. m + places[k] \in 1..(m + Len(shots)) /\ ~(m + places[k] <= m)
        /\ (m + places[k]) - m = places[k]
    BY <1>4, <1>8, <2>1
  <2>5. w.trials[m + places[k]] = batch[places[k]]
    BY <1>13, <2>4
  <2>6. places[k] \in Taken(shots)
    BY <1>4 DEF Fill, ToSet
  <2>7. batch[places[k]] = [point |-> shots[places[k]], status |-> "pending"]
    BY <1>4, <1>9, <2>1, <2>6
  <2> QED
    BY <1>4, <1>6, <2>3, <2>4, <2>5, <2>7
<1>17. ASSUME NEW id \in 1..(r + n), ~(id <= r)
       PROVE  \E k \in 1..n : id = r + k
  <2>1. id - r \in 1..n /\ id = r + (id - r)
    BY <1>2, <1>17
  <2> QED
    BY <2>1
<1>18. ASSUME NEW id \in 1..(r + n)
       PROVE  w.mapping[id] \in DOMAIN w.trials /\ w.trials[w.mapping[id]] = records'[id]
  <2>1. CASE id <= r
    <3>1. id \in 1..r
      BY <1>2, <2>1
    <3>2. w.mapping[id] \in 1..(m + Len(shots))
      BY <1>4, <1>8, <1>15, <3>1
    <3> QED
      BY <1>13, <1>15, <3>1, <3>2
  <2>2. CASE ~(id <= r)
    <3>1. PICK k \in 1..n : id = r + k
      BY <1>17, <2>2
    <3> QED
      BY <1>13, <1>16, <3>1
  <2> QED
    BY <2>1, <2>2
<1>19. ASSUME NEW j \in 1..n, NEW k \in 1..n, places[j] = places[k] PROVE j = k
  <2>1. places[j] \in Nat /\ places[k] \in Nat
    BY <1>4
  <2>2. ~(j < k) /\ ~(k < j)
    BY <1>19, <2>1 DEF Fill
  <2> QED
    BY <2>2
<1>20. ASSUME NEW x \in 1..(r + n), NEW y \in 1..(r + n), w.mapping[x] = w.mapping[y]
       PROVE  x = y
  <2>1. CASE x <= r /\ y <= r
    <3>1. x \in 1..r /\ y \in 1..r
      BY <1>2, <2>1
    <3> QED
      <4>1. PICK p : p = c.mapping
        OBVIOUS
      <4>2. IsInjective(p) /\ x \in DOMAIN p /\ y \in DOMAIN p
        BY <1>7, <3>1, <4>1
      <4>3. p[x] = p[y]
        BY <1>15, <1>20, <3>1, <4>1
      <4> QED
        BY <4>2, <4>3 DEF IsInjective
  <2>2. CASE ~(x <= r) /\ ~(y <= r)
    <3>1. PICK j \in 1..n : x = r + j
      BY <1>17, <2>2
    <3>2. PICK k \in 1..n : y = r + k
      BY <1>17, <2>2
    <3>3. m + places[j] = m + places[k]
      BY <1>16, <1>20, <3>1, <3>2
    <3>4. places[j] \in Nat /\ places[k] \in Nat
      BY <1>4
    <3>5. places[j] = places[k]
      BY SMTT(30), <1>8, <3>3, <3>4
    <3>6. j = k
      BY <1>19, <3>5
    <3> QED
      BY <3>1, <3>2, <3>6
  <2>3. ASSUME NEW u \in 1..(r + n), NEW v \in 1..(r + n), u <= r, ~(v <= r)
        PROVE  w.mapping[u] # w.mapping[v]
    <3>1. PICK k \in 1..n : v = r + k
      BY <1>17, <2>3
    <3>2. u \in 1..r
      BY <1>2, <2>3
    <3>3. w.mapping[u] \in 1..m /\ w.mapping[v] = m + places[k] /\ places[k] \in 1..Len(shots)
      BY <1>4, <1>15, <1>16, <3>1, <3>2
    <3> QED
      BY <1>4, <1>8, <3>3
  <2> QED
    BY <1>20, <2>1, <2>2, <2>3
<1>21. ASSUME NEW i \in DOMAIN w.trials, w.trials[i].status = "pending"
       PROVE  \E id \in 1..(r + n) : w.mapping[id] = i
  <2>1. i \in 1..(m + Len(shots))
    BY <1>13
  <2>2. CASE i <= m
    <3>1. i \in DOMAIN c.trials /\ c.trials[i].status = "pending"
      BY <1>8, <1>13, <1>21, <2>1, <2>2
    <3>2. PICK id \in 1..r : c.mapping[id] = i
      BY <1>7, <3>1
    <3>3. id \in 1..(r + n) /\ w.mapping[id] = i
      BY <1>2, <1>15, <3>2
    <3> QED
      BY <3>3
  <2>3. CASE ~(i <= m)
    <3>1. i - m \in 1..Len(shots) /\ m + (i - m) = i
      BY <1>4, <1>8, <2>1, <2>3
    <3>2. batch[i - m].status = "pending"
      BY <1>13, <1>21, <2>1, <2>3
    <3>3. i - m \in Taken(shots)
      BY <1>4, <1>9, <3>1, <3>2
    <3>4. PICK k \in 1..n : places[k] = i - m
      BY <1>4, <3>3 DEF Fill, ToSet
    <3>5. w.mapping[r + k] = i
      BY <1>16, <3>1, <3>4
    <3>6. r + k \in 1..(r + n)
      BY <1>2
    <3> QED
      BY <3>5, <3>6
  <2> QED
    BY <2>2, <2>3
<1>22. IsInjective(w.mapping)
  BY <1>14, <1>20 DEF IsInjective
<1>23. Projectable(w)'
  BY <1>6, <1>12, <1>14 DEF Projectable
<1> QED
  BY ZenonT(30), <1>12, <1>13, <1>14, <1>18, <1>21, <1>22, <1>23 DEF Agrees

-----------------------------------------------------------------------------
(* The client to go on with.                                                *)

LEMMA NoClientFollows == Agrees(NoClient)
<1>1. /\ NoClient.trials = <<>> /\ NoClient.mapping = <<>>
  BY DEF NoClient
<1>2. DOMAIN <<>> = {} /\ <<>> \in Seq(TrialRecord)
  OBVIOUS
<1> QED
  BY <1>1, <1>2 DEF Agrees, Projectable, IsInjective

\* The snapshot, if there is one: the lineage is that of the last rebuild.
LEMMA BaseFollows ==
  ASSUME ProjectionInv, SnapshotFits
  PROVE  Agrees(Base) /\ Base.lineage = rebuilds
<1>1. CASE Previous = {}
  <2>1. Base = NoClient /\ NoClient.lineage = 0
    BY <1>1 DEF Base, NoClient
  <2>2. rebuilds = 0
    <3>1. CASE optimizer = {}
      BY <3>1 DEF ProjectionInv, Audited
    <3>2. CASE optimizer # {}
      <4>1. PICK o \in optimizer : Described(o)
        BY <3>2 DEF ProjectionInv
      <4>2. o.snapshot = {}
        BY <1>1, <4>1 DEF SnapshotFits
      <4> QED
        BY <4>1, <4>2 DEF Described
    <3> QED
      BY <3>1, <3>2
  <2> QED
    BY <2>1, <2>2, NoClientFollows
<1>2. CASE Previous # {}
  <2>1. PICK s \in Previous : s = Base
    BY <1>2 DEF Base
  <2>2. s \in UNION {o.snapshot : o \in optimizer}
    BY <2>1 DEF Previous
  <2>3. PICK o \in optimizer : s \in o.snapshot
    BY <2>2
  <2>4. Agrees(s) /\ s.lineage = o.lineage
    BY <2>3 DEF ProjectionInv, Described
  <2>5. o.lineage = rebuilds
    BY <2>3 DEF ProjectionInv, Audited
  <2> QED
    BY <2>1, <2>4, <2>5
<1> QED
  BY <1>1, <1>2

LEMMA ClientSame ==
  ASSUME NEW c, NEW s, Agrees(c), s.trials = c.trials, s.mapping = c.mapping,
         s.signatures = c.signatures
  PROVE  Agrees(s)
BY DEF Agrees, Projectable

-----------------------------------------------------------------------------
(* What a command that allocates finds is still what it was told.           *)

\* The results of all open suggestions can be taken in under the new snapshot.
LEMMA OpenWorkFits ==
  ASSUME ProjectionInv, SnapshotFits, command.pc = "allocate", config.contract # 0
  PROVE  \A id \in Pending : /\ origin[id].contract = config.contract
                             /\ config.contract = 2 => origin[id].setup = config.setup
<1>1. BackendMatches
  BY DEF ProjectionInv, Underway, Idle, Free
<1>2. CASE optimizer = {}
  BY <1>1, <1>2 DEF BackendMatches
<1>3. CASE optimizer # {}
  <2>1. PICK o \in optimizer : Described(o)
    BY <1>3 DEF ProjectionInv
  <2>2. ASSUME NEW id \in Pending
        PROVE  /\ origin[id].contract = config.contract
               /\ config.contract = 2 => origin[id].setup = config.setup
    <3>1. /\ o.format = origin[id].contract
          /\ o.format = 2 => o.fingerprint.setup = origin[id].setup
      BY <2>1 DEF ProjectionInv, WorkIsDeliverable
    <3>2. id \in DOMAIN origin
      BY DEF ProjectionInv, Suggested
    <3>3. o.snapshot # {}
      BY <2>1, <3>2 DEF Described
    <3>4. PICK s \in Previous : s.fingerprint = Fingerprint
      BY <2>1, <3>3 DEF SnapshotFits
    <3>5. s.fingerprint = o.fingerprint
      <4>1. s \in UNION {x.snapshot : x \in optimizer}
        BY <3>4 DEF Previous
      <4>2. s \in o.snapshot
        BY <2>1, <4>1 DEF Described
      <4> QED
        BY <2>1, <4>2 DEF Described
    <3>6. Fingerprint.contract = config.contract /\ Fingerprint.setup = config.setup
      BY DEF Fingerprint, FingerprintOf
    <3> QED
      BY <2>1, <3>1, <3>4, <3>5, <3>6 DEF Described
  <2> QED
    BY <2>2
<1> QED
  BY <1>2, <1>3

-----------------------------------------------------------------------------
(* Steps that leave the data of the campaign alone.                         *)

LEMMA DataStays ==
  ASSUME ProjectionInv, config' \in Configurations, command' \in Commands, Underway',
         UNCHANGED <<records, optimizer, audit, rebuilds, origin, committed>>
  PROVE  ProjectionInv'
<1>1. Ids' = Ids /\ Pending' = Pending
  BY DEF Ids, Pending
<1>2. ProjectionTyped'
  BY DEF ProjectionInv, ProjectionTyped
<1>3. ASSUME NEW o \in optimizer' PROVE Described(o)'
  <2>1. Described(o)
    BY <1>3 DEF ProjectionInv
  <2>2. ASSUME NEW s \in o.snapshot PROVE Agrees(s)'
    BY <1>1, <2>1, <2>2 DEF Described, Agrees, Projectable
  <2> QED
    BY <1>1, <2>1, <2>2 DEF Described
<1>4. Suggested' /\ WorkIsDistinct' /\ WorkIsDeliverable'
  BY <1>1 DEF ProjectionInv, Suggested, WorkIsDistinct, WorkIsDeliverable
<1>5. Audited'
  <2>1. Due' = Due
    BY DEF Due
  <2> QED
    BY <2>1 DEF ProjectionInv, Audited
<1> QED
  BY <1>2, <1>3, <1>4, <1>5 DEF ProjectionInv

LEMMA NothingRuns ==
  ASSUME command' = Free
  PROVE  command' \in Commands /\ Underway' /\ Idle'
BY DEF Free, Commands, Underway, Idle

LEMMA SuggestKeeps ==
  ASSUME ProjectionInv, NEW n \in 1..MaxRecords, Suggest(n)
  PROVE  ProjectionInv'
<1>1. config' \in Configurations
  BY DEF Suggest, outside, ProjectionInv, ProjectionTyped
<1>2. command' \in Commands
  BY AttemptAssumption DEF Suggest, Commands
<1>3. Due' = Due /\ BackendMatches'
  BY DEF Suggest, Due, BackendMatches, Pending, Ids, outside
<1>4. Underway'
  BY <1>3 DEF Suggest, Underway
<1> QED
  BY <1>1, <1>2, <1>4, DataStays DEF Suggest

LEMMA ResumeKeeps ==
  ASSUME ProjectionInv, ResumeRebuild
  PROVE  ProjectionInv'
<1>1. config' \in Configurations /\ command' \in Commands
  BY DEF ResumeRebuild, outside, ProjectionInv, ProjectionTyped, Commands
<1>2. optimizer # {}
  BY DEF ResumeRebuild, Due
<1>3. Due' = Due /\ BackendMatches'
  BY <1>2 DEF ResumeRebuild, Due, BackendMatches, outside
<1>4. Underway'
  BY <1>3 DEF ResumeRebuild, Underway
<1> QED
  BY <1>1, <1>4, DataStays DEF ResumeRebuild

LEMMA OthersKeep ==
  ASSUME ProjectionInv,
         \/ CommandEnds \/ LoseSnapshot
         \/ \E c \in Configurations : Configure(c)
         \/ \E e \in Environments : Install(e)
  PROVE  ProjectionInv'
<1>1. config' \in Configurations
  BY DEF CommandEnds, LoseSnapshot, Configure, Install, outside, ProjectionInv, ProjectionTyped
<1>2. command' = Free
  BY DEF CommandEnds, LoseSnapshot, Configure, Install, Idle
<1>3. UNCHANGED <<records, optimizer, audit, rebuilds, origin, committed>>
  BY DEF CommandEnds, LoseSnapshot, Configure, Install
<1> QED
  BY <1>1, <1>2, <1>3, NothingRuns, DataStays

LEMMA PublishKeeps ==
  ASSUME ProjectionInv, PublishRebuild
  PROVE  ProjectionInv'
<1>1. /\ Due # {} /\ rebuilds > 0 /\ audit \in {committed, Numbers(rebuilds - 1)}
      /\ Due = {[rebuild |-> rebuilds, lineage |-> rebuilds, generation |-> 0]}
      /\ committed = Numbers(rebuilds) /\ rebuilds \in Nat
  BY DEF ProjectionInv, Underway, Audited, PublishRebuild, ProjectionTyped
<1>2. audit' = IF rebuilds \in ToSet(audit) THEN audit ELSE Append(audit, rebuilds)
  BY <1>1 DEF PublishRebuild
<1>3. audit' = committed
  <2>1. CASE audit = committed
    <3>1. rebuilds \in 1..rebuilds
      BY <1>1
    <3>2. rebuilds \in ToSet(audit)
      BY <1>1, <2>1, <3>1 DEF Numbers, ToSet
    <3> QED
      BY <1>2, <2>1, <3>2
  <2>2. CASE audit = Numbers(rebuilds - 1)
    <3>1. rebuilds \notin ToSet(audit)
      BY <1>1, <2>2 DEF Numbers, ToSet
    <3>2. audit' = Append(audit, rebuilds)
      BY <1>2, <3>1
    <3>3. Append(Numbers(rebuilds - 1), rebuilds) = Numbers(rebuilds)
      BY <1>1 DEF Numbers
    <3> QED
      BY <1>1, <2>2, <3>2, <3>3
  <2> QED
    BY <1>1, <2>1, <2>2
<1>4. /\ command' = [command EXCEPT !.pc = "clear"] /\ command \in Commands
      /\ UNCHANGED <<config, records, optimizer, rebuilds, origin, committed>>
  BY DEF PublishRebuild, outside, ProjectionInv, ProjectionTyped
<1>5. command' \in Commands /\ command'.pc = "clear"
  BY <1>4 DEF Commands
<1>6. Ids' = Ids /\ Pending' = Pending /\ Due' = Due
  BY <1>4 DEF Ids, Pending, Due
<1>7. Audited'
  BY <1>1, <1>3, <1>4, <1>6 DEF ProjectionInv, Audited
<1>8. Underway'
  <2>1. BackendMatches
    BY DEF PublishRebuild, Idle, Free, ProjectionInv, Underway
  <2>2. BackendMatches'
    BY <1>4, <1>6, <2>1 DEF BackendMatches
  <2> QED
    BY <1>1, <1>3, <1>4, <1>5, <1>6, <2>2 DEF Underway
<1>9. ProjectionTyped'
  BY <1>4, <1>5 DEF ProjectionInv, ProjectionTyped
<1>10. ASSUME NEW o \in optimizer' PROVE Described(o)'
  <2>1. Described(o)
    BY <1>4, <1>10 DEF ProjectionInv
  <2>2. ASSUME NEW s \in o.snapshot PROVE Agrees(s)'
    BY <1>4, <1>6, <2>1, <2>2 DEF Described, Agrees, Projectable
  <2> QED
    BY <1>4, <1>6, <2>1, <2>2 DEF Described
<1>11. Suggested' /\ WorkIsDistinct' /\ WorkIsDeliverable'
  BY <1>4, <1>6 DEF ProjectionInv, Suggested, WorkIsDistinct, WorkIsDeliverable
<1> QED
  BY <1>7, <1>8, <1>9, <1>10, <1>11 DEF ProjectionInv

LEMMA ClearKeeps ==
  ASSUME ProjectionInv, ClearRebuild
  PROVE  ProjectionInv'
<1>1. /\ Due # {} /\ audit = committed /\ BackendMatches
  BY DEF ClearRebuild, ProjectionInv, Underway, Idle, Free
<1>2. PICK o \in optimizer : Described(o) /\ optimizer = {o}
  BY <1>1 DEF Due, ProjectionInv, Described
<1>3. PICK p : p = [o EXCEPT !.due = {}]
  OBVIOUS
<1>4. /\ DOMAIN p = Fields /\ p.due = {}
      /\ p.format = o.format /\ p.fingerprint = o.fingerprint /\ p.lineage = o.lineage
      /\ p.generation = o.generation /\ p.last = o.last /\ p.snapshot = o.snapshot
  BY <1>2, <1>3 DEF Described, Fields
<1>5. optimizer' = {p}
  BY <1>2, <1>3 DEF ClearRebuild
<1>6. UNCHANGED <<config, records, audit, rebuilds, origin, committed>>
  BY DEF ClearRebuild, outside
<1>7. Ids' = Ids /\ Pending' = Pending
  BY <1>6 DEF Ids, Pending
<1>8. Due' = {}
  BY <1>4, <1>5 DEF Due
<1>9. command \in Commands
  BY DEF ProjectionInv, ProjectionTyped
<1>10. command' \in Commands /\ (command' = Free \/ command'.pc = "allocate")
  BY <1>9 DEF ClearRebuild, Commands, Free
<1>11. Underway'
  <2>1. BackendMatches'
    BY <1>1, <1>2, <1>5, <1>6, <1>7 DEF BackendMatches
  <2> QED
    BY <1>8, <1>10, <2>1 DEF Underway, Idle, Free
<1>12. Described(p)'
  <2>1. ASSUME NEW s \in o.snapshot PROVE Agrees(s)'
    BY <1>2, <1>6, <1>7, <2>1 DEF Described, Agrees, Projectable
  <2> QED
    BY <1>2, <1>4, <1>5, <1>6, <1>7, <2>1 DEF Described
<1>13. Audited'
  BY <1>1, <1>2, <1>4, <1>5, <1>6, <1>8 DEF ProjectionInv, Audited
<1>14. Suggested' /\ WorkIsDistinct' /\ WorkIsDeliverable'
  BY <1>2, <1>4, <1>5, <1>6, <1>7 DEF ProjectionInv, Suggested, WorkIsDistinct, WorkIsDeliverable
<1>15. ProjectionTyped'
  BY <1>6, <1>10 DEF ProjectionInv, ProjectionTyped
<1> QED
  BY <1>5, <1>11, <1>12, <1>13, <1>14, <1>15 DEF ProjectionInv

\* An open trial gets its outcome.
LEMMA SettleKeeps ==
  ASSUME ProjectionInv, NEW id \in Pending, NEW status \in TrialStatuses \ {"pending"}, Idle,
         records' = [records EXCEPT ![id].status = status],
         UNCHANGED <<outside, optimizer, audit, rebuilds, command, origin, committed>>
  PROVE  ProjectionInv'
<1>1. /\ Ids = 1..Len(records) /\ Len(records) \in Nat /\ records \in Seq(TrialRecord)
      /\ \A x \in Ids : records[x] \in TrialRecord
      /\ Pending \subseteq Ids
  BY RecordsAre DEF ProjectionInv, ProjectionTyped
<1>2. /\ Ids' = Ids
      /\ \A x \in Ids : records'[x] = IF x = id THEN [records[x] EXCEPT !.status = status]
                                      ELSE records[x]
  BY <1>1 DEF Ids
<1>3. \A x \in Ids : records'[x] \in TrialRecord
  BY <1>1, <1>2 DEF TrialRecord
<1>4. records' \in Seq(TrialRecord)
  <2>1. PICK l \in Nat : l = Len(records) /\ Ids = 1..l
    BY <1>1
  <2>2. records' \in [1..l -> TrialRecord]
    <3>1. DOMAIN records' = 1..l
      BY <1>2, <2>1 DEF Ids
    <3>2. records' = [x \in DOMAIN records |-> records'[x]]
      BY <1>1
    <3> QED
      BY <1>2, <1>3, <2>1, <3>1, <3>2 DEF Ids
  <2>3. PICK t \in [1..l -> TrialRecord] : t = records'
    BY <2>2
  <2>4. t \in Seq(TrialRecord)
    BY <2>1
  <2> QED
    BY <2>3, <2>4
<1>5. ProjectionTyped'
  BY <1>4 DEF ProjectionInv, ProjectionTyped, outside
<1>6. RecordsAge
  BY <1>1, <1>2 DEF RecordsAge, Pending, TrialRecord
<1>7. Pending' = Pending \ {id} /\ \A x \in Ids : records'[x].point = records[x].point
  <2>1. records[id].status = "pending" /\ records'[id].status = status
    BY <1>1, <1>2 DEF Pending, TrialRecord
  <2>2. \A x \in Ids : records'[x].point = records[x].point
    BY <1>1, <1>2 DEF TrialRecord
  <2> QED
    BY <1>1, <1>2, <2>1, <2>2 DEF Pending
<1>8. ASSUME NEW o \in optimizer' PROVE Described(o)'
  <2>1. Described(o)
    BY <1>8 DEF ProjectionInv
  <2>2. ASSUME NEW s \in o.snapshot PROVE Agrees(s)'
    BY <1>5, <1>6, <2>1, <2>2, FollowsOn DEF Described, ProjectionInv
  <2> QED
    BY <1>2, <1>7, <2>1, <2>2 DEF Described
<1>9. Suggested' /\ WorkIsDeliverable'
  BY <1>2, <1>7 DEF ProjectionInv, Suggested, WorkIsDeliverable
<1>10. WorkIsDistinct'
  <2>1. \A x \in DOMAIN origin : \A y \in 1..(x - 1) : x \in Ids /\ y \in Ids
    BY <1>1 DEF ProjectionInv, Suggested
  <2> QED
    BY <1>7, <2>1 DEF ProjectionInv, WorkIsDistinct
<1>11. Audited'
  <2>1. Due' = Due
    BY DEF Due
  <2> QED
    BY <2>1 DEF ProjectionInv, Audited
<1>12. Underway'
  BY DEF Underway, Idle, Free
<1> QED
  BY <1>5, <1>8, <1>9, <1>10, <1>11, <1>12 DEF ProjectionInv

LEMMA OutcomeKeeps ==
  ASSUME ProjectionInv,
         NEW id \in Ids,
         (\E status \in {"ok", "failed"} : IngestOutcome(id, status)) \/ CancelTrial(id)
  PROVE  ProjectionInv'
<1>1. /\ id \in Pending /\ Idle
      /\ UNCHANGED <<outside, optimizer, audit, rebuilds, command, origin, committed>>
      /\ \E status \in TrialStatuses \ {"pending"} :
           records' = [records EXCEPT ![id].status = status]
  BY DEF IngestOutcome, CancelTrial, TrialStatuses
<1> QED
  BY <1>1, SettleKeeps

\* An imported trial is completed; the client hears of it later.
LEMMA ImportOutcomeKeeps ==
  ASSUME ProjectionInv, NEW p \in config.setup.points, ImportOutcome(p)
  PROVE  ProjectionInv'
<1>1. PICK row : row = [point |-> p, status |-> "ok"]
  OBVIOUS
<1>2. row \in TrialRecord /\ row.status # "pending" /\ row.point = p
  BY <1>1 DEF ProjectionInv, ProjectionTyped, Configurations, TrialRecord, TrialStatuses, Everywhere
<1>3. /\ Ids = 1..Len(records) /\ Len(records) \in Nat /\ records \in Seq(TrialRecord)
      /\ \A x \in Ids : records[x] \in TrialRecord
      /\ Pending \subseteq Ids
  BY RecordsAre DEF ProjectionInv, ProjectionTyped
<1>4. /\ Idle /\ ContextFits /\ records' = Append(records, row)
      /\ UNCHANGED <<outside, audit, rebuilds, command, origin, committed>>
      /\ optimizer' = IF config.contract = 2 /\ optimizer = {} THEN {Uninitialized} ELSE optimizer
  BY <1>1 DEF ImportOutcome
<1>5. PICK r \in Nat : r = Len(records)
  BY <1>3
<1>6. /\ records' \in Seq(TrialRecord) /\ Ids' = 1..(r + 1)
      /\ \A x \in Ids : records'[x] = records[x]
      /\ records'[r + 1] = row
  BY <1>2, <1>3, <1>4, <1>5 DEF Ids
<1>7. Ids = 1..r /\ Ids' = Ids \cup {r + 1} /\ r + 1 \notin Ids
  BY <1>3, <1>5, <1>6
<1>8. RecordsAge
  BY <1>6, <1>7 DEF RecordsAge
<1>9. Pending' = Pending
  BY <1>2, <1>6, <1>7 DEF Pending
<1>10. ProjectionTyped'
  BY <1>4, <1>6 DEF ProjectionInv, ProjectionTyped, outside
<1>11. DOMAIN origin \subseteq Ids /\ r + 1 \notin DOMAIN origin
  BY <1>7 DEF ProjectionInv, Suggested
<1>12. ASSUME NEW o \in optimizer, optimizer' = optimizer PROVE Described(o)'
  <2>1. Described(o)
    BY DEF ProjectionInv
  <2>2. ASSUME NEW s \in o.snapshot PROVE Agrees(s)'
    BY <1>8, <1>10, <2>1, <2>2, FollowsOn DEF Described, ProjectionInv
  <2>3. p \notin o.fingerprint.setup.points => o.format = 1
    <3>1. CASE o.format = 2
      <4>1. o.fingerprint = Fingerprint
        BY <1>4, <3>1 DEF ContextFits, FormatMatches
      <4> QED
        BY <4>1 DEF Fingerprint, FingerprintOf
    <3> QED
      BY <2>1, <3>1 DEF Described
  <2>4. \A id \in Ids' : records'[id].point \notin o.fingerprint.setup.points =>
          o.format = 1 /\ id \notin DOMAIN origin
    BY <1>2, <1>6, <1>7, <1>11, <2>1, <2>3 DEF Described
  <2> QED
    BY <1>4, <1>12, <2>1, <2>2, <2>4 DEF Described
<1>13. ASSUME optimizer' = optimizer
       PROVE  (\A o \in optimizer' : Described(o)') /\ Audited' /\ WorkIsDeliverable'
  <2>1. \A o \in optimizer' : Described(o)'
    BY <1>12, <1>13
  <2>2. Due' = Due
    BY <1>13 DEF Due
  <2>3. Audited'
    BY <1>4, <1>13, <2>2 DEF ProjectionInv, Audited
  <2>4. WorkIsDeliverable'
    BY <1>4, <1>9, <1>13 DEF ProjectionInv, WorkIsDeliverable
  <2> QED
    BY <2>1, <2>3, <2>4
<1>14. ASSUME config.contract = 2 /\ optimizer = {}
       PROVE  (\A o \in optimizer' : Described(o)') /\ Audited' /\ WorkIsDeliverable'
  <2>1. records = <<>>
    BY <1>4, <1>14 DEF ContextFits, FormatMatches
  <2>2. Ids = {} /\ Pending = {} /\ DOMAIN origin = {}
    <3>1. Ids = {}
      BY <1>3, <2>1
    <3> QED
      BY <1>3, <1>11, <3>1
  <2>3. rebuilds = 0 /\ audit = committed /\ committed = Numbers(rebuilds)
    BY <1>14 DEF ProjectionInv, Audited, Due
  <2>4. PICK o : o = Uninitialized
    OBVIOUS
  <2>5. /\ DOMAIN o = Fields /\ o.format = 2 /\ o.fingerprint = Fingerprint /\ o.lineage = 0
        /\ o.due = {} /\ o.snapshot = {}
    BY <2>4 DEF Uninitialized, Fields
  <2>6. optimizer' = {o}
    BY <1>4, <1>14, <2>4
  <2>7. Fingerprint.contract = 2 /\ Fingerprint.setup = config.setup
    BY <1>14 DEF Fingerprint, FingerprintOf
  <2>8. \A id \in Ids' : records'[id].point \in o.fingerprint.setup.points
    BY <1>2, <1>6, <1>7, <2>2, <2>5, <2>7
  <2>9. Described(o)'
    BY <1>4, <2>2, <2>3, <2>5, <2>6, <2>7, <2>8 DEF Described
  <2>10. Due' = {}
    BY <2>5, <2>6 DEF Due
  <2>11. Audited'
    BY <1>4, <2>3, <2>5, <2>6, <2>10 DEF Audited
  <2>12. WorkIsDeliverable'
    BY <1>9, <2>2 DEF WorkIsDeliverable
  <2> QED
    BY <2>6, <2>9, <2>11, <2>12
<1>15. Suggested'
  BY <1>4, <1>7, <1>9 DEF ProjectionInv, Suggested
<1>16. WorkIsDistinct'
  <2>1. \A x \in DOMAIN origin : \A y \in 1..(x - 1) : x \in Ids /\ y \in Ids
    BY <1>3, <1>11
  <2>2. \A x \in Ids : records'[x].point = records[x].point
    BY <1>6
  <2>3. origin' = origin /\ WorkIsDistinct
    BY <1>4 DEF ProjectionInv
  <2> QED
    BY <1>9, <2>1, <2>2, <2>3 DEF WorkIsDistinct
<1>17. Underway'
  BY <1>4 DEF Underway, Idle, Free
<1> QED
  BY <1>4, <1>10, <1>13, <1>14, <1>15, <1>16, <1>17 DEF ProjectionInv

-----------------------------------------------------------------------------
(* Allocations.                                                             *)

\* The new trials are open and come from the present configuration.
Grown(added) ==
  LET r == Len(records)
      batch == (r + 1)..(r + Len(added))
  IN  /\ batch \cap Ids = {} /\ Ids' = Ids \cup batch
      /\ Pending' = Pending \cup batch
      /\ DOMAIN origin' = DOMAIN origin \cup batch
      /\ \A id \in Ids : records'[id] = records[id]
      /\ \A id \in batch : records'[id] = added[id - r] /\ id - r \in DOMAIN added
      /\ \A id \in DOMAIN origin : origin'[id] = origin[id]
      /\ \A id \in batch : origin'[id] = config

LEMMA AllocatedGrows ==
  ASSUME ProjectionInv, NEW CONSTANT added \in Seq(TrialRecord), Allocated(added),
         \A k \in DOMAIN added : added[k].status = "pending"
  PROVE  Grown(added) /\ ProjectionTyped' /\ Suggested' /\ Underway'
<1>1. /\ Ids = 1..Len(records) /\ Len(records) \in Nat
      /\ Pending \subseteq Ids
  BY RecordsAre DEF ProjectionInv, ProjectionTyped
<1>2. PICK r \in Nat : r = Len(records) /\ Ids = 1..r
  BY <1>1
<1>3. PICK n \in Nat : n = Len(added) /\ DOMAIN added = 1..n
  OBVIOUS
<1>4. /\ records' = records \o added /\ command' = Free /\ UNCHANGED <<config, rebuilds>>
      /\ origin' = Merged(origin, [id \in r + 1..r + n |-> config])
  BY <1>2, <1>3 DEF Allocated, outside
<1>5. Extended(added)
  BY <1>4, RowsExtend DEF ProjectionInv
<1>6. /\ Ids' = 1..(r + n) /\ records' \in Seq(TrialRecord)
      /\ \A id \in Ids : records'[id] = records[id]
      /\ \A k \in 1..n : records'[r + k] = added[k]
  BY <1>2, <1>3, <1>5 DEF Extended
<1>7. /\ (r + 1)..(r + n) \cap Ids = {} /\ Ids' = Ids \cup (r + 1)..(r + n)
  BY <1>2, <1>6
<1>8. ASSUME NEW id \in (r + 1)..(r + n)
      PROVE  /\ records'[id] = added[id - r] /\ id - r \in DOMAIN added
             /\ records'[id].status = "pending"
  <2>1. id - r \in 1..n /\ r + (id - r) = id
    BY <1>2, <1>3
  <2> QED
    BY SMTT(30), <1>3, <1>6, <2>1
<1>9. Pending' = Pending \cup (r + 1)..(r + n)
  BY <1>1, <1>6, <1>7, <1>8 DEF Pending
<1>10. DOMAIN origin \subseteq Ids
  BY DEF ProjectionInv, Suggested
<1>11. /\ DOMAIN origin' = DOMAIN origin \cup (r + 1)..(r + n)
       /\ \A id \in DOMAIN origin : origin'[id] = origin[id]
       /\ \A id \in (r + 1)..(r + n) : origin'[id] = config
  BY <1>4, <1>7, <1>10 DEF Merged
<1>12. ProjectionTyped'
  BY <1>4, <1>6, NothingRuns DEF ProjectionInv, ProjectionTyped
<1>13. Suggested'
  BY <1>7, <1>9, <1>10, <1>11 DEF ProjectionInv, Suggested
<1> QED
  BY <1>2, <1>3, <1>4, <1>6, <1>7, <1>8, <1>9, <1>11, <1>12, <1>13, NothingRuns DEF Grown

LEMMA LegacyKeeps ==
  ASSUME ProjectionInv, AllocateLegacy
  PROVE  ProjectionInv'
<1>1. PICK points \in [1..command.count -> config.setup.points] :
        Allocated([i \in 1..command.count |-> [point |-> points[i], status |-> "pending"]])
  BY DEF AllocateLegacy
<1>2. PICK n \in Nat : n = command.count
  BY DEF ProjectionInv, ProjectionTyped, Commands
<1>3. PICK added : added = [i \in 1..n |-> [point |-> points[i], status |-> "pending"]]
  OBVIOUS
<1>4. config.setup.points \subseteq Everywhere
  BY DEF ProjectionInv, ProjectionTyped, Configurations, Everywhere
<1>5. added \in [1..n -> TrialRecord]
  BY <1>1, <1>2, <1>3, <1>4 DEF TrialRecord, TrialStatuses
<1>6. /\ added \in Seq(TrialRecord) /\ Allocated(added)
      /\ \A k \in DOMAIN added : added[k].status = "pending"
  BY SMTT(30), <1>1, <1>2, <1>3, <1>5
<1>7. /\ Grown(added) /\ ProjectionTyped' /\ Suggested' /\ Underway'
  BY <1>6, AllocatedGrows
<1>8. optimizer = {} /\ optimizer' = {} /\ config.contract = 0
  BY DEF AllocateLegacy, ProjectionInv, Underway, BackendMatches, Idle, Free
<1>9. Audited'
  BY <1>6, <1>8 DEF Allocated, ProjectionInv, Audited, Due
<1>10. WorkIsDeliverable' /\ \A o \in optimizer' : Described(o)'
  BY <1>8 DEF WorkIsDeliverable
<1>11. WorkIsDistinct'
  <2>1. SUFFICES ASSUME NEW id \in DOMAIN origin', origin'[id].contract # 0,
                        NEW other \in 1..(id - 1)
                 PROVE  /\ {id, other} \subseteq Pending' =>
                             records'[id].point # records'[other].point
                        /\ ~origin'[id].setup.repeats =>
                             records'[id].point # records'[other].point
    BY DEF WorkIsDistinct
  <2>2. id \in DOMAIN origin
    BY <1>7, <1>8, <2>1 DEF Grown
  <2>3. id \in Ids /\ other \in Ids
    BY <2>2, RecordsAre DEF ProjectionInv, Suggested
  <2> QED
    BY <1>7, <2>1, <2>2, <2>3 DEF Grown, ProjectionInv, WorkIsDistinct
<1> QED
  BY <1>7, <1>9, <1>10, <1>11 DEF ProjectionInv

\* What the optimizer's state is after a snapshot was made.
LEMMA SelectedIs ==
  ASSUME ProjectionInv, config.contract # 0, NEW CONSTANT c, Agrees(c)',
         NEW CONSTANT lineage, NEW CONSTANT generation, NEW CONSTANT last, NEW CONSTANT due,
         optimizer' = Selected(c, lineage, generation, last, due),
         \A id \in Ids' : records'[id].point \in config.setup.points
  PROVE  \E o : /\ optimizer' = {o} /\ Described(o)'
                /\ o.format = config.contract /\ o.fingerprint.setup = config.setup
                /\ o.lineage = lineage /\ o.generation = generation
                /\ o.last = last /\ o.due = due
<1>1. PICK s : s = [format |-> config.contract, fingerprint |-> Fingerprint,
                    lineage |-> lineage, generation |-> generation, last |-> last,
                    versions |-> environment, trials |-> c.trials,
                    mapping |-> c.mapping, signatures |-> c.signatures]
  OBVIOUS
<1>2. PICK o : o = [format |-> config.contract, fingerprint |-> Fingerprint,
                    lineage |-> lineage, generation |-> generation, last |-> last, due |-> due,
                    snapshot |-> {s}]
  OBVIOUS
<1>3. optimizer' = {o}
  BY <1>1, <1>2 DEF Selected
<1>4. /\ DOMAIN o = Fields /\ o.format = config.contract /\ o.fingerprint = Fingerprint
      /\ o.lineage = lineage /\ o.generation = generation /\ o.last = last /\ o.due = due
      /\ o.snapshot = {s}
  BY <1>2 DEF Fields
<1>5. /\ s.format = config.contract /\ s.fingerprint = Fingerprint /\ s.lineage = lineage
      /\ s.generation = generation /\ s.last = last
      /\ s.trials = c.trials /\ s.mapping = c.mapping /\ s.signatures = c.signatures
  BY <1>1
<1>6. Agrees(s)'
  BY <1>5 DEF Agrees, Projectable
<1>7. Fingerprint.contract = config.contract /\ Fingerprint.setup = config.setup
  BY DEF Fingerprint, FingerprintOf
<1>8. config.contract \in {1, 2}
  BY DEF ProjectionInv, ProjectionTyped, Configurations
<1>9. \A x \in o.snapshot : x = s
  BY <1>4
<1>10. Described(o)'
  BY <1>3, <1>4, <1>5, <1>6, <1>7, <1>8, <1>9 DEF Described
<1> QED
  BY <1>3, <1>4, <1>7, <1>10

\* The points of a batch are of the space and are not blocked; none comes twice.
LEMMA BatchIsNew ==
  ASSUME NEW shots, NEW n \in Nat, NEW places \in [1..n -> DOMAIN shots],
         DOMAIN shots \subseteq Nat \ {0}, Fill(places, shots, n)
  PROVE  /\ \A k \in 1..n : shots[places[k]] \in config.setup.points \ Blocked
         /\ \A j, k \in 1..n : j # k => shots[places[j]] # shots[places[k]]
<1>1. \A k \in 1..n : places[k] \in Taken(shots)
  BY DEF Fill, ToSet
<1>2. ASSUME NEW j \in 1..n, NEW k \in 1..n, j < k
      PROVE  shots[places[j]] # shots[places[k]]
  <2>1. places[j] < places[k]
    BY <1>2 DEF Fill
  <2>2. \A i \in 1..(places[k] - 1) : shots[i] # shots[places[k]]
    BY <1>1 DEF Taken
  <2>3. places[j] \in Nat \ {0} /\ places[k] \in Nat \ {0}
    OBVIOUS
  <2> QED
    BY <2>1, <2>2, <2>3
<1>3. \A k \in 1..n : shots[places[k]] \in config.setup.points \ Blocked
  BY <1>1 DEF Taken
<1>4. ASSUME NEW j \in 1..n, NEW k \in 1..n, j # k
      PROVE  shots[places[j]] # shots[places[k]]
  <2>1. CASE j < k
    BY <1>2, <2>1
  <2>2. CASE k < j
    BY <1>2, <2>2
  <2> QED
    BY <1>4, <2>1, <2>2
<1> QED
  BY <1>3, <1>4

LEMMA AxKeeps ==
  ASSUME ProjectionInv, AllocateAx
  PROVE  ProjectionInv'
<1>1. /\ command.pc = "allocate" /\ config.contract # 0 /\ SnapshotFits /\ RecordsFit
  BY DEF AllocateAx
<1>2. PICK n \in Nat : n = command.count
  BY DEF ProjectionInv, ProjectionTyped, Commands
<1>2a. PICK shots \in Proposals(n) : \E places \in [1..n -> DOMAIN shots] :
        /\ Fill(places, shots, n)
        /\ Allocated(Candidates(shots, places))
        /\ optimizer' = Selected(WithBatch(Projection(Base), shots, places),
                                 Base.lineage, Base.generation + 1, Base.last, {})
  BY <1>2 DEF AllocateAx
<1>3. PICK places \in [1..n -> DOMAIN shots] :
        /\ Fill(places, shots, n)
        /\ Allocated(Candidates(shots, places))
        /\ optimizer' = Selected(WithBatch(Projection(Base), shots, places),
                                 Base.lineage, Base.generation + 1, Base.last, {})
  BY <1>2a
<1>4. config.setup.points \subseteq Everywhere
  BY DEF ProjectionInv, ProjectionTyped, Configurations, Everywhere
<1>5. shots \in Seq(Everywhere) /\ DOMAIN shots \subseteq Nat \ {0}
  <2>1. PICK k \in n..(MaxAttempts * n) :
          shots \in [1..k -> IF config.contract = 2 THEN Everywhere ELSE config.setup.points]
    BY DEF Proposals
  <2>2. k \in Nat
    BY AttemptAssumption
  <2>3. shots \in [1..k -> Everywhere]
    BY <1>4, <2>1
  <2> QED
    BY <2>2, <2>3
<1>6. PICK added : added = Candidates(shots, places)
  OBVIOUS
<1>7. /\ added \in Seq(TrialRecord) /\ Len(added) = n /\ DOMAIN added = 1..n
      /\ \A k \in 1..n : added[k] = [point |-> shots[places[k]], status |-> "pending"]
  BY <1>5, <1>6, BatchIs
<1>8. Grown(added) /\ ProjectionTyped' /\ Suggested' /\ Underway'
  BY <1>3, <1>6, <1>7, AllocatedGrows
<1>9. PICK r \in Nat : r = Len(records) /\ Ids = 1..r
  BY RecordsAre DEF ProjectionInv
<1>10. /\ \A id \in (r + 1)..(r + n) : /\ id - r \in 1..n
                                       /\ records'[id].point = shots[places[id - r]]
                                       /\ origin'[id] = config
       /\ \A id \in Ids : records'[id] = records[id]
       /\ \A id \in DOMAIN origin : origin'[id] = origin[id]
       /\ Ids' = Ids \cup (r + 1)..(r + n) /\ (r + 1)..(r + n) \cap Ids = {}
       /\ DOMAIN origin' = DOMAIN origin \cup (r + 1)..(r + n)
       /\ Pending' = Pending \cup (r + 1)..(r + n)
  BY <1>7, <1>8, <1>9 DEF Grown
<1>11. /\ \A k \in 1..n : shots[places[k]] \in config.setup.points \ Blocked
       /\ \A j, k \in 1..n : j # k => shots[places[j]] # shots[places[k]]
  BY <1>3, <1>5, BatchIsNew
<1>12. \A id \in Ids' : records'[id].point \in config.setup.points
  BY <1>1, <1>10, <1>11 DEF RecordsFit
<1>13. PICK c : c = Projection(Base)
  OBVIOUS
<1>14. UpToDate(c) /\ Base.lineage = rebuilds
  BY <1>1, <1>13, BaseFollows, ProjectionUpToDate DEF ProjectionInv
<1>15. PICK w : w = WithBatch(c, shots, places)
  OBVIOUS
<1>16. Agrees(w)'
  <2>1. records' = records \o Candidates(shots, places)
    BY <1>3 DEF Allocated
  <2> QED
    BY <1>3, <1>5, <1>14, <1>15, <2>1, BatchFollows DEF ProjectionInv
<1>17. PICK lineage, generation, last :
         lineage = Base.lineage /\ generation = Base.generation + 1 /\ last = Base.last
  OBVIOUS
<1>18. optimizer' = Selected(w, lineage, generation, last, {})
  BY <1>3, <1>13, <1>15, <1>17
<1>19. PICK o : /\ optimizer' = {o} /\ Described(o)'
                /\ o.format = config.contract /\ o.fingerprint.setup = config.setup
                /\ o.lineage = rebuilds /\ o.due = {}
  BY <1>1, <1>12, <1>14, <1>16, <1>17, <1>18, SelectedIs
<1>20. Audited'
  <2>1. UNCHANGED <<audit, rebuilds, committed>>
    BY <1>3 DEF Allocated
  <2>2. Due' = {}
    BY <1>19 DEF Due
  <2>3. audit = committed /\ committed = Numbers(rebuilds)
    BY <1>1 DEF ProjectionInv, Underway, Audited
  <2> QED
    BY <1>19, <2>1, <2>2, <2>3 DEF Audited
<1>21. WorkIsDeliverable'
  <2>1. SUFFICES ASSUME NEW id \in Pending'
                 PROVE  /\ o.format = origin'[id].contract
                        /\ o.format = 2 => o.fingerprint.setup = origin'[id].setup
    BY <1>19 DEF WorkIsDeliverable
  <2>2. CASE id \in Pending
    <3>1. id \in DOMAIN origin /\ origin'[id] = origin[id]
      BY <1>10, <2>2 DEF ProjectionInv, Suggested
    <3> QED
      BY <1>1, <1>19, <2>2, <3>1, OpenWorkFits
  <2>3. CASE id \in (r + 1)..(r + n)
    BY <1>10, <1>19, <2>3
  <2> QED
    BY <1>10, <2>1, <2>2, <2>3
<1>22. WorkIsDistinct'
  <2>1. SUFFICES ASSUME NEW id \in DOMAIN origin', origin'[id].contract # 0,
                        NEW other \in 1..(id - 1)
                 PROVE  /\ {id, other} \subseteq Pending' =>
                             records'[id].point # records'[other].point
                        /\ ~origin'[id].setup.repeats =>
                             records'[id].point # records'[other].point
    BY DEF WorkIsDistinct
  <2>2. CASE id \in DOMAIN origin
    <3>1. id \in Ids /\ other \in Ids /\ WorkIsDistinct
      BY <1>9, <2>2 DEF ProjectionInv, Suggested
    <3> QED
      BY <1>10, <2>1, <2>2, <3>1 DEF WorkIsDistinct
  <2>3. CASE id \in (r + 1)..(r + n)
    <3>1. id - r \in 1..n /\ records'[id].point = shots[places[id - r]] /\ origin'[id] = config
      BY <1>10, <2>3
    <3>2. shots[places[id - r]] \notin Blocked
      BY <1>11, <3>1
    <3>3. CASE other \in (r + 1)..(r + n)
      <4>1. other - r \in 1..n /\ other - r # id - r
            /\ records'[other].point = shots[places[other - r]]
        BY <1>9, <1>10, <2>1, <2>3, <3>3
      <4> QED
        BY <1>11, <3>1, <4>1
    <3>4. CASE other \notin (r + 1)..(r + n)
      <4>1. other \in Ids /\ records'[other].point = records[other].point
        BY <1>9, <1>10, <2>1, <2>3, <3>4
      <4>2. other \in Pending' => other \in Pending
        BY <1>10, <3>4
      <4> QED
        BY <3>1, <3>2, <4>1, <4>2, RecordsAre DEF Blocked, ProjectionInv
    <3> QED
      BY <3>3, <3>4
  <2> QED
    BY <1>10, <2>1, <2>2, <2>3
<1> QED
  BY <1>8, <1>19, <1>20, <1>21, <1>22 DEF ProjectionInv

-----------------------------------------------------------------------------
(* Rebuilds, and the whole of it.                                           *)

LEMMA RebuildKeeps ==
  ASSUME ProjectionInv, Rebuild
  PROVE  ProjectionInv'
<1>1. PICK e : e = [rebuild |-> rebuilds + 1, lineage |-> rebuilds + 1, generation |-> 0]
  OBVIOUS
<1>2. PICK o \in optimizer :
        /\ RebuildFits(o)
        /\ optimizer' = Selected(Projection(NoClient), rebuilds + 1, 0, {rebuilds + 1}, {e})
  BY <1>1 DEF Rebuild
<1>3. /\ config.contract # 0 /\ Due = {} /\ RecordsFit /\ rebuilds \in Nat
      /\ rebuilds' = rebuilds + 1 /\ committed' = Append(committed, rebuilds + 1)
      /\ command' = [pc |-> "publish", count |-> 0]
      /\ UNCHANGED <<config, records, audit, origin>>
  BY <1>2 DEF Rebuild, RebuildFits, outside, ProjectionInv, ProjectionTyped
<1>4. Described(o)
  BY <1>2 DEF ProjectionInv
<1>5. Ids' = Ids /\ Pending' = Pending
  BY <1>3 DEF Ids, Pending
<1>6. PICK c : c = Projection(NoClient)
  OBVIOUS
<1>7. Agrees(c)
  BY <1>6, NoClientFollows, ProjectionUpToDate DEF ProjectionInv, UpToDate
<1>8. Agrees(c)'
  BY <1>3, <1>5, <1>7 DEF Agrees, Projectable
<1>9. \A id \in Ids' : records'[id].point \in config.setup.points
  BY <1>3, <1>5 DEF RecordsFit
<1>10. PICK n, generation, last, due :
         n = rebuilds + 1 /\ generation = 0 /\ last = {n} /\ due = {e}
  OBVIOUS
<1>11. optimizer' = Selected(c, n, generation, last, due)
  BY <1>2, <1>6, <1>10
<1>12. PICK p : /\ optimizer' = {p} /\ Described(p)'
                /\ p.format = config.contract /\ p.fingerprint.setup = config.setup
                /\ p.lineage = n /\ p.generation = 0 /\ p.last = {n} /\ p.due = {e}
  <2>1. PICK p : /\ optimizer' = {p} /\ Described(p)'
                 /\ p.format = config.contract /\ p.fingerprint.setup = config.setup
                 /\ p.lineage = n /\ p.generation = generation /\ p.last = last /\ p.due = due
    BY <1>3, <1>8, <1>9, <1>11, SelectedIs
  <2> QED
    BY <1>10, <2>1
<1>13. Audited'
  <2>1. Due' = {e}
    BY <1>12 DEF Due
  <2>2. audit = committed /\ committed = Numbers(rebuilds)
    BY <1>3 DEF ProjectionInv, Audited
  <2>3. Append(Numbers(rebuilds), n) = Numbers(n) /\ n - 1 = rebuilds /\ n > 0
    BY <1>3, <1>10 DEF Numbers
  <2> QED
    BY <1>1, <1>3, <1>10, <1>12, <2>1, <2>2, <2>3 DEF Audited
<1>14. Underway'
  <2>1. Due' # {}
    BY <1>12 DEF Due
  <2>2. BackendMatches'
    BY <1>3, <1>12 DEF BackendMatches
  <2> QED
    BY <1>3, <2>1, <2>2 DEF Underway
<1>15. WorkIsDeliverable'
  <2>1. SUFFICES ASSUME NEW id \in Pending'
                 PROVE  /\ p.format = origin'[id].contract
                        /\ p.format = 2 => p.fingerprint.setup = origin'[id].setup
    BY <1>12 DEF WorkIsDeliverable
  <2>2. o.fingerprint = Fingerprint
    BY <1>2, <1>5, <2>1 DEF RebuildFits
  <2>3. o.format = config.contract /\ o.fingerprint.setup = config.setup
    BY <1>4, <2>2 DEF Described, Fingerprint, FingerprintOf
  <2>4. /\ o.format = origin[id].contract
        /\ o.format = 2 => o.fingerprint.setup = origin[id].setup
    BY <1>2, <1>5, <2>1 DEF ProjectionInv, WorkIsDeliverable
  <2> QED
    BY <1>3, <1>12, <2>3, <2>4
<1>16. Suggested' /\ WorkIsDistinct'
  BY <1>3, <1>5 DEF ProjectionInv, Suggested, WorkIsDistinct
<1>17. ProjectionTyped'
  BY <1>3 DEF ProjectionInv, ProjectionTyped, Commands
<1> QED
  BY <1>12, <1>13, <1>14, <1>15, <1>16, <1>17 DEF ProjectionInv

LEMMA ProjectionInitInv == ProjectionInit => ProjectionInv
<1>1. SUFFICES ASSUME ProjectionInit PROVE ProjectionInv
  OBVIOUS
<1>2. /\ config \in Configurations /\ records = <<>> /\ optimizer = {} /\ audit = <<>>
      /\ rebuilds = 0 /\ command = Free /\ origin = <<>> /\ committed = <<>>
  BY <1>1 DEF ProjectionInit
<1>3. DOMAIN <<>> = {} /\ <<>> \in Seq(TrialRecord)
  OBVIOUS
<1>4. Ids = {} /\ Pending = {} /\ Due = {}
  BY <1>2, <1>3 DEF Ids, Pending, Due
<1>5. ProjectionTyped
  BY <1>2, <1>3 DEF ProjectionTyped, Free, Commands
<1>6. Numbers(0) = <<>>
  BY DEF Numbers
<1>7. Audited
  BY <1>2, <1>4, <1>6 DEF Audited
<1>8. Suggested /\ WorkIsDistinct /\ WorkIsDeliverable
  BY <1>2, <1>3, <1>4 DEF Suggested, WorkIsDistinct, WorkIsDeliverable
<1>9. Underway
  BY <1>2 DEF Underway, Idle, Free
<1> QED
  BY <1>2, <1>5, <1>7, <1>8, <1>9 DEF ProjectionInv

LEMMA ProjectionStutters ==
  ASSUME ProjectionInv, UNCHANGED projectionVars
  PROVE  ProjectionInv'
<1>1. Due' = Due /\ Pending' = Pending /\ BackendMatches' = BackendMatches
  BY DEF projectionVars, outside, Due, Pending, Ids, BackendMatches
<1>2. Underway'
  BY <1>1 DEF projectionVars, ProjectionInv, Underway, Idle, Free
<1>3. config' \in Configurations /\ command' \in Commands
  BY DEF projectionVars, outside, ProjectionInv, ProjectionTyped
<1> QED
  BY <1>2, <1>3, DataStays DEF projectionVars

LEMMA ProjectionKept ==
  ASSUME ProjectionInv, [ProjectionNext]_projectionVars
  PROVE  ProjectionInv'
<1>1. CASE UNCHANGED projectionVars
  BY <1>1, ProjectionStutters
<1>2. CASE \E n \in 1..MaxRecords : Suggest(n)
  BY <1>2, SuggestKeeps
<1>3. CASE AllocateLegacy
  BY <1>3, LegacyKeeps
<1>4. CASE AllocateAx
  BY <1>4, AxKeeps
<1>5. CASE Rebuild
  BY <1>5, RebuildKeeps
<1>6. CASE ResumeRebuild
  BY <1>6, ResumeKeeps
<1>7. CASE PublishRebuild
  BY <1>7, PublishKeeps
<1>8. CASE ClearRebuild
  BY <1>8, ClearKeeps
<1>9. CASE \E id \in Ids :
             (\E status \in {"ok", "failed"} : IngestOutcome(id, status)) \/ CancelTrial(id)
  BY <1>9, OutcomeKeeps
<1>10. CASE \E p \in config.setup.points : ImportOutcome(p)
  BY <1>10, ImportOutcomeKeeps
<1>11. CASE \/ CommandEnds \/ LoseSnapshot
            \/ \E c \in Configurations : Configure(c)
            \/ \E e \in Environments : Install(e)
  BY <1>11, OthersKeep
<1> QED
  BY <1>1, <1>2, <1>3, <1>4, <1>5, <1>6, <1>7, <1>8, <1>9, <1>10, <1>11 DEF ProjectionNext

LEMMA SetToSeqOfFew ==
  /\ SetToSeq({}) = <<>>
  /\ \A x : SetToSeq({x}) = <<x>>
<1>1. SetToSeq({}) = <<>>
  <2>1. PICK s : s = SetToSeq({})
    OBVIOUS
  <2>2. s \in Seq({}) /\ Len(s) = 0
    BY <2>1, SequenceOfSet, FS_EmptySet
  <2> QED
    BY <2>1, <2>2
<1>2. ASSUME NEW x PROVE SetToSeq({x}) = <<x>>
  <2>1. PICK s : s = SetToSeq({x})
    OBVIOUS
  <2>2. s \in Seq({x}) /\ Len(s) = 1
    BY <2>1, SequenceOfSet, FS_Singleton
  <2>3. DOMAIN s = 1..1 /\ s[1] = x
    BY <2>2
  <2>4. s = [i \in 1..1 |-> x] /\ <<x>> = [i \in 1..1 |-> x]
    BY <2>2, <2>3
  <2> QED
    BY <2>1, <2>4
<1> QED
  BY <1>1, <1>2

LEMMA RebuildsAudited ==
  ASSUME ProjectionInv
  PROVE  RebuildsAreAudited
<1>1. /\ committed = Numbers(rebuilds) /\ rebuilds \in Nat
      /\ \A o \in optimizer : o.lineage = rebuilds
  BY DEF ProjectionInv, Audited, ProjectionTyped
<1>2. DueFits
  BY DEF ProjectionInv, Audited, DueFits
<1>3. \A o \in optimizer : o.lineage = IF committed = <<>> THEN 0 ELSE Last(committed)
  <2>1. CASE rebuilds = 0
    BY <1>1, <2>1 DEF Numbers
  <2>2. CASE rebuilds # 0
    <3>1. /\ committed \in [1..rebuilds -> Nat] /\ Len(committed) = rebuilds
          /\ rebuilds \in 1..rebuilds
      BY <1>1, <2>2 DEF Numbers
    <3>2. Last(committed) = rebuilds /\ committed # <<>>
      BY <1>1, <2>2, <3>1 DEF Last, Numbers
    <3> QED
      BY <1>1, <3>2
  <2> QED
    BY <2>1, <2>2
<1>4. audit \o SetToSeq({e.rebuild : e \in Due} \ ToSet(audit)) = committed
  <2>1. Numbers(rebuilds) \in Seq(Nat) /\ ToSet(Numbers(rebuilds)) = 1..rebuilds
    BY <1>1 DEF Numbers, ToSet
  <2>2. CASE audit = committed
    <3>1. \A e \in Due : e.rebuild \in 1..rebuilds
      BY <1>1 DEF ProjectionInv, Audited
    <3>2. {e.rebuild : e \in Due} \ ToSet(audit) = {}
      BY <1>1, <2>1, <2>2, <3>1
    <3>3. audit \o <<>> = audit
      BY <1>1, <2>1, <2>2
    <3> QED
      BY <2>2, <3>2, <3>3, SetToSeqOfFew
  <2>3. CASE audit # committed
    <3>1. /\ Due # {} /\ rebuilds > 0 /\ audit = Numbers(rebuilds - 1)
          /\ Due = {[rebuild |-> rebuilds, lineage |-> rebuilds, generation |-> 0]}
      BY <2>3 DEF ProjectionInv, Audited
    <3>2. ToSet(audit) = 1..(rebuilds - 1)
      BY <1>1, <3>1 DEF Numbers, ToSet
    <3>3. {e.rebuild : e \in Due} \ ToSet(audit) = {rebuilds}
      BY <1>1, <3>1, <3>2
    <3>4. Numbers(rebuilds - 1) \o <<rebuilds>> = Numbers(rebuilds)
      BY <1>1, <3>1 DEF Numbers
    <3> QED
      BY <1>1, <3>1, <3>3, <3>4, SetToSeqOfFew
  <2> QED
    BY <2>2, <2>3
<1> QED
  BY <1>2, <1>3, <1>4 DEF RebuildsAreAudited

LEMMA InvFollows ==
  ASSUME ProjectionInv
  PROVE  OptimizerFollows
<1>1. ClientFollows
  <2>1. ASSUME NEW s \in Snapshot
        PROVE  Agrees(s)
    BY <2>1 DEF Snapshot, ProjectionInv, Described
  <2> QED
    BY <2>1 DEF ClientFollows, Agrees
<1>2. StateDescribesSnapshot
  BY DEF ProjectionInv, Described, StateDescribesSnapshot
<1> QED
  BY <1>1, <1>2, RebuildsAudited DEF ProjectionInv, OptimizerFollows

LEMMA ProjectionRuns == [Next]_dataVars => [ProjectionNext]_projectionVars
<1> SUFFICES ASSUME [Next]_dataVars PROVE [ProjectionNext]_projectionVars
  OBVIOUS
<1>1. CASE ProjectionStep
  BY <1>1 DEF ProjectionStep
<1>2. CASE UNCHANGED projectionVars
  BY <1>2
<1> QED
  BY <1>1, <1>2 DEF Next, SamplingStep, RankingStep, ExchangeStep, InspectionStep,
                    ReportingStep, dataVars

\* optimizer_ax.py, optimizer_ax_worker.py: however many results, imports, rebuilds,
\* lost snapshots and changed configurations a campaign sees, Ax's client agrees with
\* its records, no work is handed out twice, every open suggestion's result can be taken
\* in, and each rebuild is on record once.
THEOREM ProjectionStaysTrue == Spec => []ProjectionHolds
<1>1. ProjectionInv => ProjectionHolds
  BY InvFollows DEF ProjectionHolds
<1>2. Init => ProjectionInv
  BY ProjectionInitInv DEF Init
<1> QED
  BY <1>1, <1>2, ProjectionRuns, ProjectionKept, PTL DEF Spec

-----------------------------------------------------------------------------
(* The order of tuples of numbers of one length.                            *)

Tuples(l) == [1..l -> Int]

LEMMA BeforeIsStrict ==
  ASSUME NEW l \in Nat, NEW a \in Tuples(l), NEW b \in Tuples(l), Before(a, b)
  PROVE  a # b /\ ~Before(b, a)
<1>1. PICK i \in 1..l : a[i] < b[i] /\ \A j \in 1..(i - 1) : a[j] = b[j]
  BY DEF Before, Tuples
<1>2. a[i] \in Int /\ b[i] \in Int
  BY DEF Tuples
<1>3. ASSUME Before(b, a) PROVE FALSE
  <2>1. PICK k \in 1..l : b[k] < a[k] /\ \A j \in 1..(k - 1) : b[j] = a[j]
    BY <1>3 DEF Before, Tuples
  <2>2. a[k] \in Int /\ b[k] \in Int
    BY DEF Tuples
  <2>3. CASE i < k
    BY <1>1, <1>2, <2>1, <2>3
  <2>4. CASE k < i
    BY <1>1, <2>1, <2>2, <2>4
  <2>5. CASE i = k
    BY <1>1, <1>2, <2>1, <2>5
  <2> QED
    BY <2>3, <2>4, <2>5
<1> QED
  BY <1>1, <1>2, <1>3

LEMMA BeforeIsTransitive ==
  ASSUME NEW l \in Nat, NEW a \in Tuples(l), NEW b \in Tuples(l), NEW c \in Tuples(l),
         Before(a, b), Before(b, c)
  PROVE  Before(a, c)
<1>1. PICK i \in 1..l : a[i] < b[i] /\ \A j \in 1..(i - 1) : a[j] = b[j]
  BY DEF Before, Tuples
<1>2. PICK k \in 1..l : b[k] < c[k] /\ \A j \in 1..(k - 1) : b[j] = c[j]
  BY DEF Before, Tuples
<1>3. \A j \in 1..l : a[j] \in Int /\ b[j] \in Int /\ c[j] \in Int
  BY DEF Tuples
<1>4. DOMAIN a = 1..l
  BY DEF Tuples
<1>5. CASE i <= k
  <2>1. a[i] < c[i]
    BY <1>1, <1>2, <1>3, <1>5
  <2>2. \A j \in 1..(i - 1) : a[j] = c[j]
    BY <1>1, <1>2, <1>5
  <2> QED
    BY <1>4, <2>1, <2>2 DEF Before
<1>6. CASE k < i
  <2>1. a[k] < c[k]
    BY <1>1, <1>2, <1>3, <1>6
  <2>2. \A j \in 1..(k - 1) : a[j] = c[j]
    BY <1>1, <1>2, <1>6
  <2> QED
    BY <1>4, <2>1, <2>2 DEF Before
<1> QED
  BY <1>5, <1>6

LEMMA BeforeIsTotal ==
  ASSUME NEW l \in Nat, NEW a \in Tuples(l), NEW b \in Tuples(l), a # b
  PROVE  Before(a, b) \/ Before(b, a)
<1> DEFINE Differ == {i \in 1..l : a[i] # b[i]}
<1>1. DOMAIN a = 1..l /\ DOMAIN b = 1..l /\ \A j \in 1..l : a[j] \in Int /\ b[j] \in Int
  BY DEF Tuples
<1>2. Differ # {} /\ Differ \in SUBSET Nat
  BY SMTT(30) DEF Tuples
<1>3. PICK i \in Differ : \A j \in Differ : i <= j
  <2> HIDE DEF Differ
  <2> QED
    BY <1>2, LeastOfNaturals
<1>4. \A j \in 1..(i - 1) : a[j] = b[j]
  <2>1. TAKE j \in 1..(i - 1)
  <2>2. j \in 1..l /\ ~(i <= j)
    OBVIOUS
  <2> QED
    BY <1>3, <2>2
<1>5. a[i] < b[i] \/ b[i] < a[i]
  BY <1>1
<1> QED
  BY <1>1, <1>4, <1>5 DEF Before

\* What is smaller at one place and nowhere greater up to it comes first.
LEMMA SmallerIsBefore ==
  ASSUME NEW l \in Nat, NEW a \in Tuples(l), NEW b \in Tuples(l), NEW p \in 1..l,
         a[p] < b[p], \A i \in 1..p : a[i] <= b[i]
  PROVE  Before(a, b)
<1>1. \A i \in 1..l : a[i] \in Int /\ b[i] \in Int
  BY DEF Tuples
<1>2. a # b
  BY <1>1
<1>3. ASSUME Before(b, a) PROVE FALSE
  <2>1. PICK i \in 1..l : b[i] < a[i] /\ \A j \in 1..(i - 1) : b[j] = a[j]
    BY <1>3 DEF Before, Tuples
  <2>2. p < i
    BY <1>1, <2>1
  <2> QED
    BY <1>1, <2>1, <2>2
<1> QED
  BY <1>2, <1>3, BeforeIsTotal

-----------------------------------------------------------------------------
(* Results and their keys.                                                  *)

Reports == [id : 1..MaxReports, status : {"ok", "failed"}, values : Seq(Int), measure : Int]
Comparable(r) == r \in Reports /\ r.status = "ok" /\ r.values \in [Objectives -> Int]

RankingInv ==
  /\ schema \in Schemas /\ rows \in Seq(Reports)
  /\ \A i \in DOMAIN rows : rows[i].status = "ok" => Comparable(rows[i])
  /\ HardChecks

LEMMA SchemaIs ==
  ASSUME schema \in Schemas
  PROVE  /\ Len(schema.directions) \in Nat \ {0}
         /\ Objectives = 1..Len(schema.directions) /\ IsFiniteSet(Objectives)
         /\ \A k \in Objectives : schema.directions[k] \in {"minimize", "maximize"}
         /\ schema.weights \in [Objectives -> Nat] /\ schema.reference \in [Objectives -> Int]
         /\ schema.policy \in {"primary_only", "lexicographic"} \cup Weighted
<1>1. /\ schema.directions \in Seq({"minimize", "maximize"}) /\ schema.directions # <<>>
      /\ schema.policy
           \in {"primary_only", "lexicographic", "weighted_sum", "weighted_tchebycheff"}
      /\ schema.weights \in [DOMAIN schema.directions -> Nat]
      /\ schema.reference \in [DOMAIN schema.directions -> Int]
  BY SchemaAssumption
<1>2. Len(schema.directions) \in Nat \ {0} /\ Objectives = 1..Len(schema.directions)
  BY <1>1, EmptySeq DEF Objectives
<1>3. IsFiniteSet(1..Len(schema.directions))
  BY <1>2, FS_Interval
<1>4. \A k \in Objectives : schema.directions[k] \in {"minimize", "maximize"}
  BY <1>1, <1>2, ElementOfSeq
<1> QED
  BY <1>1, <1>2, <1>3, <1>4 DEF Weighted, Objectives

LEMMA LexKeyIs ==
  ASSUME schema \in Schemas, NEW r, Comparable(r)
  PROVE  LexKey(r) \in [Objectives -> Int]
BY SchemaIs DEF LexKey, Comparable, Toward

\* What the policy makes of an objective's weight and value.
Weigh(r) == [k \in Objectives |-> schema.weights[k] * LexKey(r)[k]]
Distances(r) == {Distance(r, k) : k \in Objectives}
Lead(r) == IF schema.policy \in Weighted THEN Scalar(r) ELSE Toward(Scalar(r), 1)

LEMMA WeighIs ==
  ASSUME schema \in Schemas, NEW r, Comparable(r)
  PROVE  Weigh(r) \in [Objectives -> Int]
<1>1. ASSUME NEW k \in Objectives PROVE schema.weights[k] * LexKey(r)[k] \in Int
  <2>1. schema.weights[k] \in Int
    BY SchemaIs
  <2>2. LexKey(r)[k] \in Int
    BY LexKeyIs
  <2> QED
    BY <2>1, <2>2
<1> QED
  BY <1>1 DEF Weigh

LEMMA DistancesAre ==
  ASSUME schema \in Schemas, NEW r, Comparable(r)
  PROVE  /\ \A k \in Objectives : Distance(r, k) \in Int
         /\ IsFiniteSet(Distances(r)) /\ Distances(r) # {} /\ Distances(r) \subseteq Int
<1>1. ASSUME NEW k \in Objectives PROVE Distance(r, k) \in Int
  <2>1. schema.weights[k] \in Int /\ schema.reference[k] \in Int
    BY SchemaIs
  <2>2. LexKey(r)[k] \in Int
    BY LexKeyIs
  <2>3. Toward(schema.reference[k], k) \in Int
    BY <2>1 DEF Toward
  <2>4. PICK gap \in Int : gap = LexKey(r)[k] - Toward(schema.reference[k], k)
    BY <2>2, <2>3
  <2>5. PICK far \in Int : far = IF gap < 0 THEN -gap ELSE gap
    OBVIOUS
  <2>6. Distance(r, k) = schema.weights[k] * far
    BY <2>4, <2>5 DEF Distance
  <2> QED
    BY <2>1, <2>6
<1>2. IsFiniteSet(Objectives) /\ 1 \in Objectives
  BY SchemaIs
<1>3. IsFiniteSet(Distances(r))
  <2>1. PICK f : f = [k \in Objectives |-> Distance(r, k)]
    OBVIOUS
  <2>2. f \in Surjection(Objectives, Distances(r))
    BY <2>1 DEF Distances, Surjection
  <2> QED
    BY <1>2, <2>2, FS_Surjection
<1> QED
  BY <1>1, <1>2, <1>3 DEF Distances

LEMMA ScalarIs ==
  ASSUME schema \in Schemas, NEW r, Comparable(r)
  PROVE  /\ schema.policy \in {"primary_only", "lexicographic"} => Scalar(r) = r.values[1]
         /\ schema.policy = "weighted_sum" => Scalar(r) = FoldFunction(+, 0, Weigh(r))
         /\ schema.policy = "weighted_tchebycheff" => Scalar(r) = Max(Distances(r))
         /\ Scalar(r) \in Int /\ Lead(r) \in Int
<1>1. schema.policy \in {"primary_only", "lexicographic"} => Scalar(r) = r.values[1]
  BY DEF Scalar
<1>2. schema.policy = "weighted_sum" => Scalar(r) = FoldFunction(+, 0, Weigh(r))
  BY DEF Scalar, Weigh
<1>3. schema.policy = "weighted_tchebycheff" => Scalar(r) = Max(Distances(r))
  BY DEF Scalar, Distances
<1>4. 1 \in Objectives /\ IsFiniteSet(Objectives)
  BY SchemaIs
<1>5. r.values[1] \in Int
  BY <1>4 DEF Comparable
<1>6. FoldFunction(+, 0, Weigh(r)) \in Int
  <2>1. \A x \in Objectives : Weigh(r)[x] <= Weigh(r)[x]
    BY WeighIs
  <2> QED
    BY <1>4, <2>1, WeighIs, SumGrows
<1>7. Max(Distances(r)) \in Int
  BY DistancesAre, MaxIs
<1>8. Scalar(r) \in Int
  BY <1>1, <1>2, <1>3, <1>5, <1>6, <1>7, SchemaIs DEF Weighted
<1>9. Lead(r) \in Int
  BY <1>8 DEF Lead, Toward
<1> QED
  BY <1>1, <1>2, <1>3, <1>8, <1>9

LEMMA KeyIs ==
  ASSUME schema \in Schemas, NEW r, Comparable(r)
  PROVE  /\ RankKey(r) \in Tuples(Len(schema.directions) + 2)
         /\ RankKey(r)[1] = Lead(r) /\ RankKey(r)[Len(schema.directions) + 2] = r.id
         /\ \A k \in Objectives : RankKey(r)[k + 1] = LexKey(r)[k]
<1>1. PICK n : n = Len(schema.directions)
  OBVIOUS
<1>2. n \in Nat \ {0} /\ Objectives = 1..n
  BY <1>1, SchemaIs
<1>3. PICK key : key = LexKey(r)
  OBVIOUS
<1>4. key \in [1..n -> Int]
  BY <1>2, <1>3, LexKeyIs
<1>5. key \in Seq(Int) /\ Len(key) = n
  BY <1>2, <1>4
<1>6. PICK a \in Int : a = Lead(r)
  BY ScalarIs
<1>7. PICK b \in Int : b = r.id
  BY ReportAssumption DEF Comparable, Reports
<1>8. RankKey(r) = (<<a>> \o key) \o <<b>>
  BY <1>3, <1>6, <1>7 DEF RankKey, Lead
<1>9. <<a>> \o key \in Seq(Int) /\ Len(<<a>> \o key) = n + 1
  BY <1>2, <1>5
<1>10. RankKey(r) \in Seq(Int) /\ Len(RankKey(r)) = n + 2
  BY <1>2, <1>8, <1>9
<1>11. RankKey(r) \in [1..(n + 2) -> Int]
  BY <1>10
<1>12. RankKey(r)[1] = a /\ RankKey(r)[n + 2] = b
  BY <1>2, <1>5, <1>8, <1>9
<1>13. ASSUME NEW k \in 1..n PROVE RankKey(r)[k + 1] = key[k]
  BY <1>2, <1>5, <1>8, <1>9
<1> QED
  BY <1>1, <1>2, <1>3, <1>6, <1>7, <1>11, <1>12, <1>13 DEF Tuples

-----------------------------------------------------------------------------
(* The order of the ranks.                                                  *)

Ahead(r, s) == Before(RankKey(r), RankKey(s))
Group(set) == /\ IsFiniteSet(set) /\ \A r \in set : Comparable(r)
              /\ \A r, s \in set : r.id = s.id => r = s

LEMMA AheadIs ==
  ASSUME schema \in Schemas, NEW set, Group(set)
  PROVE  /\ \A r, s \in set : r # s => Ahead(r, s) \/ Ahead(s, r)
         /\ \A r, s \in set : Ahead(r, s) => r # s /\ ~Ahead(s, r)
         /\ \A r, s, t \in set : Ahead(r, s) /\ Ahead(s, t) => Ahead(r, t)
<1>1. PICK l \in Nat : l = Len(schema.directions) + 2
  BY SchemaIs
<1>2. \A r \in set : RankKey(r) \in Tuples(l) /\ RankKey(r)[l] = r.id
  BY <1>1, KeyIs DEF Group
<1>3. ASSUME NEW r \in set, NEW s \in set, r # s PROVE Ahead(r, s) \/ Ahead(s, r)
  <2>1. RankKey(r) # RankKey(s)
    BY <1>2, <1>3 DEF Group
  <2> QED
    BY <1>2, <2>1, BeforeIsTotal DEF Ahead
<1>4. ASSUME NEW r \in set, NEW s \in set, Ahead(r, s) PROVE r # s /\ ~Ahead(s, r)
  BY <1>2, <1>4, BeforeIsStrict DEF Ahead
<1>5. ASSUME NEW r \in set, NEW s \in set, NEW t \in set, Ahead(r, s), Ahead(s, t)
      PROVE  Ahead(r, t)
  BY <1>2, <1>5, BeforeIsTransitive DEF Ahead
<1> QED
  BY <1>3, <1>4, <1>5

LEMMA WinnerIs ==
  ASSUME schema \in Schemas, NEW set, Group(set), set # {}
  PROVE  Winner(set) \in set /\ \A s \in set \ {Winner(set)} : Ahead(Winner(set), s)
<1>1. PICK R : R = {p \in set \X set : p[1] = p[2] \/ Ahead(p[2], p[1])}
  OBVIOUS
<1>2. \A x, y \in set : <<x, y>> \in R <=> x = y \/ Ahead(y, x)
  BY <1>1
<1>3. \A x, y \in set : <<x, y>> \in R \/ <<y, x>> \in R
  BY <1>2, AheadIs
<1>4. \A x, y, z \in set : <<x, y>> \in R /\ <<y, z>> \in R => <<x, z>> \in R
  BY <1>2, AheadIs
<1>5. \E m \in set : \A x \in set : <<x, m>> \in R
  BY <1>3, <1>4, LastOfFinite DEF Group
<1>6. PICK m \in set : \A s \in set \ {m} : Before(RankKey(m), RankKey(s))
  BY <1>2, <1>5 DEF Ahead
<1> QED
  BY <1>6 DEF Winner, Ahead

\* The front lists the trials that nothing dominates, the first of the order first.
LEMMA FrontIs ==
  ASSUME schema \in Schemas, NEW set, Group(set)
  PROVE  /\ ToSet(ParetoFront(set)) = NonDominated(set)
         /\ \A r \in NonDominated(set) :
              /\ Head(ParetoFront(set)) \in NonDominated(set)
              /\ r # Head(ParetoFront(set)) => Ahead(Head(ParetoFront(set)), r)
<1>1. PICK front : front = NonDominated(set)
  OBVIOUS
<1>2. front \in SUBSET set
  BY <1>1 DEF NonDominated
<1>3. IsFiniteSet(front) /\ Group(front)
  <2>1. IsFiniteSet(front)
    BY <1>2, FS_Subset DEF Group
  <2> QED
    BY <1>2, <2>1 DEF Group
<1>4. PICK n \in Nat : n = Cardinality(front)
  BY <1>3, FS_CardinalityType
<1>5. \A r \in front : /\ Earlier(front, r) \in SUBSET front /\ r \notin Earlier(front, r)
                       /\ IsFiniteSet(Earlier(front, r))
                       /\ Cardinality(Earlier(front, r)) \in Nat
                       /\ Cardinality(Earlier(front, r)) < n
  <2>1. ASSUME NEW r \in front
        PROVE  /\ Earlier(front, r) \in SUBSET front /\ r \notin Earlier(front, r)
               /\ IsFiniteSet(Earlier(front, r)) /\ Cardinality(Earlier(front, r)) \in Nat
               /\ Cardinality(Earlier(front, r)) < n
    <3>1. PICK E : E = Earlier(front, r)
      OBVIOUS
    <3>2. E \in SUBSET front
      BY <3>1 DEF Earlier
    <3>3. r \notin E
      BY <1>3, <3>1, AheadIs DEF Earlier, Ahead
    <3>4. IsFiniteSet(E) /\ Cardinality(E) \in Nat
      BY <1>3, <3>2, FS_Subset, FS_CardinalityType
    <3>5. Cardinality(E) <= n /\ Cardinality(E) # n
      BY <1>3, <1>4, <3>2, <3>3, FS_Subset
    <3> QED
      BY <1>4, <3>1, <3>2, <3>3, <3>4, <3>5
  <2> QED
    BY <2>1
<1>6. PICK rank : rank = [r \in front |-> Cardinality(Earlier(front, r)) + 1]
  OBVIOUS
<1>7. rank \in [front -> 1..n]
  BY <1>4, <1>5, <1>6
<1>8. ASSUME NEW r \in front, NEW s \in front, Ahead(r, s) PROVE rank[r] # rank[s]
  <2>1. Earlier(front, r) \in SUBSET Earlier(front, s)
    <3>1. ASSUME NEW t \in front, Ahead(t, r) PROVE Ahead(t, s)
      BY <1>3, <1>8, <3>1, AheadIs
    <3> QED
      BY <3>1 DEF Earlier, Ahead
  <2>2. r \in Earlier(front, s) /\ r \notin Earlier(front, r)
    BY <1>5, <1>8 DEF Earlier, Ahead
  <2>3. Cardinality(Earlier(front, r)) # Cardinality(Earlier(front, s))
    BY <1>5, <2>1, <2>2, FS_Subset
  <2> QED
    BY <1>5, <1>6, <2>3
<1>9. rank \in Injection(front, 1..n)
  <2>1. ASSUME NEW r \in front, NEW s \in front, r # s PROVE rank[r] # rank[s]
    BY <1>3, <1>8, <2>1, AheadIs
  <2> QED
    BY <1>7, <2>1 DEF Injection, IsInjective
<1>10. rank \in Surjection(front, 1..n)
  <2>1. IsFiniteSet(1..n) /\ Cardinality(1..n) = n
    BY FS_Interval
  <2> QED
    BY <1>4, <1>9, <2>1, FS_Injection
<1>11. PICK P : P = ParetoFront(set)
  OBVIOUS
<1>12. P = [i \in 1..n |-> CHOOSE r \in front : Cardinality(Earlier(front, r)) = i - 1]
  BY <1>1, <1>4, <1>11 DEF ParetoFront
<1>13. ASSUME NEW i \in 1..n PROVE P[i] \in front /\ rank[P[i]] = i
  <2>1. PICK r \in front : rank[r] = i
    BY <1>10 DEF Surjection
  <2>2. Cardinality(Earlier(front, r)) = i - 1
    BY <1>5, <1>6, <2>1
  <2>3. P[i] \in front /\ Cardinality(Earlier(front, P[i])) = i - 1
    BY <1>12, <2>2
  <2> QED
    BY <1>6, <2>3
<1>14. P \in Seq(front) /\ Len(P) = n /\ DOMAIN P = 1..n
  <2>1. P \in [1..n -> front]
    BY <1>12, <1>13
  <2> QED
    BY <2>1
<1>15. ToSet(P) = {P[i] : i \in 1..n}
  BY <1>14 DEF ToSet
<1>16. ASSUME NEW r \in front PROVE r \in ToSet(P)
  <2>1. rank[r] \in 1..n
    BY <1>7
  <2>2. P[rank[r]] \in front /\ rank[P[rank[r]]] = rank[r]
    BY <1>13, <2>1
  <2>3. P[rank[r]] = r
    BY <1>9, <2>2 DEF Injection, IsInjective
  <2> QED
    BY <1>15, <2>1, <2>3
<1>17. ToSet(P) = front
  BY <1>13, <1>15, <1>16
<1>18. ASSUME NEW r \in front
       PROVE  Head(P) \in front /\ (r # Head(P) => Ahead(Head(P), r))
  <2>1. n >= 1
    BY <1>4, <1>7
  <2>2. Head(P) = P[1] /\ P[1] \in front /\ rank[P[1]] = 1
    BY <1>13, <1>14, <2>1
  <2>3. Cardinality(Earlier(front, P[1])) = 0
    BY <1>5, <1>6, <2>2
  <2>4. Earlier(front, P[1]) = {}
    BY <1>5, <2>2, <2>3, FS_EmptySet
  <2>5. ~Ahead(r, P[1])
    BY <2>4 DEF Earlier, Ahead
  <2> QED
    BY <1>3, <2>2, <2>5, AheadIs
<1> QED
  BY <1>1, <1>11, <1>17, <1>18

-----------------------------------------------------------------------------
(* Dominance.                                                               *)

LEMMA DominatesIs ==
  ASSUME schema \in Schemas, NEW set, Group(set)
  PROVE  /\ \A r \in set : ~Dominates(r, r)
         /\ \A r, s, t \in set : Dominates(r, s) /\ Dominates(s, t) => Dominates(r, t)
         /\ \A r, s \in set : Dominates(r, s) => Before(LexKey(r), LexKey(s))
<1>1. PICK n \in Nat : n = Len(schema.directions) /\ Objectives = 1..n
  BY SchemaIs
<1>2. \A r \in set : LexKey(r) \in [1..n -> Int]
  BY <1>1, LexKeyIs DEF Group
<1>3. ASSUME NEW r \in set PROVE ~Dominates(r, r)
  BY <1>1, <1>2 DEF Dominates
<1>4. ASSUME NEW r \in set, NEW s \in set, NEW t \in set, Dominates(r, s), Dominates(s, t)
      PROVE  Dominates(r, t)
  <2>1. /\ \A k \in 1..n : LexKey(r)[k] \in Int /\ LexKey(s)[k] \in Int /\ LexKey(t)[k] \in Int
        /\ \A k \in 1..n : LexKey(r)[k] <= LexKey(s)[k] /\ LexKey(s)[k] <= LexKey(t)[k]
    BY <1>1, <1>2, <1>4 DEF Dominates
  <2>2. PICK k \in 1..n : LexKey(r)[k] < LexKey(s)[k]
    BY <1>1, <1>4 DEF Dominates
  <2>3. LexKey(r)[k] < LexKey(t)[k]
    BY <2>1, <2>2
  <2>4. \A i \in 1..n : LexKey(r)[i] <= LexKey(t)[i]
    BY <2>1
  <2> QED
    BY <1>1, <2>3, <2>4 DEF Dominates
<1>5. ASSUME NEW r \in set, NEW s \in set, Dominates(r, s)
      PROVE  Before(LexKey(r), LexKey(s))
  <2>1. PICK a \in Tuples(n) : a = LexKey(r)
    BY <1>2 DEF Tuples
  <2>2. PICK b \in Tuples(n) : b = LexKey(s)
    BY <1>2 DEF Tuples
  <2>3. \A i \in 1..n : a[i] <= b[i]
    BY <1>1, <1>5, <2>1, <2>2 DEF Dominates
  <2>4. PICK k \in 1..n : a[k] < b[k]
    BY <1>1, <1>5, <2>1, <2>2 DEF Dominates
  <2>5. \A i \in 1..k : a[i] <= b[i]
    BY <2>3
  <2> QED
    BY <2>1, <2>2, <2>4, <2>5, SmallerIsBefore
<1> QED
  BY <1>3, <1>4, <1>5

\* A trial that is dominated is dominated by one that is not.
LEMMA DominatedByFront ==
  ASSUME schema \in Schemas, NEW set, Group(set), NEW r \in set, r \notin NonDominated(set)
  PROVE  \E s \in NonDominated(set) : Dominates(s, r)
<1>1. PICK n \in Nat : n = Len(schema.directions) /\ Objectives = 1..n
  BY SchemaIs
<1>2. \A s \in set : LexKey(s) \in Tuples(n)
  BY <1>1, LexKeyIs DEF Group, Tuples
<1>3. PICK D : D = {s \in set : Dominates(s, r)}
  OBVIOUS
<1>4. D # {} /\ IsFiniteSet(D) /\ D \subseteq set
  <2>1. D # {}
    BY <1>3 DEF NonDominated
  <2>2. D \in SUBSET set
    BY <1>3
  <2> QED
    BY <2>1, <2>2, FS_Subset DEF Group
<1>5. PICK R : R = {p \in D \X D : ~Before(LexKey(p[1]), LexKey(p[2]))}
  OBVIOUS
<1>6. \A x, y \in D : <<x, y>> \in R <=> ~Before(LexKey(x), LexKey(y))
  BY <1>5
<1>7. ASSUME NEW x \in D, NEW y \in D PROVE <<x, y>> \in R \/ <<y, x>> \in R
  <2>1. LexKey(x) \in Tuples(n) /\ LexKey(y) \in Tuples(n)
    BY <1>2, <1>4
  <2>2. ~Before(LexKey(x), LexKey(y)) \/ ~Before(LexKey(y), LexKey(x))
    BY <2>1, BeforeIsStrict
  <2> QED
    BY <1>6, <2>2
<1>8. ASSUME NEW x \in D, NEW y \in D, NEW z \in D, <<x, y>> \in R, <<y, z>> \in R
      PROVE  <<x, z>> \in R
  <2>1. LexKey(x) \in Tuples(n) /\ LexKey(y) \in Tuples(n) /\ LexKey(z) \in Tuples(n)
    BY <1>2, <1>4
  <2>2. ~Before(LexKey(x), LexKey(y)) /\ ~Before(LexKey(y), LexKey(z))
    BY <1>6, <1>8
  <2>3. ASSUME Before(LexKey(x), LexKey(z)) PROVE FALSE
    <3>1. LexKey(x) # LexKey(y)
      BY <2>2, <2>3
    <3>2. Before(LexKey(y), LexKey(x))
      BY <2>1, <2>2, <3>1, BeforeIsTotal
    <3> QED
      BY <2>1, <2>2, <2>3, <3>2, BeforeIsTransitive
  <2> QED
    BY <1>6, <2>3
<1>9. PICK m \in D : \A x \in D : <<x, m>> \in R
  BY <1>4, <1>7, <1>8, LastOfFinite
<1>10. ASSUME NEW t \in set, Dominates(t, m) PROVE FALSE
  <2>1. Dominates(t, r)
    BY <1>3, <1>10, DominatesIs
  <2>2. t \in D /\ Before(LexKey(t), LexKey(m))
    BY <1>3, <1>4, <1>10, <2>1, DominatesIs
  <2> QED
    BY <1>6, <1>9, <2>2
<1>11. m \in NonDominated(set)
  BY <1>4, <1>10 DEF NonDominated
<1> QED
  BY <1>3, <1>11

\* A trial that is nowhere worse has no greater scalar.
LEMMA ScalarGrows ==
  ASSUME schema \in Schemas, NEW set, Group(set), Monotone(set), NEW r \in set, NEW s \in set,
         \A k \in Objectives : LexKey(r)[k] <= LexKey(s)[k]
  PROVE  Lead(r) <= Lead(s)
<1>1. Comparable(r) /\ Comparable(s) /\ 1 \in Objectives /\ IsFiniteSet(Objectives)
  BY SchemaIs DEF Group
<1>2. CASE schema.policy \in {"primary_only", "lexicographic"}
  <2>1. schema.policy \notin Weighted
    BY <1>2 DEF Weighted
  <2>2. Lead(r) = LexKey(r)[1] /\ Lead(s) = LexKey(s)[1]
    BY <1>1, <1>2, <2>1, ScalarIs DEF Lead, LexKey
  <2> QED
    BY <1>1, <2>2
<1>3. ASSUME NEW k \in Objectives, NEW x \in Int, NEW y \in Int, x <= y
      PROVE  schema.weights[k] * x <= schema.weights[k] * y
  <2>1. PICK w \in Nat : w = schema.weights[k]
    BY SchemaIs
  <2>2. PICK d \in Nat : y = x + d
    BY <1>3
  <2>3. w * d \in Nat /\ w * y = w * x + w * d /\ w * x \in Int
    BY <2>2
  <2> QED
    BY <2>1, <2>3
<1>4. CASE schema.policy = "weighted_sum"
  <2>1. Weigh(r) \in [Objectives -> Int] /\ Weigh(s) \in [Objectives -> Int]
    BY <1>1, WeighIs
  <2>2. \A k \in Objectives : Weigh(r)[k] <= Weigh(s)[k]
    <3>1. TAKE k \in Objectives
    <3>2. LexKey(r)[k] \in Int /\ LexKey(s)[k] \in Int
      BY <1>1, LexKeyIs
    <3> QED
      BY <1>3, <3>2 DEF Weigh
  <2>3. FoldFunction(+, 0, Weigh(r)) <= FoldFunction(+, 0, Weigh(s))
    BY <1>1, <2>1, <2>2, SumGrows
  <2> QED
    BY <1>1, <1>4, <2>3, ScalarIs DEF Lead, Weighted
<1>5. CASE schema.policy = "weighted_tchebycheff"
  <2>1. ASSUME NEW k \in Objectives PROVE Distance(r, k) <= Distance(s, k)
    <3>1. LexKey(r)[k] \in Int /\ LexKey(s)[k] \in Int /\ schema.reference[k] \in Int
      BY <1>1, LexKeyIs, SchemaIs
    <3>2. PICK ref \in Int : ref = Toward(schema.reference[k], k)
      BY <3>1 DEF Toward
    <3>3. PICK x \in Int : x = LexKey(r)[k] - ref
      BY <3>1
    <3>4. PICK y \in Int : y = LexKey(s)[k] - ref
      BY <3>1
    <3>5. LexKey(r)[k] >= ref /\ LexKey(s)[k] >= ref
      BY <1>5, <3>2 DEF Monotone
    <3>6. 0 <= x /\ x <= y
      BY <3>1, <3>3, <3>4, <3>5
    <3>7. Distance(r, k) = schema.weights[k] * x /\ Distance(s, k) = schema.weights[k] * y
      BY <3>2, <3>3, <3>4, <3>6 DEF Distance
    <3> QED
      BY <1>3, <3>6, <3>7
  <2>2. /\ Max(Distances(r)) \in Distances(r) /\ Max(Distances(s)) \in Int
        /\ \A x \in Distances(s) : x <= Max(Distances(s))
    BY <1>1, DistancesAre, MaxIs
  <2>3. PICK k \in Objectives : Max(Distances(r)) = Distance(r, k)
    BY <2>2 DEF Distances
  <2>4. Distance(s, k) <= Max(Distances(s))
    BY <2>2 DEF Distances
  <2>5. Distance(r, k) \in Int /\ Distance(s, k) \in Int
    BY <1>1, DistancesAre
  <2>6. Max(Distances(r)) <= Max(Distances(s))
    BY <2>1, <2>2, <2>3, <2>4, <2>5
  <2> QED
    BY <1>1, <1>5, <2>6, ScalarIs DEF Lead, Weighted
<1> QED
  BY <1>2, <1>4, <1>5, SchemaIs DEF Weighted

\* Where the policy is monotone nothing dominates the winner.
LEMMA WinnerOnFront ==
  ASSUME schema \in Schemas, NEW set, Group(set), set # {}, Monotone(set)
  PROVE  Winner(set) \in NonDominated(set)
<1>1. PICK w \in set : w = Winner(set) /\ \A s \in set \ {w} : Ahead(w, s)
  BY WinnerIs
<1>2. ASSUME NEW t \in set \ {w}, Dominates(t, w) PROVE FALSE
  <2>1. PICK n \in Nat : n = Len(schema.directions) /\ Objectives = 1..n
    BY SchemaIs
  <2>2. Comparable(t) /\ Comparable(w)
    BY DEF Group
  <2>3. PICK a \in Tuples(n + 2) : a = RankKey(t)
    BY <2>1, <2>2, KeyIs
  <2>4. PICK b \in Tuples(n + 2) : b = RankKey(w)
    BY <2>1, <2>2, KeyIs
  <2>5. \A k \in 1..n : a[k + 1] <= b[k + 1]
    BY <1>2, <2>1, <2>2, <2>3, <2>4, KeyIs DEF Dominates
  <2>6. PICK k \in 1..n : a[k + 1] < b[k + 1]
    BY <1>2, <2>1, <2>2, <2>3, <2>4, KeyIs DEF Dominates
  <2>7. a[1] <= b[1]
    <3>1. Lead(t) <= Lead(w)
      BY <1>2, ScalarGrows DEF Dominates
    <3> QED
      BY <2>2, <2>3, <2>4, <3>1, KeyIs
  <2>8. ASSUME NEW i \in 1..(k + 1) PROVE a[i] <= b[i]
    <3>1. i = 1 \/ (i - 1 \in 1..n /\ i = (i - 1) + 1)
      OBVIOUS
    <3>2. CASE i = 1
      BY <2>7, <3>2
    <3>3. CASE i - 1 \in 1..n /\ i = (i - 1) + 1
      <4>1. PICK j \in 1..n : i = j + 1
        BY <3>3
      <4> QED
        BY <2>5, <4>1
    <3> QED
      BY <3>1, <3>2, <3>3
  <2>9. k + 1 \in 1..(n + 2) /\ n + 2 \in Nat
    OBVIOUS
  <2>10. Before(a, b)
    BY <2>6, <2>8, <2>9, SmallerIsBefore
  <2>11. Ahead(t, w) /\ Ahead(w, t)
    BY <1>1, <2>3, <2>4, <2>10 DEF Ahead
  <2> QED
    BY <2>11, AheadIs
<1> QED
  BY <1>1, <1>2 DEF NonDominated

\* What is claimed of a front holds of any results.
LEMMA FrontHolds ==
  ASSUME schema \in Schemas, NEW set, Group(set)
  PROVE  FrontCovers(set) /\ FrontIsMinimal(set) /\ BestHeadsFront(set)
<1>1. FrontCovers(set)
  BY FrontIs, DominatedByFront DEF FrontCovers
<1>2. FrontIsMinimal(set)
  <2>1. ASSUME NEW r \in NonDominated(set), NEW s \in NonDominated(set), Dominates(r, s)
        PROVE  FALSE
    <3>1. r \in set /\ s \in set
      BY DEF NonDominated
    <3>2. r # s
      BY <2>1, <3>1, DominatesIs
    <3> QED
      BY <2>1, <3>1, <3>2 DEF NonDominated
  <2> QED
    BY <2>1, FrontIs DEF FrontIsMinimal
<1>3. BestHeadsFront(set)
  <2>1. SUFFICES ASSUME set # {}, Monotone(set)
                 PROVE  Head(ParetoFront(set)) = Winner(set)
    BY DEF BestHeadsFront
  <2>2. PICK w \in NonDominated(set) :
          w = Winner(set) /\ w \in set /\ \A s \in set \ {w} : Ahead(w, s)
    BY <2>1, WinnerOnFront, WinnerIs
  <2>3. PICK h \in NonDominated(set) :
          h = Head(ParetoFront(set)) /\ (w # h => Ahead(h, w))
    BY <2>2, FrontIs
  <2>4. h \in set
    BY DEF NonDominated
  <2>5. ASSUME w # h PROVE FALSE
    BY <2>2, <2>3, <2>4, <2>5, AheadIs
  <2> QED
    BY <2>2, <2>3, <2>5
<1> QED
  BY <1>1, <1>2, <1>3

-----------------------------------------------------------------------------
(* The volume below boxes.  The recursion of Union is a function, there is  *)
(* one, and it counts cells.                                                *)

Parts(n) == SUBSET [1..n -> Nat]
Layers(g, d, piece) ==
  [upper \in Levels(piece, d) |->
     Slab(Levels(piece, d), upper) * g[<<d - 1, {b \in piece : b[d] >= upper}>>]]
Body(g, d, piece) ==
  IF d = 1 THEN Highest(Levels(piece, 1)) ELSE FoldFunction(+, 0, Layers(g, d, piece))
Measures(g, m, n) ==
  /\ g = [p \in (1..m) \X Parts(n) |-> g[p]]
  /\ \A d \in 1..m, piece \in Parts(n) : g[<<d, piece>>] = Body(g, d, piece)

LEMMA MeasureExists ==
  ASSUME NEW n \in Nat
  PROVE  \E g : Measures(g, n, n)
<1> DEFINE Bad == {m \in Nat : ~\E g : Measures(g, m, n)}
<1>1. ASSUME Bad # {} PROVE FALSE
  <2>1. PICK m \in Bad : \A j \in Bad : m <= j
    <3>1. Bad \in SUBSET Nat
      OBVIOUS
    <3> HIDE DEF Bad
    <3> QED
      BY <1>1, <3>1, LeastOfNaturals
  <2>2. CASE m = 0
    <3>1. PICK g : g = [p \in (1..0) \X Parts(n) |-> 0]
      OBVIOUS
    <3>2. Measures(g, 0, n)
      BY <3>1 DEF Measures
    <3> QED
      BY <2>1, <2>2, <3>2
  <2>3. CASE m # 0
    <3>1. m - 1 \in Nat /\ m - 1 \notin Bad
      <4>1. m \in Nat
        OBVIOUS
      <4> HIDE DEF Bad
      <4> QED
        BY <2>1, <2>3, <4>1
    <3>2. PICK g : Measures(g, m - 1, n)
      BY <3>1
    <3>3. PICK h : h = [p \in (1..m) \X Parts(n) |-> Body(g, p[1], p[2])]
      OBVIOUS
    <3>4. ASSUME NEW d \in 1..(m - 1), NEW piece \in Parts(n)
          PROVE  h[<<d, piece>>] = g[<<d, piece>>]
      <4>1. <<d, piece>> \in (1..m) \X Parts(n)
        OBVIOUS
      <4> QED
        BY <3>2, <3>3, <4>1 DEF Measures
    <3>5. ASSUME NEW d \in 1..m, NEW piece \in Parts(n) PROVE h[<<d, piece>>] = Body(h, d, piece)
      <4>1. <<d, piece>> \in (1..m) \X Parts(n)
        OBVIOUS
      <4>2. h[<<d, piece>>] = Body(g, d, piece)
        BY <3>3, <4>1
      <4>3. CASE d = 1
        BY <4>2, <4>3 DEF Body
      <4>4. CASE d # 1
        <5>1. ASSUME NEW upper
              PROVE  h[<<d - 1, {b \in piece : b[d] >= upper}>>]
                       = g[<<d - 1, {b \in piece : b[d] >= upper}>>]
          <6>1. {b \in piece : b[d] >= upper} \in Parts(n)
            BY DEF Parts
          <6>2. d - 1 \in 1..(m - 1)
            BY <4>4
          <6> QED
            BY <3>4, <6>1, <6>2
        <5>2. Layers(h, d, piece) = Layers(g, d, piece)
          BY <5>1 DEF Layers
        <5> QED
          BY <4>2, <4>4, <5>2 DEF Body
      <4> QED
        BY <4>3, <4>4
    <3>6. h = [p \in (1..m) \X Parts(n) |-> h[p]]
      BY <3>3
    <3>7. Measures(h, m, n)
      BY <3>5, <3>6 DEF Measures
    <3> QED
      BY <2>1, <3>7
  <2> QED
    BY <2>2, <2>3
<1> QED
  BY <1>1

LEMMA UnionIs ==
  ASSUME NEW n \in Nat, NEW boxes
  PROVE  \E g : Measures(g, n, n) /\ Union(boxes, n) = g[<<n, boxes>>]
<1> DEFINE Made(g) == g = [p \in (1..n) \X SUBSET [1..n -> Nat] |->
        LET d == p[1]
            piece == p[2]
        IN  IF d = 1 THEN Highest(Levels(piece, 1))
            ELSE FoldFunction(+, 0, [upper \in Levels(piece, d) |->
                   Slab(Levels(piece, d), upper) * g[<<d - 1, {b \in piece : b[d] >= upper}>>]])]
<1>1. PICK h : Measures(h, n, n)
  BY MeasureExists
<1>2. Made(h)
  <2>1. PICK f : f = [p \in (1..n) \X SUBSET [1..n -> Nat] |-> Body(h, p[1], p[2])]
    OBVIOUS
  <2>2. PICK e : e = [p \in (1..n) \X Parts(n) |-> h[p]]
    OBVIOUS
  <2>3. \A p \in (1..n) \X Parts(n) : h[p] = Body(h, p[1], p[2])
    <3>1. TAKE p \in (1..n) \X Parts(n)
    <3>2. p[1] \in 1..n /\ p[2] \in Parts(n) /\ p = <<p[1], p[2]>>
      OBVIOUS
    <3> QED
      BY <1>1, <3>2 DEF Measures
  <2>4. h = e
    BY <1>1, <2>2 DEF Measures
  <2>5. e = f
    BY <2>1, <2>2, <2>3 DEF Parts
  <2> QED
    BY <2>1, <2>4, <2>5 DEF Body, Layers
<1>3. PICK g : g = CHOOSE k : Made(k)
  OBVIOUS
<1>4. Made(g)
  BY <1>2, <1>3
<1>5. Union(boxes, n) = g[<<n, boxes>>]
  BY <1>3 DEF Union
<1>6. Measures(g, n, n)
  <2>1. g = [p \in (1..n) \X Parts(n) |-> g[p]]
    BY <1>4 DEF Parts
  <2>2. ASSUME NEW d \in 1..n, NEW piece \in Parts(n) PROVE g[<<d, piece>>] = Body(g, d, piece)
    <3>1. <<d, piece>> \in (1..n) \X SUBSET [1..n -> Nat]
      BY DEF Parts
    <3> QED
      BY <1>4, <3>1 DEF Body, Layers
  <2> QED
    BY <2>1, <2>2 DEF Measures
<1> QED
  BY <1>5, <1>6

\* Sets that do not meet, what each holds, and what they hold together.
Parted(L, A, f, U) ==
  /\ IsFiniteSet(L) /\ f \in [L -> Int] /\ U = UNION {A[x] : x \in L}
  /\ \A x \in L : IsFiniteSet(A[x]) /\ f[x] = Cardinality(A[x])
  /\ \A x, y \in L : x # y => A[x] \cap A[y] = {}

LEMMA DisjointSum ==
  ASSUME NEW L, NEW A, NEW f, NEW U, Parted(L, A, f, U)
  PROVE  IsFiniteSet(U) /\ FoldFunction(+, 0, f) = Cardinality(U)
<1>0. /\ IsFiniteSet(L) /\ f \in [L -> Int] /\ U = UNION {A[x] : x \in L}
      /\ \A x \in L : IsFiniteSet(A[x]) /\ f[x] = Cardinality(A[x])
      /\ \A x, y \in L : x # y => A[x] \cap A[y] = {}
  BY DEF Parted
<1>1. PICK a : AddsUp(a, f, SUBSET L) /\ FoldFunction(+, 0, f) = a[L]
  <2>1. DOMAIN f = L
    BY <1>0
  <2> QED
    BY <1>0, <2>1, SumIs
<1> DEFINE All(s) == UNION {A[x] : x \in s}
           Holds(s) == IsFiniteSet(All(s)) /\ a[s] = Cardinality(All(s))
           Sizes == {n \in Nat : \E s \in SUBSET L : Cardinality(s) = n /\ ~Holds(s)}
<1>2. ASSUME Sizes # {} PROVE FALSE
  <2>1. PICK n \in Sizes : \A m \in Sizes : n <= m
    <3>1. Sizes \in SUBSET Nat
      OBVIOUS
    <3> HIDE DEF Sizes
    <3> QED
      BY <1>2, <3>1, LeastOfNaturals
  <2>2. PICK s \in SUBSET L : Cardinality(s) = n /\ ~Holds(s)
    BY <2>1
  <2>3. s # {}
    <3>1. {} \in SUBSET L /\ All({}) = {}
      OBVIOUS
    <3>2. a[{}] = 0
      BY <1>1, <3>1 DEF AddsUp
    <3>3. Holds({})
      BY <3>1, <3>2, FS_EmptySet
    <3> QED
      BY <2>2, <3>3
  <2>4. PICK x \in s : x = First(s)
    BY <2>3 DEF First
  <2>5. PICK t : t = s \ {x}
    OBVIOUS
  <2>6. t \in SUBSET L /\ Cardinality(t) \in Nat /\ Cardinality(t) = n - 1
    <3>1. IsFiniteSet(s)
      BY <1>0, FS_Subset
    <3>2. Cardinality(t) = Cardinality(s) - 1 /\ IsFiniteSet(t)
      BY <2>4, <2>5, <3>1, FS_RemoveElement
    <3> QED
      BY <2>2, <2>5, <3>2, FS_CardinalityType
  <2>7. Holds(t)
    <3>1. ~(n <= n - 1)
      BY <2>1
    <3>2. Cardinality(t) \notin Sizes
      <4> HIDE DEF Sizes
      <4> QED
        BY <2>1, <2>6, <3>1
    <3> QED
      BY <2>6, <3>2
  <2>8. a[s] = f[x] + a[t]
    BY <1>1, <2>3, <2>4, <2>5 DEF AddsUp
  <2>9. x \in L /\ IsFiniteSet(A[x]) /\ f[x] = Cardinality(A[x]) /\ f[x] \in Int
    BY <1>0, <2>4
  <2>10. All(s) = A[x] \cup All(t)
    BY <2>4, <2>5
  <2>11. A[x] \cap All(t) = {}
    <3>1. \A y \in t : y \in L /\ y # x
      BY <2>5
    <3> QED
      BY <1>0, <2>9, <3>1
  <2>12. PICK B : B = A[x]
    OBVIOUS
  <2>13. PICK C : C = All(t)
    OBVIOUS
  <2>14. IsFiniteSet(B) /\ IsFiniteSet(C) /\ B \cap C = {} /\ All(s) = B \cup C
    BY <2>7, <2>9, <2>10, <2>11, <2>12, <2>13
  <2>15. /\ IsFiniteSet(B \cup C)
         /\ Cardinality(B \cup C) = Cardinality(B) + Cardinality(C) - Cardinality(B \cap C)
    BY <2>14, FS_Union
  <2>16. Cardinality(B \cap C) = 0 /\ Cardinality(B) \in Nat /\ Cardinality(C) \in Nat
    BY <2>14, FS_EmptySet, FS_CardinalityType
  <2>17. a[s] = Cardinality(All(s))
    <3>1. f[x] = Cardinality(B) /\ a[t] = Cardinality(C)
      BY <2>7, <2>9, <2>12, <2>13
    <3>2. Cardinality(All(s)) = Cardinality(B) + Cardinality(C)
      <4> HIDE DEF All
      <4> QED
        BY <2>14, <2>15, <2>16
    <3> HIDE DEF All
    <3> QED
      BY <2>8, <3>1, <3>2
  <2> QED
    BY <2>2, <2>14, <2>15, <2>17
<1>3. Cardinality(L) \in Nat /\ L \in SUBSET L
  BY <1>0, FS_CardinalityType
<1> QED
  BY <1>0, <1>1, <1>2, <1>3

LEMMA HighestIs ==
  ASSUME NEW S \in SUBSET Nat, IsFiniteSet(S)
  PROVE  /\ Highest(S) \in Nat /\ Highest(S) \in {0} \cup S
         /\ \A x \in S : x <= Highest(S)
<1>1. PICK T : T = {0} \cup S
  OBVIOUS
<1>2. IsFiniteSet(T) /\ T # {} /\ T \subseteq Int /\ T \subseteq Nat
  BY <1>1, FS_AddElement
<1>3. Max(T) \in T /\ \A x \in T : x <= Max(T)
  BY <1>2, MaxIs
<1> QED
  BY <1>1, <1>2, <1>3 DEF Highest

-----------------------------------------------------------------------------
(* The cells below some box, in the first dimensions.                       *)

Below(c, b, d) == \A k \in 1..d : c[k] < b[k]
Under(d, boxes) == {c \in [1..d -> Nat] : \E b \in boxes : Below(c, b, d)}
High(boxes, d, upper) == {b \in boxes : b[d] >= upper}
Foot(boxes, d, upper) == Highest({v \in Levels(boxes, d) : v < upper})
Slice(d, boxes, upper) ==
  {c \in Under(d, boxes) : Foot(boxes, d, upper) <= c[d] /\ c[d] < upper}

LEMMA LevelsAre ==
  ASSUME NEW n \in Nat, NEW d \in 1..n, NEW boxes \in Parts(n), IsFiniteSet(boxes)
  PROVE  /\ IsFiniteSet(Levels(boxes, d)) /\ Levels(boxes, d) \in SUBSET Nat
         /\ \A upper \in Levels(boxes, d) :
              /\ Foot(boxes, d, upper) \in Nat /\ Foot(boxes, d, upper) <= upper
              /\ Foot(boxes, d, upper) = 0 \/ Foot(boxes, d, upper) \in Levels(boxes, d)
              /\ \A v \in Levels(boxes, d) : v < upper => v <= Foot(boxes, d, upper)
<1>1. Levels(boxes, d) \in SUBSET Nat
  BY DEF Levels, Parts
<1>2. IsFiniteSet(Levels(boxes, d))
  <2>1. PICK f : f = [b \in boxes |-> b[d]]
    OBVIOUS
  <2>2. f \in Surjection(boxes, Levels(boxes, d))
    BY <2>1 DEF Levels, Surjection
  <2> QED
    BY <2>2, FS_Surjection
<1>3. ASSUME NEW upper \in Levels(boxes, d)
      PROVE  /\ Foot(boxes, d, upper) \in Nat /\ Foot(boxes, d, upper) <= upper
             /\ Foot(boxes, d, upper) = 0 \/ Foot(boxes, d, upper) \in Levels(boxes, d)
             /\ \A v \in Levels(boxes, d) : v < upper => v <= Foot(boxes, d, upper)
  <2>1. PICK S : S = {v \in Levels(boxes, d) : v < upper}
    OBVIOUS
  <2>2. S \in SUBSET Nat /\ IsFiniteSet(S) /\ upper \in Nat
    BY <1>1, <1>2, <2>1, FS_Subset
  <2>3. /\ Highest(S) \in Nat /\ Highest(S) \in {0} \cup S /\ \A x \in S : x <= Highest(S)
    BY <2>2, HighestIs
  <2>4. Foot(boxes, d, upper) = Highest(S)
    BY <2>1 DEF Foot
  <2> QED
    BY <2>1, <2>2, <2>3, <2>4
<1> QED
  BY <1>1, <1>2, <1>3

LEMMA IntervalIs ==
  ASSUME NEW a \in Int, NEW b \in Int, a <= b
  PROVE  IsFiniteSet(a..(b - 1)) /\ Cardinality(a..(b - 1)) = b - a
<1>1. PICK c \in Int : c = b - 1
  OBVIOUS
<1>2. IsFiniteSet(a..c) /\ Cardinality(a..c) = IF a > c THEN 0 ELSE c - a + 1
  BY FS_Interval
<1> QED
  BY <1>1, <1>2

\* Below a level lies the product of what the level adds and the boxes that reach it.
LEMMA SliceIs ==
  ASSUME NEW n \in Nat, NEW d \in 2..n, NEW boxes \in Parts(n), IsFiniteSet(boxes),
         NEW upper \in Levels(boxes, d), IsFiniteSet(Under(d - 1, High(boxes, d, upper)))
  PROVE  /\ IsFiniteSet(Slice(d, boxes, upper))
         /\ Cardinality(Slice(d, boxes, upper))
              = Slab(Levels(boxes, d), upper) * Cardinality(Under(d - 1, High(boxes, d, upper)))
<1>1. PICK foot : foot = Foot(boxes, d, upper)
  OBVIOUS
<1>2. foot \in Nat /\ upper \in Nat /\ foot <= upper
  BY <1>1, LevelsAre
<1>3. PICK H : H = Under(d - 1, High(boxes, d, upper))
  OBVIOUS
<1>4. PICK I : I = foot..(upper - 1)
  OBVIOUS
<1>5. IsFiniteSet(I) /\ Cardinality(I) = upper - foot
  BY SMTT(30), <1>2, <1>4, IntervalIs
<1>6. PICK S : S = Slice(d, boxes, upper)
  OBVIOUS
<1>7. \A b \in boxes : b \in [1..n -> Nat]
  BY DEF Parts
<1>8. PICK join : join = [p \in I \X H |-> [k \in 1..d |-> IF k = d THEN p[1] ELSE p[2][k]]]
  OBVIOUS
<1>9. \A h \in H : h \in [1..(d - 1) -> Nat]
  BY <1>3 DEF Under
<1>10. ASSUME NEW p \in I \X H PROVE join[p] \in S
  <2>1. PICK z \in I, h \in H : p = <<z, h>>
    OBVIOUS
  <2>2. join[p] = [k \in 1..d |-> IF k = d THEN z ELSE h[k]]
    BY <1>8, <2>1
  <2>3. PICK c : c = join[p]
    OBVIOUS
  <2>4. z \in Nat /\ foot <= z /\ z < upper
    BY <1>2, <1>4
  <2>5. c \in [1..d -> Nat] /\ c[d] = z /\ \A k \in 1..(d - 1) : c[k] = h[k]
    BY <1>9, <2>2, <2>3, <2>4
  <2>6. PICK b \in High(boxes, d, upper) : Below(h, b, d - 1)
    BY <1>3 DEF Under
  <2>7. b \in boxes /\ b[d] >= upper
    BY DEF High
  <2>8. Below(c, b, d)
    <3>1. ASSUME NEW k \in 1..d PROVE c[k] < b[k]
      <4>1. CASE k = d
        <5>1. b[d] \in Nat
          BY <1>7, <2>7
        <5> QED
          BY <1>2, <2>4, <2>5, <2>7, <4>1, <5>1
      <4>2. CASE k # d
        <5>1. k \in 1..(d - 1)
          BY <4>2
        <5> QED
          BY <2>5, <2>6, <5>1 DEF Below
      <4> QED
        BY <4>1, <4>2
    <3> QED
      BY <3>1 DEF Below
  <2>9. c \in Under(d, boxes)
    BY <2>5, <2>7, <2>8 DEF Under
  <2> QED
    BY <1>1, <1>6, <2>3, <2>4, <2>5, <2>9 DEF Slice
<1>11. ASSUME NEW p \in I \X H, NEW q \in I \X H, join[p] = join[q] PROVE p = q
  <2>1. PICK y \in I, g \in H : p = <<y, g>>
    OBVIOUS
  <2>2. PICK z \in I, h \in H : q = <<z, h>>
    OBVIOUS
  <2>3. join[p] = [k \in 1..d |-> IF k = d THEN y ELSE g[k]]
    BY <1>8, <2>1
  <2>4. join[q] = [k \in 1..d |-> IF k = d THEN z ELSE h[k]]
    BY <1>8, <2>2
  <2>5. d \in 1..d
    OBVIOUS
  <2>6. y = z
    BY <1>11, <2>3, <2>4, <2>5
  <2>7. ASSUME NEW k \in 1..(d - 1) PROVE g[k] = h[k]
    <3>1. k \in 1..d /\ k # d
      OBVIOUS
    <3>2. join[p][k] = g[k]
      BY <2>3, <3>1
    <3>3. join[q][k] = h[k]
      BY <2>4, <3>1
    <3> QED
      BY <1>11, <3>2, <3>3
  <2>8. g = h
    BY <1>9, <2>7
  <2> QED
    BY <2>1, <2>2, <2>6, <2>8
<1>12. ASSUME NEW c \in S PROVE \E p \in I \X H : join[p] = c
  <2>1. /\ c \in [1..d -> Nat] /\ foot <= c[d] /\ c[d] < upper
        /\ \E b \in boxes : Below(c, b, d)
    BY <1>1, <1>6 DEF Slice, Under
  <2>2. PICK b \in boxes : Below(c, b, d)
    BY <2>1
  <2>3. b[d] >= upper
    <3>1. b[d] \in Nat /\ b[d] \in Levels(boxes, d)
      BY <1>7 DEF Levels
    <3>2. c[d] < b[d] /\ c[d] \in Nat
      BY <2>1, <2>2 DEF Below
    <3>3. b[d] < upper => b[d] <= foot
      BY <1>1, <3>1, LevelsAre
    <3> QED
      BY <1>2, <2>1, <3>1, <3>2, <3>3
  <2>4. PICK h : h = [k \in 1..(d - 1) |-> c[k]]
    OBVIOUS
  <2>5. h \in [1..(d - 1) -> Nat]
    BY <2>1, <2>4
  <2>6. Below(h, b, d - 1)
    BY <2>2, <2>4 DEF Below
  <2>7. h \in H
    BY <1>3, <2>3, <2>5, <2>6 DEF Under, High
  <2>8. c[d] \in I
    BY <1>2, <1>4, <2>1
  <2>9. <<c[d], h>> \in I \X H
    BY <2>7, <2>8
  <2>10. join[<<c[d], h>>] = [k \in 1..d |-> IF k = d THEN c[d] ELSE h[k]]
    BY <1>8, <2>9
  <2>11. [k \in 1..d |-> IF k = d THEN c[d] ELSE h[k]] = c
    <3>1. ASSUME NEW k \in 1..d PROVE (IF k = d THEN c[d] ELSE h[k]) = c[k]
      BY <2>4
    <3> QED
      BY <2>1, <3>1
  <2> QED
    BY <2>9, <2>10, <2>11
<1>13. join \in Bijection(I \X H, S)
  <2>1. join \in [I \X H -> S]
    BY <1>8, <1>10
  <2>2. IsInjective(join)
    BY <1>11, <2>1 DEF IsInjective
  <2> QED
    BY <1>12, <2>1, <2>2 DEF Bijection, Injection, Surjection
<1>14. /\ IsFiniteSet(I \X H)
       /\ Cardinality(I \X H) = Cardinality(I) * Cardinality(H)
  BY <1>3, <1>5, FS_Product
<1>15. IsFiniteSet(S) /\ Cardinality(S) = Cardinality(I \X H)
  <2>1. ExistsBijection(I \X H, S)
    BY <1>13 DEF ExistsBijection
  <2> QED
    BY <1>14, <2>1, FS_Bijection
<1>16. Slab(Levels(boxes, d), upper) = upper - foot
  BY <1>1 DEF Slab, Foot
<1> QED
  BY <1>3, <1>5, <1>6, <1>14, <1>15, <1>16

\* The slices below the levels make up all that lies below a box.
LEMMA SlicesAre ==
  ASSUME NEW n \in Nat, NEW d \in 2..n, NEW boxes \in Parts(n), IsFiniteSet(boxes)
  PROVE  /\ Under(d, boxes) = UNION {Slice(d, boxes, upper) : upper \in Levels(boxes, d)}
         /\ \A u, v \in Levels(boxes, d) :
              u # v => Slice(d, boxes, u) \cap Slice(d, boxes, v) = {}
<1>1. Levels(boxes, d) \in SUBSET Nat
  BY LevelsAre
<1>2. ASSUME NEW c \in Under(d, boxes)
      PROVE  \E upper \in Levels(boxes, d) : c \in Slice(d, boxes, upper)
  <2>1. c \in [1..d -> Nat] /\ \E b \in boxes : Below(c, b, d)
    BY DEF Under
  <2>2. PICK b \in boxes : Below(c, b, d)
    BY <2>1
  <2>3. c[d] < b[d] /\ c[d] \in Nat /\ b[d] \in Levels(boxes, d)
    BY <2>1, <2>2 DEF Below, Levels
  <2>4. PICK T : T = {v \in Levels(boxes, d) : c[d] < v}
    OBVIOUS
  <2>5. T \in SUBSET Nat /\ T # {}
    BY <1>1, <2>3, <2>4
  <2>6. PICK upper \in T : \A v \in T : upper <= v
    BY <2>5, LeastOfNaturals
  <2>7. upper \in Levels(boxes, d) /\ c[d] < upper /\ upper \in Nat
    BY <2>4, <2>5
  <2>8. Foot(boxes, d, upper) <= c[d]
    <3>1. PICK foot \in Nat : foot = Foot(boxes, d, upper)
      BY <2>7, LevelsAre
    <3>2. CASE foot = 0
      BY <2>3, <3>1, <3>2
    <3>3. CASE foot # 0
      <4>1. foot \in {v \in Levels(boxes, d) : v < upper}
        <5>1. PICK S : S = {v \in Levels(boxes, d) : v < upper}
          OBVIOUS
        <5>2. S \in SUBSET Nat /\ IsFiniteSet(S)
          BY <1>1, <5>1, FS_Subset, LevelsAre
        <5>3. Highest(S) \in {0} \cup S
          BY <5>2, HighestIs
        <5> QED
          BY <3>1, <3>3, <5>1, <5>3 DEF Foot
      <4>2. foot \notin T
        BY <2>6, <2>7, <4>1
      <4> QED
        BY <2>3, <2>4, <3>1, <4>1, <4>2
    <3> QED
      BY <3>2, <3>3
  <2> QED
    BY <2>7, <2>8 DEF Slice
<1>3. ASSUME NEW u \in Levels(boxes, d), NEW v \in Levels(boxes, d), u < v,
             NEW c \in Slice(d, boxes, u), c \in Slice(d, boxes, v)
      PROVE  FALSE
  <2>1. u <= Foot(boxes, d, v) /\ Foot(boxes, d, v) \in Nat
    BY <1>3, LevelsAre
  <2>2. c[d] < u /\ Foot(boxes, d, v) <= c[d] /\ c[d] \in Nat
    BY <1>3 DEF Slice, Under
  <2> QED
    BY <1>1, <2>1, <2>2
<1>4. ASSUME NEW u \in Levels(boxes, d), NEW v \in Levels(boxes, d), u # v
      PROVE  Slice(d, boxes, u) \cap Slice(d, boxes, v) = {}
  <2>1. u < v \/ v < u
    BY <1>1, <1>4
  <2> QED
    BY <1>3, <2>1
<1>5. \A u \in Levels(boxes, d) : Slice(d, boxes, u) \subseteq Under(d, boxes)
  BY DEF Slice
<1> QED
  BY <1>2, <1>4, <1>5

\* In one dimension.
LEMMA UnderOne ==
  ASSUME NEW n \in Nat \ {0}, NEW boxes \in Parts(n), IsFiniteSet(boxes)
  PROVE  /\ IsFiniteSet(Under(1, boxes))
         /\ Cardinality(Under(1, boxes)) = Highest(Levels(boxes, 1))
<1>1. PICK top : top = Highest(Levels(boxes, 1))
  OBVIOUS
<1>2. top \in Nat /\ top \in {0} \cup Levels(boxes, 1) /\ \A x \in Levels(boxes, 1) : x <= top
  BY <1>1, LevelsAre, HighestIs
<1>3. PICK lift : lift = [z \in 0..(top - 1) |-> [k \in 1..1 |-> z]]
  OBVIOUS
<1>4. ASSUME NEW z \in 0..(top - 1) PROVE lift[z] \in Under(1, boxes)
  <2>1. lift[z] = [k \in 1..1 |-> z]
    BY <1>3
  <2>2. lift[z] \in [1..1 -> Nat]
    BY <2>1
  <2>3. PICK b \in boxes : b[1] = top
    BY <1>2 DEF Levels
  <2>4. Below(lift[z], b, 1)
    <3>1. ASSUME NEW k \in 1..1 PROVE lift[z][k] < b[k]
      <4>1. k = 1 /\ lift[z][1] = z
        BY <2>1
      <4> QED
        BY <1>2, <2>3, <4>1
    <3> QED
      BY <3>1 DEF Below
  <2> QED
    BY <2>2, <2>4 DEF Under
<1>5. ASSUME NEW c \in Under(1, boxes) PROVE \E z \in 0..(top - 1) : lift[z] = c
  <2>1. c \in [1..1 -> Nat] /\ \E b \in boxes : Below(c, b, 1)
    BY DEF Under
  <2>2. PICK b \in boxes : Below(c, b, 1)
    BY <2>1
  <2>3. c[1] < b[1] /\ c[1] \in Nat /\ b[1] \in Levels(boxes, 1) /\ b[1] \in Nat
    BY <2>1, <2>2 DEF Below, Levels, Parts
  <2>4. c[1] \in 0..(top - 1)
    BY <1>2, <2>3
  <2>5. lift[c[1]] = [k \in 1..1 |-> c[1]]
    BY <1>3, <2>4
  <2>6. [k \in 1..1 |-> c[1]] = c
    <3>1. \A k \in 1..1 : c[k] = c[1]
      OBVIOUS
    <3> QED
      BY <2>1, <3>1
  <2> QED
    BY <2>4, <2>5, <2>6
<1>6. ASSUME NEW y \in 0..(top - 1), NEW z \in 0..(top - 1), lift[y] = lift[z] PROVE y = z
  <2>1. lift[y][1] = y
    <3>1. lift[y] = [k \in 1..1 |-> y]
      BY <1>3
    <3> QED
      BY <3>1
  <2>2. lift[z][1] = z
    <3>1. lift[z] = [k \in 1..1 |-> z]
      BY <1>3
    <3> QED
      BY <3>1
  <2> QED
    BY <1>6, <2>1, <2>2
<1>7. lift \in Bijection(0..(top - 1), Under(1, boxes))
  <2>1. lift \in [0..(top - 1) -> Under(1, boxes)]
    BY <1>3, <1>4
  <2>2. IsInjective(lift)
    BY <1>6, <2>1 DEF IsInjective
  <2> QED
    BY <1>5, <2>1, <2>2 DEF Bijection, Injection, Surjection
<1>8. IsFiniteSet(0..(top - 1)) /\ Cardinality(0..(top - 1)) = top
  BY <1>2, FS_Interval
<1>9. ExistsBijection(0..(top - 1), Under(1, boxes))
  BY <1>7 DEF ExistsBijection
<1> QED
  BY <1>1, <1>8, <1>9, FS_Bijection

\* The measure of boxes is the number of cells below one of them.
LEMMA MeasureIs ==
  ASSUME NEW n \in Nat \ {0}, NEW g, Measures(g, n, n)
  PROVE  \A d \in 1..n, boxes \in Parts(n) :
           IsFiniteSet(boxes) => /\ IsFiniteSet(Under(d, boxes))
                                 /\ g[<<d, boxes>>] = Cardinality(Under(d, boxes))
<1> DEFINE Counts(d, boxes) == /\ IsFiniteSet(Under(d, boxes))
                               /\ g[<<d, boxes>>] = Cardinality(Under(d, boxes))
           Bad == {d \in 1..n : \E boxes \in Parts(n) : IsFiniteSet(boxes) /\ ~Counts(d, boxes)}
<1>1. ASSUME Bad # {} PROVE FALSE
  <2>1. PICK d \in Bad : \A j \in Bad : d <= j
    <3>1. Bad \in SUBSET Nat
      OBVIOUS
    <3> HIDE DEF Bad
    <3> QED
      BY <1>1, <3>1, LeastOfNaturals
  <2>2. PICK boxes \in Parts(n) : IsFiniteSet(boxes) /\ ~Counts(d, boxes)
    BY <2>1
  <2>3. g[<<d, boxes>>] = Body(g, d, boxes)
    BY DEF Measures
  <2>4. CASE d = 1
    BY <2>2, <2>3, <2>4, UnderOne DEF Body
  <2>5. CASE d # 1
    <3>1. d \in 2..n /\ d - 1 \in 1..n
      BY <2>5
    <3>2. d - 1 \notin Bad
      <4>1. ~(d <= d - 1)
        OBVIOUS
      <4> HIDE DEF Bad
      <4> QED
        BY <2>1, <4>1
    <3>3. ASSUME NEW u \in Levels(boxes, d)
          PROVE  /\ High(boxes, d, u) \in Parts(n)
                 /\ IsFiniteSet(Under(d - 1, High(boxes, d, u)))
                 /\ g[<<d - 1, High(boxes, d, u)>>] = Cardinality(Under(d - 1, High(boxes, d, u)))
      <4>1. High(boxes, d, u) \in SUBSET boxes
        BY DEF High
      <4>2. IsFiniteSet(High(boxes, d, u)) /\ High(boxes, d, u) \in Parts(n)
        BY <2>2, <4>1, FS_Subset DEF Parts
      <4> QED
        BY <3>1, <3>2, <4>2
    <3>4. PICK L : L = Levels(boxes, d)
      OBVIOUS
    <3>5. PICK A : A = [u \in L |-> Slice(d, boxes, u)]
      OBVIOUS
    <3>6. PICK f : f = Layers(g, d, boxes)
      OBVIOUS
    <3>7. ASSUME NEW u \in L
          PROVE  IsFiniteSet(A[u]) /\ f[u] = Cardinality(A[u]) /\ f[u] \in Int
      <4>1. /\ IsFiniteSet(A[u])
            /\ Cardinality(A[u]) = Slab(L, u) * Cardinality(Under(d - 1, High(boxes, d, u)))
        BY <2>2, <3>1, <3>3, <3>4, <3>5, SliceIs
      <4>2. f[u] = Slab(L, u) * g[<<d - 1, High(boxes, d, u)>>]
        BY <3>4, <3>6 DEF Layers, High
      <4>3. f[u] = Cardinality(A[u])
        BY <3>3, <3>4, <4>1, <4>2
      <4>4. Cardinality(A[u]) \in Int
        BY <4>1, FS_CardinalityType
      <4> QED
        BY <4>1, <4>3, <4>4
    <3>8. f \in [L -> Int]
      BY <3>4, <3>6, <3>7 DEF Layers
    <3>9. \A u, v \in L : u # v => A[u] \cap A[v] = {}
      BY <2>2, <3>1, <3>4, <3>5, SlicesAre
    <3>10. IsFiniteSet(L)
      BY <2>2, <3>4, LevelsAre
    <3>11. PICK U : U = Under(d, boxes)
      OBVIOUS
    <3>12. U = UNION {A[u] : u \in L}
      BY <2>2, <3>1, <3>4, <3>5, <3>11, SlicesAre
    <3>14. IsFiniteSet(U) /\ FoldFunction(+, 0, f) = Cardinality(U)
      <4>1. \A u \in L : IsFiniteSet(A[u]) /\ f[u] = Cardinality(A[u])
        BY <3>7
      <4>2. Parted(L, A, f, U)
        BY <3>8, <3>9, <3>10, <3>12, <4>1 DEF Parted
      <4> QED
        BY <4>2, DisjointSum
    <3>13. g[<<d, boxes>>] = FoldFunction(+, 0, f)
      BY <2>3, <2>5, <3>6 DEF Body
    <3> QED
      BY <2>2, <3>11, <3>13, <3>14
  <2> QED
    BY <2>4, <2>5
<1> QED
  BY <1>1

LEMMA BoxIs ==
  ASSUME schema \in Schemas, NEW r, Comparable(r)
  PROVE  /\ Box(r) \in [Objectives -> Int]
         /\ \A s : Comparable(s) => \A k \in Objectives : LexKey(s)[k] <= LexKey(r)[k]
                                                       => Box(r)[k] <= Box(s)[k]
<1>1. ASSUME NEW s, Comparable(s), NEW k \in Objectives
      PROVE  /\ LexKey(s)[k] \in Int /\ Toward(schema.reference[k], k) \in Int
             /\ Box(s)[k] = Toward(schema.reference[k], k) - LexKey(s)[k]
  <2>1. schema.reference[k] \in Int
    BY SchemaIs
  <2>2. LexKey(s)[k] \in Int
    BY <1>1, LexKeyIs
  <2> QED
    BY <2>1, <2>2 DEF Box, Toward
<1>2. Box(r) \in [Objectives -> Int]
  BY <1>1 DEF Box
<1>3. ASSUME NEW s, Comparable(s), NEW k \in Objectives, LexKey(s)[k] <= LexKey(r)[k]
      PROVE  Box(r)[k] <= Box(s)[k]
  <2>1. LexKey(s)[k] \in Int /\ LexKey(r)[k] \in Int /\ Toward(schema.reference[k], k) \in Int
    BY <1>1, <1>3
  <2>2. /\ Box(s)[k] = Toward(schema.reference[k], k) - LexKey(s)[k]
        /\ Box(r)[k] = Toward(schema.reference[k], k) - LexKey(r)[k]
    BY <1>1, <1>3
  <2> QED
    BY <1>3, <2>1, <2>2
<1> QED
  BY <1>2, <1>3

\* No cell below a box is beyond the greatest edge.
LEMMA DepthIs ==
  ASSUME schema \in Schemas, NEW set, Group(set), NEW deepest,
         deepest = Max({0} \cup UNION {{Box(r)[k] : k \in Objectives} : r \in set})
  PROVE  deepest \in Int /\ \A r \in set, k \in Objectives : Box(r)[k] <= deepest
<1>1. \A r \in set : Box(r) \in [Objectives -> Int]
  BY BoxIs DEF Group
<1>2. PICK T : T = UNION {{Box(r)[k] : k \in Objectives} : r \in set}
  OBVIOUS
<1>3. PICK f : f = [p \in set \X Objectives |-> Box(p[1])[p[2]]]
  OBVIOUS
<1>4. ASSUME NEW r \in set, NEW k \in Objectives PROVE f[<<r, k>>] = Box(r)[k] /\ Box(r)[k] \in T
  BY <1>2, <1>3
<1>5. ASSUME NEW t \in T PROVE \E r \in set, k \in Objectives : t = Box(r)[k]
  BY <1>2
<1>6. f \in Surjection(set \X Objectives, T)
  <2>1. f \in [set \X Objectives -> T]
    BY <1>2, <1>3
  <2>2. \A t \in T : \E p \in set \X Objectives : f[p] = t
    <3>1. TAKE t \in T
    <3>2. PICK r \in set, k \in Objectives : t = Box(r)[k]
      BY <1>5
    <3>3. <<r, k>> \in set \X Objectives
      OBVIOUS
    <3> QED
      BY <1>4, <3>2, <3>3
  <2> QED
    BY <2>1, <2>2 DEF Surjection
<1>7. IsFiniteSet(T)
  <2>1. IsFiniteSet(set \X Objectives)
    BY FS_Product, SchemaIs DEF Group
  <2> QED
    BY <1>6, <2>1, FS_Surjection
<1>8. PICK U : U = {0} \cup T
  OBVIOUS
<1>9. IsFiniteSet(U) /\ U # {} /\ U \subseteq Int
  <2>1. IsFiniteSet(T \cup {0}) /\ U = T \cup {0}
    BY <1>7, <1>8, FS_AddElement
  <2> QED
    BY <1>1, <1>5, <2>1
<1>10. Max(U) \in U /\ \A x \in U : x <= Max(U)
  BY <1>9, MaxIs
<1>11. deepest = Max(U)
  BY <1>2, <1>8
<1> QED
  BY <1>4, <1>8, <1>9, <1>10, <1>11

\* The volume of the front counts the cells that all results cover.
LEMMA VolumeIs ==
  ASSUME schema \in Schemas, NEW set, Group(set)
  PROVE  Hypervolume(ToSet(ParetoFront(set))) = Cardinality(Cells(set))
<1>1. PICK n \in Nat \ {0} : n = Len(schema.directions) /\ Objectives = 1..n
  BY SchemaIs
<1>2. PICK front : front = ToSet(ParetoFront(set))
  OBVIOUS
<1>3. front = NonDominated(set) /\ front \in SUBSET set /\ IsFiniteSet(front)
  <2>1. front = NonDominated(set)
    BY <1>2, FrontIs
  <2>2. front \in SUBSET set
    BY <2>1 DEF NonDominated
  <2> QED
    BY <2>1, <2>2, FS_Subset DEF Group
<1>4. \A r \in set : Comparable(r) /\ Box(r) \in [1..n -> Int]
  BY <1>1, BoxIs DEF Group
<1>5. PICK boxes : boxes = {b \in {Box(r) : r \in front} : \A k \in Objectives : b[k] > 0}
  OBVIOUS
<1>6. boxes \in Parts(n)
  <2>1. ASSUME NEW b \in boxes PROVE b \in [1..n -> Nat]
    <3>1. b \in [1..n -> Int] /\ \A k \in 1..n : b[k] > 0
      BY <1>1, <1>3, <1>4, <1>5
    <3> QED
      BY <3>1
  <2> QED
    BY <2>1 DEF Parts
<1>7. IsFiniteSet(boxes)
  <2>1. PICK f : f = [r \in front |-> Box(r)]
    OBVIOUS
  <2>2. PICK all : all = {Box(r) : r \in front}
    OBVIOUS
  <2>3. f \in Surjection(front, all)
    BY <2>1, <2>2 DEF Surjection
  <2>4. IsFiniteSet(all)
    BY <1>3, <2>3, FS_Surjection
  <2>5. boxes \in SUBSET all
    BY <1>5, <2>2
  <2> QED
    BY <2>4, <2>5, FS_Subset
<1>8. Hypervolume(front) = Union(boxes, n)
  BY <1>1, <1>5 DEF Hypervolume
<1>9. Hypervolume(front) = Cardinality(Under(n, boxes))
  <2>1. PICK g : Measures(g, n, n) /\ Union(boxes, n) = g[<<n, boxes>>]
    BY UnionIs
  <2> QED
    BY <1>6, <1>7, <1>8, <2>1, MeasureIs
<1>10. PICK deepest :
         deepest = Max({0} \cup UNION {{Box(r)[k] : k \in Objectives} : r \in set})
  OBVIOUS
<1>11. deepest \in Int /\ \A r \in set, k \in Objectives : Box(r)[k] <= deepest
  BY <1>10, DepthIs
<1>12. Cells(set) = {c \in [1..n -> 0..(deepest - 1)] :
                       \E r \in set : \A k \in 1..n : c[k] < Box(r)[k]}
  BY <1>1, <1>10 DEF Cells
<1>13. ASSUME NEW c \in Under(n, boxes) PROVE c \in Cells(set)
  <2>1. c \in [1..n -> Nat] /\ \E b \in boxes : Below(c, b, n)
    BY DEF Under
  <2>2. PICK r \in front : \A k \in 1..n : c[k] < Box(r)[k]
    BY <1>5, <2>1 DEF Below
  <2>3. r \in set
    BY <1>3
  <2>4. ASSUME NEW k \in 1..n PROVE c[k] \in 0..(deepest - 1)
    <3>1. c[k] \in Nat /\ Box(r)[k] \in Int /\ Box(r)[k] <= deepest /\ c[k] < Box(r)[k]
      BY <1>1, <1>4, <1>11, <2>1, <2>2, <2>3
    <3> QED
      BY <1>11, <3>1
  <2>5. c \in [1..n -> 0..(deepest - 1)]
    BY <2>1, <2>4
  <2> QED
    BY <1>12, <2>2, <2>3, <2>5
<1>14. ASSUME NEW c \in Cells(set) PROVE c \in Under(n, boxes)
  <2>1. c \in [1..n -> 0..(deepest - 1)]
    BY <1>12
  <2>2. PICK r \in set : \A k \in 1..n : c[k] < Box(r)[k]
    BY <1>12
  <2>3. c \in [1..n -> Nat]
    <3>1. 0..(deepest - 1) \subseteq Nat
      BY <1>11
    <3> QED
      BY <2>1, <3>1
  <2>4. PICK s \in front : \A k \in 1..n : Box(r)[k] <= Box(s)[k]
    <3>1. CASE r \in front
      <4>1. \A k \in 1..n : Box(r)[k] <= Box(r)[k]
        BY <1>4
      <4> QED
        BY <3>1, <4>1
    <3>2. CASE r \notin front
      <4>1. PICK s \in front : Dominates(s, r)
        BY <1>3, <3>2, DominatedByFront
      <4>2. Comparable(s) /\ Comparable(r)
        BY <1>3, <1>4
      <4>3. \A k \in 1..n : LexKey(s)[k] <= LexKey(r)[k]
        BY <1>1, <4>1 DEF Dominates
      <4>4. \A k \in 1..n : Box(r)[k] <= Box(s)[k]
        BY <1>1, <4>2, <4>3, BoxIs
      <4> QED
        BY <4>4
    <3> QED
      BY <3>1, <3>2
  <2>5. ASSUME NEW k \in 1..n PROVE c[k] < Box(s)[k] /\ Box(s)[k] > 0
    <3>1. c[k] \in Nat /\ Box(r)[k] \in Int /\ Box(s)[k] \in Int
      BY <1>3, <1>4, <2>3
    <3> QED
      BY <2>2, <2>4, <3>1
  <2>6. Box(s) \in boxes
    BY <1>1, <1>5, <2>5
  <2>7. Below(c, Box(s), n)
    BY <2>5 DEF Below
  <2> QED
    BY <2>3, <2>6, <2>7 DEF Under
<1>15. Under(n, boxes) = Cells(set)
  BY <1>13, <1>14
<1> QED
  BY <1>2, <1>9, <1>15

-----------------------------------------------------------------------------
(* The incumbent.                                                           *)

Good(results) == {r \in ToSet(results) : r.status = "ok"}

LEMMA GoodIsGroup ==
  ASSUME schema \in Schemas, NEW results \in Seq(Reports),
         \A i \in DOMAIN results : results[i].status = "ok" => Comparable(results[i]),
         \A i, j \in DOMAIN results : results[i].id = results[j].id => i = j
  PROVE  Group(Good(results)) /\ \A set \in SUBSET Good(results) : Group(set)
<1>1. DOMAIN results = 1..Len(results) /\ Len(results) \in Nat
  OBVIOUS
<1>2. ToSet(results) = {results[i] : i \in DOMAIN results}
  BY DEF ToSet
<1>3. IsFiniteSet(ToSet(results))
  <2>1. IsFiniteSet(DOMAIN results)
    <3>1. PICK l \in Nat : l = Len(results)
      BY <1>1
    <3>2. IsFiniteSet(1..l)
      BY FS_Interval
    <3> QED
      BY <1>1, <3>1, <3>2
  <2>2. PICK f : f = [i \in DOMAIN results |-> results[i]]
    OBVIOUS
  <2>3. f \in Surjection(DOMAIN results, ToSet(results))
    BY <1>2, <2>2 DEF Surjection
  <2> QED
    BY <2>1, <2>3, FS_Surjection
<1>4. ASSUME NEW set \in SUBSET Good(results) PROVE Group(set)
  <2>1. set \in SUBSET ToSet(results)
    BY DEF Good
  <2>2. IsFiniteSet(set)
    BY <1>3, <2>1, FS_Subset
  <2>3. ASSUME NEW r \in set PROVE Comparable(r)
    <3>1. PICK i \in DOMAIN results : results[i] = r
      BY <1>2, <2>1
    <3>2. r.status = "ok"
      BY DEF Good
    <3> QED
      BY <3>1, <3>2
  <2>4. ASSUME NEW r \in set, NEW s \in set, r.id = s.id PROVE r = s
    <3>1. PICK i \in DOMAIN results : results[i] = r
      BY <1>2, <2>1
    <3>2. PICK j \in DOMAIN results : results[j] = s
      BY <1>2, <2>1
    <3> QED
      BY <2>4, <3>1, <3>2
  <2> QED
    BY <2>2, <2>3, <2>4 DEF Group
<1> QED
  BY <1>4

\* The record made of the results passes the validator.
LEMMA BestIs ==
  ASSUME schema \in Schemas, NEW results, Group(Good(results)), NEW b, b = BestOf(results)
  PROVE  /\ (b = NoBest) = (Good(results) = {})
         /\ b # NoBest => \E r \in Good(results) :
              /\ r.id = b.id /\ Scalar(r) = b.value
              /\ \A s \in Good(results) \ {r} : Before(RankKey(r), RankKey(s))
<1>1. CASE Good(results) = {}
  BY <1>1 DEF BestOf, Good
<1>2. CASE Good(results) # {}
  <2>1. PICK w \in Good(results) : /\ w = Winner(Good(results))
                                    /\ \A s \in Good(results) \ {w} : Ahead(w, s)
    BY <1>2, WinnerIs
  <2>2. b = [id |-> w.id, value |-> Scalar(w)]
    BY <1>2, <2>1 DEF BestOf, Good
  <2>3. w.id \in 1..MaxReports
    BY <2>1 DEF Group, Comparable, Reports
  <2>4. w.id # 0
    BY <2>3, ReportAssumption
  <2>5. b.id = w.id /\ b.value = Scalar(w) /\ b # NoBest
    <3>1. b.id = w.id /\ b.value = Scalar(w) /\ NoBest.id = 0
      BY <2>2 DEF NoBest
    <3> QED
      BY <2>4, <3>1
  <2>6. \A s \in Good(results) \ {w} : Before(RankKey(w), RankKey(s))
    BY <2>1 DEF Ahead
  <2> QED
    BY <1>2, <2>5, <2>6
<1> QED
  BY <1>1, <1>2

LEMMA RankingStarts ==
  ASSUME RankingInit PROVE RankingInv
<1>1. schema \in Schemas /\ rows = <<>> /\ best = NoBest
  BY DEF RankingInit
<1>2. DOMAIN rows = {} /\ rows \in Seq(Reports)
  BY <1>1
<1>3. Ok = {}
  BY <1>2 DEF Ok, ToSet
<1> QED
  BY <1>1, <1>2, <1>3 DEF RankingInv, HardChecks

\* The keys of results depend on the schema alone.
LEMMA KeyStays ==
  ASSUME schema \in Schemas, schema' = schema, NEW r
  PROVE  /\ RankKey(r)' = RankKey(r) /\ Scalar(r)' = Scalar(r) /\ Comparable(r)' = Comparable(r)
<1>1. Objectives' = Objectives
  BY DEF Objectives
<1>2. LexKey(r)' = LexKey(r)
  BY DEF LexKey, Toward, Objectives
<1>3. ASSUME NEW k PROVE Distance(r, k)' = Distance(r, k)
  BY <1>2 DEF Distance, Toward
<1>4. {Distance(r, k)' : k \in Objectives'} = {Distance(r, k) : k \in Objectives}
  BY <1>1, <1>3
<1>5. [k \in Objectives' |-> schema'.weights[k] * LexKey(r)'[k]]
        = [k \in Objectives |-> schema.weights[k] * LexKey(r)[k]]
  BY <1>1, <1>2
<1>6. Scalar(r)' = Scalar(r)
  <2>1. PICK f : f = [k \in Objectives |-> schema.weights[k] * LexKey(r)[k]]
    OBVIOUS
  <2>2. PICK sum : sum = FoldFunction(+, 0, f)
    OBVIOUS
  <2>3. PICK S : S = {Distance(r, k) : k \in Objectives}
    OBVIOUS
  <2>4. FoldFunction(+, 0, [k \in Objectives |-> schema.weights[k] * LexKey(r)[k]]) = sum
    BY <2>1, <2>2
  <2>5. FoldFunction(+, 0, [k \in Objectives' |-> schema'.weights[k] * LexKey(r)'[k]]) = sum
    BY <1>5, <2>4
  <2>6. Scalar(r) = CASE schema.policy \in {"primary_only", "lexicographic"} -> r.values[1]
                      [] schema.policy = "weighted_sum" -> sum
                      [] schema.policy = "weighted_tchebycheff" -> Max(S)
    BY <2>3, <2>4 DEF Scalar
  <2>7. CASE schema.policy = "weighted_sum"
    <3>1. schema'.policy = "weighted_sum"
      BY <2>7
    <3>2. Scalar(r)'
            = FoldFunction(+, 0, [k \in Objectives' |-> schema'.weights[k] * LexKey(r)'[k]])
      BY <3>1 DEF Scalar, FoldFunction, FoldFunctionOnSet, MapThenFoldSet
    <3> QED
      BY <2>5, <2>6, <2>7, <3>2
  <2>8. CASE schema.policy # "weighted_sum"
    <3>1. CASE schema.policy = "weighted_tchebycheff"
      <4>1. schema'.policy = "weighted_tchebycheff"
        BY <3>1
      <4>2. Scalar(r)' = Max({Distance(r, k)' : k \in Objectives'})
        BY <4>1 DEF Scalar
      <4> QED
        BY <1>4, <2>3, <2>6, <3>1, <4>2
    <3>2. CASE schema.policy # "weighted_tchebycheff"
      <4>1. schema.policy \in {"primary_only", "lexicographic"}
        BY <2>8, <3>2, SchemaIs DEF Weighted
      <4>2. schema'.policy \in {"primary_only", "lexicographic"}
        BY <4>1
      <4>3. Scalar(r)' = r.values[1]
        BY <4>2 DEF Scalar
      <4> QED
        BY <2>6, <4>1, <4>3
    <3> QED
      BY <3>1, <3>2
  <2> QED
    BY <2>7, <2>8
<1>7. RankKey(r)' = RankKey(r)
  BY <1>2, <1>6 DEF RankKey, Toward
<1> QED
  BY <1>1, <1>6, <1>7 DEF Comparable

LEMMA RecordKeeps ==
  ASSUME RankingInv, NEW row \in Reports, row.id \in OpenIds, row.status = "ok" => Comparable(row),
         Record(row)
  PROVE  RankingInv'
<1>1. /\ schema \in Schemas /\ rows \in Seq(Reports)
      /\ \A i \in DOMAIN rows : rows[i].status = "ok" => Comparable(rows[i])
      /\ \A i, j \in DOMAIN rows : rows[i].id = rows[j].id => i = j
  BY DEF RankingInv, HardChecks
<1>2. schema' = schema /\ rows' = Append(rows, row) /\ best' = BestOf(rows')
  BY DEF Record
<1>3. PICK results : results = Append(rows, row)
  OBVIOUS
<1>4. /\ results \in Seq(Reports) /\ DOMAIN results = 1..(Len(rows) + 1)
      /\ DOMAIN rows = 1..Len(rows) /\ Len(rows) \in Nat
      /\ results[Len(rows) + 1] = row /\ \A i \in 1..Len(rows) : results[i] = rows[i]
  BY <1>1, <1>3
<1>5. \A i \in DOMAIN results : results[i].status = "ok" => Comparable(results[i])
  BY <1>1, <1>4
<1>6. \A i, j \in DOMAIN results : results[i].id = results[j].id => i = j
  <2>1. \A i \in 1..Len(rows) : rows[i].id # row.id
    BY <1>4 DEF OpenIds
  <2> QED
    BY <1>1, <1>4, <2>1
<1>7. Group(Good(results))
  BY <1>1, <1>4, <1>5, <1>6, GoodIsGroup
<1>8. rows' = results /\ best' = BestOf(results) /\ Ok' = Good(results)
  BY <1>2, <1>3 DEF Ok, Good
<1>9. PICK b : b = BestOf(results)
  OBVIOUS
<1>10. /\ (b = NoBest) = (Good(results) = {})
       /\ b # NoBest => \E r \in Good(results) :
            /\ r.id = b.id /\ Scalar(r) = b.value
            /\ \A s \in Good(results) \ {r} : Before(RankKey(r), RankKey(s))
  BY <1>1, <1>7, <1>9, BestIs
<1>11. best' = b
  BY <1>8, <1>9
<1>12. HardChecks'
  <2>1. \A i, j \in DOMAIN rows' : rows'[i].id = rows'[j].id => i = j
    BY <1>6, <1>8
  <2>2. (best' = NoBest) = (Ok' = {})
    BY <1>8, <1>10, <1>11
  <2>3. ASSUME best' # NoBest
        PROVE  \E r \in Ok' :
                 /\ r.id = best'.id /\ Scalar(r)' = best'.value
                 /\ \A s \in Ok' \ {r} : Before(RankKey(r)', RankKey(s)')
    <3>1. PICK r \in Good(results) :
            /\ r.id = b.id /\ Scalar(r) = b.value
            /\ \A s \in Good(results) \ {r} : Before(RankKey(r), RankKey(s))
      BY <1>10, <1>11, <2>3
    <3>2. Scalar(r)' = Scalar(r)
      BY <1>1, <1>2, KeyStays
    <3>3. ASSUME NEW s \in Good(results) \ {r} PROVE Before(RankKey(r)', RankKey(s)')
      <4>1. RankKey(r)' = RankKey(r) /\ RankKey(s)' = RankKey(s)
        BY <1>1, <1>2, KeyStays
      <4> QED
        BY <3>1, <4>1
    <3> QED
      BY <1>8, <1>11, <3>1, <3>2, <3>3
  <2> QED
    BY <2>1, <2>2, <2>3 DEF HardChecks, NoBest
<1>13. ASSUME NEW i \in DOMAIN rows', rows'[i].status = "ok" PROVE Comparable(rows[i])'
  <2>1. Comparable(results[i])
    BY <1>5, <1>8, <1>13
  <2>2. PICK r : r = results[i]
    OBVIOUS
  <2>3. Comparable(r)' = Comparable(r)
    BY <1>1, <1>2, KeyStays
  <2> QED
    BY <1>8, <2>1, <2>2, <2>3 DEF Comparable
<1> QED
  BY <1>1, <1>2, <1>4, <1>8, <1>12, <1>13 DEF RankingInv

LEMMA RankingSteps ==
  ASSUME RankingInv, [RankingNext]_rankingVars
  PROVE  RankingInv'
<1>1. /\ schema \in Schemas /\ rows \in Seq(Reports)
      /\ \A i \in DOMAIN rows : rows[i].status = "ok" => Comparable(rows[i])
  BY DEF RankingInv
<1>2. PICK n \in Nat : n = Len(schema.directions) /\ Objectives = 1..n
  BY <1>1, SchemaIs
<1>3. schema.bound \in Int
  BY <1>1, SchemaAssumption
<1>4. OpenIds \subseteq 1..MaxReports
  BY DEF OpenIds
<1>5. CASE Succeeds
  <2>1. PICK id \in OpenIds, v \in [Objectives -> Values], m \in {schema.bound, schema.bound + 1} :
          Record([id |-> id, status |-> "ok", values |-> v, measure |-> m])
    BY <1>5 DEF Succeeds
  <2>2. PICK row : row = [id |-> id, status |-> "ok", values |-> v, measure |-> m]
    OBVIOUS
  <2>3. v \in [1..n -> Int] /\ v \in Seq(Int) /\ m \in Int
    <3>1. v \in [1..n -> Int]
      BY <1>2, ReportAssumption
    <3>2. v \in Seq(Int)
      BY <3>1
    <3> QED
      BY <1>3, <3>1, <3>2
  <2>4. row \in Reports /\ Comparable(row) /\ row.id \in OpenIds
    BY <1>2, <1>4, <2>2, <2>3 DEF Reports, Comparable
  <2> QED
    BY <2>1, <2>2, <2>4, RecordKeeps
<1>6. CASE Fails
  <2>1. PICK id \in OpenIds :
          Record([id |-> id, status |-> "failed", values |-> <<>>, measure |-> 0])
    BY <1>6 DEF Fails
  <2>2. PICK row : row = [id |-> id, status |-> "failed", values |-> <<>>, measure |-> 0]
    OBVIOUS
  <2>3. row \in Reports /\ row.status # "ok" /\ row.id \in OpenIds
    BY <1>4, <2>2 DEF Reports
  <2> QED
    BY <2>1, <2>2, <2>3, RecordKeeps
<1>7. CASE UNCHANGED rankingVars
  <2>1. schema' = schema /\ rows' = rows /\ best' = best
    BY <1>7 DEF rankingVars
  <2>2. ASSUME NEW r PROVE /\ RankKey(r)' = RankKey(r) /\ Scalar(r)' = Scalar(r)
                           /\ Comparable(r)' = Comparable(r)
    BY <1>1, <2>1, KeyStays
  <2>3. Ok' = Ok
    BY <2>1 DEF Ok
  <2>4. HardChecks'
    <3>1. HardChecks
      BY DEF RankingInv
    <3>2. /\ \A i, j \in DOMAIN rows : rows[i].id = rows[j].id => i = j
          /\ (best = NoBest) = (Ok = {})
      BY <3>1 DEF HardChecks
    <3>3. ASSUME best # NoBest
          PROVE  \E r \in Ok :
                   /\ r.id = best.id /\ Scalar(r)' = best.value
                   /\ \A s \in Ok \ {r} : Before(RankKey(r)', RankKey(s)')
      <4>1. PICK r \in Ok :
              /\ r.id = best.id /\ Scalar(r) = best.value
              /\ \A s \in Ok \ {r} : Before(RankKey(r), RankKey(s))
        BY <3>1, <3>3 DEF HardChecks
      <4>2. Scalar(r)' = best.value
        BY <2>2, <4>1
      <4>3. ASSUME NEW s \in Ok \ {r} PROVE Before(RankKey(r)', RankKey(s)')
        <5>1. RankKey(r)' = RankKey(r) /\ RankKey(s)' = RankKey(s)
          BY <2>2
        <5> QED
          BY <4>1, <5>1
      <4> QED
        BY <4>1, <4>2, <4>3
    <3> QED
      BY <2>1, <2>3, <3>2, <3>3 DEF HardChecks, NoBest
  <2>5. ASSUME NEW i \in DOMAIN rows, rows[i].status = "ok" PROVE Comparable(rows[i])'
    <3>1. PICK r : r = rows[i]
      OBVIOUS
    <3>2. Comparable(r)'
      BY <1>1, <2>2, <2>5, <3>1
    <3> QED
      BY <2>1, <3>1, <3>2 DEF Comparable
  <2> QED
    BY <1>1, <2>1, <2>4, <2>5 DEF RankingInv
<1> QED
  BY <1>5, <1>6, <1>7 DEF RankingNext

LEMMA RankingIsTrue ==
  ASSUME RankingInv PROVE RankingAgrees
<1>1. /\ schema \in Schemas /\ rows \in Seq(Reports) /\ HardChecks
      /\ \A i \in DOMAIN rows : rows[i].status = "ok" => Comparable(rows[i])
      /\ \A i, j \in DOMAIN rows : rows[i].id = rows[j].id => i = j
  BY DEF RankingInv, HardChecks
<1>2. Ok = Good(rows)
  BY DEF Ok, Good
<1>3. Ok \in SUBSET Good(rows) /\ Eligible \in SUBSET Good(rows)
  BY <1>2 DEF Eligible
<1>4. Group(Ok) /\ Group(Eligible)
  BY <1>1, <1>3, GoodIsGroup
<1>5. Hypervolume(ToSet(ParetoFront(Eligible))) = Cardinality(Cells(Eligible))
  BY <1>1, <1>4, VolumeIs
<1> QED
  BY <1>1, <1>4, <1>5, FrontHolds DEF RankingAgrees

LEMMA RankingRuns == [Next]_dataVars => [RankingNext]_rankingVars
<1> SUFFICES ASSUME [Next]_dataVars PROVE [RankingNext]_rankingVars
  OBVIOUS
<1>1. CASE RankingStep
  BY <1>1 DEF RankingStep
<1>2. CASE UNCHANGED rankingVars
  BY <1>2
<1> QED
  BY <1>1, <1>2 DEF Next, SamplingStep, ExchangeStep, InspectionStep, ReportingStep,
                    ProjectionStep, dataVars

\* objectives.py, run_bo.py: whatever objectives are declared, in whatever order results
\* come, the incumbent stands first, the front is complete and minimal, and the
\* hypervolume computed slab by slab is the volume that all feasible results cover.
THEOREM RankingAlwaysAgrees == Spec => []RanksAgree
<1>1. RankingInv => RanksAgree
  BY RankingIsTrue DEF RanksAgree
<1>2. Init => RankingInv
  BY RankingStarts DEF Init
<1>3. RankingInv /\ [RankingNext]_rankingVars => RankingInv'
  BY RankingSteps
<1> QED
  BY <1>1, <1>2, <1>3, RankingRuns, PTL DEF Spec

-----------------------------------------------------------------------------
(* Sampling and the codec.                                                  *)

\* The contract of the declarations is one the codec can be asked about.
LEMMA DeclaredIs ==
  ASSUME contract \in Contracts
  PROVE  ContractIs(Params, Rules) /\ RulesTyped(Rules)
<1>1. ContractIs(Params, Rules)
  BY ContractAccepted
<1>2. /\ \A r \in ToSet(contract.rules) : r.kind \in {"bound", "linear", "forbidden"}
      /\ \A r \in {s \in ToSet(contract.rules) : s.kind = "linear"} :
           r.terms \in [DOMAIN r.terms -> Int] /\ r.rhs \in Int
  BY DeclarationAssumption
<1>3. RulesTyped(Rules)
  BY <1>2 DEF RulesTyped, LinearRules, Rules
<1> QED
  BY <1>1, <1>3

LEMMA PointsShow == SamplingInv => PointsAreExact
<1> SUFFICES ASSUME SamplingInv PROVE PointsAreExact
  OBVIOUS
<1>1. SamplingIsExact
  BY SamplingShows
<1>2. ContractIs(Params, Rules) /\ RulesTyped(Rules)
  BY DeclaredIs DEF SamplingInv
<1>3. SpaceAccepted(Params) /\ RulesAccepted(Rules, Params) => CodecIsExact(Params, Rules)
  BY <1>2, CodecShows
<1> QED
  BY <1>1, <1>3 DEF PointsAreExact

LEMMA SamplingRuns == [Next]_dataVars => [SamplingNext]_samplingVars
<1> SUFFICES ASSUME [Next]_dataVars PROVE [SamplingNext]_samplingVars
  OBVIOUS
<1>1. CASE SamplingStep
  BY <1>1 DEF SamplingStep
<1>2. CASE UNCHANGED samplingVars
  BY <1>2
<1> QED
  BY <1>1, <1>2 DEF Next, RankingStep, ExchangeStep, InspectionStep, ReportingStep,
                    ProjectionStep, dataVars

\* search_space.py, constraints.py, ax_space.py: whatever space and rules are declared,
\* what a campaign offers is a point of the space within its rules that survives being
\* encoded, tightening leaves out only what a rule forbids, and Ax is given arms for all
\* the feasible points and for none that breaks more than a forbidden combination.
THEOREM PointsAlwaysExact == Spec => []PointsAreExact
<1>1. Init => SamplingInv
  BY SamplingStarts DEF Init
<1> QED
  BY <1>1, PointsShow, SamplingRuns, SamplingKept, PTL DEF Spec

-----------------------------------------------------------------------------
(* Quotients and square roots.                                              *)

\* A quotient stays between multiples of the divisor, and changes its sign with the
\* dividend.
LEMMA QuotientIs ==
  ASSUME NEW n \in Int, NEW d \in Nat \ {0}
  PROVE  /\ Quotient(n, d) \in Int /\ Quotient(-n, d) = -Quotient(n, d)
         /\ \A a \in Int : (a * d <= n => a <= Quotient(n, d))
                           /\ (n <= a * d => Quotient(n, d) <= a)
<1> DEFINE m == IF n < 0 THEN -n ELSE n
<1>1. m \in Nat
  OBVIOUS
<1>2. PICK q \in Nat : q = m \div d /\ q * d <= m /\ m < (q + 1) * d
  <2> HIDE DEF m
  <2>1. m \div d \in Nat /\ (m \div d) * d <= m /\ m < ((m \div d) + 1) * d
    BY <1>1, Z3
  <2> QED
    BY <2>1
<1>3. Quotient(n, d) = IF n < 0 THEN -q ELSE q
  BY <1>2 DEF Quotient
<1>4. Quotient(-n, d) = IF n < 0 THEN q ELSE -q
  <2>1. CASE n <= 0 /\ n >= 0
    <3>1. -n = n
      BY <2>1
    <3>4. Quotient(n, d) = q
      BY <1>3, <2>1
    <3>2. q * d <= 0
      BY <1>2, <2>1
    <3>3. q = 0
      BY <3>2
    <3> QED
      BY <3>1, <3>3, <3>4
  <2>2. CASE n < 0
    BY <1>2, <2>2 DEF Quotient
  <2>3. CASE n > 0
    <3>1. -n < 0 /\ -(-n) = n
      BY <2>3
    <3> QED
      BY <1>2, <2>3, <3>1 DEF Quotient
  <2> QED
    BY <2>1, <2>2, <2>3
<1>5. ASSUME NEW a \in Int, NEW b \in Nat, a * d <= b, NEW c \in Nat, b < (c + 1) * d
      PROVE  a <= c
  <2>1. ASSUME c + 1 <= a PROVE FALSE
    <3>1. (c + 1) * d <= a * d
      BY <2>1
    <3>2. PICK u, v \in Int : u = a * d /\ v = (c + 1) * d
      OBVIOUS
    <3> QED
      BY <1>5, <3>1, <3>2
  <2> QED
    BY <2>1
<1>6. ASSUME NEW a \in Int, NEW b \in Nat, b <= a * d, NEW c \in Nat, c * d <= b
      PROVE  c <= a
  <2>1. ASSUME a + 1 <= c PROVE FALSE
    <3>1. (a + 1) * d <= c * d
      BY <2>1
    <3>2. (a + 1) * d = a * d + d
      OBVIOUS
    <3>3. PICK u, v \in Int : u = a * d /\ v = c * d
      OBVIOUS
    <3> QED
      BY <1>6, <3>1, <3>2, <3>3
  <2> QED
    BY <2>1
<1>7. ASSUME NEW a \in Int PROVE (a * d <= n => a <= Quotient(n, d))
                                 /\ (n <= a * d => Quotient(n, d) <= a)
  <2>1. CASE n >= 0
    BY <1>2, <1>3, <1>5, <1>6, <2>1
  <2>2. CASE n < 0
    <3>1. PICK b \in Int : b = -a /\ b * d = -(a * d)
      OBVIOUS
    <3>2. PICK u \in Int : u = a * d /\ b * d = -u
      BY <3>1
    <3>3. u <= n => q <= b
      <4>1. u <= n => m <= b * d
        BY <2>2, <3>2
      <4> QED
        BY <1>1, <1>2, <1>6, <4>1
    <3>4. n <= u => b <= q
      <4>1. n <= u => b * d <= m
        BY <2>2, <3>2
      <4> QED
        BY <1>1, <1>2, <1>5, <4>1
    <3> QED
      BY <1>3, <2>2, <3>1, <3>2, <3>3, <3>4
  <2> QED
    BY <2>1, <2>2
<1> QED
  BY <1>3, <1>4, <1>7

\* A positive number has a positive square root.
LEMMA SquareRootIs ==
  ASSUME NEW n \in Nat \ {0}
  PROVE  SquareRoot(n) \in Nat \ {0}
<1>1. PICK T : T = {k \in 0..n : k * k <= n}
  OBVIOUS
<1>2. T \in SUBSET (0..n) /\ 0 \in T
  BY <1>1
<1>3. PICK k \in T : \A j \in T : j <= k
  BY <1>2, GreatestOfNaturals
<1>4. k \in 0..n /\ k * k <= n
  BY <1>1
<1>5. n < (k + 1) * (k + 1)
  <2>1. CASE k + 1 \in 0..n
    <3>1. k + 1 \notin T
      BY <1>3, <1>4
    <3> QED
      BY <1>1, <2>1, <3>1
  <2>2. CASE k + 1 \notin 0..n
    <3>1. n < k + 1
      BY <1>4, <2>2
    <3>2. (k + 1) * 1 <= (k + 1) * (k + 1)
      BY <1>4
    <3> QED
      BY <1>4, <3>1, <3>2
  <2> QED
    BY <2>1, <2>2
<1>6. PICK r : r = SquareRoot(n)
  OBVIOUS
<1>7. r \in 0..n /\ n < (r + 1) * (r + 1)
  BY <1>4, <1>5, <1>6 DEF SquareRoot
<1>8. r # 0
  BY <1>7
<1> QED
  BY <1>6, <1>7, <1>8

-----------------------------------------------------------------------------
(* What the surrogates make of the results.                                 *)

\* External: what the Gaussian process predicts is a number, and its variance is
\* clamped to more than zero.
ProcessPredicts ==
  \A x \in Samples, T \in SUBSET (1..MaxReports) : \A f \in [T -> Int] :
    Posterior(x, {<<i, f[i]>> : i \in T}) \in Predictions

LEMMA MaxOfTwo ==
  ASSUME NEW a \in Int, NEW b \in Int
  PROVE  Max({a, b}) = IF a < b THEN b ELSE a
<1>1. IsFiniteSet({a, b}) /\ {a, b} # {} /\ {a, b} \subseteq Int
  <2>1. {a, b} = {a} \cup {b}
    OBVIOUS
  <2>2. IsFiniteSet({a} \cup {b})
    BY FS_Singleton, FS_Union
  <2> QED
    BY <2>1, <2>2
<1>2. Max({a, b}) \in {a, b} /\ \A x \in {a, b} : x <= Max({a, b})
  BY <1>1, MaxIs
<1>3. PICK m : m = Max({a, b})
  OBVIOUS
<1> QED
  BY <1>2, <1>3

\* The usable results are finitely many, each with an id of its own.
LEMMA OkIs ==
  ASSUME RankingInv
  PROVE  /\ schema \in Schemas /\ Ok = Good(rows) /\ Group(Ok)
         /\ Cardinality(Ok) \in Nat /\ (Cardinality(Ok) = 0 <=> Ok = {})
         /\ \A r \in Ok : Comparable(r) /\ r.id \in 1..MaxReports /\ Scalar(r) \in Int
<1>1. /\ schema \in Schemas /\ rows \in Seq(Reports)
      /\ \A i \in DOMAIN rows : rows[i].status = "ok" => Comparable(rows[i])
      /\ \A i, j \in DOMAIN rows : rows[i].id = rows[j].id => i = j
  BY DEF RankingInv, HardChecks
<1>2. Ok = Good(rows)
  BY DEF Ok, Good
<1>3. Group(Ok)
  BY <1>1, <1>2, GoodIsGroup
<1>4. Cardinality(Ok) \in Nat /\ (Cardinality(Ok) = 0 <=> Ok = {})
  BY <1>3, FS_CardinalityType, FS_EmptySet DEF Group
<1>5. \A r \in Ok : Comparable(r) /\ r.id \in 1..MaxReports
  BY <1>3 DEF Group, Comparable, Reports
<1> QED
  BY <1>1, <1>2, <1>3, <1>4, <1>5, ScalarIs

\* Every result has a weight.
LEMMA WeightIs ==
  ASSUME NEW x \in Samples, NEW i \in 1..MaxReports
  PROVE  Weight[x][i] \in Nat
<1>1. i \in DOMAIN Places
  BY SampleAssumption
<1>2. PICK d : d = Squares(Encode(x, Space), Encode(Places[i], Space))
  OBVIOUS
<1>3. Weight[x][i] = Decay(d)
  BY <1>1, <1>2 DEF Weight
<1>4. Decay(d) \in Nat
  BY DEF Decay
<1> QED
  BY <1>3, <1>4

\* The least and the greatest of the results.
LEMMA Extremes ==
  ASSUME RankingInv, Ok # {}
  PROVE  \E p, q \in Ok : \A r \in Ok : Scalar(p) <= Scalar(r) /\ Scalar(r) <= Scalar(q)
<1>1. PICK S : S = {Scalar(r) : r \in Ok}
  OBVIOUS
<1>2. IsFiniteSet(S) /\ S # {} /\ S \subseteq Int
  <2>1. PICK f : f = [r \in Ok |-> Scalar(r)]
    OBVIOUS
  <2>2. f \in Surjection(Ok, S)
    BY <1>1, <2>1 DEF Surjection
  <2>3. IsFiniteSet(S)
    BY <2>2, OkIs, FS_Surjection DEF Group
  <2> QED
    BY <1>1, <2>3, OkIs
<1>3. Min(S) \in S /\ \A v \in S : Min(S) <= v
  BY <1>2, MinIs
<1>4. Max(S) \in S /\ \A v \in S : v <= Max(S)
  BY <1>2, MaxIs
<1>5. PICK p \in Ok : Scalar(p) = Min(S)
  BY <1>1, <1>3
<1>6. PICK q \in Ok : Scalar(q) = Max(S)
  BY <1>1, <1>4
<1>7. ASSUME NEW r \in Ok PROVE Scalar(p) <= Scalar(r) /\ Scalar(r) <= Scalar(q)
  <2>1. Scalar(r) \in S
    BY <1>1
  <2> QED
    BY <1>3, <1>4, <1>5, <1>6, <2>1
<1> QED
  BY <1>7

\* The sums over the results, and what a mean of them lies between.
LEMMA NearIs ==
  ASSUME RankingInv, NEW x \in Samples, NEW lo \in Int, NEW hi \in Int,
         \A r \in Ok : lo <= Scalar(r) /\ Scalar(r) <= hi
  PROVE  /\ Near(x) \in Nat /\ NearSum(x) \in Int /\ Sum \in Int
         /\ lo * Near(x) <= NearSum(x) /\ NearSum(x) <= hi * Near(x)
         /\ lo * Cardinality(Ok) <= Sum /\ Sum <= hi * Cardinality(Ok)
<1>1. IsFiniteSet(Ok) /\ \A r \in Ok : r.id \in 1..MaxReports /\ Scalar(r) \in Int
  BY OkIs DEF Group
<1>2. PICK w, v : w = [r \in Ok |-> Weight[x][r.id]] /\ v = [r \in Ok |-> Scalar(r)]
  OBVIOUS
<1>3. w \in [Ok -> Nat] /\ v \in [Ok -> Int]
  <2>1. \A r \in Ok : Weight[x][r.id] \in Nat
    BY <1>1, WeightIs
  <2> QED
    BY <1>1, <1>2, <2>1
<1>4. \A r \in Ok : lo <= v[r] /\ v[r] <= hi
  BY <1>2
<1>5. PICK g : g = [r \in Ok |-> w[r] * v[r]]
  OBVIOUS
<1>6. Near(x) = SumFunction(w) /\ NearSum(x) = SumFunction(g)
  <2>1. g = [r \in Ok |-> Weight[x][r.id] * Scalar(r)]
    BY <1>2, <1>5
  <2> QED
    BY <1>2, <2>1 DEF Near, NearSum
<1>7. /\ SumFunction(w) \in Nat /\ SumFunction(g) \in Int
      /\ lo * SumFunction(w) <= SumFunction(g) /\ SumFunction(g) <= hi * SumFunction(w)
  BY <1>1, <1>3, <1>4, <1>5, SumBetween
<1>8. PICK o : o = [r \in Ok |-> 1]
  OBVIOUS
<1>9. o \in [Ok -> Nat] /\ SumFunction(o) = Cardinality(Ok)
  BY <1>1, <1>8, SumOfOnes
<1>10. Sum = SumFunction([r \in Ok |-> o[r] * v[r]])
  <2>1. \A r \in Ok : o[r] * v[r] = Scalar(r)
    <3>1. ASSUME NEW r \in Ok PROVE o[r] * v[r] = Scalar(r)
      <4>1. o[r] = 1 /\ v[r] = Scalar(r) /\ v[r] \in Int
        BY <1>2, <1>3, <1>8
      <4>2. 1 * v[r] = v[r]
        BY <4>1
      <4> QED
        BY <4>1, <4>2
    <3> QED
      BY <3>1
  <2>2. [r \in Ok |-> o[r] * v[r]] = [r \in Ok |-> Scalar(r)]
    BY <2>1
  <2> QED
    BY <2>2 DEF Sum
<1>11. PICK k : k = [r \in Ok |-> o[r] * v[r]]
  OBVIOUS
<1>12. /\ SumFunction(k) \in Int
       /\ lo * SumFunction(o) <= SumFunction(k) /\ SumFunction(k) <= hi * SumFunction(o)
  BY ZenonT(30), <1>1, <1>3, <1>4, <1>9, <1>11, SumBetween
<1> QED
  BY <1>6, <1>7, <1>9, <1>10, <1>11, <1>12

\* The proxy predicts between the least and the greatest result, and is never certain.
LEMMA ProxyIs ==
  ASSUME RankingInv, Ok # {}, NEW x \in Samples
  PROVE  /\ Proxy(x) \in Predictions
         /\ \E r \in Ok : Scale * Scalar(r) <= Proxy(x).mean
         /\ \E r \in Ok : Proxy(x).mean <= Scale * Scalar(r)
<1>1. PICK p, q \in Ok : \A r \in Ok : Scalar(p) <= Scalar(r) /\ Scalar(r) <= Scalar(q)
  BY Extremes
<1>2. PICK lo, hi \in Int : lo = Scalar(p) /\ hi = Scalar(q)
  BY OkIs
<1>3. PICK n \in Nat, s, t \in Int, c \in Nat \ {0} :
        /\ n = Near(x) /\ s = NearSum(x) /\ t = Sum /\ c = Cardinality(Ok)
        /\ lo * n <= s /\ s <= hi * n /\ lo * c <= t /\ t <= hi * c
  <2>1. Cardinality(Ok) \in Nat \ {0}
    BY OkIs
  <2> QED
    BY <1>1, <1>2, <2>1, NearIs
<1>4. PICK u \in Nat \ {0} : u = Scale
  BY SpaceAssumption
<1>5. ASSUME NEW d \in Nat \ {0}, NEW a \in Int, lo * d <= a, a <= hi * d
      PROVE  /\ Quotient(u * a, d) \in Int
             /\ u * lo <= Quotient(u * a, d) /\ Quotient(u * a, d) <= u * hi
  <2>1. (u * lo) * d <= u * a
    <3>1. (u * lo) * d = u * (lo * d)
      OBVIOUS
    <3>2. PICK y, z \in Int : y = lo * d /\ z = a /\ y <= z
      BY <1>5
    <3>3. u * y <= u * z
      BY <3>2
    <3> QED
      BY <3>1, <3>2, <3>3
  <2>2. u * a <= (u * hi) * d
    <3>1. (u * hi) * d = u * (hi * d)
      OBVIOUS
    <3>2. PICK y, z \in Int : y = hi * d /\ z = a /\ z <= y
      BY <1>5
    <3>3. u * z <= u * y
      BY <3>2
    <3> QED
      BY <3>1, <3>2, <3>3
  <2>3. u * a \in Int /\ u * lo \in Int /\ u * hi \in Int
    OBVIOUS
  <2> QED
    BY <2>1, <2>2, <2>3, QuotientIs
<1>6. CASE n = 0
  <2>1. Proxy(x) = [mean |-> Quotient(u * t, c), std |-> u]
    BY <1>3, <1>4, <1>6 DEF Proxy
  <2>2. /\ Quotient(u * t, c) \in Int
        /\ u * lo <= Quotient(u * t, c) /\ Quotient(u * t, c) <= u * hi
    BY <1>3, <1>5
  <2> QED
    BY <1>2, <1>4, <2>1, <2>2 DEF Predictions
<1>7. CASE n # 0
  <2>1. PICK m \in Int : m = Quotient(u * s, n) /\ u * lo <= m /\ m <= u * hi
    BY <1>3, <1>5, <1>7
  <2>2. Proxy(x) = Seen(x, m)
    BY <1>3, <1>4, <1>7, <2>1 DEF Proxy
  <2>3. PICK e \in Int : e = Spread(x, m)
    <3>1. PICK f : f = [r \in Ok |-> Weight[x][r.id] * Square(Scale * Scalar(r) - m)]
      OBVIOUS
    <3>2. ASSUME NEW r \in Ok PROVE Weight[x][r.id] * Square(Scale * Scalar(r) - m) \in Int
      <4>1. PICK w \in Int, z \in Int : w = Weight[x][r.id] /\ z = Scalar(r)
        BY OkIs, WeightIs
      <4>2. PICK y \in Int : y = Scale * Scalar(r) - m
        BY <1>4, <4>1
      <4>3. Square(y) \in Int
        BY DEF Square
      <4> QED
        BY <4>1, <4>2, <4>3
    <3>3. f \in [Ok -> Int] /\ IsFiniteSet(Ok)
      BY <3>1, <3>2, OkIs DEF Group
    <3>4. PICK k \in Int : k = SumFunction(f)
      BY <3>3, SumTable DEF Sums
    <3>5. Spread(x, m) = k \div n
      BY <1>3, <3>1, <3>4 DEF Spread
    <3>6. k \div n \in Int
      BY <1>3, <1>7
    <3> QED
      BY <3>5, <3>6
  <2>4. PICK l \in Nat \ {0} : l = SquareRoot(Max({e, 1}))
    <3>1. Max({e, 1}) \in Nat \ {0}
      BY MaxOfTwo
    <3> QED
      BY <3>1, SquareRootIs
  <2>5. PICK j \in Nat : j = Max({0, Scale - Density(Near(x))})
    <3>1. Density(Near(x)) = (u * n) \div (4 * c)
      BY <1>3, <1>4 DEF Density
    <3>2. PICK k \in Nat \ {0} : k = 4 * c
      BY <1>3
    <3>3. u * n \in Int
      OBVIOUS
    <3>4. (u * n) \div k \in Int
      BY <3>3
    <3>5. PICK i \in Int : i = Scale - Density(Near(x))
      <4>1. PICK v \in Int : v = Density(Near(x))
        BY <3>1, <3>2, <3>4
      <4>2. Scale - v \in Int
        BY <1>4
      <4> QED
        BY <4>1, <4>2
    <3>6. Max({0, i}) \in Nat
      BY MaxOfTwo
    <3> QED
      BY <3>5, <3>6
  <2>6. Proxy(x) = [mean |-> m, std |-> l + j]
    BY <2>2, <2>3, <2>4, <2>5 DEF Seen
  <2> QED
    BY <1>2, <1>4, <2>1, <2>6 DEF Predictions
<1> QED
  BY <1>6, <1>7

\* So does the process, in whichever direction it was fitted.
LEMMA PosteriorIs ==
  ASSUME ProcessPredicts, RankingInv, NEW x \in Samples, NEW sign \in {-1, 1}
  PROVE  Posterior(x, {<<r.id, sign * Scalar(r)>> : r \in Ok}) \in Predictions
<1>1. PICK T : T = {r.id : r \in Ok}
  OBVIOUS
<1>2. PICK f : f = [i \in T |-> sign * Scalar(CHOOSE r \in Ok : r.id = i)]
  OBVIOUS
<1>3. ASSUME NEW r \in Ok PROVE f[r.id] = sign * Scalar(r) /\ f[r.id] \in Int
  <2>1. \A s \in Ok : s.id = r.id => s = r
    BY OkIs DEF Group
  <2>2. (CHOOSE s \in Ok : s.id = r.id) = r
    BY <2>1
  <2>3. r.id \in T
    BY <1>1
  <2>4. PICK v \in Int : v = Scalar(r)
    BY OkIs
  <2>5. sign * v \in Int
    OBVIOUS
  <2> QED
    BY <1>2, <2>2, <2>3, <2>4, <2>5
<1>4. T \in SUBSET (1..MaxReports) /\ f \in [T -> Int]
  BY <1>1, <1>2, <1>3, OkIs
<1>5. {<<r.id, sign * Scalar(r)>> : r \in Ok} = {<<i, f[i]>> : i \in T}
  BY <1>1, <1>3
<1> QED
  BY <1>4, <1>5 DEF ProcessPredicts

LEMMA GaussianIs ==
  ASSUME ProcessPredicts, RankingInv, NEW x \in Samples
  PROVE  Gaussian(x) \in Predictions
<1>1. PICK sign \in {-1, 1} : sign = IF Direction = "maximize" THEN -1 ELSE 1
  OBVIOUS
<1>2. PICK seen \in Predictions : seen = Posterior(x, {<<r.id, sign * Scalar(r)>> : r \in Ok})
  BY PosteriorIs
<1>3. Gaussian(x) = [mean |-> sign * seen.mean, std |-> seen.std]
  BY <1>1, <1>2 DEF Gaussian
<1>4. seen.mean \in Int /\ seen.std \in Nat \ {0}
  BY <1>2 DEF Predictions
<1>5. sign * seen.mean \in Int
  BY <1>1, <1>4
<1> QED
  BY <1>3, <1>4, <1>5 DEF Predictions

-----------------------------------------------------------------------------
(* The twin: the campaign with every objective negated.                     *)

\* What the twin takes from the search space is the same.
LEMMA TwinCodes ==
  ASSUME NEW x, NEW params
  PROVE  /\ Twin!Encode(x, params) = Encode(x, params)
         /\ Twin!Decode(x, params) = Decode(x, params)
<1>1. Twin!OrderedParams(params) = OrderedParams(params)
  BY DEF Twin!OrderedParams, OrderedParams, Twin!Order, Order, Twin!FoldLeft, FoldLeft,
         Twin!MapThenFoldSet, MapThenFoldSet, Twin!Visit, Visit, Twin!FoldSet, FoldSet,
         Twin!Named, Named, Twin!Names, Names, Twin!ToSet, ToSet, Twin!Max, Max
<1>2. PICK o : o = OrderedParams(params)
  OBVIOUS
<1>3. \A p, at : Twin!Segment(p, at) = Segment(p, at)
  BY DEF Twin!Segment, Segment, Twin!IsActive, IsActive, Twin!Width, Width, Twin!Clamp, Clamp
<1>4. [i \in DOMAIN o |-> Twin!Segment(o[i], x)] = [i \in DOMAIN o |-> Segment(o[i], x)]
  BY <1>3
<1>5. \A s : Twin!FlattenSeq(s) = FlattenSeq(s)
  BY DEF Twin!FlattenSeq, FlattenSeq
<1>6. Twin!Encode(x, params) = Encode(x, params)
  BY <1>1, <1>2, <1>4, <1>5 DEF Twin!Encode, Encode
<1>7. Twin!Decode(x, params) = Decode(x, params)
  BY <1>1, <1>2
  DEF Twin!Decode, Decode, Twin!FoldLeft, FoldLeft, Twin!MapThenFoldSet, MapThenFoldSet,
      Twin!Max, Max, Twin!Width, Width, Twin!IsActive, IsActive, Twin!WithParam, WithParam,
      Twin!Decoded, Decoded, Twin!Clamp, Clamp, Twin!NoPoint, NoPoint
<1> QED
  BY <1>6, <1>7

LEMMA TwinConstants ==
  /\ Twin!Samples = Samples /\ Twin!Weight = Weight /\ Twin!Renormalized = Renormalized
  /\ \A f : Twin!SumFunction(f) = SumFunction(f)
  /\ \A n, d : Twin!Quotient(n, d) = Quotient(n, d)
  /\ \A n : Twin!SquareRoot(n) = SquareRoot(n)
  /\ \A S : Twin!Max(S) = Max(S) /\ Twin!Cardinality(S) = Cardinality(S)
<1>1. Twin!Samples = Samples
  BY DEF Twin!Samples, Samples, Twin!ToSet, ToSet
<1>2. \A f : Twin!SumFunction(f) = SumFunction(f)
  BY DEF Twin!SumFunction, SumFunction, Twin!SumFunctionOnSet, SumFunctionOnSet,
         Twin!FoldFunctionOnSet, FoldFunctionOnSet, Twin!MapThenFoldSet, MapThenFoldSet
<1>3. \A u, v : Twin!Squares(u, v) = Squares(u, v)
  BY <1>2 DEF Twin!Squares, Squares
<1>4. \A d : Twin!Decay(d) = Decay(d)
  BY DEF Twin!Decay, Decay
<1>5. Twin!Weight = Weight
  BY <1>1, <1>3, <1>4, TwinCodes DEF Twin!Weight, Weight
<1>6. Twin!Renormalized = Renormalized
  BY <1>1, TwinCodes DEF Twin!Renormalized, Renormalized
<1>7. \A n, d : Twin!Quotient(n, d) = Quotient(n, d)
  BY DEF Twin!Quotient, Quotient
<1>8. \A n : Twin!SquareRoot(n) = SquareRoot(n)
  BY DEF Twin!SquareRoot, SquareRoot
<1>9. \A S : Twin!Max(S) = Max(S)
  BY DEF Twin!Max, Max
<1>10. \A S : Twin!Cardinality(S) = Cardinality(S)
  BY DEF Twin!Cardinality, Cardinality
<1> QED
  BY <1>1, <1>2, <1>5, <1>6, <1>7, <1>8, <1>9, <1>10

\* The sign an objective's value has for the twin.
Sign == IF schema.policy \in Weighted THEN 1 ELSE -1
TwinRow(r) == [r EXCEPT !.values = Negated(@)]
TwinRows == [i \in DOMAIN rows |-> [rows[i] EXCEPT !.values = Negated(@)]]
TwinSchema ==
  [schema EXCEPT !.directions =
                   [k \in DOMAIN @ |-> IF @[k] = "minimize" THEN "maximize" ELSE "minimize"],
                 !.reference = Negated(@)]

LEMMA TwinSchemaIs ==
  ASSUME schema \in Schemas
  PROVE  /\ TwinSchema.policy = schema.policy /\ TwinSchema.weights = schema.weights
         /\ DOMAIN TwinSchema.directions = Objectives
         /\ \A k \in Objectives :
              /\ TwinSchema.directions[k] =
                   IF schema.directions[k] = "minimize" THEN "maximize" ELSE "minimize"
              /\ TwinSchema.reference[k] = -schema.reference[k]
<1>1. DOMAIN schema = {"directions", "policy", "weights", "reference", "bound"}
  BY SchemaAssumption
<1>2. TwinSchema.policy = schema.policy /\ TwinSchema.weights = schema.weights
  BY <1>1 DEF TwinSchema
<1>3. TwinSchema.directions =
        [k \in Objectives |->
           IF schema.directions[k] = "minimize" THEN "maximize" ELSE "minimize"]
  BY <1>1 DEF TwinSchema, Objectives
<1>4. TwinSchema.reference = [k \in Objectives |-> -schema.reference[k]]
  <2>1. DOMAIN schema.reference = Objectives
    BY SchemaIs
  <2> QED
    BY <1>1, <2>1 DEF TwinSchema, Negated
<1> QED
  BY <1>2, <1>3, <1>4

\* The twin's results are the same but for their values.
LEMMA TwinRowIs ==
  ASSUME RankingInv, NEW r \in Ok
  PROVE  /\ TwinRow(r).id = r.id /\ TwinRow(r).status = "ok"
         /\ \A k \in Objectives : TwinRow(r).values[k] = -r.values[k]
<1>1. Comparable(r)
  BY OkIs
<1>2. r \in Reports /\ r.values \in [Objectives -> Int] /\ r.status = "ok"
  BY <1>1 DEF Comparable
<1> QED
  BY <1>2 DEF TwinRow, Negated, Reports

LEMMA TwinOk ==
  ASSUME RankingInv
  PROVE  /\ Twin!Ok = {TwinRow(r) : r \in Ok}
         /\ \A r, s \in Ok : TwinRow(r) = TwinRow(s) => r = s
<1>1. Twin!Ok = {r \in {TwinRows[i] : i \in DOMAIN TwinRows} : r.status = "ok"}
  BY DEF Twin!Ok, Twin!ToSet, TwinRows
<1>2. \A i \in DOMAIN rows : TwinRows[i] = TwinRow(rows[i]) /\ rows[i] \in Reports
  BY ElementOfSeq DEF TwinRows, TwinRow, RankingInv
<1>3. \A i \in DOMAIN rows : TwinRows[i].status = rows[i].status
  BY <1>2 DEF TwinRow, Reports
<1>4. DOMAIN TwinRows = DOMAIN rows
  BY DEF TwinRows
<1>5. Ok = {r \in {rows[i] : i \in DOMAIN rows} : r.status = "ok"}
  BY DEF Ok, ToSet
<1>6. ASSUME NEW r \in Twin!Ok PROVE r \in {TwinRow(s) : s \in Ok}
  <2>1. PICK i \in DOMAIN rows : r = TwinRows[i] /\ r.status = "ok"
    BY <1>1, <1>4
  <2>2. rows[i] \in Ok
    BY <1>3, <1>5, <2>1
  <2> QED
    BY <1>2, <2>1, <2>2
<1>7. ASSUME NEW s \in Ok PROVE TwinRow(s) \in Twin!Ok
  <2>1. PICK i \in DOMAIN rows : s = rows[i] /\ s.status = "ok"
    BY <1>5
  <2> QED
    BY <1>1, <1>2, <1>3, <1>4, <2>1
<1>8. \A r, s \in Ok : TwinRow(r) = TwinRow(s) => r = s
  <2>1. \A r, s \in Ok : r.id = s.id => r = s
    BY OkIs DEF Group
  <2> QED
    BY <2>1, TwinRowIs
<1> QED
  BY <1>6, <1>7, <1>8

LEMMA TwinTowards ==
  ASSUME schema \in Schemas, NEW k \in Objectives, NEW v \in Int
  PROVE  Twin!Toward(v, k) = -Toward(v, k) /\ Toward(v, k) \in Int
         /\ -Toward(-v, k) = Toward(v, k)
<1>1. Twin!Toward(v, k) = IF TwinSchema.directions[k] = "minimize" THEN v ELSE -v
  BY DEF Twin!Toward, TwinSchema
<1>2. TwinSchema.directions[k] =
        IF schema.directions[k] = "minimize" THEN "maximize" ELSE "minimize"
  BY TwinSchemaIs
<1> QED
  BY <1>1, <1>2 DEF Toward

\* In the direction of the objective, the twin's values are the same.
LEMMA TwinKeys ==
  ASSUME RankingInv, NEW r \in Ok
  PROVE  /\ Twin!Objectives = Objectives
         /\ Twin!LexKey(TwinRow(r)) = LexKey(r)
         /\ \A k \in Objectives : Twin!Distance(TwinRow(r), k) = Distance(r, k)
<1>1. schema \in Schemas /\ Comparable(r) /\ r.values \in [Objectives -> Int]
  BY OkIs DEF Comparable
<1>2. Twin!Objectives = Objectives
  BY <1>1, TwinSchemaIs DEF Twin!Objectives, TwinSchema
<1>3. ASSUME NEW k \in Objectives
      PROVE  Twin!Toward(TwinRow(r).values[k], k) = Toward(r.values[k], k)
  <2>1. PICK v \in Int : v = r.values[k] /\ TwinRow(r).values[k] = -v
    BY <1>1, TwinRowIs
  <2>2. PICK w \in Int : w = -v
    OBVIOUS
  <2>3. Twin!Toward(w, k) = -Toward(w, k)
    BY <1>1, TwinTowards
  <2>4. -Toward(-v, k) = Toward(v, k)
    BY <1>1, TwinTowards
  <2> QED
    BY <2>1, <2>2, <2>3, <2>4
<1>4. Twin!LexKey(TwinRow(r)) = LexKey(r)
  BY <1>2, <1>3 DEF Twin!LexKey, LexKey
<1>5. ASSUME NEW k \in Objectives
      PROVE  Twin!Distance(TwinRow(r), k) = Distance(r, k)
  <2>1. PICK v \in Int : v = schema.reference[k]
    BY <1>1, SchemaIs
  <2>2. TwinSchema.reference[k] = -v /\ TwinSchema.weights = schema.weights
    BY <1>1, <2>1, TwinSchemaIs
  <2>3. PICK w \in Int : w = -v
    OBVIOUS
  <2>4. Twin!Toward(w, k) = Toward(v, k)
    <3>1. Twin!Toward(w, k) = -Toward(w, k)
      BY <1>1, TwinTowards
    <3>2. -Toward(-v, k) = Toward(v, k)
      BY <1>1, TwinTowards
    <3> QED
      BY <2>3, <3>1, <3>2
  <2>5. Twin!Toward(TwinSchema.reference[k], k) = Toward(schema.reference[k], k)
    BY <2>1, <2>2, <2>3, <2>4
  <2>6. Twin!Distance(TwinRow(r), k) =
          LET gap == Twin!LexKey(TwinRow(r))[k] - Twin!Toward(TwinSchema.reference[k], k)
          IN  TwinSchema.weights[k] * (IF gap < 0 THEN -gap ELSE gap)
    BY DEF Twin!Distance, TwinSchema
  <2> QED
    BY <1>4, <2>2, <2>5, <2>6 DEF Distance
<1> QED
  BY <1>2, <1>4, <1>5

LEMMA TwinScalars ==
  ASSUME RankingInv, NEW r \in Ok
  PROVE  Twin!Scalar(TwinRow(r)) = Sign * Scalar(r)
<1>1. schema \in Schemas /\ Comparable(r) /\ r.values \in [Objectives -> Int]
  BY OkIs DEF Comparable
<1>2. TwinSchema.policy = schema.policy /\ TwinSchema.weights = schema.weights
  BY <1>1, TwinSchemaIs
<1>3. schema.policy \in {"primary_only", "lexicographic", "weighted_sum", "weighted_tchebycheff"}
  BY <1>1, SchemaIs DEF Weighted
<1>4. PICK v \in Int : v = Scalar(r)
  BY <1>1, ScalarIs
<1>5. CASE schema.policy \in {"primary_only", "lexicographic"}
  <2>1. Twin!Scalar(TwinRow(r)) = TwinRow(r).values[1]
    BY <1>2, <1>5 DEF Twin!Scalar, TwinSchema
  <2>2. 1 \in Objectives
    BY <1>1, SchemaIs
  <2>3. TwinRow(r).values[1] = -r.values[1]
    BY <2>2, TwinRowIs
  <2>4. Scalar(r) = r.values[1]
    BY <1>1, <1>5, ScalarIs
  <2>5. Sign = -1
    BY <1>5 DEF Sign, Weighted
  <2> QED
    BY <1>4, <2>1, <2>3, <2>4, <2>5
<1>6. CASE schema.policy = "weighted_sum"
  <2>1. PICK g : g = [k \in Objectives |-> schema.weights[k] * LexKey(r)[k]]
    OBVIOUS
  <2>2. Twin!Scalar(TwinRow(r)) =
          Twin!FoldFunction(+, 0, [k \in Twin!Objectives |->
                                     TwinSchema.weights[k] * Twin!LexKey(TwinRow(r))[k]])
    BY <1>2, <1>6 DEF Twin!Scalar, TwinSchema
  <2>3. [k \in Twin!Objectives |-> TwinSchema.weights[k] * Twin!LexKey(TwinRow(r))[k]] = g
    BY <1>2, <2>1, TwinKeys
  <2>4. Twin!FoldFunction(+, 0, g) = FoldFunction(+, 0, g)
    BY DEF Twin!FoldFunction, FoldFunction, Twin!FoldFunctionOnSet, FoldFunctionOnSet,
           Twin!MapThenFoldSet, MapThenFoldSet
  <2>5. Scalar(r) = FoldFunction(+, 0, g)
    BY <1>6, <2>1 DEF Scalar
  <2>6. Twin!Scalar(TwinRow(r)) = Scalar(r)
    BY <2>2, <2>3, <2>4, <2>5
  <2>7. Sign = 1
    BY <1>6 DEF Sign, Weighted
  <2> QED
    BY <1>4, <2>6, <2>7
<1>7. CASE schema.policy = "weighted_tchebycheff"
  <2>1. Twin!Scalar(TwinRow(r)) =
          Twin!Max({Twin!Distance(TwinRow(r), k) : k \in Twin!Objectives})
    BY <1>2, <1>7 DEF Twin!Scalar, TwinSchema
  <2>2. {Twin!Distance(TwinRow(r), k) : k \in Twin!Objectives} = Distances(r)
    BY TwinKeys DEF Distances
  <2>3. Scalar(r) = Max(Distances(r))
    BY <1>1, <1>7, ScalarIs
  <2>4. Twin!Scalar(TwinRow(r)) = Scalar(r)
    BY <2>1, <2>2, <2>3, TwinConstants
  <2>5. Sign = 1
    BY <1>7 DEF Sign, Weighted
  <2> QED
    BY <1>4, <2>4, <2>5
<1> QED
  BY <1>3, <1>5, <1>6, <1>7

\* A prediction, as the twin has it.
Mirror(p) == [mean |-> Sign * p.mean, std |-> p.std]

LEMMA SignIs ==
  /\ Sign \in {-1, 1} /\ Sign \in Int
  /\ \A n \in Int : Sign * n \in Int /\ Sign * (Sign * n) = n
BY DEF Sign

LEMMA DirectionIs ==
  ASSUME RankingInv
  PROVE  /\ Direction \in {"minimize", "maximize"} /\ Twin!Direction \in {"minimize", "maximize"}
         /\ Twin!Direction = Direction <=> Sign = 1
         /\ Sign = 1 => Direction = "minimize"
<1>1. schema \in Schemas
  BY OkIs
<1>2. 1 \in Objectives /\ schema.directions[1] \in {"minimize", "maximize"}
  BY <1>1, SchemaIs
<1>3. /\ TwinSchema.policy = schema.policy
      /\ TwinSchema.directions[1] =
           IF schema.directions[1] = "minimize" THEN "maximize" ELSE "minimize"
  BY <1>1, <1>2, TwinSchemaIs
<1>4. Twin!Direction =
        IF TwinSchema.policy \in Weighted THEN "minimize" ELSE TwinSchema.directions[1]
  BY DEF Twin!Direction, TwinSchema, Twin!Weighted, Weighted
<1>5. Direction = IF schema.policy \in Weighted THEN "minimize" ELSE schema.directions[1]
  BY DEF Direction
<1> QED
  BY <1>2, <1>3, <1>4, <1>5 DEF Sign

\* A sum over the twin's results is the sum over the results.
LEMMA TwinSums ==
  ASSUME RankingInv, NEW f \in [Ok -> Int], NEW g, g = [s \in Twin!Ok |-> g[s]],
         \A r \in Ok : g[TwinRow(r)] = f[r]
  PROVE  Twin!SumFunction(g) = SumFunction(f)
<1>1. IsFiniteSet(Ok)
  BY OkIs DEF Group
<1>2. PICK h : h = [r \in Ok |-> TwinRow(r)]
  OBVIOUS
<1>3. PICK U : U = Twin!Ok /\ U = {h[r] : r \in Ok}
  BY <1>2, TwinOk
<1>4. \A r, s \in Ok : h[r] = h[s] => r = s
  BY <1>2, TwinOk
<1>5. \A r \in Ok : g[h[r]] = f[r]
  BY <1>2
<1>6. g \in [U -> Int]
  <2>1. \A s \in U : g[s] \in Int
    BY <1>3, <1>5
  <2> QED
    BY <1>3, <2>1
<1>7. SumFunction(g) = SumFunction(f)
  BY SMTT(30), <1>1, <1>3, <1>4, <1>5, <1>6, SumRenamed
<1> QED
  BY <1>7, TwinConstants

LEMMA TwinCount ==
  ASSUME RankingInv
  PROVE  Cardinality(Twin!Ok) = Cardinality(Ok) /\ (Twin!Ok = {} <=> Ok = {})
<1>1. PICK h : h = [r \in Ok |-> TwinRow(r)]
  OBVIOUS
<1>2. h \in Bijection(Ok, Twin!Ok)
  BY <1>1, TwinOk DEF Bijection, Injection, IsInjective, Surjection
<1>3. IsFiniteSet(Ok)
  BY OkIs DEF Group
<1>4. ExistsBijection(Ok, Twin!Ok)
  BY <1>2 DEF ExistsBijection
<1> QED
  BY <1>3, <1>4, TwinOk, FS_Bijection

\* What the twin's proxy sums up.
LEMMA TwinNear ==
  ASSUME RankingInv, NEW x \in Samples
  PROVE  /\ Twin!Near(x) = Near(x) /\ Twin!NearSum(x) = Sign * NearSum(x)
         /\ Twin!Sum = Sign * Sum
         /\ \A m \in Int : Twin!Spread(x, Sign * m) = Spread(x, m)
<1>1. \A r \in Ok : /\ TwinRow(r).id = r.id /\ TwinRow(r) \in Twin!Ok
                    /\ Twin!Scalar(TwinRow(r)) = Sign * Scalar(r)
                    /\ Scalar(r) \in Int /\ Weight[x][r.id] \in Nat
  BY OkIs, TwinRowIs, TwinOk, TwinScalars, WeightIs
<1>2. IsFiniteSet(Ok)
  BY OkIs DEF Group
<1>3. Twin!Near(x) = Near(x)
  <2>1. PICK f : f = [r \in Ok |-> Weight[x][r.id]]
    OBVIOUS
  <2>2. PICK g : g = [s \in Twin!Ok |-> Weight[x][s.id]]
    OBVIOUS
  <2>3. f \in [Ok -> Int] /\ g = [s \in Twin!Ok |-> g[s]] /\ \A r \in Ok : g[TwinRow(r)] = f[r]
    BY <1>1, <2>1, <2>2
  <2>4. Twin!Near(x) = Twin!SumFunction(g) /\ Near(x) = SumFunction(f)
    BY <2>1, <2>2, TwinConstants DEF Twin!Near, Near
  <2> QED
    BY <2>3, <2>4, TwinSums
<1>4. Twin!NearSum(x) = Sign * NearSum(x)
  <2>1. PICK e : e = [r \in Ok |-> Weight[x][r.id] * Scalar(r)]
    OBVIOUS
  <2>2. PICK f : f = [r \in Ok |-> Sign * e[r]]
    OBVIOUS
  <2>3. PICK g : g = [s \in Twin!Ok |-> Weight[x][s.id] * Twin!Scalar(s)]
    OBVIOUS
  <2>4. ASSUME NEW r \in Ok PROVE e[r] \in Int /\ f[r] \in Int /\ g[TwinRow(r)] = f[r]
    <3>1. PICK w \in Int, v \in Int : w = Weight[x][r.id] /\ v = Scalar(r)
      BY <1>1
    <3>2. e[r] = w * v /\ g[TwinRow(r)] = w * (Sign * v) /\ f[r] = Sign * (w * v)
      BY <1>1, <2>1, <2>2, <2>3, <3>1
    <3>3. w * (Sign * v) = Sign * (w * v)
      BY SignIs
    <3> QED
      BY <3>2, <3>3, SignIs
  <2>5. f \in [Ok -> Int] /\ e \in [Ok -> Int] /\ g = [s \in Twin!Ok |-> g[s]]
    BY <2>1, <2>2, <2>3, <2>4
  <2>6. Twin!NearSum(x) = Twin!SumFunction(g) /\ NearSum(x) = SumFunction(e)
    BY <2>1, <2>3, TwinConstants DEF Twin!NearSum, NearSum
  <2>7. SumFunction(f) = Sign * SumFunction(e)
    BY <1>2, <2>2, <2>5, SignIs, SumScaled
  <2> QED
    BY <2>4, <2>5, <2>6, <2>7, TwinSums
<1>5. Twin!Sum = Sign * Sum
  <2>1. PICK e : e = [r \in Ok |-> Scalar(r)]
    OBVIOUS
  <2>2. PICK f : f = [r \in Ok |-> Sign * e[r]]
    OBVIOUS
  <2>3. PICK g : g = [s \in Twin!Ok |-> Twin!Scalar(s)]
    OBVIOUS
  <2>4. ASSUME NEW r \in Ok PROVE e[r] \in Int /\ f[r] \in Int /\ g[TwinRow(r)] = f[r]
    BY <1>1, <2>1, <2>2, <2>3, SignIs
  <2>5. f \in [Ok -> Int] /\ e \in [Ok -> Int] /\ g = [s \in Twin!Ok |-> g[s]]
    BY <2>1, <2>2, <2>3, <2>4
  <2>6. Twin!Sum = Twin!SumFunction(g) /\ Sum = SumFunction(e)
    BY <2>1, <2>3 DEF Twin!Sum, Sum
  <2>7. SumFunction(f) = Sign * SumFunction(e)
    BY <1>2, <2>2, <2>5, SignIs, SumScaled
  <2> QED
    BY <2>4, <2>5, <2>6, <2>7, TwinSums
<1>6. ASSUME NEW m \in Int PROVE Twin!Spread(x, Sign * m) = Spread(x, m)
  <2>1. PICK f : f = [r \in Ok |-> Weight[x][r.id] * Square(Scale * Scalar(r) - m)]
    OBVIOUS
  <2>2. PICK g : g = [s \in Twin!Ok |->
                        Weight[x][s.id] * Square(Scale * Twin!Scalar(s) - Sign * m)]
    OBVIOUS
  <2>3. ASSUME NEW r \in Ok PROVE f[r] \in Int /\ g[TwinRow(r)] = f[r]
    <3>1. PICK w \in Int, v \in Int, u \in Int :
            w = Weight[x][r.id] /\ v = Scalar(r) /\ u = Scale
      BY <1>1, SpaceAssumption
    <3>2. PICK y \in Int : y = u * v - m
      OBVIOUS
    <3>3. u * (Sign * v) - Sign * m = Sign * y
      BY <3>2, SignIs
    <3>4. Square(Sign * y) = Square(y) /\ Square(y) \in Int
      BY SignIs DEF Square
    <3>5. f[r] = w * Square(y) /\ g[TwinRow(r)] = w * Square(Sign * y)
      BY <1>1, <2>1, <2>2, <3>1, <3>2, <3>3
    <3> QED
      BY <3>4, <3>5
  <2>4. f \in [Ok -> Int] /\ g = [s \in Twin!Ok |-> g[s]]
    BY <2>1, <2>2, <2>3
  <2>5. Twin!Spread(x, Sign * m) = Twin!SumFunction(g) \div Twin!Near(x)
    BY <2>2, TwinConstants DEF Twin!Spread, Twin!Square, Square
  <2>6. Spread(x, m) = SumFunction(f) \div Near(x)
    BY <2>1 DEF Spread
  <2> QED
    BY <1>3, <2>3, <2>4, <2>5, <2>6, TwinSums
<1> QED
  BY <1>3, <1>4, <1>5, <1>6

\* The twin's surrogates predict the negative, with the same certainty.
LEMMA TwinProxy ==
  ASSUME RankingInv, Ok # {}, NEW x \in Samples
  PROVE  Twin!Proxy(x) = Mirror(Proxy(x))
<1>1. PICK p, q \in Ok : \A r \in Ok : Scalar(p) <= Scalar(r) /\ Scalar(r) <= Scalar(q)
  BY Extremes
<1>2. PICK n \in Nat, s, t \in Int, c \in Nat \ {0} :
        n = Near(x) /\ s = NearSum(x) /\ t = Sum /\ c = Cardinality(Ok)
  <2>1. Cardinality(Ok) \in Nat \ {0} /\ Scalar(p) \in Int /\ Scalar(q) \in Int
    BY OkIs
  <2> QED
    BY <1>1, <2>1, NearIs
<1>3. PICK u \in Nat \ {0} : u = Scale
  BY SpaceAssumption
<1>4. /\ Twin!Near(x) = n /\ Twin!NearSum(x) = Sign * s /\ Twin!Sum = Sign * t
      /\ Cardinality(Twin!Ok) = c
  BY <1>2, TwinNear, TwinCount
<1>5. ASSUME NEW a \in Int, NEW d \in Nat \ {0}
      PROVE  /\ Quotient(u * a, d) \in Int
             /\ Quotient(u * (Sign * a), d) = Sign * Quotient(u * a, d)
  <2>1. PICK b \in Int : b = u * a
    OBVIOUS
  <2>2. Quotient(b, d) \in Int /\ Quotient(-b, d) = -Quotient(b, d)
    BY QuotientIs
  <2>3. u * (Sign * a) = Sign * b
    BY <2>1, SignIs
  <2>4. CASE Sign = 1
    <3>1. Sign * b = b /\ Sign * Quotient(b, d) = Quotient(b, d)
      BY <2>2, <2>4
    <3> QED
      BY <2>1, <2>2, <2>3, <3>1
  <2>5. CASE Sign = -1
    <3>1. Sign * b = -b /\ Sign * Quotient(b, d) = -Quotient(b, d)
      BY <2>2, <2>5
    <3> QED
      BY <2>1, <2>2, <2>3, <3>1
  <2> QED
    BY <2>4, <2>5, SignIs
<1>6. CASE n = 0
  <2>1. Proxy(x) = [mean |-> Quotient(u * t, c), std |-> u]
    BY <1>2, <1>3, <1>6 DEF Proxy
  <2>2. Twin!Proxy(x) = [mean |-> Quotient(u * (Sign * t), c), std |-> u]
    BY <1>3, <1>4, <1>6, TwinConstants DEF Twin!Proxy
  <2> QED
    BY <1>5, <2>1, <2>2 DEF Mirror
<1>7. CASE n # 0
  <2>1. PICK m \in Int : /\ m = Quotient(u * s, n)
                         /\ Quotient(u * (Sign * s), n) = Sign * m
    BY <1>5, <1>7
  <2>2. Proxy(x) = Seen(x, m)
    BY <1>2, <1>3, <1>7, <2>1 DEF Proxy
  <2>3. Twin!Proxy(x) = Twin!Seen(x, Sign * m)
    BY <1>3, <1>4, <1>7, <2>1, TwinConstants DEF Twin!Proxy
  <2>4. PICK e : e = Spread(x, m) /\ Twin!Spread(x, Sign * m) = e
    BY TwinNear
  <2>5. PICK j : j = Density(n) /\ Twin!Density(n) = j
    BY <1>4, <1>2, TwinConstants DEF Twin!Density, Density
  <2>6. Seen(x, m) = [mean |-> m, std |-> SquareRoot(Max({e, 1})) + Max({0, u - j})]
    BY <1>2, <1>3, <2>4, <2>5 DEF Seen
  <2>7. Twin!Seen(x, Sign * m) =
          [mean |-> Sign * m, std |-> SquareRoot(Max({e, 1})) + Max({0, u - j})]
    BY <1>3, <1>4, <2>4, <2>5, TwinConstants DEF Twin!Seen
  <2> QED
    BY <2>2, <2>3, <2>6, <2>7 DEF Mirror
<1> QED
  BY <1>6, <1>7

LEMMA TwinGaussian ==
  ASSUME ProcessPredicts, RankingInv, NEW x \in Samples
  PROVE  Twin!Gaussian(x) = Mirror(Gaussian(x))
<1>1. PICK i \in {-1, 1} : i = IF Direction = "maximize" THEN -1 ELSE 1
  OBVIOUS
<1>2. PICK j \in {-1, 1} : j = IF Twin!Direction = "maximize" THEN -1 ELSE 1
  OBVIOUS
<1>3. j = i * Sign
  BY <1>1, <1>2, DirectionIs, SignIs
<1>4. ASSUME NEW r \in Ok PROVE j * Twin!Scalar(TwinRow(r)) = i * Scalar(r)
  <2>1. PICK v \in Int : v = Scalar(r) /\ Twin!Scalar(TwinRow(r)) = Sign * v
    BY OkIs, TwinScalars
  <2>2. (i * Sign) * (Sign * v) = i * v
    BY SignIs
  <2> QED
    BY <1>3, <2>1, <2>2
<1>5. {<<s.id, j * Twin!Scalar(s)>> : s \in Twin!Ok} = {<<r.id, i * Scalar(r)>> : r \in Ok}
  <2>1. \A r \in Ok : <<TwinRow(r).id, j * Twin!Scalar(TwinRow(r))>> = <<r.id, i * Scalar(r)>>
    BY <1>4, TwinRowIs
  <2> QED
    BY <2>1, TwinOk
<1>6. PICK seen \in Predictions : seen = Posterior(x, {<<r.id, i * Scalar(r)>> : r \in Ok})
  BY PosteriorIs
<1>7. Gaussian(x) = [mean |-> i * seen.mean, std |-> seen.std]
  BY <1>1, <1>6 DEF Gaussian
<1>8. Twin!Gaussian(x) = [mean |-> j * seen.mean, std |-> seen.std]
  BY <1>2, <1>5, <1>6 DEF Twin!Gaussian
<1>9. seen.mean \in Int
  BY <1>6 DEF Predictions
<1>10. j * seen.mean = Sign * (i * seen.mean)
  BY <1>3, <1>9, SignIs
<1> QED
  BY <1>7, <1>8, <1>10 DEF Mirror

-----------------------------------------------------------------------------
(* Scores, and who leads.                                                   *)

\* The expected improvement grows with the gain and with the uncertainty.
LEMMA ExpectedGrows ==
  ASSUME NEW gain \in Int, NEW more \in Int, more >= 3, more > gain + 3,
         NEW s \in Nat \ {0}, NEW t \in Nat \ {0}, s <= t
  PROVE  Expected(gain, s) \in Int /\ Expected(more, t) \in Int
         /\ Expected(gain, s) < Expected(more, t)
<1>1. PICK h \in Nat, m \in Nat : /\ h = Max({0, gain}) /\ m = Max({gain, -gain}) /\ h <= m
                                  /\ h >= gain /\ (h = 0 \/ h = gain)
  <2>1. -gain \in Int
    OBVIOUS
  <2>2. Max({0, gain}) = (IF 0 < gain THEN gain ELSE 0)
    BY MaxOfTwo
  <2>3. Max({gain, -gain}) = (IF gain < -gain THEN -gain ELSE gain)
    BY <2>1, MaxOfTwo
  <2> QED
    BY <2>2, <2>3
<1>2. PICK k \in Nat : more = h + k /\ k >= 2
  <2>1. more - h \in Nat /\ more = h + (more - h) /\ more - h >= 2
    BY <1>1
  <2> QED
    BY <2>1
<1>3. Max({0, more}) = more /\ Max({more, -more}) = more
  <2>1. -more \in Int /\ ~(more < -more) /\ 0 < more
    OBVIOUS
  <2> QED
    BY <2>1, MaxOfTwo
<1>4. PICK a \in Nat, b \in Nat : /\ a = (s * s) \div (2 * s + 2 * m)
                                  /\ b = (t * t) \div (2 * t + 2 * (h + k)) /\ a < b + k
  <2>1. k \in Nat /\ k >= 2 /\ h <= m /\ h \in Nat /\ m \in Nat /\ s \in Nat \ {0} /\ t \in Nat
    BY <1>1, <1>2
  <2>2. /\ (s * s) \div (2 * s + 2 * m) \in Nat /\ (t * t) \div (2 * t + 2 * (h + k)) \in Nat
        /\ (s * s) \div (2 * s + 2 * m) < (t * t) \div (2 * t + 2 * (h + k)) + k
    BY <2>1, TailShrinks
  <2> QED
    BY <2>2
<1>5. Expected(gain, s) = h + a
  BY <1>1, <1>4 DEF Expected
<1>6. Expected(more, t) = more + b
  BY <1>2, <1>3, <1>4 DEF Expected
<1> QED
  BY <1>2, <1>4, <1>5, <1>6

\* Some score is the first of the highest.
LEMMA ForemostIs ==
  ASSUME NEW n \in Nat \ {0}, NEW scores \in [1..n -> Int]
  PROVE  /\ Foremost(scores) \in 1..n
         /\ \A j \in 1..n : scores[j] <= scores[Foremost(scores)]
<1>1. PICK D : D = 1..n
  OBVIOUS
<1>2. IsFiniteSet(D) /\ D # {} /\ DOMAIN scores = D
  <2>1. IsFiniteSet(1..n)
    BY FS_Interval
  <2>2. 1 \in 1..n
    OBVIOUS
  <2> QED
    BY <1>1, <2>1, <2>2
<1>3. PICK R : R = {e \in D \X D : scores[e[1]] < scores[e[2]]
                                    \/ (scores[e[1]] = scores[e[2]] /\ e[2] <= e[1])}
  OBVIOUS
<1>4. \A i, j \in D : <<i, j>> \in R <=>
        scores[i] < scores[j] \/ (scores[i] = scores[j] /\ j <= i)
  BY <1>3
<1>5. \A i \in D : i \in Int /\ scores[i] \in Int
  BY <1>1
<1>6. \A i, j \in D : <<i, j>> \in R \/ <<j, i>> \in R
  <2>1. ASSUME NEW i \in D, NEW j \in D PROVE <<i, j>> \in R \/ <<j, i>> \in R
    <3>1. PICK v \in Int, w \in Int : v = scores[i] /\ w = scores[j]
      BY <1>5
    <3>2. i \in Int /\ j \in Int
      BY <1>5
    <3> QED
      BY <1>4, <3>1, <3>2
  <2> QED
    BY <2>1
<1>7. \A i, j, k \in D : <<i, j>> \in R /\ <<j, k>> \in R => <<i, k>> \in R
  <2>1. ASSUME NEW i \in D, NEW j \in D, NEW k \in D, <<i, j>> \in R, <<j, k>> \in R
        PROVE  <<i, k>> \in R
    <3>1. PICK u \in Int, v \in Int, w \in Int :
            u = scores[i] /\ v = scores[j] /\ w = scores[k]
      BY <1>5
    <3>2. (u < v \/ (u = v /\ j <= i)) /\ (v < w \/ (v = w /\ k <= j))
      BY <1>4, <2>1, <3>1
    <3>3. i \in Int /\ j \in Int /\ k \in Int
      BY <1>5
    <3>4. u < w \/ (u = w /\ k <= i)
      BY <3>2, <3>3
    <3> QED
      BY <1>4, <3>1, <3>4
  <2> QED
    BY <2>1
<1>8. PICK m \in D : \A j \in D : <<j, m>> \in R
  BY ZenonT(30), <1>2, <1>6, <1>7, LastOfFinite
<1>9. \A j \in D \ {m} : scores[j] < scores[m] \/ (scores[j] = scores[m] /\ m < j)
  <2>1. ASSUME NEW j \in D, j # m
        PROVE  scores[j] < scores[m] \/ (scores[j] = scores[m] /\ m < j)
    <3>1. m \in Int /\ j \in Int
      BY <1>5
    <3>2. scores[j] < scores[m] \/ (scores[j] = scores[m] /\ m <= j)
      BY <1>4, <1>8
    <3> QED
      BY <2>1, <3>1, <3>2
  <2> QED
    BY <2>1
<1>10. /\ Foremost(scores) \in D
      /\ \A j \in D \ {Foremost(scores)} :
           scores[j] < scores[Foremost(scores)]
           \/ (scores[j] = scores[Foremost(scores)] /\ Foremost(scores) < j)
  BY <1>2, <1>9 DEF Foremost
<1> QED
  BY <1>1, <1>10

\* What the incumbent is on record with.
IncumbentInv == best = [id |-> best.id, value |-> best.value]

LEMMA IncumbentIs ==
  ASSUME RankingInv, IncumbentInv, Ok # {}
  PROVE  /\ best # NoBest /\ best.value \in Int
         /\ best = [id |-> best.id, value |-> best.value]
<1>1. best # NoBest
  BY DEF RankingInv, HardChecks
<1>2. PICK r \in Ok : Scalar(r) = best.value
  BY <1>1 DEF RankingInv, HardChecks
<1> QED
  BY <1>1, <1>2, OkIs DEF IncumbentInv

LEMMA GainIs ==
  ASSUME RankingInv, IncumbentInv, Ok # {}, NEW p \in Predictions
  PROVE  Gain(p) \in Int
<1>1. p.mean \in Int
  BY DEF Predictions
<1>2. PICK v \in Int : v = best.value
  BY IncumbentIs
<1>3. Scale \in Nat
  BY SpaceAssumption
<1> QED
  BY <1>1, <1>2, <1>3 DEF Gain

\* A better and no less uncertain prediction scores higher.
LEMMA ScoreRises ==
  ASSUME RankingInv, IncumbentInv, Ok # {}, NEW policy \in Policies,
         NEW p \in Predictions, NEW q \in Predictions
  PROVE  /\ Score(policy, p) \in Int
         /\ Better(q, p) /\ q.std >= p.std /\ (policy.acquisition = "ucb" \/ Gain(q) > 3)
              => Score(policy, p) < Score(policy, q)
<1>1. PICK m \in Int, n \in Int, s \in Nat \ {0}, t \in Nat \ {0} :
        m = p.mean /\ n = q.mean /\ s = p.std /\ t = q.std
  BY DEF Predictions
<1>2. PICK v \in Int : v = best.value
  BY IncumbentIs
<1>3. PICK u \in Nat \ {0} : u = Scale
  BY SpaceAssumption
<1>4. PICK w \in Int : w = u * v
  OBVIOUS
<1>5. CASE policy.acquisition = "ucb"
  BY <1>1, <1>5, DirectionIs DEF Score, Better
<1>6. CASE policy.acquisition # "ucb"
  <2>1. PICK g \in Int, h \in Int : /\ g = Gain(p) /\ h = Gain(q)
                                    /\ Better(q, p) => h > g + 3
    <3>1. Gain(p) = (IF Direction = "minimize" THEN w - m ELSE m - w)
      BY <1>1, <1>2, <1>3, <1>4 DEF Gain
    <3>2. Gain(q) = (IF Direction = "minimize" THEN w - n ELSE n - w)
      BY <1>1, <1>2, <1>3, <1>4 DEF Gain
    <3>3. Better(q, p) <=> IF Direction = "minimize" THEN n < m - 3 ELSE n > m + 3
      BY <1>1 DEF Better
    <3> QED
      BY <3>1, <3>2, <3>3
  <2>2. CASE policy.template = "bo_client"
    <3>1. Score(policy, p) = Expected(g - 1, s) /\ Score(policy, q) = Expected(h - 1, t)
      BY <1>1, <1>6, <2>1, <2>2, IncumbentIs DEF Score
    <3>2. Expected(g - 1, s) \in Int
      <4>1. PICK i \in Int, j \in Int : /\ i = g - 1 /\ j >= 3 /\ j > i + 3
        <5>1. g - 1 \in Int /\ (IF g > 0 THEN g + 3 ELSE 3) \in Int
              /\ (IF g > 0 THEN g + 3 ELSE 3) >= 3
              /\ (IF g > 0 THEN g + 3 ELSE 3) > (g - 1) + 3
          OBVIOUS
        <5> QED
          BY <5>1
      <4>2. s <= s
        OBVIOUS
      <4>3. Expected(i, s) \in Int
        BY <4>1, <4>2, ExpectedGrows
      <4> QED
        BY <4>1, <4>3
    <3>3. ASSUME h > g + 3, h > 3, t >= s PROVE Expected(g - 1, s) < Expected(h - 1, t)
      <4>1. PICK i \in Int, j \in Int : i = g - 1 /\ j = h - 1 /\ j >= 3 /\ j > i + 3
        BY <3>3
      <4> QED
        BY <3>3, <4>1, ExpectedGrows
    <3> QED
      BY <1>1, <1>6, <2>1, <3>1, <3>2, <3>3
  <2>3. CASE policy.template # "bo_client"
    <3>1. /\ Score(policy, p) = u * Max({0, g}) + s
          /\ Score(policy, q) = u * Max({0, h}) + t
      BY <1>1, <1>3, <1>6, <2>1, <2>3, IncumbentIs DEF Score
    <3>2. /\ Max({0, g}) = (IF 0 < g THEN g ELSE 0)
          /\ Max({0, h}) = (IF 0 < h THEN h ELSE 0)
      BY MaxOfTwo
    <3>3. PICK i \in Nat, j \in Nat : i = Max({0, g}) /\ j = Max({0, h})
      BY <3>2
    <3>4. u * i \in Int
      OBVIOUS
    <3>5. ASSUME h > g + 3, h > 3, t >= s PROVE u * i + s < u * j + t
      <4>1. PICK k \in Nat \ {0} : j = i + k
        <5>1. j - i \in Nat \ {0} /\ j = i + (j - i)
          BY <3>2, <3>3, <3>5
        <5> QED
          BY <5>1
      <4>2. u * j = u * i + u * k /\ u * k > 0
        BY <4>1
      <4> QED
        BY <3>4, <3>5, <4>2
    <3> QED
      BY <1>1, <1>6, <2>1, <3>1, <3>3, <3>4, <3>5
  <2> QED
    BY <2>2, <2>3
<1> QED
  BY <1>5, <1>6

\* Nothing in the pool is clearly better than the leader.
Leads(policy, pool, view, x) ==
  \A y \in ToSet(pool) :
    ~ /\ Better(view[y], view[x]) /\ view[y].std >= view[x].std
      /\ (policy.acquisition = "ucb" \/ Gain(view[y]) > 3)

LEMMA LeaderLeads ==
  ASSUME RankingInv, IncumbentInv, Ok # {}, NEW policy \in Policies,
         NEW pool \in Seq(Samples), pool # <<>>, NEW view \in [Samples -> Predictions]
  PROVE  /\ Leader(policy, pool, view) \in ToSet(pool) /\ Leader(policy, pool, view) \in Samples
         /\ Leads(policy, pool, view, Leader(policy, pool, view))
<1>1. PICK n \in Nat \ {0} : DOMAIN pool = 1..n /\ n = Len(pool)
  BY EmptySeq
<1>2. \A i \in 1..n : pool[i] \in Samples /\ view[pool[i]] \in Predictions
  BY <1>1, ElementOfSeq
<1>3. PICK scores : scores = [i \in DOMAIN pool |-> Score(policy, view[pool[i]])]
  OBVIOUS
<1>4. scores \in [1..n -> Int]
  BY <1>1, <1>2, <1>3, ScoreRises
<1>5. PICK f \in 1..n : f = Foremost(scores) /\ \A j \in 1..n : scores[j] <= scores[f]
  BY <1>4, ForemostIs
<1>6. Leader(policy, pool, view) = pool[f]
  BY <1>3, <1>5 DEF Leader
<1>7. pool[f] \in ToSet(pool) /\ pool[f] \in Samples
  BY <1>1, <1>2 DEF ToSet
<1>8. ASSUME NEW y \in ToSet(pool), Better(view[y], view[pool[f]]),
             view[y].std >= view[pool[f]].std,
             policy.acquisition = "ucb" \/ Gain(view[y]) > 3
      PROVE  FALSE
  <2>1. PICK j \in 1..n : y = pool[j]
    BY <1>1 DEF ToSet
  <2>2. PICK p \in Predictions, q \in Predictions : p = view[pool[f]] /\ q = view[pool[j]]
    BY <1>2
  <2>3. Score(policy, p) < Score(policy, q)
    BY <1>8, <2>1, <2>2, ScoreRises
  <2>4. scores[f] = Score(policy, p) /\ scores[j] = Score(policy, q)
    BY <1>1, <1>3, <2>2
  <2>5. scores[f] \in Int /\ scores[j] \in Int /\ scores[j] <= scores[f]
    BY <1>4, <1>5
  <2> QED
    BY <2>3, <2>4, <2>5
<1> QED
  BY <1>6, <1>7, <1>8 DEF Leads

-----------------------------------------------------------------------------
(* The twin decides the same.                                               *)

TwinBest == IF schema.policy \in Weighted THEN best ELSE [best EXCEPT !.value = -@]

LEMMA TwinBestIs ==
  ASSUME RankingInv, IncumbentInv, Ok # {}
  PROVE  TwinBest.value = Sign * best.value /\ TwinBest # NoBest
<1>1. PICK v \in Int : v = best.value /\ best # NoBest /\ best = [id |-> best.id, value |-> v]
  BY IncumbentIs
<1>2. best.id # 0
  BY <1>1, OkIs DEF RankingInv, HardChecks
<1>3. CASE schema.policy \in Weighted
  BY <1>1, <1>3 DEF TwinBest, Sign
<1>4. CASE schema.policy \notin Weighted
  <2>1. TwinBest = [id |-> best.id, value |-> -v]
    BY <1>1, <1>4 DEF TwinBest
  <2>2. TwinBest.id = best.id /\ TwinBest.value = -v /\ NoBest.id = 0
    BY <2>1 DEF NoBest
  <2>3. -v = Sign * v
    BY <1>4 DEF Sign
  <2> QED
    BY <1>1, <1>2, <2>2, <2>3
<1> QED
  BY <1>3, <1>4

LEMMA MirrorIs ==
  ASSUME NEW p \in Predictions
  PROVE  /\ Mirror(p) \in Predictions /\ Mirror(Mirror(p)) = p
         /\ Mirror(p).mean = Sign * p.mean /\ Mirror(p).std = p.std
         /\ (IF schema.policy \in Weighted THEN p ELSE [p EXCEPT !.mean = -@]) = Mirror(p)
<1>1. PICK m \in Int, s \in Nat \ {0} : p = [mean |-> m, std |-> s]
  BY DEF Predictions
<1>2. Sign * m \in Int /\ Sign * (Sign * m) = m
  BY SignIs
<1>3. Mirror(p) = [mean |-> Sign * m, std |-> s]
  BY <1>1 DEF Mirror
<1>4. Mirror(Mirror(p)) = [mean |-> Sign * (Sign * m), std |-> s]
  BY <1>3 DEF Mirror
<1>5. CASE schema.policy \in Weighted
  <2>1. Sign * m = m
    BY <1>5 DEF Sign
  <2> QED
    BY <1>1, <1>2, <1>3, <1>4, <1>5, <2>1 DEF Predictions
<1>6. CASE schema.policy \notin Weighted
  <2>1. Sign * m = -m
    BY <1>6 DEF Sign
  <2>2. [p EXCEPT !.mean = -@] = [mean |-> -m, std |-> s]
    BY <1>1
  <2> QED
    BY <1>1, <1>2, <1>3, <1>4, <1>6, <2>1, <2>2 DEF Predictions
<1> QED
  BY <1>5, <1>6

\* The same prediction is worth the same.
LEMMA TwinScores ==
  ASSUME RankingInv, IncumbentInv, Ok # {}, NEW policy \in Policies, NEW p \in Predictions
  PROVE  Twin!Score(policy, Mirror(p)) = Score(policy, p)
<1>1. PICK m \in Int, s \in Nat \ {0} :
        /\ m = p.mean /\ s = p.std /\ Mirror(p).mean = Sign * m /\ Mirror(p).std = s
  BY MirrorIs DEF Predictions
<1>2. PICK v \in Int : v = best.value /\ TwinBest.value = Sign * v
  BY IncumbentIs, TwinBestIs
<1>3. PICK u \in Nat \ {0} : u = Scale
  BY SpaceAssumption
<1>4. PICK w \in Int : w = u * v
  OBVIOUS
<1>5. u * (Sign * v) = Sign * w /\ Sign * w \in Int /\ Sign * m \in Int
  BY <1>4, SignIs
<1>6. Twin!Gain(Mirror(p)) = Gain(p)
  <2>1. Twin!Gain(Mirror(p)) = (IF Twin!Direction = "minimize"
                                THEN Sign * w - Sign * m ELSE Sign * m - Sign * w)
    BY <1>1, <1>2, <1>3, <1>5 DEF Twin!Gain, TwinBest
  <2>2. Gain(p) = (IF Direction = "minimize" THEN w - m ELSE m - w)
    BY <1>1, <1>2, <1>3, <1>4 DEF Gain
  <2>3. CASE Sign = 1
    BY <2>1, <2>2, <2>3, DirectionIs
  <2>4. CASE Sign = -1
    BY <2>1, <2>2, <2>4, DirectionIs
  <2> QED
    BY <2>3, <2>4, SignIs
<1>7. \A gain, std : Twin!Expected(gain, std) = Expected(gain, std)
  BY TwinConstants DEF Twin!Expected, Expected
<1>8. Twin!NoBest = NoBest /\ best # NoBest /\ TwinBest # NoBest
  BY IncumbentIs, TwinBestIs DEF Twin!NoBest, NoBest
<1>9. CASE policy.acquisition = "ucb"
  <2>1. Twin!Score(policy, Mirror(p)) = (IF Twin!Direction = "minimize"
          THEN -(2 * (Sign * m) - 3 * s) ELSE 2 * (Sign * m) + 3 * s)
    BY <1>1, <1>9 DEF Twin!Score
  <2>2. Score(policy, p) = (IF Direction = "minimize"
          THEN -(2 * m - 3 * s) ELSE 2 * m + 3 * s)
    BY <1>1, <1>9 DEF Score
  <2>3. CASE Sign = 1
    BY <2>1, <2>2, <2>3, DirectionIs
  <2>4. CASE Sign = -1
    BY <2>1, <2>2, <2>4, DirectionIs
  <2> QED
    BY <2>3, <2>4, SignIs
<1>10. CASE policy.acquisition # "ucb"
  <2>1. Score(policy, p) =
          IF policy.template = "bo_client" THEN Expected(Gain(p) - 1, s)
          ELSE Scale * Max({0, Gain(p)}) + s
    BY <1>1, <1>8, <1>10 DEF Score
  <2>2. Twin!Score(policy, Mirror(p)) =
          IF policy.template = "bo_client" THEN Expected(Gain(p) - 1, s)
          ELSE Scale * Max({0, Gain(p)}) + s
    BY <1>1, <1>6, <1>7, <1>8, <1>10, TwinConstants DEF Twin!Score, TwinBest
  <2> QED
    BY <2>1, <2>2
<1> QED
  BY <1>9, <1>10

\* All predictions of a surrogate, as the twin has them.
Reflected(view) == [x \in Samples |-> Mirror(view[x])]

LEMMA ViewsAre ==
  ASSUME ProcessPredicts, RankingInv, Ok # {}
  PROVE  /\ Views.proxy \in [Samples -> Predictions] /\ Views.process \in [Samples -> Predictions]
         /\ Twin!Views.proxy = Reflected(Views.proxy)
         /\ Twin!Views.process = Reflected(Views.process)
         /\ Reflected(Views.proxy) \in [Samples -> Predictions]
         /\ Reflected(Views.process) \in [Samples -> Predictions]
<1>1. /\ Views.proxy = [x \in Samples |-> Proxy(x)]
      /\ Views.process = [x \in Samples |-> Gaussian(x)]
  BY DEF Views
<1>2. /\ Twin!Views.proxy = [x \in Samples |-> Twin!Proxy(x)]
      /\ Twin!Views.process = [x \in Samples |-> Twin!Gaussian(x)]
  BY TwinConstants DEF Twin!Views
<1>3. \A x \in Samples : /\ Proxy(x) \in Predictions /\ Gaussian(x) \in Predictions
                         /\ Mirror(Proxy(x)) \in Predictions /\ Mirror(Gaussian(x)) \in Predictions
                         /\ Twin!Proxy(x) = Mirror(Proxy(x))
                         /\ Twin!Gaussian(x) = Mirror(Gaussian(x))
  BY ProxyIs, GaussianIs, MirrorIs, TwinProxy, TwinGaussian
<1> QED
  BY <1>1, <1>2, <1>3 DEF Reflected

LEMMA TwinLeader ==
  ASSUME RankingInv, IncumbentInv, Ok # {}, NEW policy \in Policies,
         NEW pool \in Seq(Samples), NEW view \in [Samples -> Predictions]
  PROVE  Twin!Leader(policy, pool, Reflected(view)) = Leader(policy, pool, view)
<1>1. \A i \in DOMAIN pool : pool[i] \in Samples
  BY ElementOfSeq
<1>2. ASSUME NEW i \in DOMAIN pool
      PROVE  Twin!Score(policy, Reflected(view)[pool[i]]) = Score(policy, view[pool[i]])
  <2>1. Reflected(view)[pool[i]] = Mirror(view[pool[i]]) /\ view[pool[i]] \in Predictions
    BY <1>1 DEF Reflected
  <2> QED
    BY <2>1, TwinScores
<1>3. \A scores : Twin!Foremost(scores) = Foremost(scores)
  BY DEF Twin!Foremost, Foremost
<1>4. [i \in DOMAIN pool |-> Twin!Score(policy, Reflected(view)[pool[i]])] =
        [i \in DOMAIN pool |-> Score(policy, view[pool[i]])]
  BY <1>2
<1> QED
  BY <1>3, <1>4 DEF Twin!Leader, Leader

-----------------------------------------------------------------------------
(* The decisions.                                                           *)

LEMMA SampleReturns ==
  ASSUME NEW x \in Samples
  PROVE  Renormalized[x] = x
<1>1. WholePoint(x)
  BY SampleAssumption
<1>2. ASSUME NEW n \in Names(Space)
      PROVE  n \in DOMAIN x <=> IsActive(Named(Space, n), x)
  <2>1. Named(Space, n) \in ToSet(Space) /\ Named(Space, n).name = n
    BY DEF Names, Named
  <2> QED
    BY <1>1, <2>1 DEF WholePoint
<1>3. FullPoint(x, Space, {})
  BY <1>1, <1>2 DEF WholePoint, FullPoint
<1>4. Decode(Encode(x, Space), Space) = x
  BY <1>3, SpaceAssumption, RoundTripOf DEF Spacious
<1> QED
  BY <1>4 DEF Renormalized

\* A decision and the twin's: the same, but for the direction of what is predicted.
Proposed(backend, reason, x, p, recovered) ==
  [kind |-> "offered", strategy |-> "surrogate_acquisition", backend |-> backend,
   reason |-> reason, point |-> {x}, predicted |-> {p}, recovered |-> recovered]

Stopped(kind, strategy, backend, reason, recovered) ==
  [kind |-> kind, strategy |-> strategy, backend |-> backend, reason |-> reason,
   point |-> {}, predicted |-> {}, recovered |-> recovered]

LEMMA ProposedIs ==
  ASSUME NEW backend, NEW x, NEW p, NEW d,
         d = [Decision("offered", "surrogate_acquisition", backend, "none") EXCEPT
                !.point = {x}, !.predicted = {p}]
  PROVE  d = Proposed(backend, "none", x, p, FALSE)
<1>1. PICK c : c = Decision("offered", "surrogate_acquisition", backend, "none")
  OBVIOUS
<1>2. c = [kind |-> "offered", strategy |-> "surrogate_acquisition", backend |-> backend,
           reason |-> "none", point |-> {}, predicted |-> {}, recovered |-> FALSE]
  BY <1>1 DEF Decision
<1>3. PICK e : e = [c EXCEPT !.point = {x}]
  OBVIOUS
<1>4. e = [kind |-> "offered", strategy |-> "surrogate_acquisition", backend |-> backend,
           reason |-> "none", point |-> {x}, predicted |-> {}, recovered |-> FALSE]
  BY <1>2, <1>3
<1>5. d = [e EXCEPT !.predicted = {p}]
  BY <1>1, <1>3
<1> QED
  BY <1>4, <1>5 DEF Proposed

LEMMA TwinHelpers ==
  /\ \A k, s, b, r : Twin!Decision(k, s, b, r) = Decision(k, s, b, r)
  /\ Twin!Breaks = Breaks
  /\ \A sample, reason : Twin!Random(sample, reason) = Random(sample, reason)
  /\ \A template : Twin!Acquisitions(template) = Acquisitions(template)
  /\ \A luck : Twin!Fitted(luck) = Fitted(luck) /\ Twin!Unfit(luck) = Unfit(luck)
<1>1. \A k, s, b, r : Twin!Decision(k, s, b, r) = Decision(k, s, b, r)
  BY DEF Twin!Decision, Decision
<1>2. Twin!Breaks = Breaks
  BY <1>1 DEF Twin!Breaks, Breaks
<1>3. \A sample, reason : Twin!Random(sample, reason) = Random(sample, reason)
  BY <1>1 DEF Twin!Random, Random
<1>4. \A template : Twin!Acquisitions(template) = Acquisitions(template)
  BY DEF Twin!Acquisitions, Acquisitions
<1>5. \A luck : Twin!Fitted(luck) = Fitted(luck)
  BY DEF Twin!Fitted, Fitted
<1>6. \A luck : Twin!Unfit(luck) = Unfit(luck)
  BY <1>5 DEF Twin!Unfit, Unfit
<1> QED
  BY <1>1, <1>2, <1>3, <1>4, <1>5, <1>6

LEMMA TwinTooFew ==
  ASSUME RankingInv, NEW policy
  PROVE  Twin!TooFew(policy) = TooFew(policy)
BY TwinCount, TwinConstants DEF Twin!TooFew, TooFew

\* What comes of a pool.
AcquiredAs(policy, pool, backend, view, d, t) ==
  \/ pool = <<>> /\ d = Stopped("infeasible", "surrogate_acquisition", backend, "none", FALSE)
                 /\ t = d
  \/ /\ pool # <<>> /\ policy.acquisition \notin Acquisitions(policy.template)
     /\ d = Stopped("raised", "none", "none", "none", FALSE) /\ t = d
  \/ /\ pool # <<>>
     /\ \E x \in Samples \cap ToSet(pool) :
          /\ Leads(policy, pool, view, x)
          /\ d = Proposed(backend, "none", x, view[x], FALSE)
          /\ t = Proposed(backend, "none", x, Mirror(view[x]), FALSE)

LEMMA AcquiredIs ==
  ASSUME RankingInv, IncumbentInv, Ok # {}, NEW policy \in Policies,
         NEW pool \in Seq(Samples), NEW view \in [Samples -> Predictions], NEW backend
  PROVE  AcquiredAs(policy, pool, backend, view, Acquired(policy, pool, backend, view),
                    Twin!Acquired(policy, pool, backend, Reflected(view)))
<1>1. CASE pool = <<>>
  BY <1>1, TwinHelpers DEF Acquired, Twin!Acquired, AcquiredAs, Stopped, Decision
<1>2. CASE pool # <<>> /\ policy.acquisition \notin Acquisitions(policy.template)
  BY <1>2, TwinHelpers DEF Acquired, Twin!Acquired, AcquiredAs, Stopped, Breaks, Decision
<1>3. CASE pool # <<>> /\ policy.acquisition \in Acquisitions(policy.template)
  <2>1. PICK x : x = Leader(policy, pool, view)
    OBVIOUS
  <2>2. x \in Samples \cap ToSet(pool) /\ Leads(policy, pool, view, x)
    BY <1>3, <2>1, LeaderLeads
  <2>3. Acquired(policy, pool, backend, view) = Promising(x, backend, view)
    BY <1>3, <2>1 DEF Acquired
  <2>4. Promising(x, backend, view) = Proposed(backend, "none", x, view[x], FALSE)
    BY ProposedIs DEF Promising
  <2>5. Twin!Acquired(policy, pool, backend, Reflected(view)) =
          Twin!Promising(x, backend, Reflected(view))
    BY <1>3, <2>1, TwinLeader, TwinHelpers DEF Twin!Acquired
  <2>6. Reflected(view)[x] = Mirror(view[x])
    BY <2>2 DEF Reflected
  <2>7. Twin!Promising(x, backend, Reflected(view)) =
          Proposed(backend, "none", x, Mirror(view[x]), FALSE)
    BY <2>6, TwinHelpers, ProposedIs DEF Twin!Promising
  <2> QED
    BY <1>3, <2>2, <2>3, <2>4, <2>5, <2>7 DEF AcquiredAs
<1> QED
  BY <1>1, <1>2, <1>3

\* What comes of the process.
ProcessedAs(policy, luck, backend, views, d, t) ==
  \/ /\ \E recovered \in BOOLEAN : d = Stopped("raised", "none", "none", "none", recovered)
     /\ t = d
  \/ /\ luck.pool = <<>> /\ t = d
     /\ d = Stopped("infeasible", "surrogate_acquisition", backend, "none", FALSE)
  \/ /\ ~Unfit(luck) /\ luck.finite
     /\ \E x \in Samples \cap ToSet(luck.pool), recovered \in BOOLEAN :
          /\ recovered <=> Fitted(luck) = "recovered"
          /\ Leads(policy, luck.pool, views.process, x)
          /\ d = Proposed(backend, "none", x, views.process[x], recovered)
          /\ t = Proposed(backend, "none", x, Mirror(views.process[x]), recovered)

\* A point that goes to the normalised vector and back.
Returned(d, recovered) ==
  [d EXCEPT !.recovered = recovered, !.point = {Renormalized[x] : x \in @}]

LEMMA StoppedReturns ==
  ASSUME NEW kind, NEW strategy, NEW backend, NEW reason,
         NEW was \in BOOLEAN, NEW recovered \in BOOLEAN
  PROVE  Returned(Stopped(kind, strategy, backend, reason, was), recovered) =
           Stopped(kind, strategy, backend, reason, recovered)
<1>1. PICK d : d = Stopped(kind, strategy, backend, reason, was)
  OBVIOUS
<1>2. PICK e : e = [d EXCEPT !.recovered = recovered]
  OBVIOUS
<1>3. e = Stopped(kind, strategy, backend, reason, recovered)
  BY <1>1, <1>2 DEF Stopped
<1>4. d.point = {}
  BY <1>1 DEF Stopped
<1>5. Returned(d, recovered) = [e EXCEPT !.point = {}]
  BY <1>2, <1>4 DEF Returned
<1> QED
  BY <1>1, <1>3, <1>5 DEF Stopped

LEMMA ProposedReturns ==
  ASSUME NEW backend, NEW reason, NEW x \in Samples, NEW p,
         NEW was \in BOOLEAN, NEW recovered \in BOOLEAN
  PROVE  Returned(Proposed(backend, reason, x, p, was), recovered) =
           Proposed(backend, reason, x, p, recovered)
<1>1. PICK d : d = Proposed(backend, reason, x, p, was)
  OBVIOUS
<1>2. PICK e : e = [d EXCEPT !.recovered = recovered]
  OBVIOUS
<1>3. e = Proposed(backend, reason, x, p, recovered)
  BY <1>1, <1>2 DEF Proposed
<1>4. {Renormalized[y] : y \in d.point} = {x}
  <2>1. d.point = {x} /\ Renormalized[x] = x
    BY <1>1, SampleReturns DEF Proposed
  <2> QED
    BY <2>1
<1>5. Returned(d, recovered) = [e EXCEPT !.point = {x}]
  BY <1>2, <1>4 DEF Returned
<1> QED
  BY <1>1, <1>3, <1>5 DEF Proposed

LEMMA FortuneIs ==
  ASSUME NEW luck \in Fortunes
  PROVE  luck.pool \in Seq(Samples) /\ luck.again \in Seq(Samples)
BY SampleAssumption

LEMMA ProcessedIs ==
  ASSUME RankingInv, IncumbentInv, Ok # {}, NEW policy \in Policies, NEW luck \in Fortunes,
         NEW backend, NEW views, views.process \in [Samples -> Predictions],
         NEW twins, twins.process = Reflected(views.process)
  PROVE  ProcessedAs(policy, luck, backend, views, ByProcess(policy, luck, backend, views),
                     Twin!ByProcess(policy, luck, backend, twins))
<1>1. PICK v \in [Samples -> Predictions] : v = views.process
  OBVIOUS
<1>2. CASE Unfit(luck) \/ (luck.pool # <<>> /\ ~luck.finite)
  <2>1. ByProcess(policy, luck, backend, views) = Breaks
    BY <1>2 DEF ByProcess
  <2>2. Twin!ByProcess(policy, luck, backend, twins) = Breaks
    BY <1>2, TwinHelpers DEF Twin!ByProcess
  <2>3. Breaks = Stopped("raised", "none", "none", "none", FALSE)
    BY DEF Breaks, Stopped, Decision
  <2> QED
    BY <2>1, <2>2, <2>3 DEF ProcessedAs
<1>3. CASE ~Unfit(luck) /\ (luck.pool = <<>> \/ luck.finite)
  <2>1. PICK c, u : /\ c = Acquired(policy, luck.pool, backend, v)
                    /\ u = Twin!Acquired(policy, luck.pool, backend, Reflected(v))
    OBVIOUS
  <2>2. AcquiredAs(policy, luck.pool, backend, v, c, u)
    BY <2>1, AcquiredIs, FortuneIs
  <2>3. PICK r \in BOOLEAN : r = (luck.pool # <<>> /\ Fitted(luck) = "recovered")
    OBVIOUS
  <2>4. ByProcess(policy, luck, backend, views) = Returned(c, r)
    BY <1>1, <1>3, <2>1, <2>3 DEF ByProcess, Returned
  <2>5. Twin!ByProcess(policy, luck, backend, twins) = Returned(u, r)
    BY <1>1, <1>3, <2>1, <2>3, TwinHelpers, TwinConstants DEF Twin!ByProcess, Returned
  <2>6. CASE luck.pool = <<>>
    <3>1. c = Stopped("infeasible", "surrogate_acquisition", backend, "none", FALSE) /\ u = c
      BY <2>2, <2>6 DEF AcquiredAs
    <3>2. r = FALSE
      BY <2>3, <2>6
    <3>3. Returned(c, r) = c
      BY <3>1, <3>2, StoppedReturns
    <3> QED
      BY <2>4, <2>5, <2>6, <3>1, <3>3 DEF ProcessedAs
  <2>7. CASE luck.pool # <<>> /\ policy.acquisition \notin Acquisitions(policy.template)
            /\ c = Stopped("raised", "none", "none", "none", FALSE) /\ u = c
    <3>1. Returned(c, r) = Stopped("raised", "none", "none", "none", r)
      BY <2>7, StoppedReturns
    <3> QED
      BY <2>3, <2>4, <2>5, <2>7, <3>1 DEF ProcessedAs
  <2>8. ASSUME luck.pool # <<>>, NEW x \in Samples \cap ToSet(luck.pool),
               Leads(policy, luck.pool, v, x),
               c = Proposed(backend, "none", x, v[x], FALSE),
               u = Proposed(backend, "none", x, Mirror(v[x]), FALSE)
        PROVE  ProcessedAs(policy, luck, backend, views, Returned(c, r), Returned(u, r))
    <3>1. Returned(c, r) = Proposed(backend, "none", x, v[x], r)
      BY <2>8, ProposedReturns
    <3>3. Returned(u, r) = Proposed(backend, "none", x, Mirror(v[x]), r)
      BY <2>8, ProposedReturns
    <3>2. r <=> Fitted(luck) = "recovered"
      BY <2>3, <2>8
    <3> QED
      BY <1>1, <1>3, <2>8, <3>1, <3>3, <3>2 DEF ProcessedAs
  <2> QED
    BY <2>2, <2>4, <2>5, <2>6, <2>7, <2>8 DEF AcquiredAs
<1> QED
  BY <1>2, <1>3

\* Read the other way round, the twin's decision is the campaign's.
LEMMA MirroredIs ==
  ASSUME NEW d, NEW S
  PROVE  /\ d = [kind |-> d.kind, strategy |-> d.strategy, backend |-> d.backend,
                 reason |-> d.reason, point |-> d.point, predicted |-> {},
                 recovered |-> d.recovered] => Mirrored(d) = d
         /\ \A backend, reason, x, recovered : \A p \in Predictions :
              d = Proposed(backend, reason, x, Mirror(p), recovered)
                => Mirrored(d) = Proposed(backend, reason, x, p, recovered)
<1>1. PICK T : T = {IF schema.policy \in Weighted THEN p ELSE [p EXCEPT !.mean = -@] :
                      p \in d.predicted}
  OBVIOUS
<1>2. Mirrored(d) = [d EXCEPT !.predicted = T]
  BY <1>1 DEF Mirrored
<1>3. ASSUME d = [kind |-> d.kind, strategy |-> d.strategy, backend |-> d.backend,
                  reason |-> d.reason, point |-> d.point, predicted |-> {},
                  recovered |-> d.recovered]
      PROVE  Mirrored(d) = d
  <2>1. T = {}
    <3>1. d.predicted = {}
      BY <1>3
    <3> QED
      BY <1>1, <3>1
  <2> QED
    BY <1>2, <1>3, <2>1
<1>4. ASSUME NEW backend, NEW reason, NEW x, NEW recovered, NEW p \in Predictions,
             d = Proposed(backend, reason, x, Mirror(p), recovered)
      PROVE  Mirrored(d) = Proposed(backend, reason, x, p, recovered)
  <2>1. d.predicted = {Mirror(p)}
    BY <1>4 DEF Proposed
  <2>2. PICK q \in Predictions : q = Mirror(p) /\ Mirror(q) = p
    BY MirrorIs
  <2>3. T = {p}
    <3>1. T = {IF schema.policy \in Weighted THEN q ELSE [q EXCEPT !.mean = -@]}
      BY <1>1, <2>1, <2>2
    <3> QED
      BY <2>2, <3>1, MirrorIs
  <2> QED
    BY <1>2, <1>4, <2>3 DEF Proposed
<1> QED
  BY <1>3, <1>4

LEMMA BackendIs ==
  ASSUME NEW policy \in Policies
  PROVE  policy.backend \in {"rbf_proxy", "gp"} /\ policy.initial \in Int /\ policy.minFit \in Int
BY PolicyAssumption

\* A point that no result was asked about.
LEMMA RandomFollows ==
  ASSUME RankingInv, NEW policy \in Policies, NEW luck \in Fortunes, NEW views,
         NEW sample \in {luck.pool, luck.again}, NEW reason,
         (reason # "none") <=> (Len(rows) >= policy.initial)
  PROVE  DecisionFollows(policy, luck, views, Random(sample, reason), Random(sample, reason))
<1>1. sample \in Seq(Samples)
  BY FortuneIs
<1>2. CASE sample = <<>>
  <2>1. PICK d : d = Stopped("infeasible", "initial_random", "none", reason, FALSE)
    OBVIOUS
  <2>2. Random(sample, reason) = d
    BY <1>2, <2>1 DEF Random, Decision, Stopped
  <2>3. Mirrored(d) = d
    BY <2>1, MirroredIs DEF Stopped
  <2>4. d.kind = "infeasible" /\ d.point = {}
    BY <2>1 DEF Stopped
  <2> QED
    BY <1>2, <2>2, <2>3, <2>4 DEF DecisionFollows, OfferLeads, RecordIsTrue, OfferIsMade
<1>3. CASE sample # <<>>
  <2>1. PICK x : x = Head(sample)
    OBVIOUS
  <2>2. x \in ToSet(sample)
    <3>1. 1 \in DOMAIN sample /\ x = sample[1]
      BY <1>1, <1>3, <2>1
    <3> QED
      BY <3>1 DEF ToSet
  <2>3. PICK d : d = [kind |-> "offered", strategy |-> "initial_random", backend |-> "none",
                      reason |-> reason, point |-> {x}, predicted |-> {}, recovered |-> FALSE]
    OBVIOUS
  <2>4. Random(sample, reason) = d
    <3>1. PICK c : c = Decision("offered", "initial_random", "none", reason)
      OBVIOUS
    <3>2. Random(sample, reason) = [c EXCEPT !.point = {x}]
      BY <1>3, <2>1, <3>1 DEF Random
    <3> QED
      BY <2>3, <3>1, <3>2 DEF Decision
  <2>5. Mirrored(d) = d
    BY <2>3, MirroredIs
  <2>6. /\ d.kind = "offered" /\ d.strategy = "initial_random" /\ d.backend = "none"
        /\ d.reason = reason /\ d.point = {x}
    BY <2>3
  <2>7. OfferLeads(policy, luck, views, d)
    BY <2>6 DEF OfferLeads
  <2>8. RecordIsTrue(policy, luck, d)
    BY <2>6, BackendIs DEF RecordIsTrue
  <2>9. OfferIsMade(policy, luck, d)
    BY <2>2, <2>6 DEF OfferIsMade
  <2> QED
    BY <2>4, <2>5, <2>7, <2>8, <2>9 DEF DecisionFollows
<1> QED
  BY <1>2, <1>3

\* No point, for a reason.
LEMMA StoppedFollows ==
  ASSUME NEW policy \in Policies, NEW luck \in Fortunes, NEW views,
         NEW kind, kind # "offered", NEW strategy, NEW backend, NEW reason,
         NEW recovered \in BOOLEAN,
         \/ {luck.pool, luck.again} \cap {<<>>} # {}
         \/ policy.acquisition \notin Acquisitions(policy.template)
         \/ policy.backend # "rbf_proxy" /\ ~policy.fallback,
         NEW d, d = Stopped(kind, strategy, backend, reason, recovered)
  PROVE  DecisionFollows(policy, luck, views, d, d)
<1>1. d.kind = kind /\ d.point = {}
  BY DEF Stopped
<1>2. Mirrored(d) = d
  BY MirroredIs DEF Stopped
<1> QED
  BY <1>1, <1>2 DEF DecisionFollows, OfferLeads, RecordIsTrue, OfferIsMade

\* The leader of a pool.
LEMMA ProposedFollows ==
  ASSUME RankingInv, NEW policy \in Policies, NEW luck \in Fortunes, NEW views,
         NEW backend \in {"rbf_proxy", "gp", "botorch_gp"}, NEW reason,
         NEW pool, pool = IF reason = "error" THEN luck.again ELSE luck.pool,
         NEW view, view = IF backend = "rbf_proxy" THEN views.proxy ELSE views.process,
         view \in [Samples -> Predictions],
         NEW x \in Samples \cap ToSet(pool), Leads(policy, pool, view, x),
         NEW recovered \in BOOLEAN,
         backend # "rbf_proxy" =>
           /\ luck.installed /\ luck.finite /\ ~TooFew(policy)
           /\ IF recovered THEN luck.first # "ok" /\ luck.second = "converged"
                           ELSE luck.first = "ok",
         (reason # "none") <=> (backend = "rbf_proxy" /\ policy.backend = "gp"),
         backend # "rbf_proxy" => policy.backend = "gp",
         Len(rows) >= policy.initial
  PROVE  DecisionFollows(policy, luck, views, Proposed(backend, reason, x, view[x], recovered),
                         Proposed(backend, reason, x, Mirror(view[x]), recovered))
<1>1. PICK d : d = Proposed(backend, reason, x, view[x], recovered)
  OBVIOUS
<1>2. d = Mirrored(Proposed(backend, reason, x, Mirror(view[x]), recovered))
  BY <1>1, MirroredIs
<1>3. /\ d.kind = "offered" /\ d.strategy = "surrogate_acquisition" /\ d.backend = backend
      /\ d.reason = reason /\ d.point = {x} /\ d.recovered = recovered
  BY <1>1 DEF Proposed
<1>4. OfferLeads(policy, luck, views, d)
  BY <1>3 DEF OfferLeads, Leads
<1>5. RecordIsTrue(policy, luck, d)
  <2>1. backend # "rbf_proxy" => Cardinality(Ok) >= Max({2, policy.minFit})
    <3>1. Max({2, policy.minFit}) \in Int
      BY BackendIs, MaxOfTwo
    <3> QED
      BY <3>1, OkIs DEF TooFew
  <2>2. CASE backend = "rbf_proxy"
    BY <1>3, <2>2, BackendIs DEF RecordIsTrue
  <2>3. CASE backend \in {"gp", "botorch_gp"}
    BY <1>3, <2>1, <2>3, BackendIs DEF RecordIsTrue
  <2> QED
    BY <2>2, <2>3
<1>6. OfferIsMade(policy, luck, d)
  BY <1>3 DEF OfferIsMade
<1> QED
  BY <1>1, <1>2, <1>4, <1>5, <1>6 DEF DecisionFollows

\* What comes of the proxy's pool.
LEMMA ProxyFollows ==
  ASSUME ProcessPredicts, RankingInv, IncumbentInv, Ok # {},
         NEW policy \in Policies, NEW luck \in Fortunes, Len(rows) >= policy.initial,
         policy.backend = "rbf_proxy"
  PROVE  DecisionFollows(policy, luck, Views, ByProxy(policy, luck.pool, Views),
                         Twin!ByProxy(policy, luck.pool, Twin!Views))
<1>1. PICK v \in [Samples -> Predictions] : v = Views.proxy /\ Twin!Views.proxy = Reflected(v)
  BY ViewsAre
<1>2. PICK d, t : /\ d = Acquired(policy, luck.pool, "rbf_proxy", v)
                  /\ t = Twin!Acquired(policy, luck.pool, "rbf_proxy", Reflected(v))
  OBVIOUS
<1>3. /\ ByProxy(policy, luck.pool, Views) = d
      /\ Twin!ByProxy(policy, luck.pool, Twin!Views) = t
  BY <1>1, <1>2 DEF ByProxy, Twin!ByProxy
<1>4. AcquiredAs(policy, luck.pool, "rbf_proxy", v, d, t)
  BY <1>2, FortuneIs, AcquiredIs
<1>5. CASE luck.pool = <<>>
  <2>1. d = Stopped("infeasible", "surrogate_acquisition", "rbf_proxy", "none", FALSE) /\ t = d
    BY <1>4, <1>5 DEF AcquiredAs
  <2> QED
    BY <1>3, <1>5, <2>1, StoppedFollows
<1>6. CASE policy.acquisition \notin Acquisitions(policy.template)
           /\ d = Stopped("raised", "none", "none", "none", FALSE) /\ t = d
  BY <1>3, <1>6, StoppedFollows
<1>7. ASSUME NEW x \in Samples \cap ToSet(luck.pool), Leads(policy, luck.pool, v, x),
             d = Proposed("rbf_proxy", "none", x, v[x], FALSE),
             t = Proposed("rbf_proxy", "none", x, Mirror(v[x]), FALSE)
      PROVE  DecisionFollows(policy, luck, Views, d, t)
  <2>1. luck.pool = IF "none" = "error" THEN luck.again ELSE luck.pool
    OBVIOUS
  <2>2. v = IF "rbf_proxy" = "rbf_proxy" THEN Views.proxy ELSE Views.process
    BY <1>1
  <2>3. /\ ("none" # "none") <=> ("rbf_proxy" = "rbf_proxy" /\ policy.backend = "gp")
        /\ "rbf_proxy" \in {"rbf_proxy", "gp", "botorch_gp"}
    OBVIOUS
  <2>4. DecisionFollows(policy, luck, Views, Proposed("rbf_proxy", "none", x, v[x], FALSE),
                        Proposed("rbf_proxy", "none", x, Mirror(v[x]), FALSE))
    BY <1>7, <2>1, <2>2, <2>3, ProposedFollows
  <2> QED
    BY <1>7, <2>4
<1> QED
  BY <1>3, <1>4, <1>5, <1>6, <1>7 DEF AcquiredAs

\* A decision that says why the process was given up.
Blamed(d, reason) == [d EXCEPT !.reason = reason]

LEMMA StoppedBlamed ==
  ASSUME NEW kind, NEW strategy, NEW backend, NEW was, NEW reason, NEW recovered \in BOOLEAN
  PROVE  Blamed(Stopped(kind, strategy, backend, was, recovered), reason) =
           Stopped(kind, strategy, backend, reason, recovered)
BY DEF Stopped, Blamed

LEMMA ProposedBlamed ==
  ASSUME NEW backend, NEW was, NEW x, NEW p, NEW reason, NEW recovered \in BOOLEAN
  PROVE  Blamed(Proposed(backend, was, x, p, recovered), reason) =
           Proposed(backend, reason, x, p, recovered)
BY DEF Proposed, Blamed

LEMMA InsteadBlamed ==
  ASSUME NEW c, NEW reason
  PROVE  /\ c = Stopped("raised", "none", "none", "none", FALSE)
              => Blamed(c, reason) = Stopped("raised", "none", "none", reason, FALSE)
         /\ \A x, p : c = Proposed("rbf_proxy", "none", x, p, FALSE)
              => Blamed(c, reason) = Proposed("rbf_proxy", reason, x, p, FALSE)
<1>1. ASSUME c = Stopped("raised", "none", "none", "none", FALSE)
      PROVE  Blamed(c, reason) = Stopped("raised", "none", "none", reason, FALSE)
  BY ZenonT(30), <1>1, StoppedBlamed
<1>2. ASSUME NEW x, NEW p, c = Proposed("rbf_proxy", "none", x, p, FALSE)
      PROVE  Blamed(c, reason) = Proposed("rbf_proxy", reason, x, p, FALSE)
  <2>1. PICK no \in BOOLEAN : no = FALSE
    OBVIOUS
  <2>2. Blamed(Proposed("rbf_proxy", "none", x, p, no), reason) =
          Proposed("rbf_proxy", reason, x, p, no)
    BY ProposedBlamed
  <2> QED
    BY <1>2, <2>1, <2>2
<1> QED
  BY <1>1, <1>2

\* What comes of the process, with the proxy to stand in for it.
LEMMA ProcessFollows ==
  ASSUME ProcessPredicts, RankingInv, IncumbentInv, Ok # {},
         NEW policy \in Policies, NEW luck \in Fortunes, Len(rows) >= policy.initial,
         policy.backend = "gp", ~TooFew(policy), NEW backend \in {"gp", "botorch_gp"},
         NEW d, d = ByProcess(policy, luck, backend, Views),
         NEW t, t = Twin!ByProcess(policy, luck, backend, Twin!Views)
  PROVE  /\ DecisionFollows(policy, luck, Views, Instead(policy, luck, Views, d),
                            Twin!Instead(policy, luck, Twin!Views, t))
         /\ ~policy.fallback => DecisionFollows(policy, luck, Views, d, t)
<1>1. /\ Views.process \in [Samples -> Predictions] /\ Views.proxy \in [Samples -> Predictions]
      /\ Twin!Views.process = Reflected(Views.process)
      /\ Twin!Views.proxy = Reflected(Views.proxy)
  BY ViewsAre
<1>2. ProcessedAs(policy, luck, backend, Views, d, t)
  BY <1>1, ProcessedIs
<1>3. CASE (\E recovered \in BOOLEAN : d = Stopped("raised", "none", "none", "none", recovered))
           /\ t = d
  <2>1. PICK r \in BOOLEAN : d = Stopped("raised", "none", "none", "none", r)
    BY <1>3
  <2>2. d.kind = "raised" /\ t.kind = "raised"
    BY <1>3, <2>1 DEF Stopped
  <2>3. CASE ~policy.fallback
    <3>1. DecisionFollows(policy, luck, Views, d, t)
      <4>1. policy.backend # "rbf_proxy" /\ "raised" # "offered"
        OBVIOUS
      <4> QED
        BY <1>3, <2>1, <2>3, <4>1, StoppedFollows
    <3>2. Instead(policy, luck, Views, d) = d /\ Twin!Instead(policy, luck, Twin!Views, t) = t
      BY <2>3 DEF Instead, Twin!Instead
    <3> QED
      BY <3>1, <3>2
  <2>4. CASE policy.fallback
    <3>1. PICK v \in [Samples -> Predictions] : v = Views.proxy /\ Twin!Views.proxy = Reflected(v)
      BY SMTT(30), <1>1
    <3>2. PICK c, u : /\ c = Acquired(policy, luck.again, "rbf_proxy", v)
                      /\ u = Twin!Acquired(policy, luck.again, "rbf_proxy", Reflected(v))
      OBVIOUS
    <3>3. PICK reason : reason = IF luck.again = <<>> THEN "none" ELSE "error"
      OBVIOUS
    <3>4. /\ Instead(policy, luck, Views, d) = Blamed(c, reason)
          /\ Twin!Instead(policy, luck, Twin!Views, t) = Blamed(u, reason)
      BY <2>2, <2>4, <3>1, <3>2, <3>3 DEF Instead, Twin!Instead, ByProxy, Twin!ByProxy, Blamed
    <3>5. AcquiredAs(policy, luck.again, "rbf_proxy", v, c, u)
      BY <3>2, FortuneIs, AcquiredIs
    <3>6. CASE luck.again = <<>>
      <4>1. c = Stopped("infeasible", "surrogate_acquisition", "rbf_proxy", "none", FALSE) /\ u = c
        BY <3>5, <3>6 DEF AcquiredAs
      <4>2. Blamed(c, reason) = c
        BY ZenonT(30), <3>3, <3>6, <4>1, StoppedBlamed
      <4>3. DecisionFollows(policy, luck, Views, c, c)
        BY <3>6, <4>1, StoppedFollows
      <4> QED
        BY <2>4, <3>4, <4>1, <4>2, <4>3
    <3>7. CASE /\ luck.again # <<>> /\ policy.acquisition \notin Acquisitions(policy.template)
               /\ c = Stopped("raised", "none", "none", "none", FALSE) /\ u = c
      <4>1. Blamed(c, reason) = Stopped("raised", "none", "none", reason, FALSE)
        BY <3>7, InsteadBlamed
      <4>2. PICK e : e = Stopped("raised", "none", "none", reason, FALSE)
        OBVIOUS
      <4>3. DecisionFollows(policy, luck, Views, e, e)
        BY <3>7, <4>2, StoppedFollows
      <4> QED
        BY <2>4, <3>4, <3>7, <4>1, <4>2, <4>3
    <3>8. ASSUME luck.again # <<>>, NEW x \in Samples \cap ToSet(luck.again),
                 Leads(policy, luck.again, v, x),
                 c = Proposed("rbf_proxy", "none", x, v[x], FALSE),
                 u = Proposed("rbf_proxy", "none", x, Mirror(v[x]), FALSE)
          PROVE  DecisionFollows(policy, luck, Views, Blamed(c, reason),
                                 Blamed(u, reason))
      <4>1. /\ Blamed(c, reason) = Proposed("rbf_proxy", "error", x, v[x], FALSE)
            /\ Blamed(u, reason) = Proposed("rbf_proxy", "error", x, Mirror(v[x]), FALSE)
        <5>1. reason = "error"
          BY <3>3, <3>8
        <5> QED
          BY <3>8, <5>1, InsteadBlamed
      <4>2. luck.again = IF "error" = "error" THEN luck.again ELSE luck.pool
        OBVIOUS
      <4>3. v = IF "rbf_proxy" = "rbf_proxy" THEN Views.proxy ELSE Views.process
        BY <3>1
      <4>4. /\ ("error" # "none") <=> ("rbf_proxy" = "rbf_proxy" /\ policy.backend = "gp")
            /\ "rbf_proxy" \in {"rbf_proxy", "gp", "botorch_gp"}
        OBVIOUS
      <4>5. DecisionFollows(policy, luck, Views, Proposed("rbf_proxy", "error", x, v[x], FALSE),
                            Proposed("rbf_proxy", "error", x, Mirror(v[x]), FALSE))
        BY <3>8, <4>2, <4>3, <4>4, ProposedFollows
      <4> QED
        BY <4>1, <4>5
    <3> QED
      BY <2>4, <3>4, <3>5, <3>6, <3>7, <3>8 DEF AcquiredAs
  <2> QED
    BY <2>3, <2>4
<1>4. CASE /\ luck.pool = <<>> /\ t = d
           /\ d = Stopped("infeasible", "surrogate_acquisition", backend, "none", FALSE)
  <2>1. d.kind = "infeasible"
    BY <1>4 DEF Stopped
  <2>2. Instead(policy, luck, Views, d) = d /\ Twin!Instead(policy, luck, Twin!Views, t) = t
    BY <1>4, <2>1 DEF Instead, Twin!Instead
  <2>3. DecisionFollows(policy, luck, Views, d, t)
    BY <1>4, StoppedFollows
  <2> QED
    BY <2>2, <2>3
<1>5. ASSUME ~Unfit(luck), luck.finite, NEW x \in Samples \cap ToSet(luck.pool),
             NEW recovered \in BOOLEAN, recovered <=> Fitted(luck) = "recovered",
             Leads(policy, luck.pool, Views.process, x),
             d = Proposed(backend, "none", x, Views.process[x], recovered),
             t = Proposed(backend, "none", x, Mirror(Views.process[x]), recovered)
      PROVE  /\ DecisionFollows(policy, luck, Views, d, t)
             /\ Instead(policy, luck, Views, d) = d
             /\ Twin!Instead(policy, luck, Twin!Views, t) = t
  <2>1. d.kind = "offered" /\ t.kind = "offered"
    BY <1>5 DEF Proposed
  <2>2. Instead(policy, luck, Views, d) = d /\ Twin!Instead(policy, luck, Twin!Views, t) = t
    BY <2>1 DEF Instead, Twin!Instead
  <2>3. PICK v \in [Samples -> Predictions] :
          v = Views.process /\ v = IF backend = "rbf_proxy" THEN Views.proxy ELSE Views.process
    BY <1>1
  <2>4. /\ luck.installed /\ luck.finite /\ ~TooFew(policy)
        /\ IF recovered THEN luck.first # "ok" /\ luck.second = "converged"
                        ELSE luck.first = "ok"
    BY <1>5 DEF Unfit, Fitted
  <2>5. luck.pool = IF "none" = "error" THEN luck.again ELSE luck.pool
    OBVIOUS
  <2>6. /\ ("none" # "none") <=> (backend = "rbf_proxy" /\ policy.backend = "gp")
        /\ backend \in {"rbf_proxy", "gp", "botorch_gp"}
    OBVIOUS
  <2>7. DecisionFollows(policy, luck, Views, Proposed(backend, "none", x, v[x], recovered),
                        Proposed(backend, "none", x, Mirror(v[x]), recovered))
    BY <1>5, <2>3, <2>4, <2>5, <2>6, ProposedFollows
  <2> QED
    BY <1>5, <2>2, <2>3, <2>7
<1> QED
  BY <1>2, <1>3, <1>4, <1>5 DEF ProcessedAs

LEMMA ProposalFollows ==
  ASSUME ProcessPredicts, RankingInv, IncumbentInv, NEW policy \in Policies, NEW luck \in Fortunes
  PROVE  DecisionFollows(policy, luck, Views, Proposal(policy, luck, Views),
                         Twin!Proposal(policy, luck, Twin!Views))
<1>1. PICK n \in Nat : n = Len(rows) /\ n = Len(TwinRows)
  <2>1. rows \in Seq(Reports)
    BY DEF RankingInv
  <2>2. Len(rows) \in Nat /\ DOMAIN TwinRows = 1..Len(rows)
    BY <2>1 DEF TwinRows
  <2>3. TwinRows = [i \in 1..Len(rows) |-> TwinRows[i]]
    BY <2>2 DEF TwinRows
  <2>4. Len(TwinRows) = Len(rows)
    BY <2>2, <2>3
  <2> QED
    BY <2>2, <2>4
<1>2. /\ policy.template \in {"bo_client", "bo_client_demo", "bo_client_full"}
      /\ policy.backend \in {"rbf_proxy", "gp"} /\ policy.initial \in Int
      /\ policy.template = "bo_client_demo" => policy.backend = "rbf_proxy"
      /\ policy.fallback => policy.template = "bo_client_full"
  BY PolicyAssumption
<1>3. Twin!Ok = {} <=> Ok = {}
  BY TwinCount
<1>4. CASE n < policy.initial
  <2>1. Proposal(policy, luck, Views) = Random(luck.pool, "none")
    BY <1>1, <1>4 DEF Proposal
  <2>2. Twin!Proposal(policy, luck, Twin!Views) = Random(luck.pool, "none")
    BY <1>1, <1>4, TwinHelpers DEF Twin!Proposal, TwinRows
  <2>3. ("none" # "none") <=> (Len(rows) >= policy.initial)
    BY <1>1, <1>2, <1>4
  <2> QED
    BY <2>1, <2>2, <2>3, RandomFollows
<1>5. CASE n >= policy.initial /\ Ok = {}
  <2>1. Proposal(policy, luck, Views) = Random(luck.pool, "no_usable_observations")
    BY <1>1, <1>2, <1>5 DEF Proposal
  <2>2. Twin!Proposal(policy, luck, Twin!Views) = Random(luck.pool, "no_usable_observations")
    BY <1>1, <1>2, <1>3, <1>5, TwinHelpers DEF Twin!Proposal, TwinRows
  <2>3. ("no_usable_observations" # "none") <=> (Len(rows) >= policy.initial)
    BY <1>1, <1>5
  <2> QED
    BY <2>1, <2>2, <2>3, RandomFollows
<1>6. CASE n >= policy.initial /\ Ok # {}
  <2>1. Len(rows) >= policy.initial
    BY <1>1, <1>6
  <2>2. ("too_few" # "none") <=> (Len(rows) >= policy.initial)
    BY <2>1
  <2>3. Twin!TooFew(policy) = TooFew(policy)
    BY TwinTooFew
  <2>4. CASE policy.backend = "rbf_proxy"
    <3>1. Proposal(policy, luck, Views) = ByProxy(policy, luck.pool, Views)
      BY <1>1, <1>2, <1>6, <2>4 DEF Proposal, Ordinary, Full
    <3>2. Twin!Proposal(policy, luck, Twin!Views) = Twin!ByProxy(policy, luck.pool, Twin!Views)
      BY <1>1, <1>2, <1>3, <1>6, <2>4 DEF Twin!Proposal, Twin!Ordinary, Twin!Full, TwinRows
    <3> QED
      BY <1>6, <2>1, <2>4, <3>1, <3>2, ProxyFollows
  <2>5. CASE policy.backend = "gp" /\ policy.template = "bo_client"
    <3>1. Proposal(policy, luck, Views) = Ordinary(policy, luck, Views)
      BY <1>1, <1>2, <1>6, <2>5 DEF Proposal
    <3>2. Twin!Proposal(policy, luck, Twin!Views) = Twin!Ordinary(policy, luck, Twin!Views)
      BY <1>1, <1>2, <1>3, <1>6, <2>5 DEF Twin!Proposal, TwinRows
    <3>3. CASE luck.pool = <<>>
      <4>1. PICK d : d = Stopped("infeasible", "surrogate_acquisition", "gp", "none", FALSE)
        OBVIOUS
      <4>2. /\ Ordinary(policy, luck, Views) = d
            /\ Twin!Ordinary(policy, luck, Twin!Views) = d
        BY <2>5, <3>3, <4>1, TwinHelpers DEF Ordinary, Twin!Ordinary, Stopped, Decision
      <4> QED
        BY <3>1, <3>2, <3>3, <4>1, <4>2, StoppedFollows
    <3>4. CASE luck.pool # <<>> /\ TooFew(policy)
      <4>1. /\ Ordinary(policy, luck, Views) = Random(luck.again, "too_few")
            /\ Twin!Ordinary(policy, luck, Twin!Views) = Random(luck.again, "too_few")
        BY <2>3, <2>5, <3>4, TwinHelpers DEF Ordinary, Twin!Ordinary
      <4> QED
        BY <2>2, <3>1, <3>2, <4>1, RandomFollows
    <3>5. CASE luck.pool # <<>> /\ ~TooFew(policy)
      <4>1. PICK d, t : /\ d = ByProcess(policy, luck, "gp", Views)
                        /\ t = Twin!ByProcess(policy, luck, "gp", Twin!Views)
        OBVIOUS
      <4>2. /\ Ordinary(policy, luck, Views) = d
            /\ Twin!Ordinary(policy, luck, Twin!Views) = t
        BY <2>3, <2>5, <3>5, <4>1 DEF Ordinary, Twin!Ordinary
      <4>3. ~policy.fallback /\ "gp" \in {"gp", "botorch_gp"}
        BY <1>2, <2>5
      <4>4. DecisionFollows(policy, luck, Views, d, t)
        BY <1>6, <2>1, <2>5, <3>5, <4>1, <4>3, ProcessFollows
      <4> QED
        BY <3>1, <3>2, <4>2, <4>4
    <3> QED
      BY <3>3, <3>4, <3>5
  <2>6. CASE policy.backend = "gp" /\ policy.template = "bo_client_full"
    <3>1. Proposal(policy, luck, Views) = Full(policy, luck, Views)
      BY <1>1, <1>2, <1>6, <2>6 DEF Proposal
    <3>2. Twin!Proposal(policy, luck, Twin!Views) = Twin!Full(policy, luck, Twin!Views)
      BY <1>1, <1>2, <1>3, <1>6, <2>6 DEF Twin!Proposal, TwinRows
    <3>3. CASE TooFew(policy)
      <4>1. /\ Full(policy, luck, Views) = Random(luck.pool, "too_few")
            /\ Twin!Full(policy, luck, Twin!Views) = Random(luck.pool, "too_few")
        BY <2>3, <2>6, <3>3, TwinHelpers DEF Full, Twin!Full
      <4> QED
        BY <2>2, <3>1, <3>2, <4>1, RandomFollows
    <3>4. CASE ~TooFew(policy)
      <4>1. PICK d, t : /\ d = ByProcess(policy, luck, "botorch_gp", Views)
                        /\ t = Twin!ByProcess(policy, luck, "botorch_gp", Twin!Views)
        OBVIOUS
      <4>2. /\ Full(policy, luck, Views) = Instead(policy, luck, Views, d)
            /\ Twin!Full(policy, luck, Twin!Views) = Twin!Instead(policy, luck, Twin!Views, t)
        BY <2>3, <2>6, <3>4, <4>1 DEF Full, Twin!Full
      <4>3. "botorch_gp" \in {"gp", "botorch_gp"}
        OBVIOUS
      <4>4. DecisionFollows(policy, luck, Views, Instead(policy, luck, Views, d),
                            Twin!Instead(policy, luck, Twin!Views, t))
        BY <1>6, <2>1, <2>6, <3>4, <4>1, <4>3, ProcessFollows
      <4> QED
        BY <3>1, <3>2, <4>2, <4>4
    <3> QED
      BY <3>3, <3>4
  <2> QED
    BY <1>2, <2>4, <2>5, <2>6
<1> QED
  BY <1>1, <1>2, <1>4, <1>5, <1>6

LEMMA ResultsFollow ==
  ASSUME ProcessPredicts, RankingInv, IncumbentInv
  PROVE  ResultsDecide
<1>1. ASSUME Ok # {}
      PROVE  /\ {Views.proxy, Views.process, Twin!Views.proxy, Twin!Views.process}
                  \subseteq [Samples -> Predictions]
             /\ PredictsWithin(Views.proxy)
  <2>1. {Views.proxy, Views.process, Twin!Views.proxy, Twin!Views.process}
          \subseteq [Samples -> Predictions]
    BY <1>1, ViewsAre
  <2>2. \A x \in Samples : Views.proxy[x] = Proxy(x)
    BY DEF Views
  <2> QED
    BY <1>1, <2>1, <2>2, ProxyIs DEF PredictsWithin
<1> QED
  BY <1>1, ProposalFollows DEF ResultsDecide, ProposalsFollow, EachFollows

LEMMA IncumbentStarts ==
  ASSUME RankingInit PROVE IncumbentInv
BY DEF RankingInit, IncumbentInv, NoBest

LEMMA IncumbentSteps ==
  ASSUME IncumbentInv, [RankingNext]_rankingVars
  PROVE  IncumbentInv'
<1>1. CASE UNCHANGED rankingVars
  BY <1>1 DEF rankingVars, IncumbentInv
<1>2. CASE \E row : Record(row)
  <2>1. best' = BestOf(rows')
    BY <1>2 DEF Record
  <2>2. ASSUME NEW results, NEW b, b = BestOf(results)
        PROVE  b = [id |-> b.id, value |-> b.value]
    <3>1. PICK i, v : b = [id |-> i, value |-> v]
      BY <2>2 DEF BestOf, NoBest
    <3> QED
      BY <3>1
  <2> QED
    BY <2>1, <2>2 DEF IncumbentInv
<1> QED
  BY <1>1, <1>2 DEF RankingNext, Succeeds, Fails

\* surrogate_proxy.py, surrogate_gp.py, acquisition.py, the three run_bo.py: if what the
\* process predicts has a positive variance, then to minimise an objective or to maximise
\* its negative comes to the same decision; what is offered is the most promising sample;
\* the record says how it was found; and something is offered unless there is a reason.
THEOREM ResultsAlwaysDecide == ProcessPredicts => (Spec => []ResultsDecide)
<1> SUFFICES ASSUME ProcessPredicts PROVE Spec => []ResultsDecide
  OBVIOUS
<1>1. RankingInv /\ IncumbentInv => ResultsDecide
  BY ResultsFollow
<1>2. Init => RankingInv /\ IncumbentInv
  BY RankingStarts, IncumbentStarts DEF Init
<1>3. RankingInv /\ IncumbentInv /\ [RankingNext]_rankingVars => (RankingInv /\ IncumbentInv)'
  BY RankingSteps, IncumbentSteps
<1> QED
  BY <1>1, <1>2, <1>3, RankingRuns, PTL DEF Spec

=============================================================================
