------------------------------ MODULE EventFeed ------------------------------
(***************************************************************************)
(* The campaign's event log and a sidecar that delivers its events:        *)
(* runtime.py's append_jsonl, starterkit_events.py, and the consumer loop  *)
(* that docs/integration-starter-kit.md prescribes, which is external:     *)
(* load the cursor, consume, deliver, save the cursor.                     *)
(*                                                                         *)
(* The log is a sequence of fragments: a line is the beginning of an       *)
(* event's JSON, the rest of it and a newline.  The writer holds the       *)
(* campaign's lock but the consumer takes none, so it may read a line that *)
(* is being written; and a writer that dies leaves a line as it is, which  *)
(* the next append continues.                                              *)
(***************************************************************************)
EXTENDS Naturals, Sequences, FiniteSetsExt, SequencesExt

CONSTANTS MaxEvents, MaxTears, MaxFailures, MaxLogResets   \* bounds

Parts == <<"begin", "rest", "newline">>
At0 == [whole |-> TRUE, line |-> 0, offset |-> 0]
Torn == [At0 EXCEPT !.whole = FALSE]

ASSUME FeedAssumption == {MaxEvents, MaxTears, MaxFailures, MaxLogResets} \subseteq Nat

VARIABLES
  log,        \* event_log.jsonl: fragments [event, part]
  writing,    \* how many fragments of the last event are written, 3 if all
  events,     \* the number of events so far
  era,        \* how often the log was removed
  cursor,     \* the cursor file: not whole if its write was cut off
  origin,     \* history: the era whose beginning the saved cursor counts from
  stage,      \* the consumer: idle, delivering or saving
  batch,      \* the events it has consumed and not yet delivered
  next,       \* the cursor it will save, and its origin
  delivered,  \* history: deliveries [event, id]
  twice,      \* history: events delivered again
  tears, failures, removed   \* history: dead writers, dead consumers, removed cursors

logVars == <<log, writing, events, era>>
feedVars == <<log, writing, events, era, cursor, origin, stage, batch, next, delivered,
              twice, tears, failures, removed>>

FeedTypeOK ==
  /\ \A i \in DOMAIN log : log[i].event \in 1..MaxEvents /\ log[i].part \in 1..3
  /\ writing \in 1..3 /\ events \in 0..MaxEvents /\ era \in 0..MaxLogResets
  /\ cursor \in [whole : BOOLEAN, line : Nat, offset : Nat]
  /\ stage \in {"idle", "delivering", "saving"}

FeedInit ==
  /\ log = <<>> /\ writing = 3 /\ events = 0 /\ era = 0
  /\ cursor = At0 /\ origin = 0
  /\ stage = "idle" /\ batch = <<>> /\ next = [cursor |-> At0, origin |-> 0]
  /\ delivered = {} /\ twice = 0 /\ tears = 0 /\ failures = 0 /\ removed = 0

-----------------------------------------------------------------------------
(* The writer: one command at a time, under the campaign's lock. *)

Reader == UNCHANGED <<cursor, origin, stage, batch, next, delivered, twice, failures, removed>>

Write(n) == log' = Append(log, [event |-> events', part |-> n]) /\ writing' = n

\* append_jsonl opens the file for appending and writes one line.
BeginEvent ==
  /\ writing = 3 /\ events < MaxEvents /\ events' = events + 1
  /\ Write(1)
  /\ UNCHANGED <<era, tears>> /\ Reader

WriteOn ==
  /\ writing < 3 /\ UNCHANGED events
  /\ Write(writing + 1)
  /\ UNCHANGED <<era, tears>> /\ Reader

WriterDies ==
  /\ writing < 3 /\ tears < MaxTears /\ tears' = tears + 1
  /\ writing' = 3
  /\ UNCHANGED <<log, events, era>> /\ Reader

\* Reset removes the log; a campaign_reset event starts the new one.
ResetLog ==
  /\ writing = 3 /\ era < MaxLogResets /\ era' = era + 1
  /\ log' = <<>>
  /\ UNCHANGED <<writing, events, tears>> /\ Reader

-----------------------------------------------------------------------------
(* consume_starter_events, on what the log holds when it is read. *)

\* readline: the lines start at the offset and after each newline.
LineStarts(from) == {i \in from + 1..Len(log) : i = from + 1 \/ log[i - 1].part = 3}
LineEnd(i) == LET ends == {j \in i..Len(log) : log[j].part = 3} IN
  IF ends = {} THEN Len(log) ELSE Min(ends)
Lines(from) == {[at |-> i, to |-> LineEnd(i)] : i \in LineStarts(from)}

\* The line's text without the newline; json.loads takes one whole value.
Text(line) == SubSeq(log, line.at, line.to - (IF log[line.to].part = 3 THEN 1 ELSE 0))
Blank(line) == Text(line) = <<>>

\* Mutation: a line that does not parse is passed over.
Parses_Skip(line) == TRUE
Parses(line) ==
  LET t == Text(line) IN
  Len(t) = 2 /\ t[1].part = 1 /\ t[2].part = 2 /\ t[1].event = t[2].event

\* The number of the line that position i of the log is in.
LineNumber(from, i) == from.line + Cardinality({k \in LineStarts(from.offset) : k <= i})

\* normalize_starter_event: the id is made of the line number and the event.
EventAt(from, line) ==
  [event |-> Text(line)[1].event, id |-> <<LineNumber(from, line.at), Text(line)[1].event>>]
Good(from) == {l \in Lines(from.offset) : Len(Text(l)) = 2}
EventsFrom(from) ==
  LET good == Good(from) IN
  [n \in 1..Cardinality(good) |->
     EventAt(from, CHOOSE l \in good : Cardinality({k \in good : k.at <= l.at}) = n)]

Readable(from) ==
  /\ from.whole
  /\ from.offset <= Len(log)
  /\ \A l \in Lines(from.offset) : Blank(l) \/ Parses(l)

After(from) ==
  [whole |-> TRUE, line |-> LineNumber(from, Len(log)), offset |-> Len(log)]

\* An unreadable cursor or line, and a log shorter than the cursor, raise: the
\* consumer does nothing.
Consume ==
  /\ stage = "idle" /\ Readable(cursor)
  /\ batch' = EventsFrom(cursor)
  /\ next' = [cursor |-> After(cursor), origin |-> IF cursor = At0 THEN era ELSE origin]
  /\ next'.cursor # cursor        \* nothing new: nothing to do
  /\ stage' = IF batch' = <<>> THEN "saving" ELSE "delivering"
  /\ UNCHANGED <<logVars, cursor, origin, delivered, twice, tears, failures, removed>>

-----------------------------------------------------------------------------
(* The consumer. *)

Writer == UNCHANGED <<logVars, tears>>

Deliver ==
  LET x == Head(batch) IN
  /\ stage = "delivering"
  /\ delivered' = delivered \cup {[event |-> x.event, id |-> x.id]}
  /\ twice' = IF \E d \in delivered : d.event = x.event THEN twice + 1 ELSE twice
  /\ batch' = Tail(batch)
  /\ stage' = IF batch' = <<>> THEN "saving" ELSE "delivering"
  /\ UNCHANGED <<cursor, origin, next, failures, removed>> /\ Writer

\* The sidecar saves the cursor once everything it consumed is delivered.
SaveCursor ==
  /\ stage = "saving" /\ stage' = "idle"
  /\ cursor' = next.cursor /\ origin' = next.origin
  /\ UNCHANGED <<batch, next, delivered, twice, failures, removed>> /\ Writer

\* The consumer dies and is started again.  save_event_log_cursor writes the
\* file in place: its own write may be what is cut off.
ConsumerDies ==
  /\ stage # "idle" /\ failures < MaxFailures /\ failures' = failures + 1
  /\ stage' = "idle" /\ batch' = <<>>
  /\ cursor' \in {cursor} \cup (IF stage = "saving" THEN {Torn} ELSE {})
  /\ UNCHANGED <<origin, next, delivered, twice, removed>> /\ Writer

\* The operator removes a cursor file the consumer cannot go on from.
RemoveCursor ==
  /\ stage = "idle"
  /\ ~cursor.whole \/ cursor.offset > Len(log)
  /\ removed < MaxFailures /\ removed' = removed + 1
  /\ cursor' = At0 /\ origin' = era
  /\ UNCHANGED <<stage, batch, next, delivered, twice, failures>> /\ Writer

FeedNext ==
  \/ BeginEvent \/ WriteOn \/ WriterDies \/ ResetLog
  \/ Consume \/ Deliver \/ SaveCursor \/ ConsumerDies \/ RemoveCursor

-----------------------------------------------------------------------------
\* Behind a saved cursor that counts from the beginning of this log, nothing is
\* missing: every event of the log's part
\* before it was delivered, the ones of torn or joined lines included, which
\* hold the feed up rather than being passed over.
NothingSkipped ==
  cursor.whole /\ origin = era =>
    \A i \in 1..cursor.offset : \E d \in delivered : d.event = log[i].event

\* An event is delivered again only after the consumer died or its cursor was
\* removed, and then under the same id unless the cursor was removed: the ids
\* tell a downstream service what it has seen.
RepeatsAreRecognised ==
  /\ twice > 0 => failures + removed > 0
  /\ removed = 0 => \A d, e \in delivered :
       d.event = e.event => d.id = e.id

\* At least once, in the order of the log, under ids that tell repeats.
DeliveryHolds == NothingSkipped /\ RepeatsAreRecognised
=============================================================================
