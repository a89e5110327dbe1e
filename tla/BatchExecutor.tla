---------------------------- MODULE BatchExecutor ----------------------------
(***************************************************************************)
(* Evaluations on AWS Batch: aws_executor.py as run_one_eval.py calls it   *)
(* for a starter-kit worker (starterkit_queue_worker.py), which then       *)
(* ingests the result.  A worker may die anywhere and be started again on  *)
(* its suggestion; the local recovery record lets the new evaluation take  *)
(* up the old one's job.  Record, S3 keys and job are named after the      *)
(* trial id, and ids start again after a reset.                            *)
(*                                                                         *)
(* AWS itself is external: a job reads its input when it starts and ends   *)
(* on its own; any call to AWS may fail, and a submission may have been    *)
(* taken although the call failed.                                         *)
(***************************************************************************)
EXTENDS Naturals, Sequences, FiniteSetsExt

CONSTANTS
  Suggestions,  \* allocations of the campaign, each with its worker
  IdOf,         \* the trial id of each: a positive number
  MaxWait,      \* max_wait_seconds
  Courses       \* bounds: [made, deaths, faults, resets], one for a behaviour

Ids == {IdOf[s] : s \in Suggestions}
NoResult == [status |-> "none", of |-> "none"]
NoRecord == [job |-> 0, status |-> "none", result |-> NoResult]

\* A canonical result: how the trial ended and, if it did well, whose
\* parameters the value was computed from.
Failures == {[status |-> st, of |-> "none"] : st \in {"failed", "killed", "timeout"}}
Values == {[status |-> "ok", of |-> s] : s \in Suggestions}
\* What run_one_eval writes when the executor raises: no record has it.
Raised == [status |-> "failed", of |-> "exception"]

ASSUME BatchAssumption ==
  /\ IdOf \in [Suggestions -> Nat \ {0}]
  /\ MaxWait \in Nat
  /\ Courses \subseteq [made : SUBSET Suggestions, deaths : Nat, faults : Nat, resets : Nat]

VARIABLES
  course,    \* the bounds of this behaviour
  current,   \* the campaign's pending suggestion of each trial id
  told,      \* the result the campaign accepted for each suggestion
  record,    \* recovery_record.json of each trial id
  input,     \* S3: whose parameters the input key of each id holds
  output,    \* S3: what the output key of each id holds
  jobs,      \* the Batch jobs, in the order of their submission
  waited,    \* time since the submission that each job's record gives, up to
             \* MaxWait + 1, which is also what a job without a record has
  pc, mine,  \* each worker's place, and its copy of the record
  result,    \* the result its evaluation ended with
  returned,  \* history: results evaluate_via_batch has returned
  lost,      \* history: submissions whose record was never saved
  used,      \* history: suggestions made
  faults, deaths, resets

aws == <<input, output, jobs>>
campaign == <<course, current, told, used, resets>>
history == <<returned, lost>>
counters == <<waited, faults, deaths>>
batchVars == <<course, current, told, record, input, output, jobs, waited, pc, mine,
               result, returned, lost, used, faults, deaths, resets>>

Job == [of : Suggestions, reads : Suggestions \cup {"none"},
        state : {"queued", "running", "succeeded", "failed"}]
Record == [job : 0..Len(jobs),
           status : {"none", "submitted", "running", "succeeded", "failed", "killed", "timeout"},
           result : {NoResult} \cup Failures \cup Values]

BatchTypeOK ==
  /\ course \in Courses
  /\ current \in [Ids -> Suggestions \cup {"none"}]
  /\ told \in [Suggestions -> {NoResult, Raised} \cup Failures \cup Values]
  /\ record \in [Ids -> Record] /\ mine \in [Suggestions -> Record]
  /\ input \in [Ids -> Suggestions \cup {"none"}]
  /\ output \in [Ids -> {NoResult} \cup Values]
  /\ \A n \in DOMAIN jobs : jobs[n] \in Job
  /\ pc \in [Suggestions -> {"idle", "start", "upload", "submit", "save", "poll",
                             "download", "report", "done", "dead"}]
  /\ waited \in [DOMAIN jobs -> 0..MaxWait + 1] /\ resets \in 0..course.resets

BatchInit ==
  /\ course \in Courses
  /\ current = [i \in Ids |-> "none"] /\ used = {}
  /\ told = [s \in Suggestions |-> NoResult]
  /\ record = [i \in Ids |-> NoRecord]
  /\ input = [i \in Ids |-> "none"] /\ output = [i \in Ids |-> NoResult]
  /\ jobs = <<>>
  /\ pc = [s \in Suggestions |-> "idle"]
  /\ mine = [s \in Suggestions |-> NoRecord]
  /\ result = [s \in Suggestions |-> NoResult]
  /\ returned = [s \in Suggestions |-> {}] /\ lost = [s \in Suggestions |-> 0]
  /\ waited = <<>> /\ faults = 0 /\ deaths = 0 /\ resets = 0

At(s, from, to) == pc[s] = from /\ pc' = [pc EXCEPT ![s] = to]

-----------------------------------------------------------------------------
(* The campaign, by what its commands promise (module Controller). *)

\* After a reset ids start again: the suggestion of an id is the next unused one.
Suggest(s) ==
  /\ s \in course.made \ used /\ current[IdOf[s]] = "none"
  /\ used' = used \cup {s}
  /\ current' = [current EXCEPT ![IdOf[s]] = s]
  /\ UNCHANGED <<course, told, resets, aws, record, pc, mine, result, history, counters>>

\* The files of the workers and AWS are not the campaign's: they stay.
Reset ==
  /\ resets < course.resets /\ resets' = resets + 1
  /\ current' = [i \in Ids |-> "none"]
  /\ UNCHANGED <<course, told, used, aws, record, pc, mine, result, history, counters>>

\* execute_worker_plan's last step.  The first result of a pending suggestion
\* is accepted; the same result again changes nothing; another one is refused,
\* and so is one for a suggestion that a reset has taken away.
Ingest(s) ==
  /\ told' = [told EXCEPT ![s] =
       IF current[IdOf[s]] = s /\ told[s] = NoResult THEN result[s] ELSE told[s]]
  /\ At(s, "report", IF told'[s] = result[s] THEN "done" ELSE "dead")
  /\ result' = [result EXCEPT ![s] = NoResult] /\ mine' = [mine EXCEPT ![s] = NoRecord]
  /\ UNCHANGED <<course, current, used, resets, aws, record, history, counters>>

-----------------------------------------------------------------------------
(* One evaluation of suggestion s. *)

Ours == UNCHANGED <<campaign, lost, faults, deaths>>

\* The scheduler starts the worker, or starts it again.
StartWorker(s) ==
  /\ s \in used /\ pc[s] \in {"idle", "dead"}
  /\ pc' = [pc EXCEPT ![s] = "start"]
  /\ UNCHANGED <<campaign, aws, record, mine, result, history, counters>>

Return(s, x) ==
  /\ result' = [result EXCEPT ![s] = x]
  /\ returned' = [returned EXCEPT ![s] = @ \cup {x}]
Keep == UNCHANGED <<result, returned>>

\* Mutation: only a finished record is taken up.
Resumes_Finished(r) == IF r.result # NoResult THEN "report" ELSE "upload"
\* Where an evaluation goes on from the record it finds.
Resumes(r) ==
  IF r.result # NoResult THEN "report"
  ELSE IF r.status = "none" THEN "upload"
  ELSE IF r.status = "succeeded" THEN "download" ELSE "poll"

LoadRecord(s) ==
  LET r == record[IdOf[s]] IN
  /\ At(s, "start", Resumes(r))
  /\ mine' = [mine EXCEPT ![s] = r]
  /\ IF r.result # NoResult THEN Return(s, r.result) ELSE Keep
  /\ UNCHANGED <<aws, waited, record>> /\ Ours

UploadInput(s) ==
  /\ At(s, "upload", "submit")
  /\ input' = [input EXCEPT ![IdOf[s]] = s]
  /\ UNCHANGED <<output, jobs, waited, record, mine>> /\ Keep /\ Ours

\* submit_job
Submitted(s) ==
  /\ jobs' = Append(jobs, [of |-> s, reads |-> "none", state |-> "queued"])
  /\ waited' = Append(waited, MaxWait + 1)

\* The job's number is all the worker has of it until the record is saved.
SubmitJob(s) ==
  /\ At(s, "submit", "save")
  /\ Submitted(s)
  /\ mine' = [mine EXCEPT ![s] = [NoRecord EXCEPT !.job = Len(jobs) + 1]]
  /\ UNCHANGED <<input, output, record>> /\ Keep /\ Ours

\* _save_recovery_record: whatever the worker holds replaces the file.
Save(s, r) ==
  /\ mine' = [mine EXCEPT ![s] = r]
  /\ record' = [record EXCEPT ![IdOf[s]] = r]

SaveRecord(s) ==
  /\ At(s, "save", "poll")
  /\ Save(s, [mine[s] EXCEPT !.status = "submitted"])
  /\ waited' = [waited EXCEPT ![mine[s].job] = 0]
  /\ UNCHANGED aws /\ Keep /\ Ours

\* Mutation: the result is handed over and not put in the record.
Finalize_Unsaved(s, x) ==
  /\ Save(s, [mine[s] EXCEPT !.status = IF x.status = "ok" THEN "succeeded" ELSE x.status])
  /\ Return(s, x)
\* _finalize_record
Finalize(s, x) ==
  /\ Save(s, [mine[s] EXCEPT !.status = IF x.status = "ok" THEN "succeeded" ELSE x.status,
                             !.result = x])
  /\ Return(s, x)

Overdue(s) == waited[mine[s].job] > MaxWait
JobOf(s) == jobs[mine[s].job]

\* Mutation: the wait has no end.
PollTimesOut_Never(s) == FALSE /\ UNCHANGED batchVars
\* The deadline counts from the submission and is looked at first: a worker
\* that resumes late reports a timeout whatever became of the job.
PollTimesOut(s) ==
  /\ At(s, "poll", "report") /\ Overdue(s)
  /\ Finalize(s, [status |-> "timeout", of |-> "none"])
  /\ UNCHANGED <<aws, waited>> /\ Ours

\* _map_failed_job tells a failure from a kill by the reason's wording.
PollFindsEnd(s) ==
  /\ pc[s] = "poll" /\ ~Overdue(s)
  /\ \/ /\ JobOf(s).state = "succeeded" /\ At(s, "poll", "download")
        /\ Save(s, [mine[s] EXCEPT !.status = "succeeded"]) /\ Keep
     \/ /\ JobOf(s).state = "failed" /\ At(s, "poll", "report")
        /\ \E st \in {"failed", "killed"} : Finalize(s, [status |-> st, of |-> "none"])
  /\ UNCHANGED <<aws, waited>> /\ Ours

\* Save "running" and sleep.
PollAgain(s) ==
  /\ pc[s] = "poll" /\ ~Overdue(s) /\ JobOf(s).state \in {"queued", "running"}
  /\ mine[s].status # "running"      \* the same record again changes nothing
  /\ Save(s, [mine[s] EXCEPT !.status = "running"])
  /\ UNCHANGED <<aws, waited, pc>> /\ Keep /\ Ours

\* Any failure to fetch the result is final.
Download(s) ==
  /\ At(s, "download", "report")
  /\ \/ output[IdOf[s]] # NoResult /\ Finalize(s, output[IdOf[s]]) /\ UNCHANGED faults
     \/ /\ \/ output[IdOf[s]] = NoResult /\ UNCHANGED faults
           \/ faults < course.faults /\ faults' = faults + 1
        /\ Finalize(s, [status |-> "failed", of |-> "none"])
  /\ UNCHANGED <<aws, campaign, lost, deaths, waited>>

\* Mutation: the failed payload goes into the record as well.
AwsFails_Recorded(s) ==
  /\ faults < course.faults /\ faults' = faults + 1
  /\ \E from \in {"upload", "submit", "poll"} : At(s, from, "report")
  /\ result' = [result EXCEPT ![s] = Raised]
  /\ record' = [record EXCEPT ![IdOf[s]].result = Raised]
  /\ UNCHANGED <<campaign, aws, mine, returned, lost, waited, deaths>>
\* A call to AWS raises and run_one_eval writes a failed payload instead.  A
\* submission that raises may have been taken.
AwsFails(s) ==
  /\ faults < course.faults /\ faults' = faults + 1
  /\ \E from \in {"upload", "submit", "poll"} : At(s, from, "report")
  /\ result' = [result EXCEPT ![s] = Raised]
  /\ \/ UNCHANGED <<jobs, waited, lost>>
     \/ /\ pc[s] = "submit" /\ Submitted(s)
        /\ lost' = [lost EXCEPT ![s] = @ + 1]
  /\ UNCHANGED <<campaign, input, output, record, mine, returned, deaths>>

WorkerDies(s) ==
  /\ deaths < course.deaths /\ deaths' = deaths + 1
  /\ pc[s] \notin {"idle", "done", "dead"}
  /\ pc' = [pc EXCEPT ![s] = "dead"]
  /\ lost' = IF pc[s] = "save" THEN [lost EXCEPT ![s] = @ + 1] ELSE lost
  /\ result' = [result EXCEPT ![s] = NoResult] /\ mine' = [mine EXCEPT ![s] = NoRecord]
  /\ UNCHANGED <<campaign, aws, record, returned, waited, faults>>

-----------------------------------------------------------------------------
(* Batch and S3. *)

JobStarts(n) ==
  /\ jobs[n].state = "queued"
  /\ jobs' = [jobs EXCEPT ![n].state = "running", ![n].reads = input[IdOf[jobs[n].of]]]
  /\ UNCHANGED <<campaign, input, output, record, pc, mine, result, history, counters>>

\* However it ends, it has left a value in S3 or nothing a worker can read.
JobEnds(n) ==
  LET id == IdOf[jobs[n].of] IN
  /\ jobs[n].state = "running"
  /\ \E how \in {"succeeded", "failed"} :
       jobs' = [jobs EXCEPT ![n].state = how]
  /\ \/ output' = [output EXCEPT ![id] = [status |-> "ok", of |-> jobs[n].reads]]
     \/ UNCHANGED output
  /\ UNCHANGED <<campaign, input, record, pc, mine, result, history, counters>>

Tick ==
  /\ waited' = [n \in DOMAIN waited |-> IF waited[n] > MaxWait THEN waited[n] ELSE waited[n] + 1]
  /\ UNCHANGED <<campaign, aws, record, pc, mine, result, history, faults, deaths>>

Evaluate(s) ==
  \/ LoadRecord(s) \/ UploadInput(s) \/ SubmitJob(s) \/ SaveRecord(s)
  \/ PollTimesOut(s) \/ PollFindsEnd(s) \/ Download(s) \/ Ingest(s)

BatchNext ==
  \/ \E s \in Suggestions :
       Suggest(s) \/ StartWorker(s) \/ Evaluate(s) \/ PollAgain(s) \/ AwsFails(s) \/ WorkerDies(s)
  \/ \E n \in DOMAIN jobs : JobStarts(n) \/ JobEnds(n)
  \/ Reset \/ Tick

-----------------------------------------------------------------------------
\* The record is worth a job: however often a worker is started again, it
\* submits a second job only if an earlier submission was cut off before its
\* record was saved.
JobsAreResumed == \A s \in Suggestions :
  Cardinality({n \in DOMAIN jobs : jobs[n].of = s}) <= 1 + lost[s]

Shared(s) == \E q \in used \ {s} : IdOf[q] = IdOf[s]

\* A trial has one outcome.  Every evaluation of a suggestion returns the one
\* result its record keeps, computed from that suggestion's own parameters, and
\* the campaign has accepted that or what run_one_eval makes of an exception:
\* as long as no other suggestion was given the same trial id.
ResultStands == \A s \in Suggestions : ~Shared(s) =>
  /\ returned[s] \subseteq {record[IdOf[s]].result}
  /\ \A x \in returned[s] \cap Values : x.of = s
  /\ told[s] \in {NoResult, Raised, record[IdOf[s]].result}

\* An evaluation under way ends: with a result, or with its worker's death.
EvaluationEnds == \A s \in Suggestions :
  pc[s] \in {"start", "upload", "submit", "save", "poll", "download"}
    ~> pc[s] \in {"report", "done", "dead"}
=============================================================================
