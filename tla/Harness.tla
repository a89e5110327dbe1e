------------------------------- MODULE Harness -------------------------------
(***************************************************************************)
(* The client harness: workers that evaluate on AWS Batch (BatchExecutor)  *)
(* and the sidecar that delivers the campaign's events (EventFeed).  They  *)
(* share nothing but the campaign, so a behaviour is one of the two.       *)
(***************************************************************************)
EXTENDS BatchExecutor, EventFeed

VARIABLE part    \* the part of the harness that runs

TypeOK == part \in {"batch", "feed"} /\ BatchTypeOK /\ FeedTypeOK

Init == part \in {"batch", "feed"} /\ BatchInit /\ FeedInit

BatchStep(A) == part = "batch" /\ A /\ UNCHANGED <<part, feedVars>>
FeedStep(A) == part = "feed" /\ A /\ UNCHANGED <<part, batchVars>>

Next == BatchStep(BatchNext) \/ FeedStep(FeedNext)

Spec == Init /\ [][Next]_<<part, batchVars, feedVars>>

\* A worker that runs goes on, and time passes.  Nothing is asked of AWS.
FairSpec ==
  /\ Spec /\ WF_<<part, batchVars, feedVars>>(BatchStep(Tick))
  /\ \A s \in Suggestions : WF_<<part, batchVars, feedVars>>(BatchStep(Evaluate(s)))
=============================================================================
