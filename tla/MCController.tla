---------------------------- MODULE MCController ----------------------------
(* Values for the constants of Controller. *)
EXTENDS Controller

MCSubmissions == {[status |-> "ok", loss |-> 1], [status |-> "ok", loss |-> 2]}
MCOneSubmission == {[status |-> "ok", loss |-> 1]}
EvaluationCommands == {"suggest", "ingest"}
WorkerCommands == {"suggest", "ingest", "cancel", "retire", "heartbeat"}
ResetCommands == {"suggest", "ingest", "import", "reset"}
=============================================================================
