---------------------------- MODULE CentroidingRun ----------------------------
(***************************************************************************)
(* One run of the program run_centroiding over an image sequence: load the *)
(* model, take every frame through its stages, append its record, publish  *)
(* the complete report; on an exception, publish an incomplete report with *)
(* the error and rethrow it to choose the exit status.                     *)
(*                                                                         *)
(* The report object is InferenceReport's, driven here by its real caller; *)
(* every stage and every file operation may fail.                          *)
(***************************************************************************)
EXTENDS Integers, Sequences, RunPromise

CONSTANTS Payloads,   \* as in InferenceReport
          NoError,
          MaxFrames,  \* bound of the model: frames of one sequence
          BadNames    \* indices of frames whose file name is not valid UTF-8

ASSUME BadNamesAssumption == BadNames \subseteq Nat
ASSUME FramesAssumption == MaxFrames \in Nat

VARIABLES spool, tmp, predictions, state, committed, pc, call, outcome, accepted

VARIABLES
    job,     \* what the command line and SelectFrames ask for
    at,      \* control point of main
    stage,   \* the variable stage of main
    index,   \* the variable index of main
    cause,   \* the exception on its way out: "none", "invalid_argument" or "other"
    exit     \* exit status, or "running"

driver == <<job, at, stage, index, cause, exit>>

FrameStages == {"decode", "preprocessing", "inference", "decoding_output", "overlay", "report"}
Stages      == FrameStages \cup {"model_load"}
NullIndex   == -1

Failures == [stage : Stages, frame : NullIndex..(MaxFrames - 1)]

Report == INSTANCE InferenceReport WITH Errors <- Failures

report == <<spool, tmp, predictions, state, committed, pc, call, outcome, accepted>>
vars   == <<report, driver>>

Init ==
    /\ Report!Init
    /\ job \in {j \in [reporting : BOOLEAN, overlays : BOOLEAN, count : 1..MaxFrames] :
                    j.overlays => j.reporting}
    /\ at = "start"
    /\ stage = "model_load"
    /\ index = job.count
    /\ cause = "none"
    /\ exit = "running"

(* invalid_argument is the user's mistake, every other exception a failure of the run. *)
ExitStatus(exception) == IF exception = "invalid_argument" THEN "1" ELSE "2"

Leave(status) ==
    /\ at' = "done"
    /\ exit' = status
    /\ UNCHANGED <<job, stage, index, cause>>

(* An exception inside the inner try block reaches its handler. *)
Throw(exception) ==
    /\ at' = "handler"
    /\ cause' = exception
    /\ UNCHANGED <<job, stage, index, exit>>

Exceptions == {"invalid_argument", "other"}

-----------------------------------------------------------------------------
(* Arguments, frame selection, PrepareOutput and the report's constructor;   *)
(* an exception here meets no report.  A command line that asks for help or  *)
(* the version (TCLAP::ExitException) is not a run.                          *)
StartFails(exception) ==
    /\ at = "start"
    /\ Leave(ExitStatus(exception))
    /\ UNCHANGED report

Start ==
    /\ at = "start"
    /\ IF job.reporting
       THEN Report!Construct /\ at' = "constructing"
       ELSE UNCHANGED report /\ at' = "load"
    /\ UNCHANGED <<job, stage, index, cause, exit>>

StartReportFails(created, exception) ==
    /\ at = "start"
    /\ job.reporting
    /\ Report!ConstructFails(created, exception)
    /\ Leave(ExitStatus(exception))

(* The report finishes the call main is waiting in. *)
ReportStep ==
    /\ at \in {"constructing", "completing", "failing"}
    /\ Report!PublishStep
    /\ UNCHANGED driver

Constructed ==
    /\ at = "constructing"
    /\ \/ pc = "idle" /\ at' = "load" /\ UNCHANGED <<job, stage, index, cause, exit>>
       \/ pc = "absent" /\ Leave(ExitStatus("other"))
    /\ UNCHANGED report

-----------------------------------------------------------------------------
(* Load the model and check its contract; the report's metadata follows. *)
LoadModel ==
    /\ at = "load"
    /\ \/ /\ at' = IF job.overlays THEN "overlay_directory" ELSE "loop"
          /\ index' = IF job.overlays THEN index ELSE 0
          /\ UNCHANGED <<job, stage, cause, exit>>
       \/ \E exception \in Exceptions : Throw(exception)
    /\ UNCHANGED report

CreateOverlayDirectory ==
    /\ at = "overlay_directory"
    /\ \/ at' = "loop" /\ index' = 0 /\ UNCHANGED <<job, stage, cause, exit>>
       \/ Throw("other")
    /\ UNCHANGED report

NextStage ==
    CASE stage = "decode"          -> "preprocessing"
      [] stage = "preprocessing"   -> "inference"
      [] stage = "inference"       -> "decoding_output"
      [] stage = "decoding_output" -> IF job.overlays THEN "overlay" ELSE "report"
      [] stage = "overlay"         -> "report"

NextFrame ==
    /\ at = "loop"
    /\ index < job.count
    /\ at' = "frame"
    /\ stage' = "decode"
    /\ UNCHANGED <<job, index, cause, exit>>
    /\ UNCHANGED report

(* Mutant: a frame that cannot be decoded is skipped. *)
FrameStepSkipping ==
    /\ at = "frame"
    /\ stage # "report"
    /\ \/ stage' = NextStage /\ UNCHANGED <<job, at, index, cause, exit>>
       \/ /\ stage = "decode"
          /\ index' = index + 1
          /\ at' = "loop"
          /\ UNCHANGED <<job, stage, cause, exit>>
    /\ UNCHANGED report

(* Decoding, preprocessing, inference, output decoding and the overlay. *)
FrameStep ==
    /\ at = "frame"
    /\ stage # "report"
    /\ \/ stage' = NextStage /\ UNCHANGED <<job, at, index, cause, exit>>
       \/ \E exception \in Exceptions : Throw(exception)
    /\ UNCHANGED report

FrameDone ==
    /\ index' = index + 1
    /\ at' = "loop"
    /\ UNCHANGED <<job, stage, cause, exit>>

(* Mutant: a frame whose record was not written is passed over. *)
AppendFrameIgnoringErrors ==
    /\ at = "frame"
    /\ stage = "report"
    /\ job.reporting
    /\ \/ \E payload \in Payloads : Report!AppendCommits(payload)
       \/ \E payload \in Payloads : Report!AppendFails(payload, "nothing")
    /\ FrameDone

(* The frame's record; without a report the frame is simply done. *)
AppendFrame ==
    /\ at = "frame"
    /\ stage = "report"
    /\ \/ ~job.reporting /\ UNCHANGED report /\ FrameDone
       \/ /\ job.reporting
          /\ \/ /\ index = committed
                /\ index \notin BadNames
                /\ \E payload \in Payloads : Report!AppendCommits(payload)
                /\ FrameDone
             \/ Report!AppendInvalid /\ Throw("invalid_argument")
             \/ \E payload \in Payloads, reached \in {"nothing", "torn", "whole"} :
                    Report!AppendFails(payload, reached) /\ Throw("other")

(* After the last frame: the complete report, or nothing left to do. *)
Complete ==
    /\ at = "loop"
    /\ index = job.count
    /\ \/ ~job.reporting /\ UNCHANGED report /\ Leave("0")
       \/ /\ job.reporting
          /\ Report!BeginPublish(TRUE, NoError)
          /\ at' = "completing"
          /\ UNCHANGED <<job, stage, index, cause, exit>>
       \/ job.reporting /\ Report!PublishInvalid(TRUE) /\ Throw("invalid_argument")

(* Mutant: the outcome of the last publication is ignored. *)
CompletedAnyway ==
    /\ at = "completing"
    /\ pc = "idle"
    /\ Leave("0")
    /\ UNCHANGED report

Completed ==
    /\ at = "completing"
    /\ pc = "idle"
    /\ IF outcome = "ok" THEN Leave("0") ELSE Throw("other")
    /\ UNCHANGED report

-----------------------------------------------------------------------------
FrameFailed == stage # "model_load" /\ index < job.count

Failure == [stage |-> stage, frame |-> IF FrameFailed THEN index ELSE NullIndex]

(* Mutant: only a failed frame is published. *)
HandleFramesOnly ==
    /\ at = "handler"
    /\ IF job.reporting /\ FrameFailed
       THEN /\ Report!BeginPublish(FALSE, Failure)
            /\ at' = "failing"
            /\ UNCHANGED <<job, stage, index, cause, exit>>
       ELSE UNCHANGED report /\ Leave(ExitStatus(cause))

(* The handler publishes the failure; a failure that names a file the JSON   *)
(* writer rejects, or that meets unserializable metadata, is only logged.    *)
Handle ==
    /\ at = "handler"
    /\ \/ ~job.reporting /\ UNCHANGED report /\ Leave(ExitStatus(cause))
       \/ /\ job.reporting
          /\ ~(FrameFailed /\ index \in BadNames)
          /\ Report!BeginPublish(FALSE, Failure)
          /\ at' = "failing"
          /\ UNCHANGED <<job, stage, index, cause, exit>>
       \/ job.reporting /\ Report!PublishInvalid(FALSE) /\ Leave(ExitStatus(cause))

(* Mutant: a failed publication is tried again. *)
RethrowRetrying ==
    /\ at = "failing"
    /\ pc = "idle"
    /\ \/ outcome = "ok" /\ Leave(ExitStatus(cause))
       \/ outcome # "ok" /\ at' = "handler" /\ UNCHANGED <<job, stage, index, cause, exit>>
    /\ UNCHANGED report

Rethrow ==
    /\ at = "failing"
    /\ pc = "idle"
    /\ Leave(ExitStatus(cause))
    /\ UNCHANGED report

Next ==
    \/ \E exception \in Exceptions : StartFails(exception)
    \/ Start
    \/ \E created \in BOOLEAN, exception \in {"io_error", "invalid_argument"} :
           StartReportFails(created, exception)
    \/ ReportStep
    \/ Constructed
    \/ LoadModel
    \/ CreateOverlayDirectory
    \/ NextFrame
    \/ FrameStep
    \/ AppendFrame
    \/ Complete
    \/ Completed
    \/ Handle
    \/ Rethrow

(* One thread runs main to its end: a step that can be taken is taken. *)
Spec == Init /\ [][Next]_vars /\ WF_vars(Next)

-----------------------------------------------------------------------------
(* main: status 0 with --output means that predictions.json says "complete"  *)
(* and lists every selected frame; any other status means it does not say so.*)
(* This is what run_image_evaluation.sh relies on.                           *)
ExitAgreesWithReport ==
    job.reporting =>
        RunKeepsPromise(exit, predictions.status, Len(predictions.frames), job.count)

(* The failure handler of main and README ("publication retains completed    *)
(* frame records with error stage, frame index/source, and message"): the    *)
(* frame an error names is the first one the report does not list; an error  *)
(* that names none came before the first frame or after the last.            *)
ErrorNamesFirstMissingFrame ==
    predictions.error # NoError =>
        \/ predictions.error.frame = Len(predictions.frames)
        \/ /\ predictions.error.frame = NullIndex
           /\ \/ predictions.error.stage = "model_load" /\ predictions.frames = <<>>
              \/ predictions.error.stage = "report" /\ Len(predictions.frames) = job.count

(* A run that fails after its report exists either published its error, or   *)
(* the publication failed too and the spool still has every accepted frame   *)
(* beside the earlier incomplete report.                                     *)
FailureIsOnDisk ==
    exit \in {"1", "2"} /\ pc # "absent" =>
        \/ predictions.error = Failure /\ Len(predictions.frames) = Len(accepted)
        \/ /\ outcome # "ok"
           /\ predictions.status = "incomplete"
           /\ Len(spool.lines) >= Len(accepted)

(* main never makes a call that the report's state forbids: every frame it   *)
(* appends is the next one of a report still open, and neither the complete  *)
(* report nor the failure is published after a complete report or, for the   *)
(* former, after a failed append.                                            *)
ReportIsNotMisused ==
    job.reporting =>
        /\ at = "frame" /\ stage = "report" => state = "active" /\ index = committed
        /\ at = "loop" /\ index = job.count => ~Report!PublishForbidden(TRUE)
        /\ at = "handler" => ~Report!PublishForbidden(FALSE)

(* Whatever fails, the run ends with an exit status. *)
RunEnds == <>(exit # "running")

=============================================================================
