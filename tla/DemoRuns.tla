------------------------------- MODULE DemoRuns -------------------------------
(***************************************************************************)
(* The centroiding demos in Python and MATLAB, started with an output        *)
(* directory, possibly again and again with the same one.  Both keep the     *)
(* report format of run_centroiding, each with code of its own: Python       *)
(* publishes from the spool frames.jsonl, MATLAB from the records it holds   *)
(* in memory.                                                                *)
(*                                                                         *)
(* Every stage and file operation may fail, and a run may be ended between   *)
(* any two steps or in the middle of a write.  Loading the model, decoding   *)
(* and drawing are steps that succeed or throw.                              *)
(***************************************************************************)
EXTENDS Integers, Sequences, RunPromise

CONSTANTS DemoFrames   \* bound of the model: frames of one run

ASSUME DemoFramesAssumption == DemoFrames \in Nat

VARIABLES
  demo,          \* the run in progress: its program, overlays, number of frames
  demo_at,       \* its control point
  demo_stage,    \* stage, strStage
  demo_index,    \* index, iFrame - 1; NoIndex for None and NaN
  demo_failed,   \* the handler is running: an exception waits to be raised again
  demo_exit,     \* "running", "0", "1", or "ended" from outside
  owns,          \* this run found the directory empty
  recorded,      \* committed_frames; the length of stResult.frames
  memory,        \* stResult.frames (MATLAB)
  frames_jsonl,  \* the spool
  json_tmp,      \* predictions.json.tmp
  predictions_json,
  appended       \* history: the records whose append returned normally

demo_control == <<demo, demo_at, demo_stage, demo_index, demo_failed, demo_exit, owns>>
demo_records == <<recorded, memory>>
demo_files   == <<frames_jsonl, json_tmp, predictions_json>>
demo_vars    == <<demo_control, demo_records, demo_files, appended>>

NoIndex == -1
FrameRecord(index) == [index |-> index, payload |-> "record", whole |-> TRUE]

DemoStages == {"model_load", "output_directory", "preprocessing", "inference",
               "decoding_output", "overlay", "report"}
NoDemoError == [stage |-> "none", frame |-> NoIndex]

Absence  == [status |-> "absent", error |-> NoDemoError, frames |-> <<>>]
HalfJson == [status |-> "half", error |-> NoDemoError, frames |-> <<>>]
NoFrames == [present |-> FALSE, lines |-> <<>>]

DemoJobs == [program : {"python", "matlab"}, overlays : BOOLEAN, count : 1 .. DemoFrames]

DemoInit ==
  /\ demo \in DemoJobs
  /\ demo_at = "prepare" /\ demo_stage = "model_load" /\ demo_index = NoIndex
  /\ demo_failed = FALSE /\ demo_exit = "running" /\ owns = FALSE
  /\ recorded = 0 /\ memory = <<>>
  /\ frames_jsonl = NoFrames /\ json_tmp = Absence /\ predictions_json = Absence
  /\ appended = <<>>

-----------------------------------------------------------------------------
Go(point) == demo_at' = point
Quit(status) == demo_exit' = status /\ Go("over")

\* An exception inside the try block.
Raise == demo_failed' = TRUE /\ Go("write")

Proceed(point) == Go(point) /\ UNCHANGED <<demo, demo_stage, demo_index, demo_failed, demo_exit, owns>>

EmptyDirectory == ~frames_jsonl.present /\ json_tmp = Absence /\ predictions_json = Absence

\* prepare_output and PrepareOutput_: a new or empty directory, or none of it.
Prepare ==
  /\ demo_at = "prepare"
  /\ IF EmptyDirectory THEN owns' = TRUE /\ Go("spool") /\ UNCHANGED demo_exit
                       ELSE Quit("1") /\ UNCHANGED owns
  /\ UNCHANGED <<demo, demo_stage, demo_index, demo_failed, demo_records, demo_files, appended>>

\* Selecting the frames, or making the directory, fails.
PrepareFails ==
  /\ demo_at = "prepare"
  /\ Quit("1")
  /\ UNCHANGED <<demo, demo_stage, demo_index, demo_failed, owns, demo_records, demo_files, appended>>

\* Report.__init__ creates the spool; in MATLAB the first append does.
CreateSpool ==
  /\ demo_at = "spool"
  /\ frames_jsonl' = IF demo.program = "python" THEN [NoFrames EXCEPT !.present = TRUE]
                                                ELSE frames_jsonl
  /\ Proceed("write")
  /\ UNCHANGED <<demo_records, json_tmp, predictions_json, appended>>

CreateSpoolFails ==
  /\ demo_at = "spool" /\ demo.program = "python"
  /\ \E created \in BOOLEAN : frames_jsonl' = [NoFrames EXCEPT !.present = created]
  /\ Quit("1")
  /\ UNCHANGED <<demo, demo_stage, demo_index, demo_failed, owns, demo_records,
                 json_tmp, predictions_json, appended>>

-----------------------------------------------------------------------------
(* publish and PublishReport_: the first report, the complete one, and the   *)
(* one of the handler.                                                       *)
FirstReport == ~demo_failed /\ demo_stage = "model_load"
LastReport == ~demo_failed /\ demo_stage = "report"

\* Mutant: whatever stands in the spool is published.
ListedWholeSpool ==
  IF demo.program = "python" THEN frames_jsonl.lines ELSE memory

\* The frames of the next report.
Listed ==
  IF demo.program = "python" THEN SubSeq(frames_jsonl.lines, 1, recorded) ELSE memory

DemoDocument ==
  [status |-> IF LastReport THEN "complete" ELSE "incomplete",
   error  |-> IF demo_failed THEN [stage |-> demo_stage, frame |-> demo_index] ELSE NoDemoError,
   frames |-> Listed]

WriteReport ==
  /\ demo_at = "write"
  /\ json_tmp' = DemoDocument
  /\ Proceed("replace")
  /\ UNCHANGED <<demo_records, frames_jsonl, predictions_json, appended>>

\* Mutant: the spool goes with any published report.
ReplaceReportClosing ==
  /\ demo_at = "replace"
  /\ predictions_json' = json_tmp /\ json_tmp' = Absence
  /\ frames_jsonl' = IF FirstReport THEN frames_jsonl ELSE NoFrames
  /\ IF demo_failed
     THEN Quit("1") /\ UNCHANGED <<demo, demo_stage, demo_index, demo_failed, owns>>
     ELSE Proceed(IF LastReport THEN "close" ELSE "load")
  /\ UNCHANGED <<demo_records, appended>>

ReplaceReport ==
  /\ demo_at = "replace"
  /\ predictions_json' = json_tmp /\ json_tmp' = Absence
  /\ IF demo_failed
     THEN Quit("1") /\ UNCHANGED <<demo, demo_stage, demo_index, demo_failed, owns>>
     ELSE Proceed(IF LastReport THEN "close" ELSE "load")
  /\ UNCHANGED <<demo_records, frames_jsonl, appended>>

\* The first report is outside the try block; a failure of the handler's own
\* report is only printed, and the first exception goes on.
PublishingFails ==
  /\ demo_at \in {"write", "replace"}
  /\ \/ demo_at = "write" /\ json_tmp' \in {json_tmp, HalfJson}
     \/ demo_at = "replace" /\ UNCHANGED json_tmp
  /\ IF FirstReport \/ demo_failed
     THEN Quit("1") /\ UNCHANGED demo_failed
     ELSE Raise /\ UNCHANGED demo_exit
  /\ UNCHANGED <<demo, demo_stage, demo_index, owns, demo_records, frames_jsonl,
                 predictions_json, appended>>

-----------------------------------------------------------------------------
\* A step of the try block that touches no file of the report.
DemoLoadModel ==
  /\ demo_at = "load"
  /\ IF demo.overlays
     THEN /\ Go("overlays")
          /\ demo_stage' = IF demo.program = "matlab" THEN "output_directory" ELSE demo_stage
     ELSE Go("frame") /\ UNCHANGED demo_stage
  /\ UNCHANGED <<demo, demo_index, demo_failed, demo_exit, owns, demo_records, demo_files, appended>>

MakeOverlays ==
  /\ demo_at = "overlays"
  /\ Proceed("frame")
  /\ UNCHANGED <<demo_records, demo_files, appended>>

DemoNextFrame ==
  /\ demo_at = "frame" /\ demo_index + 1 < demo.count
  /\ demo_index' = demo_index + 1 /\ demo_stage' = "preprocessing"
  /\ Go("stages")
  /\ UNCHANGED <<demo, demo_failed, demo_exit, owns, demo_records, demo_files, appended>>

FrameStage ==
  /\ demo_at = "stages"
  /\ demo_stage' = CASE demo_stage = "preprocessing" -> "inference"
                     [] demo_stage = "inference" -> "decoding_output"
                     [] demo_stage = "decoding_output" /\ demo.overlays -> "overlay"
                     [] OTHER -> "report"
  /\ Go(IF demo_stage' = "report" THEN "append" ELSE "stages")
  /\ UNCHANGED <<demo, demo_index, demo_failed, demo_exit, owns, demo_records, demo_files, appended>>

StageFails ==
  /\ demo_at \in {"load", "overlays", "stages"}
  /\ Raise
  /\ UNCHANGED <<demo, demo_stage, demo_index, demo_exit, owns, demo_records, demo_files, appended>>

AppendLine == frames_jsonl' = [present |-> TRUE, lines |-> Append(frames_jsonl.lines, FrameRecord(demo_index))]

AppendFrame ==
  /\ demo_at = "append"
  /\ AppendLine
  /\ recorded' = recorded + 1
  /\ memory' = IF demo.program = "matlab" THEN Append(memory, FrameRecord(demo_index)) ELSE memory
  /\ appended' = Append(appended, FrameRecord(demo_index))
  /\ Proceed("frame")
  /\ UNCHANGED <<json_tmp, predictions_json>>

\* What a failed append leaves: nothing, a torn line that no reader counts, or
\* the whole line.
AppendReaches ==
  \/ UNCHANGED frames_jsonl
  \/ frames_jsonl' = [frames_jsonl EXCEPT !.present = TRUE]
  \/ AppendLine

AppendFrameFails ==
  /\ demo_at = "append"
  /\ AppendReaches
  /\ Raise
  /\ UNCHANGED <<demo, demo_stage, demo_index, demo_exit, owns, demo_records, json_tmp,
                 predictions_json, appended>>

\* Mutant: the last frame is still named when the complete report is published.
FramesDoneKeepingIndex ==
  /\ demo_at = "frame" /\ demo_index + 1 = demo.count
  /\ demo_stage' = "report"
  /\ Go("write")
  /\ UNCHANGED <<demo, demo_index, demo_failed, demo_exit, owns, demo_records, demo_files, appended>>

\* index and source are forgotten before the complete report.
FramesDone ==
  /\ demo_at = "frame" /\ demo_index + 1 = demo.count
  /\ demo_index' = NoIndex /\ demo_stage' = "report"
  /\ Go("write")
  /\ UNCHANGED <<demo, demo_failed, demo_exit, owns, demo_records, demo_files, appended>>

\* close(complete) and delete: a spool that cannot be removed stays.
CloseReport ==
  /\ demo_at = "close"
  /\ frames_jsonl' \in {frames_jsonl, NoFrames}
  /\ Quit("0")
  /\ UNCHANGED <<demo, demo_stage, demo_index, demo_failed, owns, demo_records, json_tmp,
                 predictions_json, appended>>

-----------------------------------------------------------------------------
(* KeyboardInterrupt is no Exception and Ctrl-C in MATLAB meets no catch:    *)
(* nothing more is published, whatever was being written stays.  A kill      *)
(* leaves the same.                                                          *)
Interrupt ==
  /\ demo_at # "over"
  /\ Quit("ended")
  /\ \/ UNCHANGED demo_files
     \/ demo_at = "spool" /\ frames_jsonl' = [NoFrames EXCEPT !.present = demo.program = "python"]
          /\ UNCHANGED <<json_tmp, predictions_json>>
     \/ demo_at = "write" /\ json_tmp' = HalfJson /\ UNCHANGED <<frames_jsonl, predictions_json>>
     \/ demo_at = "append" /\ AppendReaches /\ UNCHANGED <<json_tmp, predictions_json>>
     \/ demo_at = "close" /\ frames_jsonl' = NoFrames /\ UNCHANGED <<json_tmp, predictions_json>>
  /\ UNCHANGED <<demo, demo_stage, demo_index, demo_failed, owns, demo_records, appended>>

\* Another run is given the same directory.
RunAgain ==
  /\ demo_at = "over"
  /\ demo' \in DemoJobs
  /\ demo_at' = "prepare" /\ demo_stage' = "model_load" /\ demo_index' = NoIndex
  /\ demo_failed' = FALSE /\ demo_exit' = "running" /\ owns' = FALSE
  /\ recorded' = 0 /\ memory' = <<>>
  /\ UNCHANGED <<demo_files, appended>>

DemoNext ==
  \/ Prepare \/ PrepareFails \/ CreateSpool \/ CreateSpoolFails
  \/ WriteReport \/ ReplaceReport \/ PublishingFails
  \/ DemoLoadModel \/ MakeOverlays \/ DemoNextFrame \/ FrameStage \/ StageFails
  \/ AppendFrame \/ AppendFrameFails \/ FramesDone \/ CloseReport
  \/ Interrupt \/ RunAgain

DemoSpec == DemoInit /\ [][DemoNext]_demo_vars

-----------------------------------------------------------------------------
Published == INSTANCE ReportPublication
  WITH Payloads <- {"record"}, NoError <- NoDemoError,
       Errors <- [stage : DemoStages, frame : NoIndex .. DemoFrames - 1],
       accepted <- appended, report <- predictions_json

(* Both demos publish as the report format promises (README of the example:  *)
(* one versioned report, its frames in order, a failed run "incomplete"):    *)
(* readers only ever see all the records appended so far, never a line of a  *)
(* failed append, and nothing replaces a complete report, in this run or in  *)
(* a later one given the same directory.                                     *)
DemosImplementPublication == Published!Spec

(* An error names the first frame that its report does not list, or no frame  *)
(* when none was being processed.                                            *)
NamesFirstMissing(error, listed) ==
  \/ error.frame = listed
  \/ error.frame = NoIndex /\ error.stage \in {"model_load", "output_directory"} /\ listed = 0
  \/ error.frame = NoIndex /\ error.stage = "report" /\ listed = demo.count

(* main, and the rethrow of the MATLAB function: a run that owned its          *)
(* directory and ended by itself says in its status whether its report is     *)
(* complete, and an error in the report names the first frame missing in it.  *)
DemosKeepTheirPromise ==
  owns =>
    /\ RunKeepsPromise(demo_exit, predictions_json.status, Len(predictions_json.frames), demo.count)
    /\ predictions_json.error # NoDemoError =>
         NamesFirstMissing(predictions_json.error, Len(predictions_json.frames))

StartsWith(lines, records) ==
  /\ Len(records) <= Len(lines)
  /\ \A k \in 1 .. Len(records) : lines[k] = records[k]

(* close and AppendFrame_ ("Retain completed records if final report         *)
(* publication fails"): until a complete report lists them, the completed    *)
(* frames stand in the spool, in order and from its start.                   *)
CompletedFramesAreKept ==
  \/ predictions_json.status = "complete" /\ predictions_json.frames = appended
  \/ StartsWith(frames_jsonl.lines, appended)
=============================================================================
