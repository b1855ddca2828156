------------------------- MODULE ModelProgramsProofs -------------------------
(***************************************************************************)
(* Proofs about the parts ModelPrograms runs side by side, each under its own *)
(* specification and for every value of its constants.                       *)
(*                                                                         *)
(*   - DemoRuns: what the demos publish implements ReportPublication, their   *)
(*     exit statuses and errors tell the truth, completed frames are kept;     *)
(*   - RuntimeOverrides: the configuration chosen is the promised one;         *)
(*   - MakeManifest: manifests say what was asked, whoever reads and writes;   *)
(*   - RunOrtInference: what the backend is given, and what the status tells.  *)
(*     The byte count is a fold; what it computes for every shape is shown by   *)
(*     a least counterexample, from WFMin of WellFoundedInduction;            *)
(*   - DetectionDecoding: the detections are the best rows. The position the    *)
(*     code computes is that of the row it means (mixed-radix digits), and the   *)
(*     insertions make a stable sort;                                           *)
(*   - NaturalOrder: the order of a listing is a strict total order, by way of   *)
(*     the pieces (numbers and single bytes) both programs compare.           *)
(***************************************************************************)
EXTENDS DemoRuns, RuntimeOverrides, MakeManifest, RunOrtInference, DetectionDecoding,
        NaturalOrder, FiniteSetTheorems, SequenceTheorems, WellFoundedInduction, TLAPS

RuntimeSpec  == RuntimeInit /\ [][RuntimeNext]_choices
ManifestSpec == ManifestInit /\ [][ManifestNext]_manifests
OrtSpec      == OrtInit /\ [][OrtNext]_ort

-----------------------------------------------------------------------------
(* The Python and MATLAB demos *)

Records     == [index : Nat, payload : {"record"}, whole : {TRUE}]
DemoErrors  == [stage : DemoStages, frame : NoIndex .. DemoFrames - 1]
DemoReports ==
  [status : {"absent", "half", "incomplete", "complete"},
   error : DemoErrors \cup {NoDemoError}, frames : Seq(Records)]

Points == {"prepare", "spool", "write", "replace", "load", "overlays", "frame", "stages",
           "append", "close", "over"}

\* Types of the control and of the files.
ControlType ==
  /\ demo \in DemoJobs
  /\ demo_at \in Points
  /\ demo_stage \in DemoStages
  /\ demo_index \in NoIndex .. DemoFrames - 1
  /\ demo_failed \in BOOLEAN
  /\ owns \in BOOLEAN

DataType ==
  /\ recorded \in Nat
  /\ memory \in Seq(Records)
  /\ appended \in Seq(Records)
  /\ frames_jsonl \in [present : BOOLEAN, lines : Seq(Records)]
  /\ json_tmp \in DemoReports
  /\ predictions_json \in DemoReports

Busy == demo_at \notin {"prepare", "over"}

\* Where a run stands among its frames.
Progress ==
  /\ demo_at \in {"spool", "load"} \/ (demo_at \in {"write", "replace"} /\ FirstReport) =>
       demo_stage = "model_load" /\ demo_index = NoIndex /\ appended = <<>>
  /\ demo_at = "overlays" =>
       /\ demo_stage \in {"model_load", "output_directory"}
       /\ demo_index = NoIndex /\ appended = <<>>
  /\ demo_at = "frame" => demo_index + 1 = Len(appended)
  /\ demo_at \in {"stages", "append"} => demo_index = Len(appended)
  /\ demo_at \in {"write", "replace"} /\ ~demo_failed =>
       \/ demo_stage = "model_load"
       \/ demo_stage = "report" /\ demo_index = NoIndex /\ Len(appended) = demo.count
  /\ demo_failed =>
       NamesFirstMissing([stage |-> demo_stage, frame |-> demo_index], Len(appended))

\* What its files and its records hold.
Holdings ==
  /\ recorded = Len(appended)
  /\ demo.program = "matlab" => memory = appended
  /\ demo_at \notin {"write", "replace"} => ~demo_failed
  /\ demo_at # "close" => predictions_json.status # "complete"
  /\ demo_at # "spool" /\ ~(demo_at \in {"write", "replace"} /\ FirstReport) =>
       predictions_json.status # "absent"
  /\ demo_at # "close" /\ ~demo_failed => frames_jsonl.lines = appended
  /\ predictions_json.error = NoDemoError
  /\ demo_at = "replace" =>
       /\ json_tmp.status = IF LastReport THEN "complete" ELSE "incomplete"
       /\ json_tmp.error = IF demo_failed THEN [stage |-> demo_stage, frame |-> demo_index]
                                          ELSE NoDemoError
       /\ json_tmp.frames = appended
  /\ demo_at = "close" =>
       /\ predictions_json.status = "complete"
       /\ predictions_json.frames = appended
       /\ Len(appended) = demo.count

\* A run that has not looked at its directory.
AtTheStart ==
  /\ ~owns /\ ~demo_failed /\ demo_exit = "running"
  /\ demo_stage = "model_load" /\ demo_index = NoIndex
  /\ recorded = 0 /\ memory = <<>>

DemoInv ==
  /\ ControlType
  /\ DataType
  /\ EmptyDirectory => appended = <<>>
  /\ ~frames_jsonl.present => frames_jsonl.lines = <<>>
  /\ CompletedFramesAreKept
  /\ DemosKeepTheirPromise
  /\ demo_at = "prepare" => AtTheStart
  /\ Busy => owns /\ demo_exit = "running" /\ Progress /\ Holdings

-----------------------------------------------------------------------------
(* A sequence starts with itself, with all it had before an Append, and with   *)
(* what it started with before one.                                          *)
LEMMA StartsWithItself ==
  ASSUME NEW s \in Seq(Records)
  PROVE  StartsWith(s, s)
  BY DEF StartsWith

LEMMA StartsWithAfterAppend ==
  ASSUME NEW s \in Seq(Records), NEW t \in Seq(Records), NEW r \in Records, StartsWith(s, t)
  PROVE  StartsWith(Append(s, r), t)
  <1>1. /\ Len(Append(s, r)) = Len(s) + 1
        /\ \A k \in 1 .. Len(s) : Append(s, r)[k] = s[k]
    BY AppendProperties
  <1> QED
    BY <1>1, LenProperties DEF StartsWith

(* The lines Python copies are those of the frames it counted.              *)
LEMMA CountedLinesAreTheStart ==
  ASSUME NEW s \in Seq(Records), NEW t \in Seq(Records), StartsWith(s, t)
  PROVE  SubSeq(s, 1, Len(t)) = t
  <1>1. Len(t) \in Nat /\ Len(s) \in Nat /\ Len(t) <= Len(s)
    BY LenProperties DEF StartsWith
  <1>2. CASE Len(t) = 0
    <2>1. t = <<>>
      BY <1>2, EmptySeq
    <2> QED
      BY <1>2, <2>1, SubSeqProperties
  <1>3. CASE Len(t) # 0
    <2>1. /\ SubSeq(s, 1, Len(t)) \in Seq(Records)
          /\ Len(SubSeq(s, 1, Len(t))) = Len(t)
          /\ \A k \in 1 .. Len(t) : SubSeq(s, 1, Len(t))[k] = s[k]
      BY <1>1, <1>3, SubSeqProperties
    <2> QED
      BY <2>1, SeqEqual DEF StartsWith
  <1> QED
    BY <1>2, <1>3

(* The record of the frame in progress.                                     *)
LEMMA FrameRecordIsRecord ==
  ASSUME NEW index \in Nat
  PROVE  FrameRecord(index) \in Records
  BY DEF FrameRecord, Records

-----------------------------------------------------------------------------
(* The control of a run keeps its types. *)
LEMMA ControlTypeCorrect ==
  ASSUME DemoInv, [DemoNext]_demo_vars
  PROVE  ControlType'
  <1> USE DemoFramesAssumption DEF DemoInv, ControlType, Points, DemoStages, NoIndex, Go, Quit, Raise, Proceed
  <1>0. NoIndex \in NoIndex .. DemoFrames - 1
    BY DemoFramesAssumption DEF NoIndex
  <1> HIDE DEF NoIndex
  <1>1. CASE Prepare \/ PrepareFails \/ CreateSpool \/ CreateSpoolFails
    BY <1>1 DEF Prepare, PrepareFails, CreateSpool, CreateSpoolFails
  <1>2. CASE WriteReport \/ ReplaceReport \/ PublishingFails
    BY <1>2 DEF WriteReport, ReplaceReport, PublishingFails
  <1>3. CASE DemoLoadModel \/ MakeOverlays \/ StageFails
    BY <1>3 DEF DemoLoadModel, MakeOverlays, StageFails
  <1>4. CASE DemoNextFrame
    BY <1>4 DEF DemoNextFrame, DemoJobs, NoIndex
  <1>5. CASE FrameStage
    BY <1>5 DEF FrameStage
  <1>6. CASE AppendFrame \/ AppendFrameFails \/ FramesDone \/ CloseReport \/ Interrupt
    BY <1>0, <1>6 DEF AppendFrame, AppendFrameFails, FramesDone, CloseReport, Interrupt
  <1>7. CASE RunAgain
    BY <1>0, <1>7 DEF RunAgain
  <1>8. CASE UNCHANGED demo_vars
    BY <1>8 DEF demo_vars, demo_control
  <1> QED
    BY <1>1, <1>2, <1>3, <1>4, <1>5, <1>6, <1>7, <1>8 DEF DemoNext

(* A line more in the spool. *)
LEMMA LineAppended ==
  ASSUME DemoInv, AppendLine, demo_index \in Nat
  PROVE  /\ frames_jsonl' \in [present : BOOLEAN, lines : Seq(Records)]
         /\ frames_jsonl'.present
         /\ frames_jsonl'.lines = Append(frames_jsonl.lines, FrameRecord(demo_index))
  <1>1. FrameRecord(demo_index) \in Records
    BY FrameRecordIsRecord
  <1>2. frames_jsonl.lines \in Seq(Records)
    BY DEF DemoInv, DataType
  <1>3. Append(frames_jsonl.lines, FrameRecord(demo_index)) \in Seq(Records)
    BY <1>1, <1>2, AppendProperties
  <1> QED
    BY <1>3 DEF AppendLine

(* What a failed or interrupted append leaves in the spool. *)
LEMMA WhatAnAppendReaches ==
  ASSUME DemoInv, AppendReaches, demo_at = "append"
  PROVE  /\ frames_jsonl' \in [present : BOOLEAN, lines : Seq(Records)]
         /\ frames_jsonl.present => frames_jsonl'.present
         /\ StartsWith(frames_jsonl.lines, appended) => StartsWith(frames_jsonl'.lines, appended)
  <1>1. frames_jsonl \in [present : BOOLEAN, lines : Seq(Records)] /\ appended \in Seq(Records)
    BY DEF DemoInv, DataType
  <1>2. demo_index \in Nat
    BY <1>1, LenProperties DEF DemoInv, Busy, Progress
  <1>3. CASE AppendLine
    BY <1>1, <1>2, <1>3, LineAppended, FrameRecordIsRecord, StartsWithAfterAppend
  <1>4. CASE UNCHANGED frames_jsonl \/ frames_jsonl' = [frames_jsonl EXCEPT !.present = TRUE]
    BY <1>1, <1>4
  <1> QED
    BY <1>3, <1>4 DEF AppendReaches

(* The frames of the next report are those appended so far. *)
LEMMA ListedAreAppended ==
  ASSUME DemoInv, demo_at = "write"
  PROVE  Listed = appended
  <1>1. Busy /\ recorded = Len(appended) /\ predictions_json.status # "complete"
    BY DEF DemoInv, Busy, Holdings
  <1>2. StartsWith(frames_jsonl.lines, appended)
    BY <1>1 DEF DemoInv, CompletedFramesAreKept
  <1>3. frames_jsonl.lines \in Seq(Records) /\ appended \in Seq(Records)
    BY DEF DemoInv, DataType
  <1>4. SubSeq(frames_jsonl.lines, 1, recorded) = appended
    BY <1>1, <1>2, <1>3, CountedLinesAreTheStart
  <1>5. demo.program # "python" => memory = appended
    BY <1>1 DEF DemoInv, ControlType, DemoJobs, Holdings
  <1> QED
    BY <1>4, <1>5 DEF Listed

(* The document written is a report that lists the frames appended so far.   *)
LEMMA DocumentIsTyped ==
  ASSUME DemoInv, demo_at = "write"
  PROVE  DemoDocument \in DemoReports /\ DemoDocument.frames = appended
  <1>1. Listed = appended
    BY ListedAreAppended
  <1> QED
    BY <1>1 DEF DemoInv, ControlType, DataType, DemoDocument, DemoReports, DemoErrors

(* The records and the files keep their types. *)
LEMMA DataTypeCorrect ==
  ASSUME DemoInv, [DemoNext]_demo_vars
  PROVE  DataType'
  <1> USE DEF Proceed, demo_records, demo_files
  <1>0. /\ DataType
        /\ <<>> \in Seq(Records)
    BY EmptySeq DEF DemoInv
  <1>1. Absence \in DemoReports /\ HalfJson \in DemoReports /\ NoFrames \in [present : BOOLEAN, lines : Seq(Records)]
    BY <1>0 DEF Absence, HalfJson, NoFrames, DemoReports
  <1>2. CASE Prepare \/ PrepareFails \/ DemoLoadModel \/ MakeOverlays \/ DemoNextFrame
             \/ FrameStage \/ StageFails \/ FramesDone
    BY <1>0, <1>2
       DEF Prepare, PrepareFails, DemoLoadModel, MakeOverlays, DemoNextFrame, FrameStage,
           StageFails, FramesDone, DataType
  <1>3. CASE CreateSpool
    BY <1>0, <1>3 DEF CreateSpool, DataType, NoFrames
  <1>4. CASE CreateSpoolFails
    BY <1>0, <1>4 DEF CreateSpoolFails, DataType, NoFrames
  <1>5. CASE WriteReport
    BY <1>0, <1>5, DocumentIsTyped DEF WriteReport, DataType
  <1>6. CASE ReplaceReport
    BY <1>0, <1>1, <1>6 DEF ReplaceReport, DataType
  <1>7. CASE PublishingFails
    BY <1>0, <1>1, <1>7 DEF PublishingFails, DataType
  <1>8. CASE AppendFrame
    <2>1. demo_index \in Nat
      BY <1>0, <1>8, LenProperties DEF DemoInv, Busy, Progress, DataType, AppendFrame
    <2>2. FrameRecord(demo_index) \in Records
      BY <2>1, FrameRecordIsRecord
    <2>3. /\ Append(memory, FrameRecord(demo_index)) \in Seq(Records)
          /\ Append(appended, FrameRecord(demo_index)) \in Seq(Records)
      BY <1>0, <2>2, AppendProperties DEF DataType
    <2>4. frames_jsonl' \in [present : BOOLEAN, lines : Seq(Records)]
      BY <1>8, <2>1, LineAppended DEF AppendFrame
    <2> QED
      BY <1>0, <1>8, <2>3, <2>4 DEF AppendFrame, DataType
  <1>9. CASE AppendFrameFails
    BY <1>0, <1>9, WhatAnAppendReaches DEF AppendFrameFails, DataType
  <1>10. CASE CloseReport
    BY <1>0, <1>1, <1>10 DEF CloseReport, DataType
  <1>11. CASE Interrupt
    <2>1. frames_jsonl' \in [present : BOOLEAN, lines : Seq(Records)]
      BY <1>0, <1>1, <1>11, WhatAnAppendReaches DEF Interrupt, DataType, NoFrames
    <2>2. json_tmp' \in DemoReports
      BY <1>0, <1>1, <1>11 DEF Interrupt, DataType
    <2> QED
      BY <1>0, <1>11, <2>1, <2>2 DEF Interrupt, DataType
  <1>12. CASE RunAgain
    BY <1>0, <1>12 DEF RunAgain, DataType
  <1>13. CASE UNCHANGED demo_vars
    BY <1>0, <1>13 DEF demo_vars, DataType
  <1> QED
    BY <1>2, <1>3, <1>4, <1>5, <1>6, <1>7, <1>8, <1>9, <1>10, <1>11, <1>12, <1>13 DEF DemoNext

(* A spool that does not exist holds no line. *)
LEMMA NoSpoolIsEmpty ==
  ASSUME DemoInv, [DemoNext]_demo_vars
  PROVE  (~frames_jsonl.present => frames_jsonl.lines = <<>>)'
  <1> USE DEF Proceed, demo_records, demo_files, NoFrames
  <1>0. /\ frames_jsonl \in [present : BOOLEAN, lines : Seq(Records)]
        /\ ~frames_jsonl.present => frames_jsonl.lines = <<>>
    BY DEF DemoInv, DataType
  <1>1. ASSUME AppendReaches \/ AppendLine
        PROVE  ~frames_jsonl'.present => frames_jsonl'.lines = <<>>
    BY <1>0, <1>1 DEF AppendReaches, AppendLine
  <1> QED
    BY <1>0, <1>1
       DEF DemoNext, demo_vars, Prepare, PrepareFails, CreateSpool, CreateSpoolFails, WriteReport,
           ReplaceReport, PublishingFails, DemoLoadModel, MakeOverlays, DemoNextFrame, FrameStage,
           StageFails, AppendFrame, AppendFrameFails, FramesDone, CloseReport, Interrupt, RunAgain

(* Completed frames are kept, and an empty directory has none. *)
LEMMA KeptCorrect ==
  ASSUME DemoInv, [DemoNext]_demo_vars
  PROVE  CompletedFramesAreKept' /\ (EmptyDirectory => appended = <<>>)'
  <1> USE DEF Proceed, demo_records, demo_files
  <1>0. DataType /\ CompletedFramesAreKept /\ (EmptyDirectory => appended = <<>>)
    BY DEF DemoInv
  <1>1. CASE Prepare \/ PrepareFails \/ DemoLoadModel \/ MakeOverlays \/ DemoNextFrame
             \/ FrameStage \/ StageFails \/ FramesDone \/ RunAgain
    BY <1>0, <1>1
       DEF Prepare, PrepareFails, DemoLoadModel, MakeOverlays, DemoNextFrame, FrameStage,
           StageFails, FramesDone, RunAgain, CompletedFramesAreKept, EmptyDirectory
  <1>2. CASE CreateSpool \/ CreateSpoolFails
    <2>1. appended = <<>> /\ Len(appended) = 0
      BY <1>2, EmptySeq DEF CreateSpool, CreateSpoolFails, DemoInv, Busy, Progress
    <2>2. UNCHANGED appended
      BY <1>2 DEF CreateSpool, CreateSpoolFails
    <2>3. StartsWith(frames_jsonl'.lines, appended)
      <3>1. frames_jsonl'.lines \in Seq(Records)
        BY DataTypeCorrect DEF DataType
      <3> QED
        BY <2>1, <3>1, LenProperties DEF StartsWith
    <2> QED
      BY <2>1, <2>2, <2>3 DEF CompletedFramesAreKept
  <1>3. CASE WriteReport
    BY <1>0, <1>3 DEF WriteReport, CompletedFramesAreKept, EmptyDirectory, DemoDocument, Absence
  <1>4. CASE ReplaceReport
    <2>1. /\ predictions_json' = json_tmp
          /\ UNCHANGED <<frames_jsonl, appended>>
          /\ predictions_json.status # "complete"
          /\ json_tmp.status # "absent"
      BY <1>4 DEF ReplaceReport, DemoInv, Busy, Holdings
    <2> QED
      BY <1>0, <2>1 DEF CompletedFramesAreKept, EmptyDirectory, Absence
  <1>5. CASE PublishingFails
    <2>1. UNCHANGED <<frames_jsonl, predictions_json, appended>>
      BY <1>5 DEF PublishingFails
    <2>2. EmptyDirectory' => appended = <<>>
      BY <1>5, <2>1 DEF PublishingFails, EmptyDirectory, Absence, DemoInv, Busy, Holdings, Progress
    <2> QED
      BY <1>0, <2>1, <2>2 DEF CompletedFramesAreKept
  <1>6. CASE AppendFrame
    <2>1. /\ demo_index \in Nat
          /\ frames_jsonl.lines = appended
          /\ appended' = Append(appended, FrameRecord(demo_index))
      BY <1>0, <1>6, LenProperties DEF DemoInv, Busy, Progress, Holdings, DataType, AppendFrame
    <2>2. frames_jsonl'.present /\ frames_jsonl'.lines = appended'
      BY <1>6, <2>1, LineAppended DEF AppendFrame
    <2>3. StartsWith(frames_jsonl'.lines, appended')
      <3>1. appended' \in Seq(Records)
        BY DataTypeCorrect DEF DataType
      <3> QED
        BY <2>2, <3>1, StartsWithItself
    <2> QED
      BY <2>2, <2>3 DEF CompletedFramesAreKept, EmptyDirectory
  <1>7. CASE AppendFrameFails \/ (Interrupt /\ demo_at = "append" /\ AppendReaches)
    <2>1. /\ UNCHANGED <<json_tmp, predictions_json, appended>>
          /\ AppendReaches /\ demo_at = "append"
      BY <1>7 DEF AppendFrameFails, Interrupt
    <2> QED
      BY <1>0, <2>1, WhatAnAppendReaches DEF CompletedFramesAreKept, EmptyDirectory
  <1>8. CASE CloseReport \/ (Interrupt /\ demo_at = "close")
    <2>1. UNCHANGED <<json_tmp, predictions_json, appended>>
      BY <1>8 DEF CloseReport, Interrupt
    <2>2. predictions_json.status = "complete" /\ predictions_json.frames = appended
      BY <1>8 DEF CloseReport, DemoInv, Busy, Holdings
    <2> QED
      BY <2>1, <2>2 DEF CompletedFramesAreKept, EmptyDirectory, Absence
  <1>9. CASE Interrupt /\ ~(demo_at = "append" /\ AppendReaches) /\ demo_at # "close"
    <2>1. CASE demo_at = "spool"
      <3>1. appended = <<>> /\ Len(appended) = 0 /\ UNCHANGED appended
        BY <1>9, <2>1, EmptySeq DEF Interrupt, DemoInv, Busy, Progress
      <3>2. frames_jsonl'.lines \in Seq(Records)
        BY DataTypeCorrect DEF DataType
      <3> QED
        BY <3>1, <3>2, LenProperties DEF CompletedFramesAreKept, StartsWith
    <2>2. CASE demo_at # "spool"
      <3>1. UNCHANGED <<frames_jsonl, predictions_json, appended>>
        BY <1>9, <2>2 DEF Interrupt
      <3>2. json_tmp' = json_tmp \/ json_tmp' = HalfJson
        BY <1>9, <2>2 DEF Interrupt
      <3> QED
        BY <1>0, <3>1, <3>2 DEF CompletedFramesAreKept, EmptyDirectory, HalfJson, Absence
    <2> QED
      BY <2>1, <2>2
  <1>10. CASE UNCHANGED demo_vars
    BY <1>0, <1>10 DEF demo_vars, CompletedFramesAreKept, EmptyDirectory
  <1>11. CASE Interrupt
    BY <1>7, <1>8, <1>9, <1>11
  <1> QED
    BY <1>1, <1>2, <1>3, <1>4, <1>5, <1>6, <1>7, <1>8, <1>10, <1>11 DEF DemoNext

(* What a run knows about its frames, its files and its status. *)
Standing ==
  /\ DemosKeepTheirPromise
  /\ demo_at = "prepare" => AtTheStart
  /\ Busy => owns /\ demo_exit = "running" /\ Progress /\ Holdings

(* A step keeps what the run knows. *)
LEMMA StandingCorrect ==
  ASSUME DemoInv, [DemoNext]_demo_vars
  PROVE  Standing'
  <1> USE DEF Go, Quit, Raise, Proceed, demo_records, demo_files
  <1>0. /\ Standing /\ DataType /\ ControlType
        /\ EmptyDirectory => appended = <<>>
        /\ ~frames_jsonl.present => frames_jsonl.lines = <<>>
        /\ Len(appended) \in Nat /\ Len(<<>>) = 0
    BY EmptySeq, LenProperties DEF DemoInv, Standing, DataType
  <1> USE DEF Standing, Busy, AtTheStart, Progress, Holdings, DemosKeepTheirPromise, RunKeepsPromise,
              FirstReport, LastReport, NoIndex
  <1>1. CASE Prepare
    BY <1>0, <1>1 DEF Prepare, EmptyDirectory, Absence, NoFrames, DataType
  <1>2. CASE PrepareFails
    BY <1>0, <1>2 DEF PrepareFails
  <1>3. CASE CreateSpool
    BY <1>0, <1>3 DEF CreateSpool, NoFrames
  <1>4. CASE CreateSpoolFails
    BY <1>0, <1>4 DEF CreateSpoolFails
  <1>5. CASE WriteReport
    <2>1. /\ json_tmp' = DemoDocument /\ DemoDocument.frames = appended
          /\ demo_at = "write" /\ demo_at' = "replace"
          /\ UNCHANGED <<demo, demo_stage, demo_index, demo_failed, demo_exit, owns, recorded,
                         memory, frames_jsonl, predictions_json, appended>>
      BY <1>5, DocumentIsTyped DEF WriteReport
    <2>2. /\ json_tmp'.status = IF LastReport THEN "complete" ELSE "incomplete"
          /\ json_tmp'.error = IF demo_failed THEN [stage |-> demo_stage, frame |-> demo_index]
                                              ELSE NoDemoError
          /\ json_tmp'.frames = appended
      BY <2>1 DEF DemoDocument
    <2> QED
      BY <1>0, <2>1, <2>2 DEF NamesFirstMissing
  <1>6. CASE ReplaceReport
    BY <1>0, <1>6 DEF ReplaceReport, NoDemoError, NamesFirstMissing
  <1>7. CASE PublishingFails
    BY <1>0, <1>7 DEF PublishingFails, NamesFirstMissing
  <1>8. CASE DemoLoadModel
    BY <1>0, <1>8 DEF DemoLoadModel
  <1>9. CASE MakeOverlays
    BY <1>0, <1>9 DEF MakeOverlays
  <1>10. CASE DemoNextFrame
    BY <1>0, <1>10 DEF DemoNextFrame, ControlType
  <1>11. CASE FrameStage
    BY <1>0, <1>11 DEF FrameStage
  <1>12. CASE StageFails
    BY <1>0, <1>12 DEF StageFails, NamesFirstMissing
  <1>13. CASE AppendFrame
    <2>1. demo_index \in Nat /\ FrameRecord(demo_index) \in Records
      BY <1>0, <1>13, FrameRecordIsRecord DEF AppendFrame
    <2>2. Len(appended') = Len(appended) + 1
      BY <1>0, <1>13, <2>1, AppendProperties DEF AppendFrame, DataType
    <2>3. frames_jsonl'.lines = Append(frames_jsonl.lines, FrameRecord(demo_index))
      BY <1>13, <2>1, LineAppended DEF AppendFrame
    <2> QED
      BY <1>0, <1>13, <2>1, <2>2, <2>3 DEF AppendFrame
  <1>14. CASE AppendFrameFails
    BY <1>0, <1>14 DEF AppendFrameFails, NamesFirstMissing
  <1>15. CASE FramesDone
    BY <1>0, <1>15 DEF FramesDone
  <1>16. CASE CloseReport
    BY <1>0, <1>16 DEF CloseReport
  <1>17. CASE Interrupt
    BY <1>0, <1>17 DEF Interrupt
  <1>18. CASE RunAgain
    BY <1>0, <1>18 DEF RunAgain
  <1>19. CASE UNCHANGED demo_vars
    BY <1>0, <1>19 DEF demo_vars, demo_control, NamesFirstMissing
  <1> QED
    BY <1>1, <1>2, <1>3, <1>4, <1>5, <1>6, <1>7, <1>8, <1>9, <1>10, <1>11, <1>12, <1>13, <1>14,
       <1>15, <1>16, <1>17, <1>18, <1>19 DEF DemoNext

-----------------------------------------------------------------------------
(* The invariant holds in every reachable state. *)
THEOREM DemoInvariance == DemoSpec => []DemoInv
  <1>1. DemoInit => DemoInv
    <2> SUFFICES ASSUME DemoInit PROVE DemoInv
      OBVIOUS
    <2>1. <<>> \in Seq(Records) /\ Len(<<>>) = 0
      BY EmptySeq
    <2>2. NoIndex \in NoIndex .. DemoFrames - 1
      BY DemoFramesAssumption DEF NoIndex
    <2>3. ControlType
      BY <2>2 DEF DemoInit, ControlType, Points, DemoStages
    <2>4. DataType
      BY <2>1 DEF DemoInit, DataType, NoFrames, Absence, DemoReports
    <2>5. CompletedFramesAreKept
      BY <2>1 DEF DemoInit, CompletedFramesAreKept, StartsWith, NoFrames
    <2> QED
      BY <2>3, <2>4, <2>5
         DEF DemoInit, DemoInv, NoFrames, DemosKeepTheirPromise, AtTheStart, Busy
  <1>2. DemoInv /\ [DemoNext]_demo_vars => DemoInv'
    BY ControlTypeCorrect, DataTypeCorrect, KeptCorrect, NoSpoolIsEmpty, StandingCorrect
       DEF DemoInv, Standing
  <1> QED
    BY <1>1, <1>2, PTL DEF DemoSpec

(* A run that owned its directory and ended by itself says in its status       *)
(* whether its report is complete, and the error in a report names the first   *)
(* frame missing in it.                                                       *)
THEOREM DemosTellTheTruth == DemoSpec => []DemosKeepTheirPromise
  <1>1. DemoInv => DemosKeepTheirPromise
    BY DEF DemoInv
  <1> QED
    BY <1>1, DemoInvariance, PTL

(* Until a complete report lists them, the completed frames stand in the spool. *)
THEOREM CompletedFramesSurvive == DemoSpec => []CompletedFramesAreKept
  <1>1. DemoInv => CompletedFramesAreKept
    BY DEF DemoInv
  <1> QED
    BY <1>1, DemoInvariance, PTL

(* Both demos implement ReportPublication: replacing predictions.json replaces *)
(* it by all frames appended so far, an append accepts the next frame, and     *)
(* every other step leaves both alone.                                        *)
THEOREM DemosPublish == DemoSpec => DemosImplementPublication
  <1>1. DemoInit => Published!Init
    BY DEF DemoInit, Published!Init, Published!NoReport, Absence
  <1>2. DemoInv /\ [DemoNext]_demo_vars => [Published!Next]_Published!vars
    <2> SUFFICES ASSUME DemoInv, DemoNext
                 PROVE  [Published!Next]_Published!vars
      BY DEF demo_vars, demo_files, Published!vars
    <2> USE DEF Published!vars, Proceed, demo_files
    <2>1. CASE AppendFrame
      <3>1. /\ demo_index = Len(appended)
            /\ predictions_json.status # "complete"
            /\ appended' = Append(appended, FrameRecord(demo_index))
            /\ UNCHANGED predictions_json
        BY <2>1 DEF AppendFrame, DemoInv, Busy, Progress, Holdings
      <3>2. Published!Accept("record")
        BY <3>1 DEF Published!Accept, FrameRecord
      <3> QED
        BY <3>2 DEF Published!Next
    <2>2. CASE ReplaceReport
      <3>1. /\ predictions_json' = json_tmp /\ UNCHANGED appended
            /\ predictions_json.status # "complete"
            /\ json_tmp.frames = appended
            /\ json_tmp.status \in {"incomplete", "complete"}
            /\ json_tmp \in DemoReports
        BY <2>2 DEF ReplaceReport, DemoInv, Busy, Holdings, DataType
      <3>2. /\ json_tmp = [status |-> json_tmp.status, error |-> json_tmp.error, frames |-> appended]
            /\ json_tmp.error \in DemoErrors \cup {NoDemoError}
        BY <3>1 DEF DemoReports
      <3>3. Published!Replace(json_tmp.status, json_tmp.error)
        BY <3>1, <3>2 DEF Published!Replace
      <3> QED
        BY <3>1, <3>2, <3>3 DEF Published!Next, Published!Statuses, DemoErrors
    <2> QED
      BY <2>1, <2>2
         DEF DemoNext, Prepare, PrepareFails, CreateSpool, CreateSpoolFails, WriteReport,
             PublishingFails, DemoLoadModel, MakeOverlays, DemoNextFrame, FrameStage, StageFails,
             AppendFrameFails, FramesDone, CloseReport, Interrupt, RunAgain
  <1> QED
    BY <1>1, <1>2, DemoInvariance, PTL DEF DemoSpec, Published!Spec, DemosImplementPublication

-----------------------------------------------------------------------------
(* Choosing a runtime configuration *)

\* What an override writes over, once it has been read.
Policy(c, content) ==
  IF c.path # ".ptafmodel" \/ (c.program \in Demos /\ c.target # NotGiven)
  THEN SRuntimeConfig ELSE content.runtime

\* The runtime configuration of a started load was computed from a manifest the
\* file held during the run, and so was the model of a finished one.
RuntimeInv ==
  /\ choice \in RuntimeChoices
  /\ manifest_file \in held /\ held \subseteq ManifestContents
  /\ choice_at \in {"load", "loaded"} =>
       \E content \in held : runtime = ChosenRuntime(choice, content)
  /\ choice_at = "loaded" =>
       \E content \in held :
         chosen = IF choice.path # ".ptafmodel" THEN [model |-> "artifact", runtime |-> runtime]
                  ELSE [model |-> content.model,
                        runtime |-> IF HasOverride(choice) THEN runtime ELSE content.runtime]

\* A record of these fields, whatever their values.
HasFields(r) ==
  r \in [backend : {r.backend}, artifact : {r.artifact},
         execution_target_priority : {r.execution_target_priority},
         allow_fallback : {r.allow_fallback}, device_id : {r.device_id}, intra : {r.intra},
         inter : {r.inter}, profile : {r.profile}, log_id : {r.log_id}]

\* Editing a configuration keeps what the options do not name.
LEMMA ChosenKeepsPolicy ==
  ASSUME NEW c \in RuntimeChoices, NEW content \in ManifestContents,
         c.path = ".ptafmodel" => HasOverride(c)
  PROVE  /\ KeepsPolicy(c, ChosenRuntime(c, content), Policy(c, content))
         /\ c.path = ".ptafmodel" =>
              ChosenRuntime(c, content).log_id = Policy(c, content).log_id
<1> DEFINE base == Base(c, content)
           policy == Policy(c, content)
<1>1. HasFields(base)
  <2>1. HasFields(SRuntimeConfig) /\ HasFields([SRuntimeConfig EXCEPT !.log_id = "run_centroiding"])
    BY DEF HasFields, SRuntimeConfig
  <2>2. HasFields(content.runtime)
    BY ContentsAssumption DEF HasFields, RuntimeConfigs
  <2> QED
    BY <2>1, <2>2 DEF Base
<1>2. /\ base.backend = policy.backend
      /\ base.artifact = policy.artifact
      /\ base.profile = policy.profile
      /\ base.execution_target_priority = policy.execution_target_priority
      /\ base.allow_fallback = policy.allow_fallback
      /\ base.device_id = policy.device_id
      /\ base.intra = policy.intra
      /\ base.inter = policy.inter
      /\ c.path = ".ptafmodel" => base.log_id = policy.log_id
  BY DEF Base, ReadsRuntime, Policy, SRuntimeConfig, Demos, RuntimeChoices
<1> HIDE DEF base, policy
<1>3. CASE c.program \in Native
  <2>1. ChosenRuntime(c, content) = NativeRuntime(c, base)
    BY <1>3 DEF ChosenRuntime, base
  <2> DEFINE edited == WithTarget(WithoutFallback(WithDevice(base, c), c.no_fallback), c)
             r      == ChosenRuntime(c, content)
  <2>2. /\ HasFields(edited) /\ edited.log_id = base.log_id
        /\ edited.device_id = OrElse(Device(c), base.device_id)
        /\ edited.execution_target_priority =
             IF c.target = NotGiven THEN base.execution_target_priority ELSE <<c.target>>
        /\ edited.allow_fallback = IF c.no_fallback THEN FALSE ELSE base.allow_fallback
    BY <1>1 DEF WithTarget, WithoutFallback, WithDevice, HasFields
  <2>3. r = [edited EXCEPT !.backend = OrElse(c.backend, base.backend),
               !.artifact = OrElse(c.artifact, base.artifact),
               !.intra = OrElse(c.intra, base.intra), !.inter = OrElse(c.inter, base.inter),
               !.profile = OrElse(c.profile, base.profile)]
    BY <2>1 DEF NativeRuntime
  <2> HIDE DEF edited, r
  <2>4. /\ r.log_id = edited.log_id /\ r.device_id = edited.device_id
        /\ r.execution_target_priority = edited.execution_target_priority
        /\ r.allow_fallback = edited.allow_fallback
    BY <2>2, <2>3 DEF HasFields
  <2>5. /\ r.backend = OrElse(c.backend, base.backend)
        /\ r.artifact = OrElse(c.artifact, base.artifact)
        /\ r.intra = OrElse(c.intra, base.intra) /\ r.inter = OrElse(c.inter, base.inter)
        /\ r.profile = OrElse(c.profile, base.profile)
    BY <2>2, <2>3 DEF HasFields
  <2>6. KeepsPolicy(c, r, policy)
    BY <1>2, <1>3, <2>2, <2>4, <2>5 DEF KeepsPolicy
  <2> QED
    BY <1>2, <2>2, <2>4, <2>6 DEF r, policy
<1>4. CASE c.program \notin Native
  <2>1. ChosenRuntime(c, content) = DemoRuntime(c, base)
    BY <1>4 DEF ChosenRuntime, base
  <2>2. /\ c.backend = NotGiven /\ c.artifact = NotGiven /\ c.profile = NotGiven
        /\ c.intra = NotGiven /\ c.inter = NotGiven /\ ~c.no_fallback
    BY <1>4 DEF RuntimeChoices, Native
  <2> QED
    BY <1>1, <1>2, <1>4, <2>1, <2>2
    DEF DemoRuntime, WithTarget, WithoutFallback, WithDevice, OrElse, KeepsPolicy,
        HasFields, policy
<1> QED
  BY <1>3, <1>4

\* Without an option nothing of the manifest's policy is lost.
LEMMA NoOverrideKeepsPolicy ==
  ASSUME NEW c \in RuntimeChoices, ~HasOverride(c), NEW r
  PROVE  KeepsPolicy(c, r, r)
BY DEF HasOverride, KeepsPolicy, OrElse, Device

LEMMA RuntimeInvariance == RuntimeSpec => []RuntimeInv
<1>1. RuntimeInit => RuntimeInv
  BY DEF RuntimeInit, RuntimeInv
<1>2. RuntimeInv /\ [RuntimeNext]_choices => RuntimeInv'
  <2> SUFFICES ASSUME RuntimeInv, [RuntimeNext]_choices
               PROVE  RuntimeInv'
    OBVIOUS
  <2>1. CASE ChooseRuntime
    BY <2>1 DEF ChooseRuntime, RuntimeInv
  <2>2. CASE LoadChosen
    BY <2>2 DEF LoadChosen, RuntimeInv
  <2>3. CASE ChoosingFails
    BY <2>3 DEF ChoosingFails, RuntimeInv
  <2>4. CASE ReplaceManifest
    BY <2>4 DEF ReplaceManifest, RuntimeInv
  <2>5. CASE UNCHANGED choices
    BY <2>5 DEF choices, RuntimeInv
  <2> QED
    BY <2>1, <2>2, <2>3, <2>4, <2>5 DEF RuntimeNext
<1> QED
  BY <1>1, <1>2, PTL DEF RuntimeSpec

\* Whatever manifests replace each other while a program starts, each program
\* that has loaded a model runs it with the policy its READMEs promise: that of
\* one manifest the file held, or the defaults, but for the options given.
THEOREM RuntimeIsPromised == RuntimeSpec => []RuntimeIsThePromisedOne
<1>1. RuntimeInv => RuntimeIsThePromisedOne
  <2> SUFFICES ASSUME RuntimeInv, choice_at = "loaded"
               PROVE  RuntimeIsThePromisedOne
    BY DEF RuntimeIsThePromisedOne
  <2>1. PICK content \in held : runtime = ChosenRuntime(choice, content)
    BY DEF RuntimeInv
  <2>2. PICK read \in held :
          chosen = IF choice.path # ".ptafmodel" THEN [model |-> "artifact", runtime |-> runtime]
                   ELSE [model |-> read.model,
                         runtime |-> IF HasOverride(choice) THEN runtime ELSE read.runtime]
    BY DEF RuntimeInv
  <2>3. choice \in RuntimeChoices /\ content \in ManifestContents /\ read \in ManifestContents
    BY DEF RuntimeInv
  <2>4. CASE choice.path # ".ptafmodel"
    <3>1. KeepsPolicy(choice, runtime, SRuntimeConfig)
      BY <2>1, <2>3, <2>4, ChosenKeepsPolicy DEF Policy
    <3> QED
      BY <2>2, <2>4, <3>1 DEF RuntimeIsThePromisedOne
  <2>5. CASE choice.path = ".ptafmodel" /\ ~HasOverride(choice)
    <3>1. chosen.model = read.model /\ chosen.runtime = read.runtime /\ chosen = read
      BY <2>2, <2>3, <2>5, ContentsAssumption
    <3>2. KeepsPolicy(choice, chosen.runtime, read.runtime)
      BY <2>3, <2>5, <3>1, NoOverrideKeepsPolicy
    <3>3. choice.target = NotGiven
      BY <2>5 DEF HasOverride
    <3> QED
      BY <2>5, <3>1, <3>2, <3>3 DEF RuntimeIsThePromisedOne
  <2>6. CASE choice.path = ".ptafmodel" /\ HasOverride(choice)
    <3>1. chosen.model = read.model /\ chosen.runtime = runtime
      BY <2>2, <2>6
    <3>2. /\ KeepsPolicy(choice, runtime, Policy(choice, content))
          /\ runtime.log_id = Policy(choice, content).log_id
      BY <2>1, <2>3, <2>6, ChosenKeepsPolicy
    <3> QED
      BY <2>6, <3>1, <3>2 DEF RuntimeIsThePromisedOne, Policy
  <2> QED
    BY <2>4, <2>5, <2>6
<1> QED
  BY <1>1, RuntimeInvariance, PTL

-----------------------------------------------------------------------------
(* Making a manifest *)

ManifestTypes ==
  /\ maker_at \in [Makers -> {"validate", "create", "write", "ended"}]
  /\ request \in [Makers -> Requests]
  /\ maker_exit \in [Makers -> {Absent, "0", "1", "killed"}]
  /\ config \in [Readers -> {config[r] : r \in Readers}]
  /\ manifest \in ManifestFiles \cup {Absent}

\* Options a maker goes on with.
Good(o) == OptionsAreUsable(o) /\ Accepted(Document(o))

\* A maker at work owns the file, so that no two are at work, and what a maker
\* has written is the document of its valid options.
OwnerInv ==
  /\ \A p \in Makers : maker_at[p] \in {"create", "write"} => Good(request[p])
  /\ \A p \in Makers : maker_at[p] = "write" => manifest # Absent /\ manifest.owner = p
  /\ manifest # Absent /\ manifest.owner \in Makers =>
       /\ Good(request[manifest.owner])
       /\ manifest.text = Document(request[manifest.owner])

ManifestInv == ManifestTypes /\ OwnerInv /\ ManifestsSayWhatWasAsked

\* A valid document, parsed, is what its options ask for.
LEMMA DocumentSaysWhatWasAsked ==
  ASSUME NEW o \in Requests, Good(o)
  PROVE  Asked(o, ParsedConfig(Document(o)))
<1> DEFINE m == Document(o)
           read == ParsedConfig(m)
<1>1. /\ SchemaAccepts(m) /\ BackendFits(m)
      /\ o.extension \in {".onnx", ".engine", ".plan"}
      /\ ToSet(o.targets) \subseteq Targets \cup {"gpu"}
  BY DEF Good, Accepted, OptionsAreUsable
<1>2. m.execution_target_priority \in Seq(Targets)
  <2>1. /\ o.targets \in Seq(STRING)
        /\ \A k \in 1 .. Len(o.targets) : o.targets[k] \in Targets \cup {"gpu"}
    BY <1>1, ManifestAssumption DEF ToSet
  <2>2. \A t \in Targets \cup {"gpu"} : Canonical(t) \in Targets
    BY DEF Canonical, Targets
  <2>3. m.execution_target_priority = [k \in 1 .. Len(o.targets) |-> Canonical(o.targets[k])]
    BY <2>1 DEF Document
  <2> QED
    BY <2>1, <2>2, <2>3
<1>3. /\ Len(read.execution_target_priority) = Len(o.targets)
      /\ \A k \in DOMAIN o.targets :
           \/ read.execution_target_priority[k] = o.targets[k]
           \/ o.targets[k] = "gpu" /\ read.execution_target_priority[k] = "cuda"
  BY <1>2, ManifestAssumption DEF ParsedConfig, Default, Document, Canonical
<1>4. read.device_id >= 0 /\ read.intra_op_num_threads >= 0
  <2>1. /\ m.device_id \in {Absent} \cup 0 .. IntMax
        /\ m.intra_op_num_threads \in {Absent} \cup 0 .. IntMax
    BY <1>1 DEF SchemaAccepts, Optional
  <2>2. /\ read.device_id = Default(m.device_id, 0)
        /\ read.intra_op_num_threads = Default(m.intra_op_num_threads, 1)
    BY DEF ParsedConfig
  <2> HIDE DEF m, read
  <2> QED
    BY <2>1, <2>2, ManifestAssumption DEF Default
<1>5. read.backend # "auto" => (read.backend = "onnxruntime" <=> read.artifact_path = ".onnx")
  <2>1. m.artifact_path = o.extension /\ m.backend = o.backend
    BY DEF Document
  <2>2. m.backend = Absent \/ m.backend \in Backends
    BY <1>1 DEF SchemaAccepts, Optional
  <2> QED
    BY <1>1, <2>1, <2>2
    DEF BackendFits, SelectedArtifact, DetectedArtifact, ParsedConfig, Default, Backends
<1>6. read.allow_fallback = o.allow_fallback
  BY ManifestAssumption DEF ParsedConfig, Default, Document
<1> QED
  BY <1>3, <1>4, <1>5, <1>6 DEF Asked, ParsedConfig, Document

LEMMA ManifestInvariance == ManifestSpec => []ManifestInv
<1>1. ManifestInit => ManifestInv
  <2> SUFFICES ASSUME ManifestInit
               PROVE  ManifestInv
    OBVIOUS
  <2>1. manifest = Absent \/ (manifest \in ManifestFiles /\ manifest.owner = "user")
    BY DEF ManifestInit, ManifestFiles
  <2>2. ManifestTypes
    BY <2>1 DEF ManifestInit, ManifestTypes
  <2>3. OwnerInv
    BY <2>1, ManifestAssumption DEF ManifestInit, OwnerInv
  <2>4. ManifestsSayWhatWasAsked
    BY ManifestAssumption DEF ManifestInit, ManifestsSayWhatWasAsked
  <2> QED
    BY <2>2, <2>3, <2>4 DEF ManifestInv
<1>2. ManifestInv /\ [ManifestNext]_manifests => ManifestInv'
  <2> SUFFICES ASSUME ManifestInv, [ManifestNext]_manifests
               PROVE  ManifestInv'
    OBVIOUS
  <2> USE DEF ManifestInv
  <2>1. ASSUME NEW p \in Makers, ValidateDocument(p)
        PROVE  ManifestInv'
    <3>1. ManifestTypes'
      BY <2>1 DEF ValidateDocument, MakerEnds, ManifestTypes
    <3>2. OwnerInv'
      BY <2>1 DEF ValidateDocument, MakerEnds, ManifestTypes, OwnerInv, Good
    <3>3. ManifestsSayWhatWasAsked'
      BY <2>1 DEF ValidateDocument, MakerEnds, ManifestTypes, ManifestsSayWhatWasAsked
    <3> QED
      BY <3>1, <3>2, <3>3
  <2>2. ASSUME NEW p \in Makers, CreateManifest(p)
        PROVE  ManifestInv'
    <3>1. CASE MakerEnds(p, "1") /\ UNCHANGED <<manifest, request, config>>
      BY <3>1 DEF MakerEnds, ManifestTypes, OwnerInv, ManifestsSayWhatWasAsked
    <3>2. CASE /\ maker_at[p] = "create" /\ manifest = Absent
               /\ manifest' = [owner |-> p, text |-> Document(request[p]), whole |-> FALSE]
               /\ maker_at' = [maker_at EXCEPT ![p] = "write"]
               /\ UNCHANGED <<maker_exit, request, config>>
      <4>1. manifest' \in ManifestFiles /\ manifest' # Absent
        <5> DEFINE written == Document(request[p])
                   Texts == HandWritten \cup {Document(o) : o \in Requests}
        <5>1. written \in Texts
          BY DEF ManifestTypes
        <5>2. manifest' = [owner |-> p, text |-> written, whole |-> FALSE]
          BY <3>2
        <5>3. ManifestFiles = [owner : Makers \cup {"user"}, text : Texts, whole : BOOLEAN]
          BY DEF ManifestFiles
        <5> HIDE DEF written, Texts
        <5>4. manifest' \in ManifestFiles
          BY <5>1, <5>2, <5>3
        <5> QED
          BY <5>4, ManifestAssumption
      <4>2. ManifestTypes'
        BY <3>2, <4>1 DEF ManifestTypes
      <4>3. OwnerInv'
        BY <3>2, <4>1 DEF OwnerInv, ManifestTypes
      <4>4. ManifestsSayWhatWasAsked'
        BY <3>2 DEF ManifestsSayWhatWasAsked, ManifestTypes
      <4> QED
        BY <4>2, <4>3, <4>4
    <3> QED
      BY <2>2, <3>1, <3>2 DEF CreateManifest
  <2>3. ASSUME NEW p \in Makers, maker_at[p] = "write", NEW status \in {"0", "1", "killed"},
               MakerEnds(p, status), UNCHANGED <<request, config>>,
               manifest' = Absent \/ \E w \in BOOLEAN : manifest' = [manifest EXCEPT !.whole = w],
               status = "0" => manifest' = [manifest EXCEPT !.whole = TRUE]
        PROVE  ManifestInv'
    <3>1. /\ manifest \in ManifestFiles /\ manifest # Absent /\ manifest.owner = p
          /\ \A q \in Makers : maker_at[q] = "write" => q = p
      BY <2>3, ManifestAssumption DEF OwnerInv, ManifestTypes
    <3>2. /\ manifest' = Absent \/ (manifest' \in ManifestFiles /\ manifest'.owner = p
                                     /\ manifest'.text = manifest.text)
          /\ status = "0" => manifest' \in ManifestFiles /\ manifest'.whole
      BY <2>3, <3>1 DEF ManifestFiles
    <3>3. ManifestTypes'
      BY <2>3, <3>2 DEF ManifestTypes, MakerEnds
    <3>4. OwnerInv'
      BY <2>3, <3>1, <3>2 DEF OwnerInv, ManifestTypes, MakerEnds
    <3>5. ManifestsSayWhatWasAsked'
      <4>1. \A q \in Makers : maker_exit[q] # "0" \/ q = p
        BY <3>1 DEF ManifestsSayWhatWasAsked
      <4>2. \A r \in Readers : ~(config[r] # Absent /\ config[r].owner = "user")
        BY <3>1, ManifestAssumption DEF ManifestsSayWhatWasAsked
      <4>3. \A q \in Makers : maker_exit'[q] = "0" => q = p /\ status = "0"
        BY <2>3, <4>1 DEF MakerEnds, ManifestTypes
      <4>4. status = "0" => manifest' # Absent /\ manifest'.owner = p /\ manifest'.whole
        BY <3>2, ManifestAssumption
      <4> QED
        BY <2>3, <4>2, <4>3, <4>4 DEF ManifestsSayWhatWasAsked
    <3> QED
      BY <3>3, <3>4, <3>5
  <2>4. ASSUME NEW r \in Readers, ReadModelConfig(r)
        PROVE  ManifestInv'
    <3>1. PICK whole \in Readable :
            config' = [config EXCEPT ![r] =
              IF whole /\ Accepted(manifest.text)
              THEN [owner |-> manifest.owner, read |-> ParsedConfig(manifest.text)]
              ELSE [owner |-> Absent, read |-> Absent]]
      BY <2>4 DEF ReadModelConfig
    <3>2. UNCHANGED <<manifest, maker_at, request, maker_exit>>
      BY <2>4 DEF ReadModelConfig
    <3>3. whole => manifest # Absent
      BY DEF Readable
    <3>4. ManifestTypes' /\ OwnerInv'
      BY <3>1, <3>2 DEF ManifestTypes, OwnerInv
    <3>5. ASSUME NEW s \in Readers, config'[s] # Absent, config'[s].owner \in Makers
          PROVE  Asked(request[config'[s].owner], config'[s].read)
      <4>1. CASE s = r /\ whole /\ Accepted(manifest.text)
        <5>1. /\ manifest.owner \in Makers
              /\ config'[s] = [owner |-> manifest.owner, read |-> ParsedConfig(manifest.text)]
          BY <3>1, <3>5, <4>1 DEF ManifestTypes
        <5>2. /\ Good(request[manifest.owner]) /\ request[manifest.owner] \in Requests
              /\ manifest.text = Document(request[manifest.owner])
          BY <3>3, <4>1, <5>1 DEF OwnerInv, ManifestTypes
        <5> QED
          BY <5>1, <5>2, DocumentSaysWhatWasAsked
      <4>2. CASE s = r /\ ~(whole /\ Accepted(manifest.text))
        BY <3>1, <3>5, <4>2, ManifestAssumption DEF ManifestTypes
      <4>3. CASE s # r
        BY <3>1, <3>5, <4>3 DEF ManifestTypes, ManifestsSayWhatWasAsked
      <4> QED
        BY <4>1, <4>2, <4>3
    <3>6. ASSUME NEW s \in Readers, config'[s] # Absent, config'[s].owner = "user"
          PROVE  manifest # Absent /\ manifest.owner = "user"
      <4>1. CASE s = r
        BY <3>1, <3>3, <3>6, <4>1, ManifestAssumption DEF ManifestTypes
      <4>2. CASE s # r
        BY <3>1, <3>6, <4>2 DEF ManifestTypes, ManifestsSayWhatWasAsked
      <4> QED
        BY <4>1, <4>2
    <3>7. ManifestsSayWhatWasAsked'
      BY <3>2, <3>5, <3>6 DEF ManifestsSayWhatWasAsked
    <3> QED
      BY <3>4, <3>7
  <2>5. CASE UNCHANGED manifests
    BY <2>5 DEF manifests, ManifestTypes, OwnerInv, ManifestsSayWhatWasAsked
  <2>6. ASSUME NEW p \in Makers, WriteManifest(p)
        PROVE  ManifestInv'
    BY <2>3, <2>6 DEF WriteManifest
  <2>7. ASSUME NEW p \in Makers, WriteManifestFails(p)
        PROVE  ManifestInv'
    <3>1. UNCHANGED manifest => \E w \in BOOLEAN : manifest' = [manifest EXCEPT !.whole = w]
      <4>1. manifest \in ManifestFiles
        BY <2>7 DEF WriteManifestFails, OwnerInv, ManifestTypes
      <4> QED
        BY <4>1 DEF ManifestFiles
    <3> QED
      BY <2>3, <2>7, <3>1 DEF WriteManifestFails
  <2>8. ASSUME NEW p \in Makers, MakerKilled(p)
        PROVE  ManifestInv'
    BY <2>3, <2>8 DEF MakerKilled
  <2> QED
    BY <2>1, <2>2, <2>4, <2>5, <2>6, <2>7, <2>8 DEF ManifestNext
<1> QED
  BY <1>1, <1>2, PTL DEF ManifestSpec

\* However many makers and readers share one path, a reader never acts on a
\* manifest that says less or other than its maker was asked for, a maker that
\* reports success owns a whole file, and the user's own manifest stays.
THEOREM ManifestsAreTruthful == ManifestSpec => []ManifestsSayWhatWasAsked
  BY ManifestInvariance, PTL DEF ManifestInv

-----------------------------------------------------------------------------
(* Folds over sequences *)

LEMMA Least ==
  ASSUME NEW T \in SUBSET Nat, T # {}
  PROVE  \E x \in T : \A y \in T : x <= y
<1> DEFINE R == OpToRel(<, Nat)
<1>1. IsWellFoundedOn(R, Nat)
  BY NatLessThanWellFounded
<1>2. R = {p \in Nat \X Nat : p[1] < p[2]}
  BY DEF OpToRel
<1>4. \A a, b \in Nat : <<a, b>> \in R <=> a < b
  BY <1>2
<1> HIDE DEF R
<1>3. PICK x \in T : \A y \in T : ~(<<y, x>> \in R)
  BY <1>1, WFMin
<1>5. ASSUME NEW y \in T
      PROVE  x <= y
  <2>1. x \in Nat /\ y \in Nat /\ ~(y < x)
    BY <1>3, <1>4
  <2> QED
    BY <2>1
<1> QED
  BY <1>5


\* A set of numbers that holds the successor of each of its members up to n, and
\* zero, holds all of them up to n.
LEMMA Reaches ==
  ASSUME NEW n \in Nat, NEW S, 0 \in S, \A k \in 0 .. n - 1 : k \in S => k + 1 \in S
  PROVE  0 .. n \subseteq S
<1> DEFINE T == (0 .. n) \ S
<1>1. SUFFICES ASSUME T # {}
               PROVE  FALSE
  OBVIOUS
<1>2. PICK x \in T : \A y \in T : x <= y
  <2>1. T \in SUBSET Nat
    OBVIOUS
  <2> HIDE DEF T
  <2> QED
    BY <1>1, <2>1, Least
<1>3. x \in 1 .. n /\ x - 1 \notin T
  BY <1>2
<1>4. x - 1 \in 0 .. n - 1 /\ x - 1 \in S /\ (x - 1) + 1 = x
  BY <1>3
<1> QED
  BY <1>2, <1>4

LEMMA Greatest ==
  ASSUME NEW n \in Nat, NEW s \in SUBSET (1 .. n), s # {}
  PROVE  Max(s) \in s /\ \A y \in s : y <= Max(s)
<1> DEFINE T == {n - y : y \in s}
<1>1. T \in SUBSET Nat
  <2>1. \A y \in s : n - y \in Nat
    OBVIOUS
  <2> QED
    BY <2>1
<1>4. T # {}
  OBVIOUS
<1>2. PICK x \in T : \A y \in T : x <= y
  <2> HIDE DEF T
  <2> QED
    BY <1>1, <1>4, Least
<1>3. n - x \in s /\ \A y \in s : n - x >= y
  BY <1>2
<1> QED
  BY <1>3 DEF Max

LEMMA GreatestOfPrefix ==
  ASSUME NEW n \in Nat
  PROVE  /\ Max(1 .. n + 1) = n + 1 /\ (1 .. n + 1) \ {n + 1} = 1 .. n
         /\ \A s \in SUBSET (1 .. n + 1) : n + 1 \in s => Max(s) = n + 1
<1>1. ASSUME NEW s \in SUBSET (1 .. n + 1), n + 1 \in s
      PROVE  Max(s) = n + 1
  <2> DEFINE m == n + 1
  <2>1. m \in Nat /\ s \in SUBSET (1 .. m) /\ s # {}
    BY <1>1
  <2> HIDE DEF m
  <2>2. Max(s) \in s /\ \A y \in s : y <= Max(s)
    BY <2>1, Greatest
  <2>3. Max(s) \in 1 .. n + 1 /\ n + 1 <= Max(s)
    BY <1>1, <2>1, <2>2
  <2> QED
    BY <2>3
<1>2. n + 1 \in 1 .. n + 1 /\ 1 .. n + 1 \in SUBSET (1 .. n + 1)
  OBVIOUS
<1>3. Max(1 .. n + 1) = n + 1
  BY <1>1, <1>2
<1>4. (1 .. n + 1) \ {n + 1} = 1 .. n
  OBVIOUS
<1> QED
  BY <1>1, <1>3, <1>4

\* f folds step, from base on, over every subset of D, largest member last.
Folds(f, D, base, step) ==
  \A s \in SUBSET D : f[s] = IF s = {} THEN base ELSE step[<<f[s \ {Max(s)}], Max(s)>>]

LEMMA FoldExists ==
  ASSUME NEW n \in Nat, NEW V, NEW base \in V, NEW step \in [V \X (1 .. n) -> V]
  PROVE  \E f \in [SUBSET (1 .. n) -> V] : Folds(f, 1 .. n, base, step)
<1> DEFINE S == {k \in 0 .. n : \E f \in [SUBSET (1 .. k) -> V] : Folds(f, 1 .. k, base, step)}
<1>1. 0 \in S
  <2> DEFINE f == [s \in SUBSET (1 .. 0) |-> base]
  <2>1. f \in [SUBSET (1 .. 0) -> V] /\ Folds(f, 1 .. 0, base, step)
    <3>1. \A s \in SUBSET (1 .. 0) : s = {}
      OBVIOUS
    <3> QED
      BY <3>1 DEF Folds
  <2> QED
    BY <2>1
<1>2. ASSUME NEW k \in 0 .. n - 1, k \in S
      PROVE  k + 1 \in S
  <2>1. PICK f \in [SUBSET (1 .. k) -> V] : Folds(f, 1 .. k, base, step)
    BY <1>2
  <2> DEFINE g == [s \in SUBSET (1 .. k + 1) |->
                     IF k + 1 \in s THEN step[<<f[s \ {k + 1}], k + 1>>] ELSE f[s]]
  <2>2. ASSUME NEW s \in SUBSET (1 .. k + 1)
        PROVE  /\ g[s] \in V
               /\ g[s] = IF s = {} THEN base ELSE step[<<g[s \ {Max(s)}], Max(s)>>]
    <3>1. CASE k + 1 \in s
      <4>1. s \ {k + 1} \in SUBSET (1 .. k) /\ k + 1 \notin s \ {k + 1} /\ k + 1 \in 1 .. n
        OBVIOUS
      <4>2. Max(s) = k + 1
        <5>1. k \in Nat
          OBVIOUS
        <5> QED
          BY <3>1, <5>1, GreatestOfPrefix
      <4>3. g[s \ {k + 1}] = f[s \ {k + 1}] /\ g[s] = step[<<f[s \ {k + 1}], k + 1>>]
        BY <3>1, <4>1
      <4>4. f[s \ {k + 1}] \in V
        BY <4>1, <2>1
      <4>5. <<f[s \ {k + 1}], k + 1>> \in V \X (1 .. n)
        BY <4>1, <4>4
      <4> HIDE DEF g
      <4> QED
        BY <3>1, <4>2, <4>3, <4>5
    <3>2. CASE k + 1 \notin s
      <4>1. s \in SUBSET (1 .. k)
        BY <3>2
      <4>2. g[s] = f[s] /\ f[s] \in V
        BY <3>2, <4>1
      <4>3. CASE s = {}
        BY <4>1, <4>2, <4>3, <2>1 DEF Folds
      <4>4. CASE s # {}
        <5>1. Max(s) \in s
          BY <4>1, <4>4, Greatest
        <5>2. s \ {Max(s)} \in SUBSET (1 .. k) /\ k + 1 \notin s \ {Max(s)}
          BY <4>1, <3>2
        <5>3. g[s \ {Max(s)}] = f[s \ {Max(s)}]
          BY <5>2
        <5> HIDE DEF g
        <5> QED
          BY <4>1, <4>2, <4>4, <5>3, <2>1 DEF Folds
      <4> QED
        BY <4>3, <4>4
    <3> QED
      BY <3>1, <3>2
  <2>3. g \in [SUBSET (1 .. k + 1) -> V]
    BY <2>2
  <2>4. Folds(g, 1 .. k + 1, base, step)
    <3> HIDE DEF g
    <3> QED
      BY <2>2 DEF Folds
  <2>5. \E h \in [SUBSET (1 .. k + 1) -> V] : Folds(h, 1 .. k + 1, base, step)
    <3> HIDE DEF g
    <3> QED
      BY <2>3, <2>4
  <2>6. k + 1 \in 0 .. n
    OBVIOUS
  <2> QED
    BY <2>5, <2>6
<1>3. 0 .. n \subseteq S
  <2> HIDE DEF S
  <2> QED
    BY <1>1, <1>2, Reaches
<1>4. n \in S
  <2> HIDE DEF S
  <2> QED
    BY <1>3
<1> QED
  BY <1>4

\* What a product that passes the check is.
LEMMA CheckedProduct ==
  ASSUME NEW lhs \in 0 .. SizeMax, NEW rhs \in Nat
  PROVE  /\ CheckedMultiply(lhs, rhs) \in (0 .. SizeMax) \cup {Overflow}
         /\ CheckedMultiply(lhs, rhs) # Overflow => CheckedMultiply(lhs, rhs) = lhs * rhs
<1>1. CASE rhs = 0
  <2>1. lhs * rhs = 0 /\ 0 % (SizeMax + 1) = 0
    BY <1>1, SizeAssumption
  <2> QED
    BY <1>1, <2>1, SizeAssumption DEF CheckedMultiply, Wrapped
<1>2. CASE rhs # 0 /\ lhs <= SizeMax \div rhs
  <2> DEFINE q == SizeMax \div rhs
  <2>1. q \in Nat /\ q * rhs <= SizeMax
    BY <1>2, SizeAssumption
  <2> HIDE DEF q
  <2>2. PICK d \in Nat : q = lhs + d
    <3>1. q - lhs \in Nat /\ q = lhs + (q - lhs)
      BY <1>2, <2>1 DEF q
    <3> QED
      BY <3>1
  <2>3. q * rhs = lhs * rhs + d * rhs /\ d * rhs \in Nat /\ lhs * rhs \in Nat
    BY <2>2
  <2>4. lhs * rhs \in 0 .. SizeMax
    BY <2>1, <2>3, SizeAssumption
  <2> DEFINE p == lhs * rhs
  <2>5. p % (SizeMax + 1) = p
    <3> HIDE DEF p
    <3> QED
      BY <2>4, SizeAssumption DEF p
  <2>6. CheckedMultiply(lhs, rhs) = p
    BY <1>2, <2>1, <2>5, SizeAssumption DEF CheckedMultiply, Wrapped, q
  <2> QED
    BY <2>4, <2>6
<1>3. CASE rhs # 0 /\ ~(lhs <= SizeMax \div rhs)
  <2>1. CheckedMultiply(lhs, rhs) = Overflow
    BY <1>3, SizeAssumption DEF CheckedMultiply
  <2> QED
    BY <2>1
<1> QED
  BY <1>1, <1>2, <1>3

\* One pass of the loop of ComputeElementCount.
Times(count, dimension) ==
  IF count = Overflow THEN Overflow ELSE CheckedMultiply(count, dimension)

LEMMA CountIsExact ==
  ASSUME NEW shape \in Seq(Nat)
  PROVE  /\ ComputeElementCount(shape) \in (0 .. SizeMax) \cup {Overflow}
         /\ ComputeElementCount(shape) # Overflow =>
              ComputeElementCount(shape) = TrueCount(shape)
<1> DEFINE n == Len(shape)
           Counts == (0 .. SizeMax) \cup {Overflow}
           G(f) == [s \in SUBSET DOMAIN shape |->
                      IF s = {} THEN 1 ELSE f[s \ {Max(s)}] * shape[Max(s)]]
           H(f) == [s \in SUBSET DOMAIN shape |->
                      IF s = {} THEN 1 ELSE Times(f[s \ {Max(s)}], shape[Max(s)])]
           g == CHOOSE f : f = G(f)
           h == CHOOSE f : f = H(f)
<1>1. TrueCount(shape) = g[1 .. n] /\ ComputeElementCount(shape) = h[1 .. n]
  <2>1. DOMAIN shape = 1 .. n
    OBVIOUS
  <2>2. TrueCount(shape) = g[DOMAIN shape]
    BY DEF TrueCount, FoldLeft, MapThenFoldSet
  <2>3. ComputeElementCount(shape) = h[DOMAIN shape]
    BY DEF ComputeElementCount, FoldLeft, MapThenFoldSet, Times
  <2> QED
    BY <2>1, <2>2, <2>3
<1>2. n \in Nat /\ DOMAIN shape = 1 .. n /\ \A i \in 1 .. n : shape[i] \in Nat
  OBVIOUS
<1>3. \A s \in SUBSET (1 .. n) : s # {} => Max(s) \in 1 .. n /\ s \ {Max(s)} \in SUBSET (1 .. n)
  <2> HIDE DEF n
  <2> QED
    BY <1>2, Greatest
<1>4. g = G(g)
  <2> DEFINE step == [p \in Nat \X (1 .. n) |-> p[1] * shape[p[2]]]
  <2>1. step \in [Nat \X (1 .. n) -> Nat]
    BY <1>2
  <2>2. PICK f \in [SUBSET (1 .. n) -> Nat] : Folds(f, 1 .. n, 1, step)
    <3> HIDE DEF n, step
    <3> QED
      BY <1>2, <2>1, FoldExists
  <2>3. ASSUME NEW s \in SUBSET (1 .. n)
        PROVE  f[s] = IF s = {} THEN 1 ELSE f[s \ {Max(s)}] * shape[Max(s)]
    <3>1. CASE s = {}
      BY <2>2, <3>1 DEF Folds
    <3>2. CASE s # {}
      <4>1. f[s] = step[<<f[s \ {Max(s)}], Max(s)>>]
        BY <2>2, <3>2 DEF Folds
      <4>2. <<f[s \ {Max(s)}], Max(s)>> \in Nat \X (1 .. n)
        BY <1>3, <2>2, <3>2
      <4> QED
        BY <3>2, <4>1, <4>2
    <3> QED
      BY <3>1, <3>2
  <2>4. f = G(f)
    BY <1>2, <2>2, <2>3
  <2> HIDE DEF G
  <2> QED
    BY <2>4
<1>5. h = H(h)
  <2> DEFINE step == [p \in Counts \X (1 .. n) |-> Times(p[1], shape[p[2]])]
  <2>0. \A c \in Counts, d \in Nat : Times(c, d) \in Counts
    BY CheckedProduct DEF Times
  <2>1. step \in [Counts \X (1 .. n) -> Counts] /\ 1 \in Counts
    <3>1. 1 \in Counts
      BY SizeAssumption
    <3> HIDE DEF Counts, n
    <3> QED
      BY <1>2, <2>0, <3>1
  <2>2. PICK f \in [SUBSET (1 .. n) -> Counts] : Folds(f, 1 .. n, 1, step)
    <3> HIDE DEF n, step, Counts
    <3> QED
      BY <1>2, <2>1, FoldExists
  <2>3. ASSUME NEW s \in SUBSET (1 .. n)
        PROVE  f[s] = IF s = {} THEN 1 ELSE Times(f[s \ {Max(s)}], shape[Max(s)])
    <3>1. CASE s = {}
      BY <2>2, <3>1 DEF Folds
    <3>2. CASE s # {}
      <4>1. f[s] = step[<<f[s \ {Max(s)}], Max(s)>>]
        BY <2>2, <3>2 DEF Folds
      <4>2. <<f[s \ {Max(s)}], Max(s)>> \in Counts \X (1 .. n)
        BY <1>3, <2>2, <3>2
      <4> HIDE DEF Counts
      <4> QED
        BY <3>2, <4>1, <4>2
    <3> QED
      BY <3>1, <3>2
  <2>4. f = H(f)
    BY <1>2, <2>2, <2>3
  <2> HIDE DEF H
  <2> QED
    BY <2>4
<1> HIDE DEF g, h
<1>6. ASSUME NEW k \in 0 .. n - 1
      PROVE  /\ g[1 .. k + 1] = g[1 .. k] * shape[k + 1]
             /\ h[1 .. k + 1] = Times(h[1 .. k], shape[k + 1])
  <2> DEFINE s == 1 .. k + 1
  <2>1. s \in SUBSET (1 .. n) /\ s # {}
    <3> HIDE DEF n
    <3>1. k + 1 \in 1 .. n /\ 1 \in s
      BY <1>2
    <3> QED
      BY <1>2, <3>1
  <2>2. Max(s) = k + 1 /\ s \ {k + 1} = 1 .. k
    <3>1. k \in Nat
      BY <1>2
    <3> QED
      BY <3>1, GreatestOfPrefix
  <2> HIDE DEF s
  <2>3. g[s] = g[s \ {Max(s)}] * shape[Max(s)]
    BY <1>2, <1>4, <2>1
  <2>4. h[s] = Times(h[s \ {Max(s)}], shape[Max(s)])
    BY <1>2, <1>5, <2>1
  <2> QED
    BY <2>2, <2>3, <2>4 DEF s
<1>7. g[1 .. 0] = 1 /\ h[1 .. 0] = 1
  <2>1. 1 .. 0 = {} /\ {} \in SUBSET DOMAIN shape
    OBVIOUS
  <2> QED
    BY <1>4, <1>5, <2>1
<1> HIDE DEF G, H
<1> DEFINE Exact == {k \in 0 .. n : h[1 .. k] = Overflow \/
                                     (h[1 .. k] \in 0 .. SizeMax /\ h[1 .. k] = g[1 .. k])}
<1>8. 0 \in Exact
  BY <1>2, <1>7, SizeAssumption
<1>9. ASSUME NEW k \in 0 .. n - 1, k \in Exact
      PROVE  k + 1 \in Exact
  <2>1. k + 1 \in 1 .. n /\ shape[k + 1] \in Nat
    BY <1>2
  <2>2. CASE h[1 .. k] = Overflow
    BY <1>6, <2>1, <2>2 DEF Times
  <2>3. CASE h[1 .. k] # Overflow
    <3>1. h[1 .. k] \in 0 .. SizeMax /\ h[1 .. k] = g[1 .. k]
      BY <1>9, <2>3
    <3>2. h[1 .. k + 1] = CheckedMultiply(h[1 .. k], shape[k + 1])
      BY <1>6, <2>3 DEF Times
    <3>3. \/ h[1 .. k + 1] = Overflow
          \/ h[1 .. k + 1] \in 0 .. SizeMax /\ h[1 .. k + 1] = h[1 .. k] * shape[k + 1]
      BY <2>1, <3>1, <3>2, CheckedProduct
    <3> QED
      BY <1>6, <2>1, <3>1, <3>3
  <2> QED
    BY <2>2, <2>3
<1>10. n \in Exact
  <2> HIDE DEF Exact, n
  <2>1. 0 .. n \subseteq Exact
    BY <1>2, <1>8, <1>9, Reaches
  <2> QED
    BY <1>2, <2>1
<1> QED
  BY <1>1, <1>10

-----------------------------------------------------------------------------
(* run_ort_inference *)

OrtPlaces == {"parse", "load", "resolve", "prepare", "directory", "output", "write", "close",
              "ended"}

OrtTypes ==
  /\ at \in OrtPlaces
  /\ arguments \in CommandLines
  /\ model \in Models
  /\ next_output \in 1 .. OutputCount + 1
  /\ outputs \in [1 .. OutputCount -> {Missing, "old", "open", "buffered", "short", "whole"}]
  /\ exit \in {Missing, "0", "1", "2"}
  /\ exit # Missing => at = "ended"
  /\ at \notin {"parse", "ended"} => CombinationIsValid

\* The files before next_output are done, the others as they were, and status 1
\* is only given before the first of them is opened.
OutputInv ==
  /\ at \in {"parse", "load", "resolve", "prepare", "directory"} =>
       /\ next_output = 1
       /\ \A k \in 1 .. OutputCount : outputs[k] \in {Missing, "old"}
  /\ at \in {"output", "write", "close"} =>
       \A k \in 1 .. OutputCount :
         /\ ~arguments.output_dir => outputs[k] \in {Missing, "old"}
         /\ arguments.output_dir /\ k < next_output => outputs[k] \in {"short", "whole"}
  /\ at \in {"write", "close"} => arguments.output_dir /\ next_output <= OutputCount
  /\ at = "close" => outputs[next_output] \in {"buffered", "whole"}
  /\ StatusTellsOutputs

LEMMA OutputInvariance == OrtSpec => [](OrtTypes /\ OutputInv)
<1>1. OrtInit => OrtTypes /\ OutputInv
  BY OrtAssumption DEF OrtInit, OrtTypes, OrtPlaces, OutputInv, StatusTellsOutputs
<1>2. OrtTypes /\ OutputInv /\ [OrtNext]_ort => (OrtTypes /\ OutputInv)'
  <2> SUFFICES ASSUME OrtTypes, OutputInv, [OrtNext]_ort
               PROVE  (OrtTypes /\ OutputInv)'
    OBVIOUS
  <2> USE OrtAssumption DEF OrtTypes, OrtPlaces, OutputInv, StatusTellsOutputs
  <2>1. CASE ParseArguments
    BY <2>1 DEF ParseArguments, Advance, Leave, CombinationIsValid
  <2>2. CASE LoadModel
    BY <2>2 DEF LoadModel, Advance, Leave, CombinationIsValid
  <2>3. CASE ResolveSpecifications
    BY <2>3 DEF ResolveSpecifications, Advance, Leave, CombinationIsValid
  <2>4. CASE PrepareInput
    BY <2>4 DEF PrepareInput, Preparing, Advance, CombinationIsValid
  <2>5. CASE RefuseInput
    BY <2>5 DEF RefuseInput, Preparing, Leave, CombinationIsValid
  <2>6. CASE InputIsTooLarge
    BY <2>6 DEF InputIsTooLarge, Preparing, Leave, CombinationIsValid
  <2>7. CASE Infer
    BY <2>7 DEF Infer, Leave, CombinationIsValid
  <2>8. CASE MakeOutputDirectory
    BY <2>8 DEF MakeOutputDirectory, Advance, Leave, CombinationIsValid
  <2>9. CASE OpenOutput
    BY <2>9 DEF OpenOutput, EveryOutputDone, SetOutput, Leave, CombinationIsValid
  <2>10. CASE WriteOutput
    BY <2>10 DEF WriteOutput, SetOutput, CombinationIsValid
  <2>11. CASE WriteOutputFails
    BY <2>11 DEF WriteOutputFails, CombinationIsValid
  <2>12. CASE CloseOutput
    BY <2>12 DEF CloseOutput, SetOutput, CombinationIsValid
  <2>13. CASE Finish
    BY <2>13 DEF Finish, EveryOutputDone, Leave, CombinationIsValid
  <2>14. CASE UNCHANGED ort
    BY <2>14 DEF ort, CombinationIsValid
  <2> QED
    BY <2>1, <2>2, <2>3, <2>4, <2>5, <2>6, <2>7, <2>8, <2>9, <2>10, <2>11, <2>12, <2>13, <2>14
       DEF OrtNext
<1> QED
  BY <1>1, <1>2, PTL DEF OrtSpec

\* Where a command line can be resolved, it names for an input nothing, or the one
\* value that it is resolved to.
LEMMA ResolvedIsNamed ==
  ASSUME OrtTypes, NEW specifications, CanResolve(specifications, model), NEW k \in DOMAIN model
  PROVE  Named(specifications, model, k) =
           {Resolved(specifications, model, k)} \ {Missing}
<1> DEFINE given == {s \in DOMAIN specifications : Means(specifications[s], model, k)}
<1>1. model[k].name # "" /\ (Len(model) = 1 => k = 1)
  <2>1. model[k].name # ""
    <3>1. "" \notin Names(model)
      BY DEF CanResolve
    <3> QED
      BY <3>1 DEF Names
  <2>2. DOMAIN model = 1 .. Len(model)
    BY OrtAssumption DEF OrtTypes
  <2>3. Len(model) = 1 => DOMAIN model = 1 .. 1
    BY <2>2
  <2>4. Len(model) = 1 => k = 1
    <3> SUFFICES ASSUME Len(model) = 1
                 PROVE  k = 1
      OBVIOUS
    <3>1. k \in 1 .. 1
      BY <2>3
    <3> QED
      BY <3>1
  <2> QED
    BY <2>1, <2>4
<1>2. Named(specifications, model, k) = {specifications[s].value : s \in given}
  BY <1>1 DEF Named, Means
<1>3. \A r, s \in given : r = s
  BY DEF CanResolve
<1>4. \A s \in given : specifications[s].value # Missing
  BY DEF CanResolve, WellFormed
<1>5. CASE given = {}
  BY <1>2, <1>5 DEF Resolved
<1>6. CASE given # {}
  <2> DEFINE s == CHOOSE r \in given : TRUE
  <2>1. s \in given
    BY <1>6
  <2>2. Resolved(specifications, model, k) = specifications[s].value
    BY <1>6 DEF Resolved
  <2> HIDE DEF s, given
  <2>3. \A r \in given : r = s
    BY <1>3, <2>1
  <2>4. {specifications[r].value : r \in given} = {specifications[s].value}
    BY <2>1, <2>3
  <2> QED
    BY <1>2, <1>4, <2>1, <2>2, <2>4
<1> QED
  BY <1>5, <1>6

ShapeOf(k) ==
  IF Resolved(arguments.shapes, model, k) = Missing THEN model[k].shape
  ELSE Resolved(arguments.shapes, model, k)

\* The tensor that has been made for input k.
Prepared(k) ==
  LET file == Resolved(arguments.inputs, model, k)
      fill == Resolved(arguments.fills, model, k)
  IN  /\ inputs[k].name = model[k].name
      /\ model[k].dtype = "float32"
      /\ (file # Missing) # (fill # Missing)
      /\ inputs[k].from = IF fill = Missing THEN file ELSE fill
      /\ inputs[k].shape = ShapeOf(k)
      /\ \A d \in DOMAIN ShapeOf(k) : ShapeOf(k)[d] > 0
      /\ inputs[k].bytes # Overflow

InputInv ==
  /\ inputs \in Seq({inputs[k] : k \in DOMAIN inputs})
  /\ at \in {"parse", "load", "resolve"} => inputs = <<>>
  /\ at = "prepare" =>
       /\ CanResolve(arguments.inputs, model)
       /\ CanResolve(arguments.shapes, model)
       /\ CanResolve(arguments.fills, model)
       /\ Len(inputs) <= Len(model)
       /\ \A k \in 1 .. Len(inputs) : Prepared(k)
  /\ AcceptedInputsFitTheModel

\* A shape that is used consists of integers.
LEMMA ShapeType ==
  ASSUME OrtTypes, CanResolve(arguments.shapes, model), NEW k \in DOMAIN model
  PROVE  ShapeOf(k) \in Seq(Int)
<1> DEFINE override == Resolved(arguments.shapes, model, k)
<1>1. override # Missing => \E s \in DOMAIN arguments.shapes : override = arguments.shapes[s].value
  <2>1. override # Missing => override \in Named(arguments.shapes, model, k)
    BY ResolvedIsNamed
  <2> QED
    BY <2>1 DEF Named
<1>2. override # Missing => override \in Seq(Int)
  BY <1>1, OrtAssumption DEF OrtTypes
<1>3. model[k].shape \in Seq(Int)
  BY OrtAssumption DEF OrtTypes
<1> QED
  BY <1>2, <1>3 DEF ShapeOf

LEMMA AppendToItself ==
  ASSUME NEW s, s \in Seq({s[k] : k \in DOMAIN s}), NEW x, NEW t, t = Append(s, x)
  PROVE  /\ t \in Seq({t[k] : k \in DOMAIN t})
         /\ Len(t) = Len(s) + 1
         /\ \A k \in 1 .. Len(s) : t[k] = s[k]
         /\ t[Len(s) + 1] = x
<1> DEFINE S == {s[k] : k \in DOMAIN s}
<1>1. s \in Seq(S \cup {x})
  OBVIOUS
<1> HIDE DEF S
<1>2. /\ t \in Seq(S \cup {x}) /\ Len(t) = Len(s) + 1 /\ Len(s) \in Nat
      /\ \A k \in 1 .. Len(s) : t[k] = s[k]
      /\ t[Len(s) + 1] = x
  BY <1>1
<1>3. t \in Seq({t[k] : k \in DOMAIN t})
  BY <1>2
<1> QED
  BY <1>2, <1>3

LEMMA PreparingKeepsInputs ==
  ASSUME OrtTypes, InputInv, PrepareInput
  PROVE  InputInv'
<1> DEFINE n == Len(inputs) + 1
<1>1. /\ at = "prepare" /\ at' = "prepare" /\ n <= Len(model)
      /\ UNCHANGED <<arguments, model, raw, ordered>>
      /\ Usable /\ Count # Overflow
      /\ inputs' = Append(inputs,
           [name |-> Info.name, dtype |-> "float32", shape |-> Shape,
            bytes |-> Wrapped(Count * FloatSize), from |-> IF Fill = Missing THEN File ELSE Fill])
  BY DEF PrepareInput, Preparing, Advance, This
<1>2. /\ inputs' \in Seq({inputs'[k] : k \in DOMAIN inputs'})
      /\ Len(inputs') = n /\ Len(inputs) \in Nat
      /\ \A k \in 1 .. Len(inputs) : inputs'[k] = inputs[k]
      /\ inputs'[n] =
           [name |-> Info.name, dtype |-> "float32", shape |-> Shape,
            bytes |-> Wrapped(Count * FloatSize), from |-> IF Fill = Missing THEN File ELSE Fill]
  <2> DEFINE tensor == [name |-> Info.name, dtype |-> "float32", shape |-> Shape,
                        bytes |-> Wrapped(Count * FloatSize),
                        from |-> IF Fill = Missing THEN File ELSE Fill]
  <2>1. inputs' = Append(inputs, tensor)
    BY <1>1
  <2>2. inputs \in Seq({inputs[k] : k \in DOMAIN inputs})
    BY DEF InputInv
  <2>3. Len(inputs) \in Nat
    BY <2>2
  <2> HIDE DEF tensor
  <2>4. /\ inputs' \in Seq({inputs'[k] : k \in DOMAIN inputs'})
        /\ Len(inputs') = Len(inputs) + 1
        /\ \A k \in 1 .. Len(inputs) : inputs'[k] = inputs[k]
        /\ inputs'[Len(inputs) + 1] = tensor
    BY <2>1, <2>2, AppendToItself
  <2> QED
    BY <2>3, <2>4 DEF tensor
<1>3. n \in DOMAIN model
  BY <1>1, <1>2, OrtAssumption DEF OrtTypes
<1>4. /\ Info = model[n] /\ Shape = ShapeOf(n)
      /\ File = Resolved(arguments.inputs, model, n)
      /\ Fill = Resolved(arguments.fills, model, n)
  BY DEF Info, This, Shape, Override, ShapeOf, File, Fill
<1>5. ASSUME NEW k \in 1 .. Len(inputs')
      PROVE  Prepared(k)'
  <2>1. ShapeOf(k)' = ShapeOf(k)
    BY <1>1 DEF ShapeOf
  <2>2. CASE k \in 1 .. Len(inputs)
    BY <1>1, <1>2, <2>1, <2>2 DEF InputInv, Prepared
  <2>3. CASE k = n
    <3>1. Wrapped(Count * FloatSize) # Overflow
      <4>1. Shape \in Seq(Int) /\ \A d \in DOMAIN Shape : Shape[d] > 0
        BY <1>1, <1>3, <1>4, ShapeType DEF InputInv, Usable, ResolveShape
      <4>2. Shape \in Seq(Nat)
        BY <4>1
      <4>3. Count \in 0 .. SizeMax
        BY <1>1, <4>2, CountIsExact DEF Count
      <4>4. Count * FloatSize \in Nat
        BY <4>3, SizeAssumption
      <4> HIDE DEF Count
      <4> QED
        BY <4>4, SizeAssumption DEF Wrapped
    <3>2. /\ Info.dtype = "float32" /\ (File # Missing) # (Fill # Missing)
          /\ \A d \in DOMAIN Shape : Shape[d] > 0
      BY <1>1 DEF Usable, ResolveShape
    <3> QED
      BY <1>1, <1>2, <1>4, <2>1, <2>3, <3>1, <3>2 DEF Prepared
  <2> QED
    BY <1>2, <2>2, <2>3
<1>6. AcceptedInputsFitTheModel'
  BY <1>1 DEF InputInv, AcceptedInputsFitTheModel
<1>7. /\ CanResolve(arguments.inputs, model)'
      /\ CanResolve(arguments.shapes, model)'
      /\ CanResolve(arguments.fills, model)'
  BY <1>1 DEF InputInv
<1>8. (Len(inputs) <= Len(model))'
  BY <1>1, <1>2
<1> QED
  BY <1>1, <1>2, <1>5, <1>6, <1>7, <1>8 DEF InputInv

\* Views that pass the checks of the backend are those of the contract.
LEMMA InferringFits ==
  ASSUME OrtTypes, InputInv, at = "prepare", Len(inputs) = Len(model), ViewsFit,
         ordered' = OrderInputViews(model, inputs), UNCHANGED <<arguments, model>>
  PROVE  AcceptedInputsFitTheModel'
<1>1. /\ model \in Seq({model[k] : k \in DOMAIN model})
      /\ inputs \in Seq({inputs[k] : k \in DOMAIN inputs})
      /\ DOMAIN model = 1 .. Len(model) /\ DOMAIN inputs = DOMAIN model
  BY OrtAssumption DEF OrtTypes, InputInv
<1>2. \A k \in DOMAIN model : Prepared(k)
  BY <1>1 DEF InputInv
<1>3. /\ "" \notin Names(model)
      /\ \A j, k \in DOMAIN model : model[j].name = model[k].name => j = k
  BY DEF InputInv, CanResolve
<1>10. \A k \in DOMAIN model : inputs[k].name = model[k].name
  BY <1>2 DEF Prepared
<1>4. "" \notin Names(inputs)
  <2>1. \A k \in DOMAIN model : model[k].name # ""
    BY <1>3 DEF Names
  <2> QED
    BY <1>1, <1>10, <2>1 DEF Names
<1>5. ordered' = [k \in DOMAIN model |-> inputs[k]]
  <2>1. ASSUME NEW k \in DOMAIN model
        PROVE  (CHOOSE j \in DOMAIN inputs : inputs[j].name = model[k].name) = k
    <3>1. k \in DOMAIN inputs /\ inputs[k].name = model[k].name
      BY <1>1, <1>10
    <3>2. \A j \in DOMAIN inputs : inputs[j].name = model[k].name => j = k
      BY <1>1, <1>3, <1>10
    <3> QED
      BY <3>1, <3>2
  <2>2. OrderInputViews(model, inputs) = [k \in DOMAIN model |-> inputs[k]]
    <3> DEFINE Place(k) == CHOOSE j \in DOMAIN inputs : inputs[j].name = model[k].name
    <3>1. OrderInputViews(model, inputs) = [k \in DOMAIN model |-> inputs[Place(k)]]
      BY <1>4 DEF OrderInputViews
    <3>2. \A k \in DOMAIN model : Place(k) = k
      BY <2>1
    <3> HIDE DEF Place
    <3> QED
      BY <3>1, <3>2
  <2> QED
    BY <2>2
<1>6. Len(ordered') = Len(model')
  BY <1>1, <1>5
<1>7. ASSUME NEW k \in DOMAIN model
      PROVE  /\ inputs[k].name = model[k].name /\ model[k].dtype = "float32"
             /\ Named(arguments.inputs, model, k) \cup Named(arguments.fills, model, k)
                  = {inputs[k].from}
             /\ Named(arguments.shapes, model, k) \subseteq {inputs[k].shape}
             /\ Len(inputs[k].shape) = Len(model[k].shape)
             /\ \A d \in DOMAIN inputs[k].shape :
                  /\ inputs[k].shape[d] > 0
                  /\ model[k].shape[d] >= 0 => model[k].shape[d] = inputs[k].shape[d]
             /\ inputs[k].bytes = TrueCount(inputs[k].shape) * FloatSize
  <2>1. Prepared(k)
    BY <1>2
  <2>2. /\ IsShapeCompatible(model[k].shape, inputs[k].shape)
        /\ inputs[k].bytes = ComputeByteCount(inputs[k].shape)
    BY <1>5 DEF ViewsFit, ValidHostTensorView
  <2>3. Named(arguments.inputs, model, k) \cup Named(arguments.fills, model, k) = {inputs[k].from}
    <3>1. /\ Named(arguments.inputs, model, k) = {Resolved(arguments.inputs, model, k)} \ {Missing}
          /\ Named(arguments.fills, model, k) = {Resolved(arguments.fills, model, k)} \ {Missing}
      BY ResolvedIsNamed DEF InputInv
    <3> QED
      BY <2>1, <3>1 DEF Prepared
  <2>4. Named(arguments.shapes, model, k) \subseteq {inputs[k].shape}
    <3>1. Named(arguments.shapes, model, k) = {Resolved(arguments.shapes, model, k)} \ {Missing}
      BY ResolvedIsNamed DEF InputInv
    <3> QED
      BY <2>1, <3>1 DEF Prepared, ShapeOf
  <2>5. /\ inputs[k].shape \in Seq(Int) /\ model[k].shape \in Seq(Int)
        /\ \A d \in DOMAIN inputs[k].shape : inputs[k].shape[d] > 0
    BY <2>1, ShapeType, OrtAssumption DEF Prepared, InputInv, OrtTypes
  <2>6. inputs[k].shape \in Seq(Nat)
    BY <2>5
  <2>7. inputs[k].bytes = TrueCount(inputs[k].shape) * FloatSize
    <3> DEFINE shape == inputs[k].shape
               count == ComputeElementCount(shape)
    <3>1. inputs[k].bytes # Overflow
      BY <2>1 DEF Prepared
    <3>2. count \in 0 .. SizeMax /\ count = TrueCount(shape)
      BY <2>2, <2>6, <3>1, CountIsExact DEF ComputeByteCount
    <3>3. inputs[k].bytes = CheckedMultiply(count, FloatSize)
      BY <2>2, <3>1 DEF ComputeByteCount
    <3> HIDE DEF count, shape
    <3> QED
      BY <3>1, <3>2, <3>3, CheckedProduct, SizeAssumption DEF shape
  <2>8. /\ Len(inputs[k].shape) = Len(model[k].shape)
        /\ \A d \in DOMAIN inputs[k].shape :
             model[k].shape[d] >= 0 => model[k].shape[d] = inputs[k].shape[d]
    BY <2>2, <2>5 DEF IsShapeCompatible
  <2> QED
    BY <2>1, <2>3, <2>4, <2>5, <2>7, <2>8 DEF Prepared
<1> QED
  BY <1>5, <1>6, <1>7 DEF AcceptedInputsFitTheModel

LEMMA InputInvariance == OrtSpec => []InputInv
<1>1. OrtInit => InputInv
  <2>1. <<>> \in Seq({<<>>[k] : k \in DOMAIN <<>>})
    OBVIOUS
  <2> QED
    BY <2>1 DEF OrtInit, InputInv, AcceptedInputsFitTheModel
<1>2. OrtTypes /\ InputInv /\ [OrtNext]_ort => InputInv'
  <2> SUFFICES ASSUME OrtTypes, InputInv, [OrtNext]_ort
               PROVE  InputInv'
    OBVIOUS
  <2>1. ASSUME UNCHANGED <<arguments, model, inputs, ordered>>,
               at' # "prepare" \/ UNCHANGED at,
               at' \in {"parse", "load", "resolve"} => inputs = <<>>
        PROVE  InputInv'
    <3>1. AcceptedInputsFitTheModel'
      BY <2>1 DEF InputInv, AcceptedInputsFitTheModel
    <3>2. ASSUME at' = "prepare", NEW k \in 1 .. Len(inputs)
          PROVE  Prepared(k)'
      <4>1. Prepared(k)
        BY <2>1, <3>2 DEF InputInv
      <4> QED
        BY <2>1, <4>1 DEF Prepared, ShapeOf
    <3>3. at' = "prepare" =>
            (/\ CanResolve(arguments.inputs, model)
             /\ CanResolve(arguments.shapes, model)
             /\ CanResolve(arguments.fills, model)
             /\ Len(inputs) <= Len(model))'
      BY <2>1 DEF InputInv
    <3> QED
      BY <2>1, <3>1, <3>2, <3>3 DEF InputInv
  <2>2. CASE ParseArguments
    BY <2>1, <2>2 DEF ParseArguments, Advance, Leave, InputInv
  <2>3. CASE LoadModel
    BY <2>1, <2>3 DEF LoadModel, Advance, Leave, InputInv
  <2>4. CASE ResolveSpecifications
    <3>1. CASE /\ at = "resolve" /\ Advance("prepare") /\ UNCHANGED inputs
               /\ CanResolve(arguments.inputs, model)
               /\ CanResolve(arguments.shapes, model)
               /\ CanResolve(arguments.fills, model)
      <4>1. inputs' = <<>> /\ Len(model) \in Nat
        BY <3>1, OrtAssumption DEF InputInv, OrtTypes
      <4> QED
        <5>1. AcceptedInputsFitTheModel'
          BY <3>1 DEF Advance, InputInv, AcceptedInputsFitTheModel
        <5>2. /\ UNCHANGED <<arguments, model>> /\ at' = "prepare"
              /\ Len(inputs') = 0 /\ 1 .. Len(inputs') = {}
          BY <3>1, <4>1 DEF Advance
        <5>3. /\ CanResolve(arguments.inputs, model)'
              /\ CanResolve(arguments.shapes, model)'
              /\ CanResolve(arguments.fills, model)'
          BY <3>1, <5>2
        <5>4. (inputs \in Seq({inputs[k] : k \in DOMAIN inputs}))'
          BY <3>1 DEF InputInv
        <5> QED
          BY <4>1, <5>1, <5>2, <5>3, <5>4 DEF InputInv
    <3> QED
      BY <2>1, <2>4, <3>1 DEF ResolveSpecifications, Leave, InputInv
  <2>5. CASE PrepareInput
    BY <2>5, PreparingKeepsInputs
  <2>6. CASE RefuseInput
    BY <2>1, <2>6 DEF RefuseInput, Leave
  <2>7. CASE InputIsTooLarge
    BY <2>1, <2>7 DEF InputIsTooLarge, Leave
  <2>8. CASE Infer
    <3>1. CASE /\ at = "prepare" /\ Len(inputs) = Len(model) /\ ViewsFit /\ at' = "directory"
               /\ ordered' = OrderInputViews(model, inputs)
               /\ UNCHANGED <<arguments, model, inputs>>
      BY <3>1, InferringFits DEF InputInv
    <3> QED
      BY <2>1, <2>8, <3>1 DEF Infer, Leave
  <2>9. CASE MakeOutputDirectory
    BY <2>1, <2>9 DEF MakeOutputDirectory, Advance, Leave
  <2>10. CASE OpenOutput
    BY <2>1, <2>10 DEF OpenOutput, SetOutput, Leave
  <2>11. CASE WriteOutput
    BY <2>1, <2>11 DEF WriteOutput, SetOutput
  <2>12. CASE WriteOutputFails
    BY <2>1, <2>12 DEF WriteOutputFails
  <2>13. CASE CloseOutput
    BY <2>1, <2>13 DEF CloseOutput, SetOutput
  <2>14. CASE Finish
    BY <2>1, <2>14 DEF Finish, Leave
  <2>15. CASE UNCHANGED ort
    BY <2>1, <2>15 DEF ort, InputInv
  <2> QED
    BY <2>2, <2>3, <2>4, <2>5, <2>6, <2>7, <2>8, <2>9, <2>10, <2>11, <2>12, <2>13, <2>14, <2>15
       DEF OrtNext
<1> QED
  BY <1>1, <1>2, OutputInvariance, PTL DEF OrtSpec

\* Whatever the model, the command line, the raw files and the width of size_t:
\* the tensors a backend is given are those the model's contract and the command
\* line ask for, and their sizes have not wrapped around.
THEOREM InputsFit == OrtSpec => []AcceptedInputsFitTheModel
  BY InputInvariance, PTL DEF InputInv

\* For any number of outputs: status 1 means that no output file was touched, and
\* status 0 that all were opened anew and closed again if they were asked for.
THEOREM StatusIsTruthful == OrtSpec => []StatusTellsOutputs
  BY OutputInvariance, PTL DEF OutputInv

-----------------------------------------------------------------------------
(* Quotients *)

\* A smaller multiple is smaller by one multiple at least.
LEMMA Grows ==
  ASSUME NEW a \in Int, NEW b \in Int, NEW m \in Nat, a < b
  PROVE  a * m + m <= b * m
<1>1. PICK d \in Nat : b = a + 1 + d
  <2>1. b - a - 1 \in Nat /\ b = a + 1 + (b - a - 1)
    OBVIOUS
  <2> QED
    BY <2>1
<1>2. b * m = a * m + m + d * m /\ d * m >= 0
  BY <1>1
<1> QED
  BY <1>2

\* What division with a remainder finds is the only one.
LEMMA Division ==
  ASSUME NEW q \in Int, NEW m \in Nat \ {0}, NEW s \in 0 .. m - 1
  PROVE  (q * m + s) \div m = q /\ (q * m + s) % m = s
<1> DEFINE x == q * m + s
           u == x \div m
           v == x % m
<1>1. x \in Int /\ u \in Int /\ v \in 0 .. m - 1 /\ x = u * m + v
  <2>1. x \in Int
    OBVIOUS
  <2> HIDE DEF x
  <2> QED
    BY <2>1
<1> HIDE DEF x, u, v
<1>2. x = q * m + s /\ q * m \in Int /\ u * m \in Int
  BY <1>1 DEF x
<1>3. ~(u < q)
  <2>1. SUFFICES ASSUME u < q
                 PROVE  FALSE
    OBVIOUS
  <2>2. u * m + m <= q * m
    BY <1>1, <2>1, Grows
  <2> QED
    BY <1>1, <1>2, <2>2
<1>4. ~(q < u)
  <2>1. SUFFICES ASSUME q < u
                 PROVE  FALSE
    OBVIOUS
  <2>2. q * m + m <= u * m
    BY <1>1, <2>1, Grows
  <2> QED
    BY <1>1, <1>2, <2>2
<1>5. u = q
  BY <1>1, <1>3, <1>4
<1>6. v = s
  <2> DEFINE y == q * m
  <2>1. y \in Int /\ x = y + s /\ x = y + v /\ s \in Int /\ v \in Int
    BY <1>1, <1>2, <1>5
  <2> HIDE DEF y
  <2> QED
    BY <2>1
<1> QED
  BY <1>5, <1>6 DEF x, u, v

\* A number is its quotient and its remainder.
LEMMA Quotient ==
  ASSUME NEW x \in Nat, NEW m \in Nat \ {0}
  PROVE  /\ x \div m \in Nat /\ x % m \in 0 .. m - 1
         /\ x = (x \div m) * m + (x % m)
  OBVIOUS

\* Dividing by a product is dividing twice.
QuotientTwice(x, m, n) == (x \div n) \div m = x \div (m * n) /\ m * n \in Nat \ {0}

LEMMA QuotientOfQuotient ==
  ASSUME NEW x \in Nat, NEW m \in Nat \ {0}, NEW n \in Nat \ {0}
  PROVE  QuotientTwice(x, m, n)
<1> DEFINE u == x \div n
           s == x % n
           q == u \div m
           t == u % m
<1>1. u \in Nat /\ s \in 0 .. n - 1 /\ x = u * n + s
  BY Quotient
<1>2. q \in Nat /\ t \in 0 .. m - 1 /\ u = q * m + t
  <2> HIDE DEF u
  <2> QED
    BY <1>1, Quotient
<1> HIDE DEF u, s, q, t
<1>3. m * n \in Nat \ {0}
  OBVIOUS
<1>4. x = q * (m * n) + (t * n + s)
  <2>1. (q * m + t) * n = q * (m * n) + t * n
    BY <1>2
  <2> QED
    BY <1>1, <1>2, <2>1
<1>5. t * n + s \in 0 .. (m * n) - 1
  <2>1. t * n + n <= m * n /\ t * n \in Nat
    BY <1>2, Grows
  <2> QED
    BY <1>1, <1>3, <2>1
<1>6. x \div (m * n) = q
  <2> DEFINE M == m * n
             z == t * n + s
  <2>1. M \in Nat \ {0} /\ z \in 0 .. M - 1 /\ x = q * M + z
    BY <1>3, <1>4, <1>5
  <2> HIDE DEF M, z
  <2>2. x \div M = q
    BY <1>2, <2>1, Division
  <2> QED
    BY <2>2 DEF M
<1> QED
  BY <1>3, <1>6 DEF q, u, QuotientTwice

\* A digit does not depend on what stands above it.
SameDigit(X, K, m, E, i) == ((X * (K * m * E) + i) \div E) % m = (i \div E) % m

LEMMA LowDigit ==
  ASSUME NEW X \in Nat, NEW K \in Nat, NEW m \in Nat \ {0}, NEW E \in Nat \ {0}, NEW i \in Nat
  PROVE  SameDigit(X, K, m, E, i)
<1> DEFINE u == i \div E
           s == i % E
           q == u \div m
           t == u % m
<1>1. u \in Nat /\ s \in 0 .. E - 1 /\ i = u * E + s
  BY Quotient
<1>2. q \in Nat /\ t \in 0 .. m - 1 /\ u = q * m + t
  <2> HIDE DEF u
  <2> QED
    BY <1>1, Quotient
<1> HIDE DEF u, s, q, t
<1> DEFINE h == X * K
<1>3. h \in Nat
  OBVIOUS
<1> DEFINE v == h * m + u
            w == h + q
<1>4. X * (K * m * E) + i = v * E + s /\ v \in Nat
  <2>1. X * (K * m * E) = h * m * E
    OBVIOUS
  <2>2. v * E = h * m * E + u * E
    <3> HIDE DEF h
    <3> QED
      BY <1>1, <1>3
  <2>3. v \in Nat
    <3> HIDE DEF h
    <3> QED
      BY <1>1, <1>3
  <2>4. h * m * E \in Nat /\ u * E \in Nat
    <3> HIDE DEF h
    <3> QED
      BY <1>1, <1>3
  <2> HIDE DEF v, h
  <2> QED
    BY <1>1, <2>1, <2>2, <2>3, <2>4
<1>5. (X * (K * m * E) + i) \div E = v
  <2> HIDE DEF v
  <2> QED
    BY <1>1, <1>4, Division
<1>6. v = w * m + t /\ w \in Nat
  <2> HIDE DEF h
  <2>1. w \in Nat /\ w * m = h * m + q * m
    BY <1>2, <1>3
  <2>2. v = h * m + u /\ u = q * m + t
    BY <1>2
  <2>3. h * m \in Int /\ q * m \in Int /\ t \in Int /\ u \in Int
    BY <1>1, <1>2, <1>3
  <2> HIDE DEF v, w
  <2> QED
    BY <2>1, <2>2, <2>3
<1>7. v % m = t
  <2> HIDE DEF v, w
  <2> QED
    BY <1>2, <1>6, Division
<1> HIDE DEF v
<1> QED
  BY <1>5, <1>7 DEF t, u, SameDigit

\* One step of counting a number from its digits.
CountsOn(r, m, R) == (r \div (m * R)) * m + ((r \div R) % m) = r \div R

LEMMA NextDigit ==
  ASSUME NEW r \in Nat, NEW m \in Nat \ {0}, NEW R \in Nat \ {0}
  PROVE  CountsOn(r, m, R)
<1>0. (r \div R) \div m = r \div (m * R)
  <2>1. QuotientTwice(r, m, R)
    BY QuotientOfQuotient
  <2> QED
    BY <2>1 DEF QuotientTwice
<1> DEFINE u == r \div R
<1>1. u \in Nat
  BY Quotient
<1>2. u \div m = r \div (m * R)
  BY <1>0
<1> HIDE DEF u
<1>3. (u \div m) * m + (u % m) = u
  BY <1>1, Quotient
<1> QED
  BY <1>2, <1>3 DEF u, CountsOn

-----------------------------------------------------------------------------
(* Products of dimensions *)

\* The products of the first 0, 1, ... dimensions.
Products(shape, P) ==
  /\ P \in [0 .. Len(shape) -> Nat]
  /\ P[0] = 1
  /\ \A k \in 0 .. Len(shape) - 1 : P[k + 1] = P[k] * shape[k + 1]

\* TrueCount is the last of those products.
LEMMA CountIsProduct ==
  ASSUME NEW shape \in Seq(Nat)
  PROVE  \E P : Products(shape, P) /\ TrueCount(shape) = P[Len(shape)]
<1> DEFINE n == Len(shape)
           G(f) == [s \in SUBSET DOMAIN shape |->
                      IF s = {} THEN 1 ELSE f[s \ {Max(s)}] * shape[Max(s)]]
           g == CHOOSE f : f = G(f)
<1>1. TrueCount(shape) = g[1 .. n]
  <2>1. DOMAIN shape = 1 .. n
    OBVIOUS
  <2>2. TrueCount(shape) = g[DOMAIN shape]
    BY DEF TrueCount, FoldLeft, MapThenFoldSet
  <2> QED
    BY <2>1, <2>2
<1>2. n \in Nat /\ DOMAIN shape = 1 .. n /\ \A i \in 1 .. n : shape[i] \in Nat
  OBVIOUS
<1>3. \A s \in SUBSET (1 .. n) : s # {} => Max(s) \in 1 .. n /\ s \ {Max(s)} \in SUBSET (1 .. n)
  <2> HIDE DEF n
  <2> QED
    BY <1>2, Greatest
<1> DEFINE step == [p \in Nat \X (1 .. n) |-> p[1] * shape[p[2]]]
<1>4. PICK f \in [SUBSET (1 .. n) -> Nat] : Folds(f, 1 .. n, 1, step)
  <2>1. step \in [Nat \X (1 .. n) -> Nat]
    BY <1>2
  <2> HIDE DEF n, step
  <2> QED
    BY <1>2, <2>1, FoldExists
<1>5. ASSUME NEW s \in SUBSET (1 .. n)
      PROVE  f[s] = IF s = {} THEN 1 ELSE f[s \ {Max(s)}] * shape[Max(s)]
  <2>1. CASE s = {}
    BY <1>4, <2>1 DEF Folds
  <2>2. CASE s # {}
    <3>1. f[s] = step[<<f[s \ {Max(s)}], Max(s)>>]
      BY <1>4, <2>2 DEF Folds
    <3>2. <<f[s \ {Max(s)}], Max(s)>> \in Nat \X (1 .. n)
      BY <1>3, <1>4, <2>2
    <3> QED
      BY <2>2, <3>1, <3>2
  <2> QED
    BY <2>1, <2>2
<1>6. f = G(f)
  BY <1>2, <1>4, <1>5
<1>7. g = G(g)
  <2> HIDE DEF G
  <2> QED
    BY <1>6
<1> HIDE DEF g
<1>8. \A s \in SUBSET (1 .. n) : g[s] = IF s = {} THEN 1 ELSE g[s \ {Max(s)}] * shape[Max(s)]
  BY <1>2, <1>7
<1> DEFINE P == [k \in 0 .. n |-> g[1 .. k]]
<1>9. P[0] = 1
  <2>1. 1 .. 0 = {} /\ {} \in SUBSET (1 .. n) /\ 0 \in 0 .. n
    BY <1>2
  <2> QED
    BY <1>8, <2>1
<1>10. ASSUME NEW k \in 0 .. n - 1
       PROVE  P[k + 1] = P[k] * shape[k + 1]
  <2> DEFINE s == 1 .. k + 1
  <2>0. k \in 0 .. n /\ k + 1 \in 0 .. n
    BY <1>2
  <2>1. s \in SUBSET (1 .. n) /\ s # {}
    <3> HIDE DEF n
    <3>1. k \in Nat /\ k + 1 \in 1 .. n /\ 1 \in s
      BY <1>2
    <3>2. \A i \in 1 .. k + 1 : i \in 1 .. n
      BY <1>2, <3>1
    <3> QED
      BY <3>1, <3>2
  <2>2. Max(s) = k + 1 /\ s \ {k + 1} = 1 .. k
    <3>1. k \in Nat
      BY <1>2
    <3> QED
      BY <3>1, GreatestOfPrefix
  <2> HIDE DEF s
  <2>3. g[s] = g[s \ {Max(s)}] * shape[Max(s)]
    BY <1>8, <2>1
  <2> QED
    BY <2>0, <2>2, <2>3 DEF s
<1>11. P \in [0 .. n -> Nat]
  <2> DEFINE S == {k \in 0 .. n : P[k] \in Nat}
  <2>1. 0 \in S
    BY <1>2, <1>9
  <2>2. ASSUME NEW k \in 0 .. n - 1, k \in S
        PROVE  k + 1 \in S
    <3>1. k + 1 \in 1 .. n /\ k + 1 \in 0 .. n /\ P[k] \in Nat /\ shape[k + 1] \in Nat
      BY <1>2, <2>2
    <3> HIDE DEF P
    <3> QED
      BY <1>10, <3>1
  <2>3. 0 .. n \subseteq S
    <3> HIDE DEF S, n
    <3> QED
      BY <1>2, <2>1, <2>2, Reaches
  <2>4. \A k \in 0 .. n : P[k] \in Nat
    BY <2>3
  <2> QED
    BY <2>4
<1>12. P[n] = g[1 .. n]
  BY <1>2
<1>13. Products(shape, P)
  <2> HIDE DEF P
  <2> QED
    BY <1>9, <1>10, <1>11 DEF Products
<1> HIDE DEF P
<1> QED
  BY <1>1, <1>12, <1>13

\* Shapes that are put one after the other multiply.
LEMMA CountOfJoined ==
  ASSUME NEW x \in Seq(Nat), NEW y \in Seq(Nat)
  PROVE  TrueCount(x \o y) = TrueCount(x) * TrueCount(y) /\ TrueCount(x \o y) \in Nat
<1> DEFINE z == x \o y
           m == Len(x)
           n == Len(y)
<1>1. /\ z \in Seq(Nat) /\ Len(z) = m + n /\ m \in Nat /\ n \in Nat
      /\ \A k \in 1 .. m : z[k] = x[k]
      /\ \A k \in 1 .. n : z[m + k] = y[k]
      /\ \A k \in 1 .. m : x[k] \in Nat
      /\ \A k \in 1 .. n : y[k] \in Nat
  OBVIOUS
<1> HIDE DEF z
<1>2. PICK X : Products(x, X) /\ TrueCount(x) = X[Len(x)]
  BY CountIsProduct
<1>3. PICK Y : Products(y, Y) /\ TrueCount(y) = Y[Len(y)]
  BY CountIsProduct
<1>4. PICK Z : Products(z, Z) /\ TrueCount(z) = Z[Len(z)]
  BY <1>1, CountIsProduct
<1> HIDE DEF m, n
<1>5. /\ X \in [0 .. m -> Nat] /\ X[0] = 1
      /\ \A k \in 0 .. m - 1 : X[k + 1] = X[k] * x[k + 1]
  BY <1>2 DEF Products, m
<1>6. /\ Y \in [0 .. n -> Nat] /\ Y[0] = 1
      /\ \A k \in 0 .. n - 1 : Y[k + 1] = Y[k] * y[k + 1]
  BY <1>3 DEF Products, n
<1>7. /\ Z \in [0 .. m + n -> Nat] /\ Z[0] = 1
      /\ \A k \in 0 .. m + n - 1 : Z[k + 1] = Z[k] * z[k + 1]
  BY <1>1, <1>4 DEF Products
<1>8. Z[m] = X[m]
  <2> DEFINE S == {k \in 0 .. m : Z[k] = X[k]}
  <2>1. 0 \in S
    BY <1>1, <1>5, <1>7
  <2>2. ASSUME NEW k \in 0 .. m - 1, k \in S
        PROVE  k + 1 \in S
    <3>1. k + 1 \in 1 .. m /\ k + 1 \in 0 .. m /\ k \in 0 .. m + n - 1 /\ Z[k] = X[k]
      BY <1>1, <2>2
    <3>2. Z[k + 1] = Z[k] * z[k + 1] /\ X[k + 1] = X[k] * x[k + 1] /\ z[k + 1] = x[k + 1]
      BY <1>1, <1>5, <1>7, <3>1
    <3> QED
      BY <3>1, <3>2
  <2> HIDE DEF S
  <2>3. 0 .. m \subseteq S
    BY <1>1, <2>1, <2>2, Reaches
  <2> QED
    BY <1>1, <2>3 DEF S
<1>9. Z[m + n] = X[m] * Y[n]
  <2> DEFINE S == {k \in 0 .. n : Z[m + k] = X[m] * Y[k]}
  <2>0. X[m] \in Nat
    BY <1>1, <1>5
  <2>1. 0 \in S
    <3>1. m + 0 = m /\ X[m] * 1 = X[m]
      BY <1>1, <2>0
    <3> QED
      BY <1>1, <1>6, <1>8, <3>1
  <2>2. ASSUME NEW k \in 0 .. n - 1, k \in S
        PROVE  k + 1 \in S
    <3>1. k + 1 \in 1 .. n /\ k + 1 \in 0 .. n /\ m + k \in 0 .. m + n - 1 /\ Z[m + k] = X[m] * Y[k]
          /\ (m + k) + 1 = m + (k + 1) /\ k \in 0 .. n
      BY <1>1, <2>2
    <3>2. Z[m + (k + 1)] = Z[m + k] * z[m + (k + 1)] /\ z[m + (k + 1)] = y[k + 1]
      BY <1>1, <1>7, <3>1
    <3>3. Y[k + 1] = Y[k] * y[k + 1] /\ Y[k] \in Nat /\ y[k + 1] \in Nat
      BY <1>1, <1>6, <3>1
    <3>4. (X[m] * Y[k]) * y[k + 1] = X[m] * (Y[k] * y[k + 1])
      BY <2>0, <3>3
    <3> QED
      BY <3>1, <3>2, <3>3, <3>4
  <2> HIDE DEF S
  <2>3. 0 .. n \subseteq S
    BY <1>1, <2>1, <2>2, Reaches
  <2> QED
    BY <1>1, <2>3 DEF S
<1>10. X[m] \in Nat /\ Y[n] \in Nat
  BY <1>1, <1>5, <1>6
<1>11. X[m] * Y[n] \in Nat
  BY <1>10
<1> QED
  BY <1>1, <1>2, <1>3, <1>4, <1>9, <1>11 DEF m, n, z

\* No dimension, and one.
LEMMA CountOfFew ==
  /\ TrueCount(<<>>) = 1
  /\ \A v \in Nat : TrueCount(<<v>>) = v
<1>1. TrueCount(<<>>) = 1
  <2>1. <<>> \in Seq(Nat) /\ Len(<<>>) = 0
    OBVIOUS
  <2>2. PICK P : Products(<<>>, P) /\ TrueCount(<<>>) = P[0]
    BY <2>1, CountIsProduct
  <2> QED
    BY <2>2 DEF Products
<1>2. ASSUME NEW v \in Nat
      PROVE  TrueCount(<<v>>) = v
  <2> DEFINE s == <<v>>
  <2>1. s \in Seq(Nat) /\ Len(s) = 1 /\ s[1] = v
    OBVIOUS
  <2> HIDE DEF s
  <2>2. PICK P : Products(s, P) /\ TrueCount(s) = P[1]
    BY <2>1, CountIsProduct
  <2>3. P[0 + 1] = P[0] * s[0 + 1] /\ P[0] = 1
    BY <2>1, <2>2 DEF Products
  <2> QED
    BY <2>1, <2>2, <2>3 DEF s
<1> QED
  BY <1>1, <1>2

\* A product of dimensions can be cut anywhere.
LEMMA ExtentFacts ==
  ASSUME NEW shape \in Seq(Nat), NEW a \in 1 .. Len(shape) + 1, NEW b \in a - 1 .. Len(shape)
  PROVE  /\ Extent(shape, a, b) \in Nat
         /\ Extent(shape, a, a - 1) = 1
         /\ a <= Len(shape) => Extent(shape, a, a) = shape[a]
         /\ \A c \in a - 1 .. b :
              Extent(shape, a, b) = Extent(shape, a, c) * Extent(shape, c + 1, b)
<1>1. ASSUME NEW c \in a - 1 .. b
      PROVE  /\ Extent(shape, a, b) = Extent(shape, a, c) * Extent(shape, c + 1, b)
             /\ Extent(shape, a, b) \in Nat
  <2> DEFINE x == SubSeq(shape, a, c)
             y == SubSeq(shape, c + 1, b)
             z == SubSeq(shape, a, b)
  <2>0. c \in Int /\ a \in Int /\ b \in Int /\ \A k \in a .. b : shape[k] \in Nat
    OBVIOUS
  <2>1. x \in Seq(Nat) /\ Len(x) = c - a + 1 /\ \A k \in 1 .. c - a + 1 : x[k] = shape[a + k - 1]
    <3>1. \A k \in a .. c : shape[k] \in Nat
      OBVIOUS
    <3>2. /\ x \in Seq(Nat) /\ Len(x) = IF a <= c THEN c - a + 1 ELSE 0
          /\ \A k \in 1 .. c - a + 1 : x[k] = shape[a + k - 1]
      BY <2>0, <3>1, SubSeqProperties
    <3> HIDE DEF x
    <3> QED
      BY <2>0, <3>2
  <2>2. y \in Seq(Nat) /\ Len(y) = b - c /\ \A k \in 1 .. b - c : y[k] = shape[c + k]
    <3>1. \A k \in c + 1 .. b : shape[k] \in Nat
      OBVIOUS
    <3>2. /\ y \in Seq(Nat) /\ Len(y) = IF c + 1 <= b THEN b - (c + 1) + 1 ELSE 0
          /\ \A k \in 1 .. b - (c + 1) + 1 : y[k] = shape[(c + 1) + k - 1]
      BY <2>0, <3>1, SubSeqProperties
    <3>3. b - (c + 1) + 1 = b - c /\ \A k \in 1 .. b - c : (c + 1) + k - 1 = c + k
      BY <2>0
    <3> HIDE DEF y
    <3> QED
      BY <2>0, <3>2, <3>3
  <2>3. z \in Seq(Nat) /\ Len(z) = b - a + 1 /\ \A k \in 1 .. b - a + 1 : z[k] = shape[a + k - 1]
    BY <2>0, SubSeqProperties
  <2> HIDE DEF x, y, z
  <2>4. x \o y = z
    <3>1. /\ x \o y \in Seq(Nat) /\ Len(x \o y) = b - a + 1
          /\ \A k \in 1 .. b - a + 1 :
               (x \o y)[k] = IF k <= c - a + 1 THEN x[k] ELSE y[k - (c - a + 1)]
      <4> DEFINE w == x \o y
      <4>1. /\ w \in Seq(Nat) /\ Len(w) = Len(x) + Len(y)
            /\ \A k \in 1 .. Len(x) + Len(y) : w[k] = IF k <= Len(x) THEN x[k] ELSE y[k - Len(x)]
        BY <2>1, <2>2, ConcatProperties
      <4>2. Len(x) + Len(y) = b - a + 1
        BY <2>0, <2>1, <2>2
      <4> HIDE DEF w
      <4>3. \A k \in 1 .. b - a + 1 : w[k] = IF k <= c - a + 1 THEN x[k] ELSE y[k - (c - a + 1)]
        BY <2>1, <4>1, <4>2
      <4> QED
        BY <4>1, <4>2, <4>3 DEF w
    <3>2. ASSUME NEW k \in 1 .. b - a + 1
          PROVE  (x \o y)[k] = z[k]
      <4>1. CASE k <= c - a + 1
        BY <2>0, <2>1, <2>3, <3>1, <4>1
      <4>2. CASE k > c - a + 1
        <5> DEFINE j == k - (c - a + 1)
        <5>1. j \in 1 .. b - c /\ c + j = a + k - 1
          BY <2>0, <4>2
        <5>2. (x \o y)[k] = y[j]
          BY <2>0, <3>1, <4>2
        <5> HIDE DEF j
        <5> QED
          BY <2>2, <2>3, <5>1, <5>2
      <4>3. k <= c - a + 1 \/ k > c - a + 1
        BY <2>0
      <4> QED
        BY <4>1, <4>2, <4>3, Zenon
    <3> QED
      BY <2>3, <3>1, <3>2, SeqEqual
  <2> QED
    BY <2>1, <2>2, <2>4, CountOfJoined DEF Extent, x, y, z
<1>2. Extent(shape, a, a - 1) = 1
  <2>1. SubSeq(shape, a, a - 1) = <<>>
    OBVIOUS
  <2> QED
    BY <2>1, CountOfFew DEF Extent
<1>3. ASSUME a <= Len(shape)
      PROVE  Extent(shape, a, a) = shape[a]
  <2>1. /\ SubSeq(shape, a, a) \in Seq(Nat) /\ Len(SubSeq(shape, a, a)) = 1
        /\ SubSeq(shape, a, a)[1] = shape[a] /\ shape[a] \in Nat
    <3>1. a \in Int /\ \A k \in a .. a : shape[k] \in Nat
      BY <1>3
    <3>2. /\ SubSeq(shape, a, a) \in Seq(Nat)
          /\ Len(SubSeq(shape, a, a)) = IF a <= a THEN a - a + 1 ELSE 0
          /\ \A i \in 1 .. a - a + 1 : SubSeq(shape, a, a)[i] = shape[a + i - 1]
      BY <3>1, SubSeqProperties
    <3> QED
      BY <3>1, <3>2
  <2>2. SubSeq(shape, a, a) = <<shape[a]>>
    <3> DEFINE t == SubSeq(shape, a, a)
               u == <<shape[a]>>
    <3>1. t \in Seq(Nat) /\ Len(t) = 1 /\ t[1] = shape[a]
      BY <2>1
    <3>2. u \in Seq(Nat) /\ Len(u) = 1 /\ u[1] = shape[a]
      BY <2>1
    <3> HIDE DEF t, u
    <3>3. \A i \in 1 .. 1 : t[i] = u[i]
      BY <3>1, <3>2
    <3>4. t = u
      BY <3>1, <3>2, <3>3, SeqEqual
    <3> QED
      BY <3>4 DEF t, u
  <2> QED
    BY <2>1, <2>2, CountOfFew DEF Extent
<1>4. a - 1 \in a - 1 .. b
  OBVIOUS
<1> QED
  BY <1>1, <1>2, <1>3, <1>4

-----------------------------------------------------------------------------
(* The position of a value *)

\* A row that a valid call looks at.
RowIsRead(r) == layout \in Layouts /\ CallIsValid /\ r \in 0 .. RowCount - 1

Before == Extent(layout.shape, 1, Axis - 1)
Inner  == Extent(layout.shape, Axis + 1, Rank)

\* The axes that are not the attribute's, and the product of those that follow
\* the first k of them.
Other(k) == IF k < Axis THEN k ELSE k + 1
Remaining(k) ==
  IF k < Axis THEN Extent(layout.shape, k + 1, Axis - 1) * Inner
              ELSE Extent(layout.shape, k + 2, Rank)

\* The sizes a valid call computes are the products of the dimensions: none of
\* them has wrapped around.
LEMMA ShapeFacts ==
  ASSUME layout \in Layouts, CallIsValid
  PROVE  /\ layout.shape \in Seq(Nat) /\ Rank \in Nat \ {0} /\ Axis \in 1 .. Rank
         /\ attribute_count \in Nat \ {0} /\ attribute_count = layout.shape[Axis]
         /\ Before \in Nat /\ Inner \in Nat /\ inner_stride = Inner
         /\ RowCount = Before * Inner
<1>1. layout.shape \in Seq(Nat) /\ layout.axis \in Int
  BY DecodingAssumption
<1>2. Rank \in Nat /\ Rank > 0 /\ NormalizedAxis(layout) \in 0 .. Rank - 1
  BY <1>1 DEF CallIsValid, AxisIsValid, Rank
<1>3. Axis \in 1 .. Rank
  BY <1>2 DEF Axis
<1>4. attribute_count \in Nat /\ attribute_count > 0
  BY <1>1, <1>2, <1>3 DEF CallIsValid, attribute_count, Rank
<1>5. inner_stride = Inner
  <2> DEFINE s == SubSeq(layout.shape, Axis + 1, Rank)
  <2>1. s \in Seq(Nat)
    <3>1. \A k \in Axis + 1 .. Rank : layout.shape[k] \in Nat
      BY <1>1, <1>2, <1>3 DEF Rank
    <3> QED
      BY <1>2, <1>3, <3>1, SubSeqProperties
  <2>2. ComputeElementCount(s) # Overflow
    BY DEF CallIsValid, inner_stride
  <2> HIDE DEF s
  <2>3. ComputeElementCount(s) = TrueCount(s)
    BY <2>1, <2>2, CountIsExact
  <2> QED
    BY <2>3 DEF inner_stride, Inner, Extent, s
<1>6. Inner \in Nat
  <2>1. Axis + 1 \in 1 .. Len(layout.shape) + 1 /\ Rank \in (Axis + 1) - 1 .. Len(layout.shape)
    BY <1>2, <1>3 DEF Rank
  <2> QED
    BY <1>1, <2>1, ExtentFacts DEF Inner
<1>7. Before \in Nat
  <2>1. 1 \in 1 .. Len(layout.shape) + 1 /\ Axis - 1 \in 1 - 1 .. Len(layout.shape)
    BY <1>2, <1>3 DEF Rank
  <2> QED
    BY <1>1, <2>1, ExtentFacts DEF Before
<1>8. ComputeElementCount(layout.shape) = Before * attribute_count * Inner
  <2> DEFINE s == layout.shape
             n == Len(s)
             d == Axis
  <2>0. s \in Seq(Nat) /\ n \in Nat /\ d \in 1 .. n
    BY <1>1, <1>2, <1>3 DEF Rank
  <2>1. ComputeElementCount(s) = TrueCount(s)
    BY <1>1, CountIsExact DEF CallIsValid
  <2>2. TrueCount(s) = Extent(s, 1, n)
    <3>1. SubSeq(s, 1, Len(s)) = s
      BY <1>1, SubSeqFull
    <3> QED
      BY <3>1 DEF Extent
  <2> HIDE DEF s, n, d
  <2>3. Extent(s, 1, n) = Extent(s, 1, d) * Extent(s, d + 1, n)
    <3>1. 1 \in 1 .. Len(s) + 1 /\ n \in 1 - 1 .. Len(s) /\ d \in 1 - 1 .. n
      BY <2>0 DEF n
    <3> QED
      BY <2>0, <3>1, ExtentFacts
  <2>4. Extent(s, 1, d) = Extent(s, 1, d - 1) * Extent(s, d, d)
    <3>1. 1 \in 1 .. Len(s) + 1 /\ d \in 1 - 1 .. Len(s) /\ d - 1 \in 1 - 1 .. d /\ (d - 1) + 1 = d
      BY <2>0 DEF n
    <3> QED
      BY <2>0, <3>1, ExtentFacts
  <2>5. Extent(s, d, d) = s[d]
    <3>1. d \in 1 .. Len(s) + 1 /\ d \in d - 1 .. Len(s) /\ d <= Len(s)
      BY <2>0 DEF n
    <3> QED
      BY <2>0, <3>1, ExtentFacts
  <2>6. Extent(s, 1, d - 1) = Before /\ Extent(s, d + 1, n) = Inner /\ s[d] = attribute_count
    BY DEF s, n, d, Before, Inner, Rank, attribute_count
  <2> QED
    BY <2>1, <2>2, <2>3, <2>4, <2>5, <2>6 DEF s
<1>9. RowCount = Before * Inner
  <2> DEFINE B == Before
             I == Inner
             A == attribute_count
             q == B * I
  <2>1. RowCount = (B * A * I) \div A
    BY <1>8 DEF RowCount
  <2>2. A \in Nat \ {0} /\ B \in Nat /\ I \in Nat
    BY <1>4, <1>6, <1>7
  <2> HIDE DEF A, B, I
  <2>3. B * A * I = q * A + 0 /\ q \in Int /\ 0 \in 0 .. A - 1
    BY <2>2
  <2>4. (q * A + 0) \div A = q
    <3> HIDE DEF q
    <3> QED
      BY <2>2, <2>3, Division
  <2> QED
    BY <2>1, <2>3, <2>4 DEF A, B, I
<1> QED
  BY <1>1, <1>2, <1>3, <1>4, <1>5, <1>6, <1>7, <1>9 DEF attribute_count

\* No dimension of a tensor with rows is empty.
LEMMA RestFacts ==
  ASSUME layout \in Layouts, CallIsValid, Before * Inner > 0
  PROVE  /\ Inner \in Nat \ {0} /\ Remaining(0) = Before * Inner /\ Remaining(Rank - 1) = 1
         /\ \A k \in 0 .. Rank - 1 : Remaining(k) \in Nat \ {0}
         /\ \A k \in 1 .. Rank - 1 :
              /\ layout.shape[Other(k)] \in Nat \ {0} /\ Other(k) \in (1 .. Rank) \ {Axis}
              /\ Remaining(k - 1) = layout.shape[Other(k)] * Remaining(k)
<1> DEFINE s == layout.shape
           n == Rank
           d == Axis
<1>1. /\ s \in Seq(Nat) /\ n = Len(s) /\ n \in Nat \ {0} /\ d \in 1 .. n
      /\ Before \in Nat /\ Inner \in Nat
      /\ \A k \in 1 .. n : s[k] \in Nat
  BY ShapeFacts DEF Rank
<1> HIDE DEF s, n, d
<1>2. Inner # 0 /\ Before # 0
  BY <1>1
<1>3. Remaining(0) = Before * Inner
  <2>1. Remaining(0) = Extent(s, 0 + 1, d - 1) * Inner
    BY <1>1 DEF Remaining, s, d
  <2> QED
    BY <2>1 DEF Before, s, d
<1>4. ASSUME NEW k \in 0 .. n - 1
      PROVE  Remaining(k) \in Nat
  <2>1. CASE k < d
    <3>1. k + 1 \in 1 .. Len(s) + 1 /\ d - 1 \in (k + 1) - 1 .. Len(s)
      BY <1>1, <2>1
    <3>2. Extent(s, k + 1, d - 1) \in Nat
      BY <1>1, <3>1, ExtentFacts
    <3>3. Remaining(k) = Extent(s, k + 1, d - 1) * Inner
      BY <2>1 DEF Remaining, s, d
    <3> QED
      BY <1>1, <3>2, <3>3
  <2>2. CASE ~(k < d)
    <3>1. k + 2 \in 1 .. Len(s) + 1 /\ n \in (k + 2) - 1 .. Len(s)
      BY <1>1
    <3>2. Extent(s, k + 2, n) \in Nat
      BY <1>1, <3>1, ExtentFacts
    <3>3. Remaining(k) = Extent(s, k + 2, n)
      BY <2>2 DEF Remaining, s, d, n
    <3> QED
      BY <3>2, <3>3
  <2> QED
    BY <2>1, <2>2
<1>5. Remaining(n - 1) = 1
  <2>1. CASE n - 1 < d
    <3>1. d = n
      BY <1>1, <2>1
    <3>2. Remaining(n - 1) = Extent(s, n, n - 1) * Inner
      <4>1. (n - 1) + 1 = n
        BY <1>1
      <4> QED
        BY <2>1, <3>1, <4>1 DEF Remaining, s, d, n
    <3>3. Extent(s, n, n - 1) = 1
      <4>1. n \in 1 .. Len(s) + 1 /\ n - 1 \in n - 1 .. Len(s)
        BY <1>1
      <4> QED
        BY <1>1, <4>1, ExtentFacts
    <3>4. Inner = 1
      <4>1. n + 1 \in 1 .. Len(s) + 1 /\ n \in (n + 1) - 1 .. Len(s) /\ (n + 1) - 1 = n
        BY <1>1
      <4>2. Extent(s, n + 1, n) = 1
        BY <1>1, <4>1, ExtentFacts
      <4> QED
        BY <3>1, <4>2 DEF Inner, s, d, n
    <3> QED
      BY <3>2, <3>3, <3>4
  <2>2. CASE ~(n - 1 < d)
    <3>1. (n - 1) + 2 = n + 1
      BY <1>1
    <3>2. Remaining(n - 1) = Extent(s, n + 1, n)
      BY <2>2, <3>1 DEF Remaining, s, d, n
    <3>3. n + 1 \in 1 .. Len(s) + 1 /\ n \in (n + 1) - 1 .. Len(s) /\ (n + 1) - 1 = n
      BY <1>1
    <3>4. Extent(s, n + 1, n) = 1
      BY <1>1, <3>3, ExtentFacts
    <3> QED
      BY <3>2, <3>4
  <2> QED
    BY <2>1, <2>2
<1>6. ASSUME NEW k \in 1 .. n - 1
      PROVE  /\ Other(k) \in (1 .. n) \ {d}
             /\ Remaining(k - 1) = s[Other(k)] * Remaining(k)
  <2>1. CASE k < d
    <3>1. Other(k) = k /\ k - 1 < d /\ (k - 1) + 1 = k /\ k \in 1 .. n
      BY <1>1, <2>1 DEF Other, d
    <3>2. Remaining(k - 1) = Extent(s, k, d - 1) * Inner /\ Remaining(k) = Extent(s, k + 1, d - 1) * Inner
      BY <2>1, <3>1 DEF Remaining, s, d
    <3>3. /\ k \in 1 .. Len(s) + 1 /\ d - 1 \in k - 1 .. Len(s) /\ k \in k - 1 .. d - 1
          /\ k \in k - 1 .. Len(s) /\ k <= Len(s) /\ k + 1 \in 1 .. Len(s) + 1
          /\ d - 1 \in (k + 1) - 1 .. Len(s)
      BY <1>1, <2>1
    <3>4. Extent(s, k, d - 1) = Extent(s, k, k) * Extent(s, k + 1, d - 1) /\ Extent(s, k, k) = s[k]
      BY <1>1, <3>3, ExtentFacts
    <3>5. Extent(s, k + 1, d - 1) \in Nat /\ s[k] \in Nat
      BY <1>1, <3>1, <3>3, ExtentFacts
    <3> DEFINE x == Extent(s, k + 1, d - 1)
               y == s[k]
    <3>6. (y * x) * Inner = y * (x * Inner)
      <4>1. x \in Nat /\ y \in Nat
        BY <3>5
      <4> HIDE DEF x, y
      <4> QED
        BY <1>1, <4>1
    <3> QED
      BY <1>1, <2>1, <3>1, <3>2, <3>4, <3>6
  <2>2. CASE ~(k < d)
    <3>1. Other(k) = k + 1 /\ k + 1 \in 1 .. n /\ k + 1 # d
      BY <1>1, <2>2 DEF Other, d
    <3>2. Remaining(k) = Extent(s, k + 2, n)
      BY <2>2 DEF Remaining, s, d, n
    <3>3. Remaining(k - 1) = Extent(s, k + 1, n)
      <4>1. CASE k - 1 < d
        <5>1. k = d
          BY <1>1, <2>2, <4>1
        <5>2. Remaining(k - 1) = Extent(s, d, d - 1) * Inner
          <6>1. (k - 1) + 1 = d
            BY <1>1, <5>1
          <6> QED
            BY <4>1, <6>1 DEF Remaining, s, d
        <5>3. Extent(s, d, d - 1) = 1
          <6>1. d \in 1 .. Len(s) + 1 /\ d - 1 \in d - 1 .. Len(s)
            BY <1>1
          <6> QED
            BY <1>1, <6>1, ExtentFacts
        <5>4. Inner = Extent(s, k + 1, n)
          BY <5>1 DEF Inner, s, d, n
        <5>5. 1 * Inner = Inner
          BY <1>1
        <5> QED
          BY <5>2, <5>3, <5>4, <5>5
      <4>2. CASE ~(k - 1 < d)
        <5>1. (k - 1) + 2 = k + 1
          OBVIOUS
        <5> QED
          BY <4>2, <5>1 DEF Remaining, s, d, n
      <4> QED
        BY <4>1, <4>2
    <3>4. /\ k + 1 \in 1 .. Len(s) + 1 /\ n \in (k + 1) - 1 .. Len(s) /\ k + 1 \in (k + 1) - 1 .. n
          /\ k + 1 \in (k + 1) - 1 .. Len(s) /\ k + 1 <= Len(s) /\ (k + 1) + 1 = k + 2
      BY <1>1
    <3>5. Extent(s, k + 1, n) = Extent(s, k + 1, k + 1) * Extent(s, k + 2, n)
          /\ Extent(s, k + 1, k + 1) = s[k + 1]
      <4> DEFINE j == k + 1
      <4>1. j \in 1 .. Len(s) + 1 /\ n \in j - 1 .. Len(s) /\ j \in j - 1 .. n
            /\ j \in j - 1 .. Len(s) /\ j <= Len(s) /\ j + 1 = k + 2
        BY <3>4
      <4> HIDE DEF j
      <4>2. Extent(s, j, n) = Extent(s, j, j) * Extent(s, j + 1, n) /\ Extent(s, j, j) = s[j]
        BY <1>1, <4>1, ExtentFacts
      <4> QED
        BY <4>1, <4>2 DEF j
    <3>6. Remaining(k - 1) = s[Other(k)] * Remaining(k)
      BY <3>1, <3>2, <3>3, <3>5, Zenon
    <3> QED
      BY <3>1, <3>6
  <2> QED
    BY <2>1, <2>2
<1> DEFINE S == {k \in 0 .. n - 1 : Remaining(k) # 0}
<1>7. 0 .. n - 1 \subseteq S
  <2>1. 0 \in S
    BY <1>1, <1>3
  <2>2. ASSUME NEW k \in 0 .. (n - 1) - 1, k \in S
        PROVE  k + 1 \in S
    <3>1. k + 1 \in 1 .. n - 1 /\ k + 1 \in 0 .. n - 1 /\ (k + 1) - 1 = k
      BY <1>1
    <3>2. Remaining(k) = s[Other(k + 1)] * Remaining(k + 1) /\ Remaining(k) # 0
      BY <1>6, <2>2, <3>1
    <3>3. s[Other(k + 1)] \in Nat /\ Remaining(k + 1) \in Nat
      BY <1>1, <1>4, <1>6, <3>1
    <3> QED
      BY <3>1, <3>2, <3>3
  <2>3. n - 1 \in Nat
    BY <1>1
  <2> HIDE DEF S
  <2> QED
    BY <2>1, <2>2, <2>3, Reaches
<1>8. ASSUME NEW k \in 1 .. n - 1
      PROVE  s[Other(k)] \in Nat \ {0}
  <2>1. k - 1 \in 0 .. n - 1 /\ k \in 0 .. n - 1
    BY <1>1
  <2>2. Remaining(k - 1) # 0 /\ Remaining(k) \in Nat /\ Remaining(k - 1) = s[Other(k)] * Remaining(k) /\ s[Other(k)] \in Nat
    BY <1>1, <1>4, <1>6, <1>7, <2>1
  <2> QED
    BY <2>2
<1>9. \A k \in 0 .. n - 1 : Remaining(k) \in Nat \ {0}
  BY <1>4, <1>7
<1> QED
  BY <1>1, <1>2, <1>3, <1>5, <1>6, <1>8, <1>9 DEF s, n, d

\* The position the code computes for an attribute of a row has that attribute,
\* and the digits of the row, for coordinates.
LEMMA PositionFacts ==
  ASSUME NEW r \in Nat, NEW a \in Nat, RowIsRead(r), a < attribute_count
  PROVE  LET p == GetRowValueIndex(r, a)
         IN  /\ Coordinate(p, Axis) = a
             /\ \A k \in 1 .. Rank - 1 :
                  Coordinate(p, Other(k)) = (r \div Remaining(k)) % layout.shape[Other(k)]
<1> DEFINE p == GetRowValueIndex(r, a)
           s == layout.shape
           n == Rank
           d == Axis
           A == attribute_count
           I == Inner
           q == r \div I
           i == r % I
           u == q * A + a
<1>1. /\ s \in Seq(Nat) /\ n = Len(s) /\ n \in Nat \ {0} /\ d \in 1 .. n
      /\ A \in Nat \ {0} /\ A = s[d] /\ I = Inner /\ inner_stride = I
      /\ r < Before * I /\ Before \in Nat /\ I \in Nat
      /\ layout \in Layouts /\ CallIsValid
  BY ShapeFacts DEF RowIsRead, Rank
<1>2. I \in Nat \ {0} /\ Before * I > 0
  <2>1. Before * I > 0
    BY <1>1
  <2>2. layout \in Layouts /\ CallIsValid /\ Before * Inner > 0
    BY <1>1, <2>1
  <2> QED
    BY <2>1, <2>2, RestFacts
<1>3. q \in Nat /\ i \in 0 .. I - 1 /\ r = q * I + i
  BY <1>2, Quotient
<1>4. p = u * I + i
  BY <1>1 DEF GetRowValueIndex
<1>5. u \in Nat
  <2>1. q * A \in Nat
    BY <1>1, <1>3
  <2> QED
    BY <2>1
<1> HIDE DEF p, s, n, d, A, I, q, i
<1>6. p \div I = u
  <2> HIDE DEF u
  <2> QED
    BY <1>2, <1>3, <1>4, <1>5, Division
<1>7. u \div A = q /\ u % A = a
  <2>1. a \in 0 .. A - 1
    BY <1>1 DEF A
  <2>2. q \in Int /\ A \in Nat \ {0}
    BY <1>1, <1>3
  <2> QED
    BY <2>1, <2>2, Division
<1> HIDE DEF u
<1>8. p \in Nat
  <2>1. u * I \in Nat
    BY <1>2, <1>5
  <2> QED
    BY <1>3, <1>4, <2>1
<1>9. Coordinate(p, d) = a
  <2>1. Extent(s, d + 1, n) = I
    BY <1>1 DEF Inner, s, n, d
  <2>2. Coordinate(p, d) = (p \div Extent(s, d + 1, n)) % s[d]
    BY DEF Coordinate, s, n
  <2> QED
    BY <1>1, <1>6, <1>7, <2>1, <2>2
<1>10. ASSUME NEW k \in 1 .. n - 1
       PROVE  Coordinate(p, Other(k)) = (r \div Remaining(k)) % s[Other(k)]
  <2> DEFINE e == Other(k)
             m == s[e]
  <2>1. Coordinate(p, e) = (p \div Extent(s, e + 1, n)) % m
    BY DEF Coordinate, s, n
  <2>2. /\ m \in Nat \ {0} /\ e \in 1 .. n /\ e # d /\ Remaining(k) \in Nat \ {0}
    <3>1. layout \in Layouts /\ CallIsValid /\ Before * Inner > 0 /\ k \in 1 .. Rank - 1
      BY <1>1, <1>2 DEF n
    <3>2. k \in 0 .. Rank - 1
      BY <3>1
    <3> QED
      BY <3>1, <3>2, RestFacts DEF s, n, d
  <2>3. CASE k < d
    <3> DEFINE F == Extent(s, k + 1, d - 1)
    <3>1. e = k
      BY <2>3 DEF Other, d
    <3>2. Remaining(k) = F * I
      BY <1>1, <2>3 DEF Remaining, s, d
    <3>3. F \in Nat \ {0}
      <4>1. k + 1 \in 1 .. Len(s) + 1 /\ d - 1 \in (k + 1) - 1 .. Len(s)
        BY <1>1, <2>3
      <4>2. F \in Nat
        BY <1>1, <4>1, ExtentFacts
      <4> HIDE DEF F
      <4> QED
        BY <1>2, <2>2, <3>2, <4>2
    <3>4. Extent(s, k + 1, n) = F * (A * I)
      <4>1. /\ k + 1 \in 1 .. Len(s) + 1 /\ n \in (k + 1) - 1 .. Len(s) /\ d - 1 \in (k + 1) - 1 .. n
            /\ (d - 1) + 1 = d
        BY <1>1, <2>3
      <4>2. Extent(s, k + 1, n) = F * Extent(s, d, n)
        <5> DEFINE j == k + 1
                   c == d - 1
        <5>1. j \in 1 .. Len(s) + 1 /\ n \in j - 1 .. Len(s) /\ c \in j - 1 .. n /\ c + 1 = d
          BY <4>1
        <5> HIDE DEF j, c
        <5>2. Extent(s, j, n) = Extent(s, j, c) * Extent(s, c + 1, n)
          BY <1>1, <5>1, ExtentFacts
        <5> QED
          BY <5>1, <5>2 DEF j, c
      <4>3. d \in 1 .. Len(s) + 1 /\ n \in d - 1 .. Len(s) /\ d \in d - 1 .. n /\ d <= Len(s)
        BY <1>1
      <4>4. Extent(s, d, n) = Extent(s, d, d) * Extent(s, d + 1, n) /\ Extent(s, d, d) = s[d]
        BY <1>1, <4>3, ExtentFacts
      <4>5. Extent(s, d + 1, n) = I
        BY <1>1 DEF Inner, s, n, d
      <4> QED
        <5>1. A = s[d]
          BY <1>1
        <5>2. Extent(s, d, n) = A * I
          BY <4>4, <4>5, <5>1, Zenon
        <5> QED
          BY <4>2, <5>2, Zenon
    <3> HIDE DEF F
    <3>5. QuotientTwice(p, A, I)
      BY <1>1, <1>2, <1>8, QuotientOfQuotient
    <3>6. p \div (A * I) = q /\ A * I \in Nat \ {0}
      BY <1>6, <1>7, <3>5 DEF QuotientTwice
    <3> DEFINE M == A * I
    <3>7. QuotientTwice(p, F, M)
      <4>1. M \in Nat \ {0}
        BY <3>6
      <4> HIDE DEF M
      <4> QED
        BY <1>8, <3>3, <4>1, QuotientOfQuotient
    <3>8. p \div (F * M) = q \div F
      BY <3>6, <3>7 DEF QuotientTwice
    <3>9. QuotientTwice(r, F, I)
      BY <1>2, <3>3, QuotientOfQuotient
    <3>10. r \div (F * I) = q \div F
      BY <3>9 DEF QuotientTwice, q
    <3> QED
      BY <2>1, <3>1, <3>2, <3>4, <3>8, <3>10
  <2>4. CASE ~(k < d)
    <3> DEFINE E == Extent(s, k + 2, n)
               K == Extent(s, d + 1, k)
    <3>1. e = k + 1 /\ k + 1 \in 1 .. n /\ (k + 1) + 1 = k + 2 /\ k \in Nat
      BY <1>1, <2>4 DEF Other, d
    <3>2. Remaining(k) = E
      BY <2>4 DEF Remaining, s, d, n
    <3>3. E \in Nat \ {0}
      BY <2>2, <3>2
    <3>4. K \in Nat
      <4>1. d + 1 \in 1 .. Len(s) + 1 /\ k \in (d + 1) - 1 .. Len(s)
        BY <1>1, <2>4
      <4> QED
        BY <1>1, <4>1, ExtentFacts
    <3>5. I = K * m * E
      <4> DEFINE j == k + 1
      <4>1. /\ d + 1 \in 1 .. Len(s) + 1 /\ n \in (d + 1) - 1 .. Len(s) /\ j \in (d + 1) - 1 .. n
            /\ j \in (d + 1) - 1 .. Len(s) /\ k \in (d + 1) - 1 .. j /\ j = k + 1
            /\ j \in 1 .. Len(s) + 1 /\ j \in j - 1 .. Len(s) /\ j <= Len(s) /\ j + 1 = k + 2
        BY <1>1, <2>4
      <4> HIDE DEF j
      <4>2. Extent(s, d + 1, n) = Extent(s, d + 1, j) * Extent(s, j + 1, n)
        BY <1>1, <4>1, ExtentFacts
      <4>3. Extent(s, d + 1, j) = Extent(s, d + 1, k) * Extent(s, k + 1, j)
        BY <1>1, <4>1, ExtentFacts
      <4>4. Extent(s, j, j) = s[j]
        BY <1>1, <4>1, ExtentFacts
      <4>5. Extent(s, d + 1, n) = I
        BY <1>1 DEF Inner, s, n, d
      <4> QED
        BY <3>1, <4>1, <4>2, <4>3, <4>4, <4>5
    <3> HIDE DEF E, K, m
    <3>6. SameDigit(u, K, m, E, i) /\ SameDigit(q, K, m, E, i)
      <4>1. i \in Nat
        BY <1>3
      <4> QED
        BY <1>3, <1>5, <2>2, <3>3, <3>4, <4>1, LowDigit
    <3>7. p = u * (K * m * E) + i /\ r = q * (K * m * E) + i
      BY <1>3, <1>4, <3>5
    <3>8. (p \div E) % m = (r \div E) % m
      BY <3>6, <3>7 DEF SameDigit
    <3> QED
      BY <2>1, <3>1, <3>2, <3>8 DEF E, m
  <2> QED
    BY <2>3, <2>4
<1> QED
  BY <1>9, <1>10 DEF p, s, n, d

\* Counted from those coordinates, the row is the one asked for.
LEMMA RowOfPosition ==
  ASSUME NEW r \in Nat, NEW a \in Nat, RowIsRead(r), a < attribute_count
  PROVE  RowOf(GetRowValueIndex(r, a)) = r
<1> DEFINE p == GetRowValueIndex(r, a)
           others == [k \in 1 .. Rank - 1 |-> IF k < Axis THEN k ELSE k + 1]
           G(f) == [s \in SUBSET DOMAIN others |->
                      IF s = {} THEN 0
                      ELSE f[s \ {Max(s)}] * layout.shape[others[Max(s)]]
                             + Coordinate(p, others[Max(s)])]
           g == CHOOSE f : f = G(f)
<1>1. RowOf(p) = g[DOMAIN others]
  BY DEF RowOf, FoldLeft, MapThenFoldSet
<1> DEFINE n == Rank - 1
           w(k) == layout.shape[Other(k)]
           c(k) == (r \div Remaining(k)) % w(k)
<1>2. /\ n \in Nat /\ DOMAIN others = 1 .. n /\ \A k \in 1 .. n : others[k] = Other(k)
      /\ layout \in Layouts /\ CallIsValid /\ Before * Inner > 0
      /\ r < Before * Inner /\ RowCount = Before * Inner /\ Before * Inner \in Nat
  <2>1. layout \in Layouts /\ CallIsValid /\ r \in 0 .. RowCount - 1
    BY DEF RowIsRead
  <2>2. /\ Rank \in Nat \ {0} /\ RowCount = Before * Inner /\ Before \in Nat /\ Inner \in Nat
    BY <2>1, ShapeFacts
  <2>3. Before * Inner \in Nat
    BY <2>2
  <2>4. r < Before * Inner /\ Before * Inner > 0
    BY <2>1, <2>2, <2>3
  <2> QED
    BY <2>1, <2>2, <2>3, <2>4 DEF Other
<1>3. /\ Remaining(0) = Before * Inner /\ Remaining(n) = 1
      /\ \A k \in 0 .. n : Remaining(k) \in Nat \ {0}
      /\ \A k \in 1 .. n : w(k) \in Nat \ {0} /\ Remaining(k - 1) = w(k) * Remaining(k)
  BY <1>2, RestFacts
<1>4. \A k \in 1 .. n : Coordinate(p, Other(k)) = c(k) /\ c(k) \in Nat
  <2>1. \A k \in 1 .. n : Coordinate(p, Other(k)) = c(k)
    BY PositionFacts
  <2>2. ASSUME NEW k \in 1 .. n
        PROVE  c(k) \in Nat
    <3>1. w(k) \in Nat \ {0} /\ Remaining(k) \in Nat \ {0}
      BY <1>3
    <3> DEFINE R == Remaining(k)
               W == w(k)
               q == r \div R
    <3>2. R \in Nat \ {0} /\ W \in Nat \ {0}
      BY <3>1
    <3> HIDE DEF R, W
    <3>3. q \in Nat
      BY <3>2, Quotient
    <3> HIDE DEF q
    <3>4. q % W \in 0 .. W - 1
      BY <3>2, <3>3, Quotient
    <3>5. q % W \in Nat
      BY <3>2, <3>4
    <3> QED
      BY <3>5 DEF q, R, W
  <2> QED
    BY <2>1, <2>2
<1> HIDE DEF c, w, p
<1>5. \A s \in SUBSET (1 .. n) : s # {} => Max(s) \in 1 .. n /\ s \ {Max(s)} \in SUBSET (1 .. n)
  <2> HIDE DEF n
  <2> QED
    BY <1>2, Greatest
<1>6. ASSUME NEW f, NEW s \in SUBSET (1 .. n), s # {}
      PROVE  G(f)[s] = f[s \ {Max(s)}] * w(Max(s)) + c(Max(s))
  <2>1. Max(s) \in 1 .. n
    BY <1>5, <1>6
  <2>2. others[Max(s)] = Other(Max(s)) /\ s \in SUBSET DOMAIN others
    BY <1>2, <2>1
  <2>3. Coordinate(p, Other(Max(s))) = c(Max(s))
    BY <1>4, <2>1
  <2>4. G(f)[s] = f[s \ {Max(s)}] * layout.shape[others[Max(s)]] + Coordinate(p, others[Max(s)])
    <3> HIDE DEF others
    <3> QED
      BY <1>6, <2>2
  <2> HIDE DEF G, others, n
  <2> QED
    BY <2>2, <2>3, <2>4 DEF w
<1>7. DOMAIN G(g) = SUBSET (1 .. n) /\ \A f : DOMAIN G(f) = SUBSET (1 .. n) /\ G(f)[{}] = 0
  <2> HIDE DEF n
  <2> QED
    BY <1>2
<1> DEFINE step == [x \in Nat \X (1 .. n) |-> x[1] * w(x[2]) + c(x[2])]
<1>8. PICK f \in [SUBSET (1 .. n) -> Nat] : Folds(f, 1 .. n, 0, step)
  <2>1. ASSUME NEW x \in Nat \X (1 .. n)
        PROVE  x[1] * w(x[2]) + c(x[2]) \in Nat
    <3>1. x[1] \in Nat /\ w(x[2]) \in Nat /\ c(x[2]) \in Nat
      BY <1>3, <1>4
    <3>2. x[1] * w(x[2]) \in Nat
      BY <3>1
    <3> QED
      BY <3>1, <3>2
  <2>2. step \in [Nat \X (1 .. n) -> Nat]
    <3> HIDE DEF n
    <3> QED
      BY <2>1
  <2> HIDE DEF n, step
  <2> QED
    BY <1>2, <2>2, FoldExists
<1>9. ASSUME NEW s \in SUBSET (1 .. n)
      PROVE  f[s] = G(f)[s]
  <2>1. CASE s = {}
    <3>1. f[s] = 0
      BY <1>8, <2>1 DEF Folds
    <3> HIDE DEF G
    <3> QED
      BY <1>7, <2>1, <3>1
  <2>2. CASE s # {}
    <3>1. f[s] = step[<<f[s \ {Max(s)}], Max(s)>>]
      BY <1>8, <2>2 DEF Folds
    <3>2. <<f[s \ {Max(s)}], Max(s)>> \in Nat \X (1 .. n)
      BY <1>5, <1>8, <2>2
    <3>3. f[s] = f[s \ {Max(s)}] * w(Max(s)) + c(Max(s))
      <4> HIDE DEF G, n
      <4> QED
        BY <3>1, <3>2
    <3> HIDE DEF G
    <3> QED
      BY <1>6, <2>2, <3>3
  <2> QED
    BY <2>1, <2>2
<1>10. f = G(f)
  <2> DEFINE D == SUBSET (1 .. n)
             h == [s \in D |-> G(f)[s]]
  <2>1. G(f) = h
    <3> DEFINE C == SUBSET DOMAIN others
    <3>1. G(f) = [s \in C |-> G(f)[s]]
      <4> HIDE DEF others
      <4> QED
        OBVIOUS
    <3>2. C = D
      <4> HIDE DEF n, others
      <4> QED
        BY <1>2
    <3> HIDE DEF C, D, G
    <3> QED
      BY <3>1, <3>2
  <2>2. f = [s \in D |-> f[s]]
    <3> HIDE DEF n, G
    <3> QED
      BY <1>8
  <2>3. \A s \in D : f[s] = G(f)[s]
    BY <1>9
  <2>4. f = h
    <3> HIDE DEF G, D
    <3> QED
      BY <2>2, <2>3
  <2> QED
    BY <2>1, <2>4
<1>11. g = G(g)
  <2> HIDE DEF G
  <2> QED
    BY <1>10
<1> HIDE DEF g, G
<1>12. g[{}] = 0 /\ \A s \in SUBSET (1 .. n) : s # {} =>
                        g[s] = g[s \ {Max(s)}] * w(Max(s)) + c(Max(s))
  BY <1>6, <1>7, <1>11
<1> HIDE DEF others, n
<1> DEFINE S == {k \in 0 .. n : g[1 .. k] = r \div Remaining(k)}
<1>13. 0 \in S
  <2>1. r \div Remaining(0) = 0
    <3> DEFINE R == Before * Inner
    <3>1. R \in Nat \ {0} /\ r \in 0 .. R - 1 /\ r = 0 * R + r /\ 0 \in Int
      BY <1>2
    <3> HIDE DEF R
    <3>2. (0 * R + r) \div R = 0
      BY <3>1, Division
    <3> QED
      BY <1>3, <3>1, <3>2 DEF R
  <2>2. 1 .. 0 = {}
    OBVIOUS
  <2> QED
    BY <1>2, <1>12, <2>1, <2>2
<1>14. ASSUME NEW k \in 0 .. n - 1, k \in S
       PROVE  k + 1 \in S
  <2> DEFINE s == 1 .. k + 1
  <2>0. k \in 0 .. n /\ k + 1 \in 0 .. n /\ k + 1 \in 1 .. n /\ k \in Nat /\ (k + 1) - 1 = k
    BY <1>2
  <2>1. s \in SUBSET (1 .. n) /\ s # {}
    <3>1. \A j \in 1 .. k + 1 : j \in 1 .. n
      BY <1>2, <2>0
    <3>2. 1 \in s
      BY <2>0
    <3> QED
      BY <3>1, <3>2
  <2>2. Max(s) = k + 1 /\ s \ {k + 1} = 1 .. k
    BY <2>0, GreatestOfPrefix
  <2> HIDE DEF s
  <2>3. g[s] = g[1 .. k] * w(k + 1) + c(k + 1)
    <3>1. g[s] = g[s \ {Max(s)}] * w(Max(s)) + c(Max(s))
      BY <1>12, <2>1
    <3> QED
      BY <2>2, <3>1
  <2>4. Remaining(k) = w(k + 1) * Remaining(k + 1) /\ w(k + 1) \in Nat \ {0} /\ Remaining(k + 1) \in Nat \ {0}
    BY <1>3, <2>0
  <2>5. CountsOn(r, w(k + 1), Remaining(k + 1))
    BY <2>4, NextDigit
  <2>6. g[1 .. k] = r \div Remaining(k)
    BY <1>14
  <2>7. g[s] = r \div Remaining(k + 1)
    <3>1. (r \div Remaining(k)) * w(k + 1) + c(k + 1) = r \div Remaining(k + 1)
      BY <2>4, <2>5 DEF CountsOn, c
    <3> QED
      BY <2>3, <2>6, <3>1, Zenon
  <2> QED
    BY <2>0, <2>7 DEF s
<1>15. n \in S
  <2> HIDE DEF S
  <2>1. 0 .. n \subseteq S
    BY <1>2, <1>13, <1>14, Reaches
  <2> QED
    BY <1>2, <2>1
<1>16. r \div 1 = r
  OBVIOUS
<1> QED
  BY <1>1, <1>2, <1>3, <1>15, <1>16 DEF p

\* What the code reads for an attribute of a row is that attribute of that row.
LEMMA ReadsItsOwnRow ==
  ASSUME NEW r \in Nat, NEW a \in Nat, RowIsRead(r), a < attribute_count
  PROVE  At(r, a) = cells[r][a]
<1>1. Coordinate(GetRowValueIndex(r, a), Axis) = a
  BY PositionFacts
<1>2. RowOf(GetRowValueIndex(r, a)) = r
  BY RowOfPosition
<1> QED
  BY <1>1, <1>2 DEF At, Value

-----------------------------------------------------------------------------
(* One row *)

ReadScore(r, c) == At(r, Schema.first_class + c)

\* The loop over the classes ends with the first of the largest scores.
LEMMA BestClassIsFirst ==
  ASSUME NEW r \in Nat, Schema.class_count \in Nat \ {0},
         \A c \in 0 .. Schema.class_count - 1 : ReadScore(r, c) \in Int
  PROVE  /\ BestClass(r) \in 0 .. Schema.class_count - 1
         /\ \A e \in 0 .. Schema.class_count - 1 :
              /\ ReadScore(r, e) <= ReadScore(r, BestClass(r))
              /\ e < BestClass(r) => ReadScore(r, e) < ReadScore(r, BestClass(r))
<1> DEFINE n == Schema.class_count
           V == 0 .. n - 1
           seq == [c \in 1 .. n |-> c - 1]
           G(f) == [s \in SUBSET DOMAIN seq |->
                      IF s = {} THEN 0
                      ELSE IF ReadScore(r, seq[Max(s)]) > ReadScore(r, f[s \ {Max(s)}])
                           THEN seq[Max(s)] ELSE f[s \ {Max(s)}]]
           g == CHOOSE f : f = G(f)
<1>1. BestClass(r) = g[DOMAIN seq]
  BY DEF BestClass, FoldLeft, MapThenFoldSet, ReadScore
<1>2. /\ n \in Nat \ {0} /\ DOMAIN seq = 1 .. n /\ \A k \in 1 .. n : seq[k] = k - 1
      /\ \A c \in V : ReadScore(r, c) \in Int
  OBVIOUS
<1> HIDE DEF n
<1>3. \A s \in SUBSET (1 .. n) : s # {} => Max(s) \in 1 .. n /\ s \ {Max(s)} \in SUBSET (1 .. n)
  BY <1>2, Greatest
<1>4. ASSUME NEW f, NEW s \in SUBSET (1 .. n), s # {}
      PROVE  G(f)[s] = IF ReadScore(r, Max(s) - 1) > ReadScore(r, f[s \ {Max(s)}])
                       THEN Max(s) - 1 ELSE f[s \ {Max(s)}]
  <2>1. seq[Max(s)] = Max(s) - 1 /\ s \in SUBSET DOMAIN seq
    BY <1>2, <1>3, <1>4
  <2> HIDE DEF seq
  <2> QED
    BY <1>4, <2>1
<1>5. \A f : DOMAIN G(f) = SUBSET (1 .. n) /\ G(f)[{}] = 0
  <2> HIDE DEF seq
  <2> QED
    BY <1>2
<1> DEFINE step == [x \in V \X (1 .. n) |->
                      IF ReadScore(r, x[2] - 1) > ReadScore(r, x[1]) THEN x[2] - 1 ELSE x[1]]
<1>6. PICK f \in [SUBSET (1 .. n) -> V] : Folds(f, 1 .. n, 0, step)
  <2>1. step \in [V \X (1 .. n) -> V] /\ 0 \in V
    BY <1>2
  <2> HIDE DEF step, V
  <2> QED
    BY <1>2, <2>1, FoldExists
<1>7. ASSUME NEW s \in SUBSET (1 .. n)
      PROVE  f[s] = G(f)[s]
  <2>1. CASE s = {}
    <3>1. f[s] = 0
      BY <1>6, <2>1 DEF Folds
    <3> HIDE DEF G
    <3> QED
      BY <1>5, <2>1, <3>1
  <2>2. CASE s # {}
    <3>1. f[s] = step[<<f[s \ {Max(s)}], Max(s)>>]
      BY <1>6, <2>2 DEF Folds
    <3>2. <<f[s \ {Max(s)}], Max(s)>> \in V \X (1 .. n)
      BY <1>3, <1>6, <2>2
    <3> HIDE DEF G, V
    <3>3. f[s] = IF ReadScore(r, Max(s) - 1) > ReadScore(r, f[s \ {Max(s)}])
                 THEN Max(s) - 1 ELSE f[s \ {Max(s)}]
      BY <3>1, <3>2
    <3> QED
      BY <1>4, <2>2, <3>3
  <2> QED
    BY <2>1, <2>2
<1>8. f = G(f)
  <2> DEFINE D == SUBSET (1 .. n)
             C == SUBSET DOMAIN seq
             h == [s \in D |-> G(f)[s]]
  <2>1. G(f) = [s \in C |-> G(f)[s]]
    <3> HIDE DEF seq
    <3> QED
      OBVIOUS
  <2>2. C = D
    <3> HIDE DEF seq
    <3> QED
      BY <1>2
  <2>3. f = [s \in D |-> f[s]]
    <3> HIDE DEF G
    <3> QED
      BY <1>6
  <2>4. \A s \in D : f[s] = G(f)[s]
    BY <1>7
  <2> HIDE DEF C, D, G
  <2> QED
    BY <2>1, <2>2, <2>3, <2>4
<1>9. g = G(g)
  <2> HIDE DEF G
  <2> QED
    BY <1>8
<1> HIDE DEF g, G
<1>10. g[{}] = 0 /\ \A s \in SUBSET (1 .. n) : s # {} =>
          g[s] = IF ReadScore(r, Max(s) - 1) > ReadScore(r, g[s \ {Max(s)}])
                 THEN Max(s) - 1 ELSE g[s \ {Max(s)}]
  BY <1>4, <1>5, <1>9
<1> HIDE DEF seq
<1> DEFINE Best(k, b) ==
             /\ b \in 0 .. k - 1
             /\ \A e \in 0 .. k - 1 : /\ ReadScore(r, e) <= ReadScore(r, b)
                                      /\ e < b => ReadScore(r, e) < ReadScore(r, b)
           S == {k \in 0 .. n : k > 0 => Best(k, g[1 .. k])}
<1>11. 0 \in S
  BY <1>2
<1>12. ASSUME NEW k \in 0 .. n - 1, k \in S
       PROVE  k + 1 \in S
  <2> DEFINE s == 1 .. k + 1
  <2>0. k \in 0 .. n /\ k + 1 \in 0 .. n /\ k + 1 \in 1 .. n /\ k \in Nat /\ (k + 1) - 1 = k /\ k \in V
    BY <1>2
  <2>1. s \in SUBSET (1 .. n) /\ s # {}
    <3>1. \A j \in 1 .. k + 1 : j \in 1 .. n
      BY <1>2, <2>0
    <3>2. 1 \in s
      BY <2>0
    <3> QED
      BY <3>1, <3>2
  <2>2. Max(s) = k + 1 /\ s \ {k + 1} = 1 .. k
    BY <2>0, GreatestOfPrefix
  <2> HIDE DEF s
  <2> DEFINE b == g[1 .. k]
  <2>3. g[s] = IF ReadScore(r, k) > ReadScore(r, b) THEN k ELSE b
    <3>1. g[s] = IF ReadScore(r, Max(s) - 1) > ReadScore(r, g[s \ {Max(s)}])
                 THEN Max(s) - 1 ELSE g[s \ {Max(s)}]
      BY <1>10, <2>1
    <3> QED
      BY <2>0, <2>2, <3>1
  <2>4. CASE k = 0
    <3>1. b = 0
      <4>1. 1 .. 0 = {}
        OBVIOUS
      <4> QED
        BY <1>10, <2>4, <4>1
    <3>2. g[s] = 0
      BY <2>3, <2>4, <3>1
    <3>3. \A e \in 0 .. (k + 1) - 1 : e = 0
      BY <2>4
    <3>4. ReadScore(r, 0) \in Int
      BY <1>2, <2>0, <2>4
    <3>5. Best(k + 1, g[s])
      BY <2>0, <2>4, <3>2, <3>3, <3>4
    <3> QED
      BY <2>0, <3>5 DEF s
  <2>5. CASE k > 0
    <3>1. Best(k, b)
      BY <1>12, <2>5
    <3> HIDE DEF b
    <3>2. \A e \in 0 .. k : ReadScore(r, e) \in Int /\ (e \in 0 .. k - 1 \/ e = k)
      BY <1>2, <2>0
    <3>3. Best(k + 1, g[s])
      <4>1. CASE ReadScore(r, k) > ReadScore(r, b)
        <5>1. g[s] = k /\ b \in 0 .. k
          BY <2>0, <2>3, <3>1, <4>1
        <5>2. \A e \in 0 .. k : /\ ReadScore(r, e) <= ReadScore(r, k)
                                /\ e < k => ReadScore(r, e) < ReadScore(r, k)
          BY <2>0, <3>1, <3>2, <4>1, <5>1
        <5> QED
          BY <2>0, <5>1, <5>2
      <4>2. CASE ~(ReadScore(r, k) > ReadScore(r, b))
        <5>1. g[s] = b /\ b \in 0 .. k
          BY <2>0, <2>3, <3>1, <4>2
        <5>2. ReadScore(r, k) <= ReadScore(r, b)
          BY <2>0, <3>2, <4>2, <5>1
        <5>3. \A e \in 0 .. k : /\ ReadScore(r, e) <= ReadScore(r, b)
                                /\ e < b => ReadScore(r, e) < ReadScore(r, b)
          BY <2>0, <3>1, <3>2, <5>1, <5>2
        <5> QED
          BY <2>0, <5>1, <5>3
      <4> QED
        BY <4>1, <4>2
    <3> QED
      BY <2>0, <3>3 DEF s
  <2> QED
    BY <2>0, <2>4, <2>5
<1>13. n \in S
  <2> HIDE DEF S
  <2>1. 0 .. n \subseteq S
    BY <1>2, <1>11, <1>12, Reaches
  <2> QED
    BY <1>2, <2>1
<1>14. Best(n, g[1 .. n])
  BY <1>2, <1>13
<1> HIDE DEF Best
<1>15. Best(n, BestClass(r))
  BY <1>1, <1>2, <1>14
<1> QED
  BY <1>15 DEF Best, n

-----------------------------------------------------------------------------
(* Sorting *)

\* The members of S that come before j: larger scores first, then smaller numbers.
AheadIn(S, score, j) ==
  {i \in S : score[i] > score[j] \/ (score[i] = score[j] /\ i < j)}
PlaceIn(S, score, j) == Cardinality(AheadIn(S, score, j)) + 1

HasScores(S, score) == \A j \in S : score[j] \in Int

PlacesAreOneToOne(S, score) ==
  /\ \A j \in S : PlaceIn(S, score, j) \in 1 .. Cardinality(S)
  /\ \A i, j \in S : PlaceIn(S, score, i) = PlaceIn(S, score, j) => i = j
  /\ \A k \in 1 .. Cardinality(S) : \E j \in S : PlaceIn(S, score, j) = k

\* Numbered by score, and by their order among equals, the members of S are in a row.
LEMMA Places ==
  ASSUME NEW S \in SUBSET Nat, IsFiniteSet(S), NEW score, HasScores(S, score)
  PROVE  PlacesAreOneToOne(S, score)
<1> DEFINE n == Cardinality(S)
           A(j) == AheadIn(S, score, j)
           place == [j \in S |-> Cardinality(A(j)) + 1]
<1>1. n \in Nat
  BY FS_CardinalityType
<1>0. \A j \in S : score[j] \in Int
  BY DEF HasScores
<1>2. ASSUME NEW j \in S
      PROVE  /\ IsFiniteSet(A(j)) /\ Cardinality(A(j)) \in Nat /\ Cardinality(A(j)) < n
             /\ j \notin A(j)
  <2>1. A(j) \in SUBSET S /\ j \notin A(j)
    <3>1. score[j] \in Int /\ j \in Int
      BY <1>0
    <3> QED
      BY <3>1 DEF AheadIn
  <2> HIDE DEF A
  <2>2. IsFiniteSet(A(j)) /\ Cardinality(A(j)) <= n /\ (n = Cardinality(A(j)) => S = A(j))
    BY <2>1, FS_Subset
  <2>3. Cardinality(A(j)) \in Nat
    BY <2>2, FS_CardinalityType
  <2> QED
    BY <1>1, <2>1, <2>2, <2>3
<1>3. ASSUME NEW i \in S, NEW j \in S, i \in A(j)
      PROVE  Cardinality(A(i)) < Cardinality(A(j))
  <2>1. A(i) \in SUBSET A(j)
    <3>1. \A x \in S : score[x] \in Int /\ x \in Int
      BY <1>0
    <3>2. ASSUME NEW x \in A(i)
          PROVE  x \in A(j)
      <4>1. x \in S /\ (score[x] > score[i] \/ (score[x] = score[i] /\ x < i))
        BY DEF AheadIn
      <4>2. score[i] > score[j] \/ (score[i] = score[j] /\ i < j)
        BY <1>3 DEF AheadIn
      <4>3. score[x] > score[j] \/ (score[x] = score[j] /\ x < j)
        BY <3>1, <4>1, <4>2
      <4> QED
        BY <4>1, <4>3 DEF AheadIn
    <3> QED
      BY <3>2
  <2> HIDE DEF A
  <2>2. /\ Cardinality(A(i)) <= Cardinality(A(j))
        /\ Cardinality(A(j)) = Cardinality(A(i)) => A(j) = A(i)
    BY <1>2, <2>1, FS_Subset
  <2>3. A(j) # A(i)
    BY <1>2, <1>3
  <2> QED
    BY <1>2, <2>2, <2>3
<1>4. ASSUME NEW i \in S, NEW j \in S, i # j
      PROVE  i \in A(j) \/ j \in A(i)
  <2>1. score[i] \in Int /\ score[j] \in Int /\ i \in Int /\ j \in Int
    BY <1>0
  <2> QED
    BY <1>4, <2>1 DEF AheadIn
<1> HIDE DEF A, n
<1>5. place \in [S -> 1 .. n]
  BY <1>1, <1>2
<1>6. \A i, j \in S : place[i] = place[j] => i = j
  <2>1. ASSUME NEW i \in S, NEW j \in S, i # j
        PROVE  place[i] # place[j]
    <3>1. Cardinality(A(i)) \in Nat /\ Cardinality(A(j)) \in Nat
      BY <1>2
    <3>2. Cardinality(A(i)) # Cardinality(A(j))
      BY <1>3, <1>4, <2>1, <3>1
    <3> QED
      BY <3>1, <3>2
  <2> QED
    BY <2>1
<1>7. IsFiniteSet(1 .. n) /\ Cardinality(1 .. n) = n
  <2>1. 1 \in Int /\ n \in Int
    BY <1>1
  <2>2. IsFiniteSet(1 .. n) /\ Cardinality(1 .. n) = IF 1 > n THEN 0 ELSE n - 1 + 1
    BY <2>1, FS_Interval
  <2> QED
    BY <1>1, <2>2
<1> HIDE DEF place
<1>8. place \in Surjection(S, 1 .. n)
  <2>1. place \in Injection(S, 1 .. n)
    BY <1>5, <1>6 DEF Injection, IsInjective
  <2> QED
    BY <1>7, <2>1, FS_Injection DEF n
<1>9. \A k \in 1 .. n : \E j \in S : place[j] = k
  BY <1>8 DEF Surjection
<1>10. \A j \in S : place[j] = PlaceIn(S, score, j)
  BY DEF place, PlaceIn, A
<1> QED
  BY <1>5, <1>6, <1>9, <1>10 DEF n, PlacesAreOneToOne

\* u is t with d after its first b members.
IsInsertion(D, t, d, b, u) ==
  /\ u \in Seq(D)
  /\ Len(u) = Len(t) + 1
  /\ \A m \in 1 .. b : u[m] = t[m]
  /\ u[b + 1] = d
  /\ \A m \in b + 1 .. Len(t) : u[m + 1] = t[m]

\* What inserting does to the others.
LEMMA InsertFacts ==
  ASSUME NEW D, NEW t \in Seq(D), NEW d \in D, NEW b \in 0 .. Len(t)
  PROVE  IsInsertion(D, t, d, b, InsertAt(t, b + 1, d))
<1> DEFINE n == Len(t)
           x == SubSeq(t, 1, b)
           y == <<d>>
           z == SubSeq(t, b + 1, n)
           w == x \o y
           u == w \o z
<1>1. n \in Nat /\ b \in Nat /\ b <= n /\ \A k \in 1 .. n : t[k] \in D
  OBVIOUS
<1>2. x \in Seq(D) /\ Len(x) = b /\ \A k \in 1 .. b : x[k] = t[k]
  <2>1. /\ x \in Seq(D) /\ Len(x) = IF 1 <= b THEN b - 1 + 1 ELSE 0
        /\ \A k \in 1 .. b - 1 + 1 : x[k] = t[1 + k - 1]
    <3>1. \A k \in 1 .. b : t[k] \in D
      BY <1>1
    <3> QED
      BY <1>1, <3>1, SubSeqProperties
  <2>2. b - 1 + 1 = b /\ \A k \in 1 .. b : 1 + k - 1 = k
    BY <1>1
  <2> HIDE DEF x
  <2> QED
    BY <1>1, <2>1, <2>2
<1>3. y \in Seq(D) /\ Len(y) = 1 /\ y[1] = d
  OBVIOUS
<1>4. z \in Seq(D) /\ Len(z) = n - b /\ \A k \in 1 .. n - b : z[k] = t[b + k]
  <2>1. /\ z \in Seq(D) /\ Len(z) = IF b + 1 <= n THEN n - (b + 1) + 1 ELSE 0
        /\ \A k \in 1 .. n - (b + 1) + 1 : z[k] = t[(b + 1) + k - 1]
    <3>1. b + 1 \in Int /\ n \in Int /\ \A k \in b + 1 .. n : t[k] \in D
      BY <1>1
    <3> HIDE DEF n
    <3> QED
      BY <3>1, SubSeqProperties
  <2>2. n - (b + 1) + 1 = n - b /\ \A k \in 1 .. n - b : (b + 1) + k - 1 = b + k
    BY <1>1
  <2>3. Len(z) = n - b
    <3> HIDE DEF z, n
    <3> QED
      BY <1>1, <2>1
  <2> HIDE DEF z, n
  <2>4. \A k \in 1 .. n - b : z[k] = t[b + k]
    BY <2>1, <2>2
  <2> QED
    BY <2>1, <2>3, <2>4
<1> HIDE DEF x, y, z, n
<1>5. /\ w \in Seq(D) /\ Len(w) = b + 1
      /\ \A k \in 1 .. b + 1 : w[k] = IF k <= b THEN x[k] ELSE y[k - b]
  <2>1. /\ w \in Seq(D) /\ Len(w) = Len(x) + Len(y)
        /\ \A k \in 1 .. Len(x) + Len(y) : w[k] = IF k <= Len(x) THEN x[k] ELSE y[k - Len(x)]
    BY <1>2, <1>3, ConcatProperties
  <2>2. Len(x) = b /\ Len(x) + Len(y) = b + 1
    BY <1>1, <1>2, <1>3
  <2> HIDE DEF w
  <2> QED
    BY <2>1, <2>2
<1> HIDE DEF w
<1>6. /\ u \in Seq(D) /\ Len(u) = Len(w) + Len(z)
      /\ \A k \in 1 .. Len(w) + Len(z) : u[k] = IF k <= Len(w) THEN w[k] ELSE z[k - Len(w)]
  BY <1>4, <1>5, ConcatProperties
<1> HIDE DEF u
<1>7. Len(w) + Len(z) = n + 1 /\ Len(w) = b + 1
  BY <1>1, <1>4, <1>5
<1>8. InsertAt(t, b + 1, d) = u
  <2>1. (b + 1) - 1 = b
    BY <1>1
  <2> QED
    BY <2>1 DEF InsertAt, u, w, x, y, z, n
<1>9. \A m \in 1 .. b : u[m] = t[m]
  <2>1. ASSUME NEW m \in 1 .. b
        PROVE  u[m] = t[m]
    <3>1. m \in 1 .. n + 1 /\ m <= b + 1 /\ m \in 1 .. b + 1 /\ m <= b
      BY <1>1
    <3>2. u[m] = w[m] /\ w[m] = x[m]
      BY <1>5, <1>6, <1>7, <3>1
    <3> QED
      BY <1>2, <3>2
  <2> QED
    BY <2>1
<1>10. u[b + 1] = d
  <2>1. b + 1 \in 1 .. n + 1 /\ b + 1 <= b + 1 /\ b + 1 \in 1 .. b + 1 /\ ~(b + 1 <= b)
        /\ (b + 1) - b = 1
    BY <1>1
  <2>2. u[b + 1] = w[b + 1] /\ w[b + 1] = y[1]
    BY <1>5, <1>6, <1>7, <2>1
  <2> QED
    BY <1>3, <2>2
<1>11. \A m \in b + 1 .. n : u[m + 1] = t[m]
  <2>1. ASSUME NEW m \in b + 1 .. n
        PROVE  u[m + 1] = t[m]
    <3>1. m + 1 \in 1 .. n + 1 /\ ~(m + 1 <= b + 1) /\ (m + 1) - (b + 1) = m - b
          /\ m - b \in 1 .. n - b /\ b + (m - b) = m
      BY <1>1
    <3>2. u[m + 1] = z[m - b]
      BY <1>6, <1>7, <3>1
    <3>3. z[m - b] = t[m]
      BY <1>4, <3>1
    <3> QED
      BY <3>2, <3>3
  <2> QED
    BY <2>1
<1>12. IsInsertion(D, t, d, b, u)
  BY <1>6, <1>7, <1>9, <1>10, <1>11 DEF n, IsInsertion
<1> QED
  BY <1>8, <1>12

\* t holds the first k members of seq, each at its place among them.
SortedPrefix(seq, score, k, t) ==
  Len(t) = k /\ \A j \in 1 .. k : t[PlaceIn(1 .. k, score, j)] = seq[j]

\* The scores of what is sorted are numbers.
AreScored(D) == \A d \in D : d.score \in Int
AreScoresOf(score, seq) == \A j \in 1 .. Len(seq) : score[j] = seq[j].score

\* One more insertion.
LEMMA SortingIn ==
  ASSUME NEW D, AreScored(D),
         NEW seq \in Seq(D), NEW k \in 0 .. Len(seq) - 1, NEW t \in Seq(D),
         NEW score, AreScoresOf(score, seq),
         SortedPrefix(seq, score, k, t)
  PROVE  /\ SortInto(t, seq[k + 1]) \in Seq(D)
         /\ SortedPrefix(seq, score, k + 1, SortInto(t, seq[k + 1]))
<1> DEFINE d == seq[k + 1]
           S == 1 .. k
           T == 1 .. k + 1
           before == {m \in DOMAIN t : t[m].score >= d.score}
           B == {i \in S : score[i] >= score[k + 1]}
           p(j) == PlaceIn(S, score, j)
           b == Cardinality(before)
           u == SortInto(t, d)
<1>0. (\A x \in D : x.score \in Int) /\ \A j \in 1 .. Len(seq) : score[j] = seq[j].score
  BY DEF AreScored, AreScoresOf
<1>1. /\ k \in Nat /\ Len(t) = k /\ DOMAIN t = S /\ d \in D /\ d.score = score[k + 1]
      /\ score[k + 1] \in Int
      /\ \A j \in T : score[j] \in Int /\ seq[j].score = score[j]
      /\ S \in SUBSET Nat /\ T \in SUBSET Nat /\ \A j \in S : j \in T
      /\ \A j \in S : t[p(j)] = seq[j]
  <2>1. k + 1 \in 1 .. Len(seq) /\ \A j \in T : j \in 1 .. Len(seq)
    OBVIOUS
  <2>2. \A j \in 1 .. Len(seq) : seq[j] \in D
    OBVIOUS
  <2>3. \A j \in T : score[j] \in Int /\ seq[j].score = score[j]
    BY <1>0, <2>1, <2>2
  <2>4. Len(t) = k /\ \A j \in S : t[p(j)] = seq[j]
    BY DEF SortedPrefix
  <2>5. k + 1 \in T /\ k \in Nat /\ S \in SUBSET Nat /\ T \in SUBSET Nat /\ \A j \in S : j \in T
    OBVIOUS
  <2>6. DOMAIN t = 1 .. Len(t)
    OBVIOUS
  <2> QED
    BY <2>1, <2>2, <2>3, <2>4, <2>5, <2>6
<1>2. IsFiniteSet(S) /\ Cardinality(S) = k
  <2>1. IsFiniteSet(1 .. k) /\ Cardinality(1 .. k) = IF 1 > k THEN 0 ELSE k - 1 + 1
    BY <1>1, FS_Interval
  <2> QED
    BY <1>1, <2>1
<1>3. /\ \A j \in S : p(j) \in 1 .. k
      /\ \A i, j \in S : p(i) = p(j) => i = j
      /\ \A m \in 1 .. k : \E j \in S : p(j) = m
  <2>1. HasScores(S, score)
    BY <1>1 DEF HasScores
  <2>2. S \in SUBSET Nat
    BY <1>1
  <2> HIDE DEF S
  <2>3. PlacesAreOneToOne(S, score)
    BY <1>2, <2>1, <2>2, Places
  <2> QED
    BY <1>2, <2>3 DEF PlacesAreOneToOne
<1>4. B \in SUBSET S /\ IsFiniteSet(B) /\ Cardinality(B) \in Nat /\ Cardinality(B) <= k
  <2>1. B \in SUBSET S
    OBVIOUS
  <2> HIDE DEF B, S
  <2>2. IsFiniteSet(B) /\ Cardinality(B) <= Cardinality(S)
    BY <1>2, <2>1, FS_Subset
  <2>3. Cardinality(B) \in Nat
    BY <2>2, FS_CardinalityType
  <2> QED
    BY <1>2, <2>1, <2>2, <2>3
\* The members of t before the new one are those of seq that are not smaller.
<1>5. b = Cardinality(B)
  <2> DEFINE f == [i \in B |-> p(i)]
  <2>1. f \in [B -> before]
    <3>1. ASSUME NEW i \in B
          PROVE  p(i) \in before
      <4>1. i \in S /\ i \in T /\ score[i] >= score[k + 1]
        BY <1>1
      <4>2. t[p(i)] = seq[i] /\ seq[i].score = score[i] /\ p(i) \in DOMAIN t
        BY <1>1, <1>3, <4>1
      <4> HIDE DEF p, S, T, d
      <4> QED
        BY <1>1, <4>1, <4>2
    <3> HIDE DEF B, before, p
    <3> QED
      BY <3>1
  <2>2. \A i, j \in B : f[i] = f[j] => i = j
    BY <1>3
  <2>3. \A m \in before : \E i \in B : f[i] = m
    <3>1. ASSUME NEW m \in before
          PROVE  \E i \in B : f[i] = m
      <4>1. m \in 1 .. k /\ t[m].score >= d.score
        BY <1>1
      <4>2. PICK i \in S : p(i) = m
        BY <1>3, <4>1
      <4>3. t[m] = seq[i] /\ seq[i].score = score[i]
        BY <1>1, <4>2
      <4>4. score[i] >= score[k + 1]
        <5> HIDE DEF d, S, p, T
        <5> QED
          BY <1>1, <4>1, <4>3
      <4>5. i \in B
        BY <4>4
      <4> HIDE DEF B, p
      <4> QED
        BY <4>2, <4>5
    <3> QED
      BY <3>1
  <2> HIDE DEF f, B, before
  <2>4. f \in Bijection(B, before)
    BY <2>1, <2>2, <2>3 DEF Bijection, Injection, Surjection, IsInjective
  <2>5. ExistsBijection(B, before)
    BY <2>4 DEF ExistsBijection
  <2> QED
    BY <1>4, <2>5, FS_Bijection
<1>6. b \in 0 .. Len(t)
  BY <1>1, <1>4, <1>5
<1>7. u = InsertAt(t, b + 1, d)
  BY DEF SortInto
<1> HIDE DEF b, u, before
<1>8. /\ u \in Seq(D) /\ Len(u) = k + 1
      /\ \A m \in 1 .. b : u[m] = t[m]
      /\ u[b + 1] = d
      /\ \A m \in b + 1 .. k : u[m + 1] = t[m]
  <2>1. Len(t) = k /\ d \in D
    BY <1>1
  <2> HIDE DEF d
  <2>2. IsInsertion(D, t, d, b, u)
    BY <1>6, <1>7, <2>1, InsertFacts
  <2> QED
    BY <2>1, <2>2 DEF IsInsertion
<1> DEFINE A(j) == AheadIn(S, score, j)
           C(j) == AheadIn(T, score, j)
<1>9. ASSUME NEW j \in S
      PROVE  /\ A(j) \in SUBSET S /\ IsFiniteSet(A(j)) /\ Cardinality(A(j)) \in Nat
             /\ p(j) = Cardinality(A(j)) + 1 /\ j \notin A(j)
  <2>1. A(j) \in SUBSET S /\ j \notin A(j)
    <3>1. score[j] \in Int /\ j \in Int
      BY <1>1
    <3> QED
      BY <3>1 DEF AheadIn
  <2>2. IsFiniteSet(A(j))
    <3> HIDE DEF A, S
    <3> QED
      BY <1>2, <2>1, FS_Subset
  <2>3. Cardinality(A(j)) \in Nat
    BY <2>2, FS_CardinalityType
  <2> QED
    BY <2>1, <2>2, <2>3 DEF PlaceIn
<1>10. ASSUME NEW j \in T
       PROVE  u[PlaceIn(T, score, j)] = seq[j]
  <2>1. CASE j = k + 1
    <3>1. C(j) = B
      <4>1. \A i \in T : score[i] \in Int /\ i \in Int /\ (i = k + 1 \/ (i \in S /\ i < k + 1))
        BY <1>1
      <4>2. \A i \in S : i \in T /\ i < k + 1
        BY <1>1
      <4>3. \A i \in C(j) : i \in B
        BY <2>1, <4>1 DEF AheadIn
      <4>4. \A i \in B : i \in C(j)
        <5>1. ASSUME NEW i \in B
              PROVE  i \in C(j)
          <6>1. i \in S /\ i \in T /\ i < k + 1 /\ score[i] >= score[k + 1]
                /\ score[i] \in Int /\ score[k + 1] \in Int
            BY <1>1, <4>1, <4>2
          <6>2. score[i] > score[j] \/ (score[i] = score[j] /\ i < j)
            BY <2>1, <6>1
          <6> QED
            BY <6>1, <6>2 DEF AheadIn
        <5> QED
          BY <5>1
      <4> HIDE DEF B, C
      <4>5. C(j) \subseteq B /\ B \subseteq C(j)
        BY <4>3, <4>4
      <4> QED
        BY <4>5
    <3>2. PlaceIn(T, score, j) = b + 1
      BY <1>5, <3>1 DEF PlaceIn
    <3> QED
      BY <1>8, <2>1, <3>2
  <2>2. CASE j # k + 1 /\ score[j] >= score[k + 1]
    <3>1. j \in S /\ j \in B /\ j < k + 1
      BY <1>1, <2>2
    <3>2. C(j) = A(j)
      <4>1. \A i \in T : i \in S \/ i = k + 1
        BY <1>1
      <4>2. k + 1 \notin C(j)
        <5>1. ~(score[k + 1] > score[j]) /\ ~(k + 1 < j)
          BY <1>1, <2>2, <3>1
        <5> QED
          BY <5>1 DEF AheadIn
      <4>3. \A i \in C(j) : i \in A(j)
        BY <4>1, <4>2 DEF AheadIn
      <4>4. \A i \in A(j) : i \in C(j)
        BY <1>1 DEF AheadIn
      <4> HIDE DEF A, C
      <4>5. C(j) \subseteq A(j) /\ A(j) \subseteq C(j)
        BY <4>3, <4>4
      <4> QED
        BY <4>5
    <3>3. PlaceIn(T, score, j) = p(j)
      BY <3>2 DEF PlaceIn
    <3>4. p(j) <= b
      <4>1. A(j) \cup {j} \in SUBSET B
        <5>1. ASSUME NEW i \in A(j)
              PROVE  i \in B
          <6>1. i \in S /\ score[i] >= score[j] /\ score[i] \in Int /\ score[j] \in Int
            BY <1>1, <3>1 DEF AheadIn
          <6> QED
            BY <1>1, <2>2, <6>1
        <5> HIDE DEF A, B
        <5> QED
          BY <3>1, <5>1
      <4>2. Cardinality(A(j) \cup {j}) = Cardinality(A(j)) + 1
        <5> HIDE DEF A
        <5> QED
          BY <1>9, <3>1, FS_AddElement
      <4>3. Cardinality(A(j) \cup {j}) <= Cardinality(B)
        <5> HIDE DEF A, B
        <5> QED
          BY <1>4, <4>1, FS_Subset
      <4> QED
        BY <1>5, <1>9, <3>1, <4>2, <4>3
    <3>5. p(j) \in 1 .. b
      <4>1. p(j) \in 1 .. k /\ b \in Nat
        BY <1>1, <1>3, <1>6, <3>1
      <4> HIDE DEF p
      <4> QED
        BY <3>4, <4>1
    <3> HIDE DEF p
    <3> QED
      BY <1>1, <1>8, <3>1, <3>3, <3>5
  <2>3. CASE j # k + 1 /\ ~(score[j] >= score[k + 1])
    <3>1. j \in S /\ j < k + 1 /\ score[k + 1] > score[j]
      BY <1>1, <2>3
    <3>2. C(j) = A(j) \cup {k + 1}
      <4>1. \A i \in T : i \in S \/ i = k + 1
        BY <1>1
      <4>2. k + 1 \in C(j)
        BY <1>1, <3>1 DEF AheadIn
      <4>3. \A i \in C(j) : i \in A(j) \/ i = k + 1
        BY <4>1 DEF AheadIn
      <4>4. \A i \in A(j) : i \in C(j)
        BY <1>1 DEF AheadIn
      <4> HIDE DEF A, C
      <4>5. C(j) \subseteq A(j) \cup {k + 1} /\ A(j) \cup {k + 1} \subseteq C(j)
        BY <4>2, <4>3, <4>4
      <4> QED
        BY <4>5
    <3>3. PlaceIn(T, score, j) = p(j) + 1
      <4>1. k + 1 \notin A(j)
        <5>1. k + 1 \notin S
          BY <1>1
        <5> QED
          BY <1>9, <3>1, <5>1
      <4>2. Cardinality(A(j) \cup {k + 1}) = Cardinality(A(j)) + 1
        <5> HIDE DEF A
        <5> QED
          BY <1>9, <3>1, <4>1, FS_AddElement
      <4> QED
        BY <1>9, <3>1, <3>2, <4>2 DEF PlaceIn
    <3>4. b < p(j)
      <4>1. B \in SUBSET A(j)
        <5>1. ASSUME NEW i \in B
              PROVE  i \in A(j)
          <6>1. i \in S /\ score[i] >= score[k + 1] /\ score[i] \in Int /\ score[j] \in Int
                /\ score[k + 1] \in Int
            BY <1>1, <3>1
          <6>2. score[i] > score[j]
            BY <3>1, <6>1
          <6> QED
            BY <6>1, <6>2 DEF AheadIn
        <5> QED
          BY <5>1
      <4>2. Cardinality(B) <= Cardinality(A(j))
        <5> HIDE DEF A, B
        <5> QED
          BY <1>9, <3>1, <4>1, FS_Subset
      <4> QED
        BY <1>4, <1>5, <1>9, <3>1, <4>2
    <3>5. p(j) \in b + 1 .. k
      <4>1. p(j) \in 1 .. k /\ b \in Nat
        BY <1>1, <1>3, <1>6, <3>1
      <4> HIDE DEF p
      <4> QED
        BY <3>4, <4>1
    <3> HIDE DEF p
    <3> QED
      BY <1>1, <1>8, <3>1, <3>3, <3>5
  <2> QED
    BY <2>1, <2>2, <2>3
<1> HIDE DEF d
<1>11. SortedPrefix(seq, score, k + 1, u)
  BY <1>8, <1>10 DEF SortedPrefix
<1> QED
  BY <1>8, <1>11 DEF u, d

\* Inserting makes a sequence of the same things.
LEMMA SortIntoType ==
  ASSUME NEW D, NEW t \in Seq(D), NEW d \in D
  PROVE  SortInto(t, d) \in Seq(D)
<1> DEFINE before == {m \in DOMAIN t : t[m].score >= d.score}
           b == Cardinality(before)
<1>1. b \in 0 .. Len(t)
  <2>1. Len(t) \in Nat /\ DOMAIN t = 1 .. Len(t)
    OBVIOUS
  <2>2. IsFiniteSet(1 .. Len(t)) /\ Cardinality(1 .. Len(t)) = Len(t)
    <3> DEFINE n == Len(t)
    <3>1. 1 \in Int /\ n \in Nat /\ n \in Int
      BY <2>1
    <3> HIDE DEF n
    <3>2. IsFiniteSet(1 .. n) /\ Cardinality(1 .. n) = IF 1 > n THEN 0 ELSE n - 1 + 1
      BY <3>1, FS_Interval
    <3>3. Cardinality(1 .. n) = n
      BY <3>1, <3>2
    <3> QED
      BY <3>2, <3>3 DEF n
  <2>3. before \in SUBSET (1 .. Len(t))
    BY <2>1
  <2> HIDE DEF before
  <2>4. IsFiniteSet(before) /\ Cardinality(before) <= Len(t)
    BY <2>2, <2>3, FS_Subset
  <2>5. Cardinality(before) \in Nat
    BY <2>4, FS_CardinalityType
  <2> QED
    BY <2>1, <2>4, <2>5
<1>2. SortInto(t, d) = InsertAt(t, b + 1, d)
  BY DEF SortInto
<1> HIDE DEF b
<1>3. IsInsertion(D, t, d, b, InsertAt(t, b + 1, d))
  BY <1>1, InsertFacts
<1> QED
  BY <1>2, <1>3 DEF IsInsertion

\* StableSort sorts, and leaves equal scores in their order.
LEMMA SortIsStable ==
  ASSUME NEW D, AreScored(D), NEW seq \in Seq(D), NEW score, AreScoresOf(score, seq)
  PROVE  StableSort(seq) \in Seq(D) /\ SortedPrefix(seq, score, Len(seq), StableSort(seq))
<1> DEFINE n == Len(seq)
           G(f) == [s \in SUBSET DOMAIN seq |->
                      IF s = {} THEN <<>> ELSE SortInto(f[s \ {Max(s)}], seq[Max(s)])]
           g == CHOOSE f : f = G(f)
<1>0. (\A d \in D : d.score \in Int) /\ \A j \in 1 .. Len(seq) : score[j] = seq[j].score
  BY DEF AreScored, AreScoresOf
<1>1. StableSort(seq) = g[DOMAIN seq]
  BY DEF StableSort, FoldLeft, MapThenFoldSet
<1>2. /\ n \in Nat /\ DOMAIN seq = 1 .. n /\ \A i \in 1 .. n : seq[i] \in D
      /\ \A i \in 0 .. n - 1 : seq[i + 1] \in D
  OBVIOUS
<1> HIDE DEF n
<1>3. \A s \in SUBSET (1 .. n) : s # {} => Max(s) \in 1 .. n /\ s \ {Max(s)} \in SUBSET (1 .. n)
  BY <1>2, Greatest
<1>4. ASSUME NEW f, NEW s \in SUBSET (1 .. n), s # {}
      PROVE  G(f)[s] = SortInto(f[s \ {Max(s)}], seq[Max(s)])
  <2>1. s \in SUBSET DOMAIN seq
    BY <1>2
  <2> QED
    BY <1>4, <2>1
<1>5. \A f : DOMAIN G(f) = SUBSET (1 .. n) /\ G(f)[{}] = <<>>
  BY <1>2
<1> DEFINE V == Seq(D)
           step == [x \in V \X (1 .. n) |-> SortInto(x[1], seq[x[2]])]
<1>6. PICK f \in [SUBSET (1 .. n) -> V] : Folds(f, 1 .. n, <<>>, step)
  <2>1. \A x \in V \X (1 .. n) : SortInto(x[1], seq[x[2]]) \in V
    BY <1>2, SortIntoType
  <2>2. step \in [V \X (1 .. n) -> V] /\ <<>> \in V
    BY <2>1
  <2> HIDE DEF step, V
  <2> QED
    BY <1>2, <2>2, FoldExists
<1>7. ASSUME NEW s \in SUBSET (1 .. n)
      PROVE  f[s] = G(f)[s]
  <2>1. CASE s = {}
    <3>1. f[s] = <<>>
      BY <1>6, <2>1 DEF Folds
    <3> HIDE DEF G
    <3> QED
      BY <1>5, <2>1, <3>1
  <2>2. CASE s # {}
    <3>1. f[s] = step[<<f[s \ {Max(s)}], Max(s)>>]
      BY <1>6, <2>2 DEF Folds
    <3>2. <<f[s \ {Max(s)}], Max(s)>> \in V \X (1 .. n)
      BY <1>3, <1>6, <2>2
    <3> HIDE DEF G, V
    <3>3. f[s] = SortInto(f[s \ {Max(s)}], seq[Max(s)])
      BY <3>1, <3>2
    <3> QED
      BY <1>4, <2>2, <3>3
  <2> QED
    BY <2>1, <2>2
<1>8. f = G(f)
  <2> DEFINE E == SUBSET (1 .. n)
             C == SUBSET DOMAIN seq
  <2>1. G(f) = [s \in C |-> G(f)[s]]
    OBVIOUS
  <2>2. C = E
    BY <1>2
  <2>3. f = [s \in E |-> f[s]]
    <3> HIDE DEF G
    <3> QED
      BY <1>6
  <2>4. \A s \in E : f[s] = G(f)[s]
    BY <1>7
  <2> HIDE DEF C, E, G
  <2> QED
    BY <2>1, <2>2, <2>3, <2>4
<1>9. g = G(g)
  <2> HIDE DEF G
  <2> QED
    BY <1>8
<1> HIDE DEF g, G
<1>10. g[{}] = <<>> /\ \A s \in SUBSET (1 .. n) : s # {} =>
          g[s] = SortInto(g[s \ {Max(s)}], seq[Max(s)])
  BY <1>4, <1>5, <1>9
<1> DEFINE S == {k \in 0 .. n : g[1 .. k] \in V /\ SortedPrefix(seq, score, k, g[1 .. k])}
<1>11. 0 \in S
  <2>1. 1 .. 0 = {}
    OBVIOUS
  <2>2. g[1 .. 0] = <<>>
    BY <1>10, <2>1
  <2>3. SortedPrefix(seq, score, 0, <<>>) /\ <<>> \in V
    BY <2>1 DEF SortedPrefix
  <2> HIDE DEF V
  <2> QED
    BY <1>2, <2>2, <2>3
<1>12. ASSUME NEW k \in 0 .. n - 1, k \in S
       PROVE  k + 1 \in S
  <2> DEFINE s == 1 .. k + 1
             t == g[1 .. k]
  <2>0. k + 1 \in 0 .. n /\ k + 1 \in 1 .. n /\ k \in Nat /\ k \in 0 .. Len(seq) - 1
    BY <1>2 DEF n
  <2>1. s \in SUBSET (1 .. n) /\ s # {}
    <3>1. \A j \in 1 .. k + 1 : j \in 1 .. n
      BY <1>2, <2>0
    <3>2. 1 \in s
      BY <2>0
    <3> QED
      BY <3>1, <3>2
  <2>2. Max(s) = k + 1 /\ s \ {k + 1} = 1 .. k
    BY <2>0, GreatestOfPrefix
  <2> HIDE DEF s
  <2>3. g[s] = SortInto(t, seq[k + 1])
    <3>1. g[s] = SortInto(g[s \ {Max(s)}], seq[Max(s)])
      BY <1>10, <2>1
    <3> QED
      BY <2>2, <3>1
  <2>4. t \in Seq(D) /\ SortedPrefix(seq, score, k, t)
    BY <1>12
  <2> HIDE DEF t
  <2>5. SortInto(t, seq[k + 1]) \in Seq(D) /\ SortedPrefix(seq, score, k + 1, SortInto(t, seq[k + 1]))
    BY <2>0, <2>4, SortingIn
  <2> QED
    BY <2>0, <2>3, <2>5 DEF s
<1>13. n \in S
  <2> HIDE DEF S
  <2>1. 0 .. n \subseteq S
    BY <1>2, <1>11, <1>12, Reaches
  <2> QED
    BY <1>2, <2>1
<1> QED
  BY <1>1, <1>2, <1>13 DEF n

-----------------------------------------------------------------------------
(* The rows that are kept *)

\* What DetectionsAreTheBestRows says, for layout l, cells c and limits m.
ClassesOf(l, c, r) ==
  {a \in 0 .. l.schema.class_count - 1 :
     \A e \in 0 .. l.schema.class_count - 1 :
       c[r][l.schema.first_class + a] >= c[r][l.schema.first_class + e]}
FirstOf(l, c, r) == CHOOSE a \in ClassesOf(l, c, r) : \A e \in ClassesOf(l, c, r) : a <= e
ScoreOf(l, c, r) ==
  (IF l.schema.objectness = -1 THEN 1 ELSE c[r][l.schema.objectness])
    * c[r][l.schema.first_class + FirstOf(l, c, r)]
BoxOf(l, box) ==
  IF l.schema.encoding = "center_xywh"
  THEN <<2 * box[1], 2 * box[2], box[3], box[4]>>
  ELSE <<box[1] + box[3], box[2] + box[4], box[3] - box[1], box[4] - box[2]>>
FoundOf(l, c, r) ==
  [bounds |-> BoxOf(l, [k \in 1 .. 4 |-> c[r][l.schema.box[k]]]),
   class_id |-> FirstOf(l, c, r), score |-> ScoreOf(l, c, r)]
UsedOf(l) ==
  Range0(l.schema.first_class, l.schema.class_count)
    \cup {l.schema.box[k] : k \in 1 .. 4} \cup ({l.schema.objectness} \ {-1})
AllFinite(l, c, D) == \A r \in D, a \in UsedOf(l) : c[r][a] # NotFinite

KeptOf(l, c, m, D) == {r \in D : ScoreOf(l, c, r) >= m.score_threshold}
PlaceOf(l, c, K, r) ==
  Cardinality({q \in K : \/ ScoreOf(l, c, q) > ScoreOf(l, c, r)
                         \/ ScoreOf(l, c, q) = ScoreOf(l, c, r) /\ q < r}) + 1
BestRows(l, c, m, d) ==
  LET K == KeptOf(l, c, m, DOMAIN c)
      Shown == {r \in K : m.max_detections = 0 \/ PlaceOf(l, c, K, r) <= m.max_detections}
  IN  /\ AllFinite(l, c, DOMAIN c)
      /\ Len(d) = Cardinality(Shown)
      /\ \A r \in Shown : d[PlaceOf(l, c, K, r)] = FoundOf(l, c, r)

\* Before the sort: what was found in the first k rows, in their order.
Founds(l, c) == {FoundOf(l, c, r) : r \in {q \in Nat : ScoreOf(l, c, q) \in Int}}
IndexOf(l, c, m, r) == Cardinality(KeptOf(l, c, m, 0 .. r - 1)) + 1
Collected(l, c, m, k, d) ==
  /\ d \in Seq(Founds(l, c))
  /\ Len(d) = Cardinality(KeptOf(l, c, m, 0 .. k - 1))
  /\ \A r \in KeptOf(l, c, m, 0 .. k - 1) : d[IndexOf(l, c, m, r)] = FoundOf(l, c, r)
  /\ \A r \in 0 .. k - 1 : ScoreOf(l, c, r) \in Int
  /\ AllFinite(l, c, 0 .. k - 1)

\* Few rows are kept.
LEMMA KeptIsFinite ==
  ASSUME NEW l, NEW c, NEW m, NEW k \in Nat
  PROVE  /\ KeptOf(l, c, m, 0 .. k - 1) \in SUBSET (0 .. k - 1)
         /\ IsFiniteSet(KeptOf(l, c, m, 0 .. k - 1))
         /\ Cardinality(KeptOf(l, c, m, 0 .. k - 1)) \in Nat
<1> DEFINE K == KeptOf(l, c, m, 0 .. k - 1)
<1>1. K \in SUBSET (0 .. k - 1)
  BY DEF KeptOf
<1>2. IsFiniteSet(0 .. k - 1)
  BY FS_Interval
<1> HIDE DEF K
<1>3. IsFiniteSet(K)
  BY <1>1, <1>2, FS_Subset
<1>4. Cardinality(K) \in Nat
  BY <1>3, FS_CardinalityType
<1> QED
  BY <1>1, <1>3, <1>4 DEF K

\* Kept rows are numbered without a gap.
LEMMA IndexIsOneToOne ==
  ASSUME NEW l, NEW c, NEW m, NEW k \in Nat
  PROVE  LET K == KeptOf(l, c, m, 0 .. k - 1)
         IN  /\ \A r \in K : IndexOf(l, c, m, r) \in 1 .. Cardinality(K)
             /\ \A q, r \in K : q < r => IndexOf(l, c, m, q) < IndexOf(l, c, m, r)
             /\ \A i \in 1 .. Cardinality(K) : \E r \in K : IndexOf(l, c, m, r) = i
<1> DEFINE K == KeptOf(l, c, m, 0 .. k - 1)
           n == Cardinality(K)
           B(r) == KeptOf(l, c, m, 0 .. r - 1)
           index == [r \in K |-> Cardinality(B(r)) + 1]
<1>1. K \in SUBSET (0 .. k - 1) /\ IsFiniteSet(K) /\ n \in Nat
  BY KeptIsFinite
<1>2. ASSUME NEW r \in Nat
      PROVE  IsFiniteSet(B(r)) /\ Cardinality(B(r)) \in Nat /\ r \notin B(r)
  <2>1. B(r) \in SUBSET (0 .. r - 1) /\ IsFiniteSet(B(r)) /\ Cardinality(B(r)) \in Nat
    BY KeptIsFinite
  <2>2. r \notin 0 .. r - 1
    OBVIOUS
  <2> HIDE DEF B
  <2> QED
    BY <2>1, <2>2
<1>3. \A r \in K : r \in Nat /\ r \in 0 .. k - 1
  <2> HIDE DEF K
  <2> QED
    BY <1>1
\* A set of kept rows below b holds fewer than one that also holds r.
<1>4. ASSUME NEW r \in K, NEW T, IsFiniteSet(T), B(r) \cup {r} \subseteq T
      PROVE  Cardinality(B(r)) < Cardinality(T)
  <2>1. r \in Nat /\ IsFiniteSet(B(r)) /\ Cardinality(B(r)) \in Nat /\ r \notin B(r)
    BY <1>2, <1>3
  <2> HIDE DEF B, K
  <2>2. Cardinality(B(r) \cup {r}) = Cardinality(B(r)) + 1
    BY <2>1, FS_AddElement
  <2>3. Cardinality(B(r) \cup {r}) <= Cardinality(T)
    BY <1>4, FS_Subset
  <2>4. Cardinality(T) \in Nat
    BY <1>4, FS_CardinalityType
  <2> QED
    BY <2>1, <2>2, <2>3, <2>4
<1>5. ASSUME NEW q \in K, NEW r \in K, q < r
      PROVE  Cardinality(B(q)) < Cardinality(B(r))
  <2>1. q \in Nat /\ r \in Nat
    BY <1>3
  <2>2. B(q) \cup {q} \subseteq B(r)
    <3>1. \A x \in 0 .. q - 1 : x \in 0 .. r - 1
      BY <1>5, <2>1
    <3>2. q \in 0 .. r - 1
      BY <1>5, <2>1
    <3> QED
      BY <3>1, <3>2 DEF KeptOf
  <2> HIDE DEF B
  <2> QED
    BY <1>2, <1>4, <2>1, <2>2
<1>6. ASSUME NEW r \in K
      PROVE  Cardinality(B(r)) < n
  <2>1. B(r) \cup {r} \subseteq K
    <3>1. r \in 0 .. k - 1 /\ \A x \in 0 .. r - 1 : x \in 0 .. k - 1
      BY <1>3
    <3> QED
      BY <3>1 DEF KeptOf
  <2> HIDE DEF B, K
  <2> QED
    BY <1>1, <1>4, <2>1
<1> HIDE DEF B, K, n
<1>7. index \in [K -> 1 .. n]
  BY <1>1, <1>2, <1>3, <1>6
<1>8. \A q, r \in K : index[q] = index[r] => q = r
  <2>1. ASSUME NEW q \in K, NEW r \in K, q # r
        PROVE  index[q] # index[r]
    <3>1. q \in Nat /\ r \in Nat /\ (q < r \/ r < q)
      BY <1>3, <2>1
    <3>2. Cardinality(B(q)) \in Nat /\ Cardinality(B(r)) \in Nat
      BY <1>2, <3>1
    <3>3. Cardinality(B(q)) # Cardinality(B(r))
      BY <1>5, <3>1, <3>2
    <3> QED
      BY <3>2, <3>3
  <2> QED
    BY <2>1
<1>9. IsFiniteSet(1 .. n) /\ Cardinality(1 .. n) = n
  <2>1. 1 \in Int /\ n \in Int
    BY <1>1
  <2>2. IsFiniteSet(1 .. n) /\ Cardinality(1 .. n) = IF 1 > n THEN 0 ELSE n - 1 + 1
    BY <2>1, FS_Interval
  <2> QED
    BY <1>1, <2>2
<1>10. index \in Surjection(K, 1 .. n)
  <2> HIDE DEF index
  <2>1. index \in Injection(K, 1 .. n)
    BY <1>7, <1>8 DEF Injection, IsInjective
  <2> QED
    BY <1>1, <1>9, <2>1, FS_Injection DEF n
<1>11. \A i \in 1 .. n : \E r \in K : index[r] = i
  <2> HIDE DEF index
  <2> QED
    BY <1>10 DEF Surjection
<1>12. \A r \in K : index[r] = IndexOf(l, c, m, r)
  BY DEF IndexOf, B
<1>13. \A q, r \in K : q < r => index[q] < index[r]
  <2>1. ASSUME NEW q \in K, NEW r \in K, q < r
        PROVE  index[q] < index[r]
    <3>1. Cardinality(B(q)) \in Nat /\ Cardinality(B(r)) \in Nat /\ Cardinality(B(q)) < Cardinality(B(r))
      BY <1>2, <1>3, <1>5, <2>1
    <3> QED
      BY <3>1
  <2> QED
    BY <2>1
<1> HIDE DEF index
<1>14. \A r \in K : IndexOf(l, c, m, r) \in 1 .. n
  BY <1>7, <1>12
<1>15. \A q, r \in K : q < r => IndexOf(l, c, m, q) < IndexOf(l, c, m, r)
  BY <1>12, <1>13
<1>16. \A i \in 1 .. n : \E r \in K : IndexOf(l, c, m, r) = i
  BY <1>11, <1>12
<1> QED
  BY <1>14, <1>15, <1>16 DEF K, n

\* A kept row has the same place among the kept rows as its detection among the
\* detections.
LEMMA PlacesAgree ==
  ASSUME NEW l, NEW c, NEW m, NEW k \in Nat, NEW d, Collected(l, c, m, k, d),
         NEW r \in KeptOf(l, c, m, 0 .. k - 1)
  PROVE  PlaceIn(1 .. Len(d), [i \in 1 .. Len(d) |-> d[i].score], IndexOf(l, c, m, r))
           = PlaceOf(l, c, KeptOf(l, c, m, 0 .. k - 1), r)
<1> DEFINE K == KeptOf(l, c, m, 0 .. k - 1)
           n == Len(d)
           sc == [i \in 1 .. n |-> d[i].score]
           idx(q) == IndexOf(l, c, m, q)
           s(q) == ScoreOf(l, c, q)
           X == {q \in K : s(q) > s(r) \/ (s(q) = s(r) /\ q < r)}
           Y == AheadIn(1 .. n, sc, idx(r))
           f == [q \in X |-> idx(q)]
<1>1. /\ \A q \in K : idx(q) \in 1 .. n
      /\ \A p, q \in K : p < q => idx(p) < idx(q)
      /\ \A i \in 1 .. n : \E q \in K : idx(q) = i
  <2>1. n = Cardinality(K)
    BY DEF Collected
  <2> QED
    BY <2>1, IndexIsOneToOne
<1>2. \A q \in K : q \in Nat /\ s(q) \in Int
  <2>1. K \in SUBSET (0 .. k - 1)
    BY KeptIsFinite
  <2>2. \A q \in 0 .. k - 1 : s(q) \in Int
    BY DEF Collected
  <2> HIDE DEF K, s
  <2> QED
    BY <2>1, <2>2
<1>3. \A q \in K : d[idx(q)] = FoundOf(l, c, q)
  BY DEF Collected
<1>4. \A q \in K : sc[idx(q)] = s(q)
  <2>1. \A q \in K : FoundOf(l, c, q).score = s(q)
    BY DEF FoundOf
  <2>2. \A i \in 1 .. n : sc[i] = d[i].score
    OBVIOUS
  <2> HIDE DEF K, idx, s, n, sc
  <2> QED
    BY <1>1, <1>3, <2>1, <2>2
<1>5. IsFiniteSet(X)
  <2>1. X \in SUBSET K /\ IsFiniteSet(K)
    BY KeptIsFinite
  <2> HIDE DEF X, K
  <2> QED
    BY <2>1, FS_Subset
<1> HIDE DEF K, n, sc, idx, s
<1>6. r \in K /\ \A p, q \in K : idx(p) < idx(q) => p < q
  <2>1. r \in K
    BY DEF K
  <2>2. ASSUME NEW p \in K, NEW q \in K, idx(p) < idx(q)
        PROVE  p < q
    <3>1. p \in Nat /\ q \in Nat /\ idx(p) \in Int /\ idx(q) \in Int
      BY <1>1, <1>2
    <3>2. CASE q < p
      BY <1>1, <2>2, <3>1, <3>2
    <3>3. CASE q = p
      BY <2>2, <3>1, <3>3
    <3> QED
      BY <3>1, <3>2, <3>3
  <2> QED
    BY <2>1, <2>2
<1>7. f \in [X -> Y]
  <2>1. ASSUME NEW q \in X
        PROVE  idx(q) \in Y
    <3>1. q \in K /\ (s(q) > s(r) \/ (s(q) = s(r) /\ q < r))
      OBVIOUS
    <3>2. sc[idx(q)] = s(q) /\ sc[idx(r)] = s(r) /\ idx(q) \in 1 .. n
      BY <1>1, <1>4, <1>6, <3>1
    <3>3. q < r => idx(q) < idx(r)
      BY <1>1, <1>6, <3>1
    <3>4. sc[idx(q)] > sc[idx(r)] \/ (sc[idx(q)] = sc[idx(r)] /\ idx(q) < idx(r))
      BY <3>1, <3>2, <3>3
    <3> QED
      BY <3>2, <3>4 DEF AheadIn
  <2> HIDE DEF X, Y
  <2> QED
    BY <2>1
<1>8. \A p, q \in X : f[p] = f[q] => p = q
  <2>1. ASSUME NEW p \in X, NEW q \in X, p # q
        PROVE  idx(p) # idx(q)
    <3>1. p \in K /\ q \in K
      OBVIOUS
    <3>2. p \in Nat /\ q \in Nat /\ (p < q \/ q < p)
      BY <1>2, <2>1, <3>1
    <3>3. idx(p) < idx(q) \/ idx(q) < idx(p)
      BY <1>1, <3>1, <3>2
    <3>4. idx(p) \in Int /\ idx(q) \in Int
      BY <1>1, <3>1
    <3> QED
      BY <3>3, <3>4
  <2> HIDE DEF X
  <2> QED
    BY <2>1
<1>9. \A i \in Y : \E q \in X : f[q] = i
  <2>1. ASSUME NEW i \in Y
        PROVE  \E q \in X : f[q] = i
    <3>1. i \in 1 .. n /\ (sc[i] > sc[idx(r)] \/ (sc[i] = sc[idx(r)] /\ i < idx(r)))
      BY DEF AheadIn
    <3>2. PICK q \in K : idx(q) = i
      BY <1>1, <3>1
    <3>3. sc[i] = s(q) /\ sc[idx(r)] = s(r)
      BY <1>4, <1>6, <3>2
    <3>4. i < idx(r) => q < r
      BY <1>6, <3>2
    <3>5. s(q) > s(r) \/ (s(q) = s(r) /\ q < r)
      BY <3>1, <3>3, <3>4
    <3>6. q \in X
      BY <3>5
    <3> HIDE DEF X
    <3> QED
      BY <3>2, <3>6
  <2> QED
    BY <2>1
<1> HIDE DEF f, X, Y
<1>10. ExistsBijection(X, Y)
  <2>1. f \in Bijection(X, Y)
    BY <1>7, <1>8, <1>9 DEF Bijection, Injection, Surjection, IsInjective
  <2> QED
    BY <2>1 DEF ExistsBijection
<1>11. Cardinality(Y) = Cardinality(X)
  BY <1>5, <1>10, FS_Bijection
<1> QED
  BY <1>11 DEF PlaceIn, PlaceOf, X, Y, K, n, sc, idx, s

\* The rows whose place is at most b are b.
LEMMA ShownAreCounted ==
  ASSUME NEW l, NEW c, NEW m, NEW k \in Nat, \A r \in 0 .. k - 1 : ScoreOf(l, c, r) \in Int
  PROVE  LET K == KeptOf(l, c, m, 0 .. k - 1)
         IN  /\ \A r \in K : PlaceOf(l, c, K, r) \in 1 .. Cardinality(K)
             /\ \A b \in 0 .. Cardinality(K) :
                  Cardinality({r \in K : PlaceOf(l, c, K, r) <= b}) = b
<1> DEFINE K == KeptOf(l, c, m, 0 .. k - 1)
           n == Cardinality(K)
           score == [r \in K |-> ScoreOf(l, c, r)]
           place(r) == PlaceOf(l, c, K, r)
<1>1. K \in SUBSET Nat /\ IsFiniteSet(K) /\ n \in Nat
  <2>1. K \in SUBSET (0 .. k - 1) /\ IsFiniteSet(K) /\ n \in Nat
    BY KeptIsFinite
  <2> HIDE DEF K
  <2> QED
    BY <2>1
<1>2. HasScores(K, score)
  BY DEF HasScores, KeptOf
<1> HIDE DEF K
<1>3. \A r \in K : place(r) = PlaceIn(K, score, r)
  <2>1. ASSUME NEW r \in K
        PROVE  place(r) = PlaceIn(K, score, r)
    <3> DEFINE X == {q \in K : \/ ScoreOf(l, c, q) > ScoreOf(l, c, r)
                               \/ ScoreOf(l, c, q) = ScoreOf(l, c, r) /\ q < r}
    <3>1. AheadIn(K, score, r) = X
      BY DEF AheadIn
    <3> HIDE DEF X, score
    <3> QED
      BY <3>1 DEF PlaceIn, PlaceOf, X
  <2> QED
    BY <2>1
<1> HIDE DEF score, place
<1>4. PlacesAreOneToOne(K, score)
  BY <1>1, <1>2, Places
<1>5. /\ \A r \in K : place(r) \in 1 .. n
      /\ \A q, r \in K : place(q) = place(r) => q = r
      /\ \A i \in 1 .. n : \E r \in K : place(r) = i
  BY <1>3, <1>4 DEF PlacesAreOneToOne
<1> HIDE DEF n
<1>6. ASSUME NEW b \in 0 .. n
      PROVE  Cardinality({r \in K : place(r) <= b}) = b
  <2> DEFINE T == {r \in K : place(r) <= b}
             f == [r \in T |-> place(r)]
  <2>1. f \in [T -> 1 .. b]
    <3>1. ASSUME NEW r \in T
          PROVE  place(r) \in 1 .. b
      <4>1. place(r) \in 1 .. n /\ place(r) <= b
        BY <1>5
      <4> QED
        BY <1>1, <4>1
    <3> HIDE DEF T
    <3> QED
      BY <3>1
  <2>2. \A q, r \in T : f[q] = f[r] => q = r
    BY <1>5
  <2>3. \A i \in 1 .. b : \E r \in T : f[r] = i
    <3>1. ASSUME NEW i \in 1 .. b
          PROVE  \E r \in T : f[r] = i
      <4>1. i \in 1 .. n /\ i <= b
        BY <1>1
      <4>2. PICK r \in K : place(r) = i
        BY <1>5, <4>1
      <4>3. r \in T
        BY <4>1, <4>2
      <4> HIDE DEF T
      <4> QED
        BY <4>2, <4>3
    <3> QED
      BY <3>1
  <2>4. IsFiniteSet(T)
    <3>1. T \in SUBSET K
      OBVIOUS
    <3> HIDE DEF T
    <3> QED
      BY <1>1, <3>1, FS_Subset
  <2> HIDE DEF f, T
  <2>5. ExistsBijection(T, 1 .. b)
    <3>1. f \in Bijection(T, 1 .. b)
      BY <2>1, <2>2, <2>3 DEF Bijection, Injection, Surjection, IsInjective
    <3> QED
      BY <3>1 DEF ExistsBijection
  <2>6. Cardinality(1 .. b) = Cardinality(T)
    BY <2>4, <2>5, FS_Bijection
  <2>7. Cardinality(1 .. b) = b
    <3>1. b \in Nat /\ 1 \in Int /\ b \in Int
      BY <1>1
    <3>2. Cardinality(1 .. b) = IF 1 > b THEN 0 ELSE b - 1 + 1
      BY <3>1, FS_Interval
    <3> QED
      BY <3>1, <3>2
  <2> QED
    BY <2>6, <2>7 DEF T
<1> QED
  BY <1>5, <1>6 DEF K, n, place

\* What is returned is the best of what was collected.
LEMMA CutIsBest ==
  ASSUME NEW l, NEW c, NEW m, NEW k \in Nat, NEW d, Collected(l, c, m, k, d),
         DOMAIN c = 0 .. k - 1, m.max_detections \in Nat
  PROVE  BestRows(l, c, m, IF m.max_detections > 0 /\ Len(d) > m.max_detections
                           THEN SubSeq(StableSort(d), 1, m.max_detections)
                           ELSE StableSort(d))
<1> DEFINE K == KeptOf(l, c, m, 0 .. k - 1)
           n == Len(d)
           M == m.max_detections
           D == Founds(l, c)
           sc == [i \in 1 .. n |-> d[i].score]
           t == StableSort(d)
           place(r) == PlaceOf(l, c, K, r)
           idx(r) == IndexOf(l, c, m, r)
           u == IF M > 0 /\ n > M THEN SubSeq(t, 1, M) ELSE t
           Shown == {r \in K : M = 0 \/ place(r) <= M}
<1>1. d \in Seq(D) /\ n \in Nat /\ n = Cardinality(K) /\ \A r \in K : d[idx(r)] = FoundOf(l, c, r)
  BY DEF Collected
<1>2. t \in Seq(D) /\ Len(t) = n /\ \A i \in 1 .. n : t[PlaceIn(1 .. n, sc, i)] = d[i]
  <2>1. AreScored(D)
    <3>1. ASSUME NEW x \in D
          PROVE  x.score \in Int
      <4>1. PICK q \in Nat : x = FoundOf(l, c, q) /\ ScoreOf(l, c, q) \in Int
        BY DEF Founds
      <4>2. x.score = ScoreOf(l, c, q)
        BY <4>1 DEF FoundOf
      <4> QED
        BY <4>1, <4>2
    <3> QED
      BY <3>1 DEF AreScored
  <2>2. AreScoresOf(sc, d)
    BY DEF AreScoresOf
  <2> HIDE DEF D, sc
  <2>3. t \in Seq(D) /\ SortedPrefix(d, sc, Len(d), t)
    BY <1>1, <2>1, <2>2, SortIsStable
  <2> QED
    BY <2>3 DEF SortedPrefix
<1>3. \A r \in K : idx(r) \in 1 .. n
  BY <1>1, IndexIsOneToOne
<1>4. \A r \in K : PlaceIn(1 .. n, sc, idx(r)) = place(r)
  BY PlacesAgree
<1>5. /\ \A r \in K : place(r) \in 1 .. n
      /\ \A b \in 0 .. n : Cardinality({r \in K : place(r) <= b}) = b
  <2>1. \A r \in 0 .. k - 1 : ScoreOf(l, c, r) \in Int
    BY DEF Collected
  <2>2. /\ \A r \in K : place(r) \in 1 .. Cardinality(K)
        /\ \A b \in 0 .. Cardinality(K) : Cardinality({r \in K : place(r) <= b}) = b
    BY <2>1, ShownAreCounted
  <2> HIDE DEF K, place, n
  <2> QED
    BY <1>1, <2>2
<1> HIDE DEF K, sc, t, place, idx, n, M, D
<1>6. M \in Nat
  BY DEF M
<1>7. \A r \in K : t[place(r)] = FoundOf(l, c, r)
  BY <1>1, <1>2, <1>3, <1>4
<1>8. /\ Len(u) = Cardinality(Shown)
      /\ \A r \in Shown : u[place(r)] = FoundOf(l, c, r)
  <2>1. CASE M > 0 /\ n > M
    <3>1. u = SubSeq(t, 1, M)
      BY <2>1
    <3>2. Len(u) = M /\ \A i \in 1 .. M : u[i] = t[i]
      <4>1. \A i \in 1 .. M : t[i] \in D
        BY <1>1, <1>2, <1>6, <2>1
      <4>2. 1 \in Int /\ M \in Int
        BY <1>6
      <4> DEFINE v == SubSeq(t, 1, M)
      <4>3. /\ Len(v) = IF 1 <= M THEN M - 1 + 1 ELSE 0
            /\ \A i \in 1 .. M - 1 + 1 : v[i] = t[1 + i - 1]
        BY <4>1, <4>2, SubSeqProperties
      <4>4. M - 1 + 1 = M /\ 1 <= M /\ \A i \in 1 .. M : 1 + i - 1 = i
        BY <1>6, <2>1
      <4> HIDE DEF v
      <4>5. Len(v) = M /\ \A i \in 1 .. M : v[i] = t[i]
        BY <4>3, <4>4
      <4> QED
        BY <3>1, <4>5 DEF v
    <3>3. Shown = {r \in K : place(r) <= M}
      BY <1>6, <2>1
    <3>4. Cardinality(Shown) = M
      <4>1. M \in 0 .. n
        BY <1>1, <1>6, <2>1
      <4> QED
        BY <1>5, <3>3, <4>1
    <3>5. ASSUME NEW r \in Shown
          PROVE  u[place(r)] = FoundOf(l, c, r)
      <4>1. r \in K /\ place(r) \in 1 .. n /\ place(r) <= M
        BY <1>5, <3>3
      <4>2. place(r) \in 1 .. M
        BY <1>1, <1>6, <4>1
      <4> HIDE DEF u, Shown
      <4> QED
        BY <1>7, <3>2, <4>1, <4>2
    <3> HIDE DEF u, Shown
    <3> QED
      BY <3>2, <3>4, <3>5
  <2>2. CASE ~(M > 0 /\ n > M)
    <3>1. u = t
      BY <2>2
    <3>2. \A r \in K : M = 0 \/ place(r) <= M
      <4>1. M = 0 \/ n <= M
        BY <1>1, <1>6, <2>2
      <4>2. ASSUME NEW r \in K, n <= M
            PROVE  place(r) <= M
        <5>1. place(r) \in 1 .. n
          BY <1>5
        <5> QED
          BY <1>1, <1>6, <4>2, <5>1
      <4> QED
        BY <4>1, <4>2
    <3>3. Shown = K
      BY <3>2
    <3> HIDE DEF u, Shown
    <3> QED
      BY <1>1, <1>2, <1>7, <3>1, <3>3
  <2> QED
    BY <2>1, <2>2
<1>9. AllFinite(l, c, 0 .. k - 1)
  BY DEF Collected
<1> HIDE DEF u, Shown
<1>10. BestRows(l, c, m, u)
  BY <1>8, <1>9 DEF BestRows, Shown, place, K, M
<1> QED
  BY <1>10 DEF u, t, M, n

\* A valid call has been given a whole tensor.
LEMMA CellsAreWhole ==
  ASSUME layout \in Layouts, CallIsValid, cells \in Contents(layout)
  PROVE  cells \in Cells(layout)
<1>1. layout.shape \in Seq(Nat) /\ NormalizedAxis(layout) \in 0 .. Len(layout.shape) - 1
  BY ShapeFacts DEF CallIsValid, AxisIsValid, Rank
<1>2. /\ ComputeElementCount(layout.shape) \in 0 .. SizeMax
      /\ ComputeElementCount(layout.shape) = TrueCount(layout.shape)
  BY <1>1, CountIsExact DEF CallIsValid
<1>3. TrueCount(layout.shape) <= SizeMax
  BY <1>2, SizeAssumption
<1> QED
  BY <1>1, <1>3, CellsAssumption

\* What a valid call makes of a valid row.
LEMMA RowIsFound ==
  ASSUME NEW r \in Nat, RowIsRead(r), cells \in Contents(layout), RowIsFinite(r)
  PROVE  /\ DOMAIN cells = 0 .. RowCount - 1
         /\ \A a \in UsedOf(layout) : cells[r][a] # NotFinite
         /\ BestClass(r) = FirstOf(layout, cells, r)
         /\ FinalScore(r) = ScoreOf(layout, cells, r) /\ ScoreOf(layout, cells, r) \in Int
         /\ Box(Coordinates(r)) = FoundOf(layout, cells, r).bounds
<1> DEFINE A == attribute_count
           n == Schema.class_count
           first == Schema.first_class
           obj == Schema.objectness
           box == Schema.box
           v(a) == cells[r][a]
<1>1. /\ layout \in Layouts /\ CallIsValid /\ r \in 0 .. RowCount - 1
      /\ A \in Nat \ {0} /\ Before \in Nat /\ Inner \in Nat /\ RowCount = Before * Inner
  BY ShapeFacts DEF RowIsRead
<1>2. DOMAIN cells = 0 .. RowCount - 1 /\ \A a \in 0 .. A - 1 : v(a) \in Int \cup {NotFinite}
  <2>1. cells \in Cells(layout)
    BY <1>1, CellsAreWhole
  <2>2. cells \in [0 .. Before * Inner - 1 -> [0 .. A - 1 -> Int \cup {NotFinite}]]
    <3>1. (NormalizedAxis(layout) + 1) - 1 = Axis - 1
      BY DEF Axis
    <3> QED
      BY <2>1, <3>1 DEF Cells, Axis, Before, Inner, Rank, attribute_count
  <2>3. r \in 0 .. Before * Inner - 1
    BY <1>1
  <2>4. cells[r] \in [0 .. A - 1 -> Int \cup {NotFinite}]
    <3> DEFINE R == 0 .. Before * Inner - 1
               F == [0 .. A - 1 -> Int \cup {NotFinite}]
    <3> HIDE DEF R, F
    <3>1. cells \in [R -> F] /\ r \in R
      BY <2>2, <2>3 DEF R, F
    <3>2. cells[r] \in F
      BY <3>1
    <3> QED
      BY <3>2 DEF F
  <2>5. DOMAIN cells = 0 .. Before * Inner - 1
    BY <2>2
  <2> QED
    BY <1>1, <2>4, <2>5
<1>3. /\ n \in Nat \ {0} /\ first \in Nat /\ first + n <= A
      /\ obj \in Int /\ (obj = -1 \/ obj \in 0 .. A - 1)
      /\ \A k \in 1 .. 4 : box[k] \in 0 .. A - 1
  <2>1. /\ first \in Nat /\ n \in Nat /\ obj \in Int /\ \A k \in 1 .. 4 : box[k] \in Nat
    BY <1>1, DecodingAssumption DEF Schema
  <2>2. SchemaIsValid
    BY <1>1 DEF CallIsValid
  <2>3. /\ n > 0 /\ first <= A /\ n <= A - first /\ \A k \in 1 .. 4 : box[k] < A
        /\ obj >= -1 /\ (obj >= 0 => obj < A)
    BY <2>2 DEF SchemaIsValid
  <2> HIDE DEF A, n, first, obj, box
  <2>4. \A k \in 1 .. 4 : box[k] \in 0 .. A - 1
    BY <1>1, <2>1, <2>3
  <2>5. n \in Nat \ {0} /\ first + n <= A /\ (obj = -1 \/ obj \in 0 .. A - 1)
    BY <1>1, <2>1, <2>3
  <2> QED
    BY <2>1, <2>4, <2>5
<1>4. \A a \in 0 .. A - 1 : At(r, a) = v(a)
  <2>1. \A a \in 0 .. A - 1 : a \in Nat /\ a < A
    BY <1>1
  <2> QED
    BY <2>1, ReadsItsOwnRow
<1> HIDE DEF A, n, first, obj, box, v
<1>5. \A e \in 0 .. n - 1 : first + e \in 0 .. A - 1 /\ first + e \in ClassRange
  <2>1. ASSUME NEW e \in 0 .. n - 1
        PROVE  first + e \in 0 .. A - 1 /\ first + e \in first .. first + n - 1
    BY <1>1, <1>3
  <2>2. ClassRange = first .. first + n - 1
    BY DEF ClassRange, Range0, first, n
  <2> QED
    BY <2>1, <2>2
<1>6. UsedOf(layout) \subseteq 0 .. A - 1 /\ \A a \in UsedOf(layout) : v(a) # NotFinite
  <2>1. ASSUME NEW a \in UsedOf(layout)
        PROVE  a \in 0 .. A - 1 /\ v(a) # NotFinite
    <3>1. \/ a \in first .. first + n - 1 \/ \E k \in 1 .. 4 : a = box[k] \/ (a = obj /\ obj # -1)
      BY DEF UsedOf, Range0, first, n, box, obj, Schema
    <3>2. CASE a \in first .. first + n - 1
      <4>1. a \in 0 .. A - 1 /\ a \in ClassRange
        <5>1. a \in 0 .. A - 1
          BY <1>1, <1>3, <3>2
        <5> QED
          BY <3>2, <5>1 DEF ClassRange, Range0, first, n
      <4>2. At(r, a) # NotFinite
        BY <4>1 DEF RowIsFinite
      <4> QED
        BY <1>4, <4>1, <4>2
    <3>3. ASSUME NEW k \in 1 .. 4, a = box[k]
          PROVE  a \in 0 .. A - 1 /\ v(a) # NotFinite
      <4>1. At(r, box[k]) # NotFinite
        BY DEF RowIsFinite, box
      <4> QED
        BY <1>3, <1>4, <3>3, <4>1
    <3>4. CASE a = obj /\ obj # -1
      <4>1. obj \in 0 .. A - 1 /\ obj >= 0
        BY <1>1, <1>3, <3>4
      <4>2. At(r, obj) # NotFinite
        BY <4>1 DEF RowIsFinite, obj
      <4> QED
        BY <1>4, <3>4, <4>1, <4>2
    <3> QED
      BY <3>1, <3>2, <3>3, <3>4
  <2> QED
    BY <2>1
<1>7. \A e \in 0 .. n - 1 : ReadScore(r, e) = v(first + e) /\ v(first + e) \in Int
  <2>1. ASSUME NEW e \in 0 .. n - 1
        PROVE  ReadScore(r, e) = v(first + e) /\ v(first + e) \in Int
    <3>1. first + e \in 0 .. A - 1 /\ first + e \in ClassRange
      BY <1>5
    <3>2. ReadScore(r, e) = At(r, first + e)
      BY DEF ReadScore, first
    <3>3. At(r, first + e) # NotFinite
      BY <3>1 DEF RowIsFinite
    <3>4. At(r, first + e) = v(first + e) /\ v(first + e) \in Int \cup {NotFinite}
      BY <1>2, <1>4, <3>1 DEF v, A
    <3> QED
      BY <3>2, <3>3, <3>4
  <2> QED
    BY <2>1
<1>8. BestClass(r) = FirstOf(layout, cells, r) /\ BestClass(r) \in 0 .. n - 1
  <2> DEFINE b == BestClass(r)
             C == ClassesOf(layout, cells, r)
  <2>1. /\ b \in 0 .. n - 1
        /\ \A e \in 0 .. n - 1 : /\ ReadScore(r, e) <= ReadScore(r, b)
                                 /\ e < b => ReadScore(r, e) < ReadScore(r, b)
    BY <1>3, <1>7, BestClassIsFirst DEF n
  <2>2. C = {a \in 0 .. n - 1 : \A e \in 0 .. n - 1 : v(first + a) >= v(first + e)}
    BY DEF ClassesOf, n, v, first, Schema
  <2> HIDE DEF b, C
  <2>3. b \in C
    BY <1>7, <2>1, <2>2
  <2>4. \A e \in C : b <= e
    <3>1. ASSUME NEW e \in C
          PROVE  b <= e
      <4>1. e \in 0 .. n - 1 /\ v(first + e) >= v(first + b)
        BY <2>1, <2>2
      <4>2. v(first + e) \in Int /\ v(first + b) \in Int
        BY <1>7, <2>1, <4>1
      <4>3. e < b => v(first + e) < v(first + b)
        BY <1>7, <2>1, <4>1
      <4> QED
        BY <1>3, <2>1, <4>1, <4>2, <4>3
    <3> QED
      BY <3>1
  <2>5. \A x \in C : (\A e \in C : x <= e) => x = b
    <3>1. ASSUME NEW x \in C, \A e \in C : x <= e
          PROVE  x = b
      <4>1. x <= b /\ b <= x
        BY <2>3, <2>4, <3>1
      <4>2. x \in Int /\ b \in Int
        BY <1>3, <2>1, <2>2
      <4> QED
        BY <4>1, <4>2
    <3> QED
      BY <3>1
  <2> DEFINE IsFirst(x) == x \in C /\ \A e \in C : x <= e
  <2>6. FirstOf(layout, cells, r) = CHOOSE x : IsFirst(x)
    BY DEF FirstOf, C
  <2>7. IsFirst(b) /\ \A x : IsFirst(x) => x = b
    BY <2>3, <2>4, <2>5
  <2> HIDE DEF IsFirst
  <2>8. (CHOOSE x : IsFirst(x)) = b
    BY <2>7, Zenon
  <2> QED
    BY <2>1, <2>6, <2>8 DEF b
<1>9. FinalScore(r) = ScoreOf(layout, cells, r) /\ ScoreOf(layout, cells, r) \in Int
  <2> DEFINE b == FirstOf(layout, cells, r)
             o == IF obj = -1 THEN 1 ELSE v(obj)
             x == v(first + b)
  <2>1. ScoreOf(layout, cells, r) = o * x
    BY DEF ScoreOf, v, first, obj, Schema
  <2>2. At(r, first + b) = x /\ x \in Int
    <3>1. b \in 0 .. n - 1
      BY <1>8
    <3> HIDE DEF b
    <3>2. ReadScore(r, b) = v(first + b) /\ v(first + b) \in Int
      BY <1>7, <3>1
    <3> QED
      BY <3>2 DEF ReadScore, first
  <2>3. (IF obj >= 0 THEN At(r, obj) ELSE 1) = o /\ o \in Int
    <3>1. CASE obj = -1
      BY <3>1
    <3>2. CASE obj # -1
      <4>1. obj \in 0 .. A - 1 /\ obj >= 0
        BY <1>1, <1>3, <3>2
      <4>2. obj \in UsedOf(layout)
        BY <3>2 DEF UsedOf, obj, Schema
      <4>3. v(obj) \in Int \cup {NotFinite} /\ v(obj) # NotFinite
        BY <1>2, <1>6, <4>1, <4>2 DEF v, A
      <4> QED
        BY <1>4, <3>2, <4>1, <4>3
    <3> QED
      BY <3>1, <3>2
  <2>4. FinalScore(r) = (IF obj >= 0 THEN At(r, obj) ELSE 1) * At(r, first + b)
    BY <1>8 DEF FinalScore, obj, first
  <2> HIDE DEF o, x, b
  <2>5. o * x \in Int
    BY <2>2, <2>3
  <2> QED
    BY <2>1, <2>2, <2>3, <2>4, <2>5
<1>10. Box(Coordinates(r)) = FoundOf(layout, cells, r).bounds
  <2>1. Coordinates(r) = [k \in 1 .. 4 |-> v(box[k])]
    BY <1>3, <1>4 DEF Coordinates, box
  <2>2. FoundOf(layout, cells, r).bounds = BoxOf(layout, [k \in 1 .. 4 |-> v(box[k])])
    BY DEF FoundOf, v, box, Schema
  <2> QED
    BY <2>1, <2>2 DEF Box, BoxOf, Schema
<1> QED
  BY <1>2, <1>6, <1>8, <1>9, <1>10 DEF v

\* One more row.
LEMMA RowIsCollected ==
  ASSUME NEW l, NEW c, NEW m, NEW k \in Nat, NEW d, Collected(l, c, m, k, d),
         ScoreOf(l, c, k) \in Int, \A a \in UsedOf(l) : c[k][a] # NotFinite
  PROVE  Collected(l, c, m, k + 1, IF ScoreOf(l, c, k) >= m.score_threshold
                                   THEN Append(d, FoundOf(l, c, k)) ELSE d)
<1> DEFINE K(j) == KeptOf(l, c, m, 0 .. j - 1)
           D == Founds(l, c)
           idx(r) == IndexOf(l, c, m, r)
           kept == ScoreOf(l, c, k) >= m.score_threshold
           e == IF kept THEN Append(d, FoundOf(l, c, k)) ELSE d
<1>1. /\ d \in Seq(D) /\ Len(d) = Cardinality(K(k))
      /\ \A r \in K(k) : d[idx(r)] = FoundOf(l, c, r)
      /\ \A r \in 0 .. k - 1 : ScoreOf(l, c, r) \in Int
      /\ AllFinite(l, c, 0 .. k - 1)
  BY DEF Collected
<1>2. \A r \in 0 .. (k + 1) - 1 : r = k \/ r \in 0 .. k - 1
  OBVIOUS
<1>3. k \in 0 .. (k + 1) - 1 /\ k \notin 0 .. k - 1 /\ \A r \in 0 .. k - 1 : r \in 0 .. (k + 1) - 1
  OBVIOUS
<1>4. \A r \in 0 .. (k + 1) - 1 : ScoreOf(l, c, r) \in Int
  BY <1>1, <1>2
<1>5. AllFinite(l, c, 0 .. (k + 1) - 1)
  BY <1>1, <1>2 DEF AllFinite
<1>6. FoundOf(l, c, k) \in D
  BY DEF Founds
<1>7. K(k + 1) = IF kept THEN K(k) \cup {k} ELSE K(k)
  BY <1>2, <1>3 DEF KeptOf
<1>8. IsFiniteSet(K(k)) /\ Cardinality(K(k)) \in Nat /\ k \notin K(k)
  <2>1. K(k) \in SUBSET (0 .. k - 1) /\ IsFiniteSet(K(k)) /\ Cardinality(K(k)) \in Nat
    BY KeptIsFinite
  <2> HIDE DEF K
  <2> QED
    BY <1>3, <2>1
<1>9. \A r \in K(k) : idx(r) \in 1 .. Cardinality(K(k))
  BY IndexIsOneToOne
<1>10. idx(k) = Cardinality(K(k)) + 1
  BY DEF IndexOf
<1> HIDE DEF K, D, idx, kept
<1>11. /\ e \in Seq(D) /\ Len(e) = Cardinality(K(k + 1))
       /\ \A r \in K(k + 1) : e[idx(r)] = FoundOf(l, c, r)
  <2>1. CASE kept
    <3> DEFINE f == FoundOf(l, c, k)
    <3> HIDE DEF f
    <3>1. /\ Append(d, f) \in Seq(D) /\ Len(Append(d, f)) = Len(d) + 1
          /\ \A i \in 1 .. Len(d) : Append(d, f)[i] = d[i]
          /\ Append(d, f)[Len(d) + 1] = f
      BY <1>1, <1>6, AppendProperties DEF f
    <3>2. Cardinality(K(k + 1)) = Cardinality(K(k)) + 1
      BY <1>7, <1>8, <2>1, FS_AddElement
    <3>3. e = Append(d, f)
      BY <2>1 DEF f
    <3>4. ASSUME NEW r \in K(k + 1)
          PROVE  e[idx(r)] = FoundOf(l, c, r)
      <4>1. CASE r = k
        BY <1>1, <1>10, <3>1, <3>3, <4>1 DEF f
      <4>2. CASE r \in K(k)
        BY <1>1, <1>9, <3>1, <3>3, <4>2
      <4> QED
        BY <1>7, <2>1, <4>1, <4>2
    <3> HIDE DEF e
    <3> QED
      BY <1>1, <3>1, <3>2, <3>3, <3>4
  <2>2. CASE ~kept
    BY <1>1, <1>7, <2>2
  <2> QED
    BY <2>1, <2>2
<1> QED
  BY <1>4, <1>5, <1>11 DEF Collected, K, D, idx, kept

\* The cells of a valid call.
LEMMA CellsAreTheRows ==
  ASSUME layout \in Layouts, CallIsValid, cells \in Contents(layout)
  PROVE  DOMAIN cells = 0 .. RowCount - 1 /\ RowCount \in Nat
<1>1. Before \in Nat /\ Inner \in Nat /\ RowCount = Before * Inner
  BY ShapeFacts
<1>2. cells \in Cells(layout)
  BY CellsAreWhole
<1>3. (NormalizedAxis(layout) + 1) - 1 = Axis - 1
  BY DEF Axis
<1>4. DOMAIN cells = 0 .. Before * Inner - 1
  BY <1>2, <1>3 DEF Cells, Axis, Before, Inner, Rank
<1> QED
  BY <1>1, <1>4

-----------------------------------------------------------------------------

(* The rows of a call *)

DecodeSpec == DecodeInit /\ [][DecodeNext]_decoding

\* Until the call returns, what was found in the rows before the next one is
\* collected in their order; then it is the best of them.
DecodeInv ==
  /\ layout \in Layouts
  /\ cells \in Contents(layout)
  /\ limits \in [score_threshold : Thresholds, max_detections : Limits]
  /\ row \in Nat
  /\ decoded = "running" => Collected(layout, cells, limits, row, detections)
  /\ decoded = "returned" => BestRows(layout, cells, limits, detections)

\* No row has been looked at.
LEMMA DecodeStarts == DecodeInit => DecodeInv
<1> SUFFICES ASSUME DecodeInit PROVE DecodeInv
  OBVIOUS
<1>1. 0 .. 0 - 1 = {}
  OBVIOUS
<1>2. KeptOf(layout, cells, limits, 0 .. 0 - 1) = {}
  BY <1>1 DEF KeptOf
<1>3. Cardinality({}) = 0
  BY FS_EmptySet
<1>4. Collected(layout, cells, limits, 0, <<>>)
  BY <1>1, <1>2, <1>3 DEF Collected, AllFinite
<1> QED
  BY <1>4 DEF DecodeInit, DecodeInv

\* Each step: a row is collected, or all are sorted and cut.
LEMMA DecodeGoesOn == DecodeInv /\ [DecodeNext]_decoding => DecodeInv'
<1> SUFFICES ASSUME DecodeInv, [DecodeNext]_decoding PROVE DecodeInv'
  OBVIOUS
<1> USE DEF DecodeInv
<1>1. CASE DecodeThrows
  BY <1>1 DEF DecodeThrows
<1>2. CASE DecodeRow
  <2>1. /\ layout' = layout /\ cells' = cells /\ limits' = limits /\ decoded' = decoded
        /\ decoded = "running" /\ row' = row + 1
        /\ CallIsValid /\ row < RowCount /\ RowIsFinite(row)
    BY <1>2 DEF DecodeRow
  <2>2. RowCount \in Nat
    BY <2>1, CellsAreTheRows
  <2>3. RowIsRead(row)
    BY <2>1, <2>2 DEF RowIsRead
  <2>4. /\ \A a \in UsedOf(layout) : cells[row][a] # NotFinite
        /\ BestClass(row) = FirstOf(layout, cells, row)
        /\ FinalScore(row) = ScoreOf(layout, cells, row)
        /\ ScoreOf(layout, cells, row) \in Int
        /\ Box(Coordinates(row)) = FoundOf(layout, cells, row).bounds
    BY <2>1, <2>3, RowIsFound
  <2>5. [bounds |-> Box(Coordinates(row)), class_id |-> BestClass(row),
         score |-> FinalScore(row)] = FoundOf(layout, cells, row)
    BY <2>4 DEF FoundOf
  <2>6. detections' = IF ScoreOf(layout, cells, row) >= limits.score_threshold
                      THEN Append(detections, FoundOf(layout, cells, row)) ELSE detections
    BY <1>2, <2>4, <2>5 DEF DecodeRow
  <2>7. Collected(layout, cells, limits, row + 1, detections')
    BY <2>1, <2>4, <2>6, RowIsCollected
  <2> QED
    BY <2>1, <2>7
<1>3. CASE DecodeReturns
  <2>1. /\ layout' = layout /\ cells' = cells /\ limits' = limits /\ row' = row
        /\ decoded = "running" /\ decoded' = "returned"
        /\ CallIsValid /\ row = RowCount
        /\ detections' = IF limits.max_detections > 0 /\ Len(detections) > limits.max_detections
                         THEN SubSeq(StableSort(detections), 1, limits.max_detections)
                         ELSE StableSort(detections)
    BY <1>3 DEF DecodeReturns
  <2>2. DOMAIN cells = 0 .. row - 1
    BY <2>1, CellsAreTheRows
  <2>3. limits.max_detections \in Nat
    BY DecodingAssumption
  <2>4. BestRows(layout, cells, limits, detections')
    BY <2>1, <2>2, <2>3, CutIsBest
  <2> QED
    BY <2>1, <2>4
<1>4. CASE UNCHANGED decoding
  BY <1>4 DEF decoding
<1> QED
  BY <1>1, <1>2, <1>3, <1>4 DEF DecodeNext

\* The property, with its abbreviations named.
LEMMA DecodeInvIsEnough == DecodeInv => DetectionsAreTheBestRows
<1> SUFFICES ASSUME DecodeInv, decoded = "returned", BestRows(layout, cells, limits, detections)
             PROVE  DetectionsAreTheBestRows
  BY DEF DecodeInv, DetectionsAreTheBestRows
<1> QED
  BY DEF DetectionsAreTheBestRows, BestRows, KeptOf, PlaceOf, AllFinite, UsedOf, FoundOf, BoxOf,
     ScoreOf, FirstOf, ClassesOf, Box, ClassRange, Schema

\* Whatever the shape, the schema, the values and the limits of a call: if it
\* returns, every row was valid, and the detections are the best rows above the
\* threshold in the order of their scores, equal ones in the order of the tensor,
\* each with the box, the class and the score of its own row.
THEOREM DetectionsAreTheBest == DecodeSpec => []DetectionsAreTheBestRows
<1>1. DecodeSpec => []DecodeInv
  BY DecodeStarts, DecodeGoesOn, PTL DEF DecodeSpec
<1> QED
  BY <1>1, DecodeInvIsEnough, PTL

-----------------------------------------------------------------------------
(* The order of names: bytes *)

\* std::string's operator< is a strict total order.
LEMMA BytesIrreflexive ==
  ASSUME NEW a \in Seq(Int)
  PROVE  ~BytesLess(a, a)
<1> SUFFICES ASSUME BytesLess(a, a) PROVE FALSE
  OBVIOUS
<1>1. PICK k \in 1 .. Len(a) : k = Len(a) + 1 \/ a[k] < a[k]
  BY DEF BytesLess
<1>2. k # Len(a) + 1 /\ a[k] \in Int
  OBVIOUS
<1> QED
  BY <1>1, <1>2

\* Of two different names one comes first.
LEMMA BytesTotal ==
  ASSUME NEW a \in Seq(Int), NEW b \in Seq(Int), a # b
  PROVE  BytesLess(a, b) \/ BytesLess(b, a)
<1> DEFINE D == {k \in 1 .. Len(a) + 1 :
                   /\ k <= Len(b) + 1
                   /\ k = Len(a) + 1 \/ k = Len(b) + 1 \/ a[k] # b[k]}
<1>1. D \in SUBSET Nat /\ D # {}
  <2>1. CASE Len(a) <= Len(b)
    <3>1. Len(a) + 1 \in D
      BY <2>1
    <3> QED
      BY <3>1
  <2>2. CASE Len(b) < Len(a)
    <3>1. Len(b) + 1 \in D
      BY <2>2
    <3> QED
      BY <3>1
  <2> QED
    BY <2>1, <2>2
<1>2. PICK k \in D : \A m \in D : k <= m
  <2> HIDE DEF D
  <2> QED
    BY <1>1, Least
<1>3. \A m \in 1 .. k - 1 : a[m] = b[m]
  <2> SUFFICES ASSUME NEW m \in 1 .. k - 1 PROVE a[m] = b[m]
    OBVIOUS
  <2>1. k \in 1 .. Len(a) + 1 /\ k <= Len(b) + 1 /\ m \notin D
    BY <1>2
  <2>2. m \in 1 .. Len(a) + 1 /\ m <= Len(b) + 1 /\ m # Len(a) + 1 /\ m # Len(b) + 1
    BY <2>1
  <2> QED
    BY <2>1, <2>2
<1>4. CASE k = Len(a) + 1 /\ k = Len(b) + 1
  <2>1. Len(a) = Len(b) /\ \A m \in 1 .. Len(a) : a[m] = b[m]
    BY <1>3, <1>4
  <2>2. /\ a \in [1 .. Len(a) -> Int] /\ b \in [1 .. Len(b) -> Int]
        /\ Len(a) \in Nat /\ Len(b) \in Nat
    BY LenProperties
  <2>3. a = b
    BY <2>1, <2>2, SeqEqual
  <2> QED
    BY <2>3
<1>5. CASE k = Len(a) + 1 /\ k # Len(b) + 1
  <2>1. k \in 1 .. Len(b)
    BY <1>2, <1>5
  <2> QED
    BY <1>3, <1>5, <2>1 DEF BytesLess
<1>6. CASE k # Len(a) + 1 /\ k = Len(b) + 1
  <2>1. k \in 1 .. Len(a)
    BY <1>2, <1>6
  <2> QED
    BY <1>3, <1>6, <2>1 DEF BytesLess
<1>7. CASE k # Len(a) + 1 /\ k # Len(b) + 1
  <2>1. k \in 1 .. Len(a) /\ k \in 1 .. Len(b) /\ a[k] # b[k]
    BY <1>2, <1>7
  <2>2. a[k] \in Int /\ b[k] \in Int
    BY <2>1
  <2>3. a[k] < b[k] \/ b[k] < a[k]
    BY <2>1, <2>2
  <2> QED
    BY <1>3, <2>1, <2>3 DEF BytesLess
<1> QED
  BY <1>4, <1>5, <1>6, <1>7

LEMMA BytesTransitive ==
  ASSUME NEW a \in Seq(Int), NEW b \in Seq(Int), NEW c \in Seq(Int),
         BytesLess(a, b), BytesLess(b, c)
  PROVE  BytesLess(a, c)
<1>1. PICK k \in 1 .. Len(b) : /\ k <= Len(a) + 1 /\ \A m \in 1 .. k - 1 : a[m] = b[m]
                               /\ k = Len(a) + 1 \/ a[k] < b[k]
  BY DEF BytesLess
<1>2. PICK l \in 1 .. Len(c) : /\ l <= Len(b) + 1 /\ \A m \in 1 .. l - 1 : b[m] = c[m]
                               /\ l = Len(b) + 1 \/ b[l] < c[l]
  BY DEF BytesLess
<1>3. CASE k < l
  <2>1. k \in 1 .. Len(c) /\ b[k] = c[k] /\ \A m \in 1 .. k - 1 : a[m] = c[m]
    BY <1>1, <1>2, <1>3
  <2> QED
    BY <1>1, <2>1 DEF BytesLess
<1>4. CASE l < k
  <2>1. l # Len(b) + 1 /\ l # Len(a) + 1 /\ a[l] = b[l] /\ l <= Len(a) + 1
    BY <1>1, <1>2, <1>4
  <2>2. \A m \in 1 .. l - 1 : a[m] = c[m]
    BY <1>1, <1>2, <1>4
  <2> QED
    BY <1>2, <2>1, <2>2 DEF BytesLess
<1>5. CASE k = l
  <2>1. k # Len(b) + 1 /\ b[k] < c[k] /\ \A m \in 1 .. k - 1 : a[m] = c[m]
    BY <1>1, <1>2, <1>5
  <2>2. k = Len(a) + 1 \/ a[k] < c[k]
    <3> SUFFICES ASSUME k # Len(a) + 1 PROVE a[k] < c[k]
      OBVIOUS
    <3>1. k \in 1 .. Len(a) /\ k \in 1 .. Len(c) /\ a[k] < b[k]
      BY <1>1, <1>2, <1>5
    <3>2. a[k] \in Int /\ b[k] \in Int /\ c[k] \in Int
      BY <3>1
    <3> DEFINE x == a[k]
               y == b[k]
               z == c[k]
    <3>3. x < y /\ y < z /\ x \in Int /\ y \in Int /\ z \in Int
      BY <2>1, <3>1, <3>2
    <3> HIDE DEF x, y, z
    <3>4. x < z
      BY <3>3
    <3> QED
      BY <3>4 DEF x, z
  <2> QED
    BY <1>1, <1>2, <1>5, <2>1, <2>2 DEF BytesLess
<1> QED
  BY <1>3, <1>4, <1>5

\* Where the first bytes differ, they decide.
LEMMA FirstByteDecides ==
  ASSUME NEW a \in Seq(Int), NEW b \in Seq(Int), Len(a) > 0, Len(b) > 0, a[1] # b[1]
  PROVE  BytesLess(a, b) <=> a[1] < b[1]
<1>1. ASSUME BytesLess(a, b)
      PROVE  a[1] < b[1]
  <2>1. PICK k \in 1 .. Len(b) : /\ k <= Len(a) + 1 /\ \A m \in 1 .. k - 1 : a[m] = b[m]
                                 /\ k = Len(a) + 1 \/ a[k] < b[k]
    BY <1>1 DEF BytesLess
  <2>2. k = 1
    <3>1. k > 1 => a[1] = b[1]
      BY <2>1
    <3> QED
      BY <3>1
  <2> QED
    BY <2>1, <2>2
<1>2. ASSUME a[1] < b[1]
      PROVE  BytesLess(a, b)
  <2>1. 1 \in 1 .. Len(b) /\ 1 <= Len(a) + 1 /\ \A m \in 1 .. 1 - 1 : a[m] = b[m]
    OBVIOUS
  <2> QED
    BY <1>2, <2>1 DEF BytesLess
<1> QED
  BY <1>1, <1>2

-----------------------------------------------------------------------------
(* Pieces of a name *)

\* A number, of which the leading zeros do not count, or a single byte.
NamePieces == {t \in Seq(Int) : Len(t) > 0 /\ (IsDigit(t[1]) \/ Len(t) = 1)}

Stripped(t) == SubSeq(t, Significant(t, 1, Len(t) + 1), Len(t))
AreNumbers(t, u) == IsDigit(t[1]) /\ IsDigit(u[1])

Same(t, u) ==
  IF AreNumbers(t, u) THEN Stripped(t) = Stripped(u) ELSE t[1] = u[1]

Below(t, u) ==
  IF AreNumbers(t, u)
  THEN \/ Len(Stripped(t)) < Len(Stripped(u))
       \/ Len(Stripped(t)) = Len(Stripped(u)) /\ BytesLess(Stripped(t), Stripped(u))
  ELSE t[1] < u[1]

\* The digits of a number from the first that is not zero.
LEMMA SignificantFacts ==
  ASSUME NEW s \in Seq(Int), NEW k \in 1 .. Len(s) + 1, NEW e \in k .. Len(s) + 1
  PROVE  LET z == Significant(s, k, e)
         IN  /\ z \in k .. e
             /\ \A m \in k .. z - 1 : s[m] = 48
             /\ z < e => s[z] # 48
<1> DEFINE Ok(z) == (\A m \in k .. z - 1 : s[m] = 48) /\ (z < e => s[z] # 48)
           D == {z \in k .. e : z < e => s[z] # 48}
<1>1. D \in SUBSET Nat /\ D # {}
  <2>1. e \in D
    OBVIOUS
  <2> QED
    BY <2>1
<1>2. PICK z \in D : \A y \in D : z <= y
  <2> HIDE DEF D
  <2> QED
    BY <1>1, Least
<1>3. \A m \in k .. z - 1 : s[m] = 48
  BY <1>2
<1>4. \E y \in k .. e : Ok(y)
  BY <1>2, <1>3
<1> HIDE DEF Ok
<1>5. Significant(s, k, e) = CHOOSE y \in k .. e : Ok(y)
  BY DEF Significant, Ok
<1>6. (CHOOSE y \in k .. e : Ok(y)) \in k .. e /\ Ok(CHOOSE y \in k .. e : Ok(y))
  BY <1>4, Zenon
<1> QED
  BY <1>5, <1>6 DEF Ok

LEMMA StrippedIsBytes ==
  ASSUME NEW t \in Seq(Int)
  PROVE  Stripped(t) \in Seq(Int) /\ Len(Stripped(t)) \in Nat
<1>1. 1 \in 1 .. Len(t) + 1 /\ Len(t) + 1 \in 1 .. Len(t) + 1
  OBVIOUS
<1>2. Significant(t, 1, Len(t) + 1) \in 1 .. Len(t) + 1
  BY <1>1, SignificantFacts
<1>3. \A i \in Significant(t, 1, Len(t) + 1) .. Len(t) : t[i] \in Int
  BY <1>2
<1>4. Stripped(t) \in Seq(Int)
  BY <1>2, <1>3, SubSeqProperties DEF Stripped
<1> QED
  BY <1>4, LenProperties

\* Pieces are in a weak order: exactly one of two is below the other unless they
\* are the same.
LEMMA PiecesAreComparable ==
  ASSUME NEW t \in NamePieces, NEW u \in NamePieces
  PROVE  /\ Same(t, t) /\ (Same(t, u) <=> Same(u, t))
         /\ Same(t, u) => ~Below(t, u) /\ ~Below(u, t)
         /\ ~Same(t, u) => Below(t, u) \/ Below(u, t)
         /\ ~(Below(t, u) /\ Below(u, t))
<1> DEFINE x == Stripped(t)
           y == Stripped(u)
<1>1. /\ t \in Seq(Int) /\ u \in Seq(Int) /\ t[1] \in Int /\ u[1] \in Int
      /\ x \in Seq(Int) /\ y \in Seq(Int) /\ Len(x) \in Nat /\ Len(y) \in Nat
  BY StrippedIsBytes DEF NamePieces
<1> HIDE DEF x, y
<1>2. x # y => BytesLess(x, y) \/ BytesLess(y, x)
  BY <1>1, BytesTotal
<1>3. ~BytesLess(x, x) /\ ~BytesLess(y, y)
  BY <1>1, BytesIrreflexive
<1>4. ~(BytesLess(x, y) /\ BytesLess(y, x))
  BY <1>1, <1>3, BytesTransitive
<1>5. CASE AreNumbers(t, u)
  <2>1. AreNumbers(u, t) /\ AreNumbers(t, t)
    BY <1>5 DEF AreNumbers
  <2>2. /\ Same(t, t) /\ (Same(t, u) <=> x = y) /\ (Same(u, t) <=> x = y)
        /\ Below(t, u) <=> Len(x) < Len(y) \/ (Len(x) = Len(y) /\ BytesLess(x, y))
        /\ Below(u, t) <=> Len(y) < Len(x) \/ (Len(y) = Len(x) /\ BytesLess(y, x))
    BY <1>5, <2>1 DEF Same, Below, x, y
  <2> QED
    BY <1>1, <1>2, <1>3, <1>4, <2>2
<1>6. CASE ~AreNumbers(t, u)
  <2>1. ~AreNumbers(u, t)
    BY <1>6 DEF AreNumbers
  <2>2. /\ Same(t, t) /\ (Same(t, u) <=> t[1] = u[1]) /\ (Same(u, t) <=> t[1] = u[1])
        /\ (Below(t, u) <=> t[1] < u[1])
        /\ (Below(u, t) <=> u[1] < t[1])
    BY <1>6, <2>1 DEF Same, Below
  <2> QED
    BY <1>1, <2>2
<1> QED
  BY <1>5, <1>6

LEMMA PiecesAreOrdered ==
  ASSUME NEW t \in NamePieces, NEW u \in NamePieces, NEW v \in NamePieces
  PROVE  /\ Same(t, u) /\ Same(u, v) => Same(t, v)
         /\ Same(t, u) /\ Below(u, v) => Below(t, v)
         /\ Below(t, u) /\ Same(u, v) => Below(t, v)
         /\ Below(t, u) /\ Below(u, v) => Below(t, v)
<1> DEFINE x == Stripped(t)
           y == Stripped(u)
           z == Stripped(v)
           a == t[1]
           b == u[1]
           c == v[1]
<1>1. /\ t \in Seq(Int) /\ u \in Seq(Int) /\ v \in Seq(Int)
      /\ a \in Int /\ b \in Int /\ c \in Int
      /\ x \in Seq(Int) /\ y \in Seq(Int) /\ z \in Seq(Int)
      /\ Len(x) \in Nat /\ Len(y) \in Nat /\ Len(z) \in Nat
  BY StrippedIsBytes DEF NamePieces
<1>2. BytesLess(x, y) /\ BytesLess(y, z) => BytesLess(x, z)
  <2> HIDE DEF x, y, z
  <2> QED
    BY <1>1, BytesTransitive
<1>3. /\ Same(t, u) <=> IF IsDigit(a) /\ IsDigit(b) THEN x = y ELSE a = b
      /\ Same(u, v) <=> IF IsDigit(b) /\ IsDigit(c) THEN y = z ELSE b = c
      /\ Same(t, v) <=> IF IsDigit(a) /\ IsDigit(c) THEN x = z ELSE a = c
  BY DEF Same, AreNumbers
<1>4. /\ Below(t, u) <=> IF IsDigit(a) /\ IsDigit(b)
                         THEN Len(x) < Len(y) \/ (Len(x) = Len(y) /\ BytesLess(x, y)) ELSE a < b
      /\ Below(u, v) <=> IF IsDigit(b) /\ IsDigit(c)
                         THEN Len(y) < Len(z) \/ (Len(y) = Len(z) /\ BytesLess(y, z)) ELSE b < c
      /\ Below(t, v) <=> IF IsDigit(a) /\ IsDigit(c)
                         THEN Len(x) < Len(z) \/ (Len(x) = Len(z) /\ BytesLess(x, z)) ELSE a < c
  BY DEF Below, AreNumbers
<1> HIDE DEF x, y, z, a, b, c
<1>5. IsDigit(a) <=> 48 <= a /\ a <= 57
  BY <1>1 DEF IsDigit
<1>6. IsDigit(b) <=> 48 <= b /\ b <= 57
  BY <1>1 DEF IsDigit
<1>7. IsDigit(c) <=> 48 <= c /\ c <= 57
  BY <1>1 DEF IsDigit
<1>8. CASE IsDigit(a) /\ IsDigit(b) /\ IsDigit(c)
  BY <1>1, <1>2, <1>3, <1>4, <1>8
<1>9. CASE ~(IsDigit(a) /\ IsDigit(b) /\ IsDigit(c))
  BY <1>1, <1>3, <1>4, <1>5, <1>6, <1>7, <1>9
<1> QED
  BY <1>8, <1>9

-----------------------------------------------------------------------------
(* Names as sequences of pieces *)

LexSame(L, R) == Len(L) = Len(R) /\ \A m \in 1 .. Len(L) : Same(L[m], R[m])

LexBefore(L, R) ==
  \E k \in 1 .. Len(R) :
    /\ k <= Len(L) + 1
    /\ \A m \in 1 .. k - 1 : Same(L[m], R[m])
    /\ k = Len(L) + 1 \/ Below(L[k], R[k])

\* Of two sequences exactly one is before the other unless they are the same.
LEMMA LexComparable ==
  ASSUME NEW L \in Seq(NamePieces), NEW R \in Seq(NamePieces)
  PROVE  /\ LexSame(L, R) <=> LexSame(R, L)
         /\ LexBefore(L, R) \/ LexBefore(R, L) \/ LexSame(L, R)
         /\ ~(LexBefore(L, R) /\ LexBefore(R, L))
         /\ ~(LexBefore(L, R) /\ LexSame(L, R))
<1>0. /\ \A m \in 1 .. Len(L) : L[m] \in NamePieces
      /\ \A m \in 1 .. Len(R) : R[m] \in NamePieces
      /\ Len(L) \in Nat /\ Len(R) \in Nat
  OBVIOUS
<1>1. \A m \in 1 .. Len(L) : m <= Len(R) =>
        /\ Same(L[m], R[m]) <=> Same(R[m], L[m])
        /\ Same(L[m], R[m]) => ~Below(L[m], R[m]) /\ ~Below(R[m], L[m])
        /\ ~Same(L[m], R[m]) => Below(L[m], R[m]) \/ Below(R[m], L[m])
        /\ ~(Below(L[m], R[m]) /\ Below(R[m], L[m]))
  <2> SUFFICES ASSUME NEW m \in 1 .. Len(L), m <= Len(R)
               PROVE  /\ Same(L[m], R[m]) <=> Same(R[m], L[m])
                      /\ Same(L[m], R[m]) => ~Below(L[m], R[m]) /\ ~Below(R[m], L[m])
                      /\ ~Same(L[m], R[m]) => Below(L[m], R[m]) \/ Below(R[m], L[m])
                      /\ ~(Below(L[m], R[m]) /\ Below(R[m], L[m]))
    OBVIOUS
  <2>1. L[m] \in NamePieces /\ R[m] \in NamePieces
    BY <1>0
  <2> QED
    BY <2>1, PiecesAreComparable
<1>2. LexSame(L, R) <=> LexSame(R, L)
  BY <1>0, <1>1 DEF LexSame
<1>3. LexBefore(L, R) \/ LexBefore(R, L) \/ LexSame(L, R)
  <2> DEFINE D == {k \in 1 .. Len(L) + 1 :
                     /\ k <= Len(R) + 1
                     /\ k = Len(L) + 1 \/ k = Len(R) + 1 \/ ~Same(L[k], R[k])}
  <2>1. D \in SUBSET Nat /\ D # {}
    <3>1. Len(L) <= Len(R) => Len(L) + 1 \in D
      BY <1>0
    <3>2. Len(R) < Len(L) => Len(R) + 1 \in D
      BY <1>0
    <3> QED
      BY <1>0, <3>1, <3>2
  <2>2. PICK k \in D : \A m \in D : k <= m
    <3> HIDE DEF D
    <3> QED
      BY <2>1, Least
  <2>3. \A m \in 1 .. k - 1 : Same(L[m], R[m]) /\ Same(R[m], L[m])
    BY <1>0, <1>1, <2>2
  <2>4. CASE k = Len(L) + 1 /\ k = Len(R) + 1
    BY <1>0, <2>3, <2>4 DEF LexSame
  <2>5. CASE k = Len(L) + 1 /\ k # Len(R) + 1
    <3>1. k \in 1 .. Len(R)
      BY <1>0, <2>2, <2>5
    <3> QED
      BY <2>3, <2>5, <3>1 DEF LexBefore
  <2>6. CASE k # Len(L) + 1 /\ k = Len(R) + 1
    <3>1. k \in 1 .. Len(L)
      BY <1>0, <2>2, <2>6
    <3> QED
      BY <2>3, <2>6, <3>1 DEF LexBefore
  <2>7. CASE k # Len(L) + 1 /\ k # Len(R) + 1
    <3>1. k \in 1 .. Len(L) /\ k \in 1 .. Len(R) /\ ~Same(L[k], R[k])
      BY <1>0, <2>2, <2>7
    <3>2. Below(L[k], R[k]) \/ Below(R[k], L[k])
      BY <1>1, <3>1
    <3>3. k <= Len(L) + 1 /\ k <= Len(R) + 1
      BY <1>0, <3>1
    <3> HIDE DEF D
    <3> QED
      BY <2>3, <3>1, <3>2, <3>3 DEF LexBefore
  <2> QED
    BY <2>4, <2>5, <2>6, <2>7
<1>4. ASSUME LexBefore(L, R), LexBefore(R, L)
      PROVE  FALSE
  <2>1. PICK k \in 1 .. Len(R) : /\ k <= Len(L) + 1 /\ \A m \in 1 .. k - 1 : Same(L[m], R[m])
                                 /\ k = Len(L) + 1 \/ Below(L[k], R[k])
    BY <1>4 DEF LexBefore
  <2>2. PICK l \in 1 .. Len(L) : /\ l <= Len(R) + 1 /\ \A m \in 1 .. l - 1 : Same(R[m], L[m])
                                 /\ l = Len(R) + 1 \/ Below(R[l], L[l])
    BY <1>4 DEF LexBefore
  <2>3. CASE k < l
    <3>1. Same(R[k], L[k]) /\ k \in 1 .. Len(L) /\ k <= Len(R) /\ Below(L[k], R[k])
      BY <1>0, <2>1, <2>2, <2>3
    <3> QED
      BY <1>1, <3>1
  <2>4. CASE l < k
    <3>1. Same(L[l], R[l]) /\ l <= Len(R) /\ Below(R[l], L[l])
      BY <1>0, <2>1, <2>2, <2>4
    <3> QED
      BY <1>1, <3>1
  <2>5. CASE k = l
    <3>1. k \in 1 .. Len(L) /\ k <= Len(R) /\ Below(L[k], R[k]) /\ Below(R[k], L[k])
      BY <1>0, <2>1, <2>2, <2>5
    <3> QED
      BY <1>1, <3>1
  <2> QED
    BY <1>0, <2>3, <2>4, <2>5
<1>5. ASSUME LexBefore(L, R), LexSame(L, R)
      PROVE  FALSE
  <2>1. PICK k \in 1 .. Len(R) : k = Len(L) + 1 \/ Below(L[k], R[k])
    BY <1>5 DEF LexBefore
  <2>2. k \in 1 .. Len(L) /\ k <= Len(R) /\ Same(L[k], R[k]) /\ Below(L[k], R[k])
    BY <1>0, <1>5, <2>1 DEF LexSame
  <2> QED
    BY <1>1, <2>2
<1> QED
  BY <1>2, <1>3, <1>4, <1>5

LEMMA LexIsTransitive ==
  ASSUME NEW L \in Seq(NamePieces), NEW M \in Seq(NamePieces), NEW R \in Seq(NamePieces)
  PROVE  /\ LexSame(L, M) /\ LexSame(M, R) => LexSame(L, R)
         /\ LexSame(L, M) /\ LexBefore(M, R) => LexBefore(L, R)
         /\ LexBefore(L, M) /\ LexSame(M, R) => LexBefore(L, R)
         /\ LexBefore(L, M) /\ LexBefore(M, R) => LexBefore(L, R)
<1>0. Len(L) \in Nat /\ Len(M) \in Nat /\ Len(R) \in Nat
  OBVIOUS
<1>1. \A m \in 1 .. Len(L) : m <= Len(M) /\ m <= Len(R) =>
         /\ Same(L[m], M[m]) /\ Same(M[m], R[m]) => Same(L[m], R[m])
         /\ Same(L[m], M[m]) /\ Below(M[m], R[m]) => Below(L[m], R[m])
         /\ Below(L[m], M[m]) /\ Same(M[m], R[m]) => Below(L[m], R[m])
         /\ Below(L[m], M[m]) /\ Below(M[m], R[m]) => Below(L[m], R[m])
  <2> SUFFICES ASSUME NEW m \in 1 .. Len(L), m <= Len(M), m <= Len(R)
               PROVE  /\ Same(L[m], M[m]) /\ Same(M[m], R[m]) => Same(L[m], R[m])
                      /\ Same(L[m], M[m]) /\ Below(M[m], R[m]) => Below(L[m], R[m])
                      /\ Below(L[m], M[m]) /\ Same(M[m], R[m]) => Below(L[m], R[m])
                      /\ Below(L[m], M[m]) /\ Below(M[m], R[m]) => Below(L[m], R[m])
    OBVIOUS
  <2>1. L[m] \in NamePieces /\ M[m] \in NamePieces /\ R[m] \in NamePieces
    BY <1>0
  <2> QED
    BY <2>1, PiecesAreOrdered
<1>2. ASSUME LexSame(L, M), LexSame(M, R)
      PROVE  LexSame(L, R)
  BY <1>0, <1>1, <1>2 DEF LexSame
<1>3. ASSUME LexSame(L, M), LexBefore(M, R)
      PROVE  LexBefore(L, R)
  <2>1. PICK k \in 1 .. Len(R) : /\ k <= Len(M) + 1 /\ \A m \in 1 .. k - 1 : Same(M[m], R[m])
                                 /\ k = Len(M) + 1 \/ Below(M[k], R[k])
    BY <1>3 DEF LexBefore
  <2>2. Len(L) = Len(M) /\ \A m \in 1 .. Len(L) : Same(L[m], M[m])
    BY <1>3 DEF LexSame
  <2>3. \A m \in 1 .. k - 1 : Same(L[m], R[m])
    BY <1>0, <1>1, <2>1, <2>2
  <2>4. k = Len(L) + 1 \/ Below(L[k], R[k])
    BY <1>0, <1>1, <2>1, <2>2
  <2> QED
    BY <2>1, <2>2, <2>3, <2>4 DEF LexBefore
<1>4. ASSUME LexBefore(L, M), LexSame(M, R)
      PROVE  LexBefore(L, R)
  <2>1. PICK k \in 1 .. Len(M) : /\ k <= Len(L) + 1 /\ \A m \in 1 .. k - 1 : Same(L[m], M[m])
                                 /\ k = Len(L) + 1 \/ Below(L[k], M[k])
    BY <1>4 DEF LexBefore
  <2>2. Len(M) = Len(R) /\ \A m \in 1 .. Len(M) : Same(M[m], R[m])
    BY <1>4 DEF LexSame
  <2>3. \A m \in 1 .. k - 1 : Same(L[m], R[m])
    BY <1>0, <1>1, <2>1, <2>2
  <2>4. k = Len(L) + 1 \/ Below(L[k], R[k])
    BY <1>0, <1>1, <2>1, <2>2
  <2> QED
    BY <2>1, <2>2, <2>3, <2>4 DEF LexBefore
<1>5. ASSUME LexBefore(L, M), LexBefore(M, R)
      PROVE  LexBefore(L, R)
  <2>1. PICK k \in 1 .. Len(M) : /\ k <= Len(L) + 1 /\ \A m \in 1 .. k - 1 : Same(L[m], M[m])
                                 /\ k = Len(L) + 1 \/ Below(L[k], M[k])
    BY <1>5 DEF LexBefore
  <2>2. PICK l \in 1 .. Len(R) : /\ l <= Len(M) + 1 /\ \A m \in 1 .. l - 1 : Same(M[m], R[m])
                                 /\ l = Len(M) + 1 \/ Below(M[l], R[l])
    BY <1>5 DEF LexBefore
  <2>3. CASE k < l
    <3>1. k \in 1 .. Len(R) /\ Same(M[k], R[k])
      BY <2>1, <2>2, <2>3
    <3>2. ASSUME NEW m \in 1 .. k - 1 PROVE Same(L[m], R[m])
      <4>1. /\ m \in 1 .. Len(L) /\ m <= Len(M) /\ m <= Len(R)
            /\ m \in 1 .. k - 1 /\ m \in 1 .. l - 1
        BY <1>0, <2>1, <2>2, <2>3
      <4>2. Same(L[m], M[m]) /\ Same(M[m], R[m])
        BY <2>1, <2>2, <4>1
      <4> QED
        BY <1>1, <4>1, <4>2
    <3>3. k = Len(L) + 1 \/ Below(L[k], R[k])
      BY <1>0, <1>1, <2>1, <3>1
    <3> QED
      BY <2>1, <3>1, <3>2, <3>3 DEF LexBefore
  <2>4. CASE l < k
    <3>1. l \in 1 .. Len(L) /\ l <= Len(M) /\ Same(L[l], M[l]) /\ Below(M[l], R[l])
      BY <1>0, <2>1, <2>2, <2>4
    <3>2. ASSUME NEW m \in 1 .. l - 1 PROVE Same(L[m], R[m])
      <4>1. /\ m \in 1 .. Len(L) /\ m <= Len(M) /\ m <= Len(R)
            /\ m \in 1 .. k - 1 /\ m \in 1 .. l - 1
        BY <1>0, <2>1, <2>2, <2>4
      <4>2. Same(L[m], M[m]) /\ Same(M[m], R[m])
        BY <2>1, <2>2, <4>1
      <4> QED
        BY <1>1, <4>1, <4>2
    <3>3. Below(L[l], R[l]) /\ l <= Len(L) + 1
      BY <1>0, <1>1, <3>1
    <3> QED
      BY <2>2, <3>2, <3>3 DEF LexBefore
  <2>5. CASE k = l
    <3>1. \A m \in 1 .. k - 1 : Same(L[m], R[m])
      BY <1>0, <1>1, <2>1, <2>2, <2>5
    <3>2. k \in 1 .. Len(R) /\ k <= Len(M) /\ Below(M[k], R[k])
      BY <1>0, <2>1, <2>2, <2>5
    <3>3. k = Len(L) + 1 \/ Below(L[k], R[k])
      BY <1>0, <1>1, <2>1, <3>2
    <3> QED
      BY <2>1, <3>1, <3>2, <3>3 DEF LexBefore
  <2> QED
    BY <1>0, <2>3, <2>4, <2>5
<1> QED
  BY <1>2, <1>3, <1>4, <1>5

\* The first pieces decide unless they are the same.
LEMMA LexAfterPieces ==
  ASSUME NEW t \in NamePieces, NEW u \in NamePieces,
         NEW L \in Seq(NamePieces), NEW R \in Seq(NamePieces)
  PROVE  /\ LexSame(<<t>> \o L, <<u>> \o R) <=> Same(t, u) /\ LexSame(L, R)
         /\ LexBefore(<<t>> \o L, <<u>> \o R) <=> Below(t, u) \/ (Same(t, u) /\ LexBefore(L, R))
<1> DEFINE A == <<t>> \o L
           B == <<u>> \o R
<1>1. /\ A \in Seq(NamePieces) /\ B \in Seq(NamePieces)
      /\ Len(A) = Len(L) + 1 /\ Len(B) = Len(R) + 1
      /\ A[1] = t /\ B[1] = u
      /\ \A m \in 1 .. Len(L) : A[m + 1] = L[m]
      /\ \A m \in 1 .. Len(R) : B[m + 1] = R[m]
      /\ Len(L) \in Nat /\ Len(R) \in Nat
  OBVIOUS
<1> HIDE DEF A, B
<1>2. LexSame(A, B) => Same(t, u) /\ LexSame(L, R)
  <2> SUFFICES ASSUME LexSame(A, B) PROVE Same(t, u) /\ LexSame(L, R)
    OBVIOUS
  <2>1. Len(A) = Len(B) /\ \A m \in 1 .. Len(A) : Same(A[m], B[m])
    BY DEF LexSame
  <2>2. Same(t, u)
    BY <1>1, <2>1
  <2>3. ASSUME NEW m \in 1 .. Len(L) PROVE Same(L[m], R[m])
    <3>1. m + 1 \in 1 .. Len(A) /\ m \in 1 .. Len(R)
      BY <1>1, <2>1
    <3> QED
      BY <1>1, <2>1, <3>1
  <2>4. Len(L) = Len(R)
    BY <1>1, <2>1
  <2> QED
    BY <2>2, <2>3, <2>4 DEF LexSame
<1>3. Same(t, u) /\ LexSame(L, R) => LexSame(A, B)
  <2> SUFFICES ASSUME Same(t, u), LexSame(L, R), NEW m \in 1 .. Len(A)
               PROVE  Len(A) = Len(B) /\ Same(A[m], B[m])
    BY <1>1 DEF LexSame
  <2>1. Len(L) = Len(R) /\ \A l \in 1 .. Len(L) : Same(L[l], R[l])
    BY DEF LexSame
  <2>2. CASE m = 1
    BY <1>1, <2>1, <2>2
  <2>3. CASE m # 1
    <3>1. m - 1 \in 1 .. Len(L) /\ (m - 1) + 1 = m
      BY <1>1, <2>3
    <3> QED
      BY <1>1, <2>1, <3>1
  <2> QED
    BY <2>2, <2>3
<1>4. ASSUME LexBefore(A, B)
      PROVE  Below(t, u) \/ (Same(t, u) /\ LexBefore(L, R))
  <2>1. PICK k \in 1 .. Len(B) : /\ k <= Len(A) + 1 /\ \A m \in 1 .. k - 1 : Same(A[m], B[m])
                                 /\ k = Len(A) + 1 \/ Below(A[k], B[k])
    BY <1>4 DEF LexBefore
  <2>2. CASE k = 1
    BY <1>1, <2>1, <2>2
  <2>3. CASE k # 1
    <3> DEFINE l == k - 1
    <3>1. l \in 1 .. Len(R) /\ l <= Len(L) + 1 /\ l + 1 = k /\ 1 \in 1 .. k - 1
      BY <1>1, <2>1, <2>3
    <3>2. Same(t, u)
      BY <1>1, <2>1, <3>1
    <3> HIDE DEF l
    <3>3. ASSUME NEW m \in 1 .. l - 1 PROVE Same(L[m], R[m])
      <4>1. m + 1 \in 1 .. k - 1 /\ m \in 1 .. Len(L) /\ m \in 1 .. Len(R)
        BY <1>1, <3>1
      <4> QED
        BY <1>1, <2>1, <4>1
    <3>4. l = Len(L) + 1 \/ Below(L[l], R[l])
      BY <1>1, <2>1, <3>1
    <3> QED
      BY <3>1, <3>2, <3>3, <3>4 DEF LexBefore
  <2> QED
    BY <2>2, <2>3
<1>5. ASSUME Below(t, u)
      PROVE  LexBefore(A, B)
  <2>1. 1 \in 1 .. Len(B) /\ 1 <= Len(A) + 1 /\ Below(A[1], B[1])
        /\ \A m \in 1 .. 1 - 1 : Same(A[m], B[m])
    BY <1>1, <1>5
  <2> QED
    BY <2>1 DEF LexBefore
<1>6. ASSUME Same(t, u), LexBefore(L, R)
      PROVE  LexBefore(A, B)
  <2>1. PICK l \in 1 .. Len(R) : /\ l <= Len(L) + 1 /\ \A m \in 1 .. l - 1 : Same(L[m], R[m])
                                 /\ l = Len(L) + 1 \/ Below(L[l], R[l])
    BY <1>6 DEF LexBefore
  <2> DEFINE k == l + 1
  <2>2. k \in 1 .. Len(B) /\ k <= Len(A) + 1
    BY <1>1, <2>1
  <2>3. ASSUME NEW m \in 1 .. k - 1 PROVE Same(A[m], B[m])
    <3>1. CASE m = 1
      BY <1>1, <1>6, <3>1
    <3>2. CASE m # 1
      <4>1. m - 1 \in 1 .. l - 1 /\ (m - 1) + 1 = m /\ m - 1 \in 1 .. Len(L) /\ m - 1 \in 1 .. Len(R)
        BY <1>1, <2>1, <3>2
      <4> QED
        BY <1>1, <2>1, <4>1
    <3> QED
      BY <3>1, <3>2
  <2>4. k = Len(A) + 1 \/ Below(A[k], B[k])
    <3>1. CASE l = Len(L) + 1
      BY <1>1, <3>1
    <3>2. CASE l # Len(L) + 1
      <4>1. l \in 1 .. Len(L) /\ Below(L[l], R[l])
        BY <1>1, <2>1, <3>2
      <4>2. A[l + 1] = L[l] /\ B[l + 1] = R[l]
        BY <1>1, <4>1
      <4> QED
        BY <4>1, <4>2
    <3> QED
      BY <3>1, <3>2
  <2> HIDE DEF k
  <2> QED
    BY <2>2, <2>3, <2>4 DEF LexBefore
<1> QED
  BY <1>2, <1>3, <1>4, <1>5, <1>6 DEF A, B

-----------------------------------------------------------------------------
(* Cutting a name *)

PieceEnd(s, k) == IF IsDigit(s[k]) THEN DigitsEnd(s, k) ELSE k + 1
NextPiece(s, k) == SubSeq(s, k, PieceEnd(s, k) - 1)

\* F[k] are the pieces of s from its byte k on.
IsCut(s, F) ==
  F = [k \in 1 .. Len(s) + 1 |->
         IF k > Len(s) THEN <<>> ELSE <<NextPiece(s, k)>> \o F[PieceEnd(s, k)]]

\* A run of digits ends after its last digit.
LEMMA DigitsEndFacts ==
  ASSUME NEW s \in Seq(Int), NEW k \in 1 .. Len(s) + 1
  PROVE  LET e == DigitsEnd(s, k)
         IN  /\ e \in k .. Len(s) + 1
             /\ \A m \in k .. e - 1 : IsDigit(s[m])
             /\ e <= Len(s) => ~IsDigit(s[e])
<1> DEFINE Ok(e) == (\A m \in k .. e - 1 : IsDigit(s[m])) /\ (e <= Len(s) => ~IsDigit(s[e]))
           D == {e \in k .. Len(s) + 1 : e <= Len(s) => ~IsDigit(s[e])}
<1>1. D \in SUBSET Nat /\ D # {}
  <2>1. Len(s) + 1 \in D
    OBVIOUS
  <2> QED
    BY <2>1
<1>2. PICK e \in D : \A y \in D : e <= y
  <2> HIDE DEF D
  <2> QED
    BY <1>1, Least
<1>3. \A m \in k .. e - 1 : IsDigit(s[m])
  BY <1>2
<1>4. \E y \in k .. Len(s) + 1 : Ok(y)
  BY <1>2, <1>3
<1> HIDE DEF Ok
<1>5. DigitsEnd(s, k) = CHOOSE y \in k .. Len(s) + 1 : Ok(y)
  BY DEF DigitsEnd, Ok
<1> DEFINE c == CHOOSE y \in k .. Len(s) + 1 : Ok(y)
<1>6. c \in k .. Len(s) + 1 /\ Ok(c)
  BY <1>4, Zenon
<1> HIDE DEF c
<1>7. DigitsEnd(s, k) = c
  BY <1>5 DEF c
<1> QED
  BY <1>6, <1>7 DEF Ok

\* A piece has at least its first byte.
LEMMA NextPieceFacts ==
  ASSUME NEW s \in Seq(Int), NEW k \in 1 .. Len(s)
  PROVE  /\ PieceEnd(s, k) \in k + 1 .. Len(s) + 1
         /\ NextPiece(s, k) \in NamePieces
         /\ Len(NextPiece(s, k)) = PieceEnd(s, k) - k
         /\ \A m \in 1 .. PieceEnd(s, k) - k : NextPiece(s, k)[m] = s[k + m - 1]
         /\ NextPiece(s, k)[1] = s[k]
<1> DEFINE e == PieceEnd(s, k)
           p == NextPiece(s, k)
<1>1. e \in k + 1 .. Len(s) + 1 /\ (IsDigit(s[k]) \/ e = k + 1)
  <2>1. CASE IsDigit(s[k])
    <3> DEFINE d == DigitsEnd(s, k)
    <3>1. d \in k .. Len(s) + 1 /\ (d <= Len(s) => ~IsDigit(s[d]))
      <4>1. k \in 1 .. Len(s) + 1
        OBVIOUS
      <4> QED
        BY <4>1, DigitsEndFacts
    <3>2. e = d
      BY <2>1 DEF PieceEnd
    <3> HIDE DEF d, e
    <3>3. d # k
      BY <2>1, <3>1
    <3>4. d \in k + 1 .. Len(s) + 1
      BY <3>1, <3>3
    <3> QED
      BY <2>1, <3>2, <3>4
  <2>2. CASE ~IsDigit(s[k])
    BY <2>2 DEF PieceEnd
  <2> QED
    BY <2>1, <2>2
<1> HIDE DEF e
<1>2. \A i \in k .. e - 1 : s[i] \in Int
  BY <1>1
<1>3. /\ p \in Seq(Int)
      /\ Len(p) = IF k <= e - 1 THEN e - 1 - k + 1 ELSE 0
      /\ \A i \in 1 .. e - 1 - k + 1 : p[i] = s[k + i - 1]
  <2>1. p = SubSeq(s, k, e - 1)
    BY DEF NextPiece, e
  <2> HIDE DEF p
  <2> DEFINE f == e - 1
  <2>2. k \in Int /\ f \in Int /\ \A i \in k .. f : s[i] \in Int
    BY <1>1, <1>2
  <2> HIDE DEF f
  <2>3. /\ SubSeq(s, k, f) \in Seq(Int)
        /\ Len(SubSeq(s, k, f)) = IF k <= f THEN f - k + 1 ELSE 0
        /\ \A i \in 1 .. f - k + 1 : SubSeq(s, k, f)[i] = s[k + i - 1]
    BY <2>2, SubSeqProperties
  <2> QED
    BY <2>1, <2>3 DEF f
<1> HIDE DEF p
<1>4. Len(p) = e - k /\ e - 1 - k + 1 = e - k /\ e - k > 0
  BY <1>1, <1>3
<1>5. \A i \in 1 .. e - k : p[i] = s[k + i - 1]
  BY <1>3, <1>4
<1>6. p[1] = s[k]
  <2>1. 1 \in 1 .. e - k /\ k + 1 - 1 = k
    BY <1>1
  <2> QED
    BY <1>5, <2>1
<1>7. p \in NamePieces
  <2>1. p \in Seq(Int) /\ Len(p) > 0
    BY <1>1, <1>3, <1>4
  <2>2. IsDigit(p[1]) \/ Len(p) = 1
    <3>1. CASE IsDigit(s[k])
      BY <1>6, <3>1
    <3>2. CASE e = k + 1
      BY <1>4, <3>2
    <3> QED
      BY <1>1, <3>1, <3>2
  <2> QED
    BY <2>1, <2>2 DEF NamePieces
<1> QED
  BY <1>1, <1>4, <1>5, <1>6, <1>7 DEF e, p

\* Every name can be cut, from its end to its beginning.
LEMMA CutExists ==
  ASSUME NEW s \in Seq(Int)
  PROVE  \E F : IsCut(s, F)
<1> DEFINE n == Len(s)
           Rest(F, k) == IF k > n THEN <<>> ELSE <<NextPiece(s, k)>> \o F[PieceEnd(s, k)]
           Cuts(m, F) == /\ F = [k \in 1 .. n + 1 |-> F[k]]
                         /\ \A k \in n + 1 - m .. n + 1 : F[k] = Rest(F, k)
           Done == {m \in 0 .. n : \E F : Cuts(m, F)}
<1>0. n \in Nat /\ \A k \in 1 .. n : PieceEnd(s, k) \in k + 1 .. n + 1
  <2>1. n \in Nat
    OBVIOUS
  <2>2. ASSUME NEW k \in 1 .. n
        PROVE  PieceEnd(s, k) \in k + 1 .. n + 1
    BY NextPieceFacts
  <2> QED
    BY <2>1, <2>2
<1>1. 0 \in Done
  <2> DEFINE F == [k \in 1 .. n + 1 |-> <<>>]
  <2>1. F = [k \in 1 .. n + 1 |-> F[k]]
    OBVIOUS
  <2>2. ASSUME NEW k \in n + 1 - 0 .. n + 1
        PROVE  F[k] = Rest(F, k)
    <3>1. k = n + 1 /\ k > n /\ k \in 1 .. n + 1
      BY <1>0
    <3> QED
      BY <3>1
  <2> HIDE DEF F, Rest
  <2>3. Cuts(0, F)
    BY <2>1, <2>2
  <2> QED
    BY <1>0, <2>3
<1>2. ASSUME NEW m \in 0 .. n - 1, m \in Done
      PROVE  m + 1 \in Done
  <2>1. PICK F : Cuts(m, F)
    BY <1>2
  <2> DEFINE j == n - m
             G == [k \in 1 .. n + 1 |-> IF k = j THEN Rest(F, j) ELSE F[k]]
  <2>2. j \in 1 .. n /\ n + 1 - (m + 1) = j /\ n + 1 - m = j + 1
    BY <1>0
  <2>3. G = [k \in 1 .. n + 1 |-> G[k]]
    OBVIOUS
  <2>4. \A k \in j + 1 .. n + 1 : F[k] = Rest(F, k)
    BY <2>1, <2>2
  <2>5. \A k \in 1 .. n + 1 : k # j => G[k] = F[k]
    OBVIOUS
  <2>6. G[j] = Rest(F, j)
    BY <2>2
  <2> HIDE DEF G, j
  <2>7. ASSUME NEW k \in j .. n + 1
        PROVE  Rest(G, k) = Rest(F, k)
    <3>1. CASE k > n
      BY <3>1
    <3>2. CASE ~(k > n)
      <4>1. k \in 1 .. n
        BY <2>2, <3>2
      <4>2. PieceEnd(s, k) \in 1 .. n + 1 /\ PieceEnd(s, k) # j
        <5> DEFINE x == PieceEnd(s, k)
        <5>1. x \in k + 1 .. n + 1
          BY <1>0, <4>1
        <5> HIDE DEF x
        <5>2. x \in 1 .. n + 1 /\ x # j
          BY <1>0, <2>2, <4>1, <5>1
        <5> QED
          BY <5>2 DEF x
      <4>3. G[PieceEnd(s, k)] = F[PieceEnd(s, k)]
        BY <2>5, <4>2
      <4> QED
        BY <3>2, <4>3
    <3> QED
      BY <3>1, <3>2
  <2> HIDE DEF Rest
  <2>8. ASSUME NEW k \in j .. n + 1
        PROVE  G[k] = Rest(G, k)
    <3>1. CASE k = j
      BY <2>6, <2>7, <3>1
    <3>2. CASE k # j
      <4>1. k \in j + 1 .. n + 1 /\ k \in 1 .. n + 1
        BY <2>2, <3>2
      <4> QED
        BY <2>4, <2>5, <2>7, <3>2, <4>1
    <3> QED
      BY <3>1, <3>2
  <2>9. Cuts(m + 1, G)
    BY <2>2, <2>3, <2>8
  <2> HIDE DEF Cuts
  <2> QED
    BY <2>9
<1>3. 0 .. n \subseteq Done
  <2> HIDE DEF Done, n
  <2> QED
    BY <1>0, <1>1, <1>2, Reaches
<1>4. PICK F : Cuts(n, F)
  <2>1. n \in 0 .. n
    BY <1>0
  <2>2. n \in Done
    BY <1>3, <2>1
  <2> HIDE DEF Cuts
  <2> QED
    BY <2>2
<1>5. \A k \in 1 .. n + 1 : F[k] = Rest(F, k)
  <2>1. n + 1 - n = 1
    BY <1>0
  <2>2. \A k \in n + 1 - n .. n + 1 : F[k] = Rest(F, k)
    BY <1>4
  <2> HIDE DEF Rest
  <2> QED
    BY <2>1, <2>2
<1>6. F = [k \in 1 .. n + 1 |-> Rest(F, k)]
  <2>1. F = [k \in 1 .. n + 1 |-> F[k]]
    BY <1>4
  <2> HIDE DEF Rest
  <2> QED
    BY <1>5, <2>1
<1>7. IsCut(s, F)
  BY <1>6 DEF IsCut
<1> QED
  BY <1>7

\* The pieces from any byte on.
LEMMA CutFacts ==
  ASSUME NEW s \in Seq(Int), NEW F, IsCut(s, F)
  PROVE  /\ F[Len(s) + 1] = <<>>
         /\ \A k \in 1 .. Len(s) : F[k] = <<NextPiece(s, k)>> \o F[PieceEnd(s, k)]
         /\ \A k \in 1 .. Len(s) + 1 : F[k] \in Seq(NamePieces)
<1> DEFINE n == Len(s)
           Typed == {m \in 0 .. n : \A k \in n + 1 - m .. n + 1 : F[k] \in Seq(NamePieces)}
<1>0. n \in Nat /\ \A k \in 1 .. n : PieceEnd(s, k) \in k + 1 .. n + 1 /\ NextPiece(s, k) \in NamePieces
  BY NextPieceFacts
<1>1. \A k \in 1 .. n + 1 :
        F[k] = IF k > n THEN <<>> ELSE <<NextPiece(s, k)>> \o F[PieceEnd(s, k)]
  BY DEF IsCut
<1> HIDE DEF n
<1>2. F[n + 1] = <<>>
  <2>1. n + 1 \in 1 .. n + 1 /\ n + 1 > n
    BY <1>0
  <2> QED
    BY <1>1, <2>1
<1>3. ASSUME NEW k \in 1 .. n
      PROVE  F[k] = <<NextPiece(s, k)>> \o F[PieceEnd(s, k)]
  <2>1. k \in 1 .. n + 1 /\ ~(k > n)
    BY <1>0
  <2>2. F[k] = IF k > n THEN <<>> ELSE <<NextPiece(s, k)>> \o F[PieceEnd(s, k)]
    BY <1>1, <2>1
  <2> QED
    BY <2>1, <2>2
<1>4. 0 \in Typed
  <2>1. \A k \in n + 1 - 0 .. n + 1 : k = n + 1
    BY <1>0
  <2>2. <<>> \in Seq(NamePieces)
    OBVIOUS
  <2>3. \A k \in n + 1 - 0 .. n + 1 : F[k] \in Seq(NamePieces)
    BY <1>2, <2>1, <2>2
  <2>4. 0 \in 0 .. n
    BY <1>0
  <2> QED
    BY <2>3, <2>4
<1>5. ASSUME NEW m \in 0 .. n - 1, m \in Typed
      PROVE  m + 1 \in Typed
  <2> DEFINE j == n - m
  <2>1. j \in 1 .. n /\ n + 1 - (m + 1) = j /\ n + 1 - m = j + 1
    BY <1>0
  <2>2. \A k \in j + 1 .. n + 1 : F[k] \in Seq(NamePieces)
    BY <1>5, <2>1
  <2> HIDE DEF j
  <2>3. PieceEnd(s, j) \in j + 1 .. n + 1 /\ NextPiece(s, j) \in NamePieces
    BY <1>0, <2>1
  <2>4. F[j] = <<NextPiece(s, j)>> \o F[PieceEnd(s, j)] /\ F[PieceEnd(s, j)] \in Seq(NamePieces)
    BY <1>3, <2>1, <2>2, <2>3
  <2>5. F[j] \in Seq(NamePieces)
    BY <2>3, <2>4
  <2>6. ASSUME NEW k \in j .. n + 1 PROVE F[k] \in Seq(NamePieces)
    <3>1. k = j \/ k \in j + 1 .. n + 1
      BY <1>0, <2>1
    <3> QED
      BY <2>2, <2>5, <3>1
  <2>7. m + 1 \in 0 .. n
    BY <1>0
  <2>8. \A k \in n + 1 - (m + 1) .. n + 1 : F[k] \in Seq(NamePieces)
    BY <2>1, <2>6
  <2> QED
    BY <2>7, <2>8
<1>6. 0 .. n \subseteq Typed
  <2> HIDE DEF Typed, n
  <2> QED
    BY <1>0, <1>4, <1>5, Reaches
<1>7. \A k \in 1 .. n + 1 : F[k] \in Seq(NamePieces)
  <2>1. n \in 0 .. n /\ n + 1 - n = 1
    BY <1>0
  <2>2. n \in Typed
    BY <1>6, <2>1
  <2>3. \A k \in n + 1 - n .. n + 1 : F[k] \in Seq(NamePieces)
    BY <2>2
  <2> QED
    BY <2>1, <2>3
<1> QED
  BY <1>2, <1>3, <1>7 DEF n

\* The pieces of the Python demo are those of any cut.
LEMMA PiecesFacts ==
  ASSUME NEW s \in Seq(Int)
  PROVE  \E F : IsCut(s, F) /\ Pieces(s) = F[1]
<1> DEFINE F == CHOOSE G : IsCut(s, G)
<1>1. IsCut(s, F)
  BY CutExists, Zenon
<1>2. Pieces(s) = F[1]
  BY DEF Pieces, IsCut, NextPiece, PieceEnd
<1> HIDE DEF F
<1> QED
  BY <1>1, <1>2

-----------------------------------------------------------------------------
(* The native order compares pieces *)

\* Which of two sequences of pieces is before the other; names with the same
\* pieces are compared byte by byte.
Verdict(L, R, a, b) == LexBefore(L, R) \/ (LexSame(L, R) /\ BytesLess(a, b))

\* What NaturalLess decides at the bytes i and j; G[i][j] is what it decides later.
Judge(a, b, i, j, G) ==
  IF i > Len(a) /\ j > Len(b) THEN TieBreak(a, b)
  ELSE IF i > Len(a) \/ j > Len(b) THEN i > Len(a)
  ELSE IF IsDigit(a[i]) /\ IsDigit(b[j])
  THEN LET ae == DigitsEnd(a, i)
           be == DigitsEnd(b, j)
           m  == SubSeq(a, Significant(a, i, ae), ae - 1)
           n  == SubSeq(b, Significant(b, j, be), be - 1)
       IN  IF Len(m) # Len(n) THEN Len(m) < Len(n)
           ELSE IF m # n THEN BytesLess(m, n)
           ELSE G[ae][be]
  ELSE IF a[i] # b[j] THEN a[i] < b[j]
  ELSE G[i + 1][j + 1]

IsLess(a, b, G) ==
  G = [i \in 1 .. Len(a) + 1 |-> [j \in 1 .. Len(b) + 1 |-> Judge(a, b, i, j, G)]]

\* The significant digits of a run are those of the piece.
LEMMA StrippedPiece ==
  ASSUME NEW s \in Seq(Int), NEW k \in 1 .. Len(s), IsDigit(s[k])
  PROVE  LET e == DigitsEnd(s, k)
         IN  Stripped(NextPiece(s, k)) = SubSeq(s, Significant(s, k, e), e - 1)
<1> DEFINE e == DigitsEnd(s, k)
           p == NextPiece(s, k)
           l == Len(p)
           z == Significant(s, k, e)
           w == Significant(p, 1, l + 1)
<1>1. e = PieceEnd(s, k)
  BY DEF PieceEnd
<1>2. /\ e \in k + 1 .. Len(s) + 1 /\ p \in Seq(Int) /\ l = e - k /\ l \in Nat
      /\ \A m \in 1 .. e - k : p[m] = s[k + m - 1]
  BY <1>1, NextPieceFacts DEF NamePieces
<1> HIDE DEF e, p, l
<1>3. z \in k .. e /\ (\A m \in k .. z - 1 : s[m] = 48) /\ (z < e => s[z] # 48)
  <2>1. k \in 1 .. Len(s) + 1 /\ e \in k .. Len(s) + 1
    BY <1>2
  <2> QED
    BY <2>1, SignificantFacts
<1>4. w \in 1 .. l + 1 /\ (\A m \in 1 .. w - 1 : p[m] = 48) /\ (w < l + 1 => p[w] # 48)
  <2> DEFINE v == Significant(p, 1, Len(p) + 1)
  <2>1. 1 \in 1 .. Len(p) + 1 /\ Len(p) + 1 \in 1 .. Len(p) + 1
    BY <1>2 DEF l
  <2>2. /\ v \in 1 .. Len(p) + 1 /\ (\A m \in 1 .. v - 1 : p[m] = 48)
        /\ (v < Len(p) + 1 => p[v] # 48)
    BY <1>2, <2>1, SignificantFacts
  <2> QED
    BY <2>2 DEF l
<1> HIDE DEF z, w
<1>5. w = z - k + 1
  <2>1. ~(w < z - k + 1)
    <3> SUFFICES ASSUME w < z - k + 1 PROVE FALSE
      OBVIOUS
    <3>1. k + w - 1 \in k .. z - 1 /\ w \in 1 .. e - k /\ w < l + 1
      BY <1>2, <1>3, <1>4
    <3>2. s[k + w - 1] = 48 /\ p[w] = s[k + w - 1]
      BY <1>2, <1>3, <3>1
    <3> QED
      BY <1>4, <3>1, <3>2
  <2>2. ~(w > z - k + 1)
    <3> SUFFICES ASSUME w > z - k + 1 PROVE FALSE
      OBVIOUS
    <3> DEFINE v == z - k + 1
    <3>1. v \in 1 .. w - 1 /\ v \in 1 .. e - k /\ k + v - 1 = z /\ z < e
      BY <1>2, <1>3, <1>4
    <3> HIDE DEF v
    <3>2. p[v] = 48 /\ p[v] = s[z]
      BY <1>2, <1>4, <3>1
    <3> QED
      BY <1>3, <3>1, <3>2
  <2>3. w \in Int /\ z - k + 1 \in Int
    BY <1>2, <1>3, <1>4
  <2> QED
    BY <2>1, <2>2, <2>3
<1> DEFINE f == e - 1
<1>6. /\ SubSeq(p, w, l) \in Seq(Int) /\ Len(SubSeq(p, w, l)) = IF w <= l THEN l - w + 1 ELSE 0
      /\ \A i \in 1 .. l - w + 1 : SubSeq(p, w, l)[i] = p[w + i - 1]
  <2>1. \A i \in 1 .. l : p[i] \in Int
    BY <1>2 DEF l
  <2>2. w \in Int /\ l \in Int /\ \A i \in w .. l : p[i] \in Int
    BY <1>2, <1>4, <2>1
  <2> QED
    BY <2>2, SubSeqProperties
<1>7. /\ SubSeq(s, z, f) \in Seq(Int) /\ Len(SubSeq(s, z, f)) = IF z <= f THEN f - z + 1 ELSE 0
      /\ \A i \in 1 .. f - z + 1 : SubSeq(s, z, f)[i] = s[z + i - 1]
  <2>1. z \in Int /\ f \in Int /\ \A i \in z .. f : s[i] \in Int
    BY <1>2, <1>3
  <2> HIDE DEF f
  <2> QED
    BY <2>1, SubSeqProperties
<1> DEFINE x == SubSeq(p, w, l)
           y == SubSeq(s, z, f)
<1>8. f = e - 1 /\ f \in Int
  BY <1>2
<1> HIDE DEF f
<1>9. Len(x) = Len(y) /\ Len(x) = e - z
  BY <1>2, <1>3, <1>4, <1>5, <1>6, <1>7, <1>8
<1>10. \A i \in 1 .. Len(x) : x[i] = y[i]
  <2> SUFFICES ASSUME NEW i \in 1 .. Len(x) PROVE x[i] = y[i]
    OBVIOUS
  <2> DEFINE m == w + i - 1
  <2>1. /\ i \in 1 .. l - w + 1 /\ i \in 1 .. f - z + 1
        /\ m \in 1 .. e - k /\ k + m - 1 = z + i - 1
    BY <1>2, <1>3, <1>4, <1>5, <1>8, <1>9
  <2>2. x[i] = p[m] /\ y[i] = s[z + i - 1]
    BY <1>6, <1>7, <2>1
  <2> HIDE DEF m, x, y
  <2>3. p[m] = s[k + m - 1]
    BY <1>2, <2>1
  <2> QED
    BY <2>1, <2>2, <2>3
<1>11. x = y
  <2>1. x \in Seq(Int) /\ y \in Seq(Int)
    BY <1>6, <1>7
  <2> HIDE DEF x, y
  <2> QED
    BY <1>9, <1>10, <2>1, SeqEqual
<1> QED
  BY <1>11 DEF Stripped, x, y, f, w, z, l, p, e

\* Where two pieces begin, they are compared, and what follows them if they are
\* the same.
LEMMA JudgeComparesPieces ==
  ASSUME NEW a \in Seq(Int), NEW b \in Seq(Int),
         NEW i \in 1 .. Len(a), NEW j \in 1 .. Len(b), NEW G
  PROVE  Judge(a, b, i, j, G) <=>
           \/ Below(NextPiece(a, i), NextPiece(b, j))
           \/ /\ Same(NextPiece(a, i), NextPiece(b, j))
              /\ G[PieceEnd(a, i)][PieceEnd(b, j)]
<1> DEFINE t == NextPiece(a, i)
           u == NextPiece(b, j)
<1>1. t[1] = a[i] /\ u[1] = b[j] /\ t \in NamePieces /\ u \in NamePieces
  BY NextPieceFacts
<1>2. ~(i > Len(a)) /\ ~(j > Len(b)) /\ Len(a) \in Nat /\ Len(b) \in Nat
  OBVIOUS
<1>3. CASE IsDigit(a[i]) /\ IsDigit(b[j])
  <2> DEFINE ae == DigitsEnd(a, i)
             be == DigitsEnd(b, j)
             m  == SubSeq(a, Significant(a, i, ae), ae - 1)
             n  == SubSeq(b, Significant(b, j, be), be - 1)
  <2>1. Stripped(t) = m /\ Stripped(u) = n
    BY <1>3, StrippedPiece
  <2>2. PieceEnd(a, i) = ae /\ PieceEnd(b, j) = be
    BY <1>3 DEF PieceEnd
  <2>3. AreNumbers(t, u)
    BY <1>1, <1>3 DEF AreNumbers
  <2>4. m \in Seq(Int) /\ n \in Seq(Int) /\ Len(m) \in Nat /\ Len(n) \in Nat
    BY <1>1, <2>1, StrippedIsBytes DEF NamePieces
  <2>5. Judge(a, b, i, j, G) <=> IF Len(m) # Len(n) THEN Len(m) < Len(n)
                                 ELSE IF m # n THEN BytesLess(m, n)
                                 ELSE G[ae][be]
    BY <1>2, <1>3 DEF Judge
  <2>6. ~BytesLess(m, m)
    BY <2>4, BytesIrreflexive
  <2>7. /\ Below(t, u) <=> Len(m) < Len(n) \/ (Len(m) = Len(n) /\ BytesLess(m, n))
        /\ Same(t, u) <=> m = n
    BY <2>1, <2>3 DEF Below, Same
  <2> HIDE DEF m, n, ae, be, t, u
  <2>8. CASE Len(m) # Len(n)
    <3>1. m # n /\ ~Same(t, u)
      BY <2>7, <2>8
    <3>2. Judge(a, b, i, j, G) <=> Len(m) < Len(n)
      BY <2>5, <2>8
    <3>3. Below(t, u) <=> Len(m) < Len(n)
      BY <2>7, <2>8
    <3> QED
      BY <3>1, <3>2, <3>3 DEF t, u
  <2>9. CASE Len(m) = Len(n) /\ m # n
    <3>1. ~Same(t, u) /\ ~(Len(m) < Len(n))
      BY <2>4, <2>7, <2>9
    <3>2. Judge(a, b, i, j, G) <=> BytesLess(m, n)
      BY <2>5, <2>9
    <3>3. Below(t, u) <=> BytesLess(m, n)
      BY <2>7, <2>9, <3>1
    <3> QED
      BY <3>1, <3>2, <3>3 DEF t, u
  <2>10. CASE m = n
    <3>1. Judge(a, b, i, j, G) <=> G[ae][be]
      BY <2>5, <2>10
    <3>2. ~Below(t, u) /\ Same(t, u)
      BY <2>4, <2>6, <2>7, <2>10
    <3> QED
      BY <2>2, <3>1, <3>2 DEF t, u
  <2> QED
    BY <2>8, <2>9, <2>10 DEF t, u
<1>4. CASE ~(IsDigit(a[i]) /\ IsDigit(b[j]))
  <2>1. ~AreNumbers(t, u)
    BY <1>1, <1>4 DEF AreNumbers
  <2>2. (Below(t, u) <=> a[i] < b[j]) /\ (Same(t, u) <=> a[i] = b[j])
    BY <1>1, <2>1 DEF Below, Same
  <2>3. Judge(a, b, i, j, G) <=> IF a[i] # b[j] THEN a[i] < b[j] ELSE G[i + 1][j + 1]
    BY <1>2, <1>4 DEF Judge
  <2>4. CASE a[i] # b[j]
    BY <2>2, <2>3, <2>4
  <2>5. CASE a[i] = b[j]
    <3>1. ~IsDigit(a[i]) /\ ~IsDigit(b[j])
      BY <1>4, <2>5
    <3>2. PieceEnd(a, i) = i + 1 /\ PieceEnd(b, j) = j + 1
      BY <3>1 DEF PieceEnd
    <3>3. a[i] \in Int /\ b[j] \in Int /\ ~(a[i] < b[j])
      BY <2>5
    <3> QED
      BY <2>2, <2>3, <2>5, <3>2, <3>3
  <2> QED
    BY <2>4, <2>5
<1> QED
  BY <1>3, <1>4

\* What is decided at two bytes is what the pieces from there on say, if that
\* holds further on.
LEMMA JudgeIsVerdict ==
  ASSUME NEW a \in Seq(Int), NEW b \in Seq(Int),
         NEW A, IsCut(a, A), NEW B, IsCut(b, B),
         NEW i \in 1 .. Len(a) + 1, NEW j \in 1 .. Len(b) + 1, NEW G,
         \A k \in i + 1 .. Len(a) + 1, l \in 1 .. Len(b) + 1 :
           G[k][l] <=> Verdict(A[k], B[l], a, b)
  PROVE  Judge(a, b, i, j, G) <=> Verdict(A[i], B[j], a, b)
<1>1. /\ A[Len(a) + 1] = <<>> /\ \A k \in 1 .. Len(a) : A[k] = <<NextPiece(a, k)>> \o A[PieceEnd(a, k)]
      /\ \A k \in 1 .. Len(a) + 1 : A[k] \in Seq(NamePieces)
  BY CutFacts
<1>2. /\ B[Len(b) + 1] = <<>> /\ \A k \in 1 .. Len(b) : B[k] = <<NextPiece(b, k)>> \o B[PieceEnd(b, k)]
      /\ \A k \in 1 .. Len(b) + 1 : B[k] \in Seq(NamePieces)
  BY CutFacts
<1>3. /\ Len(a) \in Nat /\ Len(b) \in Nat
      /\ i > Len(a) => i = Len(a) + 1
      /\ j > Len(b) => j = Len(b) + 1
  OBVIOUS
<1>4. CASE i > Len(a) /\ j > Len(b)
  <2>1. A[i] = <<>> /\ B[j] = <<>>
    <3>1. i = Len(a) + 1 /\ j = Len(b) + 1
      BY <1>3, <1>4
    <3> QED
      BY <1>1, <1>2, <3>1
  <2>2. LexSame(<<>>, <<>>) /\ ~LexBefore(<<>>, <<>>)
    BY DEF LexSame, LexBefore
  <2>3. Judge(a, b, i, j, G) <=> BytesLess(a, b)
    BY <1>4 DEF Judge, TieBreak
  <2> QED
    BY <2>1, <2>2, <2>3 DEF Verdict
<1>5. CASE i > Len(a) /\ ~(j > Len(b))
  <2>1. A[i] = <<>> /\ B[j] \in Seq(NamePieces) /\ Len(B[j]) > 0
    <3>0. i = Len(a) + 1
      BY <1>3, <1>5
    <3>1. j \in 1 .. Len(b)
      BY <1>3, <1>5
    <3>2. PieceEnd(b, j) \in 1 .. Len(b) + 1 /\ NextPiece(b, j) \in NamePieces
      BY <3>1, NextPieceFacts
    <3>3. B[j] = <<NextPiece(b, j)>> \o B[PieceEnd(b, j)] /\ B[PieceEnd(b, j)] \in Seq(NamePieces)
      BY <1>2, <3>1, <3>2
    <3> QED
      BY <1>1, <3>0, <3>2, <3>3
  <2> DEFINE R == B[j]
  <2>2. R \in Seq(NamePieces) /\ Len(R) > 0
    BY <2>1
  <2> HIDE DEF R
  <2>3. LexBefore(<<>>, R)
    <3>1. 1 \in 1 .. Len(R) /\ 1 <= Len(<<>>) + 1 /\ 1 = Len(<<>>) + 1
      BY <2>2
    <3> QED
      BY <3>1 DEF LexBefore
  <2>4. Judge(a, b, i, j, G)
    BY <1>5 DEF Judge
  <2> QED
    BY <2>1, <2>3, <2>4 DEF Verdict, R
<1>6. CASE ~(i > Len(a)) /\ j > Len(b)
  <2>1. B[j] = <<>> /\ A[i] \in Seq(NamePieces) /\ Len(A[i]) > 0
    <3>1. j = Len(b) + 1 /\ i \in 1 .. Len(a)
      BY <1>3, <1>6
    <3>2. PieceEnd(a, i) \in 1 .. Len(a) + 1 /\ NextPiece(a, i) \in NamePieces
      BY <3>1, NextPieceFacts
    <3>3. A[i] = <<NextPiece(a, i)>> \o A[PieceEnd(a, i)] /\ A[PieceEnd(a, i)] \in Seq(NamePieces)
      BY <1>1, <3>1, <3>2
    <3> QED
      BY <1>2, <3>1, <3>2, <3>3
  <2> DEFINE L == A[i]
  <2>2. L \in Seq(NamePieces) /\ Len(L) > 0
    BY <2>1
  <2> HIDE DEF L
  <2>3. ~LexBefore(L, <<>>) /\ ~LexSame(L, <<>>)
    BY <2>2 DEF LexBefore, LexSame
  <2>4. ~Judge(a, b, i, j, G)
    BY <1>6 DEF Judge
  <2> QED
    BY <2>1, <2>3, <2>4 DEF Verdict, L
<1>7. CASE ~(i > Len(a)) /\ ~(j > Len(b))
  <2> DEFINE t == NextPiece(a, i)
             u == NextPiece(b, j)
             k == PieceEnd(a, i)
             l == PieceEnd(b, j)
             L == A[k]
             R == B[l]
  <2>1. i \in 1 .. Len(a) /\ j \in 1 .. Len(b)
    BY <1>3, <1>7
  <2>2. /\ k \in i + 1 .. Len(a) + 1 /\ l \in j + 1 .. Len(b) + 1
        /\ t \in NamePieces /\ u \in NamePieces
    BY <2>1, NextPieceFacts
  <2>3. A[i] = <<t>> \o L /\ B[j] = <<u>> \o R
    BY <1>1, <1>2, <2>1
  <2>4. Judge(a, b, i, j, G) <=> Below(t, u) \/ (Same(t, u) /\ G[k][l])
    BY <2>1, JudgeComparesPieces
  <2> HIDE DEF t, u, k, l
  <2>5. k \in 1 .. Len(a) + 1 /\ l \in 1 .. Len(b) + 1
    BY <1>3, <2>2
  <2>6. L \in Seq(NamePieces) /\ R \in Seq(NamePieces)
    BY <1>1, <1>2, <2>5
  <2>7. G[k][l] <=> Verdict(L, R, a, b)
    BY <2>2, <2>5
  <2> HIDE DEF L, R
  <2>8. /\ LexSame(A[i], B[j]) <=> Same(t, u) /\ LexSame(L, R)
        /\ LexBefore(A[i], B[j]) <=> Below(t, u) \/ (Same(t, u) /\ LexBefore(L, R))
    <3>1. /\ LexSame(<<t>> \o L, <<u>> \o R) <=> Same(t, u) /\ LexSame(L, R)
          /\ LexBefore(<<t>> \o L, <<u>> \o R) <=> Below(t, u) \/ (Same(t, u) /\ LexBefore(L, R))
      BY <2>2, <2>6, LexAfterPieces
    <3> QED
      BY <2>3, <3>1
  <2> QED
    BY <2>4, <2>7, <2>8 DEF Verdict
<1> QED
  BY <1>4, <1>5, <1>6, <1>7

\* NaturalLess compares the pieces of two names.
LEMMA NaturalLessIsVerdict ==
  ASSUME NEW a \in Seq(Int), NEW b \in Seq(Int),
         NEW A, IsCut(a, A), NEW B, IsCut(b, B)
  PROVE  NaturalLess(a, b) <=> Verdict(A[1], B[1], a, b)
<1> DEFINE n == Len(a)
           H == [i \in 1 .. n + 1 |-> [j \in 1 .. Len(b) + 1 |-> Verdict(A[i], B[j], a, b)]]
<1>0. n \in Nat /\ n = Len(a) /\ Len(b) \in Nat
  OBVIOUS
<1>1. \E G : IsLess(a, b, G)
  <2>1. ASSUME NEW k \in 1 .. n + 1, NEW l \in 1 .. Len(b) + 1
        PROVE  H[k][l] <=> Verdict(A[k], B[l], a, b)
    OBVIOUS
  <2> HIDE DEF H
  <2>2. ASSUME NEW i \in 1 .. n + 1, NEW j \in 1 .. Len(b) + 1
        PROVE  Judge(a, b, i, j, H) <=> Verdict(A[i], B[j], a, b)
    <3>1. ASSUME NEW k \in i + 1 .. Len(a) + 1, NEW l \in 1 .. Len(b) + 1
          PROVE  H[k][l] <=> Verdict(A[k], B[l], a, b)
      <4>1. k \in 1 .. n + 1
        BY <1>0
      <4> QED
        BY <2>1, <4>1
    <3> QED
      BY <3>1, JudgeIsVerdict
  <2>3. \A i \in 1 .. n + 1, j \in 1 .. Len(b) + 1 : Judge(a, b, i, j, H) = Verdict(A[i], B[j], a, b)
    <3> SUFFICES ASSUME NEW i \in 1 .. n + 1, NEW j \in 1 .. Len(b) + 1
                 PROVE  Judge(a, b, i, j, H) = Verdict(A[i], B[j], a, b)
      OBVIOUS
    <3>1. Judge(a, b, i, j, H) \in BOOLEAN
      <4>1. CASE i > Len(a) \/ j > Len(b)
        <5>1. Judge(a, b, i, j, H) = IF i > Len(a) /\ j > Len(b) THEN BytesLess(a, b) ELSE i > Len(a)
          BY <4>1 DEF Judge, TieBreak
        <5>2. BytesLess(a, b) \in BOOLEAN /\ (i > Len(a)) \in BOOLEAN
          BY DEF BytesLess
        <5> QED
          BY <5>1, <5>2, Zenon
      <4>2. CASE ~(i > Len(a)) /\ ~(j > Len(b))
        <5> DEFINE ae == DigitsEnd(a, i)
                   be == DigitsEnd(b, j)
                   u  == SubSeq(a, Significant(a, i, ae), ae - 1)
                   v  == SubSeq(b, Significant(b, j, be), be - 1)
        <5>1. /\ ae \in 1 .. n + 1 /\ be \in 1 .. Len(b) + 1
              /\ i + 1 \in 1 .. n + 1 /\ j + 1 \in 1 .. Len(b) + 1
          <6>1. i \in 1 .. n /\ j \in 1 .. Len(b)
            BY <1>0, <4>2
          <6>2. ae \in i .. n + 1 /\ be \in j .. Len(b) + 1
            BY <1>0, <6>1, DigitsEndFacts
          <6> QED
            BY <1>0, <6>1, <6>2
        <5>2. H[ae][be] \in BOOLEAN /\ H[i + 1][j + 1] \in BOOLEAN
          <6>1. \A k \in 1 .. n + 1, l \in 1 .. Len(b) + 1 : H[k][l] = Verdict(A[k], B[l], a, b)
            BY DEF H
          <6>2. \A k \in 1 .. n + 1, l \in 1 .. Len(b) + 1 : Verdict(A[k], B[l], a, b) \in BOOLEAN
            BY DEF Verdict
          <6> HIDE DEF n, ae, be
          <6> QED
            BY <5>1, <6>1, <6>2, Zenon
        <5>3. /\ BytesLess(u, v) \in BOOLEAN /\ (Len(u) < Len(v)) \in BOOLEAN
              /\ (a[i] < b[j]) \in BOOLEAN
          BY DEF BytesLess
        <5>4. \/ Judge(a, b, i, j, H) = (Len(u) < Len(v))
              \/ Judge(a, b, i, j, H) = BytesLess(u, v)
              \/ Judge(a, b, i, j, H) = H[ae][be]
              \/ Judge(a, b, i, j, H) = (a[i] < b[j])
              \/ Judge(a, b, i, j, H) = H[i + 1][j + 1]
          BY <4>2, Zenon DEF Judge
        <5> HIDE DEF ae, be, u, v
        <5> QED
          BY <5>2, <5>3, <5>4, Zenon
      <4> QED
        BY <4>1, <4>2
    <3>2. Verdict(A[i], B[j], a, b) \in BOOLEAN
      BY DEF Verdict
    <3> QED
      BY <2>2, <3>1, <3>2
  <2>4. H = [i \in 1 .. n + 1 |-> [j \in 1 .. Len(b) + 1 |-> Judge(a, b, i, j, H)]]
    BY <2>3 DEF H
  <2>5. IsLess(a, b, H)
    BY <2>4 DEF IsLess
  <2> QED
    BY <2>5
<1> HIDE DEF H
<1> DEFINE G == CHOOSE X : IsLess(a, b, X)
<1>2. IsLess(a, b, G)
  BY <1>1, Zenon
<1>3. NaturalLess(a, b) = G[1][1]
  BY DEF NaturalLess, IsLess, Judge
<1> HIDE DEF G
<1> DEFINE Right(m) == \A k \in n + 1 - m .. n + 1, l \in 1 .. Len(b) + 1 :
                         G[k][l] <=> Verdict(A[k], B[l], a, b)
           Done == {m \in 0 .. n : Right(m)}
<1>4. ASSUME NEW k \in 1 .. n + 1, NEW l \in 1 .. Len(b) + 1
      PROVE  G[k][l] = Judge(a, b, k, l, G)
  <2>1. G = [i \in 1 .. n + 1 |-> [j \in 1 .. Len(b) + 1 |-> Judge(a, b, i, j, G)]]
    BY <1>2 DEF IsLess
  <2>2. G[k] = [j \in 1 .. Len(b) + 1 |-> Judge(a, b, k, j, G)]
    BY <2>1, Zenon
  <2> QED
    BY <2>2, Zenon
<1>5. ASSUME NEW k \in 1 .. n + 1, NEW l \in 1 .. Len(b) + 1,
             \A x \in k + 1 .. Len(a) + 1, y \in 1 .. Len(b) + 1 :
               G[x][y] <=> Verdict(A[x], B[y], a, b)
      PROVE  G[k][l] <=> Verdict(A[k], B[l], a, b)
  <2>1. G[k][l] = Judge(a, b, k, l, G)
    BY <1>4
  <2>2. Judge(a, b, k, l, G) <=> Verdict(A[k], B[l], a, b)
    BY <1>5, JudgeIsVerdict
  <2> QED
    BY <2>1, <2>2, Zenon
<1> HIDE DEF n
<1>6. 0 \in Done
  <2>1. ASSUME NEW k \in n + 1 - 0 .. n + 1, NEW l \in 1 .. Len(b) + 1
        PROVE  G[k][l] <=> Verdict(A[k], B[l], a, b)
    <3>1. k \in 1 .. n + 1 /\ k + 1 .. Len(a) + 1 = {}
      BY <1>0
    <3> QED
      BY <1>5, <3>1
  <2>2. 0 \in 0 .. n
    BY <1>0
  <2> QED
    BY <2>1, <2>2
<1>7. ASSUME NEW m \in 0 .. n - 1, m \in Done
      PROVE  m + 1 \in Done
  <2>1. Right(m)
    BY <1>7
  <2>2. ASSUME NEW k \in n + 1 - (m + 1) .. n + 1, NEW l \in 1 .. Len(b) + 1
        PROVE  G[k][l] <=> Verdict(A[k], B[l], a, b)
    <3>1. k \in 1 .. n + 1
      BY <1>0
    <3>2. ASSUME NEW x \in k + 1 .. Len(a) + 1, NEW y \in 1 .. Len(b) + 1
          PROVE  G[x][y] <=> Verdict(A[x], B[y], a, b)
      <4>1. x \in n + 1 - m .. n + 1
        BY <1>0, <3>1
      <4> QED
        BY <2>1, <4>1
    <3> QED
      BY <1>5, <3>1, <3>2
  <2>3. m + 1 \in 0 .. n
    BY <1>0
  <2> QED
    BY <2>2, <2>3
<1>8. 0 .. n \subseteq Done
  <2> HIDE DEF Done
  <2> QED
    BY <1>0, <1>6, <1>7, Reaches
<1>9. G[1][1] <=> Verdict(A[1], B[1], a, b)
  <2>1. n \in 0 .. n /\ 1 \in n + 1 - n .. n + 1 /\ 1 \in 1 .. Len(b) + 1
    BY <1>0
  <2>2. Right(n)
    BY <1>8, <2>1
  <2> QED
    BY <2>1, <2>2
<1> QED
  BY <1>3, <1>9

-----------------------------------------------------------------------------
(* The Python demo compares the same pieces *)

\* Two pieces differ as texts, their zeros stripped, exactly if they are not the
\* same, and the smaller text is below.
LEMMA TextsOfPieces ==
  ASSUME NEW t \in NamePieces, NEW u \in NamePieces
  PROVE  LET x == IF AreNumbers(t, u) THEN Stripped(t) ELSE t
             y == IF AreNumbers(t, u) THEN Stripped(u) ELSE u
         IN  /\ x # y <=> ~Same(t, u)
             /\ x # y => (Below(t, u) <=> IF AreNumbers(t, u) /\ Len(x) # Len(y)
                                          THEN Len(x) < Len(y) ELSE BytesLess(x, y))
<1>1. t \in Seq(Int) /\ u \in Seq(Int) /\ Len(t) > 0 /\ Len(u) > 0 /\ t[1] \in Int /\ u[1] \in Int
  BY DEF NamePieces
<1>2. CASE AreNumbers(t, u)
  <2> DEFINE x == Stripped(t)
             y == Stripped(u)
  <2>1. x \in Seq(Int) /\ y \in Seq(Int) /\ Len(x) \in Nat /\ Len(y) \in Nat
    BY <1>1, StrippedIsBytes
  <2>2. /\ Same(t, u) <=> x = y
        /\ Below(t, u) <=> Len(x) < Len(y) \/ (Len(x) = Len(y) /\ BytesLess(x, y))
    BY <1>2 DEF Same, Below
  <2> HIDE DEF x, y
  <2>3. CASE Len(x) # Len(y)
    <3>1. Below(t, u) <=> Len(x) < Len(y)
      BY <2>2, <2>3
    <3> QED
      BY <1>2, <2>2, <2>3, <3>1 DEF x, y
  <2>4. CASE Len(x) = Len(y)
    <3>1. ~(Len(x) < Len(y))
      BY <2>1, <2>4
    <3>2. Below(t, u) <=> BytesLess(x, y)
      BY <2>2, <2>4, <3>1
    <3> QED
      BY <1>2, <2>2, <2>4, <3>2 DEF x, y
  <2> QED
    BY <2>3, <2>4
<1>3. CASE ~AreNumbers(t, u)
  <2>1. (Same(t, u) <=> t[1] = u[1]) /\ (Below(t, u) <=> t[1] < u[1])
    BY <1>3 DEF Same, Below
  <2>2. CASE t[1] = u[1]
    <3>1. Len(t) = 1 /\ Len(u) = 1
      BY <1>3, <2>2 DEF AreNumbers, NamePieces
    <3>2. t = u
      <4>1. Len(t) = Len(u) /\ \A i \in 1 .. Len(t) : t[i] = u[i]
        BY <2>2, <3>1
      <4> QED
        BY <1>1, <4>1, SeqEqual
    <3> QED
      BY <1>3, <2>1, <2>2, <3>2
  <2>3. CASE t[1] # u[1]
    <3>1. BytesLess(t, u) <=> t[1] < u[1]
      BY <1>1, <2>3, FirstByteDecides
    <3>2. t # u
      BY <2>3
    <3> QED
      BY <1>3, <2>1, <2>3, <3>1, <3>2
  <2> QED
    BY <2>2, <2>3
<1> QED
  BY <1>2, <1>3

LEMMA PythonComparesPieces ==
  ASSUME NEW a \in Seq(Int), NEW b \in Seq(Int),
         Pieces(a) \in Seq(NamePieces), Pieces(b) \in Seq(NamePieces)
  PROVE  natural_compare_less(a, b) <=> Verdict(Pieces(a), Pieces(b), a, b)
<1> DEFINE left == Pieces(a)
           right == Pieces(b)
           Numbers(k) == IsDigit(left[k][1]) /\ IsDigit(right[k][1])
           Piece(t, k) == IF Numbers(k) THEN SubSeq(t, Significant(t, 1, Len(t) + 1), Len(t)) ELSE t
           x(k) == Piece(left[k], k)
           y(k) == Piece(right[k], k)
           differing == {k \in DOMAIN left \cap DOMAIN right : x(k) # y(k)}
           First(k) == k \in differing /\ \A e \in differing : k <= e
           c == CHOOSE d \in differing : \A e \in differing : d <= e
<1>1. natural_compare_less(a, b) =
        IF differing # {}
        THEN IF Numbers(c) /\ Len(x(c)) # Len(y(c)) THEN Len(x(c)) < Len(y(c))
             ELSE BytesLess(x(c), y(c))
        ELSE IF Len(left) # Len(right) THEN Len(left) < Len(right)
        ELSE BytesLess(a, b)
  BY DEF natural_compare_less
<1>2. /\ Len(left) \in Nat /\ Len(right) \in Nat
      /\ DOMAIN left = 1 .. Len(left) /\ DOMAIN right = 1 .. Len(right)
      /\ \A k \in 1 .. Len(left) : left[k] \in NamePieces
      /\ \A k \in 1 .. Len(right) : right[k] \in NamePieces
  OBVIOUS
<1>3. ASSUME NEW k \in DOMAIN left \cap DOMAIN right
      PROVE  /\ x(k) # y(k) <=> ~Same(left[k], right[k])
             /\ x(k) # y(k) => (Below(left[k], right[k]) <=>
                                  IF Numbers(k) /\ Len(x(k)) # Len(y(k))
                                  THEN Len(x(k)) < Len(y(k)) ELSE BytesLess(x(k), y(k)))
  <2>1. left[k] \in NamePieces /\ right[k] \in NamePieces
    BY <1>2
  <2>2. Numbers(k) <=> AreNumbers(left[k], right[k])
    BY DEF AreNumbers
  <2>3. /\ x(k) = IF AreNumbers(left[k], right[k]) THEN Stripped(left[k]) ELSE left[k]
        /\ y(k) = IF AreNumbers(left[k], right[k]) THEN Stripped(right[k]) ELSE right[k]
    BY <2>2 DEF Stripped
  <2> HIDE DEF x, y, Numbers, left, right
  <2> QED
    BY <2>1, <2>2, <2>3, TextsOfPieces
<1> HIDE DEF left, right, Numbers, x, y
<1>4. differing \in SUBSET Nat
  BY <1>2
<1>5. CASE differing # {}
  <2>1. \E d \in differing : \A e \in differing : d <= e
    <3> HIDE DEF differing
    <3> QED
      BY <1>4, <1>5, Least
  <2>2. c \in differing /\ \A e \in differing : c <= e
    <3> HIDE DEF differing
    <3> QED
      BY <2>1, Zenon
  <2> HIDE DEF c
  <2>3. /\ c \in 1 .. Len(left) /\ c \in 1 .. Len(right)
        /\ x(c) # y(c)
    BY <1>2, <2>2
  <2>4. ~Same(left[c], right[c])
    BY <1>2, <1>3, <2>3
  <2>5. \A m \in 1 .. c - 1 : Same(left[m], right[m])
    <3> SUFFICES ASSUME NEW m \in 1 .. c - 1 PROVE Same(left[m], right[m])
      OBVIOUS
    <3>1. m \in DOMAIN left \cap DOMAIN right /\ ~(c <= m)
      BY <1>2, <2>3
    <3>2. m \notin differing
      BY <2>2, <3>1
    <3> QED
      BY <1>3, <3>1, <3>2
  <2>6. ~LexSame(left, right)
    BY <2>3, <2>4 DEF LexSame
  <2>7. LexBefore(left, right) <=> Below(left[c], right[c])
    <3>1. ASSUME Below(left[c], right[c]) PROVE LexBefore(left, right)
      <4>1. c <= Len(left) + 1
        BY <1>2, <2>3
      <4> QED
        BY <2>3, <2>5, <3>1, <4>1 DEF LexBefore
    <3>2. ASSUME LexBefore(left, right) PROVE Below(left[c], right[c])
      <4>1. PICK k \in 1 .. Len(right) :
                   /\ k <= Len(left) + 1
                   /\ \A m \in 1 .. k - 1 : Same(left[m], right[m])
                   /\ k = Len(left) + 1 \/ Below(left[k], right[k])
        BY <3>2 DEF LexBefore
      <4>2. ~(c < k)
        BY <2>3, <2>4, <4>1
      <4>3. ~(k < c)
        <5> SUFFICES ASSUME k < c PROVE FALSE
          OBVIOUS
        <5>1. k \in 1 .. c - 1 /\ k # Len(left) + 1 /\ k \in 1 .. Len(left)
          BY <1>2, <2>3
        <5>2. Same(left[k], right[k]) /\ Below(left[k], right[k])
          BY <2>5, <4>1, <5>1
        <5>3. left[k] \in NamePieces /\ right[k] \in NamePieces
          BY <1>2, <5>1
        <5> QED
          BY <5>2, <5>3, PiecesAreComparable
      <4>4. k = c /\ k # Len(left) + 1
        BY <1>2, <2>3, <4>2, <4>3
      <4> QED
        BY <4>1, <4>4
    <3> QED
      BY <3>1, <3>2
  <2>8. natural_compare_less(a, b) <=> Below(left[c], right[c])
    <3>1. natural_compare_less(a, b) <=>
            IF Numbers(c) /\ Len(x(c)) # Len(y(c)) THEN Len(x(c)) < Len(y(c))
            ELSE BytesLess(x(c), y(c))
      <4> HIDE DEF differing
      <4> QED
        BY <1>1, <1>5
    <3>2. c \in DOMAIN left \cap DOMAIN right
      BY <1>2, <2>3
    <3> QED
      BY <1>3, <2>3, <3>1, <3>2
  <2> QED
    BY <2>6, <2>7, <2>8 DEF Verdict, left, right
<1>6. CASE differing = {}
  <2>1. \A m \in DOMAIN left \cap DOMAIN right : Same(left[m], right[m])
    BY <1>3, <1>6
  <2>2. natural_compare_less(a, b) <=> IF Len(left) # Len(right) THEN Len(left) < Len(right)
                                       ELSE BytesLess(a, b)
    <3> HIDE DEF differing
    <3> QED
      BY <1>1, <1>6
  <2>3. LexSame(left, right) <=> Len(left) = Len(right)
    BY <1>2, <2>1 DEF LexSame
  <2>4. ASSUME Len(left) < Len(right) PROVE LexBefore(left, right)
    <3> DEFINE k == Len(left) + 1
    <3>1. k \in 1 .. Len(right) /\ k <= Len(left) + 1 /\ k = Len(left) + 1
      BY <1>2, <2>4
    <3>2. \A m \in 1 .. k - 1 : Same(left[m], right[m])
      <4>1. \A m \in 1 .. k - 1 : m \in DOMAIN left \cap DOMAIN right
        BY <1>2, <2>4
      <4> QED
        BY <2>1, <4>1
    <3> HIDE DEF k
    <3> QED
      BY <3>1, <3>2 DEF LexBefore
  <2>5. ASSUME LexBefore(left, right) PROVE Len(left) < Len(right)
    <3>1. PICK k \in 1 .. Len(right) : k = Len(left) + 1 \/ (k <= Len(left) + 1 /\ Below(left[k], right[k]))
      BY <2>5 DEF LexBefore
    <3>2. CASE k = Len(left) + 1
      BY <1>2, <3>2
    <3>3. CASE k # Len(left) + 1
      <4>1. k \in 1 .. Len(left) /\ k \in 1 .. Len(right) /\ Below(left[k], right[k])
        BY <1>2, <3>1, <3>3
      <4>2. Same(left[k], right[k]) /\ left[k] \in NamePieces /\ right[k] \in NamePieces
        BY <1>2, <2>1, <4>1
      <4> QED
        BY <4>1, <4>2, PiecesAreComparable
    <3> QED
      BY <3>2, <3>3
  <2>6. CASE Len(left) = Len(right)
    <3>1. ~(Len(left) < Len(right))
      BY <1>2, <2>6
    <3> QED
      BY <2>2, <2>3, <2>5, <2>6, <3>1 DEF Verdict, left, right
  <2>7. CASE Len(left) # Len(right)
    BY <2>2, <2>3, <2>4, <2>5, <2>7 DEF Verdict, left, right
  <2> QED
    BY <2>6, <2>7
<1> QED
  BY <1>5, <1>6

-----------------------------------------------------------------------------
(* Names that are numbers *)

\* D[k] is the value of the first k digits of s.
IsValue(s, D) ==
  D = [k \in 0 .. Len(s) |-> IF k = 0 THEN 0 ELSE 10 * D[k - 1] + s[k] - 48]

LEMMA ValueExists ==
  ASSUME NEW s \in Seq(Int)
  PROVE  \E D : IsValue(s, D)
<1> DEFINE n == Len(s)
           Next1(D, k) == IF k = 0 THEN 0 ELSE 10 * D[k - 1] + s[k] - 48
           Values(m, D) == /\ D = [k \in 0 .. n |-> D[k]]
                           /\ \A k \in 0 .. m : D[k] = Next1(D, k)
           Done == {m \in 0 .. n : \E D : Values(m, D)}
<1>0. n \in Nat
  OBVIOUS
<1>1. 0 \in Done
  <2> DEFINE D == [k \in 0 .. n |-> 0]
  <2>1. D = [k \in 0 .. n |-> D[k]]
    OBVIOUS
  <2>2. \A k \in 0 .. 0 : D[k] = Next1(D, k)
    OBVIOUS
  <2> HIDE DEF D, Next1
  <2>3. Values(0, D)
    BY <2>1, <2>2
  <2> QED
    BY <1>0, <2>3
<1>2. ASSUME NEW m \in 0 .. n - 1, m \in Done
      PROVE  m + 1 \in Done
  <2>1. PICK D : Values(m, D)
    BY <1>2
  <2> DEFINE E == [k \in 0 .. n |-> IF k = m + 1 THEN Next1(D, m + 1) ELSE D[k]]
  <2>2. E = [k \in 0 .. n |-> E[k]]
    OBVIOUS
  <2>3. \A k \in 0 .. m : E[k] = D[k]
    BY <1>0
  <2>4. E[m + 1] = Next1(D, m + 1)
    BY <1>0
  <2> HIDE DEF E
  <2>5. ASSUME NEW k \in 0 .. m + 1 PROVE E[k] = Next1(E, k)
    <3>1. CASE k = m + 1
      <4>1. m \in 0 .. m /\ (m + 1) - 1 = m /\ m + 1 # 0
        BY <1>0
      <4>2. E[m + 1] = 10 * D[m] + s[m + 1] - 48
        BY <2>4, <4>1
      <4>3. Next1(E, m + 1) = 10 * E[m] + s[m + 1] - 48
        BY <4>1
      <4> QED
        BY <2>3, <3>1, <4>1, <4>2, <4>3
    <3>2. CASE k # m + 1
      <4>0. k \in 0 .. m
        BY <1>0, <3>2
      <4>1. E[k] = D[k] /\ D[k] = Next1(D, k)
        BY <2>1, <2>3, <4>0
      <4>2. CASE k = 0
        BY <4>1, <4>2
      <4>3. CASE k # 0
        <5>1. k - 1 \in 0 .. m
          BY <4>0, <4>3
        <5>2. E[k - 1] = D[k - 1]
          BY <2>3, <5>1
        <5> QED
          BY <4>1, <4>3, <5>2
      <4> QED
        BY <4>2, <4>3
    <3> QED
      BY <3>1, <3>2
  <2> HIDE DEF Next1
  <2>6. Values(m + 1, E)
    BY <2>2, <2>5
  <2>7. m + 1 \in 0 .. n
    BY <1>0
  <2> HIDE DEF Values
  <2> QED
    BY <2>6, <2>7
<1>3. n \in Done
  <2> HIDE DEF Done, n
  <2>1. n \in 0 .. n
    BY <1>0
  <2> QED
    BY <1>0, <1>1, <1>2, <2>1, Reaches
<1>4. PICK D : Values(n, D)
  <2> HIDE DEF Values
  <2> QED
    BY <1>3
<1>5. D = [k \in 0 .. n |-> Next1(D, k)]
  <2>1. D = [k \in 0 .. n |-> D[k]] /\ \A k \in 0 .. n : D[k] = Next1(D, k)
    BY <1>4
  <2> HIDE DEF Next1
  <2> QED
    BY <2>1
<1> QED
  BY <1>5 DEF IsValue

\* The value of a number is that of its digits one after the other.
LEMMA ValueFacts ==
  ASSUME NEW s \in Seq(Int), AllDigits(s)
  PROVE  \E D : /\ Number(s) = D[Len(s)]
                /\ D[0] = 0
                /\ \A k \in 0 .. Len(s) : D[k] \in Nat
                /\ \A k \in 1 .. Len(s) : D[k] = 10 * D[k - 1] + s[k] - 48
<1> DEFINE D == CHOOSE E : IsValue(s, E)
           n == Len(s)
<1>1. IsValue(s, D)
  BY ValueExists, Zenon
<1>2. Number(s) = D[n]
  BY DEF Number, IsValue
<1> HIDE DEF D
<1>3. n \in Nat /\ n = Len(s) /\ \A k \in 1 .. n : s[k] \in 48 .. 57
  BY DEF AllDigits, IsDigit
<1>4. \A k \in 0 .. n : D[k] = IF k = 0 THEN 0 ELSE 10 * D[k - 1] + s[k] - 48
  BY <1>1 DEF IsValue
<1> HIDE DEF n
<1>5. D[0] = 0
  <2>1. 0 \in 0 .. n
    BY <1>3
  <2> QED
    BY <1>4, <2>1
<1>6. ASSUME NEW k \in 1 .. n
      PROVE  D[k] = 10 * D[k - 1] + s[k] - 48
  <2>1. k \in 0 .. n /\ k # 0
    BY <1>3
  <2>2. D[k] = IF k = 0 THEN 0 ELSE 10 * D[k - 1] + s[k] - 48
    BY <1>4, <2>1
  <2> QED
    BY <2>1, <2>2
<1> DEFINE S == {k \in 0 .. n : D[k] \in Nat}
<1>7. 0 \in S
  BY <1>3, <1>5
<1>8. ASSUME NEW k \in 0 .. n - 1, k \in S
      PROVE  k + 1 \in S
  <2>1. k + 1 \in 1 .. n /\ k + 1 \in 0 .. n /\ (k + 1) - 1 = k
    BY <1>3
  <2>2. D[k + 1] = 10 * D[k] + s[k + 1] - 48
    BY <1>6, <2>1
  <2>3. D[k] \in Nat /\ s[k + 1] \in 48 .. 57
    BY <1>3, <1>8, <2>1
  <2>4. D[k + 1] \in Nat
    <3> DEFINE x == D[k]
               c == s[k + 1]
    <3>1. x \in Nat /\ c \in 48 .. 57 /\ D[k + 1] = 10 * x + c - 48
      BY <2>2, <2>3
    <3> HIDE DEF x, c
    <3> QED
      BY <3>1
  <2> QED
    BY <2>1, <2>4
<1>9. 0 .. n \subseteq S
  <2> HIDE DEF S
  <2> QED
    BY <1>3, <1>7, <1>8, Reaches
<1>10. \A k \in 0 .. n : D[k] \in Nat
  BY <1>9
<1> QED
  BY <1>2, <1>5, <1>6, <1>10 DEF n

\* X[p + k] is the value after k more digits of a, which follow its byte p.
Digits(X, a, p, n) ==
  /\ \A k \in 0 .. n : X[p + k] \in Nat
  /\ \A k \in 1 .. n : /\ a[p + k] \in 48 .. 57
                       /\ X[p + k] = 10 * X[p + k - 1] + a[p + k] - 48

SameDigits(a, p, b, q, n) == \A k \in 1 .. n : a[p + k] = b[q + k]

\* Some of the digits.
LEMMA DigitsInside ==
  ASSUME NEW X, NEW a, NEW p \in Nat, NEW n \in Nat, Digits(X, a, p, n),
         NEW d \in Nat, NEW m \in Nat, d + m <= n
  PROVE  Digits(X, a, p + d, m)
<1>1. ASSUME NEW k \in 0 .. m PROVE X[p + d + k] \in Nat
  <2> DEFINE i == d + k
  <2>1. i \in 0 .. n /\ p + d + k = p + i
    OBVIOUS
  <2> HIDE DEF i
  <2> QED
    BY <2>1 DEF Digits
<1>2. ASSUME NEW k \in 1 .. m
      PROVE  /\ a[p + d + k] \in 48 .. 57
             /\ X[p + d + k] = 10 * X[p + d + k - 1] + a[p + d + k] - 48
  <2> DEFINE i == d + k
  <2>1. i \in 1 .. n /\ p + d + k = p + i
    OBVIOUS
  <2> HIDE DEF i
  <2>2. a[p + i] \in 48 .. 57 /\ X[p + i] = 10 * X[p + i - 1] + a[p + i] - 48
    BY <2>1 DEF Digits
  <2> QED
    BY <2>1, <2>2
<1> QED
  BY <1>1, <1>2 DEF Digits

\* What is ahead stays ahead, whatever digits follow.
LEMMA AheadStaysAhead ==
  ASSUME NEW X, NEW Y, NEW a, NEW b, NEW p \in Nat, NEW q \in Nat, NEW n \in Nat,
         Digits(X, a, p, n), Digits(Y, b, q, n), X[p] > Y[q]
  PROVE  X[p + n] > Y[q + n]
<1> DEFINE S == {k \in 0 .. n : X[p + k] > Y[q + k]}
<1>1. 0 \in S
  <2>1. p + 0 = p /\ q + 0 = q /\ 0 \in 0 .. n
    OBVIOUS
  <2>2. X[p + 0] > Y[q + 0]
    BY <2>1
  <2> QED
    BY <2>1, <2>2
<1>2. ASSUME NEW k \in 0 .. n - 1, k \in S
      PROVE  k + 1 \in S
  <2>1. /\ k + 1 \in 1 .. n /\ k + 1 \in 0 .. n /\ k \in 0 .. n
        /\ p + (k + 1) - 1 = p + k /\ q + (k + 1) - 1 = q + k
    OBVIOUS
  <2> DEFINE x == X[p + k]
             y == Y[q + k]
             c == a[p + (k + 1)]
             d == b[q + (k + 1)]
             l == k + 1
  <2>2. x \in Nat /\ y \in Nat /\ x > y
    BY <1>2, <2>1 DEF Digits
  <2>3. /\ c \in 48 .. 57 /\ d \in 48 .. 57
        /\ X[p + l] = 10 * X[p + l - 1] + c - 48 /\ Y[q + l] = 10 * Y[q + l - 1] + d - 48
    BY <2>1 DEF Digits
  <2>4. X[p + l] = 10 * x + c - 48 /\ Y[q + l] = 10 * y + d - 48
    BY <2>1, <2>3
  <2>5. l \in 0 .. n
    BY <2>1
  <2> HIDE DEF x, y, c, d, l
  <2>6. 10 * x + c - 48 > 10 * y + d - 48
    BY <2>2, <2>3
  <2>7. X[p + l] > Y[q + l]
    BY <2>4, <2>6
  <2>8. l \in S
    BY <2>5, <2>7
  <2> QED
    BY <2>8 DEF l
<1>3. n \in S
  <2> HIDE DEF S
  <2>1. n \in 0 .. n
    OBVIOUS
  <2> QED
    BY <1>1, <1>2, <2>1, Reaches
<1> QED
  BY <1>3

\* The same digits keep equal values equal.
LEMMA LevelStaysLevel ==
  ASSUME NEW X, NEW Y, NEW a, NEW b, NEW p \in Nat, NEW q \in Nat, NEW n \in Nat,
         Digits(X, a, p, n), Digits(Y, b, q, n),
         SameDigits(a, p, b, q, n), X[p] = Y[q]
  PROVE  X[p + n] = Y[q + n]
<1> DEFINE S == {k \in 0 .. n : X[p + k] = Y[q + k]}
<1>1. 0 \in S
  <2>1. p + 0 = p /\ q + 0 = q /\ 0 \in 0 .. n
    OBVIOUS
  <2> QED
    BY <2>1
<1>2. ASSUME NEW k \in 0 .. n - 1, k \in S
      PROVE  k + 1 \in S
  <2> DEFINE l == k + 1
  <2>1. /\ l \in 1 .. n /\ l \in 0 .. n
        /\ p + l - 1 = p + k /\ q + l - 1 = q + k
    OBVIOUS
  <2>2. X[p + k] = Y[q + k]
    BY <1>2
  <2> HIDE DEF l
  <2>3. /\ X[p + l] = 10 * X[p + l - 1] + a[p + l] - 48 /\ a[p + l] = b[q + l]
        /\ Y[q + l] = 10 * Y[q + l - 1] + b[q + l] - 48
    BY <2>1 DEF Digits, SameDigits
  <2>4. X[p + l] = Y[q + l]
    BY <2>1, <2>2, <2>3
  <2> QED
    BY <2>1, <2>4 DEF l
<1>3. n \in S
  <2> HIDE DEF S
  <2>1. n \in 0 .. n
    OBVIOUS
  <2> QED
    BY <1>1, <1>2, <2>1, Reaches
<1> QED
  BY <1>3

\* Zeros have no value.
LEMMA ZerosAreDigits ==
  ASSUME NEW n \in Nat
  PROVE  Digits([k \in Nat |-> 0], [k \in Nat |-> 48], 0, n)
<1> DEFINE O == [k \in Nat |-> 0]
           c == [k \in Nat |-> 48]
<1>1. ASSUME NEW k \in 0 .. n PROVE O[0 + k] \in Nat
  OBVIOUS
<1>2. ASSUME NEW k \in 1 .. n
      PROVE  c[0 + k] \in 48 .. 57 /\ O[0 + k] = 10 * O[0 + k - 1] + c[0 + k] - 48
  <2>1. 0 + k = k /\ 0 + k - 1 = k - 1 /\ k \in Nat /\ k - 1 \in Nat
    OBVIOUS
  <2>2. O[k] = 0 /\ O[k - 1] = 0 /\ c[k] = 48
    BY <2>1
  <2> HIDE DEF O, c
  <2> QED
    BY <2>1, <2>2
<1> HIDE DEF O, c
<1>3. Digits(O, c, 0, n)
  BY <1>1, <1>2 DEF Digits
<1> QED
  BY <1>3 DEF O, c

\* The significant digits of a number, and its value.
LEMMA StrippedValue ==
  ASSUME NEW s \in Seq(Int), AllDigits(s)
  PROVE  \E D, p : LET x == Stripped(s) IN
           /\ Number(s) = D[p + Len(x)] /\ p \in Nat
           /\ Digits(D, s, p, Len(x))
           /\ \A k \in 1 .. Len(x) : x[k] = s[p + k]
           /\ D[p] = 0
           /\ Len(x) > 0 => D[p + 1] > 0
<1> DEFINE n == Len(s)
           z == Significant(s, 1, n + 1)
           x == Stripped(s)
           p == z - 1
<1>1. PICK D : /\ Number(s) = D[n] /\ D[0] = 0
               /\ \A k \in 0 .. n : D[k] \in Nat
               /\ \A k \in 1 .. n : D[k] = 10 * D[k - 1] + s[k] - 48
  BY ValueFacts
<1>2. n \in Nat /\ \A k \in 1 .. n : s[k] \in 48 .. 57
  BY DEF AllDigits, IsDigit
<1>3. z \in 1 .. n + 1 /\ (\A k \in 1 .. z - 1 : s[k] = 48) /\ (z < n + 1 => s[z] # 48)
  <2>1. 1 \in 1 .. n + 1 /\ n + 1 \in 1 .. n + 1
    BY <1>2
  <2> QED
    BY <2>1, SignificantFacts
<1>4. x = SubSeq(s, z, n)
  BY DEF Stripped
<1> HIDE DEF n, z, x
<1>5. /\ Len(x) = IF z <= n THEN n - z + 1 ELSE 0
      /\ \A i \in 1 .. n - z + 1 : x[i] = s[z + i - 1]
  <2>1. z \in Int /\ n \in Int /\ \A i \in z .. n : s[i] \in Int
    BY <1>2, <1>3
  <2> QED
    BY <1>4, <2>1, SubSeqProperties
<1>6. /\ Len(x) \in Nat /\ p \in Nat /\ n = p + Len(x) /\ Len(x) = n - z + 1 /\ z = p + 1
      /\ 0 + p = p /\ p + Len(x) <= n /\ 0 + p <= n
  BY <1>2, <1>3, <1>5
<1> HIDE DEF p
<1>7. Digits(D, s, 0, n)
  <2>1. \A k \in 0 .. n : 0 + k = k
    BY <1>2
  <2> QED
    BY <1>1, <1>2, <2>1 DEF Digits
<1>8. Digits(D, s, 0 + p, Len(x)) /\ Digits(D, s, 0 + 0, p)
  <2>1. 0 \in Nat
    OBVIOUS
  <2> QED
    BY <1>2, <1>6, <1>7, <2>1, DigitsInside
<1>9. Digits(D, s, p, Len(x)) /\ Digits(D, s, 0, p)
  <2>1. 0 + 0 = 0
    OBVIOUS
  <2> QED
    BY <1>6, <1>8, <2>1
<1>10. \A k \in 1 .. Len(x) : x[k] = s[p + k]
  <2> SUFFICES ASSUME NEW k \in 1 .. Len(x) PROVE x[k] = s[p + k]
    OBVIOUS
  <2>1. k \in 1 .. n - z + 1 /\ z + k - 1 = p + k
    BY <1>6
  <2> QED
    BY <1>5, <2>1
<1>11. D[p] = 0
  <2> DEFINE O == [k \in Nat |-> 0]
             c == [k \in Nat |-> 48]
  <2>1. Digits(O, c, 0, p)
    BY <1>6, ZerosAreDigits
  <2>2. SameDigits(s, 0, c, 0, p)
    BY <1>3, <1>6 DEF SameDigits
  <2>3. D[0] = O[0] /\ O[0 + p] = 0 /\ 0 \in Nat
    BY <1>1, <1>6
  <2> HIDE DEF O, c
  <2>4. D[0 + p] = O[0 + p]
    BY <1>6, <1>9, <2>1, <2>2, <2>3, LevelStaysLevel
  <2> QED
    BY <1>6, <2>3, <2>4
<1>12. ASSUME Len(x) > 0 PROVE D[p + 1] > 0
  <2>1. z \in 1 .. n /\ z < n + 1 /\ z - 1 = p
    BY <1>2, <1>3, <1>6, <1>12
  <2>2. s[z] \in 48 .. 57 /\ s[z] # 48 /\ D[z] = 10 * D[p] + s[z] - 48
    BY <1>1, <1>2, <1>3, <2>1
  <2> DEFINE c == s[z]
  <2>3. c \in 48 .. 57 /\ c # 48 /\ D[z] = 10 * 0 + c - 48
    BY <1>11, <2>2
  <2> HIDE DEF c
  <2>4. D[z] > 0
    BY <2>3
  <2> QED
    BY <1>6, <2>4
<1> QED
  BY <1>1, <1>6, <1>9, <1>10, <1>11, <1>12 DEF x

\* Of two numbers the smaller is below.
LEMMA SmallerIsBelow ==
  ASSUME NEW a \in Seq(Int), NEW b \in Seq(Int), AllDigits(a), AllDigits(b), Number(a) < Number(b)
  PROVE  Below(a, b)
<1> DEFINE x == Stripped(a)
           y == Stripped(b)
           l == Len(x)
           m == Len(y)
<1>1. PICK X, p : /\ Number(a) = X[p + l] /\ p \in Nat
                  /\ Digits(X, a, p, l)
                  /\ \A k \in 1 .. l : x[k] = a[p + k]
                  /\ X[p] = 0
                  /\ l > 0 => X[p + 1] > 0
  BY StrippedValue
<1>2. PICK Y, q : /\ Number(b) = Y[q + m] /\ q \in Nat
                  /\ Digits(Y, b, q, m)
                  /\ \A k \in 1 .. m : y[k] = b[q + k]
                  /\ Y[q] = 0
  BY StrippedValue
<1>3. l \in Nat /\ m \in Nat /\ x \in Seq(Int) /\ y \in Seq(Int)
  BY StrippedIsBytes
<1>4. AreNumbers(a, b)
  <2>1. Len(a) > 0 /\ Len(b) > 0
    BY DEF AllDigits
  <2>2. 1 \in DOMAIN a /\ 1 \in DOMAIN b
    BY <2>1
  <2> QED
    BY <2>2 DEF AllDigits, AreNumbers
<1>5. Below(a, b) <=> l < m \/ (l = m /\ BytesLess(x, y))
  BY <1>4 DEF Below
<1> HIDE DEF x, y, l, m
<1>6. X[p + l] \in Nat /\ Y[q + m] \in Nat /\ X[p + l] < Y[q + m]
  <2>1. l \in 0 .. l /\ m \in 0 .. m
    BY <1>3
  <2>2. X[p + l] \in Nat /\ Y[q + m] \in Nat
    BY <1>1, <1>2, <2>1 DEF Digits
  <2> QED
    BY <1>1, <1>2, <2>2
<1>7. SUFFICES ASSUME ~(l < m), ~(l = m /\ BytesLess(x, y))
               PROVE  FALSE
  BY <1>5
\* More digits make a greater number.
<1>8. CASE l > m
  <2> DEFINE d == l - m
             r == d - 1
  <2>1. /\ d \in Nat /\ r \in Nat /\ l > 0 /\ 1 \in Nat /\ p + d \in Nat /\ p + 1 \in Nat /\ 0 \in Nat
        /\ 1 + r <= l /\ d + m <= l /\ p + 1 + r = p + d /\ p + d + m = p + l
    BY <1>1, <1>3, <1>8
  <2> DEFINE O == [k \in Nat |-> 0]
             c == [k \in Nat |-> 48]
  <2>2. O[0] = 0 /\ O[0 + r] = 0
    BY <2>1
  <2> HIDE DEF d, r
  <2>3. Digits(X, a, p + 1, r) /\ Digits(X, a, p + d, m)
    BY <1>1, <1>3, <2>1, DigitsInside
  <2>4. Digits(O, c, 0, r)
    BY <2>1, ZerosAreDigits
  <2> HIDE DEF O, c
  <2>5. X[p + 1] > O[0]
    BY <1>1, <2>1, <2>2
  <2>6. X[p + 1 + r] > O[0 + r]
    BY <2>1, <2>3, <2>4, <2>5, AheadStaysAhead
  <2>7. X[p + d] > Y[q]
    BY <1>2, <2>1, <2>2, <2>6
  <2>8. X[p + d + m] > Y[q + m]
    BY <1>2, <1>3, <2>1, <2>3, <2>7, AheadStaysAhead
  <2>9. X[p + l] > Y[q + m]
    BY <2>1, <2>8
  <2> QED
    BY <1>6, <2>9
\* Of as many digits, the first that differs decides.
<1>9. CASE l = m /\ x = y
  <2>1. SameDigits(a, p, b, q, l)
    BY <1>1, <1>2, <1>9 DEF SameDigits
  <2>2. Digits(Y, b, q, l) /\ X[p] = Y[q]
    BY <1>1, <1>2, <1>9
  <2>3. X[p + l] = Y[q + l]
    BY <1>1, <1>2, <1>3, <2>1, <2>2, LevelStaysLevel
  <2> QED
    BY <1>6, <1>9, <2>3
<1>10. CASE l = m /\ x # y
  <2>1. BytesLess(y, x)
    BY <1>3, <1>7, <1>10, BytesTotal
  <2>2. PICK k \in 1 .. l : /\ k <= m + 1 /\ \A i \in 1 .. k - 1 : y[i] = x[i]
                            /\ k = m + 1 \/ y[k] < x[k]
    BY <2>1 DEF BytesLess, l, m
  <2> DEFINE r == k - 1
             d == l - k
  <2>3. /\ k \in 1 .. m /\ r \in Nat /\ d \in Nat /\ k \in Nat /\ 0 \in Nat
        /\ p + k \in Nat /\ q + k \in Nat
        /\ p + k + d = p + l /\ q + k + d = q + m
        /\ 0 + r <= l /\ 0 + r <= m /\ k + d <= l /\ k + d <= m
        /\ p + 0 = p /\ q + 0 = q /\ p + k - 1 = p + r /\ q + k - 1 = q + r /\ r \in 0 .. l
    BY <1>1, <1>2, <1>3, <1>10, <2>2
  <2>4. SameDigits(a, p, b, q, r)
    <3> SUFFICES ASSUME NEW i \in 1 .. r PROVE a[p + i] = b[q + i]
      BY DEF SameDigits
    <3>1. i \in 1 .. l /\ i \in 1 .. m /\ i \in 1 .. k - 1
      BY <1>3, <1>10, <2>3
    <3>2. x[i] = a[p + i] /\ y[i] = b[q + i] /\ y[i] = x[i]
      BY <1>1, <1>2, <2>2, <3>1
    <3> QED
      BY <3>2
  <2> HIDE DEF r, d
  <2>5. Digits(X, a, p + 0, r) /\ Digits(Y, b, q + 0, r)
    BY <1>1, <1>2, <1>3, <2>3, DigitsInside
  <2>6. Digits(X, a, p + k, d) /\ Digits(Y, b, q + k, d)
    BY <1>1, <1>2, <1>3, <2>3, DigitsInside
  <2>7. X[p + r] = Y[q + r]
    <3>1. Digits(X, a, p, r) /\ Digits(Y, b, q, r) /\ X[p] = Y[q]
      BY <1>1, <1>2, <2>3, <2>5
    <3> QED
      BY <1>1, <1>2, <2>3, <2>4, <3>1, LevelStaysLevel
  <2>8. X[p + k] > Y[q + k]
    <3> DEFINE g == X[p + r]
               c == a[p + k]
               e == b[q + k]
    <3>1. g \in Nat
      BY <1>1, <2>3 DEF Digits
    <3>2. c \in 48 .. 57 /\ e \in 48 .. 57
      BY <1>1, <1>2, <2>2, <2>3 DEF Digits
    <3>3. e < c
      <4>1. x[k] = c /\ y[k] = e /\ y[k] < x[k]
        <5>1. k # m + 1
          BY <1>3, <2>3
        <5> QED
          BY <1>1, <1>2, <2>2, <2>3, <5>1
      <4> QED
        BY <4>1
    <3>4. X[p + k] = 10 * X[p + k - 1] + c - 48 /\ Y[q + k] = 10 * Y[q + k - 1] + e - 48
      BY <1>1, <1>2, <2>2, <2>3 DEF Digits
    <3>5. X[p + k - 1] = g /\ Y[q + k - 1] = g
      BY <2>3, <2>7
    <3> HIDE DEF g, c, e
    <3>6. X[p + k] = 10 * g + c - 48 /\ Y[q + k] = 10 * g + e - 48
      BY <3>4, <3>5
    <3>7. 10 * g + c - 48 > 10 * g + e - 48
      BY <3>1, <3>2, <3>3
    <3> QED
      BY <3>6, <3>7
  <2>9. X[p + k + d] > Y[q + k + d]
    BY <2>3, <2>6, <2>8, AheadStaysAhead
  <2>10. X[p + l] > Y[q + m]
    BY <2>3, <2>9
  <2> QED
    BY <1>6, <2>10
<1>11. l > m \/ l = m
  BY <1>3, <1>7
<1> QED
  BY <1>8, <1>9, <1>10, <1>11

-----------------------------------------------------------------------------
(* The order *)

\* A name that is a number is one piece.
LEMMA NumberIsOnePiece ==
  ASSUME NEW s \in Seq(Int), AllDigits(s), NEW F, IsCut(s, F)
  PROVE  F[1] = <<s>> /\ s \in NamePieces
<1>1. Len(s) \in Nat /\ Len(s) > 0 /\ 1 \in 1 .. Len(s) /\ \A k \in 1 .. Len(s) : IsDigit(s[k])
  BY DEF AllDigits
<1> DEFINE e == DigitsEnd(s, 1)
<1>2. e \in 1 .. Len(s) + 1 /\ (e <= Len(s) => ~IsDigit(s[e]))
  <2>1. 1 \in 1 .. Len(s) + 1
    BY <1>1
  <2> QED
    BY <2>1, DigitsEndFacts
<1> HIDE DEF e
<1>3. e = Len(s) + 1
  BY <1>1, <1>2
<1>4. PieceEnd(s, 1) = Len(s) + 1
  BY <1>1, <1>3 DEF PieceEnd, e
<1> DEFINE p == NextPiece(s, 1)
<1>5. p \in NamePieces /\ Len(p) = Len(s) + 1 - 1 /\ \A m \in 1 .. Len(s) + 1 - 1 : p[m] = s[1 + m - 1]
  BY <1>1, <1>4, NextPieceFacts
<1> HIDE DEF p
<1>6. p = s
  <2>1. Len(p) = Len(s) /\ \A m \in 1 .. Len(p) : p[m] = s[m]
    BY <1>1, <1>5
  <2>2. p \in Seq(Int)
    BY <1>5 DEF NamePieces
  <2> QED
    BY <2>1, <2>2, SeqEqual
<1>7. F[1] = <<p>> \o <<>>
  <2>1. F[Len(s) + 1] = <<>> /\ F[1] = <<NextPiece(s, 1)>> \o F[PieceEnd(s, 1)]
    BY <1>1, CutFacts
  <2> QED
    BY <1>4, <2>1 DEF p
<1> QED
  BY <1>5, <1>6, <1>7

\* The first difference decides as the comparison of bytes does.
LEMMA FirstDifferenceIsBytes ==
  ASSUME NEW a \in Seq(Int), NEW b \in Seq(Int)
  PROVE  FirstDifferenceLess(a, b) = BytesLess(a, b)
<1> DEFINE D == {k \in DOMAIN a \cap DOMAIN b : a[k] # b[k]}
           d == CHOOSE k \in D : \A l \in D : k <= l
<1>0. /\ Len(a) \in Nat /\ Len(b) \in Nat
      /\ DOMAIN a = 1 .. Len(a) /\ DOMAIN b = 1 .. Len(b)
      /\ \A k \in 1 .. Len(a) : a[k] \in Int
      /\ \A k \in 1 .. Len(b) : b[k] \in Int
  OBVIOUS
<1>1. FirstDifferenceLess(a, b) = IF D = {} THEN Len(a) < Len(b) ELSE a[d] < b[d]
  BY Zenon DEF FirstDifferenceLess
<1>2. BytesLess(a, b) \in BOOLEAN
  BY DEF BytesLess
<1>3. CASE D = {}
  <2>1. \A k \in 1 .. Len(a) : k <= Len(b) => a[k] = b[k]
    BY <1>0, <1>3
  <2>2. ASSUME Len(a) < Len(b) PROVE BytesLess(a, b)
    <3> DEFINE e == Len(a) + 1
    <3>1. /\ e \in 1 .. Len(b) /\ e <= Len(a) + 1 /\ e = Len(a) + 1
          /\ \A m \in 1 .. e - 1 : a[m] = b[m]
      BY <1>0, <2>1, <2>2
    <3> HIDE DEF e
    <3> QED
      BY <3>1 DEF BytesLess
  <2>3. ASSUME BytesLess(a, b) PROVE Len(a) < Len(b)
    <3>1. PICK k \in 1 .. Len(b) : k <= Len(a) + 1 /\ (k = Len(a) + 1 \/ a[k] < b[k])
      BY <2>3 DEF BytesLess
    <3>2. CASE k = Len(a) + 1
      BY <1>0, <3>2
    <3>3. CASE k <= Len(a) /\ a[k] < b[k]
      <4>1. k \in 1 .. Len(a) /\ a[k] = b[k]
        BY <1>0, <2>1, <3>3
      <4> QED
        BY <1>0, <3>3, <4>1
    <3> QED
      BY <1>0, <3>1, <3>2, <3>3
  <2>4. (Len(a) < Len(b)) \in BOOLEAN
    OBVIOUS
  <2>5. FirstDifferenceLess(a, b) = (Len(a) < Len(b))
    BY <1>1, <1>3
  <2> HIDE DEF D, d
  <2> QED
    BY <1>2, <2>2, <2>3, <2>4, <2>5, Zenon
<1>4. CASE D # {}
  <2>1. D \in SUBSET Nat
    BY <1>0
  <2>2. \E x \in D : \A y \in D : x <= y
    BY <1>4, <2>1, Least
  <2>3. d \in D /\ \A y \in D : d <= y
    BY <2>2, Zenon
  <2>4. FirstDifferenceLess(a, b) = (a[d] < b[d])
    BY <1>1, <1>4, Zenon
  <2> HIDE DEF d
  <2>5. /\ d \in 1 .. Len(a) /\ d \in 1 .. Len(b) /\ a[d] # b[d]
        /\ a[d] \in Int /\ b[d] \in Int
    BY <1>0, <2>3
  <2>6. \A k \in 1 .. d - 1 : a[k] = b[k]
    <3> SUFFICES ASSUME NEW k \in 1 .. d - 1, a[k] # b[k] PROVE FALSE
      OBVIOUS
    <3>1. k \in D
      BY <1>0, <2>5
    <3> QED
      BY <2>3, <2>5, <3>1
  <2> HIDE DEF D
  <2>7. ASSUME a[d] < b[d] PROVE BytesLess(a, b)
    <3>1. d <= Len(a) + 1
      BY <1>0, <2>5
    <3> QED
      BY <2>5, <2>6, <2>7, <3>1 DEF BytesLess
  <2>8. ASSUME BytesLess(a, b) PROVE a[d] < b[d]
    <3>1. PICK k \in 1 .. Len(b) : /\ k <= Len(a) + 1 /\ \A m \in 1 .. k - 1 : a[m] = b[m]
                                   /\ k = Len(a) + 1 \/ a[k] < b[k]
      BY <2>8 DEF BytesLess
    <3>2. CASE d < k
      <4>1. d \in 1 .. k - 1
        BY <2>5, <3>2
      <4> QED
        BY <2>5, <3>1, <4>1
    <3>3. CASE k < d
      <4>1. k \in 1 .. d - 1 /\ k # Len(a) + 1 /\ k \in 1 .. Len(a)
        <5>1. d \in Int /\ d <= Len(a) /\ k \in Int /\ 1 <= k /\ Len(a) \in Int
          BY <1>0, <2>5
        <5>2. k <= d - 1 /\ k <= Len(a) /\ k # Len(a) + 1
          BY <3>3, <5>1
        <5> QED
          BY <5>1, <5>2
      <4>2. a[k] = b[k] /\ a[k] < b[k]
        BY <2>6, <3>1, <4>1
      <4> QED
        BY <1>0, <4>1, <4>2
    <3>4. CASE k = d
      BY <1>0, <2>5, <3>1, <3>4
    <3> QED
      BY <2>5, <3>2, <3>3, <3>4
  <2>9. (a[d] < b[d]) \in BOOLEAN
    OBVIOUS
  <2> QED
    BY <1>2, <2>4, <2>7, <2>8, <2>9, Zenon
<1> QED
  BY <1>3, <1>4

\* What NaturalLess_ decides at the bytes i and j.
JudgeFirst(a, b, i, j, G) ==
  IF i > Len(a) /\ j > Len(b) THEN FirstDifferenceLess(a, b)
  ELSE IF i > Len(a) \/ j > Len(b) THEN i > Len(a)
  ELSE IF IsDigit(a[i]) /\ IsDigit(b[j])
  THEN LET ae == DigitsEnd(a, i)
           be == DigitsEnd(b, j)
           m  == SubSeq(a, Significant(a, i, ae), ae - 1)
           n  == SubSeq(b, Significant(b, j, be), be - 1)
       IN  IF Len(m) # Len(n) THEN Len(m) < Len(n)
           ELSE IF m # n THEN FirstDifferenceLess(m, n)
           ELSE G[ae][be]
  ELSE IF a[i] # b[j] THEN a[i] < b[j]
  ELSE G[i + 1][j + 1]

IsLessFirst(a, b, G) ==
  G = [i \in 1 .. Len(a) + 1 |-> [j \in 1 .. Len(b) + 1 |-> JudgeFirst(a, b, i, j, G)]]

LEMMA JudgesAgree ==
  ASSUME NEW a \in Seq(Int), NEW b \in Seq(Int), NEW G,
         NEW i \in 1 .. Len(a) + 1, NEW j \in 1 .. Len(b) + 1
  PROVE  JudgeFirst(a, b, i, j, G) = Judge(a, b, i, j, G)
<1> DEFINE ae == DigitsEnd(a, i)
           be == DigitsEnd(b, j)
           m  == SubSeq(a, Significant(a, i, ae), ae - 1)
           n  == SubSeq(b, Significant(b, j, be), be - 1)
<1>1. FirstDifferenceLess(a, b) = BytesLess(a, b)
  BY FirstDifferenceIsBytes
<1>2. FirstDifferenceLess(m, n) = BytesLess(m, n)
  <2>1. ae \in i .. Len(a) + 1 /\ be \in j .. Len(b) + 1
    BY DigitsEndFacts
  <2> HIDE DEF ae, be
  <2> DEFINE za == Significant(a, i, ae)
             zb == Significant(b, j, be)
  <2>2. za \in i .. ae /\ zb \in j .. be
    BY <2>1, SignificantFacts
  <2>3. m = SubSeq(a, za, ae - 1) /\ n = SubSeq(b, zb, be - 1)
    OBVIOUS
  <2> HIDE DEF za, zb, m, n
  <2>4. /\ za \in Int /\ ae - 1 \in Int /\ \A k \in za .. ae - 1 : a[k] \in Int
        /\ zb \in Int /\ be - 1 \in Int /\ \A k \in zb .. be - 1 : b[k] \in Int
    <3>1. \A k \in 1 .. Len(a) : a[k] \in Int
      OBVIOUS
    <3>2. \A k \in 1 .. Len(b) : b[k] \in Int
      OBVIOUS
    <3>3. /\ za \in Int /\ ae - 1 \in Int /\ \A k \in za .. ae - 1 : k \in 1 .. Len(a)
          /\ zb \in Int /\ be - 1 \in Int /\ \A k \in zb .. be - 1 : k \in 1 .. Len(b)
      <4>1. /\ i \in Int /\ 1 <= i /\ ae \in Int /\ ae <= Len(a) + 1 /\ Len(a) \in Int
        BY <2>1
      <4>2. j \in Int /\ 1 <= j /\ be \in Int /\ be <= Len(b) + 1 /\ Len(b) \in Int
        BY <2>1
      <4>3. za \in Int /\ i <= za /\ zb \in Int /\ j <= zb
        BY <2>2, <4>1, <4>2
      <4>4. ASSUME NEW k \in za .. ae - 1 PROVE k \in 1 .. Len(a)
        BY <4>1, <4>3
      <4>5. ASSUME NEW k \in zb .. be - 1 PROVE k \in 1 .. Len(b)
        BY <4>2, <4>3
      <4> QED
        BY <4>1, <4>2, <4>3, <4>4, <4>5
    <3> QED
      BY <3>1, <3>2, <3>3
  <2>5. m \in Seq(Int) /\ n \in Seq(Int)
    BY <2>3, <2>4, SubSeqProperties
  <2> QED
    BY <2>5, FirstDifferenceIsBytes
<1>3. CASE i > Len(a) \/ j > Len(b)
  BY <1>1, <1>3, Zenon DEF JudgeFirst, Judge, TieBreak
<1>4. CASE ~(i > Len(a) \/ j > Len(b))
  BY <1>2, <1>4, Zenon DEF JudgeFirst, Judge
<1> QED
  BY <1>3, <1>4

LEMMA FirstDifferenceAgrees ==
  ASSUME NEW a \in Seq(Int), NEW b \in Seq(Int)
  PROVE  NaturalLess_(a, b) = NaturalLess(a, b)
<1>1. ASSUME NEW G PROVE IsLessFirst(a, b, G) <=> IsLess(a, b, G)
  <2>1. \A i \in 1 .. Len(a) + 1 : \A j \in 1 .. Len(b) + 1 :
          JudgeFirst(a, b, i, j, G) = Judge(a, b, i, j, G)
    BY JudgesAgree
  <2>2. [i \in 1 .. Len(a) + 1 |-> [j \in 1 .. Len(b) + 1 |-> JudgeFirst(a, b, i, j, G)]]
        = [i \in 1 .. Len(a) + 1 |-> [j \in 1 .. Len(b) + 1 |-> Judge(a, b, i, j, G)]]
    BY <2>1
  <2> QED
    BY <2>2, Zenon DEF IsLessFirst, IsLess
<1> DEFINE G == CHOOSE X : IsLess(a, b, X)
           F == CHOOSE X : IsLessFirst(a, b, X)
<1>2. F = G
  BY <1>1, Zenon
<1>3. NaturalLess(a, b) = G[1][1]
  BY DEF NaturalLess, IsLess, Judge
<1>4. NaturalLess_(a, b) = F[1][1]
  BY DEF NaturalLess_, IsLessFirst, JudgeFirst
<1> QED
  BY <1>2, <1>3, <1>4, Zenon

LEMMA ListingOfNames ==
  ASSUME NEW a \in Seq(Int), NEW b \in Seq(Int), NEW c \in Seq(Int)
  PROVE  /\ ~NaturalLess(a, a)
         /\ a # b => (NaturalLess(a, b) <=> ~NaturalLess(b, a))
         /\ NaturalLess(a, b) /\ NaturalLess(b, c) => NaturalLess(a, c)
         /\ AllDigits(a) /\ AllDigits(b) /\ Number(a) < Number(b) => NaturalLess(a, b)
         /\ NaturalLess(a, b) <=> natural_compare_less(a, b)
         /\ NaturalLess(a, b) <=> NaturalLess_(a, b)
<1>1. PICK A : IsCut(a, A) /\ Pieces(a) = A[1]
  BY PiecesFacts
<1>2. PICK B : IsCut(b, B) /\ Pieces(b) = B[1]
  BY PiecesFacts
<1>3. PICK C : IsCut(c, C) /\ Pieces(c) = C[1]
  BY PiecesFacts
<1> DEFINE K == A[1]
           L == B[1]
           M == C[1]
<1>4. K \in Seq(NamePieces) /\ L \in Seq(NamePieces) /\ M \in Seq(NamePieces)
  <2>1. 1 \in 1 .. Len(a) + 1 /\ 1 \in 1 .. Len(b) + 1 /\ 1 \in 1 .. Len(c) + 1
    OBVIOUS
  <2> QED
    BY <1>1, <1>2, <1>3, <2>1, CutFacts
<1>5. /\ NaturalLess(a, a) <=> Verdict(K, K, a, a)
      /\ NaturalLess(a, b) <=> Verdict(K, L, a, b)
      /\ NaturalLess(b, a) <=> Verdict(L, K, b, a)
      /\ NaturalLess(b, c) <=> Verdict(L, M, b, c)
      /\ NaturalLess(a, c) <=> Verdict(K, M, a, c)
  BY <1>1, <1>2, <1>3, NaturalLessIsVerdict
<1>6. natural_compare_less(a, b) <=> Verdict(K, L, a, b)
  <2>1. Pieces(a) \in Seq(NamePieces) /\ Pieces(b) \in Seq(NamePieces)
    BY <1>1, <1>2, <1>4
  <2> QED
    BY <1>1, <1>2, <2>1, PythonComparesPieces
<1>7. AllDigits(a) /\ AllDigits(b) /\ Number(a) < Number(b) => Verdict(K, L, a, b)
  <2> SUFFICES ASSUME AllDigits(a), AllDigits(b), Number(a) < Number(b)
               PROVE  LexBefore(K, L)
    BY DEF Verdict
  <2>1. K = <<a>> /\ L = <<b>> /\ a \in NamePieces /\ b \in NamePieces
    BY <1>1, <1>2, NumberIsOnePiece
  <2>2. Below(a, b)
    BY SmallerIsBelow
  <2> HIDE DEF K, L
  <2>3. 1 \in 1 .. Len(L) /\ 1 <= Len(K) + 1 /\ Below(K[1], L[1]) /\ \A m \in 1 .. 1 - 1 : Same(K[m], L[m])
    BY <2>1, <2>2
  <2> QED
    BY <2>3 DEF LexBefore
<1> HIDE DEF K, L, M
<1>8. LexSame(K, K)
  <2> SUFFICES ASSUME NEW m \in 1 .. Len(K) PROVE Same(K[m], K[m])
    BY DEF LexSame
  <2>1. K[m] \in NamePieces
    BY <1>4
  <2> QED
    BY <2>1, PiecesAreComparable
<1>9. /\ ~BytesLess(a, a)
      /\ a # b => BytesLess(a, b) \/ BytesLess(b, a)
      /\ ~(BytesLess(a, b) /\ BytesLess(b, a))
      /\ BytesLess(a, b) /\ BytesLess(b, c) => BytesLess(a, c)
  BY BytesIrreflexive, BytesTotal, BytesTransitive
<1>10. ~LexBefore(K, K)
  BY <1>4, <1>8, LexComparable
<1>11. /\ LexSame(K, L) <=> LexSame(L, K)
       /\ LexBefore(K, L) \/ LexBefore(L, K) \/ LexSame(K, L)
       /\ ~(LexBefore(K, L) /\ LexBefore(L, K))
       /\ ~(LexBefore(K, L) /\ LexSame(K, L))
       /\ ~(LexBefore(L, K) /\ LexSame(L, K))
  BY <1>4, LexComparable
<1>12. /\ LexSame(K, L) /\ LexSame(L, M) => LexSame(K, M)
       /\ LexSame(K, L) /\ LexBefore(L, M) => LexBefore(K, M)
       /\ LexBefore(K, L) /\ LexSame(L, M) => LexBefore(K, M)
       /\ LexBefore(K, L) /\ LexBefore(L, M) => LexBefore(K, M)
  BY <1>4, LexIsTransitive
<1>13. ~NaturalLess(a, a)
  BY <1>5, <1>9, <1>10 DEF Verdict
<1>14. a # b => (NaturalLess(a, b) <=> ~NaturalLess(b, a))
  BY <1>5, <1>9, <1>11 DEF Verdict
<1>15. NaturalLess(a, b) /\ NaturalLess(b, c) => NaturalLess(a, c)
  BY <1>5, <1>9, <1>12 DEF Verdict
<1>16. NaturalLess(a, b) <=> NaturalLess_(a, b)
  BY FirstDifferenceAgrees
<1> QED
  BY <1>5, <1>6, <1>7, <1>13, <1>14, <1>15, <1>16

NamesSpec == NamesInit /\ [][FALSE]_names

\* Of names of any bytes and any length, with numbers of any size in them: the
\* order of a listing is strict, total and transitive, numbers come by value, and
\* the Python and MATLAB demos sort as the native programs do.
THEOREM ListingIsAnOrder == NamesSpec => []ListingIsOrdered
<1>1. NamesInit => ListingIsOrdered
  <2> SUFFICES ASSUME NamesInit PROVE ListingIsOrdered
    OBVIOUS
  <2>1. FileNames \subseteq Seq(Int)
    <3>1. ASSUME NEW s \in Seq(0 .. 255) PROVE s \in Seq(Int)
      <4>1. 0 .. 255 \subseteq Int
        OBVIOUS
      <4> QED
        BY <4>1, SeqMonotonic
    <3> QED
      BY <3>1, NamesAssumption
  <2>2. names[1] \in Seq(Int) /\ names[2] \in Seq(Int) /\ names[3] \in Seq(Int)
    BY <2>1 DEF NamesInit
  <2> QED
    BY <2>2, ListingOfNames DEF ListingIsOrdered
<1>2. ListingIsOrdered /\ [FALSE]_names => ListingIsOrdered'
  <2> SUFFICES ASSUME ListingIsOrdered, UNCHANGED names PROVE ListingIsOrdered'
    OBVIOUS
  <2> QED
    BY DEF ListingIsOrdered
<1> QED
  BY <1>1, <1>2, PTL DEF NamesSpec
=============================================================================
