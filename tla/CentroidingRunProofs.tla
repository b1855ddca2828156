------------------------- MODULE CentroidingRunProofs -------------------------
(***************************************************************************)
(* Proofs about CentroidingRun, for every set of payloads, every bound on the *)
(* frames and every set of bad names: exit status, report, structured error   *)
(* and spool agree at the end of a run, and main never misuses the report.    *)
(***************************************************************************)
EXTENDS CentroidingRun, SequenceTheorems, TLAPS

\* The report object, as far as the properties of a run need it.
WriterInv ==
    /\ Report!TypeOK
    /\ pc # "absent" => committed = Len(accepted)
    /\ pc # "absent" /\ state # "complete" => Len(spool.lines) >= Len(accepted)
    /\ pc \in {"copy", "rename"} =>
          /\ tmp.status = IF call.complete THEN "complete" ELSE "incomplete"
          /\ tmp.error = call.error
          /\ Len(tmp.frames) <= committed
    /\ pc = "rename" => Len(tmp.frames) = committed
    /\ pc = "finish" =>
          /\ predictions.status = IF call.complete THEN "complete" ELSE "incomplete"
          /\ predictions.error = call.error
          /\ Len(predictions.frames) = committed
    /\ pc \in Report!PublishSteps => state # "complete"
    /\ pc \in {"open", "copy", "rename"} => predictions.status # "complete"
    /\ pc = "idle" => (state = "complete" <=> predictions.status = "complete")
    /\ predictions.status = "complete" => Len(predictions.frames) = Len(accepted)

\* The control of main.
Points ==
    {"start", "constructing", "load", "overlay_directory", "loop", "frame", "completing",
     "handler", "failing", "done"}

ControlInv ==
    /\ job \in [reporting : BOOLEAN, overlays : BOOLEAN, count : 1..MaxFrames]
    /\ at \in Points
    /\ stage \in Stages
    /\ index \in 0..job.count
    /\ cause \in {"none"} \cup Exceptions
    /\ exit \in {"running", "0", "1", "2"}
    /\ at = "done" <=> exit # "running"
    /\ at \in {"handler", "failing"} => cause # "none"
    /\ at \in {"start", "constructing", "load", "overlay_directory"} =>
          stage = "model_load" /\ index = job.count
    /\ at = "loop" => stage = IF index = 0 THEN "model_load" ELSE "report"
    /\ at = "frame" => stage \in FrameStages /\ index < job.count
    /\ at = "completing" => stage = "report" /\ index = job.count
    /\ ~job.reporting => pc = "absent" /\ at \notin {"constructing", "completing", "failing"}

\* The error main is about to publish names the first missing frame.
FailureIsPlausible ==
    \/ FrameFailed /\ index = committed
    \/ ~FrameFailed /\ stage = "model_load" /\ committed = 0
    \/ ~FrameFailed /\ stage = "report" /\ committed = job.count

\* Where main stands with its report.
ReportInv ==
    /\ at = "start" => pc = "absent" /\ accepted = <<>> /\ predictions.status = "absent" /\ predictions.error = NoError
    /\ at \in {"load", "overlay_directory", "loop", "frame", "handler"} =>
          pc = "idle" /\ predictions.status = "incomplete" /\ predictions.error = NoError
    /\ at \in {"load", "overlay_directory", "loop", "frame", "constructing"} => state = "active"
    /\ at \in {"load", "overlay_directory", "constructing"} => accepted = <<>>
    /\ at = "constructing" =>
          /\ call.constructing /\ ~call.complete /\ call.error = NoError
          /\ predictions.status # "complete" /\ predictions.error = NoError
          /\ pc = "idle" => predictions.status = "incomplete"
    /\ at \in {"loop", "frame"} => index = committed
    /\ at \in {"completing", "failing"} =>
          pc # "absent" /\ ~call.constructing /\ predictions.status # "absent"
    /\ at = "completing" =>
          /\ call.complete /\ call.error = NoError
          /\ committed = job.count
          /\ predictions.error = NoError
          /\ pc = "idle" => (outcome = "ok" <=> state = "complete")
    /\ at \in {"handler", "failing"} => state # "complete" /\ FailureIsPlausible
    /\ at = "failing" =>
          /\ ~call.complete /\ call.error = Failure
          /\ predictions.status = "incomplete"
          /\ predictions.error # NoError =>
                predictions.error = Failure /\ Len(predictions.frames) = committed
          /\ pc = "idle" /\ outcome = "ok" =>
                predictions.error = Failure /\ Len(predictions.frames) = committed

RunInv ==
    /\ WriterInv
    /\ ControlInv
    /\ job.reporting => ReportInv
    /\ ExitAgreesWithReport
    /\ ErrorNamesFirstMissingFrame
    /\ FailureIsOnDisk

-----------------------------------------------------------------------------
(* The calls main makes: every step is one of them for the report object. *)
Calls ==
    \/ UNCHANGED report
    \/ at = "start" /\ job.reporting /\ Report!Construct
    \/ \E created \in BOOLEAN, exception \in {"io_error", "invalid_argument"} :
           Report!ConstructFails(created, exception)
    \/ Report!PublishStep
    \/ \E payload \in Payloads : Report!AppendCommits(payload)
    \/ \E payload \in Payloads, reached \in {"nothing", "torn", "whole"} :
           Report!AppendFails(payload, reached)
    \/ Report!AppendInvalid
    \/ \E complete \in BOOLEAN : Report!PublishInvalid(complete)
    \/ \E complete \in BOOLEAN, error \in Failures \cup {NoError} : Report!BeginPublish(complete, error)

LEMMA FailureIsTyped ==
    ASSUME ControlInv
    PROVE  Failure \in Failures
  <1>1. (IF FrameFailed THEN index ELSE NullIndex) \in NullIndex..(MaxFrames - 1)
    BY FramesAssumption DEF ControlInv, FrameFailed, NullIndex
  <1> QED
    BY <1>1 DEF ControlInv, Failure, Failures

LEMMA EveryStepIsACall ==
    ASSUME ControlInv, [Next]_vars
    PROVE  Calls
  <1> USE DEF Calls
  <1>1. CASE \E exception \in Exceptions : StartFails(exception)
    BY <1>1 DEF StartFails
  <1>2. CASE Start
    BY <1>2 DEF Start
  <1>3. CASE \E created \in BOOLEAN, exception \in {"io_error", "invalid_argument"} :
                 StartReportFails(created, exception)
    BY <1>3 DEF StartReportFails
  <1>4. CASE ReportStep
    BY <1>4 DEF ReportStep
  <1>5. CASE Constructed \/ LoadModel \/ CreateOverlayDirectory \/ NextFrame \/ FrameStep
             \/ Completed \/ Rethrow
    BY <1>5 DEF Constructed, LoadModel, CreateOverlayDirectory, NextFrame, FrameStep, Completed, Rethrow
  <1>6. CASE AppendFrame
    BY <1>6 DEF AppendFrame
  <1>7. CASE Complete
    BY <1>7 DEF Complete
  <1>8. CASE Handle
    BY <1>8, FailureIsTyped DEF Handle
  <1>9. CASE UNCHANGED vars
    BY <1>9 DEF vars
  <1> QED
    BY <1>1, <1>2, <1>3, <1>4, <1>5, <1>6, <1>7, <1>8, <1>9 DEF Next

-----------------------------------------------------------------------------
(* A line written to the spool is one line more. *)
LEMMA LineWritten ==
    ASSUME NEW s \in [present : BOOLEAN, lines : Seq(Report!Record), torn : BOOLEAN],
           NEW r \in Report!Record
    PROVE  /\ Report!WriteLine(s, r) \in [present : BOOLEAN, lines : Seq(Report!Record), torn : BOOLEAN]
           /\ Len(Report!WriteLine(s, r).lines) = Len(s.lines) + 1
  <1> DEFINE line == [r EXCEPT !.whole = ~s.torn]
  <1>1. line \in Report!Record
    BY DEF Report!Record
  <1>2. s.lines \in Seq(Report!Record)
    OBVIOUS
  <1>3. /\ Append(s.lines, line) \in Seq(Report!Record)
        /\ Len(Append(s.lines, line)) = Len(s.lines) + 1
    BY <1>1, <1>2, AppendProperties
  <1>4. Report!WriteLine(s, r) = [present |-> TRUE, lines |-> Append(s.lines, line), torn |-> FALSE]
    BY DEF Report!WriteLine
  <1> HIDE DEF line
  <1> QED
    BY <1>3, <1>4

LEMMA RecordWritten ==
    ASSUME Report!TypeOK, NEW payload \in Payloads
    PROVE  Report!NextRecord(payload) \in Report!Record
  BY FramesAssumption DEF Report!TypeOK, Report!NextRecord, Report!Record

(* The report object stays what main may rely on. *)
LEMMA WriterCorrect ==
    ASSUME RunInv, [Next]_vars
    PROVE  WriterInv'
  <1> USE FramesAssumption
  <1>0. /\ WriterInv /\ Report!TypeOK /\ Calls
        /\ at = "start" /\ job.reporting => accepted = <<>> /\ predictions.status = "absent"
    BY EveryStepIsACall DEF RunInv, WriterInv, ReportInv
  <1>a. /\ <<>> \in Seq(Report!Record) /\ Len(<<>>) = 0
        /\ Len(accepted) \in Nat /\ Len(spool.lines) \in Nat /\ Len(tmp.frames) \in Nat
    BY <1>0, EmptySeq, LenProperties DEF Report!TypeOK, Report!Report
  <1> USE DEF WriterInv, Report!TypeOK, Report!PublishSteps
  <1>1. CASE UNCHANGED report
    BY <1>0, <1>1 DEF report
  <1>2. CASE at = "start" /\ job.reporting /\ Report!Construct
    BY <1>0, <1>a, <1>2 DEF Report!Construct, Report!NewSpool
  <1>3. ASSUME NEW created \in BOOLEAN, NEW exception \in {"io_error", "invalid_argument"},
               Report!ConstructFails(created, exception)
        PROVE  WriterInv'
    BY <1>0, <1>a, <1>3 DEF Report!ConstructFails, Report!NewSpool, Report!object
  <1>4. ASSUME NEW payload \in Payloads, Report!AppendCommits(payload)
        PROVE  WriterInv'
    <2>1. Report!NextRecord(payload) \in Report!Record
      BY <1>0, RecordWritten
    <2>2. /\ spool' \in [present : BOOLEAN, lines : Seq(Report!Record), torn : BOOLEAN]
          /\ Len(spool'.lines) = Len(spool.lines) + 1
      BY <1>0, <1>4, <2>1, LineWritten DEF Report!AppendCommits
    <2>3. /\ accepted' \in Seq(Report!Record)
          /\ Len(accepted') = Len(accepted) + 1
      BY <1>0, <1>4, <2>1, AppendProperties DEF Report!AppendCommits
    <2> QED
      BY <1>0, <1>a, <1>4, <2>2, <2>3 DEF Report!AppendCommits
  <1>5. ASSUME NEW payload \in Payloads, NEW reached \in {"nothing", "torn", "whole"},
               Report!AppendFails(payload, reached)
        PROVE  WriterInv'
    <2>1. Report!NextRecord(payload) \in Report!Record
      BY <1>0, RecordWritten
    <2>2. /\ Report!WriteLine(spool, Report!NextRecord(payload)) \in
                 [present : BOOLEAN, lines : Seq(Report!Record), torn : BOOLEAN]
          /\ Len(Report!WriteLine(spool, Report!NextRecord(payload)).lines) = Len(spool.lines) + 1
      BY <1>0, <2>1, LineWritten
    <2>3. /\ spool' \in [present : BOOLEAN, lines : Seq(Report!Record), torn : BOOLEAN]
          /\ Len(spool'.lines) >= Len(spool.lines)
      <3>1. CASE reached = "nothing"
        BY <1>0, <1>a, <1>5, <3>1 DEF Report!AppendFails
      <3>2. CASE reached = "torn"
        <4>1. spool' = [spool EXCEPT !.torn = TRUE]
          BY <1>5, <3>2 DEF Report!AppendFails
        <4>2. spool \in [present : BOOLEAN, lines : Seq(Report!Record), torn : BOOLEAN]
          BY <1>0
        <4>3. /\ spool' \in [present : BOOLEAN, lines : Seq(Report!Record), torn : BOOLEAN]
              /\ spool'.lines = spool.lines
          BY ONLY <4>1, <4>2
        <4> QED
          BY ONLY <4>3, <1>a
      <3>3. CASE reached = "whole"
        BY <1>a, <1>5, <2>2, <3>3 DEF Report!AppendFails
      <3> QED
        BY <3>1, <3>2, <3>3
    <2> QED
      BY <1>0, <1>a, <1>5, <2>3 DEF Report!AppendFails
  <1>6. ASSUME Report!AppendInvalid \/ \E complete \in BOOLEAN : Report!PublishInvalid(complete)
        PROVE  WriterInv'
    BY <1>0, <1>6 DEF Report!AppendInvalid, Report!PublishInvalid, Report!Refuse, Report!disk, Report!object
  <1>7. ASSUME NEW complete \in BOOLEAN, NEW error \in Failures \cup {NoError},
               Report!BeginPublish(complete, error)
        PROVE  WriterInv'
    BY <1>0, <1>7 DEF Report!BeginPublish, Report!PublishForbidden, Report!disk, Report!object
  <1>8. CASE Report!OpenReport
    BY <1>0, <1>a, <1>8 DEF Report!OpenReport, Report!Report, Report!object
  <1>9. CASE Report!CopyFrame
    <2>1. /\ tmp.frames \in Seq(Report!Record) /\ spool.lines \in Seq(Report!Record)
          /\ Len(tmp.frames) + 1 \in 1..Len(spool.lines)
      BY <1>0, <1>a, <1>9 DEF Report!CopyFrame, Report!Report
    <2>2. spool.lines[Len(tmp.frames) + 1] \in Report!Record
      BY <2>1, ElementOfSeq
    <2>3. /\ Append(tmp.frames, spool.lines[Len(tmp.frames) + 1]) \in Seq(Report!Record)
          /\ Len(Append(tmp.frames, spool.lines[Len(tmp.frames) + 1])) = Len(tmp.frames) + 1
      BY <2>1, <2>2, AppendProperties
    <2>4. tmp' = [tmp EXCEPT !.frames = Append(tmp.frames, spool.lines[Len(tmp.frames) + 1])]
      BY <1>9 DEF Report!CopyFrame
    <2>5. /\ tmp' \in Report!Report
          /\ tmp'.status = tmp.status /\ tmp'.error = tmp.error
          /\ Len(tmp'.frames) = Len(tmp.frames) + 1
      BY <1>0, <2>3, <2>4 DEF Report!Report
    <2> QED
      BY <1>0, <1>a, <1>9, <2>5 DEF Report!CopyFrame, Report!object
  <1>10. CASE Report!CloseReport
    BY <1>0, <1>10 DEF Report!CloseReport, Report!disk, Report!object
  <1>11. CASE Report!RenameReport
    BY <1>0, <1>a, <1>11 DEF Report!RenameReport, Report!NoReport, Report!Report, Report!object
  <1>12. ASSUME NEW removed \in BOOLEAN, Report!FinishPublish(removed)
         PROVE  WriterInv'
    <2>1. Report!NoSpool \in [present : BOOLEAN, lines : Seq(Report!Record), torn : BOOLEAN]
      BY <1>a DEF Report!NoSpool
    <2>2. CASE call.complete
      BY <1>0, <1>a, <1>12, <2>1, <2>2 DEF Report!FinishPublish
    <2>3. CASE ~call.complete
      BY <1>0, <1>a, <1>12, <2>3 DEF Report!FinishPublish
    <2> QED
      BY <2>2, <2>3
  <1>13. CASE Report!PublishFails
    BY <1>0, <1>13 DEF Report!PublishFails, Report!disk, Report!object
  <1>14. CASE Report!PublishStep
    BY <1>8, <1>9, <1>10, <1>11, <1>12, <1>13, <1>14 DEF Report!PublishStep
  <1> QED
    BY <1>0, <1>1, <1>2, <1>3, <1>4, <1>5, <1>6, <1>7, <1>14 DEF Calls

-----------------------------------------------------------------------------
(* One step per action of main: its control stays inside its own rules. *)
LEMMA ControlCorrect ==
    ASSUME RunInv, [Next]_vars
    PROVE  ControlInv'
  <1> USE FramesAssumption
  <1>0. ControlInv
    BY DEF RunInv
  <1>a. job.count \in 1..MaxFrames /\ index \in Int /\ job.reporting \in BOOLEAN /\ job.overlays \in BOOLEAN
    BY <1>0 DEF ControlInv
  <1>b. job.reporting /\ at \in {"load", "overlay_directory", "loop", "frame", "handler"} => pc = "idle"
    BY DEF RunInv, ReportInv
  <1> USE DEF ControlInv, Points, Stages, FrameStages, Exceptions
  <1>1. ASSUME NEW exception \in Exceptions, StartFails(exception)
        PROVE  ControlInv'
    BY <1>0, <1>1 DEF StartFails, Leave, ExitStatus, report
  <1>2. CASE Start
    BY <1>0, <1>2 DEF Start, report
  <1>3. ASSUME NEW created \in BOOLEAN, NEW exception \in {"io_error", "invalid_argument"},
               StartReportFails(created, exception)
        PROVE  ControlInv'
    BY <1>0, <1>3 DEF StartReportFails, Leave, ExitStatus
  <1>4. CASE ReportStep
    <2>1. job.reporting
      BY <1>4, <1>0 DEF ReportStep, Report!PublishStep, Report!OpenReport, Report!CopyFrame,
         Report!CloseReport, Report!RenameReport, Report!FinishPublish, Report!PublishFails
    <2> QED
      BY <1>0, <1>4, <2>1 DEF ReportStep, driver
  <1>5. CASE Constructed
    BY <1>0, <1>5 DEF Constructed, Leave, ExitStatus, report
  <1>6. CASE LoadModel
    BY <1>0, <1>a, <1>6 DEF LoadModel, Throw, report
  <1>7. CASE CreateOverlayDirectory
    BY <1>0, <1>a, <1>7 DEF CreateOverlayDirectory, Throw, report
  <1>8. CASE NextFrame
    BY <1>0, <1>a, <1>8 DEF NextFrame, report
  <1>9. CASE FrameStep
    BY <1>0, <1>a, <1>9 DEF FrameStep, NextStage, Throw, report
  <1>10. CASE AppendFrame
    <2>1. CASE FrameDone
      <3>1. at = "frame" /\ stage = "report" /\ (job.reporting \/ pc' = pc)
        BY <1>10 DEF AppendFrame, report
      <3> QED
        BY <1>0, <1>a, <2>1, <3>1 DEF FrameDone
    <2>2. CASE job.reporting /\ \E exception \in Exceptions : Throw(exception)
      <3>1. at = "frame"
        BY <1>10 DEF AppendFrame
      <3> QED
        BY <1>0, <1>a, <2>2, <3>1 DEF Throw
    <2>3. FrameDone \/ (job.reporting /\ \E exception \in Exceptions : Throw(exception))
      BY <1>10 DEF AppendFrame
    <2> QED
      BY <2>1, <2>2, <2>3
  <1>11. CASE Complete
    <2>1. at = "loop" /\ index = job.count
      BY <1>11 DEF Complete
    <2>2. CASE ~job.reporting
      BY <1>0, <1>a, <1>11, <2>1, <2>2 DEF Complete, Leave, report
    <2>3. CASE job.reporting /\ at' = "completing" /\ UNCHANGED <<job, stage, index, cause, exit>>
      BY <1>0, <1>a, <2>1, <2>3
    <2>4. CASE job.reporting /\ Throw("invalid_argument")
      BY <1>0, <1>a, <2>1, <2>4 DEF Throw
    <2> QED
      BY <1>11, <2>2, <2>3, <2>4 DEF Complete
  <1>12. CASE Completed
    BY <1>0, <1>12 DEF Completed, Leave, Throw, report
  <1>13. CASE Handle
    BY <1>0, <1>13 DEF Handle, Leave, ExitStatus, report
  <1>14. CASE Rethrow
    BY <1>0, <1>14 DEF Rethrow, Leave, ExitStatus, report
  <1>15. CASE UNCHANGED vars
    BY <1>0, <1>15 DEF vars, report, driver
  <1> QED
    BY <1>1, <1>2, <1>3, <1>4, <1>5, <1>6, <1>7, <1>8, <1>9, <1>10, <1>11, <1>12, <1>13, <1>14, <1>15 DEF Next

-----------------------------------------------------------------------------
Promises == (job.reporting => ReportInv) /\ ExitAgreesWithReport /\ ErrorNamesFirstMissingFrame /\ FailureIsOnDisk

(* A publication under way keeps what main knows of its report. *)
LEMMA PublicationKeepsPromises ==
    ASSUME RunInv, ReportStep, WriterInv'
    PROVE  Promises'
  <1> USE FramesAssumption
  <1>0. /\ WriterInv /\ ControlInv /\ pc \in Report!PublishSteps /\ job.reporting /\ ReportInv
        /\ driver' = driver /\ at \in {"constructing", "completing", "failing"}
        /\ exit = "running" /\ ErrorNamesFirstMissingFrame
    BY DEF RunInv, ControlInv, ReportStep, driver, Report!PublishSteps, Report!PublishStep, Report!OpenReport,
       Report!CopyFrame, Report!CloseReport, Report!RenameReport, Report!FinishPublish, Report!PublishFails
  <1>1. ReportStep /\ UNCHANGED <<accepted, committed, call, job, at, stage, index, cause, exit>>
    BY <1>0 DEF driver, ReportStep, Report!PublishStep, Report!OpenReport, Report!CopyFrame,
       Report!CloseReport, Report!RenameReport, Report!FinishPublish, Report!PublishFails, Report!object
  <1>2. /\ FrameFailed' = FrameFailed /\ Failure' = Failure
        /\ FailureIsPlausible' = FailureIsPlausible
    BY <1>1 DEF Failure, FrameFailed, FailureIsPlausible
  <1>3. ExitAgreesWithReport' /\ FailureIsOnDisk'
    BY <1>0, <1>1 DEF ExitAgreesWithReport, RunKeepsPromise, FailureIsOnDisk
  <1>4. ReportInv'
    <2>1. CASE Report!OpenReport \/ Report!CopyFrame \/ Report!CloseReport
      BY <1>0, <1>1, <1>2, <2>1 DEF ReportInv, Report!OpenReport, Report!CopyFrame, Report!CloseReport,
         Report!disk, Report!object
    <2>2. CASE Report!RenameReport
      BY <1>0, <1>1, <1>2, <2>2 DEF ReportInv, WriterInv, Report!RenameReport, Report!object
    <2>3. ASSUME NEW removed \in BOOLEAN, Report!FinishPublish(removed)
          PROVE  ReportInv'
      BY <1>0, <1>1, <1>2, <2>3 DEF ReportInv, WriterInv, Report!FinishPublish
    <2>4. CASE Report!PublishFails
      BY <1>0, <1>1, <1>2, <2>4 DEF ReportInv, WriterInv, Report!PublishFails, Report!disk, Report!object
    <2> QED
      BY <1>1, <2>1, <2>2, <2>3, <2>4 DEF ReportStep, Report!PublishStep
  <1>5. ErrorNamesFirstMissingFrame'
    <2>1. CASE Report!RenameReport
      <3>1. predictions' = tmp /\ tmp.error = call.error /\ Len(tmp.frames) = committed
        BY <1>0, <2>1 DEF WriterInv, Report!RenameReport
      <3>2. CASE at \in {"constructing", "completing"}
        BY <1>0, <3>1, <3>2 DEF ReportInv, ErrorNamesFirstMissingFrame
      <3>3. CASE at = "failing"
        <4>1. tmp.error = Failure /\ FailureIsPlausible
          BY <1>0, <3>1, <3>3 DEF ReportInv
        <4>2. committed = 0 => tmp.frames = <<>>
          BY <1>0, <3>1, EmptySeq DEF WriterInv, Report!TypeOK, Report!Report
        <4> QED
          BY <1>1, <3>1, <4>1, <4>2 DEF ErrorNamesFirstMissingFrame, Failure, FailureIsPlausible, NullIndex
      <3> QED
        BY <1>0, <3>2, <3>3
    <2>2. CASE UNCHANGED predictions
      BY <1>0, <1>1, <2>2 DEF ErrorNamesFirstMissingFrame
    <2> QED
      BY <1>1, <2>1, <2>2 DEF ReportStep, Report!PublishStep, Report!OpenReport, Report!CopyFrame,
         Report!CloseReport, Report!FinishPublish, Report!PublishFails, Report!disk
  <1> QED
    BY <1>3, <1>4, <1>5 DEF Promises

(* Every other step of main. *)
LEMMA MainKeepsPromises ==
    ASSUME RunInv, [Next]_vars, WriterInv', ControlInv'
    PROVE  Promises'
  <1> USE FramesAssumption
  <1>0. WriterInv /\ ControlInv /\ Promises
    BY DEF RunInv, Promises
  <1>1. ASSUME NEW exception \in Exceptions, StartFails(exception)
        PROVE  Promises'
    BY <1>0, <1>1 DEF StartFails, Leave, ExitStatus, report, Promises, ReportInv, ControlInv,
       ExitAgreesWithReport, ErrorNamesFirstMissingFrame, FailureIsOnDisk, RunKeepsPromise, Exceptions
  <1>2. CASE Start
    BY <1>0, <1>2 DEF Start, report, Report!Construct, Promises, ReportInv, ControlInv, WriterInv,
       ExitAgreesWithReport, ErrorNamesFirstMissingFrame, FailureIsOnDisk, RunKeepsPromise
  <1>3. ASSUME NEW created \in BOOLEAN, NEW exception \in {"io_error", "invalid_argument"},
               StartReportFails(created, exception)
        PROVE  Promises'
    BY <1>0, <1>3 DEF StartReportFails, Leave, ExitStatus, Report!ConstructFails, Report!object,
       Promises, ReportInv, ControlInv,
       ExitAgreesWithReport, ErrorNamesFirstMissingFrame, FailureIsOnDisk, RunKeepsPromise
  <1>4. CASE ReportStep
    BY <1>4, PublicationKeepsPromises
  <1>5. CASE Constructed
    BY <1>0, <1>5 DEF Constructed, Leave, ExitStatus, report, Promises, ReportInv, ControlInv,
       ExitAgreesWithReport, ErrorNamesFirstMissingFrame, FailureIsOnDisk, RunKeepsPromise
  <1>6. CASE LoadModel
    BY <1>0, <1>6 DEF LoadModel, Throw, report, Promises, ReportInv, ControlInv, WriterInv,
       FailureIsPlausible, FrameFailed,
       ExitAgreesWithReport, ErrorNamesFirstMissingFrame, FailureIsOnDisk, RunKeepsPromise
  <1>7. CASE CreateOverlayDirectory
    BY <1>0, <1>7 DEF CreateOverlayDirectory, Throw, report, Promises, ReportInv, ControlInv, WriterInv,
       FailureIsPlausible, FrameFailed,
       ExitAgreesWithReport, ErrorNamesFirstMissingFrame, FailureIsOnDisk, RunKeepsPromise
  <1>8. CASE NextFrame
    BY <1>0, <1>8 DEF NextFrame, report, Promises, ReportInv, ControlInv,
       ExitAgreesWithReport, ErrorNamesFirstMissingFrame, FailureIsOnDisk, RunKeepsPromise
  <1>9. CASE FrameStep
    BY <1>0, <1>9 DEF FrameStep, Throw, report, Promises, ReportInv, ControlInv,
       FailureIsPlausible, FrameFailed, FrameStages,
       ExitAgreesWithReport, ErrorNamesFirstMissingFrame, FailureIsOnDisk, RunKeepsPromise
  <1>10. CASE AppendFrame
    BY <1>0, <1>10 DEF AppendFrame, FrameDone, Throw, report, Promises, ReportInv, ControlInv,
       Report!AppendCommits, Report!AppendFails, Report!AppendInvalid, Report!Refuse, Report!disk, Report!object,
       FailureIsPlausible, FrameFailed,
       ExitAgreesWithReport, ErrorNamesFirstMissingFrame, FailureIsOnDisk, RunKeepsPromise
  <1>11. CASE Complete
    BY <1>0, <1>11 DEF Complete, Leave, Throw, report, Promises, ReportInv, ControlInv,
       Report!BeginPublish, Report!PublishInvalid, Report!PublishForbidden, Report!Refuse, Report!disk, Report!object,
       FailureIsPlausible, FrameFailed,
       ExitAgreesWithReport, ErrorNamesFirstMissingFrame, FailureIsOnDisk, RunKeepsPromise
  <1>12. CASE Completed
    BY <1>0, <1>12 DEF Completed, Leave, Throw, report, Promises, ReportInv, ControlInv, WriterInv,
       Report!TypeOK, Report!Report, FailureIsPlausible, FrameFailed,
       ExitAgreesWithReport, ErrorNamesFirstMissingFrame, FailureIsOnDisk, RunKeepsPromise
  <1>13. CASE Handle
    <2>1. CASE ~job.reporting
      BY <1>0, <1>13, <2>1 DEF Handle, Leave, ExitStatus, report, Promises, ControlInv,
         ExitAgreesWithReport, ErrorNamesFirstMissingFrame, FailureIsOnDisk
    <2>2. CASE /\ job.reporting /\ at = "handler" /\ Report!BeginPublish(FALSE, Failure)
               /\ at' = "failing" /\ UNCHANGED <<job, stage, index, cause, exit>>
      BY <1>0, <2>2 DEF Promises, ReportInv, ControlInv, Report!BeginPublish, Report!disk, Report!object,
         Failure, FrameFailed, FailureIsPlausible,
         ExitAgreesWithReport, ErrorNamesFirstMissingFrame, FailureIsOnDisk, RunKeepsPromise
    <2>3. CASE job.reporting /\ at = "handler" /\ Report!PublishInvalid(FALSE) /\ Leave(ExitStatus(cause))
      BY <1>0, <2>3 DEF Promises, ReportInv, ControlInv, WriterInv, Leave, ExitStatus,
         Report!PublishInvalid, Report!Refuse, Report!disk, Report!object,
         ExitAgreesWithReport, ErrorNamesFirstMissingFrame, FailureIsOnDisk, RunKeepsPromise
    <2> QED
      BY <1>0, <1>13, <2>1, <2>2, <2>3 DEF Handle, ControlInv
  <1>14. CASE Rethrow
    BY <1>0, <1>14 DEF Rethrow, Leave, ExitStatus, report, Promises, ReportInv, ControlInv, WriterInv,
       Failure, FrameFailed,
       ExitAgreesWithReport, ErrorNamesFirstMissingFrame, FailureIsOnDisk, RunKeepsPromise
  <1>15. CASE UNCHANGED vars
    BY <1>0, <1>15 DEF vars, report, driver, Promises, ReportInv, FailureIsPlausible, Failure, FrameFailed,
       ExitAgreesWithReport, ErrorNamesFirstMissingFrame, FailureIsOnDisk, RunKeepsPromise
  <1> QED
    BY <1>1, <1>2, <1>3, <1>4, <1>5, <1>6, <1>7, <1>8, <1>9, <1>10, <1>11, <1>12, <1>13, <1>14, <1>15 DEF Next

-----------------------------------------------------------------------------
(* At the end of every run, exit status, report, structured error and spool  *)
(* agree as RunInv says, and before it the report object and the control of  *)
(* main are where RunInv puts them.                                          *)
THEOREM RunInvariance == Spec => []RunInv
  <1> USE FramesAssumption
  <1>1. Init => RunInv
    <2> SUFFICES ASSUME Init
                 PROVE  RunInv
      OBVIOUS
    <2>1. /\ <<>> \in Seq(Report!Record) /\ Len(<<>>) = 0
      BY EmptySeq
    <2>2. WriterInv
      BY <2>1 DEF Init, Report!Init, WriterInv, Report!TypeOK, Report!NoSpool, Report!NoReport,
         Report!Report, Report!PublishSteps
    <2>3. ControlInv
      BY DEF Init, Report!Init, ControlInv, Points, Stages
    <2>4. job.reporting => ReportInv
      BY DEF Init, Report!Init, ReportInv, Report!NoReport
    <2>5. ExitAgreesWithReport /\ ErrorNamesFirstMissingFrame /\ FailureIsOnDisk
      BY DEF Init, Report!Init, Report!NoReport, ExitAgreesWithReport, RunKeepsPromise,
         ErrorNamesFirstMissingFrame, FailureIsOnDisk
    <2> QED
      BY <2>2, <2>3, <2>4, <2>5 DEF RunInv
  <1>2. RunInv /\ [Next]_vars => RunInv'
    BY WriterCorrect, ControlCorrect, MainKeepsPromises DEF RunInv, Promises
  <1> QED
    BY <1>1, <1>2, PTL DEF Spec

(* The promise run_image_evaluation.sh relies on: exit status 0 means that   *)
(* predictions.json is complete and lists every frame, any other that it is  *)
(* not complete.                                                             *)
THEOREM RunsKeepTheirPromise == Spec => []ExitAgreesWithReport
  <1>1. RunInv => ExitAgreesWithReport
    BY DEF RunInv
  <1> QED
    BY <1>1, RunInvariance, PTL

(* The frame a structured error names is the first the report does not list. *)
THEOREM ErrorsNameTheirFrame == Spec => []ErrorNamesFirstMissingFrame
  <1>1. RunInv => ErrorNamesFirstMissingFrame
    BY DEF RunInv
  <1> QED
    BY <1>1, RunInvariance, PTL

(* A failed run left its error or, failing that, every accepted frame on disk. *)
THEOREM FailuresReachDisk == Spec => []FailureIsOnDisk
  <1>1. RunInv => FailureIsOnDisk
    BY DEF RunInv
  <1> QED
    BY <1>1, RunInvariance, PTL

(* main never makes a call that the state of its report forbids. *)
THEOREM ReportUsedInOrder == Spec => []ReportIsNotMisused
  <1>1. RunInv => ReportIsNotMisused
    BY DEF RunInv, ReportInv, ReportIsNotMisused, Report!PublishForbidden
  <1> QED
    BY <1>1, RunInvariance, PTL

=============================================================================
