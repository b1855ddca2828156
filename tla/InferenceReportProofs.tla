------------------------ MODULE InferenceReportProofs ------------------------
(***************************************************************************)
(* Proofs about InferenceReport, for every set of payloads and errors and  *)
(* every bound on the number of frames: type correctness, the invariants   *)
(* about the published report and the spool, the finality of a complete    *)
(* report, and the implementation of ReportPublication.                    *)
(***************************************************************************)
EXTENDS InferenceReport, SequenceTheorems, TLAPS

(* A line written to the spool extends its lines by one, and keeps the record  *)
(* it is given unless an earlier write left a torn tail.                       *)
LEMMA WriteLineProperties ==
    ASSUME NEW s \in [present : BOOLEAN, lines : Seq(Record), torn : BOOLEAN],
           NEW r \in Record
    PROVE  /\ WriteLine(s, r) \in [present : BOOLEAN, lines : Seq(Record), torn : BOOLEAN]
           /\ WriteLine(s, r).present
           /\ ~WriteLine(s, r).torn
           /\ Len(WriteLine(s, r).lines) = Len(s.lines) + 1
           /\ \A i \in 1..Len(s.lines) : WriteLine(s, r).lines[i] = s.lines[i]
           /\ ~s.torn /\ r.whole => WriteLine(s, r).lines[Len(s.lines) + 1] = r
  <1> DEFINE line == [r EXCEPT !.whole = ~s.torn]
  <1>1. line \in Record
    BY DEF Record
  <1>2. ~s.torn /\ r.whole => line = r
    BY DEF Record
  <1>3. s.lines \in Seq(Record)
    OBVIOUS
  <1>4. /\ Append(s.lines, line) \in Seq(Record)
        /\ Len(Append(s.lines, line)) = Len(s.lines) + 1
        /\ \A i \in 1..Len(s.lines) : Append(s.lines, line)[i] = s.lines[i]
        /\ Append(s.lines, line)[Len(s.lines) + 1] = line
    BY <1>1, <1>3, AppendProperties
  <1>5. WriteLine(s, r) = [present |-> TRUE, lines |-> Append(s.lines, line), torn |-> FALSE]
    BY DEF WriteLine
  <1> HIDE DEF line
  <1> QED
    BY <1>2, <1>4, <1>5

(* The next record of a typed report object is a record. *)
LEMMA NextRecordIsRecord ==
    ASSUME TypeOK, NEW payload \in Payloads
    PROVE  NextRecord(payload) \in Record /\ NextRecord(payload).whole
  BY MaxFramesAssumption DEF TypeOK, NextRecord, Record

-----------------------------------------------------------------------------
(* Type correctness: the files, the object and the call in progress keep   *)
(* their types.                                                            *)
THEOREM TypeCorrect == Spec => []TypeOK
  <1> USE MaxFramesAssumption
  <1>1. Init => TypeOK
    <2> SUFFICES ASSUME Init PROVE TypeOK
      OBVIOUS
    <2>1. <<>> \in Seq(Record)
      BY EmptySeq
    <2> QED
      BY <2>1 DEF Init, TypeOK, NoSpool, NoReport, Report
  <1>2. TypeOK /\ [Next]_vars => TypeOK'
    <2> SUFFICES ASSUME TypeOK, [Next]_vars PROVE TypeOK'
      OBVIOUS
    <2> USE DEF disk, object, PublishSteps
    <2>0. <<>> \in Seq(Record)
      BY EmptySeq
    <2>1. CASE Construct
      BY <2>0, <2>1 DEF TypeOK, Construct, NewSpool, NoSpool
    <2>2. CASE ConstructRefused
      BY <2>2 DEF TypeOK, ConstructRefused, Refuse
    <2>3. ASSUME NEW created \in BOOLEAN, NEW exception \in {"io_error", "invalid_argument"},
                 ConstructFails(created, exception)
          PROVE TypeOK'
      BY <2>0, <2>3 DEF TypeOK, ConstructFails, NewSpool, NoSpool
    <2>4. CASE AppendRefused
      BY <2>4 DEF TypeOK, AppendRefused, Refuse
    <2>5. CASE AppendInvalid
      BY <2>5 DEF TypeOK, AppendInvalid, Refuse
    <2>6. ASSUME NEW payload \in Payloads, AppendCommits(payload)
          PROVE TypeOK'
      <3>1. NextRecord(payload) \in Record
        BY NextRecordIsRecord
      <3>2. spool' \in [present : BOOLEAN, lines : Seq(Record), torn : BOOLEAN]
        BY <2>6, <3>1, WriteLineProperties DEF TypeOK, AppendCommits
      <3>3. accepted' \in Seq(Record)
        BY <2>6, <3>1, AppendProperties DEF TypeOK, AppendCommits
      <3> QED
        BY <2>6, <3>2, <3>3 DEF TypeOK, AppendCommits
    <2>7. ASSUME NEW payload \in Payloads, NEW reached \in {"nothing", "torn", "whole"},
                 AppendFails(payload, reached)
          PROVE TypeOK'
      <3>1. NextRecord(payload) \in Record
        BY NextRecordIsRecord
      <3>2. WriteLine(spool, NextRecord(payload)) \in
                [present : BOOLEAN, lines : Seq(Record), torn : BOOLEAN]
        BY <3>1, WriteLineProperties DEF TypeOK
      <3>3. spool' \in [present : BOOLEAN, lines : Seq(Record), torn : BOOLEAN]
        BY <2>7, <3>2 DEF TypeOK, AppendFails
      <3> QED
        BY <2>7, <3>3 DEF TypeOK, AppendFails
    <2>8. ASSUME NEW complete \in BOOLEAN, PublishRefused(complete) \/ PublishInvalid(complete)
          PROVE TypeOK'
      BY <2>8 DEF TypeOK, PublishRefused, PublishInvalid, Refuse
    <2>9. ASSUME NEW complete \in BOOLEAN, NEW error \in Errors \cup {NoError},
                 BeginPublish(complete, error)
          PROVE TypeOK'
      BY <2>9 DEF TypeOK, BeginPublish
    <2>10. CASE OpenReport
      BY <2>0, <2>10 DEF TypeOK, OpenReport, Report
    <2>11. CASE CopyFrame
      <3>1. /\ tmp.frames \in Seq(Record)
            /\ spool.lines \in Seq(Record)
            /\ Len(tmp.frames) + 1 \in 1..Len(spool.lines)
        BY <2>11, LenProperties DEF TypeOK, CopyFrame, Report
      <3>2. spool.lines[Len(tmp.frames) + 1] \in Record
        BY <3>1, ElementOfSeq
      <3>3. Append(tmp.frames, spool.lines[Len(tmp.frames) + 1]) \in Seq(Record)
        BY <3>1, <3>2, AppendProperties
      <3>4. tmp' = [tmp EXCEPT !.frames = Append(tmp.frames, spool.lines[Len(tmp.frames) + 1])]
        BY <2>11 DEF CopyFrame
      <3>5. tmp' \in Report
        BY <3>3, <3>4 DEF TypeOK, Report
      <3> QED
        BY <2>11, <3>5 DEF TypeOK, CopyFrame
    <2>12. CASE CloseReport
      BY <2>12 DEF TypeOK, CloseReport
    <2>13. CASE RenameReport
      BY <2>0, <2>13 DEF TypeOK, RenameReport, NoReport, Report
    <2>14. ASSUME NEW removed \in BOOLEAN, FinishPublish(removed)
           PROVE TypeOK'
      <3>1. NoSpool \in [present : BOOLEAN, lines : Seq(Record), torn : BOOLEAN]
        BY <2>0 DEF NoSpool
      <3>2. spool' \in [present : BOOLEAN, lines : Seq(Record), torn : BOOLEAN]
        BY <2>14, <3>1 DEF TypeOK, FinishPublish
      <3> QED
        BY <2>14, <3>2 DEF TypeOK, FinishPublish
    <2>15. CASE PublishFails
      BY <2>15 DEF TypeOK, PublishFails
    <2>16. CASE Terminate
      BY <2>16 DEF TypeOK, Terminate
    <2>17. CASE UNCHANGED vars
      BY <2>17 DEF TypeOK, vars
    <2> QED
      BY <2>1, <2>2, <2>3, <2>4, <2>5, <2>6, <2>7, <2>8, <2>9, <2>10, <2>11, <2>12, <2>13,
         <2>14, <2>15, <2>16, <2>17 DEF Next, PublishStep
  <1> QED
    BY <1>1, <1>2, PTL DEF Spec

-----------------------------------------------------------------------------
(* The inductive invariant, one lemma per kind of step. *)

Parts == PublishedAreAccepted /\ SpoolHoldsAccepted /\ CopyInv /\ ObjectInv

(* Facts about lengths that every step needs. *)
LEMMA Lengths ==
    ASSUME TypeOK
    PROVE  /\ Len(accepted) \in Nat
           /\ Len(spool.lines) \in Nat
           /\ Len(tmp.frames) \in Nat
           /\ Len(predictions.frames) \in Nat
  BY LenProperties DEF TypeOK, Report

(* Steps that leave the files and the accepted frames alone. *)
LEMMA QuietSteps ==
    ASSUME IInv, UNCHANGED <<disk, accepted, committed>>,
           \/ UNCHANGED <<state, pc, call>>
           \/ \E complete \in BOOLEAN, error \in Errors \cup {NoError} :
                  BeginPublish(complete, error)
           \/ CloseReport
           \/ PublishFails
           \/ Terminate
    PROVE  Parts'
  <1> USE DEF IInv, Parts, PublishedAreAccepted, SpoolHoldsAccepted, CopyInv, ObjectInv, Agree,
              DirectoryEmpty, disk, object, PublishSteps
  <1>0. ~DirectoryEmpty' \/ DirectoryEmpty
    OBVIOUS
  <1>1. CASE UNCHANGED <<state, pc, call>>
    BY <1>1
  <1>2. ASSUME NEW complete \in BOOLEAN, NEW error \in Errors \cup {NoError},
               BeginPublish(complete, error)
        PROVE  Parts'
    BY <1>2 DEF BeginPublish, PublishForbidden
  <1>3. CASE CloseReport
    BY <1>3 DEF CloseReport
  <1>4. CASE PublishFails
    BY <1>4 DEF PublishFails
  <1>5. CASE Terminate
    BY <1>5 DEF Terminate
  <1> QED
    BY <1>1, <1>2, <1>3, <1>4, <1>5

LEMMA ConstructSteps ==
    ASSUME IInv,
           \/ Construct
           \/ \E created \in BOOLEAN, exception \in {"io_error", "invalid_argument"} :
                  ConstructFails(created, exception)
    PROVE  Parts'
  <1> USE DEF IInv, Parts, PublishedAreAccepted, SpoolHoldsAccepted, CopyInv, ObjectInv, Agree,
              DirectoryEmpty, object, PublishSteps
  <1>0. DirectoryEmpty /\ accepted = <<>> /\ accepted' = accepted /\ predictions' = predictions
    BY DEF Construct, ConstructFails
  <1>1. Len(accepted) = 0 /\ predictions.status = "absent"
    BY <1>0, EmptySeq DEF NoReport
  <1>2. CASE Construct
    BY <1>0, <1>1, <1>2 DEF Construct, NewSpool
  <1>3. ASSUME NEW created \in BOOLEAN, NEW exception \in {"io_error", "invalid_argument"},
               ConstructFails(created, exception)
        PROVE  Parts'
    BY <1>0, <1>1, <1>3 DEF ConstructFails, NewSpool, NoSpool
  <1> QED
    BY <1>2, <1>3

LEMMA AppendSteps ==
    ASSUME IInv, NEW payload \in Payloads,
           \/ AppendCommits(payload)
           \/ \E reached \in {"nothing", "torn", "whole"} : AppendFails(payload, reached)
    PROVE  Parts'
  <1> DEFINE r == NextRecord(payload)
             w == WriteLine(spool, r)
  <1> USE DEF IInv, Parts, PublishedAreAccepted, SpoolHoldsAccepted, CopyInv, ObjectInv, Agree
  <1>0. TypeOK
    OBVIOUS
  <1>1. r \in Record /\ r.whole
    BY <1>0, NextRecordIsRecord
  <1>2. /\ w \in [present : BOOLEAN, lines : Seq(Record), torn : BOOLEAN]
        /\ w.present /\ ~w.torn
        /\ Len(w.lines) = Len(spool.lines) + 1
        /\ \A i \in 1..Len(spool.lines) : w.lines[i] = spool.lines[i]
        /\ ~spool.torn => w.lines[Len(spool.lines) + 1] = r
    BY <1>0, <1>1, WriteLineProperties DEF TypeOK
  <1>3. /\ Len(Append(accepted, r)) = Len(accepted) + 1
        /\ \A i \in 1..Len(accepted) : Append(accepted, r)[i] = accepted[i]
        /\ Append(accepted, r)[Len(accepted) + 1] = r
    BY <1>0, <1>1, AppendProperties DEF TypeOK
  <1>4. /\ Len(accepted) \in Nat /\ Len(spool.lines) \in Nat
        /\ Len(predictions.frames) \in Nat
    BY <1>0, Lengths
  <1>5. /\ pc = "idle" /\ state = "active" /\ UNCHANGED <<tmp, predictions, pc, call>>
        /\ predictions.status # "complete"
        /\ committed = Len(accepted) /\ Len(spool.lines) = committed /\ ~spool.torn
    BY DEF AppendCommits, AppendFails
  <1>6. predictions # NoReport \/ tmp # NoReport \/ spool.present
    BY <1>5 DEF DirectoryEmpty
  <1>7. CASE AppendCommits(payload)
    <2>1. spool' = w /\ committed' = committed + 1 /\ accepted' = Append(accepted, r) /\ state' = state
      BY <1>7 DEF AppendCommits
    <2> HIDE DEF r, w
    <2>2. PublishedAreAccepted'
      BY <1>3, <1>4, <1>5, <2>1
    <2>3. SpoolHoldsAccepted'
      BY <1>2, <1>3, <1>4, <1>5, <2>1
    <2>4. CopyInv' /\ ObjectInv'
      BY <1>2, <1>3, <1>4, <1>5, <2>1 DEF DirectoryEmpty, PublishSteps
    <2> QED
      BY <2>2, <2>3, <2>4
  <1>8. ASSUME NEW reached \in {"nothing", "torn", "whole"}, AppendFails(payload, reached)
        PROVE  Parts'
    <2>1. /\ spool' = spool \/ spool' = [spool EXCEPT !.torn = TRUE] \/ spool' = w
          /\ UNCHANGED <<committed, accepted>> /\ state' = "append_failed"
      BY <1>8 DEF AppendFails
    <2>2. spool.lines \in Seq(Record)
      BY <1>0 DEF TypeOK
    <2>3. /\ spool'.present = spool.present \/ spool'.present
          /\ Len(spool.lines) <= Len(spool'.lines)
          /\ \A i \in 1..Len(spool.lines) : spool'.lines[i] = spool.lines[i]
      <3> HIDE DEF w
      <3>1. CASE spool' = spool
        BY <1>4, <3>1
      <3>2. CASE spool' = [spool EXCEPT !.torn = TRUE]
        <4>1. spool'.lines = spool.lines /\ spool'.present = spool.present
          BY <1>0, <3>2 DEF TypeOK
        <4> QED
          BY <1>4, <4>1
      <3>3. CASE spool' = w
        BY <1>2, <1>4, <3>3
      <3> QED
        BY <2>1, <3>1, <3>2, <3>3
    <2> HIDE DEF r, w
    <2>4. PublishedAreAccepted'
      BY <1>5, <2>1
    <2>5. SpoolHoldsAccepted'
      BY <1>4, <1>5, <2>1, <2>3
    <2>6. CopyInv' /\ ObjectInv'
      BY <1>5, <1>6, <2>1, <2>3 DEF DirectoryEmpty, PublishSteps
    <2> QED
      BY <2>4, <2>5, <2>6
  <1> QED
    BY <1>7, <1>8

LEMMA DiskSteps ==
    ASSUME IInv,
           \/ OpenReport
           \/ CopyFrame
           \/ RenameReport
           \/ \E removed \in BOOLEAN : FinishPublish(removed)
    PROVE  Parts'
  <1> USE DEF IInv, Parts, PublishedAreAccepted, SpoolHoldsAccepted, CopyInv, ObjectInv, Agree
  <1>0. TypeOK /\ Len(accepted) \in Nat /\ Len(spool.lines) \in Nat /\ Len(tmp.frames) \in Nat
    BY Lengths
  <1>1. CASE OpenReport
    <2>1. /\ tmp'.frames = <<>> /\ Len(tmp'.frames) = 0
          /\ tmp'.status = IF call.complete THEN "complete" ELSE "incomplete"
          /\ tmp' # NoReport
      BY <1>1, EmptySeq DEF OpenReport, NoReport
    <2> QED
      BY <1>0, <1>1, <2>1 DEF OpenReport, disk, object, DirectoryEmpty, PublishSteps
  <1>2. CASE CopyFrame
    <2> DEFINE n == Len(tmp.frames)
               line == spool.lines[n + 1]
    <2>1. /\ tmp' = [tmp EXCEPT !.frames = Append(tmp.frames, line)]
          /\ n < committed /\ n < Len(spool.lines)
          /\ pc = "copy" /\ UNCHANGED <<spool, predictions, state, committed, pc, call, accepted>>
      BY <1>2 DEF CopyFrame, object
    <2>2. committed = Len(accepted) /\ predictions.status # "complete"
      BY <2>1 DEF PublishSteps
    <2>3. line = accepted[n + 1]
      BY <1>0, <2>1, <2>2
    <2>4. tmp.frames \in Seq(Record) /\ spool.lines \in Seq(Record) /\ tmp \in Report
      BY <1>0 DEF TypeOK, Report
    <2>5. line \in Record
      BY <1>0, <2>1, <2>4, ElementOfSeq
    <2> HIDE DEF line
    <2>6. /\ Len(Append(tmp.frames, line)) = n + 1
          /\ \A i \in 1..n : Append(tmp.frames, line)[i] = tmp.frames[i]
          /\ Append(tmp.frames, line)[n + 1] = line
      BY <2>4, <2>5, AppendProperties
    <2>7. tmp'.frames = Append(tmp.frames, line) /\ tmp'.status = tmp.status
      BY <2>1, <2>4 DEF Report
    <2>8. Len(tmp.frames) <= Len(accepted) /\ Agree(tmp.frames, accepted, n)
      BY <2>1
    <2>9. CopyInv'
      BY <1>0, <2>1, <2>2, <2>3, <2>6, <2>7, <2>8
    <2>10. tmp' # NoReport /\ ~DirectoryEmpty
      BY <2>1, <2>2, <2>7 DEF NoReport, PublishSteps
    <2> QED
      BY <2>1, <2>9, <2>10 DEF DirectoryEmpty
  <1>3. CASE RenameReport
    <2>1. /\ predictions' = tmp /\ pc = "rename" /\ pc' = "finish"
          /\ UNCHANGED <<spool, state, committed, call, accepted>>
      BY <1>3 DEF RenameReport, object
    <2>2. predictions' # NoReport
      BY <2>1 DEF NoReport
    <2>3. SpoolHoldsAccepted'
      BY <2>1 DEF PublishSteps
    <2>4. PublishedAreAccepted'
      BY <1>0, <2>1
    <2> QED
      BY <2>1, <2>2, <2>3, <2>4 DEF DirectoryEmpty, PublishSteps
  <1>4. ASSUME NEW removed \in BOOLEAN, FinishPublish(removed)
        PROVE  Parts'
    <2>1. /\ pc = "finish" /\ pc' = "idle"
          /\ UNCHANGED <<tmp, predictions, committed, call, accepted>>
          /\ call.complete => state' = "complete"
          /\ ~call.complete => UNCHANGED <<state, spool>>
      BY <1>4 DEF FinishPublish
    <2>2. PublishedAreAccepted' /\ CopyInv'
      BY <2>1
    <2>3. call.complete <=> predictions.status = "complete"
      BY <2>1
    <2>4. SpoolHoldsAccepted'
      BY <2>1, <2>3
    <2>5. DirectoryEmpty' => ~call.complete
      BY <2>1, <2>3 DEF DirectoryEmpty, NoReport
    <2>6. ~DirectoryEmpty
      BY <2>1
    <2> QED
      BY <2>1, <2>2, <2>3, <2>4, <2>5, <2>6 DEF PublishSteps, DirectoryEmpty
  <1> QED
    BY <1>1, <1>2, <1>3, <1>4

(* Every step of the writer preserves the inductive invariant. *)
LEMMA IInvStep == IInv /\ [Next]_vars /\ TypeOK' => IInv'
  <1> SUFFICES ASSUME IInv, [Next]_vars, TypeOK' PROVE Parts'
    BY DEF IInv, Parts
  <1> USE DEF disk, object
  <1>1. CASE Construct
    BY <1>1, ConstructSteps
  <1>2. CASE ConstructRefused \/ AppendRefused \/ AppendInvalid
    BY <1>2, QuietSteps DEF ConstructRefused, AppendRefused, AppendInvalid, Refuse
  <1>3. CASE \E created \in BOOLEAN, exception \in {"io_error", "invalid_argument"} :
                 ConstructFails(created, exception)
    BY <1>3, ConstructSteps
  <1>4. ASSUME NEW payload \in Payloads, AppendCommits(payload)
        PROVE  Parts'
    BY <1>4, AppendSteps
  <1>5. ASSUME NEW payload \in Payloads, NEW reached \in {"nothing", "torn", "whole"},
               AppendFails(payload, reached)
        PROVE  Parts'
    BY <1>5, AppendSteps
  <1>6. ASSUME NEW complete \in BOOLEAN, PublishRefused(complete) \/ PublishInvalid(complete)
        PROVE  Parts'
    BY <1>6, QuietSteps DEF PublishRefused, PublishInvalid, Refuse
  <1>7. ASSUME NEW complete \in BOOLEAN, NEW error \in Errors \cup {NoError},
               BeginPublish(complete, error)
        PROVE  Parts'
    <2>1. UNCHANGED <<disk, accepted, committed>>
      BY <1>7 DEF BeginPublish
    <2> QED
      BY <1>7, <2>1, QuietSteps
  <1>8. CASE OpenReport \/ CopyFrame \/ RenameReport
               \/ \E removed \in BOOLEAN : FinishPublish(removed)
    BY <1>8, DiskSteps
  <1>9. CASE CloseReport
    BY <1>9, QuietSteps DEF CloseReport
  <1>10. CASE PublishFails
    BY <1>10, QuietSteps DEF PublishFails
  <1>11. CASE Terminate
    BY <1>11, QuietSteps DEF Terminate
  <1>12. CASE UNCHANGED vars
    BY <1>12, QuietSteps DEF vars
  <1> QED
    BY <1>1, <1>2, <1>3, <1>4, <1>5, <1>6, <1>7, <1>8, <1>9, <1>10, <1>11, <1>12
       DEF Next, PublishStep

(* The inductive invariant holds in every reachable state. *)
THEOREM Invariance == Spec => []IInv
  <1>1. Init => Parts
    <2> SUFFICES ASSUME Init PROVE Parts
      OBVIOUS
    <2>1. Len(<<>>) = 0
      BY EmptySeq
    <2> QED
      BY <2>1 DEF Init, Parts, PublishedAreAccepted, SpoolHoldsAccepted, CopyInv, ObjectInv, Agree,
                  NoReport, NoSpool
  <1>2. Init /\ TypeOK => IInv
    BY <1>1 DEF IInv, Parts
  <1> QED
    BY <1>2, IInvStep, TypeCorrect, PTL DEF Spec

(* Published frames are accepted frames; the spool keeps what is not final.  *)
THEOREM PublishedFramesAreAccepted == Spec => []PublishedAreAccepted
  <1>1. IInv => PublishedAreAccepted
    BY DEF IInv
  <1> QED
    BY <1>1, Invariance, PTL

(* No failure loses an accepted frame before a complete report is out. *)
THEOREM AcceptedFramesAreRecoverable == Spec => []SpoolHoldsAccepted
  <1>1. IInv => SpoolHoldsAccepted
    BY DEF IInv
  <1> QED
    BY <1>1, Invariance, PTL

(* A complete report is never changed or removed. *)
THEOREM CompleteReportIsFinal == Spec => CompleteIsFinal
  <1>1. IInv /\ [Next]_vars =>
            [predictions.status = "complete" => UNCHANGED <<predictions, accepted>>]_vars
    <2> SUFFICES ASSUME IInv, Next, predictions.status = "complete"
                 PROVE  UNCHANGED <<predictions, accepted>>
      OBVIOUS
    <2> USE DEF disk, object, IInv, ObjectInv, PublishSteps
    <2>1. ASSUME NEW payload \in Payloads, AppendCommits(payload)
          PROVE  FALSE
      BY <2>1 DEF AppendCommits
    <2>2. CASE RenameReport
      BY <2>2 DEF RenameReport
    <2> QED
      BY <2>1, <2>2
         DEF Next, PublishStep, Construct, ConstructRefused, ConstructFails, Refuse, AppendRefused,
             AppendInvalid, AppendFails, PublishRefused, PublishInvalid, BeginPublish, OpenReport,
             CopyFrame, CloseReport, FinishPublish, PublishFails, Terminate
  <1> QED
    BY <1>1, Invariance, PTL DEF Spec, CompleteIsFinal

-----------------------------------------------------------------------------
(* A rename replaces the visible report by all accepted frames; a committed  *)
(* append accepts the next one; every other step leaves both alone.          *)
THEOREM WriterImplementsPublication == Spec => ImplementsPublication
  <1>1. Init => Publication!Init
    BY DEF Init, Publication!Init, NoReport, Publication!NoReport
  <1>2. IInv /\ [Next]_vars => [Publication!Next]_Publication!vars
    <2> SUFFICES ASSUME IInv, Next
                 PROVE  [Publication!Next]_Publication!vars
      BY DEF vars, disk, Publication!vars
    <2> USE DEF disk, object, Publication!vars
    <2>0. TypeOK
      BY DEF IInv
    <2>1. ASSUME NEW payload \in Payloads, AppendCommits(payload)
          PROVE  Publication!Next
      <3>1. /\ predictions.status # "complete"
            /\ committed = Len(accepted)
            /\ accepted' = Append(accepted, NextRecord(payload))
            /\ predictions' = predictions
        BY <2>1 DEF IInv, ObjectInv, AppendCommits
      <3>2. Publication!Accept(payload)
        BY <3>1 DEF Publication!Accept, NextRecord
      <3> QED
        BY <3>2 DEF Publication!Next
    <2>2. CASE RenameReport
      <3>1. /\ predictions' = tmp /\ accepted' = accepted
            /\ predictions.status # "complete"
            /\ Len(tmp.frames) = Len(accepted)
            /\ \A i \in 1..Len(tmp.frames) : tmp.frames[i] = accepted[i]
            /\ tmp.status \in {"incomplete", "complete"}
        BY <2>2 DEF IInv, ObjectInv, CopyInv, Agree, RenameReport, PublishSteps
      <3>2. tmp.frames \in Seq(Record) /\ accepted \in Seq(Record) /\ tmp \in Report
        BY <2>0 DEF TypeOK, Report
      <3>3. tmp.frames = accepted
        BY <3>1, <3>2, SeqEqual
      <3>4. tmp = [status |-> tmp.status, error |-> tmp.error, frames |-> accepted]
        BY <3>2, <3>3 DEF Report
      <3>5. tmp.error \in Errors \cup {NoError}
        BY <3>2 DEF Report
      <3>6. Publication!Replace(tmp.status, tmp.error)
        BY <3>1, <3>4 DEF Publication!Replace
      <3> QED
        BY <3>1, <3>5, <3>6 DEF Publication!Next, Publication!Statuses
    <2> QED
      BY <2>1, <2>2
         DEF Next, PublishStep, Construct, ConstructRefused, ConstructFails, Refuse, AppendRefused,
             AppendInvalid, AppendFails, PublishRefused, PublishInvalid, BeginPublish, OpenReport,
             CopyFrame, CloseReport, FinishPublish, PublishFails, Terminate
  <1> QED
    BY <1>1, <1>2, Invariance, PTL DEF Spec, Publication!Spec, ImplementsPublication

=============================================================================
