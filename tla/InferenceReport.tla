--------------------------- MODULE InferenceReport ---------------------------
(***************************************************************************)
(* The report writer CReport of utils/inference_output: a disk spool of    *)
(* one line per frame (frames.jsonl), a temporary file                     *)
(* (predictions.json.tmp) and the report that readers open                 *)
(* (predictions.json), replaced by rename.                                 *)
(*                                                                         *)
(* Any caller: the calls of the class arrive in any order and with any     *)
(* arguments, every system call may fail, and the process may end between  *)
(* any two steps.  A record is abstracted to its frame index and a payload;*)
(* "whole" is FALSE for a line that joins the tail of an earlier, torn one.*)
(***************************************************************************)
EXTENDS Naturals, Sequences

CONSTANTS Payloads,  \* what distinguishes two records of the same frame index
          Errors,    \* structured errors a caller may pass to Publish
          NoError,   \* the null error of a call without one
          MaxFrames  \* bound of the model: frames appended to one report

ASSUME MaxFramesAssumption == MaxFrames \in Nat

VARIABLES
    spool,       \* frames.jsonl
    tmp,         \* predictions.json.tmp
    predictions, \* predictions.json
    state,       \* CReport::state_
    committed,   \* CReport::committed_frames_
    pc,          \* where the object is: "absent", "idle" or a step of Publish
    call,        \* arguments of the Publish in progress
    outcome,     \* how the last call of the class ended
    accepted     \* history: the records whose Append returned normally

disk   == <<spool, tmp, predictions>>
object == <<state, committed>>
vars   == <<disk, object, pc, call, outcome, accepted>>

Record == [index : Nat, payload : Payloads, whole : BOOLEAN]

Report ==
    [status : {"absent", "incomplete", "complete"}, error : Errors \cup {NoError}, frames : Seq(Record)]

NoReport == [status |-> "absent", error |-> NoError, frames |-> <<>>]
NoSpool  == [present |-> FALSE, lines |-> <<>>, torn |-> FALSE]
NewSpool == [present |-> TRUE, lines |-> <<>>, torn |-> FALSE]

(* A terminated line reaches the spool; after a torn tail it joins that tail. *)
WriteLine(s, r) ==
    [present |-> TRUE, lines |-> Append(s.lines, [r EXCEPT !.whole = ~s.torn]), torn |-> FALSE]

NextRecord(payload) == [index |-> committed, payload |-> payload, whole |-> TRUE]

PublishSteps == {"open", "copy", "rename", "finish"}

DirectoryEmpty == ~spool.present /\ tmp = NoReport /\ predictions = NoReport

-----------------------------------------------------------------------------
Init ==
    /\ spool = NoSpool
    /\ tmp = NoReport
    /\ predictions = NoReport
    /\ state = "active"
    /\ committed = 0
    /\ pc = "absent"
    /\ call = [complete |-> FALSE, error |-> NoError, constructing |-> FALSE]
    /\ outcome = "ok"
    /\ accepted = <<>>

(* A call that throws before it touches the disk or the object. *)
Refuse(exception) ==
    /\ outcome' = exception
    /\ UNCHANGED <<disk, object, pc, call, accepted>>

-----------------------------------------------------------------------------
(* The constructor: an empty directory, a new spool, and a first Publish(false). *)
Construct ==
    /\ pc = "absent"
    /\ DirectoryEmpty
    /\ spool' = NewSpool
    /\ state' = "active"
    /\ committed' = 0
    /\ pc' = "open"
    /\ call' = [complete |-> FALSE, error |-> NoError, constructing |-> TRUE]
    /\ UNCHANGED <<tmp, predictions, outcome, accepted>>

ConstructRefused ==
    /\ pc = "absent"
    /\ ~DirectoryEmpty
    /\ Refuse("invalid_argument")

(* The spool cannot be created or closed, or the metadata cannot be published: *)
(* no object, and possibly an empty spool left in the directory.               *)
ConstructFails(created, exception) ==
    /\ pc = "absent"
    /\ DirectoryEmpty
    /\ exception = "invalid_argument" => created
    /\ spool' = IF created THEN NewSpool ELSE spool
    /\ outcome' = exception
    /\ UNCHANGED <<tmp, predictions, object, pc, call, accepted>>

-----------------------------------------------------------------------------
AppendRefused ==
    /\ pc = "idle"
    /\ state # "active"
    /\ Refuse("logic_error")

(* A frame whose index is not the next one, or whose record cannot be serialized. *)
AppendInvalid ==
    /\ pc = "idle"
    /\ state = "active"
    /\ Refuse("invalid_argument")

AppendCommits(payload) ==
    /\ pc = "idle"
    /\ state = "active"
    /\ committed < MaxFrames
    /\ spool' = WriteLine(spool, NextRecord(payload))
    /\ committed' = committed + 1
    /\ accepted' = Append(accepted, NextRecord(payload))
    /\ outcome' = "ok"
    /\ UNCHANGED <<tmp, predictions, state, pc, call>>

(* Mutant: the frame is counted before its line is written. *)
AppendFailsCounted(payload, reached) ==
    /\ pc = "idle"
    /\ state = "active"
    /\ committed < MaxFrames
    /\ spool' = IF reached = "whole" THEN WriteLine(spool, NextRecord(payload)) ELSE spool
    /\ state' = "append_failed"
    /\ committed' = committed + 1
    /\ outcome' = "io_error"
    /\ UNCHANGED <<tmp, predictions, pc, call, accepted>>

(* Mutant: a failed append does not close the report to further frames. *)
AppendFailsRetryable(payload, reached) ==
    /\ pc = "idle"
    /\ state = "active"
    /\ committed < MaxFrames
    /\ spool' = IF reached = "torn" THEN [spool EXCEPT !.torn = TRUE] ELSE spool
    /\ outcome' = "io_error"
    /\ UNCHANGED <<tmp, predictions, object, pc, call, accepted>>

(* Opening, writing or closing fails: nothing, a torn tail or the whole line *)
(* may have reached the disk, and the report takes no further frame.         *)
AppendFails(payload, reached) ==
    /\ pc = "idle"
    /\ state = "active"
    /\ committed < MaxFrames
    /\ spool' = CASE reached = "nothing" -> spool
                  [] reached = "torn"    -> [spool EXCEPT !.torn = TRUE]
                  [] reached = "whole"   -> WriteLine(spool, NextRecord(payload))
    /\ state' = "append_failed"
    /\ outcome' = "io_error"
    /\ UNCHANGED <<tmp, predictions, committed, pc, call, accepted>>

-----------------------------------------------------------------------------
(* Mutant: a complete report may be published again. *)
PublishForbiddenAfterFailure(complete) == complete /\ state = "append_failed"

PublishForbidden(complete) ==
    \/ state = "complete"
    \/ complete /\ state = "append_failed"

PublishRefused(complete) ==
    /\ pc = "idle"
    /\ PublishForbidden(complete)
    /\ Refuse("logic_error")

(* A reserved run field, or metadata or an error that cannot be serialized. *)
PublishInvalid(complete) ==
    /\ pc = "idle"
    /\ ~PublishForbidden(complete)
    /\ Refuse("invalid_argument")

BeginPublish(complete, error) ==
    /\ pc = "idle"
    /\ ~PublishForbidden(complete)
    /\ pc' = "open"
    /\ call' = [complete |-> complete, error |-> error, constructing |-> FALSE]
    /\ UNCHANGED <<disk, object, outcome, accepted>>

(* Open the spool for reading and truncate the temporary file. *)
OpenReport ==
    /\ pc = "open"
    /\ spool.present
    /\ tmp' = [status |-> IF call.complete THEN "complete" ELSE "incomplete",
               error  |-> call.error,
               frames |-> <<>>]
    /\ pc' = "copy"
    /\ UNCHANGED <<spool, predictions, object, call, outcome, accepted>>

(* Copy the next committed line of the spool. *)
CopyFrame ==
    /\ pc = "copy"
    /\ Len(tmp.frames) < committed
    /\ Len(tmp.frames) < Len(spool.lines)
    /\ tmp' = [tmp EXCEPT !.frames = Append(@, spool.lines[Len(@) + 1])]
    /\ UNCHANGED <<spool, predictions, object, pc, call, outcome, accepted>>

CloseReport ==
    /\ pc = "copy"
    /\ Len(tmp.frames) = committed
    /\ pc' = "rename"
    /\ UNCHANGED <<disk, object, call, outcome, accepted>>

RenameReport ==
    /\ pc = "rename"
    /\ predictions' = tmp
    /\ tmp' = NoReport
    /\ pc' = "finish"
    /\ UNCHANGED <<spool, object, call, outcome, accepted>>

(* Mutant: the spool is removed after every publication. *)
FinishPublishRemoving(removed) ==
    /\ pc = "finish"
    /\ state' = IF call.complete THEN "complete" ELSE state
    /\ spool' = IF removed THEN NoSpool ELSE spool
    /\ pc' = "idle"
    /\ outcome' = "ok"
    /\ UNCHANGED <<tmp, predictions, committed, call, accepted>>

(* A complete report takes no further call; its spool is removed if it can be. *)
FinishPublish(removed) ==
    /\ pc = "finish"
    /\ IF call.complete
       THEN /\ state' = "complete"
            /\ spool' = IF removed THEN NoSpool ELSE spool
       ELSE UNCHANGED <<state, spool>>
    /\ pc' = "idle"
    /\ outcome' = "ok"
    /\ UNCHANGED <<tmp, predictions, committed, call, accepted>>

(* A step before the end of the rename fails: the exception leaves Publish,  *)
(* and the constructor too when the call is its own.                         *)
PublishFails ==
    /\ pc \in {"open", "copy", "rename"}
    /\ pc' = IF call.constructing THEN "absent" ELSE "idle"
    /\ outcome' = "io_error"
    /\ UNCHANGED <<disk, object, call, accepted>>

-----------------------------------------------------------------------------
(* The owner's process ends, in order or killed; the files stay. *)
Terminate ==
    /\ pc # "absent"
    /\ pc' = "absent"
    /\ UNCHANGED <<disk, object, call, outcome, accepted>>

PublishStep ==
    \/ OpenReport
    \/ CopyFrame
    \/ CloseReport
    \/ RenameReport
    \/ \E removed \in BOOLEAN : FinishPublish(removed)
    \/ PublishFails

Next ==
    \/ Construct
    \/ ConstructRefused
    \/ \E created \in BOOLEAN, exception \in {"io_error", "invalid_argument"} :
           ConstructFails(created, exception)
    \/ AppendRefused
    \/ AppendInvalid
    \/ \E payload \in Payloads : AppendCommits(payload)
    \/ \E payload \in Payloads, reached \in {"nothing", "torn", "whole"} :
           AppendFails(payload, reached)
    \/ \E complete \in BOOLEAN : PublishRefused(complete) \/ PublishInvalid(complete)
    \/ \E complete \in BOOLEAN, error \in Errors \cup {NoError} : BeginPublish(complete, error)
    \/ PublishStep
    \/ Terminate

Spec == Init /\ [][Next]_vars

-----------------------------------------------------------------------------
(* Type correctness of the files, the object and the call in progress. *)
TypeOK ==
    /\ spool \in [present : BOOLEAN, lines : Seq(Record), torn : BOOLEAN]
    /\ tmp \in Report
    /\ predictions \in Report
    /\ state \in {"active", "append_failed", "complete"}
    /\ committed \in 0..MaxFrames
    /\ pc \in {"absent", "idle"} \cup PublishSteps
    /\ call \in [complete : BOOLEAN, error : Errors \cup {NoError}, constructing : BOOLEAN]
    /\ outcome \in {"ok", "logic_error", "invalid_argument", "io_error"}
    /\ accepted \in Seq(Record)

Agree(s, t, n) == \A i \in 1..n : s[i] = t[i]

(* Append and Publish of CReport: whatever fails and whenever the process    *)
(* ends, the frames of predictions.json are the first accepted frames, in    *)
(* order and whole, and a report that says "complete" has all of them.  A    *)
(* line that was never committed is not published, even when it reached the  *)
(* spool before its Append failed.                                           *)
PublishedAreAccepted ==
    /\ Len(predictions.frames) <= Len(accepted)
    /\ Agree(predictions.frames, accepted, Len(predictions.frames))
    /\ predictions.status = "complete" => Len(predictions.frames) = Len(accepted)

(* Publish and Append of CReport ("a failed publication retains the prior    *)
(* report and spool"): as long as no complete report was published, the      *)
(* spool holds every accepted frame, so that a later publication, or a       *)
(* person, can still recover them after any failure.                         *)
SpoolHoldsAccepted ==
    predictions.status # "complete" =>
        /\ Len(accepted) <= Len(spool.lines)
        /\ Agree(accepted, spool.lines, Len(accepted))

(* Publish of CReport: a complete report is final.  No later call, process   *)
(* end or new run in the same directory changes or removes it.               *)
CompleteIsFinal ==
    [][predictions.status = "complete" => UNCHANGED <<predictions, accepted>>]_vars

Publication == INSTANCE ReportPublication WITH report <- predictions

(* CReport as a whole implements the abstract publication of a growing log. *)
ImplementsPublication == Publication!Spec

-----------------------------------------------------------------------------
(* The inductive invariant behind the properties above. *)

(* The temporary file holds the committed lines copied so far. *)
CopyInv ==
    pc \in {"copy", "rename"} =>
        /\ Len(tmp.frames) <= Len(accepted)
        /\ Agree(tmp.frames, accepted, Len(tmp.frames))
        /\ pc = "rename" => Len(tmp.frames) = Len(accepted)
        /\ tmp.status = IF call.complete THEN "complete" ELSE "incomplete"

(* A live object knows how many frames it accepted, and which report is out. *)
ObjectInv ==
    /\ pc # "absent" =>
          /\ committed = Len(accepted)
          /\ state = "active" => ~spool.torn /\ Len(spool.lines) = committed
          /\ pc \in PublishSteps => state # "complete"
          /\ pc = "finish" => (call.complete <=> predictions.status = "complete")
          /\ pc # "finish" => (state = "complete" <=> predictions.status = "complete")
    /\ DirectoryEmpty => pc = "absent" /\ accepted = <<>>

IInv ==
    /\ TypeOK
    /\ PublishedAreAccepted
    /\ SpoolHoldsAccepted
    /\ CopyInv
    /\ ObjectInv

=============================================================================
