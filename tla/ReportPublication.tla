-------------------------- MODULE ReportPublication --------------------------
(***************************************************************************)
(* What a sequence report promises its readers, without files: frames are  *)
(* accepted one by one, and from time to time the visible report is        *)
(* replaced, as a whole, by one that lists exactly the frames accepted so  *)
(* far.  A report published as complete is the last one.                   *)
(*                                                                         *)
(* InferenceReport implements this with a spool, a temporary file and a    *)
(* rename.                                                                 *)
(***************************************************************************)
EXTENDS Naturals, Sequences

CONSTANTS Payloads, \* what distinguishes two records of the same frame index
          Errors,   \* structured errors a publication may carry
          NoError   \* a publication without one

VARIABLES accepted, \* the frames whose Append returned normally, in order
          report    \* what a reader of predictions.json sees

vars == <<accepted, report>>

Statuses == {"incomplete", "complete"}

NoReport == [status |-> "absent", error |-> NoError, frames |-> <<>>]

Init ==
    /\ accepted = <<>>
    /\ report = NoReport

(* The next consecutive frame is accepted. *)
Accept(payload) ==
    /\ report.status # "complete"
    /\ accepted' = Append(accepted, [index |-> Len(accepted), payload |-> payload, whole |-> TRUE])
    /\ UNCHANGED report

(* The visible report is replaced, in one step, by all accepted frames. *)
Replace(status, error) ==
    /\ report.status # "complete"
    /\ report' = [status |-> status, error |-> error, frames |-> accepted]
    /\ UNCHANGED accepted

Next ==
    \/ \E payload \in Payloads : Accept(payload)
    \/ \E status \in Statuses, error \in Errors \cup {NoError} : Replace(status, error)

Spec == Init /\ [][Next]_vars

=============================================================================
