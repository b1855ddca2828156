-------------------------- MODULE MCImageEvaluation --------------------------
(* Two scripts started on one results directory, or two evaluations started  *)
(* by hand on one summary and the same two reports.                        *)
EXTENDS ImageEvaluation

CONSTANTS s1, s2, e1, e2

MCScripts == {s1, s2}
MCEvaluators == {s1, s2, e1, e2}
MCPaths == (MCScripts \X (1 .. 3)) \cup ({User} \X (1 .. 2))
MCSummaries == {"results", "summary"}

Frame(k, source, ms) == [index |-> k, source |-> source, inference_ms |-> ms, x |-> 3 * k]

\* One report for every way to be accepted and for every reason to be refused.
MCUserReports ==
  {[schema_version |-> 1, status |-> t, frames |-> f] :
     t \in {"complete", "incomplete"},
     f \in {<<>>, <<Frame(0, "b", 1)>>,
            <<Frame(0, "a", 5), Frame(1, "c", 2), Frame(2, "b", 7), Frame(3, "d", 2)>>}}
  \cup
  {[schema_version |-> 1, status |-> "complete", frames |-> f] :
     f \in {<<Frame(1, "a", 1)>>, <<Frame(0, "a", 1), Frame(1, "a", 4)>>,
            <<Frame(0, "", 1)>>, <<Frame(0, "a", 1), Frame(1, "b", -1)>>,
            <<[Frame(0, "a", 1) EXCEPT !.x = Absent]>>}}
  \cup {[schema_version |-> 2, status |-> "complete", frames |-> <<>>],
        [schema_version |-> 1, status |-> "other", frames |-> <<>>]}

Reference(source, x) == [source |-> source, x |-> x]

MCUserReferences ==
  {Absent, <<>>, <<Reference("a", 1), Reference("b", 2), Reference("e", 0)>>,
   <<Reference("a", 1), Reference("a", 2)>>}
=============================================================================
