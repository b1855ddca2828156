-------------------------- MODULE EvaluateInference --------------------------
(***************************************************************************)
(* The program evaluate_inference (src/programs/evaluate_inference.cpp) and   *)
(* the reader of reports it rests on (report_reader.cpp): check that the       *)
(* summary does not exist, read and summarise every report, then create the    *)
(* summary. Several processes may do so at once. The statistics and the point   *)
(* errors of a report are those of PointMetrics.                             *)
(***************************************************************************)
EXTENDS PointMetrics

CONSTANTS Evaluators,   \* processes of this program
          Paths,        \* report files
          Summaries,    \* summary files
          Absent        \* no file, no value

VARIABLES
  files,          \* report files: contents, or Absent
  summaries,      \* summary files: contents, or Absent
  at,             \* where each process is
  arguments,      \* reports, --discard, --references and --output of each process
  run_summaries,  \* entries collected by each process
  complete,       \* the flag of the same name
  exit            \* exit status of each process, Absent while it runs

evaluation == <<files, summaries, at, arguments, run_summaries, complete, exit>>

-----------------------------------------------------------------------------
(* ReadInferenceReport *)

\* A report is read as a whole: version, status and frames in this order of
\* indices, each with a source and a finite duration that is not negative.
\* Other fields are kept as they are; x is the point under --point-field.

ConsecutiveFromZero(frames) == \A k \in DOMAIN frames : frames[k].index = k - 1

Readable(file) ==
  /\ file # Absent
  /\ file.schema_version = 1
  /\ file.status \in {"complete", "incomplete"}
  /\ ConsecutiveFromZero(file.frames)
  /\ \A k \in DOMAIN file.frames :
       file.frames[k].source # "" /\ file.frames[k].inference_ms >= 0

-----------------------------------------------------------------------------
(* main *)

\* The frames left after the discarded ones are the latency samples.
LatencySamples(report, discard) ==
  LET left == SubSeq(report.frames, discard + 1, Len(report.frames))
  IN  [k \in DOMAIN left |-> left[k].inference_ms]

\* Points are compared over all frames, the discarded ones included.
Predictions(report) ==
  [k \in DOMAIN report.frames |->
     [source |-> report.frames[k].source, x |-> report.frames[k].x]]

PredictionsAreUsable(report, references) ==
  references # Absent =>
    /\ \A k \in DOMAIN report.frames : report.frames[k].x # Absent
    /\ PointsAreUsable(Predictions(report))

\* The entry of one report.
RunSummary(path, report, discard, references) ==
  LET count   == Len(report.frames)
      samples == LatencySamples(report, discard)
  IN  [report       |-> path,
       status       |-> report.status,
       frame_count  |-> count,
       excluded     |-> SmallerOf(discard, count),
       first_frame  |-> IF count = 0 THEN Absent ELSE report.frames[1].inference_ms,
       latency      |-> IF samples = <<>> THEN Absent ELSE ComputeSampleStatistics(samples),
       eligible     |-> report.status = "complete" /\ samples # <<>>,
       point_errors |-> IF references = Absent THEN Absent
                        ELSE ComputeMatchedPointErrors(Predictions(report), references)]

End(p, status) ==
  /\ at' = [at EXCEPT ![p] = "ended"]
  /\ exit' = [exit EXCEPT ![p] = status]

Fresh(p) == summaries[arguments[p].output] = Absent

\* The references are checked even when no report has a prediction.
ReferencesAreValid(p) ==
  arguments[p].references # Absent => PointsAreUsable(arguments[p].references)

CheckDestination(p) ==
  /\ at[p] = "start"
  /\ Fresh(p)
  /\ ReferencesAreValid(p)
  /\ at' = [at EXCEPT ![p] = "read"]
  /\ run_summaries' = [run_summaries EXCEPT ![p] = <<>>]
  /\ complete' = [complete EXCEPT ![p] = TRUE]
  /\ UNCHANGED <<files, summaries, arguments, exit>>

RefuseArguments(p) ==
  /\ at[p] = "start"
  /\ ~Fresh(p) \/ ~ReferencesAreValid(p)
  /\ End(p, "1")
  /\ UNCHANGED <<files, summaries, arguments, run_summaries, complete>>

NextPath(p) == arguments[p].reports[Len(run_summaries[p]) + 1]
AllRead(p) == Len(run_summaries[p]) = Len(arguments[p].reports)

\* A bug the properties must notice: only the last report counts.
StillCompleteByLast(p, report) == report.status = "complete"

StillComplete(p, report) == complete[p] /\ report.status = "complete"

ReportIsUsable(p) ==
  /\ Readable(files[NextPath(p)])
  /\ PredictionsAreUsable(files[NextPath(p)], arguments[p].references)

ReadReport(p) ==
  /\ at[p] = "read"
  /\ ~AllRead(p)
  /\ ReportIsUsable(p)
  /\ LET report == files[NextPath(p)]
     IN  /\ complete' = [complete EXCEPT ![p] = StillComplete(p, report)]
         /\ run_summaries' = [run_summaries EXCEPT
              ![p] = Append(@, RunSummary(NextPath(p), report, arguments[p].discard,
                                          arguments[p].references))]
  /\ UNCHANGED <<files, summaries, at, arguments, exit>>

RejectReport(p) ==
  /\ at[p] = "read"
  /\ ~AllRead(p)
  /\ ~ReportIsUsable(p)
  /\ End(p, "1")
  /\ UNCHANGED <<files, summaries, arguments, run_summaries, complete>>

\* The destination was looked at before the reports; it is opened only now, and
\* opening empties what has come to be there since.
OpenSummary(p) ==
  /\ at[p] = "read"
  /\ AllRead(p)
  /\ summaries' = [summaries EXCEPT ![arguments[p].output] =
       [writer |-> p, whole |-> FALSE, complete |-> complete[p], reports |-> run_summaries[p]]]
  /\ at' = [at EXCEPT ![p] = "write"]
  /\ UNCHANGED <<files, arguments, run_summaries, complete, exit>>

\* If another process has opened the file since, the two texts end up mixed.
WriteSummary(p) ==
  /\ at[p] = "write"
  /\ LET output == arguments[p].output
         old    == summaries[output]
     IN  summaries' = [summaries EXCEPT ![output] =
           [writer |-> IF old.writer = p THEN p ELSE Absent, whole |-> (old.writer = p),
            complete |-> old.complete, reports |-> old.reports]]
  /\ End(p, IF complete[p] THEN "0" ELSE "2")
  /\ UNCHANGED <<files, arguments, run_summaries, complete>>

\* Reading, creating or writing can fail at every point; what has been
\* written stays.
EvaluationFails(p) ==
  /\ at[p] \in {"start", "read", "write"}
  /\ End(p, "1")
  /\ UNCHANGED <<files, summaries, arguments, run_summaries, complete>>

EvaluationKilled(p) ==
  /\ at[p] \in {"start", "read", "write"}
  /\ End(p, "killed")
  /\ UNCHANGED <<files, summaries, arguments, run_summaries, complete>>

Evaluate(p) ==
  \/ CheckDestination(p) \/ RefuseArguments(p)
  \/ ReadReport(p) \/ RejectReport(p)
  \/ OpenSummary(p) \/ WriteSummary(p)
  \/ EvaluationFails(p) \/ EvaluationKilled(p)

-----------------------------------------------------------------------------

\* What a summary may say of a report, stated of the report itself: no frame is
\* both discarded and a sample; the quantiles split the samples and lie between
\* their extremes; every prediction and every reference is matched or listed
\* as unmatched, and none is both.
EntryIsTruthful(entry, report, discard, references) ==
  LET samples == [k \in 1 .. Len(report.frames) - entry.excluded |->
                    report.frames[entry.excluded + k].inference_ms]
      n == Len(samples)
      Below(d, value) == Cardinality({k \in 1 .. n : d * samples[k] <= value})
      Above(d, value) == Cardinality({k \in 1 .. n : d * samples[k] >= value})
  IN  /\ entry.excluded = discard \/ (entry.excluded < discard /\ n = 0)
      /\ entry.eligible <=> report.status = "complete" /\ n > 0
      /\ entry.latency = Absent <=> n = 0
      /\ entry.latency # Absent =>
           LET s == entry.latency
           IN  /\ s.count = n
               /\ s.minimum * n <= s.total /\ s.total <= s.maximum * n
               /\ 2 * Below(2, s.median_2) >= n /\ 2 * Above(2, s.median_2) >= n
               /\ 20 * Below(20, s.p95_20) > 19 * (n - 1)
               /\ 20 * s.minimum <= 10 * s.median_2
               /\ 10 * s.median_2 <= s.p95_20
               /\ s.p95_20 <= 20 * s.maximum
               /\ Below(1, s.maximum) = n /\ Above(1, s.minimum) = n
      /\ entry.point_errors # Absent =>
           LET e == entry.point_errors
           IN  /\ e.matched + Cardinality(e.unmatched_predictions) = Len(report.frames)
               /\ e.matched + Cardinality(e.unmatched_references) = Len(references)
               /\ e.unmatched_predictions \cap e.unmatched_references = {}

\* A summary that is whole says the truth of every report, in the order of the
\* command line, and is complete exactly when all of them are. A status other
\* than 1 belongs to a whole summary unless another process has opened the file
\* too.
SummaryIsTruthful ==
  /\ \A output \in Summaries :
       summaries[output] # Absent /\ summaries[output].whole =>
         LET summary == summaries[output]
             given   == arguments[summary.writer]
         IN  /\ [k \in DOMAIN summary.reports |-> summary.reports[k].report] = given.reports
             /\ summary.complete
                  <=> \A k \in DOMAIN summary.reports : summary.reports[k].status = "complete"
             /\ \A k \in DOMAIN summary.reports :
                  files[given.reports[k]] # Absent =>
                    EntryIsTruthful(summary.reports[k], files[given.reports[k]],
                                    given.discard, given.references)
  /\ \A p \in Evaluators :
       LET summary == summaries[arguments[p].output]
       IN  exit[p] \in {"0", "2"} =>
             /\ summary # Absent
             /\ summary.writer = p => summary.whole /\ (summary.complete <=> exit[p] = "0")
=============================================================================
