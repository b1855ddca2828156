------------------------ MODULE ImageEvaluationProofs ------------------------
(***************************************************************************)
(* Timing reports outlive their summary: whatever fails, is killed or is     *)
(* started a second time, a script that has removed its reports has left a    *)
(* whole, complete summary of them.                                        *)
(*                                                                         *)
(* The invariant EInv ties what a process has collected to the files it read  *)
(* (CollectedIsTrue), a summary to the process that wrote it                  *)
(* (SummariesAreOwned), the exit status to the summary (ExitTells), and a     *)
(* script to the results directory it made (ScriptStands). Two processes may   *)
(* open one summary; what keeps the summary of a script is that only the       *)
(* script that made the directory ever starts an evaluation in it.          *)
(***************************************************************************)
EXTENDS ImageEvaluation, FiniteSetTheorems, SequenceTheorems, WellFoundedInduction, TLAPS

-----------------------------------------------------------------------------
(* Types *)

Lines == {"mkdir", "mktemp", "pass-1", "pass-2", "pass-3", "annotate", "evaluate", "wait", "trap",
          "ended"}
Unevaluated == {"mkdir", "mktemp", "pass-1", "pass-2", "pass-3", "annotate", "evaluate"}
Statuses == {Absent, "0", "1", "2", "killed"}
SummaryFiles ==
  [writer : Evaluators \cup {Absent}, whole : BOOLEAN, complete : BOOLEAN, reports : Seq(Entries)]

EvaluatorTypes ==
  /\ at \in [Evaluators -> {"start", "read", "write", "ended"}]
  /\ run_summaries \in [Evaluators -> Seq(Entries)]
  /\ complete \in [Evaluators -> BOOLEAN]
  /\ exit \in [Evaluators -> Statuses]
  /\ summaries \in [Summaries -> SummaryFiles \cup {Absent}]

ScriptTypes ==
  /\ script_at \in [Scripts -> Lines]
  /\ results \in Scripts \cup {Absent}
  /\ temporary \in [Scripts -> {Absent, "kept", "removed"}]
  /\ run_completed \in [Scripts -> BOOLEAN]
  /\ script_exit \in [Scripts -> Statuses]

FileTypes ==
  /\ files \in [Paths -> RunReports \cup UserReports \cup {Absent}]
  /\ \A s \in Scripts, k \in 1 .. 3 : files[<<s, k>>] \in RunReports \cup {Absent}

\* The arguments never change.
ArgumentsAreKnown ==
  \A p \in Evaluators :
    /\ p \in Scripts => arguments[p] = [reports |-> TimingReports(p), discard |-> Discard,
                                        references |-> Absent, output |-> "results"]
    /\ p \notin Scripts => /\ arguments[p].reports = <<<<User, 1>>, <<User, 2>>>>
                           /\ arguments[p].discard \in 0 .. Discard
                           /\ arguments[p].references \in UserReferences
                           /\ arguments[p].output = "summary"

-----------------------------------------------------------------------------
(* The invariant *)

\* What a process has collected are the entries of the first of its reports, as
\* they are in the files.
CollectedIsTrue(p) ==
  /\ Len(run_summaries[p]) <= Len(arguments[p].reports)
  /\ Len(run_summaries[p]) > 0 \/ at[p] \in {"read", "write"} => ReferencesAreValid(p)
  /\ complete[p] <=> \A k \in 1 .. Len(run_summaries[p]) : run_summaries[p][k].status = "complete"
  /\ \A k \in 1 .. Len(run_summaries[p]) : \E c \in Accepted :
       /\ c.path = arguments[p].reports[k]
       /\ c.discard = arguments[p].discard /\ c.references = arguments[p].references
       /\ run_summaries[p][k] = RunSummary(c.path, c.report, c.discard, c.references)
       /\ files[c.path] \in {c.report, Absent}

\* A summary is what its writer has collected; it is whole when the writer is done.
SummariesAreOwned ==
  \A o \in Summaries : summaries[o] # Absent =>
    /\ summaries[o].whole => summaries[o].writer # Absent
    /\ summaries[o].writer # Absent =>
         LET p == summaries[o].writer
         IN  /\ o = arguments[p].output
             /\ summaries[o].reports = run_summaries[p]
             /\ summaries[o].complete = complete[p]
             /\ AllRead(p)
             /\ at[p] = "write" \/ exit[p] # Absent
             /\ at[p] = "write" => ~summaries[o].whole

ExitTells ==
  \A p \in Evaluators :
    /\ at[p] # "ended" => exit[p] = Absent
    /\ at[p] = "write" => summaries[arguments[p].output] # Absent
    /\ at[p] = "write" => AllRead(p)
    /\ exit[p] \in {"0", "2"} =>
         LET summary == summaries[arguments[p].output]
         IN  /\ summary # Absent
             /\ summary.writer = p => summary.whole /\ (summary.complete <=> exit[p] = "0")

\* Nobody else opens the summary of the script that made the results directory,
\* and a script's evaluation runs once, after everything it needs.
ScriptStands(s) ==
  /\ script_at[s] \notin {"mkdir", "ended"} => results = s
  /\ script_at[s] # "wait" => at[s] = "ended"
  /\ exit[s] # Absent => results = s
  /\ script_at[s] \in Unevaluated =>
       /\ exit[s] = Absent /\ script_exit[s] = Absent
       /\ ~run_completed[s] /\ temporary[s] # "removed" /\ run_summaries[s] = <<>>
  /\ script_at[s] \in {"pass-2", "pass-3", "annotate", "evaluate", "wait"} =>
       files[<<s, 1>>] # Absent /\ files[<<s, 1>>].status = "complete"
  /\ script_at[s] \in {"pass-3", "annotate", "evaluate", "wait"} =>
       files[<<s, 2>>] # Absent /\ files[<<s, 2>>].status = "complete"
  /\ script_at[s] \in {"annotate", "evaluate", "wait"} =>
       files[<<s, 3>>] # Absent /\ files[<<s, 3>>].status = "complete"
  /\ script_at[s] \in {"evaluate", "wait"} \/ exit[s] # Absent =>
       annotated # Absent /\ annotated.status = "complete"
  /\ at[s] = "write" \/ exit[s] \in {"0", "2"} => summaries["results"].writer = s
  /\ run_completed[s] \/ script_exit[s] = "0" \/ temporary[s] = "removed" => exit[s] = "0"

ScriptInv == \A s \in Scripts : ScriptStands(s)

EInv ==
  /\ EvaluatorTypes /\ ScriptTypes /\ FileTypes /\ ArgumentsAreKnown
  /\ \A p \in Evaluators : CollectedIsTrue(p)
  /\ SummariesAreOwned /\ ExitTells /\ ScriptInv

-----------------------------------------------------------------------------
(* Types are kept *)

LEMMA PathFacts ==
  ASSUME NEW s \in Scripts, NEW k \in 1 .. 3
  PROVE  <<s, k>> \in Paths /\ s \in Evaluators /\ s # User /\ s # Absent
  BY EvaluationAssumption, AbsenceAssumption

LEMMA PassNumbers ==
  ASSUME NEW s, script_at[s] \in {"pass-1", "pass-2", "pass-3"}
  PROVE  /\ PassNumber(s) \in 1 .. 3
         /\ script_at[s] = "pass-1" => PassNumber(s) = 1
         /\ script_at[s] = "pass-2" => PassNumber(s) = 2
         /\ script_at[s] = "pass-3" => PassNumber(s) = 3
<1>1. /\ DOMAIN Passes = 1 .. 3
      /\ Passes[1] = "pass-1" /\ Passes[2] = "pass-2" /\ Passes[3] = "pass-3"
  BY DEF Passes
<1>2. \A k \in DOMAIN Passes : k = 1 \/ k = 2 \/ k = 3
  BY <1>1
<1>3. 1 \in DOMAIN Passes /\ 2 \in DOMAIN Passes /\ 3 \in DOMAIN Passes
  BY <1>1
<1>4. CASE script_at[s] = "pass-1"
  <2>1. \A k \in DOMAIN Passes : Passes[k] = script_at[s] <=> k = 1
    BY <1>1, <1>2, <1>4
  <2>2. PassNumber(s) = 1
    BY <1>3, <2>1 DEF PassNumber
  <2> QED
    BY <1>4, <2>2
<1>5. CASE script_at[s] = "pass-2"
  <2>1. \A k \in DOMAIN Passes : Passes[k] = script_at[s] <=> k = 2
    BY <1>1, <1>2, <1>5
  <2>2. PassNumber(s) = 2
    BY <1>3, <2>1 DEF PassNumber
  <2> QED
    BY <1>5, <2>2
<1>6. CASE script_at[s] = "pass-3"
  <2>1. \A k \in DOMAIN Passes : Passes[k] = script_at[s] <=> k = 3
    BY <1>1, <1>2, <1>6
  <2>2. PassNumber(s) = 3
    BY <1>3, <2>1 DEF PassNumber
  <2> QED
    BY <1>6, <2>2
<1> QED
  BY <1>4, <1>5, <1>6

\* A run of run_centroiding that returns 0 has left a complete report.
LEMMA SuccessIsComplete ==
  ASSUME NEW o \in Outcomes
  PROVE  /\ o.status \in {"0", "1", "2", "killed"}
         /\ o.report \in RunReports \cup {Absent}
         /\ o.status = "0" => o.report # Absent /\ o.report.status = "complete"
<1>1. /\ o.status \in {"0", "1", "2", "killed"}
      /\ o.report \in RunReports \cup {Absent}
      /\ LET listed == IF o.report = Absent THEN 0 ELSE Len(o.report.frames)
             stated == IF o.report = Absent THEN "absent" ELSE o.report.status
         IN  RunKeepsPromise(o.status, stated, listed, selected)
  BY DEF Outcomes
<1> QED
  BY <1>1 DEF RunKeepsPromise

\* What a step of a script does to the evaluators and to the reports.
LEMMA ScriptMoves ==
  ASSUME ScriptTypes, FileTypes, NEW s \in Scripts, Script(s)
  PROVE  /\ UNCHANGED <<summaries, arguments, run_summaries, complete, exit>>
         /\ \/ UNCHANGED <<files, at>>
            \/ /\ StartEvaluation(s) /\ UNCHANGED files
               /\ at' = [at EXCEPT ![s] = "start"]
            \/ /\ UNCHANGED at
               /\ Trap(s) \/ TimingPass(s)
               /\ files' \in [Paths -> RunReports \cup UserReports \cup {Absent}]
               /\ \A path \in Paths :
                    /\ path[1] # s => files'[path] = files[path]
                    /\ files'[path] \in {files[path], Absent} \/ TimingPass(s)
               /\ \A k \in 1 .. 3 : files'[<<s, k>>] \in RunReports \cup {Absent}
<1>1. CASE TimingPass(s)
  <2>1. PICK o \in Outcomes : files' = [files EXCEPT ![<<s, PassNumber(s)>>] = o.report]
    BY <1>1 DEF TimingPass
  <2>2. PassNumber(s) \in 1 .. 3
    BY <1>1, PassNumbers DEF TimingPass
  <2>3. <<s, PassNumber(s)>> \in Paths /\ o.report \in RunReports \cup {Absent}
    BY <2>2, PathFacts, SuccessIsComplete
  <2>4. \A path \in Paths : path[1] # s => files'[path] = files[path]
    BY <2>1, <2>3 DEF FileTypes
  <2>5. files' \in [Paths -> RunReports \cup UserReports \cup {Absent}]
    BY <2>1, <2>3 DEF FileTypes
  <2>6. \A k \in 1 .. 3 : files'[<<s, k>>] \in RunReports \cup {Absent}
    BY <2>1, <2>3, PathFacts DEF FileTypes
  <2>7. UNCHANGED <<at, summaries, arguments, run_summaries, complete, exit>>
    BY <1>1 DEF TimingPass
  <2> QED
    BY <1>1, <2>4, <2>5, <2>6, <2>7
<1>2. CASE Trap(s)
  <2>1. CASE run_completed[s]
    <3>1. files' = [path \in Paths |-> IF path[1] = s THEN Absent ELSE files[path]]
      BY <1>2, <2>1 DEF Trap
    <3>2. \A k \in 1 .. 3 : files'[<<s, k>>] = Absent
      BY <3>1, PathFacts
    <3>3. files' \in [Paths -> RunReports \cup UserReports \cup {Absent}]
      BY <3>1 DEF FileTypes
    <3>4. UNCHANGED <<at, summaries, arguments, run_summaries, complete, exit>>
      BY <1>2 DEF Trap
    <3>5. \A path \in Paths : /\ path[1] # s => files'[path] = files[path]
                              /\ files'[path] \in {files[path], Absent}
      BY <3>1
    <3> QED
      BY <1>2, <3>2, <3>3, <3>4, <3>5
  <2> QED
    BY <1>2, <2>1 DEF Trap
<1>3. CASE StartEvaluation(s)
  BY <1>3 DEF StartEvaluation
<1>4. CASE MakeResults(s) \/ MakeTemporary(s) \/ AnnotatedRun(s) \/ EvaluationReturns(s)
             \/ Interrupted(s)
  BY <1>4 DEF MakeResults, MakeTemporary, AnnotatedRun, EvaluationReturns, Interrupted, evaluation
<1> QED
  BY <1>1, <1>2, <1>3, <1>4 DEF Script

\* The reports, the outputs and the options are what the arguments say.
LEMMA ArgumentFacts ==
  ASSUME ArgumentsAreKnown, NEW p \in Evaluators
  PROVE  /\ arguments[p].output \in Summaries
         /\ arguments[p].output = "results" <=> p \in Scripts
         /\ arguments[p].discard \in 0 .. Discard
         /\ arguments[p].references \in UserReferences \cup {Absent}
         /\ Len(arguments[p].reports) \in Nat
         /\ p \in Scripts => Len(arguments[p].reports) = 3
         /\ arguments[p].reports \in Seq(Paths)
         /\ p \in Scripts => \A k \in 1 .. 3 : arguments[p].reports[k] = <<p, k>>
         /\ p \notin Scripts =>
              \A k \in 1 .. Len(arguments[p].reports) : arguments[p].reports[k][1] = User
<1>1. CASE p \in Scripts
  <2>1. /\ arguments[p].reports = <<<<p, 1>>, <<p, 2>>, <<p, 3>>>>
        /\ arguments[p].discard = Discard /\ arguments[p].references = Absent
        /\ arguments[p].output = "results"
    <3>1. arguments[p] = [reports |-> TimingReports(p), discard |-> Discard,
                          references |-> Absent, output |-> "results"]
      BY <1>1 DEF ArgumentsAreKnown
    <3> QED
      BY <3>1 DEF TimingReports
  <2>2. <<p, 1>> \in Paths /\ <<p, 2>> \in Paths /\ <<p, 3>> \in Paths
    BY <1>1, EvaluationAssumption
  <2>3. arguments[p].reports \in Seq(Paths) /\ Len(arguments[p].reports) = 3
    BY <2>1, <2>2
  <2>4. \A k \in 1 .. 3 : arguments[p].reports[k] = <<p, k>>
    BY <2>1
  <2>5. "results" \in Summaries /\ Discard \in 0 .. Discard
    BY EvaluationAssumption
  <2>6. arguments[p].output \in Summaries /\ arguments[p].discard \in 0 .. Discard
    BY <2>1, <2>5
  <2>7. arguments[p].references \in UserReferences \cup {Absent}
    BY <2>1
  <2>8. arguments[p].output = "results" <=> p \in Scripts
    BY <1>1, <2>1
  <2>9. Len(arguments[p].reports) \in Nat
    BY <2>3
  <2> QED
    BY <1>1, <2>3, <2>4, <2>6, <2>7, <2>8, <2>9
<1>2. CASE p \notin Scripts
  <2>1. /\ arguments[p].reports = <<<<User, 1>>, <<User, 2>>>>
        /\ arguments[p].discard \in 0 .. Discard
        /\ arguments[p].references \in UserReferences
        /\ arguments[p].output = "summary"
    BY <1>2 DEF ArgumentsAreKnown
  <2>2. <<User, 1>> \in Paths /\ <<User, 2>> \in Paths
    BY EvaluationAssumption
  <2>3. arguments[p].reports \in Seq(Paths) /\ Len(arguments[p].reports) = 2
    BY <2>1, <2>2
  <2>4. \A k \in 1 .. 2 : arguments[p].reports[k][1] = User
    BY <2>1
  <2> QED
    BY <1>2, <2>1, <2>3, <2>4, EvaluationAssumption
<1> QED
  BY <1>1, <1>2

\* A report that is read gives an accepted entry.
LEMMA EntryAccepted ==
  ASSUME EvaluatorTypes, FileTypes, ArgumentsAreKnown, NEW p \in Evaluators, ReportIsUsable(p),
         ~AllRead(p), Len(run_summaries[p]) <= Len(arguments[p].reports)
  PROVE  \E c \in Accepted :
           /\ c.path = NextPath(p) /\ c.report = files[NextPath(p)]
           /\ c.discard = arguments[p].discard /\ c.references = arguments[p].references
<1> DEFINE c == [path |-> NextPath(p), report |-> files[NextPath(p)],
                 discard |-> arguments[p].discard, references |-> arguments[p].references]
<1>1. NextPath(p) \in Paths
  <2>1. arguments[p].reports \in Seq(Paths) /\ Len(run_summaries[p]) \in Nat
    BY ArgumentFacts DEF EvaluatorTypes
  <2>2. Len(run_summaries[p]) + 1 \in 1 .. Len(arguments[p].reports)
    BY <2>1 DEF AllRead
  <2> QED
    BY <2>1, <2>2 DEF NextPath
<1>2. /\ Readable(files[NextPath(p)])
      /\ PredictionsAreUsable(files[NextPath(p)], arguments[p].references)
  BY DEF ReportIsUsable
<1>3. files[NextPath(p)] \in RunReports \cup UserReports
  BY <1>1, <1>2 DEF FileTypes, Readable
<1>4. /\ arguments[p].discard \in 0 .. Discard
      /\ arguments[p].references \in UserReferences \cup {Absent}
  BY ArgumentFacts
<1>5. c \in Accepted
  BY <1>1, <1>2, <1>3, <1>4 DEF Accepted
<1> QED
  BY <1>5

\* The summary that a process completes.
LEMMA SummaryWritten ==
  ASSUME EvaluatorTypes, ArgumentsAreKnown, ExitTells, NEW p \in Evaluators, WriteSummary(p)
  PROVE  LET old == summaries[arguments[p].output]
             new == [writer |-> IF old.writer = p THEN p ELSE Absent, whole |-> (old.writer = p),
                     complete |-> old.complete, reports |-> old.reports]
         IN  /\ old \in SummaryFiles /\ old # Absent
             /\ new \in SummaryFiles /\ new # Absent
             /\ summaries' = [summaries EXCEPT ![arguments[p].output] = new]
<1> DEFINE output == arguments[p].output
           old == summaries[output]
           new == [writer |-> IF old.writer = p THEN p ELSE Absent, whole |-> (old.writer = p),
                   complete |-> old.complete, reports |-> old.reports]
<1>1. output \in Summaries
  BY ArgumentFacts
<1>2. old # Absent
  BY DEF WriteSummary, ExitTells
<1>3. old \in SummaryFiles
  BY <1>1, <1>2 DEF EvaluatorTypes
<1> HIDE DEF output
<1>4. new \in SummaryFiles
  <2>1. old.complete \in BOOLEAN /\ old.reports \in Seq(Entries)
    BY <1>3 DEF SummaryFiles
  <2>2. (old.writer = p) \in BOOLEAN /\ (IF old.writer = p THEN p ELSE Absent) \in Evaluators \cup {Absent}
    OBVIOUS
  <2> HIDE DEF old
  <2> QED
    BY <2>1, <2>2 DEF SummaryFiles
<1>5. new # Absent
  <2> HIDE DEF new, old
  <2>1. Absent \notin SummaryFiles
    BY AbsenceAssumption DEF SummaryFiles
  <2> QED
    BY <1>4, <2>1
<1>6. summaries' = [summaries EXCEPT ![output] = new]
  BY DEF WriteSummary, output
<1> QED
  BY <1>2, <1>3, <1>4, <1>5, <1>6 DEF output

-----------------------------------------------------------------------------
(* Steps of an evaluation *)

\* Every way to end without a summary.
Stops(p) ==
  /\ at[p] \in {"start", "read", "write"}
  /\ at' = [at EXCEPT ![p] = "ended"]
  /\ \E status \in {"1", "killed"} : exit' = [exit EXCEPT ![p] = status]
  /\ UNCHANGED <<files, summaries, arguments, run_summaries, complete>>

LEMMA EvaluatorMoves ==
  ASSUME NEW p \in Evaluators, Evaluate(p)
  PROVE  /\ CheckDestination(p) \/ ReadReport(p) \/ OpenSummary(p) \/ WriteSummary(p) \/ Stops(p)
         /\ at[p] \in {"start", "read", "write"}
         /\ UNCHANGED <<files, arguments>>
<1>1. CASE RefuseArguments(p)
  BY <1>1 DEF RefuseArguments, Stops, End
<1>2. CASE RejectReport(p)
  BY <1>2 DEF RejectReport, Stops, End
<1>3. CASE EvaluationFails(p)
  BY <1>3 DEF EvaluationFails, Stops, End
<1>4. CASE EvaluationKilled(p)
  BY <1>4 DEF EvaluationKilled, Stops, End
<1>5. CASE CheckDestination(p) \/ ReadReport(p)
  BY <1>5 DEF CheckDestination, ReadReport
<1>6. CASE OpenSummary(p) \/ WriteSummary(p)
  BY <1>6 DEF OpenSummary, WriteSummary
<1>7. Stops(p) => at[p] \in {"start", "read", "write"} /\ UNCHANGED <<files, arguments>>
  BY DEF Stops
<1> QED
  BY <1>1, <1>2, <1>3, <1>4, <1>5, <1>6, <1>7 DEF Evaluate

\* Nothing of another process changes.
LEMMA OthersUnchanged ==
  ASSUME EvaluatorTypes, NEW p \in Evaluators, Evaluate(p), NEW q \in Evaluators \ {p}
  PROVE  /\ at'[q] = at[q] /\ run_summaries'[q] = run_summaries[q]
         /\ complete'[q] = complete[q] /\ exit'[q] = exit[q]
<1>1. CASE CheckDestination(p)
  BY <1>1 DEF CheckDestination, EvaluatorTypes
<1>2. CASE ReadReport(p)
  BY <1>2 DEF ReadReport, EvaluatorTypes
<1>3. CASE OpenSummary(p)
  BY <1>3 DEF OpenSummary, EvaluatorTypes
<1>4. CASE WriteSummary(p)
  BY <1>4 DEF WriteSummary, End, EvaluatorTypes
<1>5. CASE Stops(p)
  BY <1>5 DEF Stops, EvaluatorTypes
<1> QED
  BY <1>1, <1>2, <1>3, <1>4, <1>5, EvaluatorMoves

\* The entry that a read report adds.
LEMMA EntryRead ==
  ASSUME EvaluatorTypes, FileTypes, ArgumentsAreKnown, NEW p \in Evaluators, CollectedIsTrue(p),
         ReadReport(p)
  PROVE  \E c \in Accepted :
           /\ c.path = arguments[p].reports[Len(run_summaries[p]) + 1]
           /\ c.report = files[c.path]
           /\ c.discard = arguments[p].discard /\ c.references = arguments[p].references
           /\ RunSummary(c.path, c.report, c.discard, c.references) \in Entries
           /\ RunSummary(c.path, c.report, c.discard, c.references).status = c.report.status
           /\ run_summaries' = [run_summaries EXCEPT ![p] =
                Append(run_summaries[p], RunSummary(c.path, c.report, c.discard, c.references))]
           /\ complete' = [complete EXCEPT ![p] = complete[p] /\ c.report.status = "complete"]
<1>1. PICK c \in Accepted :
           /\ c.path = NextPath(p) /\ c.report = files[NextPath(p)]
           /\ c.discard = arguments[p].discard /\ c.references = arguments[p].references
  BY EntryAccepted DEF ReadReport, CollectedIsTrue
<1>2. RunSummary(c.path, c.report, c.discard, c.references) \in Entries
  BY DEF Entries
<1>3. RunSummary(c.path, c.report, c.discard, c.references).status = c.report.status
  BY DEF RunSummary
<1>4. run_summaries' = [run_summaries EXCEPT ![p] =
        Append(run_summaries[p], RunSummary(c.path, c.report, c.discard, c.references))]
  BY <1>1 DEF ReadReport
<1>5. complete' = [complete EXCEPT ![p] = complete[p] /\ c.report.status = "complete"]
  BY <1>1 DEF ReadReport, StillComplete
<1> QED
  BY <1>1, <1>2, <1>3, <1>4, <1>5 DEF NextPath

LEMMA EvaluatorTypesKept ==
  ASSUME EvaluatorTypes, FileTypes, ArgumentsAreKnown, ExitTells, NEW p \in Evaluators,
         CollectedIsTrue(p), Evaluate(p)
  PROVE  EvaluatorTypes'
<1>1. CASE CheckDestination(p)
  <2>1. <<>> \in Seq(Entries)
    OBVIOUS
  <2> QED
    BY <1>1, <2>1 DEF CheckDestination, EvaluatorTypes
<1>2. CASE ReadReport(p)
  <2>1. PICK c \in Accepted :
           /\ RunSummary(c.path, c.report, c.discard, c.references) \in Entries
           /\ run_summaries' = [run_summaries EXCEPT ![p] =
                Append(run_summaries[p], RunSummary(c.path, c.report, c.discard, c.references))]
           /\ complete' = [complete EXCEPT ![p] = complete[p] /\ c.report.status = "complete"]
    BY <1>2, EntryRead
  <2> DEFINE entry == RunSummary(c.path, c.report, c.discard, c.references)
  <2>2. entry \in Entries /\ run_summaries' = [run_summaries EXCEPT ![p] =
                                                 Append(run_summaries[p], entry)]
    BY <2>1
  <2> HIDE DEF entry
  <2>3. Append(run_summaries[p], entry) \in Seq(Entries)
    BY <2>2 DEF EvaluatorTypes
  <2>4. run_summaries' \in [Evaluators -> Seq(Entries)]
    BY <2>2, <2>3 DEF EvaluatorTypes
  <2>5. (complete[p] /\ c.report.status = "complete") \in BOOLEAN
    OBVIOUS
  <2>6. complete' \in [Evaluators -> BOOLEAN]
    BY <2>1, <2>5 DEF EvaluatorTypes
  <2> QED
    BY <1>2, <2>4, <2>6 DEF ReadReport, EvaluatorTypes
<1>3. CASE OpenSummary(p)
  <2> DEFINE new == [writer |-> p, whole |-> FALSE, complete |-> complete[p],
                     reports |-> run_summaries[p]]
  <2>1. new \in SummaryFiles
    BY DEF EvaluatorTypes, SummaryFiles
  <2>2. summaries' = [summaries EXCEPT ![arguments[p].output] = new]
    BY <1>3 DEF OpenSummary
  <2> HIDE DEF new
  <2>3. summaries' \in [Summaries -> SummaryFiles \cup {Absent}]
    BY <2>1, <2>2 DEF EvaluatorTypes
  <2> QED
    BY <1>3, <2>3 DEF OpenSummary, EvaluatorTypes
<1>4. CASE WriteSummary(p)
  <2> DEFINE old == summaries[arguments[p].output]
             new == [writer |-> IF old.writer = p THEN p ELSE Absent, whole |-> (old.writer = p),
                     complete |-> old.complete, reports |-> old.reports]
  <2>1. new \in SummaryFiles /\ summaries' = [summaries EXCEPT ![arguments[p].output] = new]
    BY <1>4, SummaryWritten
  <2> HIDE DEF old, new
  <2>2. summaries' \in [Summaries -> SummaryFiles \cup {Absent}]
    BY <2>1 DEF EvaluatorTypes
  <2>3. (IF complete[p] THEN "0" ELSE "2") \in Statuses
    BY DEF Statuses
  <2> QED
    BY <1>4, <2>2, <2>3 DEF WriteSummary, End, EvaluatorTypes
<1>5. CASE Stops(p)
  BY <1>5 DEF Stops, EvaluatorTypes, Statuses
<1> QED
  BY <1>1, <1>2, <1>3, <1>4, <1>5, EvaluatorMoves


LEMMA CollectedKept ==
  ASSUME EvaluatorTypes, FileTypes, ArgumentsAreKnown, NEW p \in Evaluators, Evaluate(p),
         NEW q \in Evaluators, CollectedIsTrue(q)
  PROVE  CollectedIsTrue(q)'
<1>1. UNCHANGED <<files, arguments>>
  BY EvaluatorMoves
<1>2. CASE q # p
  BY <1>1, <1>2, OthersUnchanged DEF CollectedIsTrue, ReferencesAreValid
<1>3. CASE q = p /\ CheckDestination(p)
  <2>1. /\ run_summaries'[p] = <<>> /\ complete'[p] = TRUE
        /\ ReferencesAreValid(p)
    BY <1>3 DEF CheckDestination, EvaluatorTypes
  <2>2. 0 <= Len(arguments[p].reports)
    BY ArgumentFacts
  <2> QED
    BY <1>1, <1>3, <2>1, <2>2 DEF CollectedIsTrue, ReferencesAreValid
<1>4. CASE q = p /\ ReadReport(p)
  <2>1. PICK c \in Accepted :
           /\ c.path = arguments[p].reports[Len(run_summaries[p]) + 1]
           /\ c.report = files[c.path]
           /\ c.discard = arguments[p].discard /\ c.references = arguments[p].references
           /\ RunSummary(c.path, c.report, c.discard, c.references) \in Entries
           /\ RunSummary(c.path, c.report, c.discard, c.references).status = c.report.status
           /\ run_summaries' = [run_summaries EXCEPT ![p] =
                Append(run_summaries[p], RunSummary(c.path, c.report, c.discard, c.references))]
           /\ complete' = [complete EXCEPT ![p] = complete[p] /\ c.report.status = "complete"]
    BY <1>4, EntryRead
  <2> DEFINE n == Len(run_summaries[p])
             entry == RunSummary(c.path, c.report, c.discard, c.references)
  <2>2. run_summaries[p] \in Seq(Entries) /\ n \in Nat /\ complete[p] \in BOOLEAN
    BY DEF EvaluatorTypes
  <2>3. /\ run_summaries'[p] = Append(run_summaries[p], entry)
        /\ complete'[p] = (complete[p] /\ c.report.status = "complete")
        /\ entry \in Entries /\ entry.status = c.report.status
    BY <2>1 DEF EvaluatorTypes
  <2> HIDE DEF entry
  <2>4. /\ Len(run_summaries'[p]) = n + 1
        /\ run_summaries'[p][n + 1] = entry
        /\ \A k \in 1 .. n : run_summaries'[p][k] = run_summaries[p][k]
    BY <2>2, <2>3
  <2>5. n # Len(arguments[p].reports) /\ at[p] = "read" /\ at'[p] = "read"
    BY <1>4 DEF ReadReport, AllRead
  <2>6. Len(run_summaries'[p]) <= Len(arguments'[p].reports)
    BY <1>1, <1>4, <2>2, <2>4, <2>5, ArgumentFacts DEF CollectedIsTrue
  <2>7. ReferencesAreValid(p)'
    BY <1>1, <1>4, <2>5 DEF CollectedIsTrue, ReferencesAreValid
  <2>8. complete'[p] <=> \A k \in 1 .. n + 1 : run_summaries'[p][k].status = "complete"
    <3>1. complete[p] <=> \A k \in 1 .. n : run_summaries'[p][k].status = "complete"
      BY <1>4, <2>4 DEF CollectedIsTrue
    <3>2. run_summaries'[p][n + 1].status = c.report.status
      BY <2>3, <2>4
    <3>3. 1 .. n + 1 = (1 .. n) \cup {n + 1}
      BY <2>2
    <3> QED
      BY <2>3, <3>1, <3>2, <3>3
  <2>9. ASSUME NEW k \in 1 .. n + 1
        PROVE  \E d \in Accepted :
                 /\ d.path = arguments[p].reports[k]
                 /\ d.discard = arguments[p].discard /\ d.references = arguments[p].references
                 /\ run_summaries'[p][k] = RunSummary(d.path, d.report, d.discard, d.references)
                 /\ files[d.path] \in {d.report, Absent}
    <3>1. CASE k = n + 1
      BY <2>1, <2>4, <3>1 DEF entry
    <3>2. CASE k \in 1 .. n
      BY <1>4, <2>4, <3>2 DEF CollectedIsTrue
    <3> QED
      BY <2>2, <3>1, <3>2
  <2>10. \A k \in 1 .. Len(run_summaries'[p]) : \E d \in Accepted :
           /\ d.path = arguments'[p].reports[k]
           /\ d.discard = arguments'[p].discard /\ d.references = arguments'[p].references
           /\ run_summaries'[p][k] = RunSummary(d.path, d.report, d.discard, d.references)
           /\ files'[d.path] \in {d.report, Absent}
    BY <1>1, <2>4, <2>9
  <2>11. complete'[p] <=>
           \A k \in 1 .. Len(run_summaries'[p]) : run_summaries'[p][k].status = "complete"
    BY <2>4, <2>8
  <2> HIDE DEF n
  <2> QED
    BY <1>4, <2>6, <2>7, <2>10, <2>11 DEF CollectedIsTrue
<1>5. CASE q = p /\ (OpenSummary(p) \/ WriteSummary(p) \/ Stops(p))
  <2>1. UNCHANGED <<run_summaries, complete>>
    BY <1>5 DEF OpenSummary, WriteSummary, Stops
  <2>2. at'[p] \in {"read", "write"} => at[p] \in {"read", "write"}
    BY <1>5 DEF OpenSummary, WriteSummary, Stops, End, EvaluatorTypes
  <2> QED
    BY <1>1, <1>5, <2>1, <2>2 DEF CollectedIsTrue, ReferencesAreValid
<1> QED
  BY <1>2, <1>3, <1>4, <1>5, EvaluatorMoves

\* A process that has neither ended nor written owns no summary.
LEMMA NotYetOwner ==
  ASSUME SummariesAreOwned, ExitTells, NEW p \in Evaluators, at[p] \notin {"write", "ended"},
         NEW o \in Summaries, summaries[o] # Absent
  PROVE  summaries[o].writer # p
<1>1. exit[p] = Absent
  BY DEF ExitTells
<1>2. p # Absent
  BY AbsenceAssumption
<1> QED
  BY <1>1, <1>2 DEF SummariesAreOwned

LEMMA OwnedKept ==
  ASSUME EvaluatorTypes, FileTypes, ArgumentsAreKnown, SummariesAreOwned, ExitTells,
         NEW p \in Evaluators, Evaluate(p)
  PROVE  SummariesAreOwned'
<1>1. UNCHANGED arguments
  BY EvaluatorMoves
<1>2. SUFFICES ASSUME NEW o \in Summaries, summaries'[o] # Absent
               PROVE  /\ summaries'[o].whole => summaries'[o].writer # Absent
                      /\ summaries'[o].writer # Absent =>
                           LET q == summaries'[o].writer
                           IN  /\ o = arguments[q].output
                               /\ summaries'[o].reports = run_summaries'[q]
                               /\ summaries'[o].complete = complete'[q]
                               /\ Len(run_summaries'[q]) = Len(arguments[q].reports)
                               /\ at'[q] = "write" \/ exit'[q] # Absent
                               /\ at'[q] = "write" => ~summaries'[o].whole
  BY <1>1 DEF SummariesAreOwned, AllRead
<1>3. ASSUME summaries'[o] = summaries[o],
             \/ summaries[o].writer # p
             \/ /\ UNCHANGED <<run_summaries, complete>>
                /\ at'[p] # "write" /\ exit'[p] # Absent
      PROVE  /\ summaries'[o].whole => summaries'[o].writer # Absent
             /\ summaries'[o].writer # Absent =>
                  LET q == summaries'[o].writer
                  IN  /\ o = arguments[q].output
                      /\ summaries'[o].reports = run_summaries'[q]
                      /\ summaries'[o].complete = complete'[q]
                      /\ Len(run_summaries'[q]) = Len(arguments[q].reports)
                      /\ at'[q] = "write" \/ exit'[q] # Absent
                      /\ at'[q] = "write" => ~summaries'[o].whole
  <2>1. summaries[o] \in SummaryFiles
    BY <1>2, <1>3 DEF EvaluatorTypes
  <2>2. summaries[o].writer \in Evaluators \cup {Absent}
    BY <2>1 DEF SummaryFiles
  <2> DEFINE q == summaries[o].writer
  <2>3. summaries[o].whole => q # Absent
    BY <1>2, <1>3 DEF SummariesAreOwned
  <2>4. q # Absent =>
          /\ o = arguments[q].output
          /\ summaries[o].reports = run_summaries[q]
          /\ summaries[o].complete = complete[q]
          /\ Len(run_summaries[q]) = Len(arguments[q].reports)
          /\ at[q] = "write" \/ exit[q] # Absent
          /\ at[q] = "write" => ~summaries[o].whole
    BY <1>2, <1>3 DEF SummariesAreOwned, AllRead
  <2>5. q \in Evaluators \ {p} => /\ at'[q] = at[q] /\ run_summaries'[q] = run_summaries[q]
                                  /\ complete'[q] = complete[q] /\ exit'[q] = exit[q]
    BY OthersUnchanged
  <2>6. q = p => q \in Evaluators /\ UNCHANGED <<run_summaries, complete>>
                 /\ at'[q] # "write" /\ exit'[q] # Absent
    BY <1>3
  <2>7. q \in Evaluators \/ q = Absent
    BY <2>2
  <2> HIDE DEF q
  <2> QED
    BY <1>3, <2>3, <2>4, <2>5, <2>6, <2>7 DEF q
<1>4. CASE CheckDestination(p) \/ ReadReport(p)
  <2>1. UNCHANGED summaries /\ at[p] \notin {"write", "ended"}
    BY <1>4 DEF CheckDestination, ReadReport
  <2> QED
    BY <1>2, <1>3, <2>1, NotYetOwner
<1>5. CASE OpenSummary(p)
  <2> DEFINE new == [writer |-> p, whole |-> FALSE, complete |-> complete[p],
                     reports |-> run_summaries[p]]
  <2>1. /\ summaries' = [summaries EXCEPT ![arguments[p].output] = new]
        /\ UNCHANGED <<run_summaries, complete>>
        /\ AllRead(p) /\ at[p] = "read" /\ at'[p] = "write"
    BY <1>5 DEF OpenSummary, EvaluatorTypes
  <2>2. CASE o = arguments[p].output
    <3>1. summaries'[o] = new
      BY <2>1, <2>2 DEF EvaluatorTypes
    <3> QED
      BY <2>1, <2>2, <3>1 DEF AllRead
  <2>3. CASE o # arguments[p].output
    <3> HIDE DEF new
    <3>1. summaries'[o] = summaries[o]
      BY <2>1, <2>3 DEF EvaluatorTypes
    <3> QED
      BY <1>2, <1>3, <2>1, <3>1, NotYetOwner
  <2> QED
    BY <2>2, <2>3
<1>6. CASE WriteSummary(p)
  <2> DEFINE old == summaries[arguments[p].output]
             new == [writer |-> IF old.writer = p THEN p ELSE Absent, whole |-> (old.writer = p),
                     complete |-> old.complete, reports |-> old.reports]
  <2>1. /\ old \in SummaryFiles /\ old # Absent
        /\ new \in SummaryFiles
        /\ summaries' = [summaries EXCEPT ![arguments[p].output] = new]
    BY <1>6, SummaryWritten
  <2>2. /\ UNCHANGED <<run_summaries, complete>> /\ at'[p] = "ended"
        /\ exit'[p] = (IF complete[p] THEN "0" ELSE "2")
    BY <1>6 DEF WriteSummary, End, EvaluatorTypes
  <2>3. exit'[p] # Absent
    BY <2>2, AbsenceAssumption
  <2>4. p # Absent
    BY AbsenceAssumption
  <2>5. CASE o = arguments[p].output
    <3>1. summaries'[o] = new
      BY <2>1, <2>5 DEF EvaluatorTypes
    <3>2. CASE old.writer = p
      <4>1. /\ old.reports = run_summaries[p] /\ old.complete = complete[p] /\ AllRead(p)
        BY <2>1, <2>4, <2>5, <3>2 DEF SummariesAreOwned
      <4>2. /\ new.writer = p /\ new.whole /\ new.complete = complete[p]
            /\ new.reports = run_summaries[p]
        BY <3>2, <4>1
      <4> HIDE DEF new, old
      <4>3. /\ summaries'[o].writer = p
            /\ summaries'[o].reports = run_summaries'[p]
            /\ at'[p] # "write"
        BY <2>2, <3>1, <4>2
      <4>4. summaries'[o].complete = complete'[p]
        BY <2>2, <3>1, <4>2
      <4>5. Len(run_summaries'[p]) = Len(arguments[p].reports)
        BY <2>2, <4>1 DEF AllRead
      <4> QED
        BY <2>3, <2>4, <2>5, <4>3, <4>4, <4>5
    <3>3. CASE old.writer # p
      <4>1. new.writer = Absent /\ ~new.whole
        BY <3>3
      <4> HIDE DEF new, old
      <4> QED
        BY <3>1, <4>1
    <3> QED
      BY <3>2, <3>3
  <2>6. CASE o # arguments[p].output
    <3>1. summaries'[o] = summaries[o]
      <4> HIDE DEF new, old
      <4> QED
      BY <2>1, <2>6 DEF EvaluatorTypes
    <3> QED
      BY <1>3, <2>2, <2>3, <3>1
  <2> QED
    BY <2>5, <2>6
<1>7. CASE Stops(p)
  <2>1. UNCHANGED <<summaries, run_summaries, complete>> /\ at'[p] = "ended"
    BY <1>7 DEF Stops, EvaluatorTypes
  <2>2. exit'[p] \in {"1", "killed"}
    BY <1>7 DEF Stops, EvaluatorTypes
  <2>3. exit'[p] # Absent
    BY <2>2, AbsenceAssumption
  <2> QED
    BY <1>3, <2>1, <2>3
<1> QED
  BY <1>4, <1>5, <1>6, <1>7, EvaluatorMoves


\* What a step of an evaluation does to the summaries.
LEMMA SummariesMoved ==
  ASSUME EvaluatorTypes, FileTypes, ArgumentsAreKnown, SummariesAreOwned, ExitTells,
         NEW p \in Evaluators, Evaluate(p), NEW o \in Summaries
  PROVE  \/ summaries'[o] = summaries[o]
         \/ /\ o = arguments[p].output /\ summaries'[o] # Absent
            /\ at[p] = "read" /\ at'[p] = "write" /\ summaries'[o].writer = p
         \/ /\ o = arguments[p].output /\ summaries'[o] # Absent
            /\ at[p] = "write" /\ at'[p] = "ended" /\ summaries[o] # Absent
            /\ summaries'[o].complete = summaries[o].complete
            /\ \/ summaries[o].writer = p /\ summaries'[o].writer = p /\ summaries'[o].whole
               \/ summaries[o].writer # p /\ summaries'[o].writer = Absent
<1>1. CASE CheckDestination(p) \/ ReadReport(p) \/ Stops(p)
  BY <1>1 DEF CheckDestination, ReadReport, Stops
<1>2. CASE OpenSummary(p)
  <2> DEFINE new == [writer |-> p, whole |-> FALSE, complete |-> complete[p],
                     reports |-> run_summaries[p]]
  <2>1. /\ summaries' = [summaries EXCEPT ![arguments[p].output] = new]
        /\ at[p] = "read" /\ at'[p] = "write"
    BY <1>2 DEF OpenSummary, EvaluatorTypes
  <2>2. new \in SummaryFiles
    BY DEF EvaluatorTypes, SummaryFiles
  <2>3. new.writer = p
    OBVIOUS
  <2> HIDE DEF new
  <2>4. new # Absent
    BY <2>2, AbsenceAssumption DEF SummaryFiles
  <2> QED
    BY <2>1, <2>3, <2>4 DEF EvaluatorTypes
<1>3. CASE WriteSummary(p)
  <2> DEFINE old == summaries[arguments[p].output]
             new == [writer |-> IF old.writer = p THEN p ELSE Absent, whole |-> (old.writer = p),
                     complete |-> old.complete, reports |-> old.reports]
  <2>1. /\ old \in SummaryFiles /\ old # Absent /\ new # Absent
        /\ summaries' = [summaries EXCEPT ![arguments[p].output] = new]
    BY <1>3, SummaryWritten
  <2>2. at[p] = "write" /\ at'[p] = "ended"
    BY <1>3 DEF WriteSummary, End, EvaluatorTypes
  <2>3. /\ old.writer = p => new.writer = p /\ new.whole
        /\ old.writer # p => new.writer = Absent
        /\ new.complete = old.complete
    OBVIOUS
  <2>4. old = summaries[arguments[p].output]
    OBVIOUS
  <2> HIDE DEF new, old
  <2>5. o = arguments[p].output => summaries'[o] = new
    BY <2>1 DEF EvaluatorTypes
  <2>6. o # arguments[p].output => summaries'[o] = summaries[o]
    BY <2>1 DEF EvaluatorTypes
  <2> QED
    BY <2>1, <2>2, <2>3, <2>4, <2>5, <2>6
<1> QED
  BY <1>1, <1>2, <1>3, EvaluatorMoves

LEMMA ExitTellsKept ==
  ASSUME EvaluatorTypes, FileTypes, ArgumentsAreKnown, SummariesAreOwned, ExitTells,
         NEW p \in Evaluators, Evaluate(p)
  PROVE  ExitTells'
<1>1. UNCHANGED arguments
  BY EvaluatorMoves
<1>2. \A o \in Summaries : summaries[o] # Absent => summaries'[o] # Absent
  BY SummariesMoved
<1>3. ASSUME NEW q \in Evaluators \ {p}
      PROVE  /\ at'[q] # "ended" => exit'[q] = Absent
             /\ at'[q] = "write" => summaries'[arguments[q].output] # Absent
             /\ at'[q] = "write" => Len(run_summaries'[q]) = Len(arguments[q].reports)
             /\ exit'[q] \in {"0", "2"} =>
                  LET summary == summaries'[arguments[q].output]
                  IN  /\ summary # Absent
                      /\ summary.writer = q => summary.whole /\ (summary.complete <=> exit'[q] = "0")
  <2>1. /\ at'[q] = at[q] /\ run_summaries'[q] = run_summaries[q]
        /\ exit'[q] = exit[q]
    BY OthersUnchanged
  <2>2. /\ at[q] # "ended" => exit[q] = Absent
        /\ at[q] = "write" => summaries[arguments[q].output] # Absent
        /\ at[q] = "write" => Len(run_summaries[q]) = Len(arguments[q].reports)
        /\ exit[q] \in {"0", "2"} =>
             LET summary == summaries[arguments[q].output]
             IN  /\ summary # Absent
                 /\ summary.writer = q => summary.whole /\ (summary.complete <=> exit[q] = "0")
    BY DEF ExitTells, AllRead
  <2>3. arguments[q].output \in Summaries /\ q # p /\ q # Absent
    BY ArgumentFacts, AbsenceAssumption
  <2> DEFINE o == arguments[q].output
  <2>4. summaries'[o].writer = q => summaries'[o] = summaries[o]
    BY <2>3, SummariesMoved
  <2>5. summaries[o] # Absent => summaries'[o] # Absent
    BY <1>2, <2>3
  <2> HIDE DEF o
  <2> QED
    BY <2>1, <2>2, <2>4, <2>5 DEF o
<1>4. /\ at'[p] # "ended" => exit'[p] = Absent
      /\ at'[p] = "write" => summaries'[arguments[p].output] # Absent
      /\ at'[p] = "write" => Len(run_summaries'[p]) = Len(arguments[p].reports)
      /\ exit'[p] \in {"0", "2"} =>
           LET summary == summaries'[arguments[p].output]
           IN  /\ summary # Absent
               /\ summary.writer = p => summary.whole /\ (summary.complete <=> exit'[p] = "0")
  <2> DEFINE o == arguments[p].output
  <2>0. o \in Summaries /\ p # Absent
    BY ArgumentFacts, AbsenceAssumption
  <2>1. CASE CheckDestination(p) \/ ReadReport(p)
    <3>1. exit' = exit /\ at[p] # "ended" /\ at'[p] = "read"
      BY <2>1 DEF CheckDestination, ReadReport, EvaluatorTypes
    <3>2. exit'[p] = Absent
      BY <3>1 DEF ExitTells
    <3> QED
      BY <3>1, <3>2, AbsenceAssumption
  <2>2. CASE OpenSummary(p)
    <3>1. /\ exit' = exit /\ at[p] # "ended" /\ at'[p] = "write" /\ AllRead(p)
          /\ UNCHANGED run_summaries /\ at[p] = "read"
      BY <2>2 DEF OpenSummary, EvaluatorTypes
    <3>2. exit'[p] = Absent
      BY <3>1 DEF ExitTells
    <3>3. summaries'[o] = [writer |-> p, whole |-> FALSE, complete |-> complete[p],
                           reports |-> run_summaries[p]]
      BY <2>0, <2>2 DEF OpenSummary, EvaluatorTypes
    <3>4. [writer |-> p, whole |-> FALSE, complete |-> complete[p], reports |-> run_summaries[p]]
            \in SummaryFiles
      BY DEF EvaluatorTypes, SummaryFiles
    <3>5. Absent \notin SummaryFiles
      BY AbsenceAssumption DEF SummaryFiles
    <3>6. summaries'[o] # Absent
      BY <3>3, <3>4, <3>5
    <3> QED
      BY <3>1, <3>2, <3>6, AbsenceAssumption DEF AllRead
  <2>3. CASE WriteSummary(p)
    <3>1. /\ at[p] = "write" /\ at'[p] = "ended"
          /\ exit'[p] = (IF complete[p] THEN "0" ELSE "2")
      BY <2>3 DEF WriteSummary, End, EvaluatorTypes
    <3>2. summaries[o] # Absent
      BY <3>1 DEF ExitTells
    <3>3. summaries'[o] # Absent
      BY <1>2, <2>0, <3>2
    <3>4. \/ summaries'[o] = summaries[o]
          \/ /\ summaries'[o].complete = summaries[o].complete
             /\ summaries'[o].writer = p => summaries[o].writer = p /\ summaries'[o].whole
      BY <2>0, <3>1, SummariesMoved
    <3>5. summaries[o].writer = p => summaries[o].complete = complete[p]
      BY <2>0, <3>2 DEF SummariesAreOwned
    <3>6. complete[p] \in BOOLEAN
      BY DEF EvaluatorTypes
    <3>7. complete[p] <=> exit'[p] = "0"
      BY <3>1, <3>6
    <3>8. summaries'[o] = [writer |-> IF summaries[o].writer = p THEN p ELSE Absent,
                           whole |-> (summaries[o].writer = p),
                           complete |-> summaries[o].complete,
                           reports |-> summaries[o].reports]
      BY <2>0, <2>3 DEF WriteSummary, EvaluatorTypes
    <3>9. summaries'[o].writer = p =>
             /\ summaries[o].writer = p /\ summaries'[o].whole
             /\ summaries'[o].complete = summaries[o].complete
      <4> DEFINE old == summaries[o]
      <4>1. old = summaries[o]
        OBVIOUS
      <4> HIDE DEF old, o
      <4>2. summaries'[o] = [writer |-> IF old.writer = p THEN p ELSE Absent,
                             whole |-> (old.writer = p),
                             complete |-> old.complete, reports |-> old.reports]
        BY <3>8, <4>1
      <4>3. summaries'[o].writer = (IF old.writer = p THEN p ELSE Absent)
        BY <4>2
      <4>4. summaries'[o].whole = (old.writer = p)
        BY <4>2
      <4>5. summaries'[o].complete = old.complete
        BY <4>2
      <4> QED
        BY <2>0, <4>1, <4>3, <4>4, <4>5
    <3> HIDE DEF o
    <3>10. summaries'[o].writer = p => summaries'[o].whole /\ (summaries'[o].complete <=> exit'[p] = "0")
      BY <3>5, <3>7, <3>9
    <3> QED
      BY <3>1, <3>3, <3>10 DEF o
  <2>4. CASE Stops(p)
    <3>1. at'[p] = "ended" /\ exit'[p] \in {"1", "killed"}
      BY <2>4 DEF Stops, EvaluatorTypes
    <3> QED
      BY <3>1
  <2> QED
    BY <2>1, <2>2, <2>3, <2>4, EvaluatorMoves
<1>5. \A q \in Evaluators :
        /\ at'[q] # "ended" => exit'[q] = Absent
        /\ at'[q] = "write" => summaries'[arguments[q].output] # Absent
        /\ at'[q] = "write" => Len(run_summaries'[q]) = Len(arguments[q].reports)
        /\ exit'[q] \in {"0", "2"} =>
             LET summary == summaries'[arguments[q].output]
             IN  /\ summary # Absent
                 /\ summary.writer = q => summary.whole /\ (summary.complete <=> exit'[q] = "0")
  BY <1>3, <1>4
<1> QED
  BY <1>1, <1>5 DEF ExitTells, AllRead

\* A script's state stays as it is while an evaluation takes a step, and only the
\* script that made the results directory has an evaluation that can.
LEMMA ScriptInvKeptByEvaluations ==
  ASSUME EvaluatorTypes, FileTypes, ScriptTypes, ArgumentsAreKnown, SummariesAreOwned, ExitTells,
         ScriptInv, NEW p \in Evaluators, Evaluate(p), UNCHANGED script
  PROVE  ScriptInv'
<1>1. UNCHANGED <<files, script_at, results, annotated, temporary, run_completed, script_exit>>
  BY EvaluatorMoves DEF script
<1>2. at[p] # "ended" /\ exit[p] = Absent
  BY EvaluatorMoves DEF ExitTells
<1>3. p \in Scripts => script_at[p] = "wait" /\ results = p
  BY <1>2 DEF ScriptInv, ScriptStands
<1>4. ASSUME NEW s \in Scripts
      PROVE  /\ at'[s] # "ended" => script_at[s] = "wait"
             /\ exit'[s] # Absent => results = s
             /\ script_at[s] \in Unevaluated => exit'[s] = Absent /\ run_summaries'[s] = <<>>
             /\ exit'[s] # Absent => script_at[s] = "wait" \/ exit[s] # Absent
             /\ at'[s] = "write" \/ exit'[s] \in {"0", "2"} => summaries'["results"].writer = s
             /\ run_completed[s] \/ script_exit[s] = "0" \/ temporary[s] = "removed" =>
                  exit'[s] = "0"
  <2>0. s \in Evaluators /\ s # Absent /\ "results" \in Summaries
    BY EvaluationAssumption, AbsenceAssumption
  <2>1. CASE s # p
    <3>1. /\ at'[s] = at[s] /\ run_summaries'[s] = run_summaries[s]
          /\ exit'[s] = exit[s]
      BY <2>0, <2>1, OthersUnchanged
    <3>2. ASSUME at'[s] = "write" \/ exit'[s] \in {"0", "2"}
          PROVE  summaries'["results"].writer = s
      <4>1. results = s /\ summaries["results"].writer = s
        BY <3>1, <3>2, AbsenceAssumption DEF ScriptInv, ScriptStands
      <4>2. p \notin Scripts
        BY <1>3, <2>1, <4>1
      <4>3. arguments[p].output # "results"
        BY <4>2, ArgumentFacts
      <4> QED
        BY <2>0, <4>1, <4>3, SummariesMoved
    <3> QED
      BY <3>1, <3>2 DEF ScriptInv, ScriptStands
  <2>2. CASE s = p
    <3>1. script_at[s] = "wait" /\ results = s /\ arguments[s].output = "results"
      BY <1>3, <2>2, ArgumentFacts
    <3>2. ~(run_completed[s] \/ script_exit[s] = "0" \/ temporary[s] = "removed")
      BY <1>2, <2>2, AbsenceAssumption DEF ScriptInv, ScriptStands
    <3>3. ASSUME at'[s] = "write" \/ exit'[s] \in {"0", "2"}
          PROVE  summaries'["results"].writer = s
      <4>1. CASE OpenSummary(p)
        <5>1. summaries' = [summaries EXCEPT !["results"] =
                [writer |-> p, whole |-> FALSE, complete |-> complete[p],
                 reports |-> run_summaries[p]]]
          BY <2>2, <3>1, <4>1 DEF OpenSummary
        <5> QED
          BY <2>0, <2>2, <5>1 DEF EvaluatorTypes
      <4>2. CASE WriteSummary(p)
        <5>1. summaries["results"].writer = p
          BY <2>2, <4>2 DEF WriteSummary, ScriptInv, ScriptStands
        <5> QED
          BY <2>0, <2>2, <5>1, SummariesMoved
      <4>3. CASE CheckDestination(p) \/ ReadReport(p)
        <5>1. at'[p] = "read" /\ exit' = exit
          BY <4>3 DEF CheckDestination, ReadReport, EvaluatorTypes
        <5> QED
          BY <1>2, <2>2, <3>3, <5>1, AbsenceAssumption
      <4>4. CASE Stops(p)
        <5>1. at'[p] = "ended" /\ exit'[p] \in {"1", "killed"}
          BY <4>4 DEF Stops, EvaluatorTypes
        <5> QED
          BY <2>2, <3>3, <5>1
      <4> QED
        BY <4>1, <4>2, <4>3, <4>4, EvaluatorMoves
    <3> QED
      BY <3>1, <3>2, <3>3 DEF Unevaluated
  <2> QED
    BY <2>1, <2>2
<1> QED
  BY <1>1, <1>4 DEF ScriptInv, ScriptStands


-----------------------------------------------------------------------------
(* Steps of a script *)

LEMMA LineAfter ==
  ASSUME NEW line \in {"pass-1", "pass-2", "pass-3", "annotate"}
  PROVE  /\ After(line) \in Lines
         /\ line = "pass-1" => After(line) = "pass-2"
         /\ line = "pass-2" => After(line) = "pass-3"
         /\ line = "pass-3" => After(line) = "annotate"
         /\ line = "annotate" => After(line) = "evaluate"
  BY DEF After, Lines

\* A pass goes on after a complete report, or the script is on its way out.
LEMMA PassContinues ==
  ASSUME ScriptTypes, NEW s \in Scripts, NEW o \in Outcomes, Continue(s, o.status),
         script_at[s] \in {"pass-1", "pass-2", "pass-3", "annotate"}
  PROVE  /\ script_at' \in [Scripts -> Lines] /\ script_exit' \in [Scripts -> Statuses]
         /\ \A t \in Scripts \ {s} : script_at'[t] = script_at[t] /\ script_exit'[t] = script_exit[t]
         /\ \/ /\ script_at'[s] = After(script_at[s]) /\ script_exit'[s] = script_exit[s]
               /\ o.report # Absent /\ o.report.status = "complete"
            \/ script_at'[s] = "trap" /\ script_exit'[s] # "0"
<1>1. After(script_at[s]) \in Lines /\ "trap" \in Lines
  BY LineAfter DEF Lines
<1>2. /\ o.status \in Statuses
      /\ o.status = "0" => o.report # Absent /\ o.report.status = "complete"
  BY SuccessIsComplete DEF Statuses
<1> QED
  BY <1>1, <1>2 DEF Continue, Abort, GoTo, ScriptTypes

LEMMA ScriptTypesKept ==
  ASSUME ScriptTypes, EvaluatorTypes, NEW s \in Scripts, Script(s)
  PROVE  ScriptTypes'
<1>0. /\ {"trap", "ended", "mktemp", "pass-1", "wait"} \subseteq Lines
      /\ {"0", "1", "killed"} \subseteq Statuses /\ exit[s] \in Statuses
  BY EvaluationAssumption DEF EvaluatorTypes, Lines, Statuses
<1>1. CASE MakeResults(s)
  BY <1>0, <1>1 DEF MakeResults, EndWithoutTrap, GoTo, ScriptTypes
<1>2. CASE MakeTemporary(s)
  BY <1>0, <1>2 DEF MakeTemporary, EndWithoutTrap, GoTo, ScriptTypes
<1>3. CASE TimingPass(s)
  <2>1. /\ script_at' \in [Scripts -> Lines] /\ script_exit' \in [Scripts -> Statuses]
    BY <1>3, PassContinues DEF TimingPass
  <2> QED
    BY <1>3, <2>1 DEF TimingPass, ScriptTypes
<1>4. CASE AnnotatedRun(s)
  <2>1. /\ script_at' \in [Scripts -> Lines] /\ script_exit' \in [Scripts -> Statuses]
    BY <1>4, PassContinues DEF AnnotatedRun
  <2> QED
    BY <1>4, <2>1 DEF AnnotatedRun, ScriptTypes
<1>5. CASE StartEvaluation(s)
  BY <1>0, <1>5 DEF StartEvaluation, GoTo, ScriptTypes
<1>6. CASE EvaluationReturns(s)
  BY <1>0, <1>6 DEF EvaluationReturns, Abort, GoTo, ScriptTypes
<1>7. CASE Trap(s)
  BY <1>0, <1>7 DEF Trap, GoTo, ScriptTypes
<1>8. CASE Interrupted(s)
  BY <1>0, <1>8 DEF Interrupted, Abort, EndWithoutTrap, GoTo, ScriptTypes
<1> QED
  BY <1>1, <1>2, <1>3, <1>4, <1>5, <1>6, <1>7, <1>8 DEF Script

\* The reports a process has read are changed by nobody but its script, which
\* is not before them any more.
LEMMA CollectedKeptByScripts ==
  ASSUME EvaluatorTypes, ScriptTypes, FileTypes, ArgumentsAreKnown, ScriptInv,
         NEW s \in Scripts, Script(s), NEW q \in Evaluators, CollectedIsTrue(q)
  PROVE  CollectedIsTrue(q)'
<1>1. /\ UNCHANGED <<arguments, run_summaries, complete>>
      /\ at'[q] \in {"read", "write"} => at[q] \in {"read", "write"}
  BY ScriptMoves DEF EvaluatorTypes
<1>2. ASSUME NEW k \in 1 .. Len(run_summaries[q]), NEW c \in Accepted,
             c.path = arguments[q].reports[k], files[c.path] \in {c.report, Absent}
      PROVE  files'[c.path] \in {c.report, Absent}
  <2>1. /\ c.path \in Paths
        /\ q \in Scripts => c.path[1] = q
        /\ q \notin Scripts => c.path[1] = User
    <3>1. k \in 1 .. Len(arguments[q].reports)
      BY ArgumentFacts DEF CollectedIsTrue, EvaluatorTypes
    <3>2. arguments[q].reports[k] \in Paths
      BY <3>1, ArgumentFacts
    <3>3. CASE q \in Scripts
      <4>1. k \in 1 .. 3
        BY <3>1, <3>3, ArgumentFacts
      <4> QED
        BY <1>2, <3>2, <3>3, <4>1, ArgumentFacts
    <3>4. CASE q \notin Scripts
      BY <1>2, <3>1, <3>2, <3>4, ArgumentFacts
    <3> QED
      BY <3>3, <3>4
  <2>2. CASE TimingPass(s)
    <3>1. run_summaries[s] = <<>>
      BY <2>2 DEF TimingPass, ScriptInv, ScriptStands, Unevaluated
    <3>2. q # s
      BY <1>2, <3>1
    <3>3. c.path[1] # s
      BY <2>1, <3>2, EvaluationAssumption
    <3>4. files'[c.path] = files[c.path]
      BY <2>1, <3>3, ScriptMoves
    <3> QED
      BY <1>2, <3>4
  <2>3. CASE ~TimingPass(s)
    <3>1. files'[c.path] \in {files[c.path], Absent}
      BY <2>1, <2>3, ScriptMoves
    <3> QED
      BY <1>2, <3>1
  <2> QED
    BY <2>2, <2>3
<1> QED
  BY <1>1, <1>2 DEF CollectedIsTrue, ReferencesAreValid

\* Starting the evaluation is the only step of a script that an evaluation sees.
LEMMA EvaluationStarted ==
  ASSUME EvaluatorTypes, ScriptTypes, FileTypes, ScriptInv, NEW s \in Scripts, Script(s),
         NEW q \in Evaluators
  PROVE  \/ at'[q] = at[q]
         \/ at[q] = "ended" /\ at'[q] = "start" /\ exit[q] = Absent
<1>1. CASE StartEvaluation(s)
  <2>1. at' = [at EXCEPT ![s] = "start"] /\ script_at[s] = "evaluate"
    BY <1>1 DEF StartEvaluation
  <2>2. at[s] = "ended" /\ exit[s] = Absent
    BY <2>1 DEF ScriptInv, ScriptStands, Unevaluated
  <2> QED
    BY <2>1, <2>2 DEF EvaluatorTypes
<1>2. CASE ~StartEvaluation(s)
  BY <1>2, ScriptMoves
<1> QED
  BY <1>1, <1>2

LEMMA OwnedKeptByScripts ==
  ASSUME EvaluatorTypes, ScriptTypes, FileTypes, SummariesAreOwned, ScriptInv,
         NEW s \in Scripts, Script(s)
  PROVE  SummariesAreOwned'
<1>1. UNCHANGED <<summaries, arguments, run_summaries, complete, exit>>
  BY ScriptMoves
<1>2. ASSUME NEW o \in Summaries, summaries[o] # Absent, summaries[o].writer # Absent
      PROVE  at'[summaries[o].writer] = at[summaries[o].writer]
  <2>1. summaries[o].writer \in Evaluators
    BY <1>2 DEF EvaluatorTypes, SummaryFiles
  <2>2. at[summaries[o].writer] = "write" \/ exit[summaries[o].writer] # Absent
    BY <1>2 DEF SummariesAreOwned
  <2> QED
    BY <2>1, <2>2, EvaluationStarted
<1> QED
  BY <1>1, <1>2 DEF SummariesAreOwned, AllRead

LEMMA ExitTellsKeptByScripts ==
  ASSUME EvaluatorTypes, ScriptTypes, FileTypes, ExitTells, ScriptInv, NEW s \in Scripts, Script(s)
  PROVE  ExitTells'
<1>1. UNCHANGED <<summaries, arguments, run_summaries, complete, exit>>
  BY ScriptMoves
<1> QED
  BY <1>1, EvaluationStarted DEF ExitTells, AllRead


\* A script leaves the others alone: it changes neither their reports nor what
\* is in a results directory that is not its own.
LEMMA OtherScriptsUnchanged ==
  ASSUME EvaluatorTypes, ScriptTypes, FileTypes, ScriptInv, NEW s \in Scripts, Script(s),
         NEW t \in Scripts \ {s}
  PROVE  /\ script_at'[t] = script_at[t] /\ script_exit'[t] = script_exit[t]
         /\ temporary'[t] = temporary[t] /\ run_completed'[t] = run_completed[t]
         /\ at'[t] = at[t]
         /\ \A k \in 1 .. 3 : files'[<<t, k>>] = files[<<t, k>>]
         /\ results = t => results' = t /\ annotated' = annotated
<1>1. \A k \in 1 .. 3 : files'[<<t, k>>] = files[<<t, k>>]
  BY ScriptMoves, PathFacts
<1>2. t \in Evaluators /\ t # Absent
  BY EvaluationAssumption, AbsenceAssumption
<1>3. at'[t] = at[t]
  BY <1>2, ScriptMoves DEF EvaluatorTypes
<1>4. CASE MakeResults(s)
  BY <1>1, <1>2, <1>3, <1>4 DEF MakeResults, EndWithoutTrap, GoTo, ScriptTypes
<1>5. CASE MakeTemporary(s)
  BY <1>1, <1>3, <1>5 DEF MakeTemporary, EndWithoutTrap, GoTo, ScriptTypes
<1>6. CASE TimingPass(s)
  <2>1. script_at'[t] = script_at[t] /\ script_exit'[t] = script_exit[t]
    BY <1>6, PassContinues DEF TimingPass
  <2> QED
    BY <1>1, <1>3, <1>6, <2>1 DEF TimingPass
<1>7. CASE AnnotatedRun(s)
  <2>1. script_at'[t] = script_at[t] /\ script_exit'[t] = script_exit[t]
    BY <1>7, PassContinues DEF AnnotatedRun
  <2>2. results = s
    BY <1>7 DEF AnnotatedRun, ScriptInv, ScriptStands
  <2> QED
    BY <1>1, <1>3, <1>7, <2>1, <2>2 DEF AnnotatedRun
<1>8. CASE StartEvaluation(s)
  BY <1>1, <1>3, <1>8 DEF StartEvaluation, GoTo, ScriptTypes
<1>9. CASE EvaluationReturns(s)
  BY <1>1, <1>3, <1>9 DEF EvaluationReturns, Abort, GoTo, ScriptTypes
<1>10. CASE Trap(s)
  BY <1>1, <1>3, <1>10 DEF Trap, GoTo, ScriptTypes
<1>11. CASE Interrupted(s)
  BY <1>1, <1>3, <1>11 DEF Interrupted, Abort, EndWithoutTrap, GoTo, ScriptTypes
<1> QED
  BY <1>4, <1>5, <1>6, <1>7, <1>8, <1>9, <1>10, <1>11 DEF Script

LEMMA OtherScriptsStand ==
  ASSUME EvaluatorTypes, ScriptTypes, FileTypes, ScriptInv, NEW s \in Scripts, Script(s),
         NEW t \in Scripts \ {s}
  PROVE  ScriptStands(t)'
<1>1. ScriptStands(t)
  BY DEF ScriptInv
<1>2. UNCHANGED <<summaries, arguments, run_summaries, complete, exit>>
  BY ScriptMoves
<1>3. /\ script_at'[t] = script_at[t] /\ script_exit'[t] = script_exit[t]
      /\ temporary'[t] = temporary[t] /\ run_completed'[t] = run_completed[t]
      /\ at'[t] = at[t]
      /\ \A k \in 1 .. 3 : files'[<<t, k>>] = files[<<t, k>>]
      /\ results = t => results' = t /\ annotated' = annotated
  BY OtherScriptsUnchanged
<1>4. files'[<<t, 1>>] = files[<<t, 1>>] /\ files'[<<t, 2>>] = files[<<t, 2>>]
      /\ files'[<<t, 3>>] = files[<<t, 3>>]
  BY <1>3
<1>5. script_at[t] \in {"evaluate", "wait"} \/ exit[t] # Absent => results = t
  BY <1>1 DEF ScriptStands
<1> QED
  BY <1>1, <1>2, <1>3, <1>4, <1>5 DEF ScriptStands, Unevaluated

LEMMA ScriptStandsAfterPass ==
  ASSUME EvaluatorTypes, ScriptTypes, FileTypes, NEW s \in Scripts, ScriptStands(s), TimingPass(s)
  PROVE  ScriptStands(s)'
<1>1. PICK o \in Outcomes : /\ files' = [files EXCEPT ![<<s, PassNumber(s)>>] = o.report]
                            /\ Continue(s, o.status)
  BY DEF TimingPass
<1>2. /\ UNCHANGED <<summaries, at, arguments, run_summaries, complete, exit,
                     results, annotated, temporary, run_completed>>
      /\ script_at[s] \in {"pass-1", "pass-2", "pass-3"}
  BY DEF TimingPass
<1>3. \/ /\ script_at'[s] = After(script_at[s]) /\ script_exit'[s] = script_exit[s]
         /\ o.report # Absent /\ o.report.status = "complete"
      \/ script_at'[s] = "trap" /\ script_exit'[s] # "0"
  BY <1>1, <1>2, PassContinues
<1>4. \A k \in 1 .. 3 : files'[<<s, k>>] = IF k = PassNumber(s) THEN o.report ELSE files[<<s, k>>]
  <2>1. \A k \in 1 .. 3 : <<s, k>> \in Paths
    BY PathFacts
  <2> QED
    BY <1>1, <2>1 DEF FileTypes
<1>5. /\ results = s /\ at[s] = "ended" /\ exit[s] = Absent /\ script_exit[s] = Absent
      /\ ~run_completed[s] /\ temporary[s] # "removed" /\ run_summaries[s] = <<>>
  BY <1>2 DEF ScriptStands, Unevaluated
<1>6. CASE script_at'[s] = "trap"
  BY <1>2, <1>3, <1>5, <1>6, AbsenceAssumption, LineAfter DEF ScriptStands, Unevaluated
<1>7. CASE script_at'[s] # "trap"
  <2>1. /\ script_at'[s] = After(script_at[s]) /\ script_exit'[s] = Absent
        /\ o.report # Absent /\ o.report.status = "complete"
    BY <1>3, <1>5, <1>7
  <2>2. CASE script_at[s] = "pass-1"
    <3>1. script_at'[s] = "pass-2" /\ files'[<<s, 1>>] = o.report
      BY <1>2, <1>4, <2>1, <2>2, LineAfter, PassNumbers
    <3> QED
      BY <1>2, <1>5, <2>1, <3>1, AbsenceAssumption DEF ScriptStands, Unevaluated
  <2>3. CASE script_at[s] = "pass-2"
    <3>1. /\ script_at'[s] = "pass-3" /\ files'[<<s, 2>>] = o.report
          /\ files'[<<s, 1>>] = files[<<s, 1>>]
      BY <1>2, <1>4, <2>1, <2>3, LineAfter, PassNumbers
    <3>2. files[<<s, 1>>] # Absent /\ files[<<s, 1>>].status = "complete"
      BY <2>3 DEF ScriptStands
    <3> QED
      BY <1>2, <1>5, <2>1, <3>1, <3>2, AbsenceAssumption DEF ScriptStands, Unevaluated
  <2>4. CASE script_at[s] = "pass-3"
    <3>1. /\ script_at'[s] = "annotate" /\ files'[<<s, 3>>] = o.report
          /\ files'[<<s, 1>>] = files[<<s, 1>>] /\ files'[<<s, 2>>] = files[<<s, 2>>]
      BY <1>2, <1>4, <2>1, <2>4, LineAfter, PassNumbers
    <3>2. /\ files[<<s, 1>>] # Absent /\ files[<<s, 1>>].status = "complete"
          /\ files[<<s, 2>>] # Absent /\ files[<<s, 2>>].status = "complete"
      BY <2>4 DEF ScriptStands
    <3> QED
      BY <1>2, <1>5, <2>1, <3>1, <3>2, AbsenceAssumption DEF ScriptStands, Unevaluated
  <2> QED
    BY <1>2, <2>2, <2>3, <2>4
<1> QED
  BY <1>6, <1>7

LEMMA ScriptStandsAfterStep ==
  ASSUME EvaluatorTypes, ScriptTypes, FileTypes, ExitTells, NEW s \in Scripts, ScriptStands(s),
         Script(s)
  PROVE  ScriptStands(s)'
<1>0. s # Absent /\ s \in Evaluators /\ Absent \notin {"0", "1", "2", "killed"}
  BY EvaluationAssumption, AbsenceAssumption
<1>1. CASE MakeResults(s)
  <2>1. /\ script_at[s] = "mkdir" /\ UNCHANGED <<evaluation, annotated, temporary, run_completed>>
        /\ \/ results' = s /\ script_at'[s] = "mktemp" /\ UNCHANGED script_exit
           \/ script_at'[s] = "ended" /\ script_exit'[s] = "1"
    BY <1>1 DEF MakeResults, EndWithoutTrap, GoTo, ScriptTypes
  <2> QED
    BY <1>0, <2>1 DEF ScriptStands, Unevaluated, evaluation
<1>2. CASE MakeTemporary(s)
  <2>1. /\ script_at[s] = "mktemp" /\ UNCHANGED <<evaluation, annotated, results, run_completed>>
        /\ temporary'[s] \in {temporary[s], "kept"}
        /\ \/ script_at'[s] = "pass-1" /\ UNCHANGED script_exit
           \/ script_at'[s] = "ended" /\ script_exit'[s] = "1"
    BY <1>2 DEF MakeTemporary, EndWithoutTrap, GoTo, ScriptTypes
  <2> QED
    BY <1>0, <2>1 DEF ScriptStands, Unevaluated, evaluation
<1>3. CASE TimingPass(s)
  BY <1>3, ScriptStandsAfterPass
<1>4. CASE AnnotatedRun(s)
  <2>1. PICK o \in Outcomes : annotated' = o.report /\ Continue(s, o.status)
    BY <1>4 DEF AnnotatedRun
  <2>2. /\ script_at[s] = "annotate"
        /\ UNCHANGED <<evaluation, results, temporary, run_completed>>
    BY <1>4 DEF AnnotatedRun
  <2>3. \/ /\ script_at'[s] = "evaluate" /\ script_exit'[s] = script_exit[s]
           /\ annotated' # Absent /\ annotated'.status = "complete"
        \/ script_at'[s] = "trap" /\ script_exit'[s] # "0"
    BY <2>1, <2>2, PassContinues, LineAfter
  <2> QED
    BY <1>0, <2>2, <2>3 DEF ScriptStands, Unevaluated, evaluation
<1>5. CASE StartEvaluation(s)
  <2>1. /\ script_at[s] = "evaluate" /\ script_at'[s] = "wait" /\ at'[s] = "start"
        /\ UNCHANGED <<files, summaries, arguments, run_summaries, complete, exit,
                       results, annotated, temporary, run_completed, script_exit>>
    BY <1>0, <1>5 DEF StartEvaluation, GoTo, ScriptTypes, EvaluatorTypes
  <2> QED
    BY <1>0, <2>1 DEF ScriptStands, Unevaluated
<1>6. CASE EvaluationReturns(s)
  <2>1. /\ script_at[s] = "wait" /\ at[s] = "ended" /\ script_at'[s] = "trap"
        /\ UNCHANGED <<evaluation, results, annotated, temporary>>
    BY <1>6 DEF EvaluationReturns, Abort, GoTo, ScriptTypes
  <2>2. \/ /\ exit[s] = "0" /\ run_completed'[s] = TRUE /\ script_exit'[s] = "0"
        \/ /\ exit[s] # "0" /\ UNCHANGED run_completed /\ script_exit'[s] = exit[s]
    BY <1>6 DEF EvaluationReturns, Abort, ScriptTypes
  <2> QED
    BY <1>0, <2>1, <2>2 DEF ScriptStands, Unevaluated, evaluation
<1>7. CASE Trap(s)
  <2>1. /\ script_at[s] = "trap" /\ script_at'[s] = "ended"
        /\ UNCHANGED <<summaries, at, arguments, run_summaries, complete, exit,
                       results, annotated, run_completed, script_exit>>
        /\ temporary'[s] = temporary[s] \/ run_completed[s]
    BY <1>7 DEF Trap, GoTo, ScriptTypes
  <2> QED
    BY <1>0, <2>1 DEF ScriptStands, Unevaluated
<1>8. CASE Interrupted(s)
  <2>1. /\ script_at[s] \in Unevaluated /\ script_at[s] \notin {"mkdir", "ended"}
        /\ script_at'[s] \in {"trap", "ended"} /\ script_exit'[s] = "killed"
        /\ UNCHANGED <<evaluation, results, annotated, temporary, run_completed>>
    BY <1>8 DEF Interrupted, Abort, EndWithoutTrap, GoTo, ScriptTypes, Unevaluated
  <2> QED
    BY <1>0, <2>1 DEF ScriptStands, Unevaluated, evaluation
<1> QED
  BY <1>1, <1>2, <1>3, <1>4, <1>5, <1>6, <1>7, <1>8 DEF Script


-----------------------------------------------------------------------------
(* The inductive invariant *)

LEMMA InitStands == Init => EInv
<1> SUFFICES ASSUME Init PROVE EInv
  OBVIOUS
<1>1. PICK by_hand \in BOOLEAN, first \in UserReports \cup {Absent},
           second \in UserReports \cup {Absent} :
       /\ files = [path \in Paths |-> CASE path = <<User, 1>> -> first
                                       [] path = <<User, 2>> -> second
                                       [] OTHER              -> Absent]
       /\ at = [p \in Evaluators |-> IF by_hand /\ p \notin Scripts THEN "start" ELSE "ended"]
       /\ script_at = [s \in Scripts |-> IF by_hand THEN "ended" ELSE "mkdir"]
  BY DEF Init
<1>2. PICK discard \in 0 .. Discard, references \in UserReferences :
       arguments = [p \in Evaluators |->
         IF p \in Scripts
         THEN [reports |-> TimingReports(p), discard |-> Discard, references |-> Absent,
               output |-> "results"]
         ELSE [reports |-> <<<<User, 1>>, <<User, 2>>>>, discard |-> discard,
               references |-> references, output |-> "summary"]]
  BY DEF Init
<1>3. /\ summaries = [output \in Summaries |-> Absent]
      /\ run_summaries = [p \in Evaluators |-> <<>>]
      /\ complete = [p \in Evaluators |-> TRUE]
      /\ exit = [p \in Evaluators |-> Absent]
      /\ results = Absent
      /\ temporary = [s \in Scripts |-> Absent]
      /\ run_completed = [s \in Scripts |-> FALSE]
      /\ script_exit = [s \in Scripts |-> Absent]
  BY DEF Init
<1>4. Absent \notin {"0", "1", "2", "killed"}
  BY AbsenceAssumption
<1>5. EvaluatorTypes
  <2>1. <<>> \in Seq(Entries)
    OBVIOUS
  <2> QED
    BY <1>1, <1>3, <2>1 DEF EvaluatorTypes, Statuses
<1>6. ScriptTypes
  BY <1>1, <1>3 DEF ScriptTypes, Lines, Statuses
<1>7. FileTypes
  <2>1. files \in [Paths -> RunReports \cup UserReports \cup {Absent}]
    BY <1>1 DEF FileTypes
  <2>2. ASSUME NEW s \in Scripts, NEW k \in 1 .. 3
        PROVE  files[<<s, k>>] = Absent
    <3>1. <<s, k>> \in Paths /\ <<s, k>> # <<User, 1>> /\ <<s, k>> # <<User, 2>>
      BY PathFacts
    <3> QED
      BY <1>1, <3>1
  <2> QED
    BY <2>1, <2>2 DEF FileTypes
<1>8. ArgumentsAreKnown
  <2>1. ASSUME NEW p \in Evaluators, p \in Scripts
        PROVE  arguments[p] = [reports |-> TimingReports(p), discard |-> Discard,
                               references |-> Absent, output |-> "results"]
    BY <1>2, <2>1
  <2>2. ASSUME NEW p \in Evaluators, p \notin Scripts
        PROVE  /\ arguments[p].reports = <<<<User, 1>>, <<User, 2>>>>
               /\ arguments[p].discard \in 0 .. Discard
               /\ arguments[p].references \in UserReferences
               /\ arguments[p].output = "summary"
    <3>1. arguments[p] = [reports |-> <<<<User, 1>>, <<User, 2>>>>, discard |-> discard,
                          references |-> references, output |-> "summary"]
      BY <1>2, <2>2
    <3> QED
      BY <3>1
  <2> QED
    BY <2>1, <2>2 DEF ArgumentsAreKnown
<1>9. ASSUME NEW p \in Evaluators
      PROVE  CollectedIsTrue(p)
  <2>1. Len(run_summaries[p]) = 0 /\ at[p] \notin {"read", "write"} /\ complete[p]
    BY <1>1, <1>3
  <2>2. 0 <= Len(arguments[p].reports)
    BY <1>8, ArgumentFacts
  <2> QED
    BY <2>1, <2>2 DEF CollectedIsTrue
<1>10. SummariesAreOwned
  BY <1>3 DEF SummariesAreOwned
<1>11. ExitTells
  BY <1>1, <1>3, <1>4 DEF ExitTells
<1>12. ScriptInv
  <2> SUFFICES ASSUME NEW s \in Scripts PROVE ScriptStands(s)
    BY DEF ScriptInv
  <2>1. s \in Evaluators
    BY EvaluationAssumption
  <2>2. /\ script_at[s] \in {"mkdir", "ended"} /\ at[s] = "ended" /\ exit[s] = Absent
        /\ script_exit[s] = Absent /\ ~run_completed[s] /\ temporary[s] = Absent
        /\ run_summaries[s] = <<>>
    BY <1>1, <1>3, <2>1
  <2>3. Absent # "removed"
    BY AbsenceAssumption
  <2> QED
    BY <1>4, <2>2, <2>3 DEF ScriptStands, Unevaluated
<1> QED
  BY <1>5, <1>6, <1>7, <1>8, <1>9, <1>10, <1>11, <1>12 DEF EInv

LEMMA StepStands == EInv /\ [Next]_vars => EInv'
<1> SUFFICES ASSUME EInv, [Next]_vars PROVE EInv'
  OBVIOUS
<1>0. /\ EvaluatorTypes /\ ScriptTypes /\ FileTypes /\ ArgumentsAreKnown
      /\ \A p \in Evaluators : CollectedIsTrue(p)
      /\ SummariesAreOwned /\ ExitTells /\ ScriptInv
  BY DEF EInv
<1>1. ASSUME NEW p \in Evaluators, Evaluate(p), UNCHANGED script
      PROVE  EInv'
  <2>1. UNCHANGED <<files, arguments>>
    BY <1>1, EvaluatorMoves
  <2>2. EvaluatorTypes'
    BY <1>0, <1>1, EvaluatorTypesKept
  <2>3. ScriptTypes'
    BY <1>0, <1>1 DEF ScriptTypes, script
  <2>4. FileTypes' /\ ArgumentsAreKnown'
    BY <1>0, <2>1 DEF FileTypes, ArgumentsAreKnown
  <2>5. \A q \in Evaluators : CollectedIsTrue(q)'
    BY <1>0, <1>1, CollectedKept
  <2>6. SummariesAreOwned'
    BY <1>0, <1>1, OwnedKept
  <2>7. ExitTells'
    BY <1>0, <1>1, ExitTellsKept
  <2>8. ScriptInv'
    BY <1>0, <1>1, ScriptInvKeptByEvaluations
  <2> QED
    BY <2>2, <2>3, <2>4, <2>5, <2>6, <2>7, <2>8 DEF EInv
<1>2. ASSUME NEW s \in Scripts, Script(s)
      PROVE  EInv'
  <2>1. EvaluatorTypes'
    <3>1. /\ UNCHANGED <<summaries, arguments, run_summaries, complete, exit>>
          /\ at' = at \/ at' = [at EXCEPT ![s] = "start"]
      BY <1>0, <1>2, ScriptMoves
    <3> QED
      BY <1>0, <3>1 DEF EvaluatorTypes
  <2>2. ScriptTypes'
    BY <1>0, <1>2, ScriptTypesKept
  <2>3. ArgumentsAreKnown'
    BY <1>0, <1>2, ScriptMoves DEF ArgumentsAreKnown
  <2>4. FileTypes'
    <3>1. files' \in [Paths -> RunReports \cup UserReports \cup {Absent}]
      BY <1>0, <1>2, ScriptMoves DEF FileTypes
    <3>2. ASSUME NEW t \in Scripts, NEW k \in 1 .. 3
          PROVE  files'[<<t, k>>] \in RunReports \cup {Absent}
      <4>1. CASE t = s
        BY <1>0, <1>2, <4>1, ScriptMoves DEF FileTypes
      <4>2. CASE t # s
        <5>1. files'[<<t, k>>] = files[<<t, k>>]
          BY <1>0, <1>2, <4>2, OtherScriptsUnchanged
        <5> QED
          BY <1>0, <5>1 DEF FileTypes
      <4> QED
        BY <4>1, <4>2
    <3> QED
      BY <3>1, <3>2 DEF FileTypes
  <2>5. \A q \in Evaluators : CollectedIsTrue(q)'
    BY <1>0, <1>2, CollectedKeptByScripts
  <2>6. SummariesAreOwned'
    BY <1>0, <1>2, OwnedKeptByScripts
  <2>7. ExitTells'
    BY <1>0, <1>2, ExitTellsKeptByScripts
  <2>8. ScriptInv'
    <3>1. ScriptStands(s)'
      BY <1>0, <1>2, ScriptStandsAfterStep DEF ScriptInv
    <3>2. \A t \in Scripts \ {s} : ScriptStands(t)'
      BY <1>0, <1>2, OtherScriptsStand
    <3> QED
      BY <3>1, <3>2 DEF ScriptInv
  <2> QED
    BY <2>1, <2>2, <2>3, <2>4, <2>5, <2>6, <2>7, <2>8 DEF EInv
<1>3. CASE UNCHANGED vars
  BY <1>3 DEF vars, evaluation, script, EInv, EvaluatorTypes, ScriptTypes, FileTypes,
     ArgumentsAreKnown, CollectedIsTrue, ReferencesAreValid, SummariesAreOwned, AllRead, ExitTells,
     ScriptInv, ScriptStands
<1> QED
  BY <1>1, <1>2, <1>3 DEF Next

\* Every state of every evaluation, by scripts or by hand, satisfies the invariant.
LEMMA EvaluationInvariance == Spec => []EInv
  BY InitStands, StepStands, PTL DEF Spec

\* run_image_evaluation.sh: the timing reports of a script stay until a whole,
\* complete summary of all three of them by its own evaluation is there, beside
\* a complete annotated run, whatever fails, is killed or is started again.
THEOREM ReportsOutlive == Spec => []ReportsOutliveTheirSummary
<1>1. EInv => ReportsOutliveTheirSummary
  <2> SUFFICES ASSUME EInv, NEW s \in Scripts
               PROVE  /\ temporary[s] = "removed" \/ script_exit[s] = "0" =>
                           /\ results = s
                           /\ summaries["results"] # Absent
                           /\ summaries["results"].writer = s
                           /\ summaries["results"].whole /\ summaries["results"].complete
                           /\ Len(summaries["results"].reports) = 3
                           /\ annotated # Absent /\ annotated.status = "complete"
                      /\ script_at[s] \in {"annotate", "evaluate", "wait"} =>
                           \A k \in 1 .. 3 :
                             files[<<s, k>>] # Absent /\ files[<<s, k>>].status = "complete"
    BY DEF ReportsOutliveTheirSummary
  <2>1. ScriptStands(s) /\ ArgumentsAreKnown /\ SummariesAreOwned /\ ExitTells
    BY DEF EInv, ScriptInv
  <2>2. /\ s \in Evaluators /\ s # Absent /\ Absent # "0" /\ "results" \in Summaries
        /\ arguments[s].output = "results" /\ Len(arguments[s].reports) = 3
    BY <2>1, EvaluationAssumption, AbsenceAssumption, ArgumentFacts
  <2>3. ASSUME temporary[s] = "removed" \/ script_exit[s] = "0"
        PROVE  /\ results = s
               /\ summaries["results"] # Absent
               /\ summaries["results"].writer = s
               /\ summaries["results"].whole /\ summaries["results"].complete
               /\ Len(summaries["results"].reports) = 3
               /\ annotated # Absent /\ annotated.status = "complete"
    <3>1. exit[s] = "0"
      BY <2>1, <2>3 DEF ScriptStands
    <3>2. /\ results = s /\ annotated # Absent /\ annotated.status = "complete"
          /\ summaries["results"].writer = s
      BY <2>1, <2>2, <3>1 DEF ScriptStands
    <3>3. /\ summaries["results"] # Absent
          /\ summaries["results"].whole /\ summaries["results"].complete
      BY <2>1, <2>2, <3>1, <3>2 DEF ExitTells
    <3>4. summaries["results"].reports = run_summaries[s] /\ AllRead(s)
      BY <2>1, <2>2, <3>2, <3>3 DEF SummariesAreOwned
    <3> QED
      BY <2>2, <3>2, <3>3, <3>4 DEF AllRead
  <2>4. ASSUME script_at[s] \in {"annotate", "evaluate", "wait"}, NEW k \in 1 .. 3
        PROVE  files[<<s, k>>] # Absent /\ files[<<s, k>>].status = "complete"
    <3>1. k = 1 \/ k = 2 \/ k = 3
      OBVIOUS
    <3> QED
      BY <2>1, <2>4, <3>1 DEF ScriptStands
  <2> QED
    BY <2>3, <2>4
<1> QED
  BY <1>1, EvaluationInvariance, PTL

-----------------------------------------------------------------------------
(* Statistics of samples *)

\* Every set of numbers has a least one.
LEMMA Least ==
  ASSUME NEW T \in SUBSET Nat, T # {}
  PROVE  \E x \in T : \A y \in T : x <= y
<1> DEFINE R == OpToRel(<, Nat)
<1>1. IsWellFoundedOn(R, Nat)
  BY NatLessThanWellFounded
<1>2. R = {p \in Nat \X Nat : p[1] < p[2]}
  BY DEF OpToRel
<1>4. \A a, b \in Nat : <<a, b>> \in R <=> a < b
  BY <1>2
<1> HIDE DEF R
<1>3. PICK x \in T : \A y \in T : ~(<<y, x>> \in R)
  BY <1>1, WFMin
<1>5. ASSUME NEW y \in T
      PROVE  x <= y
  <2>1. x \in Nat /\ y \in Nat /\ ~(y < x)
    BY <1>3, <1>4
  <2> QED
    BY <2>1
<1> QED
  BY <1>5

\* Every part of the places 1 .. n is finite, and a larger part has more places.
LEMMA Parts ==
  ASSUME NEW n \in Nat
  PROVE  /\ \A A \in SUBSET (1 .. n) : IsFiniteSet(A) /\ Cardinality(A) \in 0 .. n
         /\ \A A, B \in SUBSET (1 .. n) : A \subseteq B => Cardinality(A) <= Cardinality(B)
         /\ \A A, B \in SUBSET (1 .. n) :
              A \subseteq B /\ A # B => Cardinality(A) < Cardinality(B)
         /\ \A A \in SUBSET (1 .. n) : Cardinality((1 .. n) \ A) = n - Cardinality(A)
         /\ Cardinality(1 .. n) = n
<1>1. IsFiniteSet(1 .. n) /\ Cardinality(1 .. n) = n
  BY FS_Interval
<1>2. \A A \in SUBSET (1 .. n) : IsFiniteSet(A) /\ Cardinality(A) \in 0 .. n
  <2> SUFFICES ASSUME NEW A \in SUBSET (1 .. n)
               PROVE  IsFiniteSet(A) /\ Cardinality(A) \in 0 .. n
    OBVIOUS
  <2> DEFINE S == 1 .. n
  <2>1. IsFiniteSet(S) /\ Cardinality(S) = n /\ A \in SUBSET S
    BY <1>1
  <2> HIDE DEF S
  <2>2. IsFiniteSet(A) /\ Cardinality(A) <= n
    BY <2>1, FS_Subset
  <2>3. Cardinality(A) \in Nat
    BY <2>2, FS_CardinalityType
  <2> QED
    BY <2>2, <2>3
<1>3. \A A, B \in SUBSET (1 .. n) : A \subseteq B =>
         Cardinality(A) <= Cardinality(B) /\ (Cardinality(A) = Cardinality(B) => A = B)
  BY <1>2, FS_Subset
<1>4. ASSUME NEW A, NEW B, A \in SUBSET (1 .. n), B \in SUBSET (1 .. n), A \subseteq B, A # B
      PROVE  Cardinality(A) < Cardinality(B)
  <2>1. /\ Cardinality(A) \in Nat /\ Cardinality(B) \in Nat
        /\ Cardinality(A) <= Cardinality(B) /\ Cardinality(A) # Cardinality(B)
    BY <1>2, <1>3, <1>4
  <2> QED
    BY <2>1
<1>5. ASSUME NEW A \in SUBSET (1 .. n)
      PROVE  Cardinality((1 .. n) \ A) = n - Cardinality(A)
  <2> DEFINE S == 1 .. n
  <2>1. IsFiniteSet(S) /\ Cardinality(S) = n /\ A \in SUBSET S
    BY <1>1
  <2> HIDE DEF S
  <2>2. Cardinality(S \ A) = Cardinality(S) - Cardinality(S \cap A)
    BY <2>1, FS_Difference
  <2>3. S \cap A = A
    BY <2>1
  <2>4. Cardinality(S \ A) = n - Cardinality(A)
    BY <2>1, <2>2, <2>3
  <2> QED
    BY <2>4 DEF S
<1> QED
  BY <1>1, <1>2, <1>3, <1>4, <1>5

\* In every part there is a place where the sample is greatest.
LEMMA GreatestSample ==
  ASSUME NEW n \in Nat, NEW s \in [1 .. n -> Int], NEW L \in SUBSET (1 .. n), L # {}
  PROVE  \E m \in L : \A j \in L : s[j] <= s[m]
<1> DEFINE UpTo(i) == {j \in 1 .. n : s[j] <= s[i]}
           Rest == {n - Cardinality(UpTo(i)) : i \in L}
<1>1. \A i \in 1 .. n : UpTo(i) \in SUBSET (1 .. n) /\ Cardinality(UpTo(i)) \in 0 .. n
  <2>1. \A i \in 1 .. n : UpTo(i) \in SUBSET (1 .. n)
    OBVIOUS
  <2> HIDE DEF UpTo
  <2> QED
    BY <2>1, Parts
<1>2. PICK m \in L : \A i \in L : n - Cardinality(UpTo(m)) <= n - Cardinality(UpTo(i))
  <2>1. Rest \in SUBSET Nat /\ Rest # {}
    <3> HIDE DEF UpTo
    <3>1. \A i \in L : n - Cardinality(UpTo(i)) \in Nat
      BY <1>1
    <3> QED
      BY <3>1
  <2>2. PICK x \in Rest : \A y \in Rest : x <= y
    <3> HIDE DEF Rest
    <3> QED
    BY <2>1, Least
  <2> HIDE DEF UpTo
  <2> QED
    BY <2>2
<1>3. ASSUME NEW j \in L, ~(s[j] <= s[m])
      PROVE  FALSE
  <2>1. UpTo(m) \subseteq UpTo(j) /\ j \in UpTo(j) /\ j \notin UpTo(m)
    BY <1>3
  <2>2. UpTo(m) \in SUBSET (1 .. n) /\ UpTo(j) \in SUBSET (1 .. n)
    OBVIOUS
  <2> HIDE DEF UpTo
  <2>3. Cardinality(UpTo(m)) < Cardinality(UpTo(j))
    BY <2>1, <2>2, Parts
  <2> QED
    BY <1>1, <1>2, <2>3
<1> QED
  BY <1>3

\* At each place of the sorted samples there is one.
LEMMA RankedSample ==
  ASSUME NEW n \in Nat, NEW s \in [1 .. n -> Int], NEW k \in 1 .. n
  PROVE  \E i \in 1 .. n : /\ Cardinality({j \in 1 .. n : s[j] < s[i]}) < k
                           /\ k <= Cardinality({j \in 1 .. n : s[j] <= s[i]})
<1> DEFINE UpTo(i) == {j \in 1 .. n : s[j] <= s[i]}
           Under(i) == {j \in 1 .. n : s[j] < s[i]}
           High == {i \in 1 .. n : k <= Cardinality(UpTo(i))}
           Ranks == {Cardinality(UpTo(i)) : i \in High}
<1>1. \A i \in 1 .. n : /\ UpTo(i) \in SUBSET (1 .. n) /\ Cardinality(UpTo(i)) \in 0 .. n
                        /\ Under(i) \in SUBSET (1 .. n) /\ Cardinality(Under(i)) \in 0 .. n
  <2>1. \A i \in 1 .. n : UpTo(i) \in SUBSET (1 .. n) /\ Under(i) \in SUBSET (1 .. n)
    OBVIOUS
  <2> HIDE DEF UpTo, Under
  <2> QED
    BY <2>1, Parts
<1>2. High # {}
  <2>1. PICK m \in 1 .. n : \A j \in 1 .. n : s[j] <= s[m]
    BY GreatestSample
  <2>2. UpTo(m) = 1 .. n
    BY <2>1
  <2>3. Cardinality(UpTo(m)) = n
    BY <2>2, Parts
  <2> HIDE DEF UpTo
  <2> QED
    BY <2>3
<1>3. PICK i \in High : \A h \in High : Cardinality(UpTo(i)) <= Cardinality(UpTo(h))
  <2> HIDE DEF UpTo
  <2>1. Ranks \in SUBSET Nat /\ Ranks # {}
    <3>1. ASSUME NEW h \in High
          PROVE  Cardinality(UpTo(h)) \in Nat
      <4> HIDE DEF Under, Ranks
      <4>1. h \in 1 .. n
        OBVIOUS
      <4>2. Cardinality(UpTo(h)) \in 0 .. n
        BY <1>1, <4>1
      <4> HIDE DEF High
      <4> QED
        BY <4>2
    <3> HIDE DEF High
    <3> QED
      BY <1>2, <3>1
  <2>2. PICK x \in Ranks : \A y \in Ranks : x <= y
    <3> HIDE DEF Ranks
    <3> QED
    BY <2>1, Least
  <2> HIDE DEF High
  <2> QED
    BY <2>2
<1>4. ASSUME ~(Cardinality(Under(i)) < k)
      PROVE  FALSE
  <2>1. Under(i) # {}
    <3>1. Cardinality(Under(i)) # 0
      BY <1>4
    <3> HIDE DEF Under
    <3>2. Under(i) = {} => Cardinality(Under(i)) = 0
      BY FS_EmptySet, Zenon
    <3> QED
      BY <3>1, <3>2
  <2>2. PICK h \in Under(i) : \A j \in Under(i) : s[j] <= s[h]
    <3>1. Under(i) \in SUBSET (1 .. n)
      OBVIOUS
    <3> HIDE DEF Under
    <3> QED
      BY <2>1, <3>1, GreatestSample
  <2>3. Under(i) \subseteq UpTo(h) /\ UpTo(h) \subseteq UpTo(i) /\ i \in UpTo(i) /\ i \notin UpTo(h)
    BY <2>2
  <2>4. h \in 1 .. n /\ i \in 1 .. n
    OBVIOUS
  <2> HIDE DEF UpTo, Under
  <2>5. Cardinality(Under(i)) <= Cardinality(UpTo(h)) /\ Cardinality(UpTo(h)) < Cardinality(UpTo(i))
    BY <1>1, <2>3, <2>4, Parts
  <2>6. h \in High
    BY <1>1, <1>4, <2>4, <2>5
  <2> QED
    BY <1>1, <1>3, <2>4, <2>5, <2>6
<1> QED
  <2>1. i \in 1 .. n /\ k <= Cardinality(UpTo(i))
    BY <1>3
  <2> QED
    BY <1>4, <2>1

\* The sorted samples are samples, each at its place, and in order.
LEMMA SortedFacts ==
  ASSUME NEW n \in Nat, NEW s \in [1 .. n -> Int]
  PROVE  /\ Sorted(s) \in [1 .. n -> Int]
         /\ \A k \in 1 .. n : /\ Cardinality({j \in 1 .. n : s[j] < Sorted(s)[k]}) < k
                              /\ k <= Cardinality({j \in 1 .. n : s[j] <= Sorted(s)[k]})
         /\ \A j, k \in 1 .. n : j <= k => Sorted(s)[j] <= Sorted(s)[k]
<1> DEFINE Under(v) == {j \in 1 .. n : s[j] < v}
           UpTo(v) == {j \in 1 .. n : s[j] <= v}
           Values == {s[j] : j \in DOMAIN s}
           Ranked(v, k) == /\ Cardinality({j \in DOMAIN s : s[j] < v}) < k
                           /\ k <= Cardinality({j \in DOMAIN s : s[j] <= v})
<1>0. DOMAIN s = 1 .. n
  OBVIOUS
<1>1. /\ Sorted(s) = [k \in DOMAIN s |-> CHOOSE v \in Values : Ranked(v, k)]
      /\ DOMAIN Sorted(s) = 1 .. n
  BY <1>0 DEF Sorted
<1>2. ASSUME NEW k \in 1 .. n
      PROVE  Sorted(s)[k] \in Values /\ Ranked(Sorted(s)[k], k)
  <2>1. PICK i \in 1 .. n : Ranked(s[i], k)
    BY <1>0, RankedSample
  <2>2. s[i] \in Values
    BY <1>0
  <2> HIDE DEF Values, Ranked
  <2>3. Sorted(s)[k] = CHOOSE v \in Values : Ranked(v, k)
    BY <1>0, <1>1
  <2>4. \E v \in Values : Ranked(v, k)
    BY <2>1, <2>2
  <2> DEFINE c == CHOOSE v \in Values : Ranked(v, k)
  <2>5. c \in Values /\ Ranked(c, k)
    BY <2>4, Zenon
  <2> QED
    BY <2>3, <2>5
<1>3. Sorted(s) \in [1 .. n -> Int]
  <2>1. Values \subseteq Int
    BY <1>0
  <2> HIDE DEF Values, Ranked
  <2>2. DOMAIN Sorted(s) = 1 .. n
    BY <1>1
  <2>3. Sorted(s) = [k \in 1 .. n |-> Sorted(s)[k]]
    BY <1>1
  <2> QED
    BY <1>2, <2>1, <2>3
<1>4. ASSUME NEW j \in 1 .. n, NEW k \in 1 .. n, j <= k, ~(Sorted(s)[j] <= Sorted(s)[k])
      PROVE  FALSE
  <2> DEFINE a == Sorted(s)[j]
             b == Sorted(s)[k]
  <2>1. a \in Int /\ b \in Int /\ b < a
    BY <1>3, <1>4
  <2> HIDE DEF a, b
  <2>2. UpTo(b) \subseteq Under(a) /\ UpTo(b) \in SUBSET (1 .. n) /\ Under(a) \in SUBSET (1 .. n)
    BY <2>1
  <2>3. Cardinality(Under(a)) < j /\ k <= Cardinality(UpTo(b))
    BY <1>0, <1>2 DEF a, b
  <2> HIDE DEF Under, UpTo
  <2>4. /\ Cardinality(UpTo(b)) <= Cardinality(Under(a))
        /\ Cardinality(UpTo(b)) \in 0 .. n /\ Cardinality(Under(a)) \in 0 .. n
    BY <2>2, Parts
  <2> QED
    BY <1>4, <2>3, <2>4
<1> QED
  BY <1>0, <1>2, <1>3, <1>4

\* A set of numbers that holds zero and the successor of each of its members up to
\* n holds all of them up to n.
LEMMA Reaches ==
  ASSUME NEW n \in Nat, NEW S, 0 \in S, \A k \in 0 .. n - 1 : k \in S => k + 1 \in S
  PROVE  0 .. n \subseteq S
<1> DEFINE T == (0 .. n) \ S
<1>1. SUFFICES ASSUME T # {}
               PROVE  FALSE
  OBVIOUS
<1>2. PICK x \in T : \A y \in T : x <= y
  <2>1. T \in SUBSET Nat
    OBVIOUS
  <2> HIDE DEF T
  <2> QED
    BY <1>1, <2>1, Least
<1>3. x \in 1 .. n /\ x - 1 \notin T
  BY <1>2
<1>4. x - 1 \in 0 .. n - 1 /\ x - 1 \in S /\ (x - 1) + 1 = x
  BY <1>3
<1> QED
  BY <1>2, <1>4

\* How a bound times a count grows with the count.
LEMMA Distributes ==
  \A a \in Int, k \in Nat : a * (k + 1) = a * k + a
  OBVIOUS

\* The total lies between the count of the samples times the least and times the
\* greatest of them.
LEMMA TotalBetween ==
  ASSUME NEW n \in Nat, NEW s \in Seq(Int), Len(s) = n, NEW lo \in Int, NEW hi \in Int,
         \A i \in 1 .. n : lo <= s[i] /\ s[i] <= hi
  PROVE  Total(s) \in Int /\ lo * n <= Total(s) /\ Total(s) <= hi * n
<1> DEFINE Sums(m, g) == g = [k \in 0 .. m |-> IF k = 0 THEN 0 ELSE g[k - 1] + s[k]]
           Summed == {m \in 0 .. n : \E g : Sums(m, g)}
<1>1. 0 .. n \subseteq Summed
  <2>1. 0 \in Summed
    <3> DEFINE g == [k \in 0 .. 0 |-> 0]
    <3>1. g = [k \in 0 .. 0 |-> IF k = 0 THEN 0 ELSE g[k - 1] + s[k]]
      OBVIOUS
    <3>2. Sums(0, g)
      BY <3>1
    <3> HIDE DEF Sums, g
    <3> QED
      BY <3>2
  <2>2. ASSUME NEW m \in 0 .. n - 1, m \in Summed
        PROVE  m + 1 \in Summed
    <3>1. PICK g : Sums(m, g)
      BY <2>2
    <3> DEFINE h == [k \in 0 .. m + 1 |-> IF k = m + 1 THEN g[m] + s[m + 1] ELSE g[k]]
    <3>2. ASSUME NEW k \in 0 .. m + 1
          PROVE  h[k] = IF k = 0 THEN 0 ELSE h[k - 1] + s[k]
      <4>1. CASE k = m + 1
        <5>1. k # 0 /\ k - 1 = m /\ m \in 0 .. m + 1 /\ m # m + 1
          BY <4>1
        <5>2. h[k] = g[m] + s[m + 1] /\ h[m] = g[m]
          BY <4>1, <5>1
        <5> QED
          BY <4>1, <5>1, <5>2
      <4>2. CASE k \in 0 .. m
        <5>1. h[k] = g[k] /\ (k # 0 => h[k - 1] = g[k - 1])
          BY <4>2
        <5>2. g[k] = IF k = 0 THEN 0 ELSE g[k - 1] + s[k]
          BY <3>1, <4>2
        <5> QED
          BY <5>1, <5>2
      <4> QED
        BY <4>1, <4>2
    <3>3. DOMAIN h = 0 .. m + 1
      OBVIOUS
    <3>4. h = [k \in 0 .. m + 1 |-> h[k]]
      OBVIOUS
    <3> HIDE DEF h
    <3>5. Sums(m + 1, h)
      BY <3>2, <3>4
    <3> HIDE DEF Sums
    <3> QED
      BY <3>5
  <2> HIDE DEF Summed
  <2> QED
    BY <2>1, <2>2, Reaches
<1> DEFINE F == CHOOSE g : Sums(n, g)
<1>2. Sums(n, F)
  <2>1. \E g : Sums(n, g)
    BY <1>1
  <2> HIDE DEF Sums
  <2> QED
    BY <2>1, Zenon
<1>3. Total(s) = F[n]
  BY DEF Total
<1> HIDE DEF F
<1>4. F[0] = 0 /\ \A k \in 1 .. n : F[k] = F[k - 1] + s[k]
  BY <1>2
<1> DEFINE Bounded == {k \in 0 .. n : F[k] \in Int /\ lo * k <= F[k] /\ F[k] <= hi * k}
<1>5. 0 .. n \subseteq Bounded
  <2>1. 0 \in Bounded
    <3>1. lo * 0 = 0 /\ hi * 0 = 0
      OBVIOUS
    <3> QED
      BY <1>4, <3>1
  <2>2. ASSUME NEW k \in 0 .. n - 1, k \in Bounded
        PROVE  k + 1 \in Bounded
    <3>1. F[k + 1] = F[k] + s[k + 1] /\ k + 1 \in 1 .. n
      BY <1>4
    <3>2. s[k + 1] \in Int /\ lo <= s[k + 1] /\ s[k + 1] <= hi
      BY <3>1
    <3>3. lo * (k + 1) = lo * k + lo /\ hi * (k + 1) = hi * k + hi
      BY Distributes
    <3>4. F[k] \in Int /\ lo * k <= F[k] /\ F[k] <= hi * k
      BY <2>2
    <3> DEFINE x == lo * k
               y == hi * k
               t == s[k + 1]
    <3>5. x \in Int /\ y \in Int /\ t \in Int
      BY <3>2
    <3> HIDE DEF x, y, t
    <3>6. x <= F[k] /\ F[k] <= y /\ lo <= t /\ t <= hi /\ F[k] \in Int
      BY <3>2, <3>4 DEF x, y, t
    <3>7. F[k] + t \in Int /\ x + lo <= F[k] + t /\ F[k] + t <= y + hi
      BY <3>5, <3>6
    <3> QED
      BY <3>1, <3>3, <3>7 DEF x, y, t
  <2> HIDE DEF Bounded
  <2> QED
    BY <2>1, <2>2, Reaches
<1> QED
  BY <1>3, <1>5

\* An interpolated value lies between the two it was interpolated from.
LEMMA Interpolated ==
  ASSUME NEW d \in Nat, NEW w \in 0 .. d, NEW a \in Int, NEW b \in Int, a <= b
  PROVE  /\ (d - w) * a + w * b \in Int
         /\ d * a <= (d - w) * a + w * b /\ (d - w) * a + w * b <= d * b
<1> DEFINE x == b - a
<1>1. x \in Nat /\ b = a + x
  OBVIOUS
<1> HIDE DEF x
<1>2. (d - w) * a + w * b = d * a + w * x
  BY <1>1
<1>3. d * b = d * a + d * x
  BY <1>1
<1>4. w * x >= 0 /\ w * x <= d * x
  <2> DEFINE y == d - w
  <2>1. y \in Nat /\ d = w + y /\ w \in Nat
    OBVIOUS
  <2> HIDE DEF y
  <2>2. d * x = w * x + y * x
    BY <1>1, <2>1
  <2>3. w * x \in Nat /\ y * x \in Nat
    BY <1>1, <2>1
  <2> QED
    BY <2>2, <2>3
<1> QED
  BY <1>1, <1>2, <1>3, <1>4

\* Factors that are not negative keep the order.
LEMMA Scaled ==
  ASSUME NEW d \in Nat, NEW a \in Int, NEW b \in Int, a <= b
  PROVE  d * a <= d * b /\ d * a \in Int /\ d * b \in Int
<1> DEFINE x == b - a
<1>1. x \in Nat /\ b = a + x
  OBVIOUS
<1> HIDE DEF x
<1>2. d * b = d * a + d * x /\ d * x \in Nat /\ d * a \in Int
  BY <1>1
<1> QED
  BY <1>2

\* Between two places of the sorted samples, so many samples are on either side.
LEMMA Splits ==
  ASSUME NEW n \in Nat, NEW s \in [1 .. n -> Int], NEW d \in Nat, NEW v \in Int, NEW k \in 1 .. n
  PROVE  /\ d * Sorted(s)[k] <= v => k <= Cardinality({j \in 1 .. n : d * s[j] <= v})
         /\ v <= d * Sorted(s)[k] => n - k < Cardinality({j \in 1 .. n : d * s[j] >= v})
<1> DEFINE a == Sorted(s)[k]
           Under == {j \in 1 .. n : s[j] < a}
           UpTo == {j \in 1 .. n : s[j] <= a}
           Below == {j \in 1 .. n : d * s[j] <= v}
           Above == {j \in 1 .. n : d * s[j] >= v}
<1>1. a \in Int /\ Cardinality(Under) < k /\ k <= Cardinality(UpTo)
  <2>1. /\ Sorted(s) \in [1 .. n -> Int]
        /\ Cardinality({j \in 1 .. n : s[j] < Sorted(s)[k]}) < k
        /\ k <= Cardinality({j \in 1 .. n : s[j] <= Sorted(s)[k]})
    BY SortedFacts
  <2> QED
    BY <2>1
<1>2. \A A \in {Under, UpTo, Below, Above, (1 .. n) \ Under} : A \in SUBSET (1 .. n)
  OBVIOUS
<1>3. ASSUME d * a <= v
      PROVE  k <= Cardinality(Below)
  <2>1. ASSUME NEW j \in UpTo
        PROVE  j \in Below
    <3>1. s[j] \in Int /\ s[j] <= a
      OBVIOUS
    <3> HIDE DEF a
    <3>2. d * s[j] <= d * a /\ d * s[j] \in Int /\ d * a \in Int
      BY <1>1, <3>1, Scaled
    <3> QED
      BY <1>3, <3>2
  <2> HIDE DEF UpTo, Below
  <2>2. Cardinality(UpTo) <= Cardinality(Below) /\ Cardinality(UpTo) \in 0 .. n /\ Cardinality(Below) \in 0 .. n
    BY <1>2, <2>1, Parts
  <2> QED
    BY <1>1, <2>2
<1>4. ASSUME v <= d * a
      PROVE  n - k < Cardinality(Above)
  <2> DEFINE Rest == (1 .. n) \ Under
  <2>1. ASSUME NEW j \in Rest
        PROVE  j \in Above
    <3>1. s[j] \in Int /\ a <= s[j] /\ j \in 1 .. n
      BY <1>1
    <3> HIDE DEF a
    <3>2. d * a <= d * s[j] /\ d * s[j] \in Int /\ d * a \in Int
      BY <1>1, <3>1, Scaled
    <3> QED
      BY <1>4, <3>1, <3>2
  <2>2. Rest \in SUBSET (1 .. n) /\ Above \in SUBSET (1 .. n) /\ Under \in SUBSET (1 .. n)
    BY <1>2
  <2> HIDE DEF Under, Above
  <2>3. Cardinality(Rest) = n - Cardinality(Under)
    BY <2>2, Parts
  <2> HIDE DEF Rest
  <2>4. /\ Cardinality(Rest) <= Cardinality(Above) /\ Cardinality(Under) \in 0 .. n
        /\ Cardinality(Rest) \in 0 .. n /\ Cardinality(Above) \in 0 .. n
    BY <2>1, <2>2, Parts
  <2> QED
    BY <1>1, <2>3, <2>4
<1> HIDE DEF Below, Above, a
<1>5. /\ d * a <= v => k <= Cardinality(Below)
      /\ v <= d * a => n - k < Cardinality(Above)
  BY <1>3, <1>4
<1> QED
  BY <1>5 DEF a, Below, Above

\* Where the two quantiles lie among the sorted samples.
LEMMA QuantilePlaces ==
  ASSUME NEW n \in Nat, n > 0, NEW S \in Seq(Int), Len(S) = n,
         \A j, k \in 1 .. n : j <= k => S[j] <= S[k]
  PROVE  LET median_2 == InterpolateQuantile(S, 1, 2)
             p95_20   == InterpolateQuantile(S, 19, 20)
             lower    == (n - 1) \div 2 + 1
             upper    == n \div 2 + 1
             place    == (19 * (n - 1)) \div 20 + 1
         IN  /\ median_2 \in Int /\ p95_20 \in Int
             /\ lower \in 1 .. n /\ upper \in 1 .. n /\ place \in 1 .. n
             /\ 2 * S[lower] <= median_2 /\ median_2 <= 2 * S[upper]
             /\ 20 * S[place] <= p95_20 /\ p95_20 <= 20 * S[n]
             /\ 10 * median_2 <= p95_20
<1> DEFINE last == n - 1
           median_2 == InterpolateQuantile(S, 1, 2)
           p95_20   == InterpolateQuantile(S, 19, 20)
           lower    == last \div 2 + 1
           upper    == n \div 2 + 1
           place    == (19 * last) \div 20 + 1
           next     == SmallerOf((19 * last) \div 20 + 1, last) + 1
           weight   == (19 * last) % 20
<1>1. lower \in 1 .. n /\ upper \in 1 .. n /\ place \in 1 .. n /\ lower <= upper
  OBVIOUS
<1>2. next \in 1 .. n /\ place <= next /\ weight \in 0 .. 20
  BY DEF SmallerOf
<1>3. /\ 2 * S[lower] <= median_2 /\ median_2 <= 2 * S[upper] /\ median_2 \in Int
      /\ n = 2 => median_2 = S[1] + S[2]
  <2> DEFINE position == 1 * last
             first    == position \div 2 + 1
             second   == SmallerOf(position \div 2 + 1, last) + 1
             half     == position % 2
  <2>1. median_2 = (2 - half) * S[first] + half * S[second]
    BY DEF InterpolateQuantile
  <2>2. position = last
    OBVIOUS
  <2> HIDE DEF position, median_2
  <2>3. first = lower /\ half \in {0, 1} /\ first \in 1 .. n /\ second \in 1 .. n
    BY <2>2 DEF SmallerOf
  <2>4. half = 0 => lower = upper
    BY <2>2
  <2>5. half = 1 => second = upper
    BY <2>2 DEF SmallerOf
  <2>6. n = 2 => half = 1 /\ first = 1 /\ second = 2
    BY <2>2 DEF SmallerOf
  <2>7. S[first] \in Int /\ S[second] \in Int /\ S[lower] <= S[upper]
    BY <1>1, <2>3
  <2> HIDE DEF half, first, second, lower, upper
  <2>8. CASE half = 0
    <3>1. median_2 = 2 * S[first]
      BY <2>1, <2>7, <2>8
    <3> QED
      BY <2>3, <2>4, <2>6, <2>7, <2>8, <3>1
  <2>9. CASE half = 1
    <3>1. median_2 = S[first] + S[second]
      BY <2>1, <2>7, <2>9
    <3> QED
      BY <2>3, <2>5, <2>6, <2>7, <2>9, <3>1
  <2> QED
    BY <2>3, <2>8, <2>9
<1>4. /\ 20 * S[place] <= p95_20 /\ p95_20 <= 20 * S[n] /\ p95_20 \in Int
      /\ n = 2 => p95_20 = S[1] + 19 * S[2]
  <2>1. p95_20 = (20 - weight) * S[place] + weight * S[next]
    BY DEF InterpolateQuantile
  <2>2. /\ S[place] \in Int /\ S[next] \in Int /\ S[n] \in Int
        /\ S[place] <= S[next] /\ S[next] <= S[n]
    BY <1>1, <1>2
  <2>3. n = 2 => weight = 19 /\ place = 1 /\ next = 2
    BY DEF SmallerOf
  <2> HIDE DEF p95_20, weight, place, next
  <2>4. /\ p95_20 \in Int
        /\ 20 * S[place] <= p95_20 /\ p95_20 <= 20 * S[next]
    <3>1. 20 \in Nat /\ weight \in 0 .. 20
      BY <1>2
    <3> QED
      BY <2>1, <2>2, <3>1, Interpolated
  <2>5. n = 2 => p95_20 = S[1] + 19 * S[2]
    <3> SUFFICES ASSUME n = 2 PROVE p95_20 = S[1] + 19 * S[2]
      OBVIOUS
    <3>1. p95_20 = (20 - 19) * S[1] + 19 * S[2]
      <4>1. weight = 19 /\ place = 1 /\ next = 2
        BY <2>3
      <4> QED
        BY <2>1, <4>1
    <3>2. S[1] \in Int /\ S[2] \in Int
      OBVIOUS
    <3> QED
      BY <3>1, <3>2
  <2> QED
    BY <2>2, <2>4, <2>5
<1>5. 10 * median_2 <= p95_20
  <2>1. CASE n = 2
    <3>1. S[1] \in Int /\ S[2] \in Int /\ S[1] <= S[2]
      BY <2>1
    <3> HIDE DEF median_2, p95_20
    <3> QED
      BY <1>3, <1>4, <2>1, <3>1
  <2>2. CASE n # 2
    <3>1. upper <= place
      BY <2>2
    <3>2. S[upper] \in Int /\ S[place] \in Int /\ S[upper] <= S[place]
      BY <1>1, <3>1
    <3> HIDE DEF median_2, p95_20, upper, place, lower
    <3> QED
      BY <1>3, <1>4, <3>2
  <2> QED
    BY <2>1, <2>2
<1> QED
  BY <1>1, <1>3, <1>4, <1>5

-----------------------------------------------------------------------------
(* Matching of points *)

\* As many places as sources: each point has its own.
LEMMA SourcesCounted ==
  ASSUME NEW n \in Nat, NEW P, DOMAIN P = 1 .. n, PointsAreUsable(P), NEW A \in SUBSET Sources(P)
  PROVE  /\ IsFiniteSet(A)
         /\ Cardinality({k \in DOMAIN P : P[k].source \in A}) = Cardinality(A)
<1> DEFINE B == {k \in DOMAIN P : P[k].source \in A}
           f == [k \in B |-> P[k].source]
<1>1. IsFiniteSet(B)
  <2>1. B \in SUBSET (1 .. n)
    OBVIOUS
  <2> HIDE DEF B
  <2> QED
    BY <2>1, Parts
<1>2. f \in Bijection(B, A)
  <2>1. f \in [B -> A]
    OBVIOUS
  <2>2. \A j, k \in B : f[j] = f[k] => j = k
    BY DEF PointsAreUsable
  <2>3. \A a \in A : \E k \in B : f[k] = a
    BY DEF Sources
  <2> HIDE DEF B, f
  <2> QED
    BY <2>1, <2>2, <2>3 DEF Bijection, Injection, Surjection, IsInjective
<1> HIDE DEF B, f
<1>3. ExistsBijection(B, A)
  BY <1>2 DEF ExistsBijection
<1>4. IsFiniteSet(A) /\ Cardinality(B) = Cardinality(A)
  BY <1>1, <1>3, FS_Bijection
<1> QED
  BY <1>4 DEF B

\* Usable points have as many sources as there are points.
LEMMA OwnSources ==
  ASSUME NEW n \in Nat, NEW P, DOMAIN P = 1 .. n, PointsAreUsable(P)
  PROVE  IsFiniteSet(Sources(P)) /\ Cardinality(Sources(P)) = n
<1> DEFINE X == Sources(P)
<1>1. {k \in DOMAIN P : P[k].source \in X} = 1 .. n
  BY DEF Sources
<1>2. Cardinality(1 .. n) = n
  BY Parts
<1> HIDE DEF X
<1>3. Cardinality({k \in DOMAIN P : P[k].source \in X}) = Cardinality(X) /\ IsFiniteSet(X)
  BY SourcesCounted DEF X
<1> QED
  BY <1>1, <1>2, <1>3 DEF X

\* Every prediction and every reference is matched or unmatched, none is both.
LEMMA MatchingIsExact ==
  ASSUME NEW n \in Nat, NEW P, DOMAIN P = 1 .. n, PointsAreUsable(P),
         NEW m \in Nat, NEW R, DOMAIN R = 1 .. m, PointsAreUsable(R)
  PROVE  LET e == ComputeMatchedPointErrors(P, R)
         IN  /\ e.matched + Cardinality(e.unmatched_predictions) = n
             /\ e.matched + Cardinality(e.unmatched_references) = m
             /\ e.unmatched_predictions \cap e.unmatched_references = {}
<1> DEFINE e == ComputeMatchedPointErrors(P, R)
           X == Sources(P)
           Y == Sources(R)
<1>1. /\ e.matched = Cardinality({k \in DOMAIN P : P[k].source \in Y})
      /\ e.unmatched_predictions = X \ Y
      /\ e.unmatched_references = Y \ X
  BY DEF ComputeMatchedPointErrors
<1> HIDE DEF e
<1>2. IsFiniteSet(X) /\ Cardinality(X) = n /\ IsFiniteSet(X \cap Y)
  <2>1. IsFiniteSet(X) /\ Cardinality(X) = n
    BY OwnSources
  <2> HIDE DEF X, Y
  <2> QED
    BY <2>1, FS_Subset
<1>3. IsFiniteSet(Y) /\ Cardinality(Y) = m
  BY OwnSources
<1>4. e.matched = Cardinality(X \cap Y)
  <2> DEFINE Z == X \cap Y
  <2>1. Z \in SUBSET Sources(P)
    OBVIOUS
  <2>2. {k \in DOMAIN P : P[k].source \in Z} = {k \in DOMAIN P : P[k].source \in Y}
    BY DEF Sources
  <2> HIDE DEF Z
  <2>3. Cardinality({k \in DOMAIN P : P[k].source \in Z}) = Cardinality(Z)
    BY <2>1, SourcesCounted
  <2> HIDE DEF X, Y
  <2> QED
    BY <1>1, <2>2, <2>3 DEF Z
<1> HIDE DEF X, Y
<1>5. /\ Cardinality(X \ Y) = n - Cardinality(X \cap Y)
      /\ Cardinality(Y \ X) = m - Cardinality(Y \cap X)
  BY <1>2, <1>3, FS_Difference
<1>6. X \cap Y = Y \cap X /\ Cardinality(X \cap Y) \in Nat
  BY <1>2, FS_CardinalityType
<1>7. (X \ Y) \cap (Y \ X) = {}
  OBVIOUS
<1> QED
  <2> DEFINE both == Cardinality(X \cap Y)
  <2>3. /\ Cardinality(e.unmatched_predictions) = n - both
        /\ Cardinality(e.unmatched_references) = m - both
    BY <1>1, <1>5, <1>6
  <2>4. e.matched = both /\ both \in Nat
    BY <1>4, <1>6
  <2> HIDE DEF both
  <2>1. /\ e.matched + Cardinality(e.unmatched_predictions) = n
        /\ e.matched + Cardinality(e.unmatched_references) = m
    BY <2>3, <2>4
  <2>2. e.unmatched_predictions \cap e.unmatched_references = {}
    BY <1>1, <1>7
  <2> QED
    BY <2>1, <2>2 DEF e

-----------------------------------------------------------------------------
(* Entries *)

\* The statistics of samples, stated of the samples themselves.
LEMMA StatisticsAreTruthful ==
  ASSUME NEW n \in Nat, n > 0, NEW s \in Seq(Int), Len(s) = n
  PROVE  LET t == ComputeSampleStatistics(s)
             Below(d, value) == Cardinality({k \in 1 .. n : d * s[k] <= value})
             Above(d, value) == Cardinality({k \in 1 .. n : d * s[k] >= value})
         IN  /\ t \in Statistics
             /\ t.count = n
             /\ t.minimum * n <= t.total /\ t.total <= t.maximum * n
             /\ 2 * Below(2, t.median_2) >= n /\ 2 * Above(2, t.median_2) >= n
             /\ 20 * Below(20, t.p95_20) > 19 * (n - 1)
             /\ 20 * t.minimum <= 10 * t.median_2
             /\ 10 * t.median_2 <= t.p95_20
             /\ t.p95_20 <= 20 * t.maximum
             /\ Below(1, t.maximum) = n /\ Above(1, t.minimum) = n
<1> DEFINE S == Sorted(s)
           median == InterpolateQuantile(S, 1, 2)
           p95 == InterpolateQuantile(S, 19, 20)
           t == ComputeSampleStatistics(s)
           Below(d, value) == Cardinality({k \in 1 .. n : d * s[k] <= value})
           Above(d, value) == Cardinality({k \in 1 .. n : d * s[k] >= value})
           lower == (n - 1) \div 2 + 1
           upper == n \div 2 + 1
           place == (19 * (n - 1)) \div 20 + 1
<1>1. s \in [1 .. n -> Int] /\ DOMAIN s = 1 .. n
  BY LenProperties
<1>2. S \in [1 .. n -> Int] /\ \A j, k \in 1 .. n : j <= k => S[j] <= S[k]
  BY <1>1, SortedFacts
<1>3. \A d \in Nat, v \in Int, k \in 1 .. n :
        /\ d * S[k] <= v => k <= Below(d, v)
        /\ v <= d * S[k] => n - k < Above(d, v)
  <2> SUFFICES ASSUME NEW d \in Nat, NEW v \in Int, NEW k \in 1 .. n
               PROVE  /\ d * S[k] <= v => k <= Below(d, v)
                      /\ v <= d * S[k] => n - k < Above(d, v)
    OBVIOUS
  <2> QED
    BY <1>1, Splits
<1>4. \A d \in Nat, v \in Int : Below(d, v) \in 0 .. n /\ Above(d, v) \in 0 .. n
  <2> SUFFICES ASSUME NEW d \in Nat, NEW v \in Int
               PROVE  Below(d, v) \in 0 .. n /\ Above(d, v) \in 0 .. n
    OBVIOUS
  <2> DEFINE A == {k \in 1 .. n : d * s[k] <= v}
             B == {k \in 1 .. n : d * s[k] >= v}
  <2>1. A \in SUBSET (1 .. n) /\ B \in SUBSET (1 .. n)
    OBVIOUS
  <2> HIDE DEF A, B
  <2>2. Cardinality(A) \in 0 .. n /\ Cardinality(B) \in 0 .. n
    BY <2>1, Parts
  <2> QED
    BY <2>2 DEF A, B
<1>5. /\ S \in Seq(Int) /\ Len(S) = n
      /\ S[1] \in Int /\ S[n] \in Int
  BY <1>2
<1>6. /\ median \in Int /\ p95 \in Int
      /\ lower \in 1 .. n /\ upper \in 1 .. n /\ place \in 1 .. n
      /\ 2 * S[lower] <= median /\ median <= 2 * S[upper]
      /\ 20 * S[place] <= p95 /\ p95 <= 20 * S[n]
      /\ 10 * median <= p95
  <2> HIDE DEF S
  <2> QED
    BY <1>2, <1>5, QuantilePlaces
<1>7. 2 * Below(2, median) >= n /\ 2 * Above(2, median) >= n
  <2>1. lower <= Below(2, median) /\ n - upper < Above(2, median)
    <3> HIDE DEF S, median, lower, upper, Below, Above
    <3> QED
      BY <1>3, <1>6
  <2>2. Below(2, median) \in 0 .. n /\ Above(2, median) \in 0 .. n
    BY <1>4, <1>6
  <2> HIDE DEF median, Below, Above
  <2> QED
    BY <2>1, <2>2
<1>8. 20 * Below(20, p95) > 19 * (n - 1)
  <2>1. place <= Below(20, p95) /\ Below(20, p95) \in 0 .. n
    <3> HIDE DEF S, p95, place, Below, Above
    <3> QED
      BY <1>3, <1>4, <1>6
  <2> HIDE DEF p95, Below
  <2> QED
    BY <2>1
<1>9. Below(1, S[n]) = n /\ Above(1, S[1]) = n
  <2>1. 1 * S[n] <= S[n] /\ S[1] <= 1 * S[1]
    BY <1>5
  <2>2. n <= Below(1, S[n]) /\ n - 1 < Above(1, S[1])
    <3> HIDE DEF S, Below, Above
    <3>1. 1 \in Nat /\ 1 \in 1 .. n /\ n \in 1 .. n
      OBVIOUS
    <3> QED
      BY <1>3, <1>5, <2>1, <3>1
  <2>3. Below(1, S[n]) \in 0 .. n /\ Above(1, S[1]) \in 0 .. n
    BY <1>4, <1>5
  <2> HIDE DEF S, Below, Above
  <2> QED
    BY <2>2, <2>3
<1>10. 20 * S[1] <= 10 * median
  <2>1. S[1] <= S[lower] /\ S[lower] \in Int
    BY <1>2, <1>6
  <2> HIDE DEF S, median, lower
  <2> QED
    BY <1>5, <1>6, <2>1
<1>11. ASSUME NEW i \in 1 .. n
       PROVE  S[1] <= s[i] /\ s[i] <= S[n]
  <2>1. /\ Cardinality({j \in 1 .. n : s[j] < S[1]}) < 1
        /\ n <= Cardinality({j \in 1 .. n : s[j] <= S[n]})
    <3>1. \A k \in 1 .. n : /\ Cardinality({j \in 1 .. n : s[j] < S[k]}) < k
                            /\ k <= Cardinality({j \in 1 .. n : s[j] <= S[k]})
      BY <1>1, SortedFacts
    <3>2. 1 \in 1 .. n /\ n \in 1 .. n
      OBVIOUS
    <3> HIDE DEF S
    <3> QED
      BY <3>1, <3>2
  <2> DEFINE A == {j \in 1 .. n : s[j] < S[1]}
             B == {j \in 1 .. n : s[j] <= S[n]}
  <2>2. A \in SUBSET (1 .. n) /\ B \in SUBSET (1 .. n) /\ {} \in SUBSET (1 .. n)
    OBVIOUS
  <2> HIDE DEF A, B
  <2>3. Cardinality(A) < 1 /\ n <= Cardinality(B)
    BY <2>1 DEF A, B
  <2>4. A = {}
    <3>1. A # {} => Cardinality({}) < Cardinality(A)
      BY <2>2, Parts
    <3>2. Cardinality({}) = 0
      BY FS_EmptySet, Zenon
    <3>3. Cardinality(A) \in 0 .. n
      BY <2>2, Parts
    <3> QED
      BY <2>3, <3>1, <3>2, <3>3
  <2>5. B = 1 .. n
    <3>1. B # 1 .. n => Cardinality(B) < n
      <4>1. 1 .. n \in SUBSET (1 .. n) /\ Cardinality(1 .. n) = n
        BY Parts
      <4> DEFINE D == 1 .. n
      <4> HIDE DEF D
      <4>2. \A X, Y \in SUBSET D : X \subseteq Y /\ X # Y => Cardinality(X) < Cardinality(Y)
        BY Parts DEF D
      <4> QED
        BY <2>2, <4>1, <4>2 DEF D
    <3>2. Cardinality(B) \in 0 .. n
      BY <2>2, Parts
    <3> QED
      BY <2>3, <3>1, <3>2
  <2> USE DEF A, B
  <2>6. ~(s[i] < S[1]) /\ s[i] <= S[n]
    BY <2>4, <2>5
  <2>7. s[i] \in Int
    BY <1>1
  <2> HIDE DEF S
  <2> QED
    BY <1>5, <2>6, <2>7
<1>12. Total(s) \in Int /\ S[1] * n <= Total(s) /\ Total(s) <= S[n] * n
  <2> HIDE DEF S
  <2> QED
    BY <1>5, <1>11, TotalBetween
<1>13. t = [count |-> n, total |-> Total(s), median_2 |-> median, p95_20 |-> p95,
            minimum |-> S[1], maximum |-> S[n]]
  BY <1>5 DEF ComputeSampleStatistics
<1> HIDE DEF t, S, median, p95, Below, Above
<1>14. /\ t.count = n /\ t.total = Total(s) /\ t.median_2 = median /\ t.p95_20 = p95
       /\ t.minimum = S[1] /\ t.maximum = S[n] /\ t \in Statistics
  BY <1>5, <1>6, <1>12, <1>13 DEF Statistics
<1>15. /\ t \in Statistics
       /\ t.count = n
       /\ t.minimum * n <= t.total /\ t.total <= t.maximum * n
       /\ 2 * Below(2, t.median_2) >= n /\ 2 * Above(2, t.median_2) >= n
       /\ 20 * Below(20, t.p95_20) > 19 * (n - 1)
       /\ 20 * t.minimum <= 10 * t.median_2
       /\ 10 * t.median_2 <= t.p95_20
       /\ t.p95_20 <= 20 * t.maximum
       /\ Below(1, t.maximum) = n /\ Above(1, t.minimum) = n
  BY <1>6, <1>7, <1>8, <1>9, <1>10, <1>12, <1>14
<1> QED
  BY <1>15 DEF t, Below, Above

\* The reports that are read list frames that were measured.
LEMMA FramesAreMeasured ==
  ASSUME NEW r \in RunReports \cup UserReports
  PROVE  /\ Len(r.frames) \in Nat /\ DOMAIN r.frames = 1 .. Len(r.frames)
         /\ \A k \in 1 .. Len(r.frames) : r.frames[k].inference_ms \in Int
<1>1. CASE r \in RunReports
  <2>1. PICK status \in {"complete", "incomplete"}, n \in 0 .. MaxSelected :
          r = [schema_version |-> 1, status |-> status,
               frames |-> [k \in 1 .. n |->
                 [index |-> k - 1, source |-> "name", inference_ms |-> 1, x |-> Absent]]]
    BY <1>1 DEF RunReports
  <2>2. r.frames = [k \in 1 .. n |->
                 [index |-> k - 1, source |-> "name", inference_ms |-> 1, x |-> Absent]]
    BY <2>1
  <2>3. n \in Nat
    BY EvaluationAssumption
  <2>4. DOMAIN r.frames = 1 .. n
    BY <2>2
  <2>5. Len(r.frames) = n
    <3> DEFINE frames == r.frames
               V == {frames[k] : k \in 1 .. n}
    <3>1. frames \in [1 .. n -> V]
      BY <2>2
    <3> HIDE DEF frames, V
    <3>2. frames \in Seq(V) /\ Len(frames) = n
      BY <2>3, <3>1
    <3> QED
      BY <3>2 DEF frames
  <2>6. \A k \in 1 .. n : r.frames[k].inference_ms = 1
    BY <2>2
  <2> QED
    BY <2>3, <2>4, <2>5, <2>6
<1>2. CASE r \in UserReports
  <2> DEFINE frames == r.frames
             V == {frames[k] : k \in DOMAIN frames}
  <2>1. frames \in Seq(V) /\ \A k \in DOMAIN frames : frames[k].inference_ms \in Int
    BY <1>2, ReportAssumption
  <2> HIDE DEF frames, V
  <2>2. Len(frames) \in Nat /\ DOMAIN frames = 1 .. Len(frames)
    BY <2>1, LenProperties
  <2> QED
    BY <2>1, <2>2 DEF frames
<1> QED
  BY <1>1, <1>2

\* The latency samples are the frames that are not discarded.
LEMMA SamplesAreTheRest ==
  ASSUME NEW r \in RunReports \cup UserReports, NEW discard \in Nat
  PROVE  LET count    == Len(r.frames)
             excluded == SmallerOf(discard, count)
             n        == count - excluded
         IN  /\ n \in Nat /\ n > 0 => excluded = discard
             /\ excluded = discard \/ (excluded < discard /\ n = 0)
             /\ LatencySamples(r, discard) \in Seq(Int)
             /\ Len(LatencySamples(r, discard)) = n
             /\ LatencySamples(r, discard) = [k \in 1 .. n |-> r.frames[excluded + k].inference_ms]
<1> DEFINE frames == r.frames
           count == Len(frames)
           excluded == SmallerOf(discard, count)
           n == count - excluded
           left == SubSeq(frames, discard + 1, count)
           V == {frames[k] : k \in 1 .. count}
<1>1. /\ count \in Nat /\ DOMAIN frames = 1 .. count
      /\ \A k \in 1 .. count : frames[k].inference_ms \in Int
  BY FramesAreMeasured
<1> HIDE DEF frames, count
<1>2. n \in Nat /\ (n > 0 => excluded = discard) /\ excluded \in Nat
      /\ (excluded = discard \/ (excluded < discard /\ n = 0))
      /\ n = IF discard + 1 <= count THEN count - (discard + 1) + 1 ELSE 0
  BY <1>1 DEF SmallerOf
<1>3. /\ left \in Seq(V) /\ Len(left) = n
      /\ \A k \in 1 .. n : left[k] = frames[excluded + k]
  <2>1. \A i \in discard + 1 .. count : frames[i] \in V
    OBVIOUS
  <2> HIDE DEF V
  <2>2. /\ left \in Seq(V)
        /\ Len(left) = IF discard + 1 <= count THEN count - (discard + 1) + 1 ELSE 0
        /\ \A i \in 1 .. count - (discard + 1) + 1 : left[i] = frames[discard + 1 + i - 1]
    BY <1>1, <2>1, SubSeqProperties
  <2> HIDE DEF left
  <2>3. ASSUME NEW k \in 1 .. n
        PROVE  left[k] = frames[excluded + k]
    <3>1. excluded = discard /\ k \in 1 .. count - (discard + 1) + 1
      BY <1>1, <1>2
    <3>2. discard + 1 + k - 1 = excluded + k
      BY <1>2, <3>1
    <3> QED
      BY <2>2, <3>1, <3>2
  <2> QED
    BY <1>2, <2>2, <2>3
<1> HIDE DEF V, n, excluded
<1>4. DOMAIN left = 1 .. n
  BY <1>2, <1>3, LenProperties
<1> DEFINE samples == [k \in DOMAIN left |-> left[k].inference_ms]
<1>5. LatencySamples(r, discard) = samples
  BY DEF LatencySamples, frames, count
<1> HIDE DEF left
<1>6. samples = [k \in 1 .. n |-> frames[excluded + k].inference_ms]
  BY <1>3, <1>4
<1>7. samples \in [1 .. n -> Int]
  <2>1. \A k \in 1 .. n : frames[excluded + k].inference_ms \in Int
    <3> SUFFICES ASSUME NEW k \in 1 .. n PROVE frames[excluded + k].inference_ms \in Int
      OBVIOUS
    <3>1. excluded + k \in 1 .. count
      BY <1>1, <1>2 DEF n
    <3> QED
      BY <1>1, <3>1
  <2> QED
    BY <1>6, <2>1
<1> HIDE DEF samples
<1>8. samples \in Seq(Int) /\ Len(samples) = n
  BY <1>2, <1>7
<1> QED
  BY <1>2, <1>5, <1>6, <1>8 DEF n, excluded, count, frames

\* The entry of an accepted report says the truth of it.
LEMMA EntryTruthful ==
  ASSUME NEW c \in Accepted, c.references # Absent => PointsAreUsable(c.references)
  PROVE  EntryIsTruthful(RunSummary(c.path, c.report, c.discard, c.references),
                         c.report, c.discard, c.references)
<1> DEFINE report == c.report
           discard == c.discard
           references == c.references
           count == Len(report.frames)
           excluded == SmallerOf(discard, count)
           n == count - excluded
           s == LatencySamples(report, discard)
           entry == RunSummary(c.path, report, discard, references)
           Below(d, value) == Cardinality({k \in 1 .. n : d * s[k] <= value})
           Above(d, value) == Cardinality({k \in 1 .. n : d * s[k] >= value})
           t == ComputeSampleStatistics(s)
           e == ComputeMatchedPointErrors(Predictions(report), references)
<1>1. /\ report \in RunReports \cup UserReports /\ discard \in Nat
      /\ references \in UserReferences \cup {Absent}
      /\ PredictionsAreUsable(report, references)
  BY EvaluationAssumption DEF Accepted
<1> HIDE DEF report, discard, references
<1>2. /\ n \in Nat /\ (excluded = discard \/ (excluded < discard /\ n = 0))
      /\ s \in Seq(Int) /\ Len(s) = n
      /\ s = [k \in 1 .. n |-> report.frames[excluded + k].inference_ms]
  BY <1>1, SamplesAreTheRest
<1>3. s = <<>> <=> n = 0
  <2> HIDE DEF n, s
  <2> QED
    BY <1>2
<1>4. /\ entry.excluded = excluded
      /\ entry.latency = IF s = <<>> THEN Absent ELSE t
      /\ entry.eligible = (report.status = "complete" /\ s # <<>>)
      /\ entry.point_errors = IF references = Absent THEN Absent ELSE e
  BY DEF RunSummary
<1> HIDE DEF entry
<1>5. n > 0 =>
        /\ t \in Statistics
        /\ t.count = n
        /\ t.minimum * n <= t.total /\ t.total <= t.maximum * n
        /\ 2 * Below(2, t.median_2) >= n /\ 2 * Above(2, t.median_2) >= n
        /\ 20 * Below(20, t.p95_20) > 19 * (n - 1)
        /\ 20 * t.minimum <= 10 * t.median_2
        /\ 10 * t.median_2 <= t.p95_20
        /\ t.p95_20 <= 20 * t.maximum
        /\ Below(1, t.maximum) = n /\ Above(1, t.minimum) = n
  <2> HIDE DEF s, n
  <2> QED
    BY <1>2, StatisticsAreTruthful
<1>6. references # Absent =>
        /\ e.matched + Cardinality(e.unmatched_predictions) = count
        /\ e.matched + Cardinality(e.unmatched_references) = Len(references)
        /\ e.unmatched_predictions \cap e.unmatched_references = {}
  <2> SUFFICES ASSUME references # Absent
               PROVE  /\ e.matched + Cardinality(e.unmatched_predictions) = count
                      /\ e.matched + Cardinality(e.unmatched_references) = Len(references)
                      /\ e.unmatched_predictions \cap e.unmatched_references = {}
    OBVIOUS
  <2> DEFINE P == Predictions(report)
             m == Len(references)
  <2>1. count \in Nat /\ DOMAIN P = 1 .. count /\ PointsAreUsable(P)
    BY <1>1, FramesAreMeasured DEF PredictionsAreUsable, Predictions
  <2>2. m \in Nat /\ DOMAIN references = 1 .. m /\ PointsAreUsable(references)
    <3> DEFINE V == {references[k] : k \in DOMAIN references}
    <3>1. references \in Seq(V)
      BY <1>1, ReportAssumption
    <3> HIDE DEF V
    <3>2. m \in Nat /\ DOMAIN references = 1 .. m
      BY <3>1, LenProperties
    <3>3. PointsAreUsable(references)
      BY DEF references
    <3> QED
      BY <3>2, <3>3
  <2> HIDE DEF P, m, count
  <2>3. LET f == ComputeMatchedPointErrors(P, references)
        IN  /\ f.matched + Cardinality(f.unmatched_predictions) = count
            /\ f.matched + Cardinality(f.unmatched_references) = m
            /\ f.unmatched_predictions \cap f.unmatched_references = {}
    BY <2>1, <2>2, MatchingIsExact
  <2> QED
    BY <2>3 DEF P, m
<1>7. /\ [k \in 1 .. count - entry.excluded |-> report.frames[entry.excluded + k].inference_ms] = s
      /\ count - entry.excluded = n
  BY <1>2, <1>4
<1>8. /\ (entry.latency = Absent) <=> n = 0
      /\ entry.latency # Absent => entry.latency = t /\ n > 0
  <2>1. n > 0 => t # Absent
    BY <1>5, AbsenceAssumption
  <2> HIDE DEF n, s, t
  <2> QED
    BY <1>2, <1>3, <1>4, <2>1
<1>9. /\ entry.excluded = discard \/ (entry.excluded < discard /\ n = 0)
      /\ entry.eligible <=> (report.status = "complete" /\ n > 0)
  <2>1. s # <<>> <=> n > 0
    <3> HIDE DEF n, s
    <3> QED
      BY <1>2, <1>3
  <2> HIDE DEF n, s, excluded
  <2>2. entry.excluded = discard \/ (entry.excluded < discard /\ n = 0)
    BY <1>2, <1>4
  <2>3. entry.eligible <=> (report.status = "complete" /\ n > 0)
    BY <1>4, <2>1, Zenon
  <2> QED
    BY <2>2, <2>3
<1>10. entry.point_errors # Absent => references # Absent /\ entry.point_errors = e
  BY <1>4
<1> DEFINE samples == [k \in 1 .. count - entry.excluded |->
                         report.frames[entry.excluded + k].inference_ms]
           Under(d, value) == Cardinality({k \in 1 .. Len(samples) : d * samples[k] <= value})
           Over(d, value) == Cardinality({k \in 1 .. Len(samples) : d * samples[k] >= value})
<1>11. samples = s /\ Len(samples) = n
  BY <1>2, <1>7
<1> HIDE DEF n, s, t, samples
<1>12. \A d, value : Under(d, value) = Below(d, value) /\ Over(d, value) = Above(d, value)
  BY <1>11
<1> HIDE DEF e, Below, Above, Under, Over, excluded
<1>13. /\ entry.excluded = discard \/ (entry.excluded < discard /\ Len(samples) = 0)
       /\ entry.eligible <=> report.status = "complete" /\ Len(samples) > 0
       /\ entry.latency = Absent <=> Len(samples) = 0
  BY <1>8, <1>9, <1>11
<1>14. entry.latency # Absent =>
         /\ entry.latency.count = Len(samples)
         /\ entry.latency.minimum * Len(samples) <= entry.latency.total
         /\ entry.latency.total <= entry.latency.maximum * Len(samples)
         /\ 2 * Under(2, entry.latency.median_2) >= Len(samples)
         /\ 2 * Over(2, entry.latency.median_2) >= Len(samples)
         /\ 20 * Under(20, entry.latency.p95_20) > 19 * (Len(samples) - 1)
         /\ 20 * entry.latency.minimum <= 10 * entry.latency.median_2
         /\ 10 * entry.latency.median_2 <= entry.latency.p95_20
         /\ entry.latency.p95_20 <= 20 * entry.latency.maximum
         /\ Under(1, entry.latency.maximum) = Len(samples)
         /\ Over(1, entry.latency.minimum) = Len(samples)
  BY <1>5, <1>8, <1>11, <1>12
<1>15. entry.point_errors # Absent =>
         /\ entry.point_errors.matched + Cardinality(entry.point_errors.unmatched_predictions) = count
         /\ entry.point_errors.matched + Cardinality(entry.point_errors.unmatched_references)
              = Len(references)
         /\ entry.point_errors.unmatched_predictions \cap entry.point_errors.unmatched_references = {}
  BY <1>6, <1>10
<1>16. EntryIsTruthful(entry, report, discard, references)
  BY <1>13, <1>14, <1>15, Zenon DEF EntryIsTruthful, samples, Under, Over
<1> QED
  BY <1>16 DEF entry, report, discard, references

-----------------------------------------------------------------------------
(* Summaries *)

\* evaluate_inference.cpp: whoever started it and whatever happens in between, a
\* summary that is whole says the truth of every report it names, and the exit
\* status says what the summary does.
THEOREM SummariesAreTruthful == Spec => []SummaryIsTruthful
<1>1. EInv => SummaryIsTruthful
  <2> SUFFICES ASSUME EInv PROVE SummaryIsTruthful
    OBVIOUS
  <2>0. /\ EvaluatorTypes /\ ArgumentsAreKnown /\ SummariesAreOwned /\ ExitTells
        /\ \A p \in Evaluators : CollectedIsTrue(p)
    BY DEF EInv
  <2>1. ASSUME NEW output \in Summaries, summaries[output] # Absent, summaries[output].whole
        PROVE  LET summary == summaries[output]
                   given   == arguments[summary.writer]
               IN  /\ [k \in DOMAIN summary.reports |-> summary.reports[k].report] = given.reports
                   /\ summary.complete
                        <=> \A k \in DOMAIN summary.reports : summary.reports[k].status = "complete"
                   /\ \A k \in DOMAIN summary.reports :
                        files[given.reports[k]] # Absent =>
                          EntryIsTruthful(summary.reports[k], files[given.reports[k]],
                                          given.discard, given.references)
    <3> DEFINE summary == summaries[output]
               p == summary.writer
               given == arguments[p]
               reports == run_summaries[p]
    <3>1. summary \in SummaryFiles
      BY <2>0, <2>1 DEF EvaluatorTypes
    <3>2. p \in Evaluators
      BY <2>0, <2>1, <3>1 DEF SummariesAreOwned, SummaryFiles
    <3>3. /\ summary.reports = reports /\ summary.complete = complete[p]
          /\ Len(reports) = Len(given.reports)
      BY <2>0, <2>1 DEF SummariesAreOwned, AllRead
    <3>4. reports \in Seq(Entries) /\ given.reports \in Seq(Paths)
      BY <2>0, <3>2, ArgumentFacts DEF EvaluatorTypes
    <3>5. CollectedIsTrue(p)
      BY <2>0, <3>2
    <3> HIDE DEF summary, p
    <3>6. /\ DOMAIN reports = 1 .. Len(reports) /\ Len(reports) \in Nat
          /\ DOMAIN given.reports = 1 .. Len(reports)
      BY <3>3, <3>4, LenProperties
    <3>7. ASSUME NEW k \in 1 .. Len(reports)
          PROVE  /\ reports[k].report = given.reports[k]
                 /\ files[given.reports[k]] # Absent =>
                      EntryIsTruthful(reports[k], files[given.reports[k]],
                                      given.discard, given.references)
      <4>1. PICK c \in Accepted :
              /\ c.path = given.reports[k]
              /\ c.discard = given.discard /\ c.references = given.references
              /\ reports[k] = RunSummary(c.path, c.report, c.discard, c.references)
              /\ files[c.path] \in {c.report, Absent}
        BY <3>5 DEF CollectedIsTrue
      <4>2. given.references # Absent => PointsAreUsable(given.references)
        <5>1. Len(reports) > 0
          BY <3>6
        <5> QED
          BY <3>5, <5>1 DEF CollectedIsTrue, ReferencesAreValid
      <4>3. reports[k].report = c.path
        BY <4>1 DEF RunSummary
      <4> HIDE DEF given, reports
      <4>4. EntryIsTruthful(RunSummary(c.path, c.report, c.discard, c.references),
                            c.report, c.discard, c.references)
        BY <4>1, <4>2, EntryTruthful
      <4>5. ASSUME files[given.reports[k]] # Absent
            PROVE  files[given.reports[k]] = c.report
        BY <4>1, <4>5
      <4> QED
        BY <4>1, <4>3, <4>4, <4>5
    <3>8. complete[p] <=> \A k \in 1 .. Len(reports) : reports[k].status = "complete"
      BY <3>5 DEF CollectedIsTrue
    <3> HIDE DEF given, reports
    <3>9. [k \in DOMAIN reports |-> reports[k].report] = given.reports
      BY <3>4, <3>6, <3>7, LenProperties
    <3> QED
      BY <3>3, <3>6, <3>7, <3>8, <3>9 DEF summary, p, given
  <2>2. ASSUME NEW p \in Evaluators, exit[p] \in {"0", "2"}
        PROVE  LET summary == summaries[arguments[p].output]
               IN  /\ summary # Absent
                   /\ summary.writer = p => summary.whole /\ (summary.complete <=> exit[p] = "0")
    BY <2>0, <2>2 DEF ExitTells
  <2> QED
    BY <2>1, <2>2 DEF SummaryIsTruthful
<1> QED
  BY <1>1, EvaluationInvariance, PTL

=============================================================================
