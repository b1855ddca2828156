--------------------------- MODULE ImageEvaluation ---------------------------
(***************************************************************************)
(* The script run_image_evaluation.sh: three timing passes of run_centroiding *)
(* into a temporary directory, an annotated run into the new results           *)
(* directory, then evaluate_inference over the three timing reports. Reports   *)
(* are removed only when the whole script has succeeded (trap on EXIT).        *)
(*                                                                         *)
(* Composition: a run of run_centroiding is any outcome RunPromise allows, a   *)
(* run of evaluate_inference is the EvaluateInference module. Several scripts  *)
(* may be started on one results directory, and users run evaluate_inference    *)
(* by hand, on reports of their own.                                        *)
(***************************************************************************)
EXTENDS EvaluateInference, RunPromise

CONSTANTS Scripts,      \* processes of the script
          User,         \* owner of the reports that were not made by a script
          UserReports,  \* contents such reports may have
          UserReferences, \* reference points users compare them with, or Absent
          MaxSelected,  \* images in the input directory, at most
          Discard       \* the script's --discard (5), scaled to MaxSelected

ASSUME EvaluationAssumption ==
  /\ Scripts \subseteq Evaluators
  /\ User \notin Scripts
  /\ Paths = (Scripts \X (1 .. 3)) \cup ({User} \X (1 .. 2))
  /\ Summaries = {"results", "summary"}
  /\ MaxSelected \in Nat /\ Discard \in Nat

VARIABLES
  script_at,      \* line the script is at
  selected,       \* images in the input directory
  results,        \* the script that made the results directory, or Absent
  annotated,      \* predictions.json in the results directory
  temporary,      \* state of each script's temporary directory
  run_completed,  \* the shell variable
  script_exit     \* exit status of the script

script == <<script_at, selected, results, annotated, temporary, run_completed, script_exit>>
vars == <<evaluation, script>>

Passes == <<"pass-1", "pass-2", "pass-3">>
PassNumber(s) == CHOOSE k \in DOMAIN Passes : Passes[k] = script_at[s]
TimingReports(s) == <<<<s, 1>>, <<s, 2>>, <<s, 3>>>>

\* A report of run_centroiding lists a prefix of the images.
RunReports ==
  LET Image(k) == [index |-> k - 1, source |-> "name", inference_ms |-> 1, x |-> Absent]
  IN  {[schema_version |-> 1, status |-> status, frames |-> [k \in 1 .. n |-> Image(k)]] :
         status \in {"complete", "incomplete"}, n \in 0 .. MaxSelected}

\* The entries a summary may have: one for a report that was accepted.
Accepted ==
  {c \in [path : Paths, report : RunReports \cup UserReports, discard : 0 .. Discard,
          references : UserReferences \cup {Absent}] :
     Readable(c.report) /\ PredictionsAreUsable(c.report, c.references)}
Entries == {RunSummary(c.path, c.report, c.discard, c.references) : c \in Accepted}

\* No file, directory or status is taken for none.
ASSUME AbsenceAssumption ==
  /\ Absent \notin Evaluators \cup {"0", "1", "2", "killed", "kept", "removed"}
  /\ Absent \notin [writer : Evaluators \cup {Absent}, whole : BOOLEAN, complete : BOOLEAN,
                    reports : Seq(Entries)]
  /\ Absent \notin Statistics

\* Users' reports list frames, and measure them in whole numbers; reference points
\* are listed too.
ASSUME ReportAssumption ==
  /\ \A r \in UserReports :
       /\ r.frames \in Seq({r.frames[k] : k \in DOMAIN r.frames})
       /\ \A k \in DOMAIN r.frames : r.frames[k].inference_ms \in Int
  /\ \A r \in UserReferences \ {Absent} : r \in Seq({r[k] : k \in DOMAIN r})

\* Nobody but the user has made reports before a script starts.
Init ==
  /\ \E by_hand \in BOOLEAN, first, second \in UserReports \cup {Absent} :
       /\ ~by_hand => first = Absent /\ second = Absent
       /\ files = [path \in Paths |-> CASE path = <<User, 1>> -> first
                                       [] path = <<User, 2>> -> second
                                       [] OTHER              -> Absent]
       /\ selected \in IF by_hand THEN {1} ELSE 1 .. MaxSelected
       /\ at = [p \in Evaluators |-> IF by_hand /\ p \notin Scripts THEN "start" ELSE "ended"]
       /\ script_at = [s \in Scripts |-> IF by_hand THEN "ended" ELSE "mkdir"]
  /\ summaries = [output \in Summaries |-> Absent]
  /\ \E discard \in 0 .. Discard, references \in UserReferences :
       arguments = [p \in Evaluators |->
         IF p \in Scripts
         THEN [reports |-> TimingReports(p), discard |-> Discard, references |-> Absent,
               output |-> "results"]
         ELSE [reports |-> <<<<User, 1>>, <<User, 2>>>>, discard |-> discard,
               references |-> references, output |-> "summary"]]
  /\ run_summaries = [p \in Evaluators |-> <<>>]
  /\ complete = [p \in Evaluators |-> TRUE]
  /\ exit = [p \in Evaluators |-> Absent]
  /\ results = Absent
  /\ annotated = Absent
  /\ temporary = [s \in Scripts |-> Absent]
  /\ run_completed = [s \in Scripts |-> FALSE]
  /\ script_exit = [s \in Scripts |-> Absent]

-----------------------------------------------------------------------------

GoTo(s, line) == script_at' = [script_at EXCEPT ![s] = line]

\* set -e: the status of the failing command becomes the script's.
Abort(s, status) ==
  /\ GoTo(s, "trap")
  /\ script_exit' = [script_exit EXCEPT ![s] = status]

\* Before the trap is set a failure just ends the script.
EndWithoutTrap(s, status) ==
  /\ GoTo(s, "ended")
  /\ script_exit' = [script_exit EXCEPT ![s] = status]

\* mkdir without -p: the directory must be new, and only one script makes it.
MakeResults(s) ==
  /\ script_at[s] = "mkdir"
  /\ \/ results = Absent /\ results' = s /\ GoTo(s, "mktemp") /\ UNCHANGED script_exit
     \/ EndWithoutTrap(s, "1") /\ UNCHANGED results
  /\ UNCHANGED <<evaluation, selected, annotated, temporary, run_completed>>

MakeTemporary(s) ==
  /\ script_at[s] = "mktemp"
  /\ \/ temporary' = [temporary EXCEPT ![s] = "kept"] /\ GoTo(s, "pass-1") /\ UNCHANGED script_exit
     \/ EndWithoutTrap(s, "1") /\ UNCHANGED temporary
  /\ UNCHANGED <<evaluation, selected, results, annotated, run_completed>>

\* What a run of run_centroiding may leave and return. A run that was killed
\* may have got anywhere.
Outcomes ==
  {o \in [status : {"0", "1", "2", "killed"}, report : RunReports \cup {Absent}] :
     LET listed == IF o.report = Absent THEN 0 ELSE Len(o.report.frames)
         stated == IF o.report = Absent THEN "absent" ELSE o.report.status
     IN  /\ listed <= selected
         /\ RunKeepsPromise(o.status, stated, listed, selected)}

After(line) == CASE line = "pass-1"   -> "pass-2"
                 [] line = "pass-2"   -> "pass-3"
                 [] line = "pass-3"   -> "annotate"
                 [] line = "annotate" -> "evaluate"

Continue(s, status) ==
  IF status = "0" THEN GoTo(s, After(script_at[s])) /\ UNCHANGED script_exit
                  ELSE Abort(s, status)

TimingPass(s) ==
  /\ script_at[s] \in {"pass-1", "pass-2", "pass-3"}
  /\ \E o \in Outcomes :
       /\ files' = [files EXCEPT ![<<s, PassNumber(s)>>] = o.report]
       /\ Continue(s, o.status)
  /\ UNCHANGED <<summaries, at, arguments, run_summaries, complete, exit,
                 selected, results, annotated, temporary, run_completed>>

\* The annotated run has the results directory itself as output: it accepts
\* the directory because it is still empty.
AnnotatedRun(s) ==
  /\ script_at[s] = "annotate"
  /\ \E o \in Outcomes :
       /\ annotated' = o.report
       /\ Continue(s, o.status)
  /\ UNCHANGED <<evaluation, selected, results, temporary, run_completed>>

\* A bug the properties must notice: the variable is set before the evaluation.
StartEvaluationCompleted(s) ==
  /\ script_at[s] = "evaluate"
  /\ at' = [at EXCEPT ![s] = "start"]
  /\ GoTo(s, "wait")
  /\ run_completed' = [run_completed EXCEPT ![s] = TRUE]
  /\ UNCHANGED <<files, summaries, arguments, run_summaries, complete, exit,
                 selected, results, annotated, temporary, script_exit>>

StartEvaluation(s) ==
  /\ script_at[s] = "evaluate"
  /\ at' = [at EXCEPT ![s] = "start"]
  /\ GoTo(s, "wait")
  /\ UNCHANGED <<files, summaries, arguments, run_summaries, complete, exit,
                 selected, results, annotated, temporary, run_completed, script_exit>>

EvaluationReturns(s) ==
  /\ script_at[s] = "wait"
  /\ at[s] = "ended"
  /\ IF exit[s] = "0"
     THEN /\ run_completed' = [run_completed EXCEPT ![s] = TRUE]
          /\ Abort(s, "0")
     ELSE UNCHANGED run_completed /\ Abort(s, exit[s])
  /\ UNCHANGED <<evaluation, selected, results, annotated, temporary>>

\* cleanup_temporary_reports
Trap(s) ==
  /\ script_at[s] = "trap"
  /\ IF run_completed[s]
     THEN /\ temporary' = [temporary EXCEPT ![s] = "removed"]
          /\ files' = [path \in Paths |-> IF path[1] = s THEN Absent ELSE files[path]]
     ELSE UNCHANGED <<temporary, files>>
  /\ GoTo(s, "ended")
  /\ UNCHANGED <<summaries, at, arguments, run_summaries, complete, exit,
                 selected, results, annotated, run_completed, script_exit>>

\* A signal between two commands: most run the trap, SIGKILL does not.
Interrupted(s) ==
  /\ script_at[s] \in {"pass-1", "pass-2", "pass-3", "annotate", "evaluate"}
  /\ Abort(s, "killed") \/ EndWithoutTrap(s, "killed")
  /\ UNCHANGED <<evaluation, selected, results, annotated, temporary, run_completed>>

Script(s) ==
  \/ MakeResults(s) \/ MakeTemporary(s) \/ TimingPass(s) \/ AnnotatedRun(s)
  \/ StartEvaluation(s) \/ EvaluationReturns(s) \/ Trap(s) \/ Interrupted(s)

Next ==
  \/ \E s \in Scripts : Script(s)
  \/ \E p \in Evaluators : Evaluate(p) /\ UNCHANGED script

Spec == Init /\ [][Next]_vars

-----------------------------------------------------------------------------

\* The reports of the timing passes are there until a whole, complete summary
\* of all three of them is, beside a complete annotated run: whatever fails,
\* is killed or is started a second time, a script that has removed them has
\* left their evaluation behind.
ReportsOutliveTheirSummary ==
  \A s \in Scripts :
    /\ temporary[s] = "removed" \/ script_exit[s] = "0" =>
         /\ results = s
         /\ summaries["results"] # Absent
         /\ summaries["results"].writer = s
         /\ summaries["results"].whole /\ summaries["results"].complete
         /\ Len(summaries["results"].reports) = 3
         /\ annotated # Absent /\ annotated.status = "complete"
    /\ script_at[s] \in {"annotate", "evaluate", "wait"} =>
         \A k \in 1 .. 3 : files[<<s, k>>] # Absent /\ files[<<s, k>>].status = "complete"

=============================================================================
