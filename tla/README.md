# Verification of autoforge_deploy

TLA+ specifications of the parts of this repository that keep state, fail in
the middle of things or run concurrently, and of the algorithms and checks
those parts rest on: the report writer and the programs that drive it in C++,
Python and MATLAB, the ROS 2 lifecycle node, model loading, the TensorRT
backend, the selection and staging of images, the evaluation of reports, and
the command-line programs. TLC checks them on small instances; TLAPS proves the
central properties for every value of the constants.

Paths below are relative to the repository root.

## The system

| Component | State it keeps | Operations | Talks to |
| --- | --- | --- | --- |
| Report writer, `src/utils/inference_output` (`CReport`) | `frames.jsonl`, `predictions.json.tmp`, `predictions.json`; `state_`, `committed_frames_` | constructor, `Append`, `Publish` | file system; called by the example programs |
| Centroiding run, `examples/centroiding_models/run_centroiding.cpp` | `stage`, `index`, the exception on its way | one pass over the frames of a sequence | facade, report, images |
| Centroiding demos, `examples/centroiding_models/*.py`, `RunCentroidingFacadeDemo.m` | the same report files, written by code of their own; `stage`, `index`, the records (MATLAB) | one pass over the frames, again and again | wrappers, report files |
| YOLO demos, `examples/object_detection_yoloV7` | none beyond one run | choose a runtime, load, infer, decode | facade, wrappers |
| Lifecycle node, `ros2/ptafdeploy_ros` | facade, publisher, service, gate, counter, last error, all under `inference_mutex_` | `on_configure`, `on_activate`, `on_deactivate`, `on_cleanup`, `HandleInference` | rclcpp state machine and executor, clients, facade |
| Facade and manager, `src/inference/model_facade.*`, `inference_manager.*` | `loaded_model_` (backend and contract), `backend_` | load entry points, inference, getters | ORT or TensorRT backend |
| ONNX Runtime backend, `src/inference/onnx_runtime` | session, environment, options, metadata | `LoadModel` with the provider chain, `Infer` | ONNX Runtime |
| TensorRT backend, `src/inference/tensorrt` | `state_`, `options_`, `metadata_` under `inference_mutex_`; device buffers | `LoadModel`, `Infer`, destructor | CUDA, TensorRT |
| Manifests, `model_facade.cpp`, `schemas/` | none | parse, validate, write | facade |
| Tensor selection, task adapters, value types | none | pure conversions | programs, node |
| Evaluation: `report_reader.cpp`, `evaluate_inference.cpp`, `run_image_evaluation.sh` | a temporary directory | read reports, write a summary once | report files |
| Sampling, metrics, images, value parsing, file staging, `src/utils` | none | pure algorithms, and one copy or link loop | programs |
| Logger | level | filtered, locked output | all |
| Command-line programs, `src/programs` | none beyond one run | see each program | facade |
| Wrappers: SWIG, MATLAB, Python, MEX | an object handle | forward to the facade | facade |

What is hard in it: partial failure (every file operation of the report, every
step of a reload, every CUDA call), order (commit, publish, rename, remove;
exchange and destruction on the right device), the mutexes of the node and of
the TensorRT backend against a state machine and devices they do not cover,
and retries (the CPU retry of ORT, a failure publication after a failed
publication). Nothing is sent over a network; only the node and the TensorRT
backend are used by more than one thread. `PROJECT.json` lists each hazard
at its line, with the properties that would catch it.

What makes each part correct:

* report: a reader sees whole reports only, a prefix of the accepted frames,
  all of them once it says "complete"; frames survive any failure until then;
* run: exit status, report and structured error agree;
* node: the gate, the counter and the status follow the lifecycle, and every
  request is answered;
* loading: a failed load changes nothing, a strict load is strict, the backend
  detail is true;
* TensorRT: callers keep their device, memory is neither lost nor used too
  small, and one load's state, options and metadata stay together;
* staging and manifests: nothing found is replaced, and a description names
  only what its run made;
* evaluation: a summary tells the truth of its reports, and reports outlive
  their summary;
* programs: each does what its command line and the manifest ask for;
* pure algorithms: each equals its plain definition.

## Modules

### ReportPublication, InferenceReport, InferenceReportProofs

`ReportPublication` is the promise to readers: frames are accepted one by one,
and the visible report is replaced, as a whole, by one listing exactly the
frames accepted so far; a complete report is the last.

`InferenceReport` is `CReport`. `spool`, `tmp` and `predictions` are the three
files; `state` and `committed` are the members; `pc` and `call` are the
`Publish` in progress. Publish is one action per system call (`OpenReport`,
`CopyFrame`, `CloseReport`, `RenameReport`, `FinishPublish`, or
`PublishFails` at any of them), so that a failure or the end of the process
(`Terminate`) can fall between any two. `Append` is one action with its
outcomes: `AppendCommits`, or `AppendFails` after nothing, a torn tail or the
whole line reached the disk. A record is its index, a payload and whether it
is whole; JSON text has no other part in the properties. Any caller is
allowed, with any arguments in any order. The header places power loss outside
the contract; `Terminate` is the end of the process, not of the machine.

Run `report` (2 payloads, 1 error, 3 frames): with 3 frames an append can
succeed before and after an intermediate publication and fail at the third;
two payloads tell a repeated line from its successor.

Proved: type correctness, the inductive invariant `IInv`, prefix publication,
recoverability, finality, and the refinement of `ReportPublication`. `IInv`
adds to the published properties what the copy has done so far (`CopyInv`) and
what a live object knows (`ObjectInv`): its count is the number of accepted
frames, an active report has an untorn spool of exactly that length. Without
these a step of `CopyFrame` could publish a line that was never committed.

### CentroidingRun

`main` of `run_centroiding`, composed with `InferenceReport` by `INSTANCE`: it
owns the report's variables and takes the report's actions at the points where
`main` calls them. `at` is the control point, `stage` and `index` the variables
of that name, `cause` the exception in flight, `exit` the status. Every stage
may throw `std::invalid_argument` or something else. A command line that asks
for help or the version is not a run and is left out. `BadNames` are frames
whose file name cannot be serialised, so that both the record and the failure
that names it are rejected.

Run `centroiding` (up to 3 frames, one bad name, with and without `--output`
and `--overlays`). `RunEnds` assumes weak fairness of the single thread. The
process ends in the model, so deadlock is not checked there.

Proved for every set of payloads, every number of frames and every set of bad
names: the four safety properties. The proof does not repeat that of
`CReport`; its invariant `RunInv` states what `main` may rely on at each of its
control points (`ReportInv`): before the first frame the report is incomplete
and empty, inside the loop `index` is the number of committed frames, in the
handler the failure is plausible (`FailureIsPlausible`: it names the first
missing frame, or no frame before the first or after the last), while the
failure is published the report is either the old one or that failure with
every committed frame. `EveryStepIsACall` shows that each step of `main` is one
of the report's own actions, so that `WriterInv` needs one case per action of
the report, and `ReportInv` one per action of `main`.

`RunPromise` is what the exit status promises to whoever started the run. The
script of the evaluation assumes no more than it.

### DemoRuns

The centroiding demos in Python (`run_demo` with `Report` of
`inference_output.py`) and MATLAB (`RunCentroidingFacadeDemo`). They write the
report format of the C++ program with two mechanisms of their own: Python
publishes the first `committed_frames` lines of the spool, MATLAB the records
it holds in memory, with the spool as a second copy. One module has both,
told apart by `demo.program` where the codes differ: when the spool is
created, what is listed, the stages named, and whether an interrupt still
runs a `finally`. `recorded` is `committed_frames`, `frames_jsonl`,
`json_tmp` and `predictions_json` the files, and every stage and file
operation may fail or be interrupted, in the middle of a write too. `RunAgain`
gives the same directory to another run of either program.

Both are shown to implement `ReportPublication`, the abstract specification of
the C++ writer, so that a reader of a report need not know who wrote it.
Checked in run `programs` with 2 frames, which is enough for a frame appended
before and a frame failing after; proved for any number of frames. `DemoInv`
relates the point a run has reached to its frames (`Progress`), the records and
files to the frames appended (`Holdings`), and the temporary file to the
report it will become. The proofs are in `ModelProgramsProofs`.

### InferenceLifecycle, InferenceLifecycleProofs

`CInferenceLifecycleNode` with one action per lifecycle callback and
`HandleInference` in two steps, `Lock` and the body (`InferSucceeds` or
`InferFails`), because everything between is done under the mutex. rclcpp's
state machine (`BeginTransition`, `EndTransition`), executor (`Take`) and
clients (`Send`) are external: the machine changes state before the callback
runs and after it returned, without the node's mutex, which is why a status
may name a state that is already history. Publishing a status is assumed not
to throw.

`Serialized = TRUE` is the deployed process: the transition services and the
inference service share the default callback group of a single-threaded
`rclcpp::spin` (`ptafdeploy_node_main.cpp`), so a request is never taken
inside a transition. `Serialized = FALSE` lets another thread call
`configure()`, `activate()` and the rest on the node object, as a component
container or a test may.

Fairness: a callback that waits for a mutex released again and again gets it
(strong fairness; `std::mutex` as glibc provides it does not starve one waiter
among two threads), an inference call returns, the executor serves each
ready service of a wait set.

Runs `lifecycle_threads` (2 requests, 2 configurations, threads),
`lifecycle_services` (the deployed process) and `lifecycle_shutdown`, the
counterexample of a finding. Two requests are enough for one to run while the
other waits through a whole cleanup and reconfiguration; two loads are needed
for a request to be taken under one model and served by the next.

Proved for any set of requests, any bound and either value of `Serialized`:
`IInv`, which says what each machine state means for gate, endpoints, model
and result of the callback (`NodeInv`), that the mutex holder is the running
request (`RequestInv`), and the count and the status. `StatusNamesPrimaryState`
is proved for `Serialized = TRUE`, from `IInv` and the fact that no request is
served during a transition.

### ModelLoading, MCModelLoading, ModelLoadingProofs

The way from a load call on a `CModelFacade` or a `CInferenceManager` to the
exchange: checks and backend choice (`SelectBackend`), `ApplyOrtProviders` one
target at a time (`SkipTarget`, `AppendProvider`), `MakeSessionOptions`, the
session and its retry (`CreateSession`, `SessionFails`, `RetryOnCpu`), the
standalone engine (`LoadEngine`), description and `Publish`. A model is one of
five artifacts, told apart by what the backends do with it. The ORT session
constructor and its node placement are external: `Nodes` and `OrtAccepts` are
what ONNX Runtime documents for the options this code sets. Neither class is
synchronised, so there is one caller; a call that has begun runs to its end
(weak fairness of `Step`).

`MCModelLoading` gives the requests: all artifacts with five target chains,
strict and relaxed, and four requests the checks refuse. Runs `loading` and
`provider_fallback`, the counterexample of a finding.

Proved for every set of requests and chains of any length: `IInv`, which says
how far the provider chain has come (`ProvidersInv`: in a strict load every
target passed so far was appended) and that the replacement is honest before
it is published (`SessionInv`).

### TensorRtEngine, TensorRtEngineProofs

`CInferenceManager_TensorRT_Engine` and its `STensorRtState`, by several
threads, each with a current CUDA device of its own. A load builds a state
object (`Build`), exchanges it (`Commit`) and destroys the displaced one on
its own device (`SwitchDevice`, `Release`, `RestoreDevice`: the destructor in
three steps, so that device and memory can be compared at each). An inference
takes the tensors in turn: `Reuse`, or `Free` and `Allocate` with a failure
possible between them. `memory` is what CUDA has handed out and not got back;
what the code believes it owns is in `states`. Tensors are sizes. Destroying
the object is allowed only when no call is in progress, as C++ requires.
Assumed: selecting a device that was current before succeeds, as the
destructors of the code assume too, and a failing `cudaFree` frees nothing.

Run `tensorrt` (2 threads, 2 devices, 2 device tensors and a host tensor of
sizes 0 to 2): two devices make a reload and a destruction cross devices, size
2 after 1 makes a buffer grow. `CallsReturn` assumes that a call inside the
mutex proceeds and that the mutex starves no waiter.

Proved for any threads, devices, engine files, tensors and sizes: all the
safety properties of the run. `IInv` adds who is inside (`ThreadsInv`), which
devices the scopes on the stack have saved (`ScopesInv`), which device the
thread inside is on (`DeviceInv`), which state object is current and which is
about to die (`StatesInv`), whether a load has made its exchange (`LoadInv`)
and that a buffer prepared for a tensor stays large enough (`BuffersInv`).
Without the saved devices nothing says that a thread gets its own back; without
`BuffersInv` a freed buffer could still be taken for a large one. The two
state names are enough for any number of threads because the mutex admits one
replacement at a time, which `StatesInv` proves.

### Sampling, EvenSelection, Staging, StagingProofs

`EvenSelection` is the promise of `sampling.h`, with the multiplication the
code avoids; `Sampling` is the loop, one action per pass, so that the sums of
two passes, which must fit `size_t`, are states.

`Staging` is `prepare_image_sequence`: the listing, the selection (the
variables of `Sampling`), the inspection of each selected image, creation of
the directory, one link or exclusive copy per image, `selection.json` last.
Another program may remove sources or create entries in the directory at any
time, a step may fail, the process may be killed, and it is run again on what
is there. A file is its position in the listing.

Run `staging` (up to 5 images, 2 runs): 4 elements with 3 samples are the
smallest uneven remainder, 5 with 3 the smallest even step above one; a second
run is needed to meet the remains of the first.

Proved for every number of images and samples and any number of runs:

* the loop returns exactly the promised quotients, strictly increasing, first
  and last included, and no value leaves `size_t` (`SelectsExactly`). Its
  invariant `SelectInv` is the accounting of the remainder: after k passes
  `selected_index * interval_count + accumulated_remainder` is k times the
  interval;
* `selection.json` names only files its own run staged (`ManifestIsTruthful`),
  and no entry found in the directory is ever replaced (`NothingIsReplaced`).
  Both rest on `EntriesAreKept`, that no step replaces or removes an entry, so
  that the files before `position` stay this run's own until the manifest names
  them and afterwards.

### PointMetrics, EvaluateInference, ImageEvaluation, MCImageEvaluation

`PointMetrics` has the quantiles, extremes, discarding and matching over
integers; a quantile is kept as a multiple of its denominator. `EvaluateInference` is the
program and the reader of reports: which reports are refused and why, the
summary of each, the exclusive check for an earlier summary, and writing the
new one, by several processes. `ImageEvaluation` is the shell script over
them, one action per command with `set -e`, signals and the trap on `EXIT`; a
run of `run_centroiding` in it is any outcome `RunPromise` allows, which
`CentroidingRun` is proved to keep, and a run of `evaluate_inference` is the
module above.

Run `evaluation`: two scripts started on one results directory, or two
evaluations started by hand on one summary, with one report for every way to be
accepted and for every reason to be refused. Two evaluations may both find no
summary and the later one then empties the earlier; the program promises
nothing about this, and `SummaryIsTruthful` speaks of whole summaries.

`ImageEvaluationProofs` proves both safety properties for reports of any length,
any scripts and any evaluations. The invariant `EInv` says that what an
evaluation has collected is the summary of the reports it has read
(`CollectedIsTrue`), whose summary a file is (`SummariesAreOwned`), what each
exit status stands for (`ExitTells`), and what each command of the script may
rely on (`ScriptStands`); `ReportsOutlive` follows from it.
`SummariesAreTruthful` rests on lemmas about the algorithms: `Sorted` states
`std::sort` by the ranks of the samples, and the lemmas show that the result is
ordered and holds the same values, that a quantile's neighbours split the
samples as asked, that a total lies between its count times the smallest and
the largest, and that matched and unmatched points together are all of them.

### ModelPrograms and the modules it instantiates

Six parts that share no state are checked in one run, each behaviour choosing
one of them (`part`):

* `TensorContracts`, `RunOrtInference`: the whole of `run_ort_inference`, from
  `input=path`, `input=value` and shape options through the size checks to the
  files it writes. `SizeMax` is 63, so that the products of small dimensions
  overflow as they would at 64 bits. `AcceptedInputsFitTheModel` states, of the
  command line and the model only, what may be run; `StatusTellsOutputs` what
  status 0 means for the files. Proved of it for any model, command line, raw files and width of `size_t`:
  both properties (`InputsFit`, from `InputInv`, which follows an input from its
  specification to the view the backend is given, and `StatusIsTruthful`, from
  `OutputInv`). The byte count is a fold; `CountIsExact` shows that it is the
  product of the dimensions or an overflow.
* `DetectionDecoding`: `DecodeDetectionRows` against the rows of the tensor,
  where the tensor is built from coordinates, not by the code's formula. Layouts
  put the attribute axis first, in the middle, last and out of range; scores
  tie, are not finite, or lie beside boxes of negative size. Proved for tensors
  of any rank and size, any schema, threshold and limit (`DetectionsAreTheBest`).
  `DecodeInv` says that before the sort the detections are what was found in the
  rows looked at so far, in their order, and that it is their best afterwards.
  Under it lie three facts. The position `GetRowValueIndex` computes has the
  coordinates of its row (`PositionFacts`: digits of a mixed-radix number, cut by
  `ExtentFacts`), from which the row is counted back (`RowOfPosition`). The loop
  over the classes ends with the first of the largest (`BestClassIsFirst`). Each
  insertion of `StableSort` leaves every member at its place among those inserted
  (`SortingIn`), so that the place in the vector is the place among the kept rows
  (`PlacesAgree`).
* `MakeManifest`: `ParseModelConfigJson` with the schema, and
  `make_ptafmodel init` by two makers and a reader on one path, next to
  manifests written by hand. Proved for any makers, readers and requests
  (`ManifestsAreTruthful`); `OwnerInv` relates a manifest to the maker that
  wrote it.
* `NaturalOrder`: the comparison of `images.cpp` is a strict weak order that
  compares numbers as numbers, and agrees with those of the Python and the
  MATLAB demo. Names of up to 2 bytes over a hyphen, two digits and a letter,
  and longer ones with leading zeros. Proved for names of any bytes and any
  length (`ListingIsAnOrder`). The native and the Python code compare in
  different ways, one byte by byte with two indices, the other after cutting
  both names into pieces. The proof
  cuts in both cases: pieces (`NamePieces`: a number, or one byte) are in a weak
  order (`PiecesAreOrdered`), sequences of pieces therefore too
  (`LexIsTransitive`), the recursion of `NaturalLess` has exactly one solution,
  which is that order with bytes as the last resort (`NaturalLessIsVerdict`),
  and so is what the Python code computes (`PythonComparesPieces`). The MATLAB
  code walks as the native one does but looks for the first difference where
  that compares bytes, which is the same (`FirstDifferenceAgrees`). That the
  number of fewer significant digits, or of the first smaller digit, has the
  smaller value is `SmallerIsBelow`.
* `RuntimeOverrides`: how the seven programs and demos that load a model choose the runtime
  configuration; an override reads the manifest twice and another program may
  replace it in between. Two manifests differ in every field an option names
  (target, fallback, device, threads, backend, artifact, TensorRT profile), and
  the options include a device of zero, negative numbers, and none. Proved for
  any manifests and options (`RuntimeIsPromised`): `RuntimeInv` says whose fields the
  configuration holds at each step (`Policy`).
* `DemoRuns`, above.

`CHECK_DEADLOCK FALSE` in the lifecycle runs (the node is destroyed), and in
`programs`, `ort_outputs`, `staging`, `evaluation`
and `centroiding`: programs end.

## What is proved and what is only checked

Every safety property of the passing runs is proved for every value of the
constants. Each proof follows the same argument: an inductive invariant, first found to hold on a small instance by
TLC, one step per action, and the named property as a consequence. The type
invariants (`TypeOK`) are part of these invariants and are theorems; the runs
spend their time on the other properties.

The proof modules are `InferenceReportProofs`, `CentroidingRunProofs`,
`InferenceLifecycleProofs`, `ModelLoadingProofs`, `TensorRtEngineProofs`,
`StagingProofs`, `ImageEvaluationProofs` and, for the parts that `ModelPrograms`
runs side by side, `ModelProgramsProofs`, each part under its own
specification (`DemoSpec`, `RuntimeSpec`, `ManifestSpec`, `OrtSpec`,
`DecodeSpec`, `NamesSpec`).

Two refinements are proved as well as checked: `CReport` and the demos both
implement `ReportPublication`.

What folds and recursive functions compute is shown by a least counterexample
(`WFMin` of `WellFoundedInduction`, packed into `Least` and `Reaches`). The
induction theorems of the library take an operator as a parameter, which the
provers cannot instantiate; that a set of bad positions has a least one needs no
operator.

Assumed are only the named assumptions on the constants: bounds are natural
numbers, sets that are counted are finite, a few names are distinct from each
other and from every value they stand beside ("absent", "missing"), a file
name is a sequence of bytes (`NamesAssumption`), and what a model, a command
line, a manifest or a report lists is a sequence (`OrtAssumption`,
`ContentsAssumption`, `ManifestAssumption`, `ReportAssumption`). The
dimensions of a tensor to decode are not negative, nor are the indices of a
schema whose type is unsigned (`DecodingAssumption`), and it has as many cells as
its shape says (`CellsAssumption`): tensors that break this are refused by the
code and left out of the model.

Only model-checked: every liveness property (`RunEnds`, `RequestsAreAnswered`,
`TransitionsEnd`, `LoadEnds`, `CallsReturn`), which the prover cannot treat
under fairness.

## Findings

* After a shutdown from the active state the finalized node keeps its service
  and gate and answers requests with success
  (`ros2/ptafdeploy_ros/src/CInferenceLifecycleNode.cpp:136`), where the header
  says that inference is accepted only while active.
* A provider that fails while it is appended to the session options aborts the
  load (`src/inference/onnx_runtime/onnxruntime_inference_tools.cpp:392`), where
  `UseCudaWithCpuFallback` promises CUDA followed by CPU fallback; the retry
  covers the session only.
* `run_ort_inference` tests its output stream before the stream's buffer is
  written out (`src/programs/run_ort_inference.cpp:527`): a small output
  that meets a full disk is left short, with exit status 0, where the comment at
  line 503 says that an output that cannot be written completely throws.

## Not modelled

* Image resampling, overlay drawing, rounding and the numbers inside JSON: TLC
  has no reals, and no control depends on them. The mapping of image rows to
  tensors (HWC to NCHW) and `DecodeFeatureRows`, whose layout is that of
  `DecodeDetectionRows`.
* The logger: filtering is one comparison, the output mutex is held for one
  write. Option tables, formatting and printing, among them the whole of
  `get_available_providers` and, past the choice of its runtime,
  `benchmark_model`.
* SWIG, MATLAB and Python wrappers: type conversion over the facade, with no
  state of their own. The older MEX callers under `matlab/ORT-MEX` are
  stand-alone, and their process for repeated calls is unfinished.
* ROS 2 launch files: they hand `autostart` to launch_ros, whose transitions
  are the external callers of `InferenceLifecycle`.
* Build files, container and version scripts.
* Vendored rapidjson and TCLAP, about half of the lines in the repository: not
  this program's logic. They are used as what they promise, a parser and
  writer of JSON that accepts or throws, and a command line that is parsed or
  refused. Most lines of this repository that no definition maps are theirs,
  tests, or one of the above.
* Ordering of pending CUDA copies after an inference that threw
  (`tensorrt_inference_engine.cpp:588`, listed as a hazard): the driver decides
  it, and nothing in the code says what is relied on.
* Two threads in one `CModelFacade`: neither the facade nor the manager
  promises it, and no caller in the repository does it.

## Plan

Done: everything in the sections above. What would extend it, in order:

1. A model of pending copies per CUDA stream, once the intended ordering is
   written down in the code.
2. Launch: `autostart` as a caller of the lifecycle node, when the composed
   node handles a failed configuration.
