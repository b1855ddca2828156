--------------------------- MODULE RuntimeOverrides ---------------------------
(***************************************************************************)
(* How the programs that load a model choose its runtime configuration: the  *)
(* manifest's, the defaults of a raw artifact, and what the command line says *)
(* besides.  An override reads the manifest twice, once for the runtime and   *)
(* once for the model, and another program may replace it in between.         *)
(*                                                                         *)
(* A configuration is abstracted to the fields some program can override;     *)
(* log_id stands for the fields none of them overrides as well.              *)
(***************************************************************************)
EXTENDS Integers, Sequences

CONSTANTS ManifestContents,   \* [model, runtime]: what the manifest file may hold
          NotGiven     \* an option left out

VARIABLES
  choice,        \* the program, its model path and its options
  choice_at,     \* "options", "load", "loaded" or "failed"
  manifest_file, \* what the manifest holds now
  runtime,       \* args.runtime
  chosen,        \* the contract of the loaded model: its artifact and runtime
  held           \* history: what the manifest has held since the run began

choices == <<choice, choice_at, manifest_file, runtime, chosen, held>>

SRuntimeConfig ==
  [backend |-> "auto", artifact |-> "auto", execution_target_priority |-> <<>>,
   allow_fallback |-> TRUE, device_id |-> 0, intra |-> 1, inter |-> 1, profile |-> 0,
   log_id |-> "autoforge_deploy"]

\* What ParseModelConfigJson makes of the runtime options of a manifest.
RuntimeConfigs ==
  [backend : {"auto", "onnxruntime", "tensorrt_engine"},
   artifact : {"auto", "onnx", "tensorrt_engine"},
   execution_target_priority : Seq({"cpu", "cuda", "tensorrt"}), allow_fallback : BOOLEAN,
   device_id : Nat, intra : Nat, inter : Nat, profile : Nat, log_id : STRING]

ASSUME ContentsAssumption ==
  \A content \in ManifestContents : content \in [model : STRING, runtime : RuntimeConfigs]

Native == {"run_centroiding", "benchmark_model"}
YoloPrograms == {"object_detection_yoloV7", "run_object_detection.py", "RunYoloFacadeDemo.m"}
Demos  == {"run_centroiding.py", "RunCentroidingFacadeDemo.m"}
Matlab == {"RunYoloFacadeDemo.m", "RunCentroidingFacadeDemo.m"}

OrElse(option, otherwise) == IF option = NotGiven THEN otherwise ELSE option

\* uint32 arguments of MATLAB saturate: a negative device is device 0.
Device(c) ==
  IF c.program \in Matlab /\ c.device # NotGiven /\ c.device < 0 THEN 0 ELSE c.device

HasOverride(c) ==
  \/ c.target # NotGiven \/ c.device # NotGiven \/ c.no_fallback
  \/ c.intra # NotGiven \/ c.inter # NotGiven
  \/ c.backend # NotGiven \/ c.artifact # NotGiven \/ c.profile # NotGiven

\* SetDeviceId, SetThreadCounts, SetTensorRtOptimizationProfileIndex and the
\* parsers refuse negative numbers.
OptionsAreRefused(c) ==
  \/ Device(c) # NotGiven /\ Device(c) < 0
  \/ \E number \in {c.intra, c.inter, c.profile} : number # NotGiven /\ number < 0

-----------------------------------------------------------------------------
\* Options not given leave their fields alone.
WithDevice(r, c) == [r EXCEPT !.device_id = OrElse(Device(c), r.device_id)]
WithTarget(r, c) ==
  IF c.target = NotGiven THEN r ELSE [r EXCEPT !.execution_target_priority = <<c.target>>]
WithoutFallback(r, off) == IF off THEN [r EXCEPT !.allow_fallback = FALSE] ELSE r

\* What the edits start from: the manifest's runtime as read, or defaults.
ReadsRuntime(c) ==
  /\ c.path = ".ptafmodel"
  /\ HasOverride(c)
  /\ c.program \in Demos => c.target = NotGiven

Base(c, content) ==
  IF ReadsRuntime(c) THEN content.runtime
  ELSE IF c.program = "run_centroiding" /\ c.path # ".ptafmodel"
       THEN [SRuntimeConfig EXCEPT !.log_id = "run_centroiding"]
       ELSE SRuntimeConfig

\* ParseArgs of benchmark_model and ParseArguments of run_centroiding.
NativeRuntime(c, base) ==
  [WithTarget(WithoutFallback(WithDevice(base, c), c.no_fallback), c)
     EXCEPT !.backend = OrElse(c.backend, base.backend),
            !.artifact = OrElse(c.artifact, base.artifact),
            !.intra = OrElse(c.intra, base.intra), !.inter = OrElse(c.inter, base.inter),
            !.profile = OrElse(c.profile, base.profile)]

\* LoadModel, load_model and LoadYoloModel_ of the detection demos; make_runtime
\* and MakeRuntime_ of the centroiding demos.
DemoRuntime(c, base) == WithoutFallback(WithTarget(WithDevice(base, c), c), c.target # NotGiven)

\* Mutant: a device of zero counts as none.
ChosenRuntimeByValue(c, content) ==
  LET d == IF c.device = 0 THEN [c EXCEPT !.device = NotGiven] ELSE c
  IN  IF c.program \in Native THEN NativeRuntime(d, Base(c, content))
                              ELSE DemoRuntime(d, Base(c, content))

ChosenRuntime(c, content) ==
  IF c.program \in Native THEN NativeRuntime(c, Base(c, content))
                          ELSE DemoRuntime(c, Base(c, content))

-----------------------------------------------------------------------------
RuntimeChoices ==
  {c \in [program : Native \cup YoloPrograms \cup Demos, path : {".ptafmodel", ".onnx"},
          target : {NotGiven, "cpu", "cuda"}, device : {NotGiven, -1, 0, 1},
          intra : {NotGiven, -1, 2}, inter : {NotGiven, -1, 2},
          backend : {NotGiven, "onnxruntime"}, artifact : {NotGiven, "onnx"},
          profile : {NotGiven, -1, 2}, no_fallback : BOOLEAN] :
     /\ c.program \notin Native => ~c.no_fallback
     /\ c.program # "run_centroiding" => c.intra = NotGiven /\ c.inter = NotGiven
     /\ c.program # "benchmark_model" =>
          c.backend = NotGiven /\ c.artifact = NotGiven /\ c.profile = NotGiven
     /\ c.program \in YoloPrograms => c.path = ".ptafmodel"}

RuntimeInit ==
  /\ choice \in RuntimeChoices /\ choice_at = "options"
  /\ manifest_file \in ManifestContents /\ held = {manifest_file}
  /\ runtime = SRuntimeConfig /\ chosen = <<>>

\* The options are parsed and, with an override, the manifest is read.
ChooseRuntime ==
  /\ choice_at = "options"
  /\ IF OptionsAreRefused(choice)
     THEN choice_at' = "failed" /\ UNCHANGED runtime
     ELSE choice_at' = "load" /\ runtime' = ChosenRuntime(choice, manifest_file)
  /\ UNCHANGED <<choice, manifest_file, chosen, held>>

\* LoadModelConfig takes model and runtime from one reading; the entry points with
\* a runtime configuration read the manifest for the model only.
LoadChosen ==
  /\ choice_at = "load"
  /\ chosen' =
       IF choice.path # ".ptafmodel" THEN [model |-> "artifact", runtime |-> runtime]
       ELSE [model |-> manifest_file.model,
             runtime |-> IF HasOverride(choice) THEN runtime ELSE manifest_file.runtime]
  /\ choice_at' = "loaded"
  /\ UNCHANGED <<choice, manifest_file, runtime, held>>

\* A manifest that cannot be read, or a model that cannot be loaded.
ChoosingFails ==
  /\ choice_at \in {"options", "load"}
  /\ choice_at' = "failed"
  /\ UNCHANGED <<choice, manifest_file, runtime, chosen, held>>

\* make_ptafmodel or an editor replaces the manifest.
ReplaceManifest ==
  /\ choice_at \in {"options", "load"} /\ choice.path = ".ptafmodel"
  /\ manifest_file' \in ManifestContents \ {manifest_file}
  /\ held' = held \cup {manifest_file'}
  /\ UNCHANGED <<choice, choice_at, runtime, chosen>>

RuntimeNext == ChooseRuntime \/ LoadChosen \/ ChoosingFails \/ ReplaceManifest

-----------------------------------------------------------------------------
(* What the READMEs of the examples say of a configuration r, where p is the  *)
(* policy the manifest states or, for a raw artifact, the defaults.            *)
KeepsPolicy(c, r, p) ==
  /\ r.backend = OrElse(c.backend, p.backend)
  /\ r.artifact = OrElse(c.artifact, p.artifact)
  /\ r.intra = OrElse(c.intra, p.intra) /\ r.inter = OrElse(c.inter, p.inter)
  /\ r.profile = OrElse(c.profile, p.profile)
  /\ r.device_id = OrElse(Device(c), p.device_id)
  /\ c.target = NotGiven => r.execution_target_priority = p.execution_target_priority
  /\ c.target # NotGiven => r.execution_target_priority = <<c.target>>
  /\ IF c.no_fallback \/ (c.program \notin Native /\ c.target # NotGiven)
     THEN ~r.allow_fallback ELSE r.allow_fallback = p.allow_fallback

(* object_detection_yoloV7/README.md "Runtime overrides" and                  *)
(* centroiding_models/README.md "Python and MATLAB runtime selection": the     *)
(* model is loaded with the manifest's policy but for the options given, or,   *)
(* in the centroiding demos with an explicit target, with the defaults but for *)
(* the options given.  The manifest is one the file held during the run, and   *)
(* without an option it is the one the model comes from.                      *)
RuntimeIsThePromisedOne ==
  choice_at = "loaded" =>
    IF choice.path # ".ptafmodel" THEN KeepsPolicy(choice, chosen.runtime, SRuntimeConfig)
    ELSE /\ \E content \in held : chosen.model = content.model
         /\ ~HasOverride(choice) => chosen \in held
         /\ \E policy \in IF choice.program \in Demos /\ choice.target # NotGiven
                         THEN {SRuntimeConfig} ELSE {content.runtime : content \in held} :
              /\ KeepsPolicy(choice, chosen.runtime, policy)
              /\ chosen.runtime.log_id = policy.log_id
=============================================================================
