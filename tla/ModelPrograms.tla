---------------------------- MODULE ModelPrograms ----------------------------
(***************************************************************************)
(* Instances of parts that share nothing: run_ort_inference, the decoding of   *)
(* detections, manifests, the order of names, the Python and MATLAB demos and  *)
(* the choice of a runtime configuration. A behaviour runs one of them; the    *)
(* others wait in a state where they have nothing to do.                       *)
(***************************************************************************)
EXTENDS RunOrtInference, DetectionDecoding, MakeManifest, NaturalOrder, DemoRuns, RuntimeOverrides, TLC

VARIABLE part   \* the part this behaviour runs

vars == <<part, ort, decoding, manifests, names, demo_vars, choices>>

NoCommand == [metadata_only |-> TRUE, inputs |-> <<>>, shapes |-> <<>>, fills |-> <<>>,
              output_dir |-> FALSE]

OrtIdle ==
  /\ at = "ended" /\ arguments = NoCommand /\ model = <<>> /\ raw = <<>>
  /\ inputs = <<>> /\ ordered = <<>> /\ next_output = 1
  /\ outputs = [k \in 1 .. OutputCount |-> Missing] /\ exit = Missing
DecodeIdle ==
  /\ layout = <<>> /\ cells = <<>> /\ limits = <<>>
  /\ row = 0 /\ detections = <<>> /\ decoded = "thrown"
ManifestIdle ==
  /\ manifest = Absent
  /\ maker_at = [p \in Makers |-> "ended"] /\ request = <<>>
  /\ maker_exit = [p \in Makers |-> Absent]
  /\ config = [r \in Readers |-> Absent]
NamesIdle == names = [k \in 1 .. 3 |-> <<>>]
DemoIdle ==
  /\ demo = [program |-> "python", overlays |-> FALSE, count |-> 1]
  /\ demo_at = "over" /\ demo_stage = "model_load" /\ demo_index = NoIndex
  /\ demo_failed = FALSE /\ demo_exit = "1" /\ owns = FALSE
  /\ recorded = 0 /\ memory = <<>>
  /\ frames_jsonl = NoFrames /\ json_tmp = Absence /\ predictions_json = Absence
  /\ appended = <<>>
RuntimeIdle ==
  /\ choice = NotGiven /\ choice_at = "failed" /\ manifest_file = NotGiven
  /\ runtime = SRuntimeConfig /\ chosen = <<>> /\ held = {}

Init ==
  /\ part \in {"inference", "decoding", "manifest", "names", "demos", "runtime"}
  /\ IF part = "inference" THEN OrtInit ELSE OrtIdle
  /\ IF part = "decoding" THEN DecodeInit ELSE DecodeIdle
  /\ IF part = "manifest" THEN ManifestInit ELSE ManifestIdle
  /\ IF part = "names" THEN NamesInit ELSE NamesIdle
  /\ IF part = "demos" THEN DemoInit ELSE DemoIdle
  /\ IF part = "runtime" THEN RuntimeInit ELSE RuntimeIdle

Next ==
  /\ \/ part = "inference" /\ OrtNext /\ UNCHANGED <<decoding, manifests, names, demo_vars, choices>>
     \/ part = "decoding" /\ DecodeNext /\ UNCHANGED <<ort, manifests, names, demo_vars, choices>>
     \/ part = "manifest" /\ ManifestNext /\ UNCHANGED <<ort, decoding, names, demo_vars, choices>>
     \/ part = "demos" /\ DemoNext /\ UNCHANGED <<ort, decoding, manifests, names, choices>>
     \/ part = "runtime" /\ RuntimeNext /\ UNCHANGED <<ort, decoding, manifests, names, demo_vars>>
  /\ UNCHANGED part

Spec == Init /\ [][Next]_vars

-----------------------------------------------------------------------------
(* The instances *)

Info1(name, dtype, shape) == [name |-> name, dtype |-> dtype, shape |-> shape]

\* Static, dynamic, overflowing and empty shapes, another type, names that
\* cannot be told apart, several inputs.
MCModels ==
  {<<Info1("a", "float32", <<1, 2>>)>>,
   <<Info1("a", "float32", <<-1, 2>>)>>,
   <<Info1("a", "float32", <<-1, -1>>)>>,
   <<Info1("a", "float32", <<0>>)>>,
   <<Info1("a", "int64", <<2>>)>>,
   <<Info1("", "float32", <<2>>)>>,
   <<Info1("a", "float32", <<2>>), Info1("b", "float32", <<-1>>)>>,
   <<Info1("a", "float32", <<2>>), Info1("a", "float32", <<2>>)>>}

Given(name, value) == [name |-> name, value |-> value]

\* Sequences of at most two specifications.
UpToTwo(first, second) ==
  {<<>>} \cup {<<s>> : s \in first} \cup {<<s, t>> : s \in first, t \in second}

MCCommandLines ==
  {c \in [metadata_only : {FALSE},
          inputs : UpToTwo({Given("", "p"), Given("a", "p"), Given("b", "p"),
                            Given("a", Missing)}, {Given("a", "q"), Given("b", "q")}),
          shapes : UpToTwo({Given("a", <<2, 2>>), Given("", <<8, 8>>), Given("a", <<3>>),
                            Given("b", <<2>>), Given("a", <<0, 2>>)}, {Given("b", <<3>>)}),
          fills : UpToTwo({Given("a", "1"), Given("", "2")}, {Given("b", "1")})
                  \cup {<<Given("b", BadFill)>>},
          output_dir : BOOLEAN] : c.output_dir \/ c.shapes = <<>>}
  \cup {[metadata_only |-> TRUE, inputs |-> i, shapes |-> <<>>, fills |-> <<>>,
         output_dir |-> d] : i \in {<<>>, <<Given("", "p")>>}, d \in BOOLEAN}

\* One fill value, outputs written to a directory.
MCPlainCommands ==
  {[metadata_only |-> FALSE, inputs |-> <<>>, shapes |-> <<>>, fills |-> <<Given("a", "1")>>,
    output_dir |-> TRUE]}

\* With a float of 2 bytes: files of 0, 2 and 4 elements, and no file.
MCRawFiles == {("p" :> 4) @@ ("q" :> 4), ("p" :> 0) @@ ("q" :> 4),
               ("p" :> 8) @@ ("q" :> Missing)}

Yolo(encoding, attributes) ==
  [encoding |-> encoding, box |-> <<0, 1, 2, 3>>, objectness |-> 4,
   first_class |-> 5, class_count |-> attributes - 5]
ClassesFirst ==
  [encoding |-> "corners_xyxy", box |-> <<2, 3, 4, 5>>, objectness |-> -1,
   first_class |-> 0, class_count |-> 2]
Overlapping == [ClassesFirst EXCEPT !.objectness = 1]
BeyondTheAxis == [ClassesFirst EXCEPT !.class_count = 7]

MCLayouts ==
  {[shape |-> <<1, 2, 7>>, axis |-> -1, schema |-> Yolo("center_xywh", 7)],
   [shape |-> <<7, 3>>, axis |-> 0, schema |-> Yolo("corners_xyxy", 7)],
   [shape |-> <<2, 6, 2>>, axis |-> 1, schema |-> ClassesFirst],
   [shape |-> <<0, 7>>, axis |-> 1, schema |-> Yolo("center_xywh", 7)],
   [shape |-> <<2, 6>>, axis |-> -1, schema |-> Overlapping],
   [shape |-> <<2, 6>>, axis |-> -1, schema |-> BeyondTheAxis],
   [shape |-> <<7, 2>>, axis |-> 2, schema |-> Yolo("center_xywh", 7)],
   [shape |-> <<>>, axis |-> 0, schema |-> ClassesFirst],
   [shape |-> <<4, 4, 4>>, axis |-> 0, schema |-> ClassesFirst]}

\* All scores of two classes, and boxes that tell the rows apart; one row may
\* hold NaN or a box of negative size.
MCContents(l) ==
  LET axis  == NormalizedAxis(l)
      known == axis \in 0 .. Len(l.shape) - 1
      width == IF known THEN l.shape[axis + 1] ELSE 0
      rows  == IF width = 0 THEN 0 ELSE Extent(l.shape, 1, Len(l.shape)) \div width
      Attribute(r, a, s, broken) ==
        CASE broken = r /\ a = l.schema.box[4] -> -1
          [] broken = r + rows /\ a = l.schema.first_class -> NotFinite
          [] a = l.schema.objectness -> 1 + (r % 2)
          [] a \in l.schema.first_class .. l.schema.first_class + 1 ->
               s[r][a - l.schema.first_class]
          [] OTHER -> 10 * r + a
  IN  IF rows > 4 THEN {<<>>}
      ELSE {[r \in 0 .. rows - 1 |-> [a \in 0 .. width - 1 |-> Attribute(r, a, s, broken)]] :
              s \in [0 .. rows - 1 -> [0 .. 1 -> 0 .. 1]], broken \in {-1, 0, rows}}

Options(task, extension, targets, backend, device) ==
  [task |-> task, extension |-> extension, targets |-> targets, backend |-> backend,
   device |-> device, allow_fallback |-> device # 2, preprocessing |-> Absent,
   intra_op_threads |-> device]

\* All combinations of good options, and each bad one alone.
MCRequests ==
  {Options("custom", e, g, b, d) :
     e \in {".onnx", ".plan", ".bin"}, g \in {<<"cpu">>, <<"gpu", "cpu">>, <<"cpu", "cpu">>, <<>>},
     b \in {Absent, "onnxruntime", "ort"}, d \in {Absent, 2}}
  \cup {Options("unknown", ".onnx", <<>>, Absent, Absent), Options("custom", ".plan", <<>>, Absent, -1)}

Manual(path, artifact, backend, duplicate) ==
  [schema_version |-> 1, artifact_path |-> path, task |-> "tracking",
   preprocessing |-> Absent, postprocessing |-> "own", backend |-> backend,
   artifact |-> artifact, allow_fallback |-> Absent,
   execution_target_priority |-> Absent, device_id |-> Absent,
   intra_op_num_threads |-> 0, duplicate |-> duplicate]

MCHandWritten ==
  {Manual(".onnx", "onnx", "auto", FALSE), Manual(".onnx", "tensorrt_engine", "auto", FALSE),
   Manual(".bin", "onnx", "tensorrt_engine", FALSE), Manual(".onnx", Absent, "auto", TRUE)}

\* Two manifests that differ in every field a program may override.
MCManifestContents ==
  {[model |-> "first",
    runtime |-> [backend |-> "auto", artifact |-> "auto",
                 execution_target_priority |-> <<"cuda", "cpu">>, allow_fallback |-> TRUE,
                 device_id |-> 1, intra |-> 4, inter |-> 3, profile |-> 1, log_id |-> "own"]],
   [model |-> "second",
    runtime |-> [backend |-> "tensorrt_engine", artifact |-> "tensorrt_engine",
                 execution_target_priority |-> <<>>, allow_fallback |-> FALSE,
                 device_id |-> 2, intra |-> 0, inter |-> 1, profile |-> 0, log_id |-> "other"]]}

MCFileNames == UNION {[1 .. n -> {45, 48, 49, 97}] : n \in 0 .. 2}
                 \cup {<<49, 48, 48>>, <<48, 48, 49>>, <<97, 48, 49>>, <<97, 49, 48>>}
=============================================================================
