---------------------------- MODULE MakeManifest -----------------------------
(***************************************************************************)
(* Model manifests: which ones ParseModelConfigJson (model_facade.cpp) accepts *)
(* and what it reads from them, and make_ptafmodel init                      *)
(* (src/programs/make_ptafmodel.cpp), which writes a new one while others may  *)
(* write or read the same path. A manifest is a record of its properties,      *)
(* Absent where it has none; text cut short is not JSON.                     *)
(***************************************************************************)
EXTENDS Integers, Sequences, FiniteSets, SequencesExt

CONSTANTS Makers,         \* processes of make_ptafmodel init
          Readers,        \* processes that read the manifest
          Requests,       \* options of a maker
          HandWritten,    \* manifests a user may have put there
          IntMax,         \* largest int
          Absent

VARIABLES
  manifest,     \* the file: who wrote it, what, how much of it; or Absent
  maker_at,     \* "validate", "create", "write", "ended"
  request,      \* options of each maker
  maker_exit,   \* exit status of each maker
  config        \* what each reader has got: Absent, "refused" or a configuration

manifests == <<manifest, maker_at, request, maker_exit, config>>

Targets == {"cpu", "cuda", "tensorrt"}
Tasks == {"raw_tensor", "centroiding", "object_detection", "feature_matching",
          "tracking", "optical_flow", "custom"}
Artifacts == {"auto", "onnx", "tensorrt_engine"}
Backends == {"auto", "onnxruntime", "tensorrt_engine"}

-----------------------------------------------------------------------------
(* ParseModelConfigJson *)

Optional(value, type) == value = Absent \/ value \in type

DetectedArtifact(extension) ==
  CASE extension = ".onnx"                -> "onnx"
    [] extension \in {".engine", ".plan"} -> "tensorrt_engine"
    [] OTHER                              -> "auto"

SelectedArtifact(m) ==
  IF DetectedArtifact(m.artifact_path) # "auto" THEN DetectedArtifact(m.artifact_path)
  ELSE IF m.artifact = Absent THEN "auto" ELSE m.artifact

SchemaAccepts(m) ==
  /\ m.schema_version = 1
  /\ m.artifact_path # Absent
  /\ m.task \in Tasks
  /\ m.preprocessing # "" /\ m.postprocessing # ""
  /\ Optional(m.backend, Backends)
  /\ Optional(m.artifact, Artifacts)
  /\ Optional(m.allow_fallback, BOOLEAN)
  /\ Optional(m.device_id, 0 .. IntMax)
  /\ Optional(m.intra_op_num_threads, 0 .. IntMax)
  /\ m.execution_target_priority # Absent =>
       /\ m.execution_target_priority # <<>>
       /\ ToSet(m.execution_target_priority) \subseteq Targets
       /\ IsInjective(m.execution_target_priority)

ArtifactsAgree(m) ==
  LET detected == DetectedArtifact(m.artifact_path)
      stated   == IF m.artifact = Absent THEN "auto" ELSE m.artifact
  IN  detected # "auto" /\ stated # "auto" => stated = detected

BackendFits(m) ==
  LET selected == SelectedArtifact(m)
      backend  == IF m.backend = Absent THEN "auto" ELSE m.backend
  IN  selected # "auto" =>
        /\ backend = "onnxruntime" => selected = "onnx"
        /\ backend = "tensorrt_engine" => selected = "tensorrt_engine"

Accepted(m) == ~m.duplicate /\ SchemaAccepts(m) /\ ArtifactsAgree(m) /\ BackendFits(m)

Default(value, default) == IF value = Absent THEN default ELSE value

ParsedConfig(m) ==
  [role |-> m.task, artifact_path |-> m.artifact_path,
   preprocessing |-> Default(m.preprocessing, "caller_supplied_tensors"),
   postprocessing |-> Default(m.postprocessing, "raw_model_outputs"),
   backend |-> Default(m.backend, "auto"), artifact |-> Default(m.artifact, "auto"),
   allow_fallback |-> Default(m.allow_fallback, TRUE),
   execution_target_priority |-> Default(m.execution_target_priority, <<>>),
   device_id |-> Default(m.device_id, 0),
   intra_op_num_threads |-> Default(m.intra_op_num_threads, 1)]

-----------------------------------------------------------------------------
(* make_ptafmodel init *)

\* The document built from the options. Targets are parsed and printed again,
\* so that aliases are gone. --postprocessing and --inter-op-threads, treated as
\* their neighbours are, are left out.
Canonical(target) == IF target = "gpu" THEN "cuda" ELSE target

Document(o) ==
  [schema_version |-> 1, artifact_path |-> o.extension, task |-> o.task,
   preprocessing |-> o.preprocessing, postprocessing |-> Absent,
   backend |-> o.backend, artifact |-> Absent, allow_fallback |-> o.allow_fallback,
   execution_target_priority |-> [k \in DOMAIN o.targets |-> Canonical(o.targets[k])],
   device_id |-> o.device, intra_op_num_threads |-> o.intra_op_threads, duplicate |-> FALSE]

\* What the file may hold: the user's text or a maker's.
ManifestFiles ==
  [owner : Makers \cup {"user"}, text : HandWritten \cup {Document(o) : o \in Requests},
   whole : BOOLEAN]

ASSUME ManifestAssumption ==
  /\ IntMax \in Nat
  /\ "user" \notin Makers
  /\ \A o \in Requests : o.targets \in Seq(STRING) /\ o.allow_fallback \in BOOLEAN
  /\ Absent \notin Makers /\ Absent \notin {"user", "0"} /\ Absent \notin BOOLEAN
  /\ Absent \notin Seq(Targets) /\ Absent \notin ManifestFiles

OptionsAreUsable(o) ==
  /\ o.task # Absent
  /\ o.extension \in {".onnx", ".engine", ".plan"}
  /\ ToSet(o.targets) \subseteq Targets \cup {"gpu"}

ManifestInit ==
  /\ \E text \in HandWritten \cup {Absent} :
       manifest = IF text = Absent THEN Absent
                  ELSE [owner |-> "user", text |-> text, whole |-> TRUE]
  /\ maker_at = [p \in Makers |-> "validate"]
  /\ request \in [Makers -> Requests]
  /\ maker_exit = [p \in Makers |-> Absent]
  /\ config = [r \in Readers |-> Absent]

MakerEnds(p, status) ==
  /\ maker_at' = [maker_at EXCEPT ![p] = "ended"]
  /\ maker_exit' = [maker_exit EXCEPT ![p] = status]

ValidateDocument(p) ==
  /\ maker_at[p] = "validate"
  /\ IF OptionsAreUsable(request[p]) /\ Accepted(Document(request[p]))
     THEN maker_at' = [maker_at EXCEPT ![p] = "create"] /\ UNCHANGED maker_exit
     ELSE MakerEnds(p, "1")
  /\ UNCHANGED <<manifest, request, config>>

\* A bug the properties must notice: fopen without "x".
CreateManifestAnyway(p) ==
  /\ maker_at[p] = "create"
  /\ \/ /\ manifest' = [owner |-> p, text |-> Document(request[p]), whole |-> FALSE]
        /\ maker_at' = [maker_at EXCEPT ![p] = "write"]
        /\ UNCHANGED maker_exit
     \/ MakerEnds(p, "1") /\ UNCHANGED manifest
  /\ UNCHANGED <<request, config>>

\* fopen(path, "wx"): of several makers one gets the file.
CreateManifest(p) ==
  /\ maker_at[p] = "create"
  /\ \/ /\ manifest = Absent
        /\ manifest' = [owner |-> p, text |-> Document(request[p]), whole |-> FALSE]
        /\ maker_at' = [maker_at EXCEPT ![p] = "write"]
        /\ UNCHANGED maker_exit
     \/ MakerEnds(p, "1") /\ UNCHANGED manifest
  /\ UNCHANGED <<request, config>>

\* fwrite and fclose.
WriteManifest(p) ==
  /\ maker_at[p] = "write"
  /\ manifest' = [manifest EXCEPT !.whole = TRUE]
  /\ MakerEnds(p, "0")
  /\ UNCHANGED <<request, config>>

\* The file is removed again, if that is possible.
WriteManifestFails(p) ==
  /\ maker_at[p] = "write"
  /\ \/ manifest' = Absent
     \/ UNCHANGED manifest
  /\ MakerEnds(p, "1")
  /\ UNCHANGED <<request, config>>

\* Killed while the file is written: what is there stays, whole or not.
MakerKilled(p) ==
  /\ maker_at[p] = "write"
  /\ \E whole \in BOOLEAN : manifest' = [manifest EXCEPT !.whole = whole]
  /\ MakerEnds(p, "killed")
  /\ UNCHANGED <<request, config>>

\* How much of the text a reader may find: a maker at work may have left all
\* of it already.
Readable ==
  IF manifest = Absent THEN {FALSE}
  ELSE IF manifest.whole THEN {TRUE}
  ELSE IF maker_at[manifest.owner] = "write" THEN BOOLEAN ELSE {FALSE}

\* ReadModelConfigFile of any program.
ReadModelConfig(r) ==
  /\ config[r] = Absent
  /\ \E whole \in Readable :
       config' = [config EXCEPT ![r] =
         IF whole /\ Accepted(manifest.text)
         THEN [owner |-> manifest.owner, read |-> ParsedConfig(manifest.text)]
         ELSE [owner |-> Absent, read |-> Absent]]
  /\ UNCHANGED <<manifest, maker_at, request, maker_exit>>

ManifestNext ==
  \/ \E p \in Makers :
       \/ ValidateDocument(p) \/ CreateManifest(p) \/ WriteManifest(p)
       \/ WriteManifestFails(p) \/ MakerKilled(p)
  \/ \E r \in Readers : ReadModelConfig(r)

-----------------------------------------------------------------------------

\* The configuration the options ask for, with the defaults the command line
\* documents.
Asked(o, read) ==
  /\ read.role = o.task /\ read.artifact_path = o.extension
  /\ read.backend = Default(o.backend, "auto")
  /\ read.allow_fallback = o.allow_fallback
  /\ read.preprocessing = Default(o.preprocessing, "caller_supplied_tensors")
  /\ Len(read.execution_target_priority) = Len(o.targets)
  /\ \A k \in DOMAIN o.targets :
       \/ read.execution_target_priority[k] = o.targets[k]
       \/ o.targets[k] = "gpu" /\ read.execution_target_priority[k] = "cuda"
  /\ read.device_id = Default(o.device, 0)
  /\ read.intra_op_num_threads = Default(o.intra_op_threads, 1)
  /\ read.device_id >= 0 /\ read.intra_op_num_threads >= 0
  /\ read.backend # "auto" =>
       (read.backend = "onnxruntime" <=> read.artifact_path = ".onnx")

\* A reader that accepts the manifest of a maker gets all of what this maker was
\* asked for, however many makers write to the path; a maker that ended with 0
\* has left a whole manifest of its own, and a manifest the user had stays.
ManifestsSayWhatWasAsked ==
  /\ \A r \in Readers :
       config[r] # Absent /\ config[r].owner \in Makers =>
         Asked(request[config[r].owner], config[r].read)
  /\ \A p \in Makers :
       maker_exit[p] = "0" => manifest # Absent /\ manifest.owner = p /\ manifest.whole
  /\ (\E r \in Readers : config[r] # Absent /\ config[r].owner = "user") =>
       manifest # Absent /\ manifest.owner = "user"
=============================================================================
