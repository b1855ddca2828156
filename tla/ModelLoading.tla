----------------------------- MODULE ModelLoading -----------------------------
(***************************************************************************)
(* Loading a model into a CModelFacade or directly into a                  *)
(* CInferenceManager: checks, the ONNX Runtime provider chain with its     *)
(* retry on CPU, the standalone TensorRT backend, and the exchange that    *)
(* publishes the result.  A reload builds a replacement aside; an          *)
(* exception anywhere destroys it.                                         *)
(*                                                                         *)
(* One caller, one call at a time: neither class is synchronised.  Every   *)
(* step that can throw may throw.                                          *)
(***************************************************************************)
EXTENDS Naturals, Sequences

CONSTANTS Requests, \* the loads a caller may ask for
          NoModel   \* an object that has loaded nothing

Accelerators == {"cuda", "tensorrt"}
Targets      == Accelerators \cup {"cpu"}
OnnxModels   == {"sound", "cpu_kernel", "corrupt"}

(* Artifacts by what the backends make of them: "cpu_kernel" is a sound ONNX *)
(* model with a node that only the CPU provider implements; "other" has an   *)
(* extension no backend takes.                                               *)
Artifacts == OnnxModels \cup {"engine", "other"}

RequestsAssumed ==
    Requests \subseteq
        [valid : BOOLEAN, backend : {"auto", "onnxruntime", "tensorrt_engine"},
         declared : {"auto", "onnx", "tensorrt_engine"}, artifact : Artifacts,
         targets : Seq(Targets), allow_fallback : BOOLEAN]
ASSUME RequestsAssumption == RequestsAssumed /\ NoModel \notin Requests

VARIABLES
    object,    \* which object is loaded: "facade" or "manager"
    available, \* accelerators in ORT's list of available providers
    request,   \* the load in progress, or the last one (any, before the first)
    pc,        \* step of the load in progress, or "idle"
    position,  \* in ApplyOrtProviders: the next target of the chain
    options,   \* replacement_session_options: providers appended, CPU placement forbidden
    applied,   \* applied_providers
    session,   \* the replacement backend
    loaded,    \* loaded_model_, or backend_ of a bare manager
    outcome,   \* how the last load ended: "none", "ok" or "failed"
    culprit,   \* what made it fail
    good       \* history: the last request whose load returned normally

environment == <<object, available>>
replacement == <<position, options, applied, session>>
result      == <<outcome, culprit>>
vars == <<environment, request, pc, replacement, loaded, result, good>>

NoOptions == [providers |-> <<>>, cpu_forbidden |-> FALSE]
NoSession == [request |-> NoModel, providers |-> <<>>, applied |-> <<>>, nodes |-> {}]
Nothing   == [contract |-> NoModel, backend |-> NoSession]

Elements(s) == {s[i] : i \in 1..Len(s)}

ArtifactType(artifact) ==
    CASE artifact \in OnnxModels -> "onnx"
      [] artifact = "engine"     -> "tensorrt_engine"
      [] OTHER                   -> "unsupported"

ResolveExecutionTargetPriority(r) ==
    IF r.targets = <<>> THEN <<"tensorrt", "cuda", "cpu">> ELSE r.targets

Chain == ResolveExecutionTargetPriority(request)

-----------------------------------------------------------------------------
Init ==
    /\ object \in {"facade", "manager"}
    /\ available \in SUBSET Accelerators
    /\ request \in Requests
    /\ pc = "idle"
    /\ position = 1
    /\ options = NoOptions
    /\ applied = <<>>
    /\ session = NoSession
    /\ loaded = Nothing
    /\ outcome = "none"
    /\ culprit = "none"
    /\ good = NoModel

LoadModel(r) ==
    /\ pc = "idle"
    /\ request' = r
    /\ pc' = "select"
    /\ position' = 1
    /\ options' = NoOptions
    /\ applied' = <<>>
    /\ session' = NoSession
    /\ outcome' = "none"
    /\ culprit' = "none"
    /\ UNCHANGED <<environment, loaded, good>>

GoTo(step) == pc' = step /\ UNCHANGED <<environment, request, loaded, result, good>>

(* An exception leaves LoadModel and takes the replacement with it. *)
Fail(cause) ==
    /\ pc' = "idle"
    /\ outcome' = "failed"
    /\ culprit' = cause
    /\ position' = 1
    /\ options' = NoOptions
    /\ applied' = <<>>
    /\ session' = NoSession
    /\ UNCHANGED <<environment, request, loaded, good>>

(* The role, the runtime settings, and whether artifact, declared artifact   *)
(* and backend fit together.                                                 *)
Compatible(r) ==
    LET type == ArtifactType(r.artifact)
    IN  /\ type # "unsupported"
        /\ r.declared \in {"auto", type}
        /\ r.backend = "onnxruntime" => type = "onnx"
        /\ r.backend = "tensorrt_engine" => type = "tensorrt_engine"

SelectBackend ==
    /\ pc = "select"
    /\ IF request.valid /\ Compatible(request)
       THEN /\ GoTo(IF ArtifactType(request.artifact) = "onnx" THEN "providers" ELSE "engine")
            /\ UNCHANGED replacement
       ELSE Fail("caller")

-----------------------------------------------------------------------------
(* ApplyOrtProviders, one target at a time. *)
Target == Chain[position]

SkipTarget ==
    /\ pc = "providers"
    /\ position <= Len(Chain)
    /\ Target \notin available \cup {"cpu"}
    /\ IF request.allow_fallback
       THEN /\ position' = position + 1
            /\ GoTo("providers")
            /\ UNCHANGED <<options, applied, session>>
       ELSE Fail("accelerator")

AppendProvider ==
    /\ pc = "providers"
    /\ position <= Len(Chain)
    /\ Target \in available
    /\ \/ /\ options' = [options EXCEPT !.providers = Append(@, Target)]
          /\ applied' = Append(applied, Target)
          /\ position' = position + 1
          /\ GoTo("providers")
          /\ UNCHANGED session
       \/ Fail("accelerator")

(* A strict chain of accelerators also rejects the nodes ORT would place on  *)
(* the CPU by itself.                                                        *)
ForbidsCpu(providers) == ~request.allow_fallback /\ "cpu" \notin Elements(providers)

(* The chain ends at "cpu", which is never appended, or at its end. *)
MakeSessionOptions ==
    LET asks == position <= Len(Chain) /\ Target = "cpu"
        providers == IF asks \/ applied = <<>> THEN Append(applied, "cpu") ELSE applied
    IN  /\ pc = "providers"
        /\ asks \/ position > Len(Chain)
        /\ applied' = providers
        /\ options' = [options EXCEPT !.cpu_forbidden = ForbidsCpu(providers)]
        /\ GoTo("session")
        /\ UNCHANGED <<position, session>>

-----------------------------------------------------------------------------
(* Where ORT may place the nodes of the model under these options. *)
Nodes(o) ==
    IF o.providers = <<>> THEN {"cpu"}
    ELSE Elements(o.providers) \cup IF request.artifact = "cpu_kernel" THEN {"cpu"} ELSE {}

(* The Ort::Session constructor. *)
OrtAccepts(o) == request.artifact # "corrupt" /\ (o.cpu_forbidden => "cpu" \notin Nodes(o))

Session(o, names) ==
    [request |-> request, providers |-> o.providers, applied |-> names, nodes |-> Nodes(o)]

CreateSession ==
    /\ pc = "session"
    /\ OrtAccepts(options)
    /\ session' = Session(options, applied)
    /\ GoTo("metadata")
    /\ UNCHANGED <<position, options, applied>>

Cause == IF request.artifact = "corrupt" THEN "artifact" ELSE "accelerator"

(* Mutants of SessionFails: a strict load retries too; the retry still       *)
(* reports the providers that failed.                                        *)
SessionFailsRetrying ==
    /\ pc = "session"
    /\ ~OrtAccepts(options) \/ options.providers # <<>>
    /\ applied' = <<"cpu_fallback">>
    /\ options' = NoOptions
    /\ GoTo("retry")
    /\ UNCHANGED <<position, session>>
SessionFailsUnreported ==
    /\ pc = "session"
    /\ ~OrtAccepts(options) \/ options.providers # <<>>
    /\ IF request.allow_fallback
       THEN options' = NoOptions /\ GoTo("retry") /\ UNCHANGED <<position, applied, session>>
       ELSE Fail(Cause)

(* It throws on a corrupt file or a forbidden placement, and may throw       *)
(* whenever a device is involved.                                            *)
SessionFails ==
    /\ pc = "session"
    /\ ~OrtAccepts(options) \/ options.providers # <<>>
    /\ IF request.allow_fallback
       THEN /\ applied' = <<"cpu_fallback">>
            /\ options' = NoOptions
            /\ GoTo("retry")
            /\ UNCHANGED <<position, session>>
       ELSE Fail(Cause)

(* Mutant: the retry is itself retried. *)
RetryOnCpuAgain ==
    /\ pc = "retry"
    /\ IF OrtAccepts(options)
       THEN /\ session' = Session(options, applied)
            /\ GoTo("metadata")
            /\ UNCHANGED <<position, options, applied>>
       ELSE GoTo("session") /\ UNCHANGED replacement

RetryOnCpu ==
    /\ pc = "retry"
    /\ IF OrtAccepts(options)
       THEN /\ session' = Session(options, applied)
            /\ GoTo("metadata")
            /\ UNCHANGED <<position, options, applied>>
       ELSE Fail("artifact")

(* The standalone backend: SelectExecutionTarget, then reading, deserialising *)
(* and setting up the engine, any of which may fail.                          *)
EngineChain(r) == IF r.targets = <<>> THEN <<"cuda">> ELSE r.targets

Selectable ==
    {i \in 1..Len(EngineChain(request)) :
        EngineChain(request)[i] \in Accelerators /\ (request.allow_fallback \/ i = 1)}

EngineOn(target) ==
    [request |-> request, providers |-> <<target>>, applied |-> <<target>>, nodes |-> {target}]

LoadEngine ==
    /\ pc = "engine"
    /\ \E i \in Selectable :
           /\ \A j \in Selectable : i <= j
           /\ session' = EngineOn(EngineChain(request)[i])
    /\ GoTo("metadata")
    /\ UNCHANGED <<position, options, applied>>

LoadEngineFails ==
    /\ pc = "engine"
    /\ Fail(IF Selectable = {} THEN "caller" ELSE "artifact")

-----------------------------------------------------------------------------
(* Mutant: the facade exchanges its contract before it has described the new *)
(* backend.                                                                  *)
DescribeEarly ==
    /\ pc = "metadata"
    /\ loaded' = [loaded EXCEPT !.contract = IF object = "facade" THEN request ELSE @]
    /\ pc' = "publish"
    /\ UNCHANGED <<environment, request, result, good, replacement>>

(* Metadata, diagnostics and, in the facade, the contract are made from the  *)
(* replacement before it is published.                                       *)
Describe ==
    /\ pc = "metadata"
    /\ GoTo("publish") /\ UNCHANGED replacement

DescribeFails ==
    /\ pc = "metadata"
    /\ Fail("artifact")

(* backend_.swap and loaded_model_.swap: nothing after them can throw. *)
Publish ==
    /\ pc = "publish"
    /\ loaded' = [contract |-> IF object = "facade" THEN request ELSE NoModel, backend |-> session]
    /\ good' = request
    /\ outcome' = "ok"
    /\ pc' = "idle"
    /\ position' = 1
    /\ options' = NoOptions
    /\ applied' = <<>>
    /\ session' = NoSession
    /\ UNCHANGED <<environment, request, culprit>>

-----------------------------------------------------------------------------
Step ==
    \/ SelectBackend
    \/ SkipTarget \/ AppendProvider \/ MakeSessionOptions
    \/ CreateSession \/ SessionFails \/ RetryOnCpu
    \/ LoadEngine \/ LoadEngineFails
    \/ Describe \/ DescribeFails
    \/ Publish

Next == Step \/ \E r \in Requests : LoadModel(r)

(* A call that has begun runs to its end. *)
Spec == Init /\ [][Next]_vars /\ WF_vars(Step)

-----------------------------------------------------------------------------
(* What holds of a backend made for a request, and of the steps towards it:  *)
(* the inductive invariant behind the properties.                            *)
Truthful(b) ==
    \/ b.applied \in {b.providers, Append(b.providers, "cpu")}
    \/ b.applied = <<"cpu_fallback">> /\ b.providers = <<>>

OnItsTargets(b) ==
    ~b.request.allow_fallback =>
        IF b.request.artifact = "engine"
        THEN b.nodes = {Head(EngineChain(b.request))}
        ELSE b.nodes \subseteq Elements(ResolveExecutionTargetPriority(b.request))

Steps == {"select", "providers", "session", "retry", "engine", "metadata", "publish"}

Backend ==
    [request : Requests \cup {NoModel}, providers : Seq(Accelerators),
     applied : Seq(Targets \cup {"cpu_fallback"}), nodes : SUBSET Targets]

(* Type correctness of the load in progress and of what is loaded. *)
TypeOK ==
    /\ object \in {"facade", "manager"}
    /\ available \in SUBSET Accelerators
    /\ request \in Requests
    /\ pc \in Steps \cup {"idle"}
    /\ position \in 1..(Len(Chain) + 1)
    /\ options \in [providers : Seq(Accelerators), cpu_forbidden : BOOLEAN]
    /\ applied \in Seq(Targets \cup {"cpu_fallback"})
    /\ session \in Backend
    /\ loaded \in [contract : Requests \cup {NoModel}, backend : Backend]
    /\ outcome \in {"none", "ok", "failed"}
    /\ culprit \in {"none", "caller", "accelerator", "artifact"}
    /\ good \in Requests \cup {NoModel}

(* model_facade.h and inference_manager.h ("A failed load leaves the         *)
(* previous contract and usable inference state intact"): at every moment,   *)
(* also in the middle of a reload and after one that threw at any point, the *)
(* backend and the contract are those of the last load that returned.        *)
LoadedIsLastSuccess ==
    /\ loaded.backend.request = good
    /\ loaded.contract = IF object = "facade" THEN good ELSE NoModel
    /\ outcome = "ok" => good = request

(* doc/run_ort_inference.md ("Accelerator-only provider chains also reject   *)
(* implicit CPU node execution"): a strict load that succeeds runs every     *)
(* node on a target its chain names, and an engine on the first of them.     *)
StrictRunsOnItsTargets == good # NoModel => OnItsTargets(loaded.backend)

(* MakeBackendDetail: the accelerators the backend detail names are those    *)
(* the session was given, in their order, followed by "cpu" when the chain   *)
(* came to it; "cpu_fallback" stands alone, for a session without any.       *)
DetailIsTruthful == good # NoModel => Truthful(loaded.backend)

(* inference_common.h ("Request CUDA followed by CPU fallback"): when an     *)
(* ONNX model is loaded with fallback allowed and "cpu" in the chain, an     *)
(* accelerator that does not work is no reason for the load to fail.         *)
FallbackReachesCpu ==
    /\ outcome = "failed"
    /\ request.allow_fallback
    /\ "cpu" \in Elements(Chain)
    => culprit # "accelerator"

ProvidersInv ==
    /\ pc = "select" => position = 1 /\ options = NoOptions /\ applied = <<>>
    /\ pc = "providers" =>
           /\ request.artifact \in OnnxModels
           /\ options = [providers |-> applied, cpu_forbidden |-> FALSE]
           /\ ~request.allow_fallback => Len(applied) = position - 1
           /\ Elements(applied) \subseteq Elements(Chain)
    /\ pc = "session" =>
           /\ request.artifact \in OnnxModels
           /\ applied \in {options.providers, Append(options.providers, "cpu")}
           /\ ~request.allow_fallback =>
                  /\ Elements(options.providers) \subseteq Elements(Chain)
                  /\ options.cpu_forbidden \/ "cpu" \in Elements(Chain)
    /\ pc = "retry" =>
           /\ request.artifact \in OnnxModels
           /\ request.allow_fallback
           /\ options = NoOptions
           /\ applied = <<"cpu_fallback">>

SessionInv ==
    /\ pc = "engine" => request.artifact = "engine"
    /\ pc \in {"metadata", "publish"} =>
           session.request = request /\ Truthful(session) /\ OnItsTargets(session)

IInv ==
    /\ TypeOK
    /\ LoadedIsLastSuccess
    /\ StrictRunsOnItsTargets
    /\ DetailIsTruthful
    /\ ProvidersInv
    /\ SessionInv

(* The retry on CPU is made at most once: every load returns or throws. *)
LoadEnds == pc # "idle" ~> pc = "idle"

=============================================================================
