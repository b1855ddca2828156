-------------------------- MODULE ModelLoadingProofs --------------------------
(***************************************************************************)
(* Proofs about loading a model, for any set of requests with target       *)
(* chains of any length: what is loaded is always what the last successful *)
(* load made, a strict load stays on the targets its chain names, and the  *)
(* backend detail names the providers the session has.                     *)
(*                                                                         *)
(* The properties are about the loaded backend; IInv adds what holds of    *)
(* the replacement on its way (the options agree with the providers        *)
(* applied, a strict chain has skipped nothing, a retry is never strict),  *)
(* from which publishing preserves them.                                   *)
(***************************************************************************)
EXTENDS ModelLoading, SequenceTheorems, TLAPS

(* The elements of a sequence after an Append. *)
LEMMA ElementsOfAppend ==
    ASSUME NEW S, NEW s \in Seq(S), NEW e \in S
    PROVE  /\ Append(s, e) \in Seq(S)
           /\ Len(Append(s, e)) = Len(s) + 1
           /\ Elements(Append(s, e)) = Elements(s) \cup {e}
<1>1. \A i \in 1..(Len(s) + 1) : Append(s, e)[i] = IF i <= Len(s) THEN s[i] ELSE e
    BY AppendProperties
<1>2. Len(Append(s, e)) = Len(s) + 1 /\ Len(s) \in Nat
    BY AppendProperties
<1>3. ASSUME NEW x PROVE x \in Elements(Append(s, e)) <=> x \in Elements(s) \cup {e}
    BY <1>1, <1>2 DEF Elements
<1> QED
    BY <1>2, <1>3, AppendProperties

(* The chain of a request is a nonempty sequence of targets. *)
LEMMA ChainIsSequence ==
    ASSUME TypeOK
    PROVE  Chain \in Seq(Targets) /\ Chain # <<>> /\ Len(Chain) \in Nat \ {0}
<1>1. request.targets \in Seq(Targets)
    BY RequestsAssumption DEF RequestsAssumed, TypeOK
<1>2. <<"tensorrt", "cuda", "cpu">> \in Seq(Targets)
    BY DEF Targets, Accelerators
<1>3. Chain \in Seq(Targets) /\ Chain # <<>>
    BY <1>1, <1>2 DEF Chain, ResolveExecutionTargetPriority
<1> QED
    BY <1>3, EmptySeq, LenProperties

(* A failed load leaves nothing of the replacement behind and everything     *)
(* else as it was.                                                           *)
LEMMA FailKeepsIInv ==
    ASSUME IInv, NEW cause \in {"caller", "accelerator", "artifact"}, Fail(cause)
    PROVE  IInv'
<1> USE DEF IInv, Fail, environment
<1>1. 1 \in 1..(Len(Chain) + 1) /\ Chain' = Chain
    BY ChainIsSequence DEF Chain, ResolveExecutionTargetPriority
<1>2. NoOptions \in [providers : Seq(Accelerators), cpu_forbidden : BOOLEAN] /\ NoSession \in Backend
    BY DEF NoOptions, NoSession, Backend
<1>3. TypeOK'
    BY <1>1, <1>2 DEF TypeOK
<1>4. LoadedIsLastSuccess' /\ StrictRunsOnItsTargets' /\ DetailIsTruthful'
    BY DEF LoadedIsLastSuccess, StrictRunsOnItsTargets, DetailIsTruthful, OnItsTargets, Truthful,
           ResolveExecutionTargetPriority
<1>5. ProvidersInv' /\ SessionInv'
    BY DEF ProvidersInv, SessionInv
<1> QED
    BY <1>3, <1>4, <1>5

(* A step of the load that goes on leaves the published part alone. *)
LEMMA PublishedPart ==
    ASSUME IInv, NEW step \in Steps, GoTo(step)
    PROVE  /\ LoadedIsLastSuccess' /\ StrictRunsOnItsTargets' /\ DetailIsTruthful'
           /\ Chain' = Chain
BY DEF IInv, GoTo, environment, result, LoadedIsLastSuccess, StrictRunsOnItsTargets, DetailIsTruthful,
       OnItsTargets, Truthful, Chain, ResolveExecutionTargetPriority

(* Beginning a load, and the checks before a backend is chosen. *)
LEMMA BeginSteps ==
    ASSUME IInv, (\E r \in Requests : LoadModel(r)) \/ SelectBackend
    PROVE  IInv'
<1>1. CASE \E r \in Requests : LoadModel(r)
    <2>1. PICK r \in Requests : LoadModel(r)
        BY <1>1
    <2> USE <2>1 DEF IInv, LoadModel, environment
    <2>2. NoOptions \in [providers : Seq(Accelerators), cpu_forbidden : BOOLEAN] /\ NoSession \in Backend
        BY DEF NoOptions, NoSession, Backend
    <2>3. Len(Chain') \in Nat
        <3>1. r.targets \in Seq(Targets)
            BY RequestsAssumption DEF RequestsAssumed
        <3> QED
            BY <3>1 DEF Chain, ResolveExecutionTargetPriority
    <2>4. TypeOK'
        BY <2>2, <2>3 DEF TypeOK, Steps
    <2>5. LoadedIsLastSuccess' /\ StrictRunsOnItsTargets' /\ DetailIsTruthful'
        BY DEF LoadedIsLastSuccess, StrictRunsOnItsTargets, DetailIsTruthful, OnItsTargets, Truthful,
               ResolveExecutionTargetPriority
    <2>6. ProvidersInv' /\ SessionInv'
        BY DEF ProvidersInv, SessionInv
    <2> QED
        BY <2>4, <2>5, <2>6
<1>2. CASE SelectBackend
    <2>1. CASE ~(request.valid /\ Compatible(request))
        BY <1>2, <2>1, FailKeepsIInv DEF SelectBackend
    <2>2. CASE request.valid /\ Compatible(request)
        <3> DEFINE step == IF ArtifactType(request.artifact) = "onnx" THEN "providers" ELSE "engine"
        <3>1. GoTo(step) /\ UNCHANGED replacement /\ step \in Steps
            BY <1>2, <2>2 DEF SelectBackend, Steps
        <3>2. LoadedIsLastSuccess' /\ StrictRunsOnItsTargets' /\ DetailIsTruthful' /\ Chain' = Chain
            BY <3>1, PublishedPart
        <3>3. TypeOK'
            BY <3>1, <3>2 DEF IInv, GoTo, TypeOK, environment, replacement, result
        <3>4. ProvidersInv'
            <4>1. position = 1 /\ options = NoOptions /\ applied = <<>> /\ pc = "select"
                BY <1>2 DEF IInv, ProvidersInv, SelectBackend
            <4>2. step = "providers" => request.artifact \in OnnxModels
                BY DEF ArtifactType
            <4>3. Elements(<<>>) = {} /\ Len(<<>>) = 0
                BY EmptySeq DEF Elements
            <4> QED
                BY <3>1, <3>2, <4>1, <4>2, <4>3 DEF ProvidersInv, GoTo, replacement, NoOptions
        <3>5. SessionInv'
            <4>1. step = "engine" => request.artifact = "engine"
                BY <2>2 DEF Compatible, ArtifactType
            <4> QED
                BY <3>1, <4>1 DEF SessionInv, GoTo
        <3> QED
            BY <3>2, <3>3, <3>4, <3>5 DEF IInv
    <2> QED
        BY <2>1, <2>2
<1> QED
    BY <1>1, <1>2

(* ApplyOrtProviders: skipping, appending and ending the chain. *)
LEMMA ProviderSteps ==
    ASSUME IInv, SkipTarget \/ AppendProvider \/ MakeSessionOptions
    PROVE  IInv'
<1> USE DEF IInv
<1>1. /\ Chain \in Seq(Targets) /\ Len(Chain) \in Nat
      /\ position \in 1..(Len(Chain) + 1)
      /\ options \in [providers : Seq(Accelerators), cpu_forbidden : BOOLEAN]
      /\ applied \in Seq(Targets \cup {"cpu_fallback"})
    BY ChainIsSequence DEF TypeOK
<1>2. /\ pc = "providers"
      /\ request.artifact \in OnnxModels
      /\ options = [providers |-> applied, cpu_forbidden |-> FALSE]
      /\ ~request.allow_fallback => Len(applied) = position - 1
      /\ Elements(applied) \subseteq Elements(Chain)
      /\ applied \in Seq(Accelerators)
    BY <1>1 DEF ProvidersInv, SkipTarget, AppendProvider, MakeSessionOptions
<1>3. position <= Len(Chain) => Target \in Elements(Chain)
    BY <1>1 DEF Target, Elements
<1>4. CASE SkipTarget /\ request.allow_fallback
    <2>1. /\ position <= Len(Chain)
          /\ position' = position + 1
          /\ GoTo("providers")
          /\ UNCHANGED <<options, applied, session>>
        BY <1>4 DEF SkipTarget
    <2>2. LoadedIsLastSuccess' /\ StrictRunsOnItsTargets' /\ DetailIsTruthful' /\ Chain' = Chain
        BY <2>1, PublishedPart DEF Steps
    <2>3. TypeOK' /\ ProvidersInv' /\ SessionInv'
        BY <1>1, <1>2, <1>4, <2>1, <2>2 DEF TypeOK, ProvidersInv, SessionInv, GoTo, environment, result
    <2> QED
        BY <2>2, <2>3
<1>5. CASE SkipTarget /\ ~request.allow_fallback
    BY <1>5, FailKeepsIInv DEF SkipTarget
<1>6. CASE AppendProvider /\ Fail("accelerator")
    BY <1>6, FailKeepsIInv
<1>7. CASE AppendProvider /\ ~Fail("accelerator")
    <2>1. /\ position <= Len(Chain) /\ Target \in available
          /\ options' = [options EXCEPT !.providers = Append(@, Target)]
          /\ applied' = Append(applied, Target)
          /\ position' = position + 1
          /\ GoTo("providers")
          /\ UNCHANGED session
        BY <1>7 DEF AppendProvider
    <2>2. LoadedIsLastSuccess' /\ StrictRunsOnItsTargets' /\ DetailIsTruthful' /\ Chain' = Chain
        BY <2>1, PublishedPart DEF Steps
    <2>3. Target \in Accelerators
        BY <2>1 DEF TypeOK
    <2>4. /\ applied' \in Seq(Accelerators)
          /\ applied' \in Seq(Targets \cup {"cpu_fallback"})
          /\ Len(applied') = Len(applied) + 1
          /\ Elements(applied') = Elements(applied) \cup {Target}
        <3>1. Target \in Targets \cup {"cpu_fallback"}
            BY <2>3 DEF Targets
        <3> QED
            BY <1>1, <1>2, <2>1, <2>3, <3>1, ElementsOfAppend
    <2>5. options' = [providers |-> applied', cpu_forbidden |-> FALSE]
        BY <1>2, <2>1
    <2>6. TypeOK'
        <3>1. position' \in 1..(Len(Chain') + 1)
            BY <1>1, <2>1, <2>2
        <3>2. options' \in [providers : Seq(Accelerators), cpu_forbidden : BOOLEAN]
            BY <2>4, <2>5
        <3> QED
            BY <2>1, <2>4, <3>1, <3>2 DEF TypeOK, GoTo, environment, result, Steps
    <2>7. ProvidersInv' /\ SessionInv'
        <3>1. Elements(applied') \subseteq Elements(Chain')
            BY <1>2, <1>3, <2>1, <2>2, <2>4
        <3>2. ~request.allow_fallback => Len(applied') = position' - 1
            BY <1>1, <1>2, <2>1, <2>4
        <3> QED
            BY <1>2, <2>1, <2>5, <3>1, <3>2 DEF ProvidersInv, SessionInv, GoTo
    <2> QED
        BY <2>2, <2>6, <2>7
<1>8. CASE MakeSessionOptions
    <2> DEFINE asks == position <= Len(Chain) /\ Target = "cpu"
               adds == asks \/ applied = <<>>
               providers == IF adds THEN Append(applied, "cpu") ELSE applied
    <2>1. /\ asks \/ position > Len(Chain)
          /\ applied' = providers
          /\ options' = [options EXCEPT !.cpu_forbidden = ForbidsCpu(providers)]
          /\ GoTo("session")
          /\ UNCHANGED <<position, session>>
        BY <1>8 DEF MakeSessionOptions
    <2>2. LoadedIsLastSuccess' /\ StrictRunsOnItsTargets' /\ DetailIsTruthful' /\ Chain' = Chain
        BY <2>1, PublishedPart DEF Steps
    <2>3. /\ providers \in Seq(Targets \cup {"cpu_fallback"})
          /\ adds => "cpu" \in Elements(providers)
        <3>1. "cpu" \in Targets \cup {"cpu_fallback"}
            BY DEF Targets
        <3> QED
            BY <1>1, <3>1, ElementsOfAppend
    <2>4. ForbidsCpu(providers) \in BOOLEAN
        BY RequestsAssumption DEF ForbidsCpu
    <2>5. options' = [providers |-> applied, cpu_forbidden |-> ForbidsCpu(providers)]
        BY <1>2, <2>1
    <2>6. TypeOK'
        BY <1>1, <1>2, <2>1, <2>2, <2>3, <2>4, <2>5 DEF TypeOK, GoTo, environment, result, Steps
    <2>7. ASSUME ~request.allow_fallback
          PROVE  ForbidsCpu(providers) \/ "cpu" \in Elements(Chain)
        <3>1. CASE asks
            BY <1>3, <3>1
        <3>2. CASE ~asks
            <4>1. Len(applied) = Len(Chain) /\ Len(Chain) # 0
                BY <1>1, <1>2, <2>1, <2>7, <3>2, ChainIsSequence
            <4>2. applied # <<>>
                BY <4>1, EmptySeq
            <4>3. providers = applied /\ "cpu" \notin Elements(applied)
                BY <1>2, <3>2, <4>2 DEF Elements, Accelerators
            <4> QED
                BY <2>7, <4>3 DEF ForbidsCpu
        <3> QED
            BY <3>1, <3>2
    <2>8. ProvidersInv' /\ SessionInv'
        <3>1. providers \in {applied, Append(applied, "cpu")}
            OBVIOUS
        <3> QED
            BY <1>2, <2>1, <2>2, <2>5, <2>7, <3>1 DEF ProvidersInv, SessionInv, GoTo
    <2> QED
        BY <2>2, <2>6, <2>8
<1> QED
    BY <1>4, <1>5, <1>6, <1>7, <1>8

(* A session for the request in progress satisfies what publishing needs. *)
LEMMA SessionIsHonest ==
    ASSUME IInv, pc \in {"session", "retry"}, OrtAccepts(options)
    PROVE  /\ Session(options, applied) \in Backend
           /\ Session(options, applied).request = request
           /\ Truthful(Session(options, applied))
           /\ OnItsTargets(Session(options, applied))
<1> USE DEF IInv
<1> DEFINE b == Session(options, applied)
<1>1. /\ options.providers \in Seq(Accelerators)
      /\ applied \in Seq(Targets \cup {"cpu_fallback"})
      /\ request \in Requests
    BY DEF TypeOK
<1>2. Elements(options.providers) \subseteq Accelerators
    BY <1>1 DEF Elements
<1>3. Nodes(options) \subseteq Targets
    BY <1>2 DEF Nodes, Targets
<1>4. b \in Backend
    BY <1>1, <1>3 DEF Session, Backend
<1>5. Truthful(b)
    BY DEF ProvidersInv, Truthful, Session, NoOptions
<1>6. ASSUME ~request.allow_fallback PROVE b.nodes \subseteq Elements(Chain)
    <2>1. /\ pc = "session"
          /\ Elements(options.providers) \subseteq Elements(Chain)
          /\ options.cpu_forbidden \/ "cpu" \in Elements(Chain)
        BY <1>6 DEF ProvidersInv
    <2>2. options.cpu_forbidden => "cpu" \notin Nodes(options)
        BY DEF OrtAccepts
    <2>3. Nodes(options) \subseteq Elements(options.providers) \cup {"cpu"}
        BY DEF Nodes
    <2> QED
        BY <2>1, <2>2, <2>3 DEF Session
<1>7. request.artifact # "engine"
    BY DEF ProvidersInv, OnnxModels
<1>8. OnItsTargets(b)
    BY <1>6, <1>7 DEF OnItsTargets, Session, Chain
<1> QED
    BY <1>4, <1>5, <1>8 DEF Session

(* Making the session, with the retry on CPU, or the engine. *)
LEMMA BackendSteps ==
    ASSUME IInv, CreateSession \/ SessionFails \/ RetryOnCpu \/ LoadEngine \/ LoadEngineFails
    PROVE  IInv'
<1> USE DEF IInv
<1>1. CASE (CreateSession \/ RetryOnCpu) /\ OrtAccepts(options)
    <2>1. /\ pc \in {"session", "retry"}
          /\ session' = Session(options, applied)
          /\ GoTo("metadata")
          /\ UNCHANGED <<position, options, applied>>
        BY <1>1 DEF CreateSession, RetryOnCpu
    <2>2. LoadedIsLastSuccess' /\ StrictRunsOnItsTargets' /\ DetailIsTruthful' /\ Chain' = Chain
        BY <2>1, PublishedPart DEF Steps
    <2>3. /\ session' \in Backend /\ session'.request = request
          /\ Truthful(session') /\ OnItsTargets(session')
        BY <1>1, <2>1, SessionIsHonest
    <2>4. TypeOK'
        BY <2>1, <2>2, <2>3 DEF TypeOK, GoTo, environment, result, Steps
    <2>5. ProvidersInv' /\ SessionInv'
        BY <2>1, <2>3 DEF ProvidersInv, SessionInv, GoTo, Truthful, OnItsTargets,
                          ResolveExecutionTargetPriority
    <2> QED
        BY <2>2, <2>4, <2>5
<1>2. CASE SessionFails /\ request.allow_fallback
    <2>1. /\ applied' = <<"cpu_fallback">>
          /\ options' = NoOptions
          /\ GoTo("retry")
          /\ UNCHANGED <<position, session>>
        BY <1>2 DEF SessionFails
    <2>2. LoadedIsLastSuccess' /\ StrictRunsOnItsTargets' /\ DetailIsTruthful' /\ Chain' = Chain
        BY <2>1, PublishedPart DEF Steps
    <2>3. /\ applied' \in Seq(Targets \cup {"cpu_fallback"})
          /\ options' \in [providers : Seq(Accelerators), cpu_forbidden : BOOLEAN]
        BY <2>1 DEF NoOptions
    <2>4. TypeOK'
        BY <2>1, <2>2, <2>3 DEF TypeOK, GoTo, environment, result, Steps
    <2>5. ProvidersInv' /\ SessionInv'
        BY <1>2, <2>1 DEF ProvidersInv, SessionInv, GoTo, SessionFails
    <2> QED
        BY <2>2, <2>4, <2>5
<1>3. CASE SessionFails /\ ~request.allow_fallback
    BY <1>3, FailKeepsIInv DEF SessionFails, Cause
<1>4. CASE RetryOnCpu /\ ~OrtAccepts(options)
    BY <1>4, FailKeepsIInv DEF RetryOnCpu
<1>5. CASE LoadEngine
    <2>0. PICK i \in Selectable : session' = EngineOn(EngineChain(request)[i])
        BY <1>5 DEF LoadEngine
    <2> DEFINE target == EngineChain(request)[i]
    <2>1. /\ pc = "engine"
          /\ session' = EngineOn(target)
          /\ GoTo("metadata")
          /\ UNCHANGED <<position, options, applied>>
        BY <1>5, <2>0 DEF LoadEngine
    <2>2. LoadedIsLastSuccess' /\ StrictRunsOnItsTargets' /\ DetailIsTruthful' /\ Chain' = Chain
        BY <2>1, PublishedPart DEF Steps
    <2>3. target \in Accelerators
        BY DEF Selectable
    <2>4. session' \in Backend
        BY <2>1, <2>3 DEF TypeOK, Backend, Targets, EngineOn
    <2>5. session'.request = request /\ Truthful(session') /\ OnItsTargets(session')
        <3>1. /\ session'.request = request /\ session'.nodes = {target}
              /\ Truthful(session')
            BY <2>1, <2>3 DEF Truthful, EngineOn
        <3>2. request.artifact = "engine"
            BY <2>1 DEF SessionInv
        <3>3. ~request.allow_fallback => i = 1
            BY DEF Selectable
        <3>4. ~request.allow_fallback => target = Head(EngineChain(request))
            BY <3>3 DEF Selectable
        <3> QED
            BY <3>1, <3>2, <3>4 DEF OnItsTargets
    <2>6. TypeOK'
        BY <2>1, <2>2, <2>4 DEF TypeOK, GoTo, environment, result, Steps
    <2>7. ProvidersInv' /\ SessionInv'
        BY <2>1, <2>5 DEF ProvidersInv, SessionInv, GoTo, Truthful, OnItsTargets,
                          ResolveExecutionTargetPriority
    <2> QED
        BY <2>2, <2>6, <2>7
<1>6. CASE LoadEngineFails
    BY <1>6, FailKeepsIInv DEF LoadEngineFails
<1>7. CreateSession => OrtAccepts(options)
    BY DEF CreateSession
<1> QED
    BY <1>1, <1>2, <1>3, <1>4, <1>5, <1>6, <1>7

(* Describing the replacement and publishing it. *)
LEMMA PublishSteps ==
    ASSUME IInv, Describe \/ DescribeFails \/ Publish
    PROVE  IInv'
<1> USE DEF IInv
<1>1. CASE Describe
    <2>1. pc = "metadata" /\ GoTo("publish") /\ UNCHANGED replacement
        BY <1>1 DEF Describe
    <2>2. LoadedIsLastSuccess' /\ StrictRunsOnItsTargets' /\ DetailIsTruthful' /\ Chain' = Chain
        BY <2>1, PublishedPart DEF Steps
    <2>3. TypeOK'
        BY <2>1, <2>2 DEF TypeOK, GoTo, environment, replacement, result, Steps
    <2>4. ProvidersInv' /\ SessionInv'
        BY <2>1 DEF ProvidersInv, SessionInv, GoTo, replacement, Truthful, OnItsTargets,
                    ResolveExecutionTargetPriority
    <2> QED
        BY <2>2, <2>3, <2>4
<1>2. CASE DescribeFails
    BY <1>2, FailKeepsIInv DEF DescribeFails
<1>3. CASE Publish
    <2> USE <1>3 DEF Publish, environment
    <2>1. session.request = request /\ Truthful(session) /\ OnItsTargets(session)
        BY DEF SessionInv
    <2>2. 1 \in 1..(Len(Chain) + 1) /\ Chain' = Chain
        BY ChainIsSequence DEF Chain, ResolveExecutionTargetPriority
    <2>3. NoOptions \in [providers : Seq(Accelerators), cpu_forbidden : BOOLEAN] /\ NoSession \in Backend
        BY DEF NoOptions, NoSession, Backend
    <2>4. TypeOK'
        BY <2>2, <2>3 DEF TypeOK
    <2>5. LoadedIsLastSuccess'
        BY <2>1 DEF LoadedIsLastSuccess
    <2>6. StrictRunsOnItsTargets' /\ DetailIsTruthful'
        BY <2>1 DEF StrictRunsOnItsTargets, DetailIsTruthful, OnItsTargets, Truthful,
                    ResolveExecutionTargetPriority
    <2>7. ProvidersInv' /\ SessionInv'
        BY DEF ProvidersInv, SessionInv
    <2> QED
        BY <2>4, <2>5, <2>6, <2>7
<1> QED
    BY <1>1, <1>2, <1>3

(* The invariant holds in every state of a load. *)
THEOREM Invariance == Spec => []IInv
<1>1. Init => IInv
    <2> SUFFICES ASSUME Init PROVE IInv
        OBVIOUS
    <2> USE DEF Init
    <2>1. NoOptions \in [providers : Seq(Accelerators), cpu_forbidden : BOOLEAN] /\ NoSession \in Backend
        BY DEF NoOptions, NoSession, Backend
    <2>2. Len(Chain) \in Nat
        <3>1. request.targets \in Seq(Targets)
            BY RequestsAssumption DEF RequestsAssumed
        <3> QED
            BY <3>1 DEF Chain, ResolveExecutionTargetPriority
    <2>3. TypeOK
        BY <2>1, <2>2 DEF TypeOK, Nothing
    <2>4. LoadedIsLastSuccess /\ StrictRunsOnItsTargets /\ DetailIsTruthful
        BY DEF LoadedIsLastSuccess, StrictRunsOnItsTargets, DetailIsTruthful, Nothing, NoSession
    <2>5. ProvidersInv /\ SessionInv
        BY DEF ProvidersInv, SessionInv
    <2> QED
        BY <2>3, <2>4, <2>5 DEF IInv
<1>2. IInv /\ [Next]_vars => IInv'
    <2> SUFFICES ASSUME IInv, [Next]_vars PROVE IInv'
        OBVIOUS
    <2>1. CASE UNCHANGED vars
        BY <2>1 DEF vars, environment, replacement, result, IInv, TypeOK, Chain,
                    ResolveExecutionTargetPriority, LoadedIsLastSuccess, StrictRunsOnItsTargets,
                    DetailIsTruthful, OnItsTargets, Truthful, ProvidersInv, SessionInv
    <2> QED
        BY <2>1, BeginSteps, ProviderSteps, BackendSteps, PublishSteps DEF Next, Step
<1> QED
    BY <1>1, <1>2, PTL DEF Spec

(* The load in progress and the loaded model keep their types. *)
THEOREM TypeCorrect == Spec => []TypeOK
<1>1. IInv => TypeOK
    BY DEF IInv
<1> QED
    BY <1>1, Invariance, PTL

(* Whatever throws, and wherever in a reload, the contract and the backend   *)
(* are those of the last load that returned.                                 *)
THEOREM FailedLoadsChangeNothing == Spec => []LoadedIsLastSuccess
<1>1. IInv => LoadedIsLastSuccess
    BY DEF IInv
<1> QED
    BY <1>1, Invariance, PTL

(* A strict load that succeeds has no node on a target its chain does not    *)
(* name, for every chain and every set of installed providers.               *)
THEOREM StrictLoadsAreStrict == Spec => []StrictRunsOnItsTargets
<1>1. IInv => StrictRunsOnItsTargets
    BY DEF IInv
<1> QED
    BY <1>1, Invariance, PTL

(* The backend detail names the accelerators the session was given. *)
THEOREM ReportedProvidersAreReal == Spec => []DetailIsTruthful
<1>1. IInv => DetailIsTruthful
    BY DEF IInv
<1> QED
    BY <1>1, Invariance, PTL

=============================================================================
