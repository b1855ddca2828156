---------------------------- MODULE TensorRtEngine ----------------------------
(***************************************************************************)
(* The standalone TensorRT backend CInferenceManager_TensorRT_Engine: the  *)
(* loaded state on its CUDA device, a reload that builds a replacement     *)
(* aside, and inference through device buffers that grow on demand, both   *)
(* under inference_mutex_, called by several threads.                      *)
(*                                                                         *)
(* CUDA's current device belongs to a thread.  Memory is what cudaMalloc   *)
(* and deserializeCudaEngine have created and nothing has released.  Any   *)
(* step before the exchange of a load, and any step of an inference, may   *)
(* throw; putting a device back that was current before does not fail.     *)
(***************************************************************************)
EXTENDS Naturals

CONSTANTS Threads,
          Devices,   \* CUDA devices
          Engines,   \* engine files
          NumSlots,  \* tensors of an engine: its inputs, then its outputs
          HostSlots, \* those it reads or writes in host memory
          MaxBytes,  \* bound of the model: size of a tensor
          None       \* no load, no state, no thread, no device

ASSUME ConstantsAssumption ==
    /\ NumSlots \in Nat
    /\ HostSlots \subseteq 1..NumSlots
    /\ MaxBytes \in Nat
    /\ None \notin Threads \cup Devices

Slots == 1..NumSlots
Loads == [engine : Engines, device : Devices]

(* STensorRtState: what it was loaded with and its device buffers. *)
StateType ==
    [load : Loads, buffers : [Slots -> [data : BOOLEAN, capacity : 0..MaxBytes]]]

(* Names for the STensorRtState objects: two at most exist at a time. *)
Ids == {1, 2}

ASSUME NoneAssumption == None \notin Loads \cup StateType \cup Ids

VARIABLES
    exists,      \* whether the backend object has been constructed
    mutex,       \* the thread that holds inference_mutex_, or None
    device,      \* per thread: its current CUDA device
    pc,          \* per thread: where its call is
    args,        \* per thread: the arguments of its LoadModel, or None
    scope,       \* CCudaDeviceScope::previous_device_ of the call inside, or None
    outer,       \* previous_device of the destructor at work, or None
    states,      \* per name: the STensorRtState object, or None
    state,       \* state_: a name, or None
    replacement, \* replacement_state: a name, or None
    options,     \* options_ and model_path_: those of a load
    metadata,    \* metadata_: that of a load
    memory,      \* allocations alive on the devices
    committed,   \* whether the load inside has made the exchange
    slot,        \* tensor the inference is at
    needed,      \* per tensor: bytes the inference needs on the device
    caller,      \* history: the device each thread's caller selected
    good         \* history: the last load that returned normally

fields  == <<state, options, metadata>>
scopes  == <<scope, outer>>
running == <<committed, slot, needed>>
history == <<caller, good>>
vars == <<exists, mutex, device, pc, args, scopes, states, replacement, fields, memory, running,
          history>>

NoBuffer == [data |-> FALSE, capacity |-> 0]
NewState(load) == [load |-> load, buffers |-> [s \in Slots |-> NoBuffer]]

(* An allocation: its owner, the device it was made on, and its size; tensor *)
(* 0 stands for the engine with its context and runtime.                     *)
Allocation(id, s, d, bytes) == [owner |-> id, slot |-> s, device |-> d, bytes |-> bytes]

At(t, step) == pc[t] = step
GoTo(t, step) == pc' = [pc EXCEPT ![t] = step]

-----------------------------------------------------------------------------
Init ==
    /\ exists = TRUE
    /\ mutex = None
    /\ caller \in [Threads -> Devices]
    /\ device = caller
    /\ pc = [t \in Threads |-> "idle"]
    /\ args = [t \in Threads |-> None]
    /\ scope = None
    /\ outer = None
    /\ states = [id \in Ids |-> None]
    /\ state = None
    /\ replacement = None
    /\ options = None
    /\ metadata = None
    /\ memory = {}
    /\ committed = FALSE
    /\ slot = 1
    /\ needed = [s \in Slots |-> 0]
    /\ good = None

(* Between two calls a thread may select another device. *)
SelectDevice(t, d) ==
    /\ At(t, "idle")
    /\ device' = [device EXCEPT ![t] = d]
    /\ caller' = [caller EXCEPT ![t] = d]
    /\ UNCHANGED <<exists, mutex, pc, args, scopes, states, replacement, fields, memory, running, good>>

-----------------------------------------------------------------------------
LoadModel(t, load) ==
    /\ exists
    /\ At(t, "idle")
    /\ args' = [args EXCEPT ![t] = load]
    /\ GoTo(t, "load_lock")
    /\ UNCHANGED <<exists, mutex, device, scopes, states, replacement, fields, memory, running, history>>

Infer(t) ==
    /\ exists
    /\ At(t, "idle")
    /\ GoTo(t, "infer_lock")
    /\ UNCHANGED <<exists, mutex, device, args, scopes, states, replacement, fields, memory, running,
                   history>>

Lock(t) ==
    /\ pc[t] \in {"load_lock", "infer_lock"}
    /\ mutex = None
    /\ mutex' = t
    /\ GoTo(t, IF At(t, "load_lock") THEN "load" ELSE "infer")
    /\ UNCHANGED <<exists, device, args, scopes, states, replacement, fields, memory, running, history>>

(* The call leaves, by an exception or with its outputs. *)
Leave(t) ==
    /\ GoTo(t, "return")
    /\ UNCHANGED <<exists, mutex, device, args, scopes, states, replacement, fields, memory, running,
                   history>>

(* CCudaDeviceScope. *)
EnterScope(t, d) ==
    /\ scope' = device[t]
    /\ device' = [device EXCEPT ![t] = d]
    /\ UNCHANGED outer

(* What was on the stack of the call. *)
ForgetCall(t) ==
    /\ args' = [args EXCEPT ![t] = None]
    /\ committed' = FALSE
    /\ slot' = 1
    /\ needed' = [s \in Slots |-> 0]

(* Mutant of Return: the mutex stays locked when no device was selected. *)
ReturnLocked(t) ==
    /\ At(t, "return")
    /\ device' = [device EXCEPT ![t] = IF scope = None THEN @ ELSE scope]
    /\ scope' = None
    /\ mutex' = IF scope = None THEN mutex ELSE None
    /\ good' = IF committed THEN args[t] ELSE good
    /\ ForgetCall(t)
    /\ GoTo(t, "idle")
    /\ UNCHANGED <<exists, outer, states, replacement, fields, memory, caller>>

(* The device scope puts the caller's device back, then the mutex is released. *)
Return(t) ==
    /\ At(t, "return")
    /\ device' = [device EXCEPT ![t] = IF scope = None THEN @ ELSE scope]
    /\ scope' = None
    /\ mutex' = None
    /\ good' = IF committed THEN args[t] ELSE good
    /\ ForgetCall(t)
    /\ GoTo(t, "idle")
    /\ UNCHANGED <<exists, outer, states, replacement, fields, memory, caller>>

-----------------------------------------------------------------------------
(* A negative device, or no accelerator first in a strict target list; or    *)
(* the device cannot be selected.                                            *)
LoadRefused(t) ==
    /\ At(t, "load")
    /\ Leave(t)

BeginLoad(t) ==
    /\ At(t, "load")
    /\ EnterScope(t, args[t].device)
    /\ GoTo(t, "build")
    /\ UNCHANGED <<exists, mutex, args, states, replacement, fields, memory, running, history>>

(* Read the file, make the state and deserialise the engine into it. *)
Build(t) ==
    /\ At(t, "build")
    /\ \E id \in Ids :
           /\ states[id] = None
           /\ replacement' = id
           /\ states' = [states EXCEPT ![id] = NewState(args[t])]
           /\ memory' = memory \cup {Allocation(id, 0, device[t], 0)}
    /\ GoTo(t, "describe")
    /\ UNCHANGED <<exists, mutex, device, args, scopes, fields, running, history>>

BuildFails(t) ==
    /\ At(t, "build")
    /\ Leave(t)

(* The context and its profile, the descriptors and the backend detail. *)
DescribeFails(t) ==
    /\ At(t, "describe")
    /\ GoTo(t, "destroy")
    /\ UNCHANGED <<exists, mutex, device, args, scopes, states, replacement, fields, memory, running,
                   history>>

(* Mutant: the options are not exchanged with the state. *)
CommitWithoutOptions(t) ==
    /\ At(t, "describe")
    /\ state' = replacement
    /\ replacement' = state
    /\ metadata' = args[t]
    /\ committed' = TRUE
    /\ GoTo(t, IF state = None THEN "return" ELSE "destroy")
    /\ UNCHANGED <<exists, mutex, device, args, scopes, states, options, memory, slot, needed, history>>

(* The four swaps, which cannot throw; the displaced state, if there is one, *)
(* is destroyed next.                                                        *)
Commit(t) ==
    /\ At(t, "describe")
    /\ state' = replacement
    /\ replacement' = state
    /\ options' = args[t]
    /\ metadata' = args[t]
    /\ committed' = TRUE
    /\ GoTo(t, IF state = None THEN "return" ELSE "destroy")
    /\ UNCHANGED <<exists, mutex, device, args, scopes, states, memory, slot, needed, history>>

-----------------------------------------------------------------------------
(* ~STensorRtState switches to the device of the state (mutant: stays where  *)
(* the thread happens to be), ...                                            *)
SwitchDeviceNot(t) ==
    /\ At(t, "destroy")
    /\ outer' = device[t]
    /\ GoTo(t, "release")
    /\ UNCHANGED <<exists, mutex, device, args, scope, states, replacement, fields, memory, running,
                   history>>

SwitchDevice(t) ==
    /\ At(t, "destroy")
    /\ outer' = device[t]
    /\ device' = [device EXCEPT ![t] = states[replacement].load.device]
    /\ GoTo(t, "release")
    /\ UNCHANGED <<exists, mutex, args, scope, states, replacement, fields, memory, running, history>>

(* ... releases what the state knows of, ... *)
Owned(id) ==
    {m \in memory : m.owner = id /\ (m.slot = 0 \/ states[id].buffers[m.slot].data)}

Release(t) ==
    /\ At(t, "release")
    /\ memory' = memory \ Owned(replacement)
    /\ states' = [states EXCEPT ![replacement] = None]
    /\ replacement' = None
    /\ GoTo(t, "restore")
    /\ UNCHANGED <<exists, mutex, device, args, scopes, fields, running, history>>

(* ... and switches back (mutant: leaves the thread on the state's device). *)
RestoreDeviceNot(t) ==
    /\ At(t, "restore")
    /\ outer' = None
    /\ GoTo(t, "return")
    /\ UNCHANGED <<exists, mutex, device, args, scope, states, replacement, fields, memory, running,
                   history>>

RestoreDevice(t) ==
    /\ At(t, "restore")
    /\ device' = [device EXCEPT ![t] = outer]
    /\ outer' = None
    /\ GoTo(t, "return")
    /\ UNCHANGED <<exists, mutex, args, scope, states, replacement, fields, memory, running, history>>

(* The backend object is destroyed, outside any scope, by a thread that      *)
(* knows that no call is in progress, and may be constructed anew.           *)
Destruct(t) ==
    /\ exists
    /\ \A other \in Threads : At(other, "idle")
    /\ exists' = FALSE
    /\ replacement' = state
    /\ state' = None
    /\ options' = None
    /\ metadata' = None
    /\ good' = None
    /\ GoTo(t, IF state = None THEN "idle" ELSE "destroy")
    /\ UNCHANGED <<mutex, device, args, scopes, states, memory, running, caller>>

Construct ==
    /\ ~exists
    /\ \A t \in Threads : At(t, "idle")
    /\ exists' = TRUE
    /\ UNCHANGED <<mutex, device, pc, args, scopes, states, replacement, fields, memory, running, history>>

-----------------------------------------------------------------------------
(* No engine is loaded, its device cannot be selected, a stream cannot be    *)
(* made, or the inputs are not those of the model.                           *)
InferRefused(t) ==
    /\ At(t, "infer")
    /\ Leave(t)

BeginInfer(t) ==
    /\ At(t, "infer")
    /\ state # None
    /\ EnterScope(t, options.device)
    /\ GoTo(t, "tensor")
    /\ UNCHANGED <<exists, mutex, args, states, replacement, fields, memory, running, history>>

Buffer(s) == states[state].buffers[s]
SetBuffer(s, data, capacity) ==
    states' = [states EXCEPT ![state].buffers[s] = [data |-> data, capacity |-> capacity]]

(* The tensor stays in host memory. *)
BindHost(t) ==
    /\ At(t, "tensor")
    /\ slot \in HostSlots
    /\ slot' = slot + 1
    /\ UNCHANGED <<exists, mutex, device, pc, args, scopes, states, replacement, fields, memory, committed,
                   needed, history>>

(* EnsureCapacity: the buffer is large enough, ... *)
Reuse(t, bytes) ==
    /\ At(t, "tensor")
    /\ slot \in Slots \ HostSlots
    /\ bytes <= Buffer(slot).capacity
    /\ needed' = [needed EXCEPT ![slot] = bytes]
    /\ slot' = slot + 1
    /\ UNCHANGED <<exists, mutex, device, pc, args, scopes, states, replacement, fields, memory, committed,
                   history>>

(* Mutant: the capacity of a buffer that was freed is left as it was. *)
FreeKeepingCapacity(t, bytes) ==
    /\ At(t, "tensor")
    /\ slot \in Slots \ HostSlots
    /\ bytes > Buffer(slot).capacity
    /\ memory' = {m \in memory : m.owner # state \/ m.slot # slot}
    /\ SetBuffer(slot, FALSE, Buffer(slot).capacity)
    /\ needed' = [needed EXCEPT ![slot] = bytes]
    /\ GoTo(t, "allocate")
    /\ UNCHANGED <<exists, mutex, device, args, scopes, replacement, fields, committed, slot, history>>

(* Mutant: the old buffer is not freed before a larger one is allocated. *)
FreeSkipped(t, bytes) ==
    /\ At(t, "tensor")
    /\ slot \in Slots \ HostSlots
    /\ bytes > Buffer(slot).capacity
    /\ SetBuffer(slot, FALSE, 0)
    /\ needed' = [needed EXCEPT ![slot] = bytes]
    /\ GoTo(t, "allocate")
    /\ UNCHANGED <<exists, mutex, device, args, scopes, replacement, fields, memory, committed, slot,
                   history>>

(* ... or is freed, if there is one, ... *)
Free(t, bytes) ==
    /\ At(t, "tensor")
    /\ slot \in Slots \ HostSlots
    /\ bytes > Buffer(slot).capacity
    /\ memory' = IF Buffer(slot).data THEN {m \in memory : m.owner # state \/ m.slot # slot} ELSE memory
    /\ SetBuffer(slot, FALSE, 0)
    /\ needed' = [needed EXCEPT ![slot] = bytes]
    /\ GoTo(t, "allocate")
    /\ UNCHANGED <<exists, mutex, device, args, scopes, replacement, fields, committed, slot, history>>

(* ... and allocated. *)
Allocate(t) ==
    /\ At(t, "allocate")
    /\ memory' = memory \cup {Allocation(state, slot, device[t], needed[slot])}
    /\ SetBuffer(slot, TRUE, needed[slot])
    /\ slot' = slot + 1
    /\ GoTo(t, "tensor")
    /\ UNCHANGED <<exists, mutex, device, args, scopes, replacement, fields, committed, needed, history>>

(* A shape or an address the context rejects, an unresolved output shape, a  *)
(* copy, a free or an allocation that fails, or the execution itself.        *)
InferFails(t) ==
    /\ pc[t] \in {"tensor", "allocate"}
    /\ Leave(t)

(* enqueueV3, the copies of the outputs, and the synchronisation. *)
Execute(t) ==
    /\ At(t, "tensor")
    /\ slot > NumSlots
    /\ Leave(t)

-----------------------------------------------------------------------------
(* What a thread does on its own once its call has the mutex. *)
Step(t) ==
    \/ LoadRefused(t) \/ BeginLoad(t) \/ Build(t) \/ BuildFails(t) \/ DescribeFails(t) \/ Commit(t)
    \/ SwitchDevice(t) \/ Release(t) \/ RestoreDevice(t)
    \/ InferRefused(t) \/ BeginInfer(t) \/ BindHost(t)
    \/ \E bytes \in 0..MaxBytes : Reuse(t, bytes) \/ Free(t, bytes)
    \/ Allocate(t) \/ InferFails(t) \/ Execute(t)
    \/ Return(t)

Next ==
    \/ \E t \in Threads :
           \/ \E d \in Devices : SelectDevice(t, d)
           \/ \E load \in Loads : LoadModel(t, load)
           \/ Infer(t)
           \/ Lock(t)
           \/ Step(t)
           \/ Destruct(t)
    \/ Construct

(* A call inside the mutex runs to its end, and the mutex starves no waiter. *)
Spec ==
    /\ Init
    /\ [][Next]_vars
    /\ \A t \in Threads : WF_vars(Step(t)) /\ SF_vars(Lock(t))

-----------------------------------------------------------------------------
Waiting == {"idle", "load_lock", "infer_lock"}
Loading == {"load", "build", "describe"}
Dying   == {"destroy", "release", "restore"}
Inferring == {"infer", "tensor", "allocate"}

Inside(t) == pc[t] \notin Waiting

FlagsOK == exists \in BOOLEAN /\ committed \in BOOLEAN

(* Type correctness of the object, its callers and the devices' memory. *)
TypeOK ==
    /\ FlagsOK
    /\ mutex \in Threads \cup {None}
    /\ device \in [Threads -> Devices]
    /\ pc \in [Threads -> Waiting \cup Loading \cup Dying \cup Inferring \cup {"return"}]
    /\ args \in [Threads -> Loads \cup {None}]
    /\ scope \in Devices \cup {None}
    /\ outer \in Devices \cup {None}
    /\ states \in [Ids -> StateType \cup {None}]
    /\ state \in Ids \cup {None}
    /\ replacement \in Ids \cup {None}
    /\ options \in Loads \cup {None}
    /\ metadata \in Loads \cup {None}
    /\ memory \subseteq [owner : Ids, slot : 0..NumSlots, device : Devices, bytes : 0..MaxBytes]
    /\ slot \in 1..(NumSlots + 1)
    /\ needed \in [Slots -> 0..MaxBytes]
    /\ caller \in [Threads -> Devices]
    /\ good \in Loads \cup {None}

(* tensorrt_inference_engine.h ("Load and inference restore the calling      *)
(* thread's CUDA device on exit"): outside the backend every thread is on    *)
(* the device its caller selected, whatever failed, also after it destroyed  *)
(* a state that lives elsewhere.                                             *)
CallersDeviceIsKept == \A t \in Threads : ~Inside(t) => device[t] = caller[t]

(* tensorrt_inference_engine.h ("Failure preserves the previous model,       *)
(* metadata, and inference state"): whenever no call is inside, state_,      *)
(* options_ and metadata_ are those of the last load that returned normally. *)
LoadedIsLastSuccess ==
    mutex = None =>
        /\ options = good
        /\ metadata = good
        /\ IF state = None THEN good = None ELSE states[state] # None /\ states[state].load = good

(* What a state object believes it owns, on the device it was made for. *)
Held(id) ==
    {Allocation(id, 0, states[id].load.device, 0)} \cup
    {Allocation(id, s, states[id].load.device, states[id].buffers[s].capacity) :
        s \in {s \in Slots : states[id].buffers[s].data}}

(* CDeviceBuffer, STensorRtState: after every step of every call, failed or  *)
(* not, the memory alive is what the existing states believe they own, with  *)
(* its capacity and device; when nobody is inside, one state exists at most, *)
(* and none once the object is destroyed.                                    *)
MemoryIsAccounted ==
    /\ memory = UNION {Held(id) : id \in {id \in Ids : states[id] # None}}
    /\ (\A t \in Threads : ~Inside(t)) => \A id \in Ids : states[id] # None => id = state

(* Infer: when the engine is executed, each tensor it reads or writes on the *)
(* device has a live buffer that is large enough for this call, and state    *)
(* and buffers are on the thread's current device.                           *)
ExecutesOnLiveBuffers ==
    \A t \in Threads : At(t, "tensor") /\ slot > NumSlots =>
        /\ states[state].load.device = device[t]
        /\ \A s \in Slots \ HostSlots : needed[s] > 0 =>
               \E m \in memory : /\ m.owner = state
                                  /\ m.slot = s
                                  /\ m.device = device[t]
                                  /\ m.bytes >= needed[s]

(* ~STensorRtState ("Destroy device allocations and TensorRT objects on      *)
(* their owning device") and EnsureCapacity: whoever releases memory is on   *)
(* the device that memory was allocated on.                                  *)
ReleasedOnItsDevice ==
    [][\A m \in memory \ memory' : \E t \in Threads : Inside(t) /\ device[t] = m.device]_vars

(* The inductive invariant behind the safety properties. *)

(* Who is inside, with and without the object. *)
ThreadsInv ==
    /\ \A t, u \in Threads : Inside(t) /\ Inside(u) => t = u
    /\ \A t \in Threads :
           IF exists THEN Inside(t) <=> mutex = t
           ELSE mutex = None /\ pc[t] \in {"idle", "return"} \cup Dying
    /\ \A t \in Threads : pc[t] \in {"load_lock"} \cup Loading => args[t] # None

(* Which devices are saved on the stack of the call inside. *)
ScopesInv ==
    /\ (\A t \in Threads : ~Inside(t)) => scope = None /\ outer = None
    /\ \A t \in Threads :
           /\ pc[t] \in {"load", "infer"} => scope = None /\ device[t] = caller[t]
           /\ pc[t] \in {"build", "describe", "tensor", "allocate"} => scope = caller[t]
           /\ pc[t] \in Dying => scope = IF exists THEN caller[t] ELSE None
           /\ At(t, "destroy") /\ ~exists => device[t] = caller[t]
           /\ pc[t] \in {"release", "restore"} =>
                  outer # None /\ (~exists => outer = caller[t])
           /\ At(t, "return") =>
                  IF scope = None THEN device[t] = caller[t] ELSE scope = caller[t]
           /\ Inside(t) /\ pc[t] \notin {"release", "restore"} => outer = None

(* Which device the thread inside is on. *)
DeviceInv ==
    \A t \in Threads :
        /\ pc[t] \in {"build", "describe"} => device[t] = args[t].device
        /\ pc[t] \in {"tensor", "allocate"} => state # None /\ device[t] = options.device
        /\ At(t, "release") => device[t] = states[replacement].load.device

(* The state objects and the fields that go with them. *)
StatesInv ==
    /\ state # None => states[state] # None
    /\ replacement # None => replacement # state /\ states[replacement] # None
    /\ \A id \in Ids : states[id] # None => id \in {state, replacement}
    /\ replacement # None <=> \E t \in Threads : pc[t] \in {"describe", "destroy", "release"}
    /\ \A t \in Threads : At(t, "describe") => states[replacement].load = args[t]
    /\ metadata = options
    /\ options = IF state = None THEN None ELSE states[state].load

(* The last load that returned, and the one that is about to. *)
LoadInv ==
    /\ ~committed => options = good
    /\ committed => \E t \in Threads : Inside(t)
    /\ committed => \A t \in Threads : Inside(t) =>
           exists /\ pc[t] \in Dying \cup {"return"} /\ options = args[t]
    /\ ~exists => ~committed /\ state = None

(* Buffers: what the inference has prepared so far. *)
BuffersInv ==
    /\ (\A t \in Threads : pc[t] \notin {"tensor", "allocate", "return"}) => slot = 1
    /\ \A id \in Ids : states[id] # None =>
           \A s \in Slots : ~states[id].buffers[s].data => states[id].buffers[s].capacity = 0
    /\ \A t \in Threads : pc[t] \in {"tensor", "allocate"} =>
           \A s \in Slots \ HostSlots :
               s < slot => needed[s] <= states[state].buffers[s].capacity
    /\ \A t \in Threads : At(t, "allocate") =>
           slot \in Slots \ HostSlots /\ ~states[state].buffers[slot].data

IInv ==
    /\ TypeOK
    /\ ThreadsInv
    /\ CallersDeviceIsKept
    /\ ScopesInv
    /\ DeviceInv
    /\ StatesInv
    /\ LoadInv
    /\ BuffersInv
    /\ MemoryIsAccounted

(* Every call returns: no thread keeps another out forever. *)
CallsReturn == \A t \in Threads : pc[t] # "idle" ~> pc[t] = "idle"

=============================================================================
