-------------------------- MODULE TensorRtEngineProofs --------------------------
(***************************************************************************)
(* Proofs about CInferenceManager_TensorRT_Engine: for any threads,        *)
(* devices, engine files and number of tensors, with allocations of any    *)
(* bounded size, callers keep their device, a failure keeps what was       *)
(* loaded, and no device memory is lost, used too small or released on     *)
(* another device.                                                         *)
(*                                                                         *)
(* IInv says who is inside, which devices the scopes on its stack have     *)
(* saved, which device it is on, which of the two state objects each name  *)
(* denotes, and what the inference has prepared so far; none of it is in   *)
(* the properties, and a device is put back because of it.                 *)
(***************************************************************************)
EXTENDS TensorRtEngine, TLAPS

(* What IInv says besides the types, the buffers and the memory. *)
Control ==
    /\ ThreadsInv
    /\ CallersDeviceIsKept
    /\ ScopesInv
    /\ DeviceInv
    /\ StatesInv
    /\ LoadInv

Accounted == memory = UNION {Held(id) : id \in {id \in Ids : states[id] # None}}

(* What MemoryIsAccounted says of one allocation. *)
Holds(st, id, m) ==
    \/ m = Allocation(id, 0, st.load.device, 0)
    \/ \E s \in Slots : st.buffers[s].data /\ m = Allocation(id, s, st.load.device, st.buffers[s].capacity)

AccountedIn(mem, sts) == \A m : m \in mem <=> \E id \in Ids : sts[id] # None /\ Holds(sts[id], id, m)

(* The account of the memory, one allocation at a time. *)
LEMMA Pointwise ==
    /\ Accounted <=> AccountedIn(memory, states)
    /\ Accounted' <=> AccountedIn(memory', states')
<1>1. \A id, m : m \in Held(id) <=> Holds(states[id], id, m)
    BY DEF Held, Holds
<1>2. \A id, m : m \in Held(id)' <=> Holds(states'[id], id, m)
    BY DEF Held, Holds
<1>3. Accounted <=> AccountedIn(memory, states)
    BY <1>1 DEF Accounted, AccountedIn
<1>4. Accounted' <=> AccountedIn(memory', states')
    BY <1>2 DEF Accounted, AccountedIn
<1> QED
    BY <1>3, <1>4

(* What EnsureCapacity does to one buffer of the current state, and to nothing *)
(* else.                                                                       *)
BufferSet(s, data, capacity) ==
    /\ states' \in [Ids -> StateType \cup {None}]
    /\ \A id \in Ids \ {state} : states'[id] = states[id]
    /\ states'[state] # None
    /\ states'[state].load = states[state].load
    /\ states'[state].buffers =
          [states[state].buffers EXCEPT ![s] = [data |-> data, capacity |-> capacity]]

(* SetBuffer changes one buffer of the current state. *)
LEMMA BufferIsSet ==
    ASSUME IInv, state # None,
           NEW s \in Slots, NEW data \in BOOLEAN, NEW capacity \in 0..MaxBytes,
           SetBuffer(s, data, capacity)
    PROVE  BufferSet(s, data, capacity)
<1> DEFINE buffer == [data |-> data, capacity |-> capacity]
           st == states[state]
           new == [load |-> st.load, buffers |-> [st.buffers EXCEPT ![s] = buffer]]
<1>1. state \in Ids /\ st \in StateType
    BY DEF IInv, TypeOK, StatesInv
<1>2. buffer \in [data : BOOLEAN, capacity : 0..MaxBytes]
    OBVIOUS
<1>3. [st.buffers EXCEPT ![s] = buffer] \in [Slots -> [data : BOOLEAN, capacity : 0..MaxBytes]]
    <2> HIDE DEF buffer, st
    <2> QED BY <1>1, <1>2 DEF StateType
<1>4. new \in StateType
    <2> HIDE DEF buffer, st
    <2> QED BY <1>1, <1>3 DEF StateType
<1>5. [st EXCEPT !.buffers[s] = buffer] = new
    <2> HIDE DEF buffer, st
    <2> QED BY <1>1 DEF StateType
<1>6. states' = [states EXCEPT ![state] = new]
    BY <1>1, <1>5 DEF SetBuffer
<1> HIDE DEF new, buffer
<1>7. new.load = st.load /\ new.buffers = [st.buffers EXCEPT ![s] = buffer]
    BY DEF new
<1> QED
    BY <1>1, <1>4, <1>6, <1>7, NoneAssumption DEF IInv, TypeOK, BufferSet, buffer

(* The two steps that do so. *)
LEMMA FreeSets ==
    ASSUME IInv, NEW t \in Threads, NEW bytes \in 0..MaxBytes, Free(t, bytes)
    PROVE  state # None /\ slot \in Slots /\ BufferSet(slot, FALSE, 0)
<1>1. state # None /\ slot \in Slots /\ 0 \in 0..MaxBytes
    BY ConstantsAssumption DEF IInv, Free, DeviceInv, At
<1>2. SetBuffer(slot, FALSE, 0)
    BY DEF Free
<1> QED
    BY <1>1, <1>2, BufferIsSet

LEMMA AllocateSets ==
    ASSUME IInv, NEW t \in Threads, Allocate(t)
    PROVE  state # None /\ slot \in Slots /\ needed[slot] \in 0..MaxBytes
           /\ BufferSet(slot, TRUE, needed[slot])
<1>1. state # None /\ slot \in Slots /\ needed[slot] \in 0..MaxBytes
    BY DEF IInv, TypeOK, Allocate, BuffersInv, DeviceInv, At
<1>2. SetBuffer(slot, TRUE, needed[slot])
    BY DEF Allocate
<1> QED
    BY <1>1, <1>2, BufferIsSet

(* The flags after a step outside a load or an inference. *)
LEMMA OutsideFlags ==
    ASSUME TypeOK,
           \/ \E t \in Threads : \/ \E d \in Devices : SelectDevice(t, d)
                                 \/ \E load \in Loads : LoadModel(t, load)
                                 \/ Infer(t)
                                 \/ Lock(t)
           \/ Construct
           \/ UNCHANGED vars
    PROVE  FlagsOK'
<1> USE DEF TypeOK, FlagsOK, running
<1>1. CASE \E t \in Threads, d \in Devices : SelectDevice(t, d)
    BY <1>1 DEF SelectDevice
<1>2. CASE \E t \in Threads, load \in Loads : LoadModel(t, load)
    BY <1>2 DEF LoadModel
<1>3. CASE \E t \in Threads : Infer(t) \/ Lock(t)
    BY <1>3 DEF Infer, Lock
<1>4. CASE Construct
    BY <1>4 DEF Construct
<1>5. CASE UNCHANGED vars
    BY <1>5 DEF vars
<1> QED
    BY <1>1, <1>2, <1>3, <1>4, <1>5

(* They change neither the states nor the memory. *)
LEMMA OutsideSteps ==
    ASSUME IInv,
           \/ \E t \in Threads : \/ \E d \in Devices : SelectDevice(t, d)
                                 \/ \E load \in Loads : LoadModel(t, load)
                                 \/ Infer(t)
                                 \/ Lock(t)
           \/ Construct
           \/ UNCHANGED vars
    PROVE  IInv'
<1> USE ConstantsAssumption, NoneAssumption
<1> USE DEF IInv, GoTo, scopes, fields, running, history, At, Inside, Waiting, Loading, Dying, Inferring
<1>0. FlagsOK'
    BY OutsideFlags
<1>1. TypeOK'
    <2> USE <1>0 DEF TypeOK
    <2>1. CASE \E t \in Threads, d \in Devices : SelectDevice(t, d)
        BY <2>1 DEF SelectDevice
    <2>2. CASE \E t \in Threads, load \in Loads : LoadModel(t, load)
        BY <2>2 DEF LoadModel
    <2>3. CASE \E t \in Threads : Infer(t) \/ Lock(t)
        BY <2>3 DEF Infer, Lock
    <2>4. CASE Construct \/ UNCHANGED vars
        BY <2>4 DEF Construct, vars
    <2> QED
        BY <2>1, <2>2, <2>3, <2>4
<1>2. Control' /\ BuffersInv'
    <2> USE DEF Control, ThreadsInv, CallersDeviceIsKept, ScopesInv, DeviceInv, StatesInv, LoadInv,
            BuffersInv, TypeOK
    <2>1. CASE \E t \in Threads, d \in Devices : SelectDevice(t, d)
        BY <2>1 DEF SelectDevice
    <2>2. CASE \E t \in Threads, load \in Loads : LoadModel(t, load)
        BY <2>2 DEF LoadModel
    <2>3. CASE \E t \in Threads : Infer(t)
        BY <2>3 DEF Infer
    <2>4. CASE \E t \in Threads : Lock(t)
        BY <2>4 DEF Lock
    <2>5. CASE Construct
        BY <2>5 DEF Construct
    <2>6. CASE UNCHANGED vars
        BY <2>6 DEF vars
    <2> QED
        BY <2>1, <2>2, <2>3, <2>4, <2>5, <2>6
<1>3. UNCHANGED <<states, memory>>
    BY DEF SelectDevice, LoadModel, Infer, Lock, Construct, vars
<1>4. MemoryIsAccounted'
    <2>1. AccountedIn(memory', states')
        BY <1>3, Pointwise DEF MemoryIsAccounted, Accounted
    <2>2. (\A t \in Threads : ~Inside(t)') => \A id \in Ids : states'[id] # None => id = state'
        BY <1>2 DEF Control, StatesInv
    <2> QED
        BY <2>1, <2>2, Pointwise DEF MemoryIsAccounted, Accounted
<1> QED
    BY <1>1, <1>2, <1>4 DEF Control

(* The steps of a load up to its exchange. *)
LEMMA LoadSteps ==
    ASSUME IInv, NEW t \in Threads,
           \/ LoadRefused(t)
           \/ BeginLoad(t)
           \/ Build(t)
           \/ BuildFails(t)
           \/ DescribeFails(t)
           \/ Commit(t)
    PROVE  Control'
<1> USE ConstantsAssumption, NoneAssumption
<1> USE DEF IInv, GoTo, Leave, EnterScope, scopes, fields, running, history, At, Inside, Waiting,
            Loading, Dying, Inferring
<1> USE DEF Control, ThreadsInv, CallersDeviceIsKept, ScopesInv, DeviceInv, StatesInv, LoadInv,
            TypeOK
<1>1. CASE LoadRefused(t)
    BY <1>1 DEF LoadRefused
<1>2. CASE BeginLoad(t)
    BY <1>2 DEF BeginLoad
<1>3. CASE Build(t)
    <2>1. PICK id \in Ids :
              /\ states[id] = None
              /\ replacement' = id
              /\ states' = [states EXCEPT ![id] = NewState(args[t])]
        BY <1>3 DEF Build
    <2>2. args[t] \in Loads
        BY <1>3 DEF Build, ThreadsInv, TypeOK
    <2>3. NewState(args[t]) \in StateType /\ NewState(args[t]).load = args[t]
        BY <2>2 DEF NewState, NoBuffer, StateType
    <2>4. state # id
        BY <2>1 DEF StatesInv
    <2> QED
        BY <1>3, <2>1, <2>2, <2>3, <2>4 DEF Build
<1>4. CASE BuildFails(t)
    BY <1>4 DEF BuildFails
<1>5. CASE DescribeFails(t)
    BY <1>5 DEF DescribeFails
<1>6. CASE Commit(t)
    BY <1>6 DEF Commit
<1> QED
    BY <1>1, <1>2, <1>3, <1>4, <1>5, <1>6

(* The steps that destroy a state, and the destructor of the object. *)
LEMMA DestroySteps ==
    ASSUME IInv, NEW t \in Threads,
           \/ SwitchDevice(t)
           \/ Release(t)
           \/ RestoreDevice(t)
           \/ Destruct(t)
           \/ Return(t)
    PROVE  Control'
<1> USE ConstantsAssumption, NoneAssumption
<1> USE DEF IInv, GoTo, scopes, fields, running, history, At, Inside, Waiting, Loading, Dying,
            Inferring
<1> USE DEF Control, ThreadsInv, CallersDeviceIsKept, ScopesInv, DeviceInv, StatesInv, LoadInv,
            TypeOK
<1>1. CASE SwitchDevice(t)
    BY <1>1 DEF SwitchDevice
<1>2. CASE Release(t)
    BY <1>2 DEF Release
<1>3. CASE RestoreDevice(t)
    BY <1>3 DEF RestoreDevice
<1>4. CASE Destruct(t)
    BY <1>4 DEF Destruct
<1>5. CASE Return(t)
    BY <1>5 DEF Return, ForgetCall
<1> QED
    BY <1>1, <1>2, <1>3, <1>4, <1>5

(* The steps of an inference. *)
LEMMA InferSteps ==
    ASSUME IInv, NEW t \in Threads,
           \/ InferRefused(t)
           \/ BeginInfer(t)
           \/ BindHost(t)
           \/ \E bytes \in 0..MaxBytes : Reuse(t, bytes) \/ Free(t, bytes)
           \/ Allocate(t)
           \/ InferFails(t)
           \/ Execute(t)
    PROVE  Control'
<1> USE ConstantsAssumption, NoneAssumption
<1> USE DEF IInv, GoTo, Leave, EnterScope, scopes, fields, running, history, At, Inside, Waiting,
            Loading, Dying, Inferring
<1> USE DEF Control, ThreadsInv, CallersDeviceIsKept, ScopesInv, DeviceInv, StatesInv, LoadInv,
            TypeOK
<1>1. CASE InferRefused(t)
    BY <1>1 DEF InferRefused
<1>2. CASE BeginInfer(t)
    BY <1>2 DEF BeginInfer
<1>3. CASE BindHost(t)
    BY <1>3 DEF BindHost
<1>4. CASE \E bytes \in 0..MaxBytes : Reuse(t, bytes)
    BY <1>4 DEF Reuse
<1>5. ASSUME NEW bytes \in 0..MaxBytes, Free(t, bytes)
      PROVE  Control'
    <2>1. BufferSet(slot, FALSE, 0)
        BY <1>5, FreeSets
    <2> QED
        BY <1>5, <2>1 DEF BufferSet, Free
<1>6. CASE Allocate(t)
    <2>1. BufferSet(slot, TRUE, needed[slot])
        BY <1>6, AllocateSets
    <2> QED
        BY <1>6, <2>1 DEF BufferSet, Allocate
<1>7. CASE InferFails(t)
    BY <1>7 DEF InferFails
<1>8. CASE Execute(t)
    BY <1>8 DEF Execute
<1> QED
    BY <1>1, <1>2, <1>3, <1>4, <1>5, <1>6, <1>7, <1>8

(* Every step keeps the types: the flags first, which need no arithmetic. *)
LEMMA StepFlags ==
    ASSUME TypeOK, NEW t \in Threads,
           Step(t) \/ Destruct(t)
    PROVE  FlagsOK'
<1> USE DEF TypeOK, FlagsOK, Leave, running, ForgetCall
<1>1. CASE LoadRefused(t) \/ BeginLoad(t) \/ Build(t) \/ BuildFails(t) \/ DescribeFails(t) \/ Commit(t)
    BY <1>1 DEF LoadRefused, BeginLoad, Build, BuildFails, DescribeFails, Commit
<1>2. CASE SwitchDevice(t) \/ Release(t) \/ RestoreDevice(t)
    BY <1>2 DEF SwitchDevice, Release, RestoreDevice
<1>3. CASE InferRefused(t) \/ BeginInfer(t) \/ BindHost(t)
    BY <1>3 DEF InferRefused, BeginInfer, BindHost
<1>4. CASE \E bytes \in 0..MaxBytes : Reuse(t, bytes) \/ Free(t, bytes)
    BY <1>4 DEF Reuse, Free
<1>5. CASE Allocate(t) \/ InferFails(t) \/ Execute(t)
    BY <1>5 DEF Allocate, InferFails, Execute
<1>6. CASE Return(t)
    BY <1>6 DEF Return
<1>7. CASE Destruct(t)
    BY <1>7 DEF Destruct
<1> QED
    BY <1>1, <1>2, <1>3, <1>4, <1>5, <1>6, <1>7 DEF Step

(* The other types. *)
LEMMA StepTypes ==
    ASSUME IInv, FlagsOK', NEW t \in Threads,
           Step(t) \/ Destruct(t)
    PROVE  TypeOK'
<1> USE ConstantsAssumption, NoneAssumption
<1> USE DEF IInv, TypeOK, GoTo, Leave, EnterScope, scopes, fields, running, history, At, Waiting,
            Loading, Dying, Inferring
<1>1. CASE LoadRefused(t) \/ BuildFails(t) \/ DescribeFails(t) \/ Commit(t)
    BY <1>1 DEF LoadRefused, BuildFails, DescribeFails, Commit, ThreadsInv
<1>2. CASE BeginLoad(t)
    <2>1. args[t] \in Loads
        BY <1>2 DEF BeginLoad, ThreadsInv
    <2>2. args[t].device \in Devices
        BY <2>1 DEF Loads
    <2> QED
        BY <1>2, <2>2 DEF BeginLoad
<1>3. CASE Build(t)
    <2>1. args[t] \in Loads
        BY <1>3 DEF Build, ThreadsInv
    <2>2. NewState(args[t]) \in StateType
        BY <2>1 DEF NewState, NoBuffer, StateType
    <2>3. PICK id \in Ids :
              /\ states' = [states EXCEPT ![id] = NewState(args[t])]
              /\ replacement' = id
              /\ memory' = memory \cup {Allocation(id, 0, device[t], 0)}
        BY <1>3 DEF Build
    <2>4. Allocation(id, 0, device[t], 0) \in
              [owner : Ids, slot : 0..NumSlots, device : Devices, bytes : 0..MaxBytes]
        BY DEF Allocation
    <2> QED
        BY <1>3, <2>2, <2>3, <2>4 DEF Build
<1>4. CASE SwitchDevice(t)
    <2>1. states[replacement] \in StateType
        BY <1>4 DEF SwitchDevice, StatesInv
    <2>2. states[replacement].load.device \in Devices
        BY <2>1 DEF StateType, Loads
    <2> QED
        BY <1>4, <2>2 DEF SwitchDevice
<1>5. CASE Release(t)
    BY <1>5 DEF Release
<1>6. CASE RestoreDevice(t)
    BY <1>6 DEF RestoreDevice, ScopesInv
<1>7. CASE InferRefused(t) \/ InferFails(t) \/ Execute(t)
    BY <1>7 DEF InferRefused, InferFails, Execute
<1>8. CASE BeginInfer(t)
    <2>1. options \in Loads
        BY <1>8 DEF BeginInfer, StatesInv, StateType
    <2>2. options.device \in Devices
        BY <2>1 DEF Loads
    <2> QED
        BY <1>8, <2>2 DEF BeginInfer
<1>9. CASE BindHost(t)
    BY <1>9 DEF BindHost
<1>10. ASSUME NEW bytes \in 0..MaxBytes, Reuse(t, bytes)
       PROVE  TypeOK'
    BY <1>10 DEF Reuse, Slots
<1>11. ASSUME NEW bytes \in 0..MaxBytes, Free(t, bytes)
       PROVE  TypeOK'
    <2>1. BufferSet(slot, FALSE, 0)
        BY <1>11, FreeSets
    <2> QED
        BY <1>11, <2>1 DEF Free, BufferSet
<1>12. CASE Allocate(t)
    <2>1. state # None /\ slot \in Slots /\ needed[slot] \in 0..MaxBytes
        BY <1>12, AllocateSets
    <2>2. BufferSet(slot, TRUE, needed[slot])
        BY <1>12, AllocateSets
    <2>3. Allocation(state, slot, device[t], needed[slot]) \in
              [owner : Ids, slot : 0..NumSlots, device : Devices, bytes : 0..MaxBytes]
        BY <2>1 DEF Allocation, Slots
    <2>4. slot + 1 \in 1..(NumSlots + 1)
        BY <2>1 DEF Slots
    <2> QED
        BY <1>12, <2>2, <2>3, <2>4 DEF Allocate, BufferSet
<1>13. CASE Return(t)
    BY <1>13 DEF Return, ForgetCall
<1>14. CASE Destruct(t)
    BY <1>14 DEF Destruct
<1> QED
    BY <1>1, <1>2, <1>3, <1>4, <1>5, <1>6, <1>7, <1>8, <1>9, <1>10, <1>11, <1>12, <1>13, <1>14
    DEF Step

(* The buffers an inference has prepared. *)
LEMMA StepBuffers ==
    ASSUME IInv, NEW t \in Threads,
           Step(t) \/ Destruct(t)
    PROVE  BuffersInv'
<1> USE ConstantsAssumption, NoneAssumption
<1> USE DEF IInv, TypeOK, BuffersInv, GoTo, Leave, EnterScope, scopes, fields, running, history, At,
            Inside, Waiting
<1>1. CASE LoadRefused(t) \/ BeginLoad(t) \/ BuildFails(t) \/ DescribeFails(t)
    BY <1>1 DEF LoadRefused, BeginLoad, BuildFails, DescribeFails
<1>2. CASE Commit(t)
    BY <1>2 DEF Commit, ThreadsInv
<1>3. CASE Build(t)
    <2>1. PICK id \in Ids : states' = [states EXCEPT ![id] = NewState(args[t])]
        BY <1>3 DEF Build
    <2>2. NewState(args[t]).buffers = [s \in Slots |-> NoBuffer]
        BY DEF NewState
    <2>3. \A u \in Threads : pc'[u] \notin {"tensor", "allocate"}
        BY <1>3 DEF Build, ThreadsInv
    <2>4. slot' = 1
        BY <1>3 DEF Build, ThreadsInv
    <2> QED
        BY <2>1, <2>2, <2>3, <2>4 DEF NoBuffer
<1>4. CASE SwitchDevice(t) \/ RestoreDevice(t)
    BY <1>4 DEF SwitchDevice, RestoreDevice
<1>5. CASE Release(t)
    BY <1>5 DEF Release, StatesInv, ThreadsInv
<1>6. CASE InferRefused(t) \/ InferFails(t) \/ Execute(t)
    BY <1>6 DEF InferRefused, InferFails, Execute
<1>7. CASE BeginInfer(t)
    BY <1>7 DEF BeginInfer, ThreadsInv, Slots
<1>8. CASE BindHost(t)
    <2>1. \A u \in Threads \ {t} : pc[u] \notin {"tensor", "allocate"}
        BY <1>8 DEF BindHost, ThreadsInv
    <2>2. \A s \in Slots \ HostSlots : s < slot' => s < slot
        BY <1>8 DEF BindHost, Slots
    <2> QED
        BY <1>8, <2>1, <2>2 DEF BindHost
<1>9. ASSUME NEW bytes \in 0..MaxBytes, Reuse(t, bytes)
      PROVE  BuffersInv'
    <2>1. \A u \in Threads \ {t} : pc[u] \notin {"tensor", "allocate"}
        BY <1>9 DEF Reuse, ThreadsInv
    <2>2. \A s \in Slots \ HostSlots : s < slot' =>
              needed'[s] <= states[state].buffers[s].capacity
        BY <1>9 DEF Reuse, Buffer, Slots
    <2> QED
        BY <1>9, <2>1, <2>2 DEF Reuse
<1>10. ASSUME NEW bytes \in 0..MaxBytes, Free(t, bytes)
       PROVE  BuffersInv'
    <2>1. slot \in Slots /\ state \in Ids /\ states[state] \in StateType /\ BufferSet(slot, FALSE, 0)
        BY <1>10, FreeSets DEF StatesInv
    <2>2. states'[state].buffers =
              [states[state].buffers EXCEPT ![slot] = [data |-> FALSE, capacity |-> 0]]
        BY <2>1 DEF BufferSet
    <2>3. \A s \in Slots \ {slot} : states'[state].buffers[s] = states[state].buffers[s]
        BY <2>1, <2>2 DEF StateType
    <2>4. ~states'[state].buffers[slot].data /\ states'[state].buffers[slot].capacity = 0
        BY <2>1, <2>2 DEF StateType
    <2>5. \A id \in Ids : states'[id] # None =>
              \A s \in Slots : ~states'[id].buffers[s].data => states'[id].buffers[s].capacity = 0
        <3> SUFFICES ASSUME NEW id \in Ids, states'[id] # None,
                            NEW s \in Slots, ~states'[id].buffers[s].data
                     PROVE  states'[id].buffers[s].capacity = 0
            OBVIOUS
        <3>1. CASE id # state
            BY <2>1, <3>1 DEF BufferSet
        <3>2. CASE id = state /\ s # slot
            BY <2>1, <2>3, <2>4, <3>2 DEF StatesInv
        <3>3. CASE id = state /\ s = slot
            BY <2>3, <2>4, <3>3
        <3> QED
            BY <3>1, <3>2, <3>3
    <2>6. \A s \in Slots \ HostSlots : s < slot =>
              needed'[s] <= states'[state].buffers[s].capacity
        <3>1. \A s \in Slots \ HostSlots :
                  s < slot => needed[s] <= states[state].buffers[s].capacity
            BY <1>10 DEF Free
        <3>2. \A s \in Slots : s < slot => s # slot /\ needed'[s] = needed[s]
            BY <1>10, <2>1 DEF Free, Slots
        <3> QED
            BY <2>3, <3>1, <3>2
    <2>7. \A u \in Threads \ {t} : pc'[u] \notin {"tensor", "allocate"}
        BY <1>10 DEF Free, ThreadsInv
    <2> QED
        BY <1>10, <2>4, <2>5, <2>6, <2>7 DEF Free
<1>11. CASE Allocate(t)
    <2>1. slot \in Slots /\ state \in Ids /\ states[state] \in StateType
        BY <1>11, AllocateSets DEF StatesInv
    <2>2. BufferSet(slot, TRUE, needed[slot])
        BY <1>11, AllocateSets
    <2>3. states'[state].buffers =
              [states[state].buffers EXCEPT ![slot] = [data |-> TRUE, capacity |-> needed[slot]]]
        BY <2>2 DEF BufferSet
    <2>4. \A s \in Slots \ {slot} : states'[state].buffers[s] = states[state].buffers[s]
        BY <2>1, <2>3 DEF StateType
    <2>5. states'[state].buffers[slot].data /\ states'[state].buffers[slot].capacity = needed[slot]
        BY <2>1, <2>3 DEF StateType
    <2>6. \A id \in Ids : states'[id] # None =>
              \A s \in Slots : ~states'[id].buffers[s].data => states'[id].buffers[s].capacity = 0
        <3> SUFFICES ASSUME NEW id \in Ids, states'[id] # None,
                            NEW s \in Slots, ~states'[id].buffers[s].data
                     PROVE  states'[id].buffers[s].capacity = 0
            OBVIOUS
        <3>1. CASE id # state
            BY <2>2, <3>1 DEF BufferSet
        <3>2. CASE id = state /\ s # slot
            BY <2>1, <2>2, <2>4, <2>5, <3>2 DEF StatesInv
        <3>3. CASE id = state /\ s = slot
            BY <2>4, <2>5, <3>3
        <3> QED
            BY <3>1, <3>2, <3>3
    <2>7. \A s \in Slots \ HostSlots : s < slot' =>
              needed'[s] <= states'[state].buffers[s].capacity
        <3>1. \A s \in Slots \ HostSlots :
                  s < slot => needed[s] <= states[state].buffers[s].capacity
            BY <1>11 DEF Allocate
        <3>2. needed' = needed /\ \A s \in Slots : s < slot' => s < slot \/ s = slot
            BY <1>11, <2>1 DEF Allocate, Slots
        <3>3. needed[slot] <= states'[state].buffers[slot].capacity
            BY <2>1, <2>5 DEF Slots
        <3>4. \A s \in Slots : s < slot => s # slot
            BY <2>1 DEF Slots
        <3> QED
            BY <2>4, <3>1, <3>2, <3>3, <3>4
    <2>8. \A u \in Threads \ {t} : pc'[u] \notin {"tensor", "allocate"}
        BY <1>11 DEF Allocate, ThreadsInv
    <2> QED
        BY <1>11, <2>6, <2>7, <2>8 DEF Allocate
<1>12. CASE Return(t)
    BY <1>12 DEF Return, ForgetCall, ThreadsInv
<1>13. CASE Destruct(t)
    BY <1>13 DEF Destruct
<1> QED
    BY <1>1, <1>2, <1>3, <1>4, <1>5, <1>6, <1>7, <1>8, <1>9, <1>10, <1>11, <1>12, <1>13 DEF Step

(* Every step keeps the account of the devices' memory: only four touch it. *)
LEMMA StepMemory ==
    ASSUME IInv, NEW t \in Threads,
           Step(t) \/ Destruct(t)
    PROVE  Accounted'
<1>0. AccountedIn(memory, states)
    BY Pointwise DEF IInv, MemoryIsAccounted, Accounted
<1> SUFFICES AccountedIn(memory', states')
    BY Pointwise
<1> USE ConstantsAssumption, NoneAssumption
<1> USE DEF Leave, At
<1>1. CASE Build(t)
    <2>1. args[t] \in Loads /\ device[t] = args[t].device
        BY <1>1 DEF Build, IInv, ThreadsInv, DeviceInv, TypeOK, Loading
    <2>2. PICK id \in Ids :
              /\ states[id] = None
              /\ states' = [states EXCEPT ![id] = NewState(args[t])]
              /\ memory' = memory \cup {Allocation(id, 0, device[t], 0)}
        BY <1>1 DEF Build
    <2>3. \A m : Holds(NewState(args[t]), id, m) <=> m = Allocation(id, 0, device[t], 0)
        BY <2>1 DEF Holds, NewState, NoBuffer
    <2>4. NewState(args[t]) # None
        <3>1. NewState(args[t]) \in StateType
            BY <2>1 DEF NewState, NoBuffer, StateType
        <3> QED
            BY <3>1
    <2>5. /\ states'[id] # None
          /\ \A m : Holds(states'[id], id, m) <=> m = Allocation(id, 0, device[t], 0)
          /\ \A other \in Ids \ {id} : states'[other] = states[other]
        BY <2>2, <2>3, <2>4 DEF IInv, TypeOK
    <2>6. memory' = memory \cup {Allocation(id, 0, device[t], 0)}
        BY <2>2
    <2> QED
        BY <1>0, <2>2, <2>5, <2>6 DEF AccountedIn
<1>2. CASE Release(t)
    <2>1. replacement \in Ids /\ states[replacement] # None
        BY <1>2 DEF Release, IInv, StatesInv, TypeOK
    <2>2. \A id \in Ids : \A m : Holds(states[id], id, m) =>
              /\ m.owner = id
              /\ m.slot = 0 \/ (m.slot \in Slots /\ states[id].buffers[m.slot].data)
        BY DEF Holds, Allocation
    <2>3. \A m \in memory : m \in Owned(replacement) <=> m.owner = replacement
        BY <1>0, <2>2 DEF AccountedIn, Owned
    <2>4. \A m : m \in memory' <=> m \in memory /\ m.owner # replacement
        BY <1>2, <2>3 DEF Release, Owned
    <2>5. \A id \in Ids : states'[id] = IF id = replacement THEN None ELSE states[id]
        BY <1>2 DEF Release, IInv, TypeOK
    <2> QED
        BY <1>0, <2>2, <2>4, <2>5 DEF AccountedIn
<1>3. ASSUME NEW bytes \in 0..MaxBytes, Free(t, bytes)
      PROVE  AccountedIn(memory', states')
    <2>1. /\ slot \in Slots /\ state \in Ids /\ states[state] \in StateType
          /\ BufferSet(slot, FALSE, 0)
        BY <1>3, FreeSets DEF IInv, TypeOK, StatesInv
    <2>2. \A id \in Ids : \A m : Holds(states[id], id, m) =>
              /\ m.owner = id
              /\ m.slot = 0 \/ (m.slot \in Slots /\ states[id].buffers[m.slot].data)
        BY DEF Holds, Allocation
    <2>3. \A m : m \in memory' <=> m \in memory /\ (m.owner # state \/ m.slot # slot)
        <3>1. CASE Buffer(slot).data
            BY <1>3, <3>1 DEF Free
        <3>2. CASE ~Buffer(slot).data
            <4>1. memory' = memory
                BY <1>3, <3>2 DEF Free
            <4>2. \A m \in memory : m.owner = state => m.slot # slot
                BY <1>0, <2>1, <2>2, <3>2 DEF AccountedIn, Buffer, Slots
            <4> QED
                BY <4>1, <4>2
        <3> QED
            BY <3>1, <3>2
    <2>4. \A m : Holds(states'[state], state, m) <=> Holds(states[state], state, m) /\ m.slot # slot
        <3>1. states'[state].buffers =
                  [states[state].buffers EXCEPT ![slot] = [data |-> FALSE, capacity |-> 0]]
            BY <2>1 DEF BufferSet
        <3>2. /\ ~states'[state].buffers[slot].data
              /\ \A s \in Slots \ {slot} : states'[state].buffers[s] = states[state].buffers[s]
            BY <2>1, <3>1 DEF StateType
        <3>3. states'[state].load = states[state].load
            BY <2>1 DEF BufferSet
        <3> QED
            BY <2>1, <3>2, <3>3 DEF Holds, Allocation, Slots
    <2>5. /\ states'[state] # None /\ states[state] # None
          /\ \A id \in Ids \ {state} : states'[id] = states[id]
        BY <2>1, NoneAssumption DEF BufferSet
    <2> QED
        BY <1>0, <2>1, <2>2, <2>3, <2>4, <2>5 DEF AccountedIn
<1>4. CASE Allocate(t)
    <2>1. /\ slot \in Slots /\ state \in Ids /\ states[state] \in StateType
          /\ needed[slot] \in 0..MaxBytes
        BY <1>4, AllocateSets DEF IInv, TypeOK, StatesInv
    <2>2. BufferSet(slot, TRUE, needed[slot])
        BY <1>4, AllocateSets
    <2>3. ~states[state].buffers[slot].data /\ device[t] = states[state].load.device
        BY <1>4 DEF Allocate, IInv, BuffersInv, DeviceInv, StatesInv
    <2>4. \A m : Holds(states'[state], state, m) <=>
                     \/ Holds(states[state], state, m)
                     \/ m = Allocation(state, slot, device[t], needed[slot])
        <3>1. states'[state].buffers =
                  [states[state].buffers EXCEPT ![slot] = [data |-> TRUE, capacity |-> needed[slot]]]
            BY <2>2 DEF BufferSet
        <3>2. /\ states'[state].buffers[slot].data
              /\ states'[state].buffers[slot].capacity = needed[slot]
              /\ \A s \in Slots \ {slot} : states'[state].buffers[s] = states[state].buffers[s]
            BY <2>1, <3>1 DEF StateType
        <3>3. states'[state].load = states[state].load
            BY <2>2 DEF BufferSet
        <3> QED
            BY <2>1, <2>3, <3>2, <3>3 DEF Holds, Allocation, Slots
    <2>5. /\ states'[state] # None /\ states[state] # None
          /\ \A id \in Ids \ {state} : states'[id] = states[id]
        BY <2>1, <2>2, NoneAssumption DEF BufferSet
    <2>6. memory' = memory \cup {Allocation(state, slot, device[t], needed[slot])}
        BY <1>4 DEF Allocate
    <2> QED
        BY <1>0, <2>1, <2>4, <2>5, <2>6 DEF AccountedIn
<1>5. CASE UNCHANGED <<states, memory>>
    BY <1>0, <1>5
<1>6. \/ \E bytes \in 0..MaxBytes : Free(t, bytes)
      \/ Build(t) \/ Release(t) \/ Allocate(t) \/ UNCHANGED <<states, memory>>
    BY DEF Step, LoadRefused, BeginLoad, BuildFails, DescribeFails, Commit, SwitchDevice,
           RestoreDevice, InferRefused, BeginInfer, BindHost, Reuse, InferFails, Execute, Return,
           Destruct
<1> QED
    BY <1>1, <1>2, <1>3, <1>4, <1>5, <1>6

-----------------------------------------------------------------------------
(* The initial states satisfy the invariant. *)
LEMMA InitIInv == Init => IInv
<1> SUFFICES ASSUME Init PROVE IInv
    OBVIOUS
<1> USE ConstantsAssumption, NoneAssumption DEF Init
<1>0. FlagsOK
    BY DEF FlagsOK
<1>1. TypeOK
    BY <1>0 DEF TypeOK, Waiting
<1>2. ThreadsInv /\ CallersDeviceIsKept /\ ScopesInv /\ DeviceInv
    BY DEF ThreadsInv, CallersDeviceIsKept, ScopesInv, DeviceInv, Inside, At, Waiting, Loading, Dying
<1>3. StatesInv
    BY DEF StatesInv, At, Ids
<1>4. LoadInv /\ BuffersInv
    BY DEF LoadInv, BuffersInv, At
<1>5. MemoryIsAccounted
    BY DEF MemoryIsAccounted
<1> QED
    BY <1>1, <1>2, <1>3, <1>4, <1>5 DEF IInv

(* Every step keeps it. *)
LEMMA StepIInv == IInv /\ [Next]_vars => IInv'
<1> SUFFICES ASSUME IInv, [Next]_vars PROVE IInv'
    OBVIOUS
<1>1. ASSUME NEW t \in Threads, Step(t) \/ Destruct(t)
      PROVE  IInv'
    <2>1. Control'
        BY <1>1, LoadSteps, DestroySteps, InferSteps DEF Step
    <2>2. FlagsOK'
        BY <1>1, StepFlags DEF IInv
    <2>3. TypeOK'
        BY <1>1, <2>2, StepTypes
    <2>4. BuffersInv'
        BY <1>1, StepBuffers
    <2>5. MemoryIsAccounted'
        <3>1. Accounted'
            BY <1>1, StepMemory
        <3>2. (\A u \in Threads : ~Inside(u)') => \A id \in Ids : states'[id] # None => id = state'
            BY <2>1, NoneAssumption DEF Control, StatesInv, Inside, Waiting, At
        <3> QED
            BY <3>1, <3>2 DEF MemoryIsAccounted, Accounted
    <2> QED
        BY <2>1, <2>3, <2>4, <2>5 DEF IInv, Control
<1> QED
    BY <1>1, OutsideSteps DEF Next

(* The invariant holds in every reachable state. *)
THEOREM Invariance == Spec => []IInv
<1> QED
    BY InitIInv, StepIInv, PTL DEF Spec

(* TypeOK: the object, its callers and the devices' memory keep their types. *)
THEOREM TypeCorrect == Spec => []TypeOK
<1>1. IInv => TypeOK
    BY DEF IInv
<1> QED
    BY <1>1, Invariance, PTL

(* For any number of threads and devices: outside the backend, every thread is *)
(* on the device its caller selected.                                          *)
THEOREM DeviceRestored == Spec => []CallersDeviceIsKept
<1>1. IInv => CallersDeviceIsKept
    BY DEF IInv
<1> QED
    BY <1>1, Invariance, PTL

(* Whenever no call is inside, the three loaded fields are those of the last *)
(* load that returned normally: a failed load changes none of them.          *)
THEOREM FailurePreserves == Spec => []LoadedIsLastSuccess
<1>1. IInv => LoadedIsLastSuccess
    <2> SUFFICES ASSUME IInv, mutex = None PROVE LoadedIsLastSuccess
        BY DEF LoadedIsLastSuccess
    <2>1. ~committed
        BY ConstantsAssumption DEF IInv, LoadInv, ThreadsInv
    <2>2. options = good /\ metadata = good
        BY <2>1 DEF IInv, LoadInv, StatesInv
    <2> QED
        BY <2>2 DEF IInv, StatesInv, LoadedIsLastSuccess
<1> QED
    BY <1>1, Invariance, PTL

(* After every step the memory alive is what the state objects believe they own. *)
THEOREM MemoryAccounted == Spec => []MemoryIsAccounted
<1>1. IInv => MemoryIsAccounted
    BY DEF IInv
<1> QED
    BY <1>1, Invariance, PTL

(* An engine executes on live buffers that are large enough and on the current *)
(* device: those an inference has prepared stay as it made them.               *)
THEOREM BuffersLive == Spec => []ExecutesOnLiveBuffers
<1>1. IInv => ExecutesOnLiveBuffers
    <2> SUFFICES ASSUME IInv,
                        NEW t \in Threads, At(t, "tensor"), slot > NumSlots
                 PROVE  /\ states[state].load.device = device[t]
                        /\ \A s \in Slots \ HostSlots : needed[s] > 0 =>
                               \E m \in memory : /\ m.owner = state
                                                 /\ m.slot = s
                                                 /\ m.device = device[t]
                                                 /\ m.bytes >= needed[s]
        BY DEF ExecutesOnLiveBuffers
    <2>1. /\ state \in Ids /\ states[state] # None /\ states[state] \in StateType
          /\ states[state].load.device = device[t]
        BY DEF IInv, TypeOK, StatesInv, DeviceInv, At
    <2>2. ASSUME NEW s \in Slots \ HostSlots, needed[s] > 0
          PROVE  \E m \in memory : /\ m.owner = state
                                   /\ m.slot = s
                                   /\ m.device = device[t]
                                   /\ m.bytes >= needed[s]
        <3> DEFINE buffer == states[state].buffers[s]
                   m == Allocation(state, s, states[state].load.device, buffer.capacity)
        <3>1. s < slot /\ needed[s] \in Nat /\ buffer.capacity \in Nat
            BY <2>1, ConstantsAssumption DEF IInv, TypeOK, Slots, StateType
        <3>2. needed[s] <= buffer.capacity
            BY <3>1 DEF IInv, BuffersInv, At
        <3>3. buffer.data
            BY <2>1, <2>2, <3>1, <3>2 DEF IInv, BuffersInv
        <3>4. m \in memory
            BY <2>1, <3>3, Pointwise DEF IInv, MemoryIsAccounted, Accounted, AccountedIn, Holds
        <3> QED
            BY <2>1, <3>1, <3>2, <3>4 DEF Allocation
    <2> QED
        BY <2>1, <2>2
<1> QED
    BY <1>1, Invariance, PTL

(* Memory is released by a thread on the device it was allocated on. *)
THEOREM OwningDevice == Spec => ReleasedOnItsDevice
<1>1. IInv /\ [Next]_vars =>
          [\A m \in memory \ memory' : \E t \in Threads : Inside(t) /\ device[t] = m.device]_vars
    <2> SUFFICES ASSUME IInv, Next, NEW m \in memory \ memory'
                 PROVE  \E t \in Threads : Inside(t) /\ device[t] = m.device
        OBVIOUS
    <2>1. PICK t \in Threads : Release(t) \/ \E bytes \in 0..MaxBytes : Free(t, bytes)
        BY DEF Next, Step, SelectDevice, LoadModel, Infer, Lock, LoadRefused, BeginLoad, Build,
               BuildFails, DescribeFails, Commit, SwitchDevice, RestoreDevice, InferRefused,
               BeginInfer, BindHost, Reuse, Allocate, InferFails, Execute, Return, Destruct,
               Construct, Leave
    <2>2. PICK id \in Ids : states[id] # None /\ Holds(states[id], id, m)
        BY Pointwise DEF IInv, MemoryIsAccounted, Accounted, AccountedIn
    <2>3. m.owner = id /\ m.device = states[id].load.device
        BY <2>2 DEF Holds, Allocation
    <2>4. CASE Release(t)
        <3>1. id = replacement
            BY <2>3, <2>4 DEF Release, Owned
        <3> QED
            BY <2>3, <2>4, <3>1 DEF Release, IInv, DeviceInv, At, Inside, Waiting
    <2>5. ASSUME NEW bytes \in 0..MaxBytes, Free(t, bytes)
          PROVE  \E u \in Threads : Inside(u) /\ device[u] = m.device
        <3>1. id = state
            BY <2>3, <2>5 DEF Free
        <3> QED
            BY <2>3, <2>5, <3>1 DEF Free, IInv, DeviceInv, StatesInv, At, Inside, Waiting
    <2> QED
        BY <2>1, <2>4, <2>5
<1> QED
    BY <1>1, Invariance, PTL DEF Spec, ReleasedOnItsDevice

==============================================================================
