----------------------- MODULE InferenceLifecycleProofs -----------------------
(***************************************************************************)
(* Proofs about CInferenceLifecycleNode: for any finite set of requests,   *)
(* any number of loads and either way of delivering transitions, the node  *)
(* is what the state of its lifecycle machine says, its counter and its    *)
(* last status are right, and it is quiet while it is not active.          *)
(*                                                                         *)
(* IInv relates the node to the transition states too, which is what makes *)
(* it inductive: GateFollowsLifecycle alone says nothing of a callback     *)
(* that has run while the machine has not yet left its transition state.   *)
(***************************************************************************)
EXTENDS InferenceLifecycle, FiniteSetTheorems, TLAPS

(* The initial states satisfy the invariant. *)
LEMMA InitIInv == Init => IInv
<1> SUFFICES ASSUME Init PROVE IInv
    OBVIOUS
<1> USE DEF Init
<1>0. FlagsOK
    BY DEF FlagsOK
<1>1. TypeOK
    <2>1. status \in [state : States \cup {"none"}, loaded : BOOLEAN, count : Nat, error : BOOLEAN,
                     load : 0..MaxLoads]
        BY MaxLoadsAssumption DEF NoStatus
    <2> QED
        BY <1>0, <2>1, MaxLoadsAssumption DEF TypeOK, States, PrimaryStates
<1>2. MachineInv /\ NodeInv
    BY DEF MachineInv, NodeInv, Empty, PrimaryStates
<1>3. RequestInv
    BY RequestsAssumption DEF RequestInv
<1>4. CountIsSuccesses /\ StatusIsCurrent
    BY DEF CountIsSuccesses, StatusIsCurrent
<1> QED
    BY <1>1, <1>2, <1>3, <1>4 DEF IInv

(* The state machine's own steps leave the node alone. *)
LEMMA MachineSteps ==
    ASSUME IInv,
           \/ \E t \in Transitions : BeginTransition(t)
           \/ EndTransition
           \/ OnShutdown
    PROVE  IInv'
<1> USE DEF IInv
<1> UNCHANGED <<mutex, endpoints, fields, status, clients, loads>>
    BY DEF BeginTransition, EndTransition, OnShutdown
<1> USE DEF endpoints, fields, clients
<1>0. FlagsOK'
    BY DEF TypeOK, FlagsOK
<1>1. CASE \E t \in Transitions : BeginTransition(t)
    <2>1. PICK t \in Transitions : BeginTransition(t)
        BY <1>1
    <2>2. TypeOK' /\ MachineInv'
        <3>1. Via(t) \in States
            BY DEF States
        <3> QED
            BY <1>0, <2>1, <3>1 DEF BeginTransition, TypeOK, MachineInv, Transitions
    <2>3. NodeInv'
        BY <2>1 DEF BeginTransition, MachineInv, NodeInv, Transitions, From, Via,
                    Empty, Loaded, Closed, Open
    <2> QED
        BY <2>2, <2>3 DEF RequestInv, CountIsSuccesses, StatusIsCurrent, Accepted
<1>2. CASE EndTransition
    <2>1. TypeOK' /\ MachineInv'
        BY <1>0, <1>2 DEF EndTransition, TypeOK, MachineInv, States, PrimaryStates, Goal, Transitions
    <2>2. NodeInv'
        BY <1>2 DEF EndTransition, TypeOK, MachineInv, NodeInv, Transitions, Goal, Via,
                    Empty, Loaded, Closed, Open
    <2> QED
        BY <2>1, <2>2 DEF RequestInv, CountIsSuccesses, StatusIsCurrent, Accepted
<1>3. CASE OnShutdown
    <2>1. TypeOK' /\ MachineInv'
        BY <1>0, <1>3 DEF OnShutdown, TypeOK, MachineInv
    <2>2. NodeInv'
        BY <1>3 DEF OnShutdown, MachineInv, NodeInv, Via, Empty, Loaded, Closed, Open
    <2> QED
        BY <2>1, <2>2 DEF RequestInv, CountIsSuccesses, StatusIsCurrent, Accepted
<1> QED
    BY <1>1, <1>2, <1>3

(* The callbacks that load, open, close and release. *)
LEMMA CallbackSteps ==
    ASSUME IInv, ConfigureLoads \/ ConfigureFails \/ OnActivate \/ OnDeactivate \/ OnCleanup
    PROVE  IInv'
<1> USE DEF IInv
<1> USE MaxLoadsAssumption, RequestsAssumption
<1>1. CASE ConfigureLoads
    <2> USE <1>1 DEF ConfigureLoads, Callback, clients
    <2>0. FlagsOK'
        BY DEF TypeOK, FlagsOK
    <2>1. TypeOK' /\ MachineInv'
        BY <2>0 DEF TypeOK, MachineInv
    <2>2. NodeInv'
        BY DEF TypeOK, MachineInv, NodeInv, Via, Empty, Loaded, Closed, Open
    <2>3. RequestInv'
        BY DEF TypeOK, RequestInv
    <2>4. CountIsSuccesses'
        <3>1. \A r \in Requests : served_by[r] # loads + 1
            BY DEF RequestInv, TypeOK
        <3>2. {r \in Accepted : served_by[r] = loads + 1} = {}
            BY <3>1 DEF Accepted
        <3>3. {r \in Accepted' : served_by'[r] = model_facade'} = {}
            BY <3>2 DEF Accepted
        <3> QED
            BY <3>3, FS_EmptySet DEF CountIsSuccesses
    <2>5. StatusIsCurrent'
        BY DEF StatusIsCurrent
    <2> QED
        BY <2>1, <2>2, <2>3, <2>4, <2>5
<1>2. CASE ConfigureFails
    <2> USE <1>2 DEF ConfigureFails, Callback, ServiceDestroyed
    <2>0. FlagsOK'
        BY DEF TypeOK, FlagsOK
    <2>1. TypeOK' /\ MachineInv' /\ RequestInv'
        BY <2>0 DEF TypeOK, MachineInv, RequestInv
    <2>2. NodeInv'
        BY DEF TypeOK, MachineInv, NodeInv, Via, Empty, Loaded, Closed, Open
    <2> QED
        BY <2>1, <2>2 DEF CountIsSuccesses, StatusIsCurrent
<1>3. CASE OnActivate
    <2> USE <1>3 DEF OnActivate, Callback, PublishStatusLocked, clients
    <2>0. FlagsOK'
        BY DEF TypeOK, FlagsOK
    <2>1. Closed
        BY DEF MachineInv, NodeInv, Via
    <2> USE <2>1 DEF Closed, Loaded
    <2>2. TypeOK' /\ MachineInv' /\ RequestInv'
        <3>1. status' \in [state : States \cup {"none"}, loaded : BOOLEAN, count : Nat,
                          error : BOOLEAN, load : 0..MaxLoads]
            <4>1. status' = [state |-> "active", loaded |-> model_loaded, count |-> inference_count,
                             error |-> last_error', load |-> model_facade]
                OBVIOUS
            <4>2. model_loaded \in BOOLEAN /\ last_error' \in BOOLEAN
                BY <2>0 DEF TypeOK, FlagsOK
            <4>3. inference_count \in Nat /\ model_facade \in 0..MaxLoads
                BY DEF TypeOK
            <4> QED
                BY <4>1, <4>2, <4>3 DEF States, PrimaryStates
        <3> QED
            BY <2>0, <3>1 DEF TypeOK, MachineInv, RequestInv
    <2>3. NodeInv'
        BY DEF MachineInv, NodeInv, Via, Open
    <2>4. CountIsSuccesses'
        BY DEF CountIsSuccesses, Accepted
    <2>5. StatusIsCurrent'
        BY DEF StatusIsCurrent
    <2> QED
        BY <2>2, <2>3, <2>4, <2>5
<1>4. CASE OnDeactivate
    <2> USE <1>4 DEF OnDeactivate, Callback, clients
    <2>0. FlagsOK'
        BY DEF TypeOK, FlagsOK
    <2>1. TypeOK' /\ MachineInv' /\ RequestInv'
        BY <2>0 DEF TypeOK, MachineInv, RequestInv
    <2>2. NodeInv'
        BY DEF MachineInv, NodeInv, Via, Empty, Loaded, Closed, Open
    <2> QED
        BY <2>1, <2>2 DEF CountIsSuccesses, StatusIsCurrent, Accepted
<1>5. CASE OnCleanup
    <2> USE <1>5 DEF OnCleanup, Callback, ServiceDestroyed
    <2>0. FlagsOK'
        BY DEF TypeOK, FlagsOK
    <2>1. TypeOK' /\ MachineInv' /\ RequestInv'
        BY <2>0 DEF TypeOK, MachineInv, RequestInv
    <2>2. NodeInv'
        BY DEF TypeOK, MachineInv, NodeInv, Via, Empty, Loaded, Closed, Open
    <2> QED
        BY <2>1, <2>2 DEF CountIsSuccesses, StatusIsCurrent
<1> QED
    BY <1>1, <1>2, <1>3, <1>4, <1>5

(* Sending, taking and locking change only the request and the mutex. *)
LEMMA QueueSteps ==
    ASSUME IInv, NEW r \in Requests, Send(r) \/ Take(r) \/ Lock(r)
    PROVE  IInv'
<1> USE RequestsAssumption DEF IInv
<1> UNCHANGED <<lifecycle, endpoints, fields, status, served_by, loads>>
    BY DEF Send, Take, Lock
<1> USE DEF lifecycle, endpoints, fields
<1> USE DEF Send, Take, Lock
<1>0. FlagsOK'
    BY DEF TypeOK, FlagsOK
<1>1. TypeOK' /\ MachineInv' /\ NodeInv' /\ RequestInv'
    BY <1>0 DEF TypeOK, MachineInv, NodeInv, RequestInv, Empty, Loaded, Closed, Open
<1>2. Accepted' = Accepted
    BY DEF TypeOK, Accepted
<1>3. CountIsSuccesses' /\ StatusIsCurrent'
    BY <1>2 DEF CountIsSuccesses, StatusIsCurrent, RequestInv
<1> QED
    BY <1>1, <1>3

(* A handler's end: the mutex is free and everything but its request, the    *)
(* counter, the error and the status is as it was.                           *)
LEMMA AnswerSteps ==
    ASSUME IInv, NEW r \in Requests, InferSucceeds(r) \/ InferFails(r)
    PROVE  IInv'
<1> USE RequestsAssumption DEF IInv
<1>1. PICK answer \in Answers : Answer(r, answer) /\ (InferSucceeds(r) <=> answer = "ok")
    BY DEF InferSucceeds, InferFails, Answer, Answers, TypeOK
<1> USE <1>1 DEF Answer, lifecycle, endpoints
<1>2. PublishStatusLocked(machine)
    BY DEF InferSucceeds, InferFails
<1>3. inference_count' = IF answer = "ok" THEN inference_count + 1 ELSE inference_count
    BY DEF InferSucceeds, InferFails, Answers
<1>4. FlagsOK'
    BY DEF TypeOK, FlagsOK
<1>5. TypeOK'
    <2>1. status' \in [state : States \cup {"none"}, loaded : BOOLEAN, count : Nat,
                      error : BOOLEAN, load : 0..MaxLoads]
        BY <1>2, <1>3, <1>4 DEF TypeOK, FlagsOK, PublishStatusLocked
    <2>2. request' \in [Requests -> {"unsent", "queued", "taken", "running", "lost"} \cup Answers]
        BY DEF TypeOK
    <2>3. served_by' \in [Requests -> 0..MaxLoads]
        BY MaxLoadsAssumption DEF TypeOK
    <2> QED
        BY <1>3, <1>4, <2>1, <2>2, <2>3 DEF TypeOK
<1>10. MachineInv' /\ NodeInv'
    BY DEF MachineInv, NodeInv, Empty, Loaded, Closed, Open
<1>6. model_facade <= loads /\ (model_facade # 0 => model_facade = loads)
    BY DEF NodeInv, Empty, Loaded, Closed, Open, TypeOK
<1>7. RequestInv'
    BY <1>6 DEF RequestInv, TypeOK, Answers
<1>8. CountIsSuccesses'
    <2> DEFINE Served == {q \in Accepted : served_by[q] = model_facade}
    <2>1. request[r] = "running" /\ r \notin Served /\ IsFiniteSet(Served)
        BY FS_Subset DEF RequestInv, Accepted
    <2>2. CASE answer = "ok"
        <3>1. model_facade # 0
            BY <1>1, <2>2 DEF InferSucceeds, Gate
        <3>2. Served' = Served \cup {r}
            BY <2>2 DEF TypeOK, Accepted
        <3>3. Cardinality(Served') = Cardinality(Served) + 1
            BY <2>1, <3>2, FS_AddElement
        <3> QED
            BY <1>3, <2>2, <3>1, <3>3 DEF CountIsSuccesses
    <2>3. CASE answer = "failed"
        <3>1. Served' = Served
            BY <2>1, <2>3 DEF TypeOK, Accepted
        <3> QED
            BY <1>3, <2>3, <3>1 DEF CountIsSuccesses
    <2> QED
        BY <2>2, <2>3 DEF Answers
<1>9. StatusIsCurrent'
    BY <1>2 DEF StatusIsCurrent, PublishStatusLocked, NodeInv, Empty, Loaded, Closed, Open
<1> QED
    BY <1>5, <1>7, <1>8, <1>9, <1>10

(* Every step keeps the invariant. *)
LEMMA IInvStep == IInv /\ [Next]_vars => IInv'
<1> SUFFICES ASSUME IInv, [Next]_vars PROVE IInv'
    OBVIOUS
<1>1. CASE \E t \in Transitions : BeginTransition(t)
    BY <1>1, MachineSteps
<1>2. CASE NodeCallback
    BY <1>2, MachineSteps, CallbackSteps DEF NodeCallback
<1>3. CASE EndTransition
    BY <1>3, MachineSteps
<1>4. CASE \E r \in Requests : Send(r) \/ Take(r) \/ HandleInference(r)
    BY <1>4, QueueSteps, AnswerSteps DEF HandleInference
<1>5. CASE UNCHANGED vars
    BY <1>5 DEF vars, lifecycle, endpoints, fields, clients, IInv, TypeOK, FlagsOK, MachineInv, NodeInv,
                RequestInv, CountIsSuccesses, StatusIsCurrent, Accepted, Empty, Loaded, Closed, Open
<1> QED
    BY <1>1, <1>2, <1>3, <1>4, <1>5 DEF Next

(* The invariant holds in every state the node can reach. *)
THEOREM Invariance == Spec => []IInv
BY InitIInv, IInvStep, PTL DEF Spec

(* Every field of the node, its requests and its status keeps its type. *)
THEOREM TypeCorrect == Spec => []TypeOK
<1>1. IInv => TypeOK
    BY DEF IInv
<1> QED
    BY <1>1, Invariance, PTL

(* In a primary state the gate, the publisher, the service and the facade    *)
(* are what that state promises.                                             *)
THEOREM GateIsTheLifecycleState == Spec => []GateFollowsLifecycle
<1>1. IInv => GateFollowsLifecycle
    BY DEF IInv, NodeInv, GateFollowsLifecycle, Empty, Loaded, Closed, Open
<1> QED
    BY <1>1, Invariance, PTL

(* inference_count is the number of requests the loaded model has answered,  *)
(* also when requests outlive the load they were sent to.                    *)
THEOREM CountIsExact == Spec => []CountIsSuccesses
<1>1. IInv => CountIsSuccesses
    BY DEF IInv
<1> QED
    BY <1>1, Invariance, PTL

(* The last status published tells the current load, count and error. *)
THEOREM StatusIsUpToDate == Spec => []StatusIsCurrent
<1>1. IInv => StatusIsCurrent
    BY DEF IInv
<1> QED
    BY <1>1, Invariance, PTL

(* While the node is inactive, unconfigured or on the way between the two,   *)
(* no request succeeds and no status is published.                           *)
THEOREM InactiveIsQuiet == Spec => InactiveNodeIsQuiet
<1>1. ASSUME IInv, [Next]_vars, machine \in Quiet
      PROVE  status' = status /\ Accepted' \subseteq Accepted
    <2> USE <1>1 DEF Accepted
    <2>1. ~accepting_requests /\ status_publisher # "active"
        BY DEF IInv, NodeInv, Quiet, Empty, Closed, Open
    <2>2. transition # "activate"
        BY DEF IInv, MachineInv, Quiet, Via
    <2>3. CASE \E t \in Transitions : BeginTransition(t)
        BY <2>3 DEF BeginTransition, clients
    <2>4. CASE NodeCallback
        <3>1. ~OnActivate
            BY <2>2 DEF OnActivate, Callback
        <3> QED
            BY <2>4, <3>1 DEF NodeCallback, ConfigureLoads, ConfigureFails, OnDeactivate, OnCleanup,
                              OnShutdown, ServiceDestroyed, clients, IInv, TypeOK
    <2>5. CASE EndTransition
        BY <2>5 DEF EndTransition, clients
    <2>6. CASE \E r \in Requests : Send(r) \/ Take(r) \/ Lock(r)
        BY <2>6 DEF Send, Take, Lock, IInv, TypeOK
    <2>7. CASE \E r \in Requests : InferFails(r)
        BY <2>1, <2>7 DEF InferFails, Answer, PublishStatusLocked, endpoints, IInv, TypeOK
    <2>8. CASE UNCHANGED vars
        BY <2>8 DEF vars, clients
    <2>9. \A r \in Requests : ~InferSucceeds(r)
        BY <2>1 DEF InferSucceeds, Gate
    <2> QED
        BY <2>3, <2>4, <2>5, <2>6, <2>7, <2>8, <2>9 DEF Next, HandleInference
<1> QED
    BY <1>1, Invariance, PTL DEF Spec, InactiveNodeIsQuiet

(* With transitions and requests in one callback group no request is being   *)
(* served during a transition: the condition that makes the name right.      *)
ServedBetweenTransitions == transition # "none" => ~ExecutorBusy

SerialInv == ServedBetweenTransitions /\ StatusNamesPrimaryState

(* In the deployed node, whose transitions and requests share one callback   *)
(* group, no status names a transition state.                                *)
THEOREM StatusNamesAreFinal ==
    ASSUME Serialized
    PROVE  Spec => []StatusNamesPrimaryState
<1>1. Init => SerialInv
    BY DEF Init, SerialInv, ServedBetweenTransitions, StatusNamesPrimaryState, NoStatus
<1>2. IInv /\ SerialInv /\ [Next]_vars => SerialInv'
    <2> SUFFICES ASSUME IInv, SerialInv, [Next]_vars
                 PROVE  SerialInv'
        OBVIOUS
    <2> USE DEF SerialInv, ServedBetweenTransitions, StatusNamesPrimaryState
    <2>1. CASE \E t \in Transitions : BeginTransition(t)
        BY <2>1, Serialized DEF BeginTransition, ExecutorBusy, clients
    <2>2. CASE EndTransition
        BY <2>2 DEF EndTransition
    <2>3. CASE ConfigureLoads \/ OnDeactivate \/ OnShutdown
        BY <2>3 DEF ConfigureLoads, OnDeactivate, OnShutdown, Callback, ExecutorBusy, clients
    <2>4. CASE ConfigureFails \/ OnCleanup
        BY <2>4 DEF ConfigureFails, OnCleanup, Callback, ExecutorBusy, ServiceDestroyed, IInv, TypeOK
    <2>5. CASE OnActivate
        BY <2>5 DEF OnActivate, Callback, PublishStatusLocked, ExecutorBusy, clients, PrimaryStates
    <2>6. ASSUME NEW r \in Requests, Send(r)
          PROVE  SerialInv'
        BY <2>6 DEF Send, ExecutorBusy, lifecycle, IInv, TypeOK
    <2>7. ASSUME NEW r \in Requests, Take(r)
          PROVE  SerialInv'
        BY <2>7, Serialized DEF Take, lifecycle
    <2>8. ASSUME NEW r \in Requests, HandleInference(r)
          PROVE  SerialInv'
        <3>1. request[r] \in {"taken", "running"}
            BY <2>8 DEF HandleInference, Lock, InferSucceeds, InferFails, Answer, IInv, RequestInv
        <3>2. transition = "none" /\ machine \in PrimaryStates
            BY <3>1 DEF ExecutorBusy, IInv, MachineInv
        <3>3. UNCHANGED lifecycle
            BY <2>8 DEF HandleInference, Lock, InferSucceeds, InferFails, Answer
        <3>4. status' = status \/ status'.state = machine
            BY <2>8 DEF HandleInference, Lock, InferSucceeds, InferFails, Answer, PublishStatusLocked
        <3> QED
            BY <3>2, <3>3, <3>4 DEF lifecycle
    <2>9. CASE UNCHANGED vars
        BY <2>9 DEF vars, lifecycle, clients, ExecutorBusy
    <2> QED
        BY <2>1, <2>2, <2>3, <2>4, <2>5, <2>6, <2>7, <2>8, <2>9 DEF Next, NodeCallback
<1>3. SerialInv => StatusNamesPrimaryState
    BY DEF SerialInv
<1> QED
    BY <1>1, <1>2, <1>3, Invariance, PTL DEF Spec

=============================================================================
