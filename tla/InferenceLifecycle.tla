-------------------------- MODULE InferenceLifecycle --------------------------
(***************************************************************************)
(* The ROS 2 bridge CInferenceLifecycleNode: the lifecycle callbacks that  *)
(* load the model, open the gate and release everything, and the service   *)
(* callback that runs one request, all under inference_mutex_.             *)
(*                                                                         *)
(* The lifecycle state machine, the executor and the client are rclcpp's   *)
(* and are modelled as this node uses them.  The state machine is not      *)
(* under the node's mutex: it enters a transition state before the         *)
(* callback runs and its goal state after the callback has returned.       *)
(***************************************************************************)
EXTENDS Naturals, FiniteSets

CONSTANTS Requests,   \* service requests that clients may send, each once
          Serialized, \* TRUE: transitions arrive through the node's own services, in the
                      \* same callback group as inference; FALSE: another thread calls
                      \* configure(), activate(), ... on the node
          MaxLoads    \* bound of the model: successful configurations

ASSUME RequestsAssumption == IsFiniteSet(Requests) /\ "free" \notin Requests
ASSUME SerializedAssumption == Serialized \in BOOLEAN
ASSUME MaxLoadsAssumption == MaxLoads \in Nat

VARIABLES
    machine,        \* state of the lifecycle state machine
    transition,     \* the transition in progress, or "none"
    result,         \* what its callback returned, or "none"
    mutex,          \* "free", or the request whose handler holds inference_mutex_
    model_facade,   \* 0, or which load the facade holds
    status_publisher, \* "absent", "inactive" or "active"
    inference_service,
    accepting_requests,
    model_loaded,
    inference_count,
    last_error,     \* whether last_error_ is set
    status,         \* the last status message published
    request,        \* per request: where it is
    served_by,      \* per request: the load that answered it, or 0
    loads           \* successful configurations so far

lifecycle == <<machine, transition, result>>
endpoints == <<model_facade, status_publisher, inference_service>>
fields    == <<accepting_requests, model_loaded, inference_count, last_error>>
clients   == <<request, served_by>>
vars == <<lifecycle, mutex, endpoints, fields, status, clients, loads>>

-----------------------------------------------------------------------------
(* rclcpp_lifecycle's state machine, for the transitions a caller may start. *)
Transitions == {"configure", "activate", "deactivate", "cleanup", "shutdown"}

From(t) ==
    CASE t = "configure"  -> {"unconfigured"}
      [] t = "activate"   -> {"inactive"}
      [] t = "deactivate" -> {"active"}
      [] t = "cleanup"    -> {"inactive"}
      [] t = "shutdown"   -> {"unconfigured", "inactive", "active"}

Via(t) ==
    CASE t = "configure"  -> "configuring"
      [] t = "activate"   -> "activating"
      [] t = "deactivate" -> "deactivating"
      [] t = "cleanup"    -> "cleaningup"
      [] t = "shutdown"   -> "shuttingdown"

(* Where a transition ends; a failed one goes back to where it came from. *)
Goal(t, succeeded) ==
    CASE t = "configure"  -> IF succeeded THEN "inactive" ELSE "unconfigured"
      [] t = "activate"   -> IF succeeded THEN "active" ELSE "inactive"
      [] t = "deactivate" -> "inactive"
      [] t = "cleanup"    -> "unconfigured"
      [] t = "shutdown"   -> "finalized"

PrimaryStates == {"unconfigured", "inactive", "active", "finalized"}
States == PrimaryStates \cup {Via(t) : t \in Transitions}

NoStatus == [state |-> "none", loaded |-> FALSE, count |-> 0, error |-> FALSE, load |-> 0]

Answers == {"ok", "failed"}

(* The executor runs one request at a time. *)
ExecutorBusy == \E r \in Requests : request[r] \in {"taken", "running"}

-----------------------------------------------------------------------------
Init ==
    /\ machine = "unconfigured"
    /\ transition = "none"
    /\ result = "none"
    /\ mutex = "free"
    /\ model_facade = 0
    /\ status_publisher = "absent"
    /\ inference_service = FALSE
    /\ accepting_requests = FALSE
    /\ model_loaded = FALSE
    /\ inference_count = 0
    /\ last_error = FALSE
    /\ status = NoStatus
    /\ request = [r \in Requests |-> "unsent"]
    /\ served_by = [r \in Requests |-> 0]
    /\ loads = 0

-----------------------------------------------------------------------------
(* Mutant of BeginTransition: the transition services in a callback group of *)
(* their own, on an executor with several threads.                           *)
BeginTransitionInItsOwnGroup(t) ==
    /\ transition = "none"
    /\ machine \in From(t)
    /\ machine' = Via(t)
    /\ transition' = t
    /\ UNCHANGED <<result, mutex, endpoints, fields, status, clients, loads>>

BeginTransition(t) ==
    /\ transition = "none"
    /\ machine \in From(t)
    /\ Serialized => ~ExecutorBusy
    /\ machine' = Via(t)
    /\ transition' = t
    /\ UNCHANGED <<result, mutex, endpoints, fields, status, clients, loads>>

EndTransition ==
    /\ transition # "none"
    /\ result # "none"
    /\ machine' = Goal(transition, result = "success")
    /\ transition' = "none"
    /\ result' = "none"
    /\ UNCHANGED <<mutex, endpoints, fields, status, clients, loads>>

(* A callback of the node runs while it holds the mutex; nothing else the    *)
(* mutex protects can change meanwhile, so it is one step.                   *)
Callback(t, returned) ==
    /\ transition = t
    /\ result = "none"
    /\ mutex = "free"
    /\ result' = returned
    /\ UNCHANGED <<machine, transition, mutex>>

(* Destroying the service loses the requests no executor has taken. *)
ServiceDestroyed ==
    /\ inference_service' = FALSE
    /\ request' = [r \in Requests |-> IF request[r] = "queued" THEN "lost" ELSE request[r]]
    /\ UNCHANGED served_by

(* PublishStatusLocked: the current fields, under the given state name. *)
PublishStatusLocked(name) ==
    status' = IF status_publisher' = "active"
              THEN [state |-> name, loaded |-> model_loaded', count |-> inference_count',
                    error |-> last_error', load |-> model_facade']
              ELSE status

ConfigureLoads ==
    /\ Callback("configure", "success")
    /\ loads < MaxLoads
    /\ loads' = loads + 1
    /\ model_facade' = loads + 1
    /\ status_publisher' = "inactive"
    /\ inference_service' = TRUE
    /\ accepting_requests' = FALSE
    /\ model_loaded' = TRUE
    /\ inference_count' = 0
    /\ last_error' = FALSE
    /\ UNCHANGED <<status, clients>>

(* No manifest, an invalid one, or an endpoint that cannot be created. *)
ConfigureFails ==
    /\ Callback("configure", "failure")
    /\ model_facade' = 0
    /\ status_publisher' = "absent"
    /\ ServiceDestroyed
    /\ accepting_requests' = FALSE
    /\ model_loaded' = FALSE
    /\ inference_count' = 0
    /\ last_error' = TRUE
    /\ UNCHANGED <<status, loads>>

OnActivate ==
    LET ready == model_facade # 0 /\ status_publisher # "absent"
    IN  /\ Callback("activate", IF ready THEN "success" ELSE "failure")
        /\ last_error' = ~ready
        /\ accepting_requests' = IF ready THEN TRUE ELSE accepting_requests
        /\ status_publisher' = IF ready THEN "active" ELSE status_publisher
        /\ UNCHANGED <<model_facade, inference_service, model_loaded, inference_count, clients, loads>>
        /\ IF ready THEN PublishStatusLocked("active") ELSE UNCHANGED status

(* Mutant of OnDeactivate: the gate stays open. *)
OnDeactivateLeavingGate ==
    /\ Callback("deactivate", "success")
    /\ status_publisher' = IF status_publisher = "absent" THEN "absent" ELSE "inactive"
    /\ UNCHANGED <<model_facade, inference_service, fields, status, clients, loads>>

OnDeactivate ==
    /\ Callback("deactivate", "success")
    /\ accepting_requests' = FALSE
    /\ status_publisher' = IF status_publisher = "absent" THEN "absent" ELSE "inactive"
    /\ UNCHANGED <<model_facade, inference_service, model_loaded, inference_count, last_error,
                   status, clients, loads>>

OnCleanup ==
    /\ Callback("cleanup", "success")
    /\ model_facade' = 0
    /\ status_publisher' = "absent"
    /\ ServiceDestroyed
    /\ accepting_requests' = FALSE
    /\ model_loaded' = FALSE
    /\ inference_count' = 0
    /\ last_error' = FALSE
    /\ UNCHANGED <<status, loads>>

(* The node overrides no on_shutdown: the inherited one takes no lock, does  *)
(* nothing and succeeds.                                                     *)
OnShutdown ==
    /\ transition = "shutdown"
    /\ result = "none"
    /\ result' = "success"
    /\ UNCHANGED <<machine, transition, mutex, endpoints, fields, status, clients, loads>>

-----------------------------------------------------------------------------
Send(r) ==
    /\ request[r] = "unsent"
    /\ inference_service
    /\ request' = [request EXCEPT ![r] = "queued"]
    /\ UNCHANGED <<lifecycle, mutex, endpoints, fields, status, served_by, loads>>

Take(r) ==
    /\ request[r] = "queued"
    /\ ~ExecutorBusy
    /\ Serialized => transition = "none"
    /\ request' = [request EXCEPT ![r] = "taken"]
    /\ UNCHANGED <<lifecycle, mutex, endpoints, fields, status, served_by, loads>>

(* HandleInference takes the mutex ... *)
Lock(r) ==
    /\ request[r] = "taken"
    /\ mutex = "free"
    /\ mutex' = r
    /\ request' = [request EXCEPT ![r] = "running"]
    /\ UNCHANGED <<lifecycle, endpoints, fields, status, served_by, loads>>

(* The gate of HandleInference, and a mutant that takes a loaded model for   *)
(* an active node.                                                           *)
GateUnchecked == model_facade # 0
Gate == accepting_requests /\ model_facade # 0

(* What every way through HandleInference ends with: the answer, the status  *)
(* under the state the machine has by then, and the release of the mutex.    *)
Answer(r, answer) ==
    /\ mutex = r
    /\ mutex' = "free"
    /\ request' = [request EXCEPT ![r] = answer]
    /\ served_by' = [served_by EXCEPT ![r] = IF answer = "ok" THEN model_facade ELSE 0]
    /\ last_error' = (answer = "failed")
    /\ UNCHANGED <<lifecycle, endpoints, accepting_requests, model_loaded, loads>>

(* ... and, still holding it, either runs the model on valid tensors ... *)
InferSucceeds(r) ==
    /\ Gate
    /\ Answer(r, "ok")
    /\ inference_count' = inference_count + 1
    /\ PublishStatusLocked(machine)

(* Mutants of InferFails: the catch block counts the request; returns before *)
(* the status; keeps the lock; drops the request when the gate is closed.    *)
InferFailsCounted(r) ==
    Answer(r, "failed") /\ inference_count' = inference_count + 1 /\ PublishStatusLocked(machine)
InferFailsUnpublished(r) ==
    Answer(r, "failed") /\ UNCHANGED <<inference_count, status>>
InferFailsHoldingMutex(r) ==
    /\ mutex = r
    /\ request' = [request EXCEPT ![r] = "failed"]
    /\ last_error' = TRUE
    /\ UNCHANGED <<lifecycle, mutex, endpoints, accepting_requests, model_loaded, inference_count,
                   served_by, loads>>
    /\ PublishStatusLocked(machine)
InferFailsDropping(r) ==
    /\ Answer(r, IF Gate THEN "failed" ELSE "running")
    /\ UNCHANGED inference_count
    /\ PublishStatusLocked(machine)

(* ... or, with the gate closed, a tensor it cannot convert or a run that    *)
(* throws, reports the failure.                                              *)
InferFails(r) ==
    /\ Answer(r, "failed")
    /\ UNCHANGED inference_count
    /\ PublishStatusLocked(machine)

HandleInference(r) == Lock(r) \/ InferSucceeds(r) \/ InferFails(r)

-----------------------------------------------------------------------------
NodeCallback == ConfigureLoads \/ ConfigureFails \/ OnActivate \/ OnDeactivate \/ OnCleanup \/ OnShutdown

Next ==
    \/ \E t \in Transitions : BeginTransition(t)
    \/ NodeCallback
    \/ EndTransition
    \/ \E r \in Requests : Send(r) \/ Take(r) \/ HandleInference(r)

(* A transition that began runs its callback and ends; the mutex starves no  *)
(* waiter; an inference call returns; and the executor, which serves every   *)
(* ready callback of a wait set in turn, does not pass over a request.       *)
Fairness ==
    /\ SF_vars(NodeCallback)
    /\ WF_vars(EndTransition)
    /\ \A r \in Requests :
           /\ SF_vars(Take(r))
           /\ SF_vars(Lock(r))
           /\ WF_vars(InferSucceeds(r) \/ InferFails(r))

Spec == Init /\ [][Next]_vars /\ Fairness

-----------------------------------------------------------------------------
(* The requests that succeeded, and the states in which none may. *)
Accepted == {r \in Requests : request[r] = "ok"}
Quiet == {"unconfigured", "configuring", "inactive", "cleaningup"}

FlagsOK ==
    /\ inference_service \in BOOLEAN
    /\ accepting_requests \in BOOLEAN
    /\ model_loaded \in BOOLEAN
    /\ last_error \in BOOLEAN

(* Type correctness of the node, its state machine and its requests. *)
TypeOK ==
    /\ machine \in States
    /\ transition \in Transitions \cup {"none"}
    /\ result \in {"none", "success", "failure"}
    /\ mutex \in Requests \cup {"free"}
    /\ model_facade \in 0..MaxLoads
    /\ status_publisher \in {"absent", "inactive", "active"}
    /\ FlagsOK
    /\ inference_count \in Nat
    /\ status \in [state : States \cup {"none"}, loaded : BOOLEAN, count : Nat, error : BOOLEAN,
                   load : 0..MaxLoads]
    /\ request \in [Requests -> {"unsent", "queued", "taken", "running", "lost"} \cup Answers]
    /\ served_by \in [Requests -> 0..MaxLoads]
    /\ loads \in 0..MaxLoads

(* on_activate, on_deactivate and on_cleanup: in a primary state the gate,   *)
(* the publisher and the facade are what that state promises; an open gate   *)
(* always has a facade, a service and an active publisher behind it.         *)
GateFollowsLifecycle ==
    /\ machine = "active" => accepting_requests
    /\ machine \in {"unconfigured", "inactive"} => ~accepting_requests /\ status_publisher # "active"
    /\ machine \in {"inactive", "active"} => model_facade # 0 /\ inference_service /\ model_loaded
    /\ machine = "unconfigured" => model_facade = 0 /\ ~inference_service /\ ~model_loaded
    /\ accepting_requests => model_facade # 0 /\ status_publisher = "active" /\ inference_service

(* HandleInference and doc/ros2_overlay.md ("inference_count increments only *)
(* after successful inference"): the counter is the number of requests the   *)
(* model now loaded has answered, whatever other models answered before.     *)
CountIsSuccesses ==
    inference_count =
        IF model_facade = 0 THEN 0
        ELSE Cardinality({r \in Accepted : served_by[r] = model_facade})

(* PublishStatusLocked: while the status publisher is active and no handler  *)
(* is at work, the last message published tells the current load, count and  *)
(* error.                                                                    *)
StatusIsCurrent ==
    status_publisher = "active" /\ mutex = "free" =>
        /\ status.load = model_facade
        /\ status.loaded
        /\ status.count = inference_count
        /\ status.error = last_error

(* on_deactivate and doc/ros2_overlay.md ("Inactive requests return          *)
(* success=false"): from the moment the node is inactive or unconfigured, no *)
(* request succeeds and no status is published, not even for a request that  *)
(* was waiting or running when the transition began.                         *)
InactiveNodeIsQuiet ==
    [][(machine \in Quiet => status' = status /\ Accepted' \subseteq Accepted)]_vars

(* CInferenceLifecycleNode.h ("Inference is accepted only while active"): a  *)
(* request succeeds only in a step taken in the active state.                *)
AcceptedOnlyWhileActive ==
    [][machine # "active" => Accepted' \subseteq Accepted]_vars

(* ptafdeploy_node_main.cpp, one thread spinning: a request finds the node   *)
(* in the state it was taken in, never in the middle of a transition, so no  *)
(* status names a transition state.                                          *)
StatusNamesPrimaryState == status.state \in PrimaryStates \cup {"none"}

(* What each state of the machine says of the node, on the way to and from   *)
(* the primary states too: the inductive invariant behind the properties.    *)
Empty  == model_facade = 0 /\ ~inference_service /\ ~model_loaded /\ status_publisher = "absent"
Loaded == model_facade # 0 /\ model_facade = loads /\ inference_service /\ model_loaded
Closed == Loaded /\ ~accepting_requests /\ status_publisher = "inactive"
Open   == Loaded /\ accepting_requests /\ status_publisher = "active"

MachineInv ==
    /\ transition = "none" => machine \in PrimaryStates /\ result = "none"
    /\ transition # "none" => machine = Via(transition)

NodeInv ==
    /\ (Empty /\ ~accepting_requests) \/ Closed \/ Open
    /\ machine = "unconfigured" => Empty
    /\ machine = "configuring" => IF result = "success" THEN Closed ELSE Empty
    /\ machine = "inactive" => Closed
    /\ machine = "activating" => IF result = "none" THEN Closed ELSE Open /\ result = "success"
    /\ machine = "active" => Open
    /\ machine = "deactivating" => IF result = "none" THEN Open ELSE Closed
    /\ machine = "cleaningup" => IF result = "none" THEN Closed ELSE Empty

RequestInv ==
    /\ \A r \in Requests : (mutex = r) = (request[r] = "running")
    /\ \A r \in Requests : served_by[r] <= loads

IInv == TypeOK /\ MachineInv /\ NodeInv /\ RequestInv /\ CountIsSuccesses /\ StatusIsCurrent

(* A request the service received is answered, unless the service was        *)
(* destroyed before an executor took it.                                     *)
RequestsAreAnswered ==
    \A r \in Requests : request[r] = "queued" ~> request[r] \in Answers \cup {"lost"}

(* No inference call keeps a transition from ending. *)
TransitionsEnd == transition # "none" ~> transition = "none"

=============================================================================
