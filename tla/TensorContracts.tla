--------------------------- MODULE TensorContracts ---------------------------
(***************************************************************************)
(* The arithmetic and the checks on tensor descriptors that stand between a   *)
(* caller and a backend (inference_common.h, inference_tensor_parsing.cpp).   *)
(* size_t is 0 .. SizeMax; a product that does not fit is Overflow, the       *)
(* std::overflow_error. A descriptor is a name, an element type and a shape    *)
(* whose negative dimensions are dynamic; all memory is on the host.          *)
(***************************************************************************)
EXTENDS Integers, Sequences, SequencesExt

CONSTANTS SizeMax,      \* largest size_t, 2^w - 1
          FloatSize,    \* sizeof(float)
          Overflow,     \* std::overflow_error
          Missing       \* nullptr or std::nullopt

ASSUME SizeAssumption ==
  /\ SizeMax \in Nat
  /\ FloatSize \in 1 .. SizeMax
  /\ Overflow \notin Int

\* The product of the dimensions, of any size.
TrueCount(shape) == FoldLeft(LAMBDA a, b : a * b, 1, shape)

\* What size_t keeps of a number.
Wrapped(n) == n % (SizeMax + 1)

\* A bug the properties must notice: no test before the product.
CheckedMultiplyWrapping(lhs, rhs) == Wrapped(lhs * rhs)

CheckedMultiply(lhs, rhs) ==
  IF rhs # 0 /\ lhs > SizeMax \div rhs THEN Overflow ELSE Wrapped(lhs * rhs)

\* For shapes without dynamic dimensions.
ComputeElementCount(shape) ==
  LET Multiply(count, dimension) ==
        IF count = Overflow THEN Overflow ELSE CheckedMultiply(count, dimension)
  IN  FoldLeft(Multiply, 1, shape)

ComputeByteCount(shape) ==
  LET count == ComputeElementCount(shape)
  IN  IF count = Overflow THEN Overflow ELSE CheckedMultiply(count, FloatSize)

IsShapeCompatible(expected_shape, actual_shape) ==
  /\ Len(expected_shape) = Len(actual_shape)
  /\ \A k \in DOMAIN expected_shape :
       expected_shape[k] >= 0 => expected_shape[k] = actual_shape[k]

\* A view: name, dtype, shape, bytes, and what its data come from.
ValidHostTensorView(expected, view) ==
  /\ view.dtype = expected.dtype
  /\ IsShapeCompatible(expected.shape, view.shape)
  /\ view.bytes = ComputeByteCount(view.shape)

Names(tensors) == {tensors[k].name : k \in DOMAIN tensors}

\* Views are matched by name when they have names, by position when none has.
CanOrderInputViews(expected_inputs, provided_inputs) ==
  /\ "" \in Names(provided_inputs) => Names(provided_inputs) = {""}
  /\ "" \notin Names(provided_inputs) =>
       \A j, k \in DOMAIN provided_inputs :
         provided_inputs[j].name = provided_inputs[k].name => j = k
  /\ Len(provided_inputs) = Len(expected_inputs)
  /\ "" \notin Names(provided_inputs) =>
       Names(expected_inputs) \subseteq Names(provided_inputs)

OrderInputViews(expected_inputs, provided_inputs) ==
  IF "" \in Names(provided_inputs)
  THEN provided_inputs
  ELSE [k \in DOMAIN expected_inputs |->
          provided_inputs[CHOOSE j \in DOMAIN provided_inputs :
                            provided_inputs[j].name = expected_inputs[k].name]]

-----------------------------------------------------------------------------
(* Named values of the command line *)

\* The input a specification means; "" is the shorthand of a model with one
\* input.
Means(specification, model_inputs, k) ==
  \/ specification.name = "" /\ Len(model_inputs) = 1 /\ k = 1
  \/ specification.name # "" /\ specification.name = model_inputs[k].name

\* ParseNamedValue has found a value (an empty side of "=" is Missing).
WellFormed(specification) == specification.value # Missing

CanResolve(specifications, model_inputs) ==
  /\ "" \notin Names(model_inputs)
  /\ \A j, k \in DOMAIN model_inputs : model_inputs[j].name = model_inputs[k].name => j = k
  /\ \A s \in DOMAIN specifications :
       /\ WellFormed(specifications[s])
       /\ \E k \in DOMAIN model_inputs : Means(specifications[s], model_inputs, k)
  /\ \A r, s \in DOMAIN specifications : \A k \in DOMAIN model_inputs :
       Means(specifications[r], model_inputs, k) /\ Means(specifications[s], model_inputs, k)
         => r = s

\* The value given to input k, whatever the order of the arguments.
Resolved(specifications, model_inputs, k) ==
  LET given == {s \in DOMAIN specifications : Means(specifications[s], model_inputs, k)}
  IN  IF given = {} THEN Missing ELSE specifications[CHOOSE s \in given : TRUE].value
=============================================================================
