--------------------------- MODULE RunOrtInference ---------------------------
(***************************************************************************)
(* The program run_ort_inference (src/programs/run_ort_inference.cpp): load a  *)
(* model, make one float32 tensor for each of its inputs from a raw file or a   *)
(* fill value, run it once and write each output to a file. A model is its      *)
(* list of inputs; a raw file is its size in bytes; the value of an input is    *)
(* remembered as what it came from.                                          *)
(***************************************************************************)
EXTENDS TensorContracts

CONSTANTS Models,         \* input lists of models
          CommandLines,   \* arguments: metadata_only, inputs, shapes, fills, output_dir
          RawFiles,       \* what each raw input path may lead to: path -> size or Missing
          OutputCount,    \* outputs of every model
          BadFill         \* text that is not a finite float

\* A model states shapes of integers, and so does the option --shape; no other
\* value is the one that stands for none.
ASSUME OrtAssumption ==
  /\ OutputCount \in Nat
  /\ \A m \in Models : m \in Seq({m[k] : k \in DOMAIN m})
                       /\ \A k \in DOMAIN m : m[k].shape \in Seq(Int)
  /\ \A c \in CommandLines : \A s \in DOMAIN c.shapes :
       c.shapes[s].value # Missing => c.shapes[s].value \in Seq(Int)
  /\ Missing \notin {"0", "1", "2", "old", "open", "buffered", "short", "whole"}

VARIABLES
  at,           \* where main is
  arguments,    \* the command line
  model,        \* GetInputInfos()
  raw,          \* the raw input files
  inputs,       \* tensors prepared so far
  ordered,      \* views handed to the backend
  next_output,  \* output PrintOutputs is at
  outputs,      \* output files: Missing, "old", "open", "buffered", "short", "whole"
  exit          \* exit status, Missing while main runs

ort == <<at, arguments, model, raw, inputs, ordered, next_output, outputs, exit>>

\* streamsize and ptrdiff_t are signed.
StreamMax == SizeMax \div 2
VectorMax == StreamMax \div FloatSize

OrtInit ==
  /\ at = "parse"
  /\ arguments \in CommandLines
  /\ model \in Models
  /\ raw \in RawFiles
  /\ inputs = <<>>
  /\ ordered = <<>>
  /\ next_output = 1
  /\ \E before \in {Missing, "old"} : outputs = [k \in 1 .. OutputCount |-> before]
  /\ exit = Missing

Leave(status) ==
  /\ at' = "ended"
  /\ exit' = status
  /\ UNCHANGED <<arguments, model, raw, inputs, ordered, next_output, outputs>>

Advance(place) ==
  /\ at' = place
  /\ UNCHANGED <<arguments, model, raw, ordered, next_output, outputs, exit>>

-----------------------------------------------------------------------------

CombinationIsValid ==
  arguments.metadata_only =>
    /\ arguments.inputs = <<>> /\ arguments.shapes = <<>> /\ arguments.fills = <<>>
    /\ ~arguments.output_dir

\* Everything else TCLAP or ParseArguments may refuse has status 1 too. A command
\* line that asks for help or the version is not a run.
ParseArguments ==
  /\ at = "parse"
  /\ \/ CombinationIsValid /\ Advance("load") /\ UNCHANGED inputs
     \/ Leave("1")

LoadModel ==
  /\ at = "load"
  /\ \/ arguments.metadata_only /\ Leave("0")
     \/ ~arguments.metadata_only /\ Advance("resolve") /\ UNCHANGED inputs
     \/ Leave("1")
     \/ Leave("2")

ResolveSpecifications ==
  /\ at = "resolve"
  /\ IF /\ CanResolve(arguments.inputs, model)
        /\ CanResolve(arguments.shapes, model)
        /\ CanResolve(arguments.fills, model)
     THEN Advance("prepare") /\ UNCHANGED inputs
     ELSE Leave("1")

-----------------------------------------------------------------------------
(* PrepareInputs, one model input at a time *)

This == Len(inputs) + 1
Info == model[This]
File == Resolved(arguments.inputs, model, This)
Fill == Resolved(arguments.fills, model, This)
Override == Resolved(arguments.shapes, model, This)
Preparing == at = "prepare" /\ This <= Len(model)

Shape == IF Override = Missing THEN Info.shape ELSE Override

ResolveShape ==
  /\ Override # Missing =>
       /\ Len(Override) = Len(Info.shape)
       /\ \A k \in DOMAIN Info.shape : Info.shape[k] > 0 => Override[k] = Info.shape[k]
  /\ \A k \in DOMAIN Shape : Shape[k] > 0

Usable ==
  /\ Info.dtype = "float32"
  /\ (File # Missing) # (Fill # Missing)
  /\ ResolveShape

Count == ComputeElementCount(Shape)

\* The order of the tests decides which status a bad input gets.
FileFits ==
  /\ File # Missing /\ raw[File] # Missing
  /\ Count <= SizeMax \div FloatSize
  /\ raw[File] = Wrapped(Count * FloatSize)
  /\ raw[File] <= StreamMax

FileIsRefused ==
  /\ File # Missing
  /\ \/ raw[File] = Missing
     \/ Count <= SizeMax \div FloatSize /\ raw[File] # Wrapped(Count * FloatSize)

FillFits == Fill # Missing /\ Fill # BadFill /\ Count <= VectorMax

PrepareInput ==
  /\ Preparing
  /\ Usable
  /\ Count # Overflow
  /\ FileFits \/ FillFits
  /\ inputs' = Append(inputs,
       [name |-> Info.name, dtype |-> "float32", shape |-> Shape,
        bytes |-> Wrapped(Count * FloatSize), from |-> IF Fill = Missing THEN File ELSE Fill])
  /\ Advance("prepare")

RefuseInput ==
  /\ Preparing
  /\ \/ ~Usable
     \/ /\ Usable /\ Count # Overflow
        /\ FileIsRefused \/ Fill = BadFill
  /\ Leave("1")

\* overflow_error, length_error, and a file that cannot be read to its end.
InputIsTooLarge ==
  /\ Preparing
  /\ Usable
  /\ \/ Count = Overflow
     \/ Count # Overflow /\ File # Missing /\ ~FileIsRefused
     \/ Count # Overflow /\ Fill \notin {Missing, BadFill} /\ ~FillFits
  /\ Leave("2")

-----------------------------------------------------------------------------
(* The inference *)

ViewsFit ==
  /\ CanOrderInputViews(model, inputs)
  /\ LET views == OrderInputViews(model, inputs)
     IN  \A k \in DOMAIN model : ValidHostTensorView(model[k], views[k])

Infer ==
  /\ at = "prepare"
  /\ Len(inputs) = Len(model)
  /\ \/ /\ ViewsFit
        /\ at' = "directory"
        /\ ordered' = OrderInputViews(model, inputs)
        /\ UNCHANGED <<arguments, model, raw, inputs, next_output, outputs, exit>>
     \/ ~ViewsFit /\ Leave("1")
     \/ Leave("2")

-----------------------------------------------------------------------------
(* PrintOutputs *)

MakeOutputDirectory ==
  /\ at = "directory"
  /\ \/ Advance("output") /\ UNCHANGED inputs
     \/ arguments.output_dir /\ Leave("1")
     \/ arguments.output_dir /\ Leave("2")

\* A bug the properties must notice: the last output is not written.
EveryOutputDoneEarly == next_output >= OutputCount

EveryOutputDone == next_output > OutputCount

SetOutput(state) ==
  /\ outputs' = [outputs EXCEPT ![next_output] = state]
  /\ UNCHANGED <<arguments, model, raw, inputs, ordered, exit>>

OpenOutput ==
  /\ at = "output" /\ ~EveryOutputDone
  /\ \/ /\ arguments.output_dir
        /\ at' = "write" /\ SetOutput("open") /\ UNCHANGED next_output
     \/ /\ ~arguments.output_dir
        /\ next_output' = next_output + 1
        /\ UNCHANGED <<at, arguments, model, raw, inputs, ordered, outputs, exit>>
     \/ arguments.output_dir /\ Leave("2")

\* A large output goes to the file at once, and a failure is noticed; a small
\* one stays in the stream's buffer.
WriteOutput ==
  /\ at = "write"
  /\ \E state \in {"buffered", "whole"} : SetOutput(state)
  /\ at' = "close"
  /\ UNCHANGED next_output

WriteOutputFails ==
  /\ at = "write"
  /\ outputs' = [outputs EXCEPT ![next_output] = "short"]
  /\ at' = "ended" /\ exit' = "2"
  /\ UNCHANGED <<arguments, model, raw, inputs, ordered, next_output>>

\* The stream's destructor empties the buffer and ignores a failure.
CloseOutput ==
  /\ at = "close"
  /\ \E state \in IF outputs[next_output] = "buffered" THEN {"whole", "short"} ELSE {"whole"} :
       SetOutput(state)
  /\ next_output' = next_output + 1
  /\ at' = "output"

Finish ==
  /\ at = "output"
  /\ EveryOutputDone
  /\ Leave("0")

OrtNext ==
  \/ ParseArguments \/ LoadModel \/ ResolveSpecifications
  \/ PrepareInput \/ RefuseInput \/ InputIsTooLarge \/ Infer
  \/ MakeOutputDirectory \/ OpenOutput \/ WriteOutput \/ WriteOutputFails
  \/ CloseOutput \/ Finish

-----------------------------------------------------------------------------

\* What a command line names for input k: nothing, or the values of every
\* specification that bears its name or is the shorthand for a single input.
Named(specifications, model_inputs, k) ==
  {specifications[s].value : s \in {r \in DOMAIN specifications :
     \/ specifications[r].name = model_inputs[k].name
     \/ specifications[r].name = "" /\ Len(model_inputs) = 1}}

\* When the backend is given tensors they are those of the model's contract, in
\* its order: each comes from the one source the command line names for that
\* input, has the dimensions the model fixes and positive ones elsewhere, as
\* --shape says, and exactly the bytes these dimensions need, uncut by the
\* width of size_t.
AcceptedInputsFitTheModel ==
  ordered # <<>> =>
    /\ Len(ordered) = Len(model)
    /\ \A k \in DOMAIN model :
         LET view == ordered[k]
         IN  /\ view.name = model[k].name /\ model[k].dtype = "float32"
             /\ Named(arguments.inputs, model, k) \cup Named(arguments.fills, model, k)
                  = {view.from}
             /\ Named(arguments.shapes, model, k) \subseteq {view.shape}
             /\ Len(view.shape) = Len(model[k].shape)
             /\ \A d \in DOMAIN view.shape :
                  view.shape[d] > 0 /\ (model[k].shape[d] >= 0 => model[k].shape[d] = view.shape[d])
             /\ view.bytes = TrueCount(view.shape) * FloatSize

\* The status tells what happened to the output files: after 0 each of them has
\* been made anew if a directory was asked for, after 1 none has been touched.
StatusTellsOutputs ==
  /\ exit = "0" =>
       \A k \in 1 .. OutputCount :
         outputs[k] \in (IF arguments.output_dir THEN {"short", "whole"} ELSE {Missing, "old"})
  /\ exit = "1" => \A k \in 1 .. OutputCount : outputs[k] \in {Missing, "old"}

\* The comment on WriteOutput: it throws if the output cannot be written
\* completely. So after status 0 every output file is whole.
OutputsAreWritten ==
  exit = "0" /\ arguments.output_dir => \A k \in 1 .. OutputCount : outputs[k] = "whole"
=============================================================================
