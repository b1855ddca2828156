---------------------------- MODULE MCModelLoading ----------------------------
(***************************************************************************)
(* A set of loads in which every artifact meets every kind of target       *)
(* chain, strict and relaxed, with a few requests no backend accepts.      *)
(***************************************************************************)
EXTENDS ModelLoading

Chains == {<<>>, <<"cuda">>, <<"tensorrt", "cuda">>, <<"cuda", "cpu">>, <<"cpu", "cuda">>}

Ordinary ==
    [valid : {TRUE}, backend : {"auto"}, declared : {"auto"}, artifact : Artifacts,
     targets : Chains, allow_fallback : BOOLEAN]

Base == [valid |-> TRUE, backend |-> "auto", declared |-> "auto", artifact |-> "sound",
         targets |-> <<"cuda">>, allow_fallback |-> TRUE]

Refused == {[Base EXCEPT !.valid = FALSE], [Base EXCEPT !.declared = "tensorrt_engine"],
            [Base EXCEPT !.backend = "tensorrt_engine"],
            [Base EXCEPT !.backend = "onnxruntime", !.artifact = "engine"]}

MCRequests == Ordinary \cup Refused

=============================================================================
