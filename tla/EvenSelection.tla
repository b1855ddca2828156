---------------------------- MODULE EvenSelection ----------------------------
(***************************************************************************)
(* What src/utils/sampling.h promises of SelectEvenlySpacedIndices: the      *)
(* exact quotients, with the multiplication the code avoids. Callers are    *)
(* modelled against this promise; Sampling shows that the code keeps it.    *)
(***************************************************************************)
EXTENDS Integers, Sequences

CONSTANTS MaxSize,        \* the largest size_t
          ElementCounts,  \* element counts the callers pass
          SampleCounts    \* sample counts the callers pass

ASSUME SamplingAssumption ==
  /\ MaxSize \in Nat
  /\ ElementCounts \subseteq 1 .. MaxSize
  /\ SampleCounts \subseteq 1 .. MaxSize

\* The second argument is limited to the first.
Limited(n, m) == IF m < n THEN m ELSE n

\* The index at position k (from 0) of m samples out of n elements.
EvenIndex(n, m, k) == IF m = 1 THEN 0 ELSE (k * (n - 1)) \div (m - 1)
=============================================================================
