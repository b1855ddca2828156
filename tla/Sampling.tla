------------------------------ MODULE Sampling ------------------------------
(***************************************************************************)
(* SelectEvenlySpacedIndices (src/utils/sampling.cpp): choose sample_count  *)
(* of element_count positions without ever multiplying two of them, by      *)
(* stepping a quotient and carrying a remainder as Bresenham's line does.   *)
(* One action is one pass of the loop, so the values that exist between     *)
(* two passes, which must fit size_t, are states of the model.              *)
(***************************************************************************)
EXTENDS EvenSelection

VARIABLES
  element_count, sample_count,       \* the arguments, the second one limited
  selected_indices,                  \* the result so far
  selected_index,                    \* the next index
  accumulated_remainder,             \* what the division has not yet paid out
  returned                           \* the function has returned

vars == <<element_count, sample_count, selected_indices, selected_index,
          accumulated_remainder, returned>>

\* base_step and step_remainder of the division; a single sample returns
\* before they are computed.
interval_count == sample_count - 1
base_step == (element_count - 1) \div interval_count
step_remainder == (element_count - 1) % interval_count

\* Zero arguments throw before anything else and have no state here.
Init ==
  /\ element_count \in ElementCounts
  /\ sample_count \in {Limited(element_count, m) : m \in SampleCounts}
  /\ selected_indices = <<>>
  /\ selected_index = 0
  /\ accumulated_remainder = 0
  /\ returned = FALSE

ReturnFirst ==
  /\ sample_count = 1
  /\ ~returned
  /\ selected_indices' = <<0>>
  /\ returned' = TRUE
  /\ UNCHANGED <<element_count, sample_count, selected_index, accumulated_remainder>>

\* The step that pays out one more than base_step. The comparison subtracts on
\* the right instead of adding on the left, which could exceed size_t.
CarryRemainder ==
  /\ selected_index' = selected_index + base_step + 1
  /\ accumulated_remainder' = accumulated_remainder - (interval_count - step_remainder)

KeepRemainder ==
  /\ selected_index' = selected_index + base_step
  /\ accumulated_remainder' = accumulated_remainder + step_remainder

\* A bug the properties must notice: paid out one step too late.
RemainderIsOverdue == accumulated_remainder > interval_count - step_remainder

RemainderIsDue == accumulated_remainder >= interval_count - step_remainder

Step ==
  /\ sample_count > 1
  /\ ~returned
  /\ Len(selected_indices) + 1 < sample_count
  /\ selected_indices' = Append(selected_indices, selected_index)
  /\ IF RemainderIsDue THEN CarryRemainder ELSE KeepRemainder
  /\ UNCHANGED <<element_count, sample_count, returned>>

\* The last pass leaves the loop before it steps.
LastStep ==
  /\ sample_count > 1
  /\ ~returned
  /\ Len(selected_indices) + 1 = sample_count
  /\ selected_indices' = Append(selected_indices, selected_index)
  /\ returned' = TRUE
  /\ UNCHANGED <<element_count, sample_count, selected_index, accumulated_remainder>>

Next == ReturnFirst \/ Step \/ LastStep

Spec == Init /\ [][Next]_vars

-----------------------------------------------------------------------------

TypeOK ==
  /\ element_count \in 1 .. MaxSize
  /\ sample_count \in 1 .. element_count
  /\ selected_indices \in Seq(0 .. MaxSize)
  /\ selected_index \in 0 .. MaxSize
  /\ accumulated_remainder \in 0 .. MaxSize
  /\ returned \in BOOLEAN

\* Every index produced so far, whatever the sizes, is the promised quotient:
\* the remainder carried from pass to pass loses and adds nothing.
IndicesAreExact ==
  \A k \in 1 .. Len(selected_indices) :
    selected_indices[k] = EvenIndex(element_count, sample_count, k - 1)

\* A returned selection is usable as positions of the sequence it was taken
\* from: strictly increasing (no element twice), first and last included.
SelectionIsUsable ==
  returned =>
    /\ Len(selected_indices) = sample_count
    /\ \A k \in 1 .. sample_count : selected_indices[k] < element_count
    /\ \A j, k \in 1 .. sample_count :
         j < k => selected_indices[j] < selected_indices[k]
    /\ selected_indices[1] = 0
    /\ sample_count > 1 => selected_indices[sample_count] = element_count - 1

\* Both: what the function returns for every pair of sizes.
SelectionIsExact == IndicesAreExact /\ SelectionIsUsable
=============================================================================
