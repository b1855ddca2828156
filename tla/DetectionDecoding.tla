-------------------------- MODULE DetectionDecoding --------------------------
(***************************************************************************)
(* DecodeDetectionRows (src/inference/task_adapters.cpp): find the rows of a   *)
(* dense tensor along an attribute axis, score each, keep those above the      *)
(* threshold in the order of their scores. Floats are integers, NaN is the      *)
(* value NotFinite; sums and products of floats do not round. A tensor with a   *)
(* negative dimension, or with more or fewer values than its shape says, is    *)
(* refused and left out.                                                      *)
(*                                                                         *)
(* cells is what the tensor means: for each row (the other axes in row-major   *)
(* order) its attributes. The tensor the code sees is their row-major layout. *)
(***************************************************************************)
EXTENDS TensorContracts, FiniteSets

CONSTANTS Layouts,      \* shape, attribute_axis and detection schema of a call
          Contents(_),  \* the cells a tensor of a layout may hold
          Thresholds, Limits,
          NotFinite

\* The dimensions of a tensor are not negative; but for objectness, neither are
\* the indices of a schema.
ASSUME DecodingAssumption ==
  /\ Thresholds \subseteq Int /\ Limits \subseteq Nat /\ NotFinite \notin Int
  /\ \A l \in Layouts :
       /\ l.shape \in Seq(Nat) /\ l.axis \in Int
       /\ l.schema.first_class \in Nat /\ l.schema.class_count \in Nat
       /\ l.schema.objectness \in Int /\ l.schema.box \in [1 .. 4 -> Nat]

VARIABLES
  layout,       \* shape and schema given by the caller
  cells,        \* row -> attribute -> value
  limits,       \* score_threshold, max_detections
  row,          \* next row
  detections,   \* the vector of that name
  decoded       \* "running", "thrown" or "returned"

decoding == <<layout, cells, limits, row, detections, decoded>>

Rank == Len(layout.shape)
Schema == layout.schema

\* The product of the dimensions a .. b (from 1), 1 when there is none.
Extent(shape, a, b) == TrueCount(SubSeq(shape, a, b))

-----------------------------------------------------------------------------
(* The layout of the rows *)

NormalizedAxis(l) == IF l.axis < 0 THEN l.axis + Len(l.shape) ELSE l.axis
AxisIsValid == Rank > 0 /\ NormalizedAxis(layout) \in 0 .. Rank - 1

Axis == NormalizedAxis(layout) + 1
attribute_count == layout.shape[Axis]
inner_stride == ComputeElementCount(SubSeq(layout.shape, Axis + 1, Rank))

GetRowValueIndex(r, attribute) ==
  ((r \div inner_stride) * attribute_count + attribute) * inner_stride + (r % inner_stride)

\* The tensor: position p holds the cell of its coordinates. Here the row is
\* counted from the coordinates, not from the code's formula.
Coordinate(p, d) == (p \div Extent(layout.shape, d + 1, Rank)) % layout.shape[d]
RowOf(p) ==
  LET others == [k \in 1 .. Rank - 1 |-> IF k < Axis THEN k ELSE k + 1]
      Step(r, d) == r * layout.shape[d] + Coordinate(p, d)
  IN  FoldLeft(Step, 0, others)
Value(p) == cells[RowOf(p)][Coordinate(p, Axis)]

\* The cells of a tensor: a row for each index of the other axes.
Cells(l) ==
  LET d == NormalizedAxis(l) + 1
      rows == Extent(l.shape, 1, d - 1) * Extent(l.shape, d + 1, Len(l.shape))
  IN  [0 .. rows - 1 -> [0 .. l.shape[d] - 1 -> Int \cup {NotFinite}]]

ASSUME CellsAssumption ==
  \A l \in Layouts :
    NormalizedAxis(l) \in 0 .. Len(l.shape) - 1 /\ TrueCount(l.shape) <= SizeMax
      => Contents(l) \subseteq Cells(l)

At(r, attribute) == Value(GetRowValueIndex(r, attribute))

-----------------------------------------------------------------------------
(* The schema *)

Range0(first, count) == first .. first + count - 1
ClassRange == Range0(Schema.first_class, Schema.class_count)

SchemaIsValid ==
  /\ Schema.class_count > 0
  /\ Schema.first_class <= attribute_count
  /\ Schema.class_count <= attribute_count - Schema.first_class
  /\ \A k \in 1 .. 4 :
       /\ Schema.box[k] < attribute_count
       /\ Schema.box[k] \notin ClassRange
       /\ \A j \in 1 .. k - 1 : Schema.box[j] # Schema.box[k]
  /\ Schema.objectness >= -1
  /\ Schema.objectness >= 0 =>
       /\ Schema.objectness < attribute_count
       /\ Schema.objectness \notin ClassRange
       /\ \A k \in 1 .. 4 : Schema.box[k] # Schema.objectness

CallIsValid ==
  /\ limits.score_threshold >= 0
  /\ AxisIsValid
  /\ ComputeElementCount(layout.shape) # Overflow
  /\ attribute_count > 0
  /\ inner_stride # Overflow
  /\ SchemaIsValid

RowCount == ComputeElementCount(layout.shape) \div attribute_count

-----------------------------------------------------------------------------
(* One row *)

\* The first of the largest class scores.
BestClass(r) ==
  LET Score(c) == At(r, Schema.first_class + c)
      Better(best, c) == IF Score(c) > Score(best) THEN c ELSE best
  IN  FoldLeft(Better, 0, [c \in 1 .. Schema.class_count |-> c - 1])

FinalScore(r) ==
  (IF Schema.objectness >= 0 THEN At(r, Schema.objectness) ELSE 1)
    * At(r, Schema.first_class + BestClass(r))

Coordinates(r) == [k \in 1 .. 4 |-> At(r, Schema.box[k])]

\* Twice the center, so that the midpoint of two corners is a whole number.
Box(box) ==
  IF Schema.encoding = "center_xywh"
  THEN <<2 * box[1], 2 * box[2], box[3], box[4]>>
  ELSE <<box[1] + box[3], box[2] + box[4], box[3] - box[1], box[4] - box[2]>>

BoxIsValid(box) == Box(box)[3] >= 0 /\ Box(box)[4] >= 0

\* Every value that is read is finite; so is the score.
RowIsFinite(r) ==
  /\ \A c \in ClassRange : At(r, c) # NotFinite
  /\ Schema.objectness >= 0 => At(r, Schema.objectness) # NotFinite
  /\ \A k \in 1 .. 4 : At(r, Schema.box[k]) # NotFinite

\* A bug the properties must notice: among equal scores the later row is first.
SortIntoUnstable(seq, d) ==
  LET before == {k \in DOMAIN seq : seq[k].score > d.score}
  IN  InsertAt(seq, Cardinality(before) + 1, d)

\* One insertion of a stable sort by descending score.
SortInto(seq, d) ==
  LET before == {k \in DOMAIN seq : seq[k].score >= d.score}
  IN  InsertAt(seq, Cardinality(before) + 1, d)

StableSort(seq) == FoldLeft(SortInto, <<>>, seq)

-----------------------------------------------------------------------------

DecodeInit ==
  /\ layout \in Layouts
  /\ cells \in Contents(layout)
  /\ limits \in [score_threshold : Thresholds, max_detections : Limits]
  /\ row = 0
  /\ detections = <<>>
  /\ decoded = "running"

DecodeThrows ==
  /\ decoded = "running"
  /\ \/ row = 0 /\ ~CallIsValid
     \/ CallIsValid /\ row < RowCount /\ ~(RowIsFinite(row) /\ BoxIsValid(Coordinates(row)))
  /\ decoded' = "thrown"
  /\ UNCHANGED <<layout, cells, limits, row, detections>>

DecodeRow ==
  /\ decoded = "running"
  /\ CallIsValid
  /\ row < RowCount
  /\ RowIsFinite(row) /\ BoxIsValid(Coordinates(row))
  /\ detections' = IF FinalScore(row) >= limits.score_threshold
                   THEN Append(detections, [bounds |-> Box(Coordinates(row)),
                                            class_id |-> BestClass(row),
                                            score |-> FinalScore(row)])
                   ELSE detections
  /\ row' = row + 1
  /\ UNCHANGED <<layout, cells, limits, decoded>>

DecodeReturns ==
  /\ decoded = "running"
  /\ CallIsValid
  /\ row = RowCount
  /\ detections' = IF limits.max_detections > 0 /\ Len(detections) > limits.max_detections
                   THEN SubSeq(StableSort(detections), 1, limits.max_detections)
                   ELSE StableSort(detections)
  /\ decoded' = "returned"
  /\ UNCHANGED <<layout, cells, limits, row>>

DecodeNext == DecodeThrows \/ DecodeRow \/ DecodeReturns

-----------------------------------------------------------------------------

\* What the detections are, said of the rows themselves: those whose score is
\* not below the threshold, the best max_detections of them, larger scores
\* first and earlier rows first among equals, each with the box of its own row,
\* the first of its largest classes and objectness times that class's score. A
\* call that returns has looked at every row, and all of them were valid.
DetectionsAreTheBestRows ==
  decoded = "returned" =>
    LET Classes(r) == {c \in 0 .. Schema.class_count - 1 :
          \A e \in 0 .. Schema.class_count - 1 :
            cells[r][Schema.first_class + c] >= cells[r][Schema.first_class + e]}
        First(r) == CHOOSE c \in Classes(r) : \A e \in Classes(r) : c <= e
        Score(r) == (IF Schema.objectness = -1 THEN 1 ELSE cells[r][Schema.objectness])
                      * cells[r][Schema.first_class + First(r)]
        Kept == {r \in DOMAIN cells : Score(r) >= limits.score_threshold}
        Ahead(r) == {q \in Kept : Score(q) > Score(r) \/ (Score(q) = Score(r) /\ q < r)}
        Place(r) == Cardinality(Ahead(r)) + 1
        Shown == {r \in Kept : limits.max_detections = 0 \/ Place(r) <= limits.max_detections}
        Used == ClassRange \cup {Schema.box[k] : k \in 1 .. 4} \cup ({Schema.objectness} \ {-1})
    IN  /\ \A r \in DOMAIN cells, a \in Used : cells[r][a] # NotFinite
        /\ Len(detections) = Cardinality(Shown)
        /\ \A r \in Shown :
             detections[Place(r)] =
               [bounds |-> Box([k \in 1 .. 4 |-> cells[r][Schema.box[k]]]),
                class_id |-> First(r), score |-> Score(r)]
=============================================================================
