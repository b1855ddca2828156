---------------------------- MODULE NaturalOrder -----------------------------
(***************************************************************************)
(* NaturalLess (src/utils/images/images.cpp): the order in which the images    *)
(* of a directory are listed, selected and numbered. std::sort may do anything *)
(* with a comparison that is not a strict weak order. The Python and the MATLAB *)
(* demo compare by code of their own. A name is a sequence of bytes.          *)
(***************************************************************************)
EXTENDS Integers, Sequences

CONSTANT FileNames      \* the names compared

ASSUME NamesAssumption == FileNames \subseteq Seq(0 .. 255)

VARIABLE names          \* three names of one directory

IsDigit(c) == c \in 48 .. 57

\* The end (exclusive) of the digits that start at k, and the first of them
\* that is not a leading zero.
DigitsEnd(s, k) ==
  CHOOSE e \in k .. Len(s) + 1 :
    /\ \A m \in k .. e - 1 : IsDigit(s[m])
    /\ e <= Len(s) => ~IsDigit(s[e])
Significant(s, k, e) ==
  CHOOSE z \in k .. e :
    /\ \A m \in k .. z - 1 : s[m] = 48
    /\ z < e => s[z] # 48

\* std::string's operator<.
BytesLess(a, b) ==
  \E k \in 1 .. Len(b) :
    /\ k <= Len(a) + 1
    /\ \A m \in 1 .. k - 1 : a[m] = b[m]
    /\ k = Len(a) + 1 \/ a[k] < b[k]

\* A bug the properties must notice: names that differ in leading zeros only
\* are not told apart.
TieBreakNone(a, b) == FALSE

TieBreak(a, b) == BytesLess(a, b)

NaturalLess(a, b) ==
  LET Less[i \in 1 .. Len(a) + 1] == [j \in 1 .. Len(b) + 1 |->
        IF i > Len(a) /\ j > Len(b) THEN TieBreak(a, b)
        ELSE IF i > Len(a) \/ j > Len(b) THEN i > Len(a)
        ELSE IF IsDigit(a[i]) /\ IsDigit(b[j])
        THEN LET ae == DigitsEnd(a, i)
                 be == DigitsEnd(b, j)
                 m  == SubSeq(a, Significant(a, i, ae), ae - 1)
                 n  == SubSeq(b, Significant(b, j, be), be - 1)
             IN  IF Len(m) # Len(n) THEN Len(m) < Len(n)
                 ELSE IF m # n THEN BytesLess(m, n)
                 ELSE Less[ae][be]
        ELSE IF a[i] # b[j] THEN a[i] < b[j]
        ELSE Less[i + 1][j + 1]]
  IN  Less[1][1]

\* natural_compare of the Python demo: the names cut into runs of digits and
\* single characters, compared piece by piece.
Pieces(s) ==
  LET From[k \in 1 .. Len(s) + 1] ==
        IF k > Len(s) THEN <<>>
        ELSE LET e == IF IsDigit(s[k]) THEN DigitsEnd(s, k) ELSE k + 1
             IN  <<SubSeq(s, k, e - 1)>> \o From[e]
  IN  From[1]

natural_compare_less(a, b) ==
  LET left == Pieces(a)  right == Pieces(b)
      Numbers(k) == IsDigit(left[k][1]) /\ IsDigit(right[k][1])
      Piece(t, k) == IF Numbers(k) THEN SubSeq(t, Significant(t, 1, Len(t) + 1), Len(t)) ELSE t
      x(k) == Piece(left[k], k)  y(k) == Piece(right[k], k)
      differing == {k \in DOMAIN left \cap DOMAIN right : x(k) # y(k)}
  IN  IF differing # {}
      THEN LET k == CHOOSE d \in differing : \A e \in differing : d <= e
           IN  IF Numbers(k) /\ Len(x(k)) # Len(y(k)) THEN Len(x(k)) < Len(y(k))
               ELSE BytesLess(x(k), y(k))
      ELSE IF Len(left) # Len(right) THEN Len(left) < Len(right)
      ELSE BytesLess(a, b)

\* NaturalLess_ of the MATLAB demo: the walk of NaturalLess, but what is compared
\* as bytes is compared where it first differs.
FirstDifferenceLess(a, b) ==
  LET differing == {k \in DOMAIN a \cap DOMAIN b : a[k] # b[k]}
  IN  IF differing = {} THEN Len(a) < Len(b)
      ELSE LET d == CHOOSE k \in differing : \A l \in differing : k <= l
           IN  a[d] < b[d]

NaturalLess_(a, b) ==
  LET Less[i \in 1 .. Len(a) + 1] == [j \in 1 .. Len(b) + 1 |->
        IF i > Len(a) /\ j > Len(b) THEN FirstDifferenceLess(a, b)
        ELSE IF i > Len(a) \/ j > Len(b) THEN i > Len(a)
        ELSE IF IsDigit(a[i]) /\ IsDigit(b[j])
        THEN LET ae == DigitsEnd(a, i)
                 be == DigitsEnd(b, j)
                 m  == SubSeq(a, Significant(a, i, ae), ae - 1)
                 n  == SubSeq(b, Significant(b, j, be), be - 1)
             IN  IF Len(m) # Len(n) THEN Len(m) < Len(n)
                 ELSE IF m # n THEN FirstDifferenceLess(m, n)
                 ELSE Less[ae][be]
        ELSE IF a[i] # b[j] THEN a[i] < b[j]
        ELSE Less[i + 1][j + 1]]
  IN  Less[1][1]

NamesInit == names \in [1 .. 3 -> FileNames]

-----------------------------------------------------------------------------

\* Numbers in names are compared by value.
Number(s) ==
  LET Digits[k \in 0 .. Len(s)] == IF k = 0 THEN 0 ELSE 10 * Digits[k - 1] + s[k] - 48
  IN  Digits[Len(s)]

AllDigits(s) == s # <<>> /\ \A k \in DOMAIN s : IsDigit(s[k])

\* The listing of a directory is one sequence, the same on every machine and in
\* every program: of two different names exactly one comes first, the order is
\* transitive, names that are numbers come by value, and the Python demo, which
\* cuts the names into pieces first, and the MATLAB demo, which looks for the first
\* difference, number the frames as the native one does.
ListingIsOrdered ==
  LET a == names[1]  b == names[2]  c == names[3]
  IN  /\ ~NaturalLess(a, a)
      /\ a # b => (NaturalLess(a, b) <=> ~NaturalLess(b, a))
      /\ NaturalLess(a, b) /\ NaturalLess(b, c) => NaturalLess(a, c)
      /\ AllDigits(a) /\ AllDigits(b) /\ Number(a) < Number(b) => NaturalLess(a, b)
      /\ NaturalLess(a, b) <=> natural_compare_less(a, b)
      /\ NaturalLess(a, b) <=> NaturalLess_(a, b)
=============================================================================
