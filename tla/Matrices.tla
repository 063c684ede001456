------------------------------ MODULE Matrices ------------------------------
(***************************************************************************)
(* The vectors and matrices of src/src/builtin/vector.c: builtins on       *)
(* numeric lists and lists of numeric lists, and their counterparts on the *)
(* native types that >vec and >mat make of them.                           *)
(*                                                                         *)
(* A value is <<type, contents>> and a stack is a sequence of values, the  *)
(* top first.  A builtin is an operator from the stack to its outcome: the *)
(* stack it leaves and whether it raised an error.                         *)
(*                                                                         *)
(* A double is the exact fraction <<n, d>> in lowest terms, d >= 0; d = 0  *)
(* is an infinity, or not a number when n = 0.  Rounding is left out, and  *)
(* with it vnorm and vnormalize; a pivot below 1e-15 is a pivot of 0.      *)
(***************************************************************************)
EXTENDS Integers, Sequences, SequencesExt

----
\* Doubles.

Magnitude(i) == IF i < 0 THEN -i ELSE i
Divisor(i, j) ==
  IF i = 0 /\ j = 0 THEN 1
  ELSE CHOOSE k \in 1 .. Magnitude(i) + Magnitude(j) :
         /\ i % k = 0 /\ j % k = 0
         /\ \A l \in k + 1 .. Magnitude(i) + Magnitude(j) : i % l # 0 \/ j % l # 0

Reduced(n, d) == LET k == Divisor(n, d) IN <<n \div k, d \div k>>
Fraction(n, d) == IF d < 0 THEN Reduced(-n, -d) ELSE Reduced(n, d)
Whole(i) == <<i, 1>>
Zero == Whole(0)
One  == Whole(1)

Plus(x, y) ==
  IF x[2] = 0 /\ x = y THEN x ELSE Fraction(x[1] * y[2] + y[1] * x[2], x[2] * y[2])
Negated(x)   == <<-x[1], x[2]>>
Minus(x, y)  == Plus(x, Negated(y))
Times(x, y)  == Fraction(x[1] * y[1], x[2] * y[2])
Over(x, y)   == IF y[2] = 0 /\ x[2] # 0 THEN Fraction(0, y[1])
                ELSE Fraction(x[1] * y[2], x[2] * y[1])
IsNaN(x)     == x = <<0, 0>>
Below(x, y)  == /\ ~IsNaN(x) /\ ~IsNaN(y)
                /\ IF x[2] = 0 /\ y[2] = 0 THEN x[1] < y[1] ELSE x[1] * y[2] < y[1] * x[2]
Absolute(x)  == <<Magnitude(x[1]), x[2]>>

SumOf(xs)     == FoldLeft(Plus, Zero, xs)
ProductOf(xs) == FoldLeft(Times, One, xs)
----
\* Outcomes.

From(s, k)      == SubSeq(s, k + 1, Len(s))
Return(s, k, v) == [raised |-> FALSE, stack |-> <<v>> \o From(s, k)]
Raise(s)        == [raised |-> TRUE, stack |-> s]

Has(s, k)       == Len(s) >= k
IsA(v, type)    == v[1] = type
IsIndex(v)      == v[1] \in {"INTEGER", "BOOLEAN"} /\ v[2] >= 0

Integer(i)  == <<"INTEGER", i>>
Float(x)    == <<"FLOAT", x>>
Boolean(b)  == <<"BOOLEAN", IF b THEN 1 ELSE 0>>
ListOf(vs)  == <<"LIST", vs>>
FloatList(xs) == ListOf([i \in 1 .. Len(xs) |-> Float(xs[i])])

(* get_numeric: only INTEGER and FLOAT are numbers. *)
IsNumeric(v) == v[1] \in {"INTEGER", "FLOAT"}
Number(v)    == IF IsA(v, "INTEGER") THEN Whole(v[2]) ELSE v[2]

(* check_numeric_list and extract_values. *)
IsNumericList(v) == IsA(v, "LIST") /\ \A i \in 1 .. Len(v[2]) : IsNumeric(v[2][i])
Numbers(v)       == [i \in 1 .. Len(v[2]) |-> Number(v[2][i])]
----
\* Vectors.

(* Two numeric lists on top, the second parameter on the very top. *)
TwoVectors(s) == Has(s, 2) /\ IsNumericList(s[1]) /\ IsNumericList(s[2])
SameLength(s) == TwoVectors(s) /\ Len(s[1][2]) = Len(s[2][2])

Pairwise(op(_, _), xs, ys) == [i \in 1 .. Len(xs) |-> op(xs[i], ys[i])]
DotProduct(xs, ys) == SumOf(Pairwise(Times, xs, ys))

VectorPair(op(_, _), s) ==
  IF SameLength(s) THEN Return(s, 2, FloatList(Pairwise(op, Numbers(s[2]), Numbers(s[1]))))
  ELSE Raise(s)

vplus(s)  == VectorPair(Plus, s)
vminus(s) == VectorPair(Minus, s)
vmul(s)   == VectorPair(Times, s)
vdiv(s)   == VectorPair(Over, s)

(* The scalar is gone when the list turns out to be none. *)
Scaled(xs, x) == [i \in 1 .. Len(xs) |-> Times(xs[i], x)]
vscale(s) ==
  IF ~Has(s, 2) \/ ~IsNumeric(s[1]) THEN Raise(s)
  ELSE IF ~IsNumericList(s[2]) THEN Raise(From(s, 1))
  ELSE Return(s, 2, FloatList(Scaled(Numbers(s[2]), Number(s[1]))))

dot(s) ==
  IF SameLength(s) THEN Return(s, 2, Float(DotProduct(Numbers(s[2]), Numbers(s[1])))) ELSE Raise(s)

Reduction(op(_), s, mayBeEmpty) ==
  IF Has(s, 1) /\ IsNumericList(s[1]) /\ (mayBeEmpty \/ s[1][2] # <<>>)
  THEN Return(s, 1, Float(op(Numbers(s[1]))))
  ELSE Raise(s)

Least(xs)    == FoldLeft(LAMBDA x, y : IF Below(y, x) THEN y ELSE x, Head(xs), Tail(xs))
Greatest(xs) == FoldLeft(LAMBDA x, y : IF Below(x, y) THEN y ELSE x, Head(xs), Tail(xs))
Mean(xs)     == Over(SumOf(xs), Whole(Len(xs)))

vsum(s)  == Reduction(SumOf, s, TRUE)
vprod(s) == Reduction(ProductOf, s, TRUE)
vmin(s)  == Reduction(Least, s, FALSE)
vmax(s)  == Reduction(Greatest, s, FALSE)
vmean(s) == Reduction(Mean, s, FALSE)

Counted(s, v(_)) == IF Has(s, 1) /\ IsIndex(s[1]) THEN Return(s, 1, v(s[1][2])) ELSE Raise(s)
vzeros(s) == Counted(s, LAMBDA n : ListOf([i \in 1 .. n |-> Integer(0)]))
vones(s)  == Counted(s, LAMBDA n : ListOf([i \in 1 .. n |-> Integer(1)]))

vrange(s) ==
  IF Has(s, 2) /\ IsA(s[1], "INTEGER") /\ IsA(s[2], "INTEGER")
  THEN Return(s, 2, ListOf([i \in 1 .. s[1][2] - s[2][2] + 1 |-> Integer(s[2][2] + i - 1)]))
  ELSE Raise(s)

cross(s) ==
  IF ~TwoVectors(s) \/ Len(s[1][2]) # 3 \/ Len(s[2][2]) # 3 THEN Raise(s)
  ELSE LET x == Numbers(s[2])
           y == Numbers(s[1])
           Cell(i, j) == Minus(Times(x[i], y[j]), Times(x[j], y[i]))
       IN  Return(s, 2, FloatList(<<Cell(2, 3), Cell(3, 1), Cell(1, 2)>>))

(* The count goes before the end is looked at, the end before the start. *)
vlinspace(s) ==
  IF ~Has(s, 3) \/ ~IsIndex(s[1]) THEN Raise(s)
  ELSE IF ~IsNumeric(s[2]) THEN Raise(From(s, 1))
  ELSE IF ~IsNumeric(s[3]) THEN Raise(From(s, 2))
  ELSE LET n    == s[1][2]
           a    == Number(s[3])
           step == Over(Minus(Number(s[2]), a), Whole(n - 1))
           At(i) == IF i = 1 THEN a ELSE IF i = n THEN Number(s[2])
                    ELSE Plus(a, Times(Whole(i - 1), step))
       IN  Return(s, 3, FloatList([i \in 1 .. n |-> At(i)]))
----
\* Matrices.

(* A shape: rows, columns and the cells, row by row. *)
Shape(r, c, cell(_, _)) ==
  [rows |-> r, cols |-> c, cells |-> [i \in 1 .. r |-> [j \in 1 .. c |-> cell(i, j)]]]

(* check_matrix and extract_matrix: a list of numeric lists of one length. *)
IsMatrix(v) ==
  /\ IsA(v, "LIST")
  /\ \A i \in 1 .. Len(v[2]) : IsNumericList(v[2][i]) /\ Len(v[2][i][2]) = Len(v[2][1][2])
AsShape(v) ==
  LET rows == v[2]
  IN  Shape(Len(rows), IF rows = <<>> THEN 0 ELSE Len(rows[1][2]),
            LAMBDA i, j : Number(rows[i][2][j]))

(* build_matrix, after the builtins have turned away what has no cells. *)
MatrixList(m) ==
  IF m.rows = 0 \/ m.cols = 0 THEN ListOf(<<>>)
  ELSE ListOf([i \in 1 .. m.rows |-> FloatList(m.cells[i])])

TwoMatrices(s) == Has(s, 2) /\ IsMatrix(s[1]) /\ IsMatrix(s[2])
IsSquare(s)    == Has(s, 1) /\ IsMatrix(s[1]) /\ AsShape(s[1]).rows = AsShape(s[1]).cols

MatrixPair(op(_, _), s) ==
  IF ~TwoMatrices(s) THEN Raise(s)
  ELSE LET m1 == AsShape(s[2])
           m2 == AsShape(s[1])
       IN  IF m1.rows # m2.rows \/ m1.cols # m2.cols THEN Raise(s)
           ELSE Return(s, 2, MatrixList(Shape(m1.rows, m1.cols,
                               LAMBDA i, j : op(m1.cells[i][j], m2.cells[i][j]))))

mplus(s)  == MatrixPair(Plus, s)
mminus(s) == MatrixPair(Minus, s)
mmul(s)   == MatrixPair(Times, s)
mdiv(s)   == MatrixPair(Over, s)

mscale(s) ==
  IF ~Has(s, 2) \/ ~IsNumeric(s[1]) THEN Raise(s)
  ELSE IF ~IsMatrix(s[2]) THEN Raise(From(s, 1))
  ELSE LET m == AsShape(s[2])
       IN  Return(s, 2, MatrixList(Shape(m.rows, m.cols,
                          LAMBDA i, j : Times(m.cells[i][j], Number(s[1])))))

(* Row by column; the columns of the first are as many as the rows of the  *)
(* second.                                                                 *)
Column(m, j)      == [i \in 1 .. m.rows |-> m.cells[i][j]]
Product(m1, m2)   == Shape(m1.rows, m2.cols,
                           LAMBDA i, j : DotProduct(m1.cells[i], Column(m2, j)))
ProductVector(m, xs) == [i \in 1 .. m.rows |-> DotProduct(m.cells[i], xs)]

mm(s) ==
  IF ~TwoMatrices(s) \/ AsShape(s[2]).cols # AsShape(s[1]).rows THEN Raise(s)
  ELSE Return(s, 2, MatrixList(Product(AsShape(s[2]), AsShape(s[1]))))

mv(s) ==
  IF Has(s, 2) /\ IsMatrix(s[2]) /\ IsNumericList(s[1]) /\ AsShape(s[2]).cols = Len(s[1][2])
  THEN Return(s, 2, FloatList(ProductVector(AsShape(s[2]), Numbers(s[1]))))
  ELSE Raise(s)

Transposed(m) == Shape(m.cols, m.rows, LAMBDA i, j : m.cells[j][i])
transpose(s) ==
  IF Has(s, 1) /\ IsMatrix(s[1]) THEN Return(s, 1, MatrixList(Transposed(AsShape(s[1])))) ELSE Raise(s)

trace(s) ==
  IF ~IsSquare(s) THEN Raise(s)
  ELSE LET m == AsShape(s[1])
       IN  Return(s, 1, Float(SumOf([i \in 1 .. m.rows |-> m.cells[i][i]])))

Identity(n) == Shape(n, n, LAMBDA i, j : IF i = j THEN One ELSE Zero)
meye(s) == Counted(s, LAMBDA n : MatrixList(Identity(n)))
----
\* Elimination.  Rows are sequences; c holds the rows of a square matrix.

(* The row with the largest element of column i, of the rows from i on; of *)
(* several the first.                                                      *)
PivotRow(c, i) ==
  CHOOSE p \in i .. Len(c) :
    /\ \A k \in i .. Len(c) : ~Below(Absolute(c[p][i]), Absolute(c[k][i]))
    /\ \A k \in i .. p - 1 : Below(Absolute(c[k][i]), Absolute(c[p][i]))

Swapped(c, i, p) == [c EXCEPT ![i] = c[p], ![p] = c[i]]
Cleared(row, by, factor) == Pairwise(Minus, row, Scaled(by, factor))

(* One column of compute_determinant: det so far and what is left of m. *)
DetColumn(acc, i) ==
  LET p     == PivotRow(acc.m, i)
      m     == Swapped(acc.m, i, p)
      pivot == m[i][i]
  IN  IF acc.det = Zero THEN acc          \* has returned
      ELSE IF pivot = Zero THEN [acc EXCEPT !.det = Zero]
      ELSE [det |-> Times(IF p = i THEN acc.det ELSE Negated(acc.det), pivot),
            m   |-> [k \in 1 .. Len(m) |-> IF k <= i THEN m[k]
                                           ELSE Cleared(m[k], m[i], Over(m[k][i], pivot))]]

compute_determinant(m) ==
  FoldLeft(DetColumn, [det |-> One, m |-> m.cells], [i \in 1 .. m.rows |-> i]).det

det(s) == IF IsSquare(s) THEN Return(s, 1, Float(compute_determinant(AsShape(s[1])))) ELSE Raise(s)

(* The mutant of InvColumn that exchanges the rows of m only. *)
InvColumnNoSwap(acc, i) ==
  LET m     == Swapped(acc.m, i, PivotRow(acc.m, i))
      pivot == m[i][i]
      unit  == Scaled(m[i], Over(One, pivot))
      vnit  == Scaled(acc.inv[i], Over(One, pivot))
  IN  IF acc.singular \/ pivot = Zero THEN [acc EXCEPT !.singular = TRUE]
      ELSE [singular |-> FALSE,
            m   |-> [k \in 1 .. Len(m) |-> IF k = i THEN unit ELSE Cleared(m[k], unit, m[k][i])],
            inv |-> [k \in 1 .. Len(m) |-> IF k = i THEN vnit ELSE Cleared(acc.inv[k], vnit, m[k][i])]]

(* One column of compute_inverse; inv takes every step that m takes. *)
InvColumn(acc, i) ==
  LET p     == PivotRow(acc.m, i)
      m     == Swapped(acc.m, i, p)
      inv   == Swapped(acc.inv, i, p)
      pivot == m[i][i]
      unit  == Scaled(m[i], Over(One, pivot))
      vnit  == Scaled(inv[i], Over(One, pivot))
  IN  IF acc.singular \/ pivot = Zero THEN [acc EXCEPT !.singular = TRUE]
      ELSE [singular |-> FALSE,
            m   |-> [k \in 1 .. Len(m) |-> IF k = i THEN unit ELSE Cleared(m[k], unit, m[k][i])],
            inv |-> [k \in 1 .. Len(m) |-> IF k = i THEN vnit ELSE Cleared(inv[k], vnit, m[k][i])]]

compute_inverse(m) ==
  FoldLeft(InvColumn, [singular |-> FALSE, m |-> m.cells, inv |-> Identity(m.rows).cells],
           [i \in 1 .. m.rows |-> i])

invert(s) ==
  IF ~IsSquare(s) THEN Raise(s)
  ELSE LET m == AsShape(s[1])
           r == compute_inverse(m)
       IN  IF r.singular THEN Raise(s)
           ELSE Return(s, 1, MatrixList(Shape(m.rows, m.cols, LAMBDA i, j : r.inv[i][j])))
----
\* Native types: a sequence of doubles, and a shape of them.

tovec(s) ==
  IF Has(s, 1) /\ IsA(s[1], "VECTOR") THEN Return(s, 1, s[1])
  ELSE IF Has(s, 1) /\ IsNumericList(s[1]) THEN Return(s, 1, <<"VECTOR", Numbers(s[1])>>)
  ELSE Raise(s)

tomat(s) ==
  IF Has(s, 1) /\ IsA(s[1], "MATRIX") THEN Return(s, 1, s[1])
  ELSE IF Has(s, 1) /\ IsMatrix(s[1]) THEN Return(s, 1, <<"MATRIX", AsShape(s[1])>>)
  ELSE Raise(s)

(* A matrix without cells comes back as the empty list, whatever its shape. *)
AsList(v) == CASE IsA(v, "VECTOR") -> FloatList(v[2])
               [] IsA(v, "MATRIX") -> MatrixList(v[2])
               [] OTHER            -> v
tolist(s) ==
  IF Has(s, 1) /\ s[1][1] \in {"VECTOR", "MATRIX", "LIST"} THEN Return(s, 1, AsList(s[1])) ELSE Raise(s)

vector_p(s) == IF Has(s, 1) THEN Return(s, 1, Boolean(IsA(s[1], "VECTOR"))) ELSE Raise(s)
matrix_p(s) == IF Has(s, 1) THEN Return(s, 1, Boolean(IsA(s[1], "MATRIX"))) ELSE Raise(s)

ndot(s) ==
  IF Has(s, 2) /\ IsA(s[1], "VECTOR") /\ IsA(s[2], "VECTOR") /\ Len(s[1][2]) = Len(s[2][2])
  THEN Return(s, 2, Float(DotProduct(s[2][2], s[1][2])))
  ELSE Raise(s)

nmv(s) ==
  IF Has(s, 2) /\ IsA(s[1], "VECTOR") /\ IsA(s[2], "MATRIX") /\ s[2][2].cols = Len(s[1][2])
  THEN Return(s, 2, <<"VECTOR", ProductVector(s[2][2], s[1][2])>>)
  ELSE Raise(s)

nmm(s) ==
  IF Has(s, 2) /\ IsA(s[1], "MATRIX") /\ IsA(s[2], "MATRIX") /\ s[2][2].cols = s[1][2].rows
  THEN Return(s, 2, <<"MATRIX", Product(s[2][2], s[1][2])>>)
  ELSE Raise(s)

nvzeros(s) == Counted(s, LAMBDA n : <<"VECTOR", [i \in 1 .. n |-> Zero]>>)
nvones(s)  == Counted(s, LAMBDA n : <<"VECTOR", [i \in 1 .. n |-> One]>>)
nmeye(s)   == Counted(s, LAMBDA n : <<"MATRIX", Identity(n)>>)

NativeFilled(s, x) ==
  IF Has(s, 2) /\ IsIndex(s[1]) /\ IsIndex(s[2])
  THEN Return(s, 2, <<"MATRIX", Shape(s[2][2], s[1][2], LAMBDA r, c : x)>>)
  ELSE Raise(s)
nmzeros(s) == NativeFilled(s, Zero)
nmones(s)  == NativeFilled(s, One)
==============================================================================
