----------------------------- MODULE ValuesCheck -----------------------------
(***************************************************************************)
(* What is checked of Values: properties of the steps of one builtin, with *)
(* reference definitions that do not follow the code.                      *)
(***************************************************************************)
EXTENDS Values

Left(k) == From(stack', k)    \* what a builtin leaves below its k results
Kept(k) == From(stack, k)     \* what was below its k parameters

(* A step that applies one of the builtins fs and succeeds. *)
Succeeds(fs) == last' \in fs /\ ~raised'
----
\* Aggregates.

(* The members of an aggregate, a set in ascending order. *)
Members(v) ==
  CASE IsA(v, "LIST")   -> v[2]
    [] IsA(v, "STRING") -> [i \in 1 .. Len(v[2]) |-> Char(v[2][i])]
    [] IsA(v, "SET")    -> [i \in 1 .. Cardinality(v[2]) |-> Integer(SetToSortSeq(v[2], <)[i])]

(* v is of the type of aggregate a and has these members: as often and in  *)
(* this order, unless a is a set.                                          *)
IsLike(v, a, members) ==
  /\ IsA(v, a[1])
  /\ IF IsA(a, "SET") THEN {m[2] : m \in ToSet(Members(v))} = {m[2] : m \in ToSet(members)}
     ELSE Members(v) = members

(* The aggregate of a step and what else it takes, wherever they lie. *)
AggregateOf(f) ==
  CASE f \in {"at", "drop", "take", "swons", "has"} -> stack[2]
    [] OTHER                                        -> stack[1]
OtherOf(f) == IF f \in {"at", "drop", "take", "swons", "has"} THEN stack[1] ELSE stack[2]

TakesApart ==
  Succeeds({"first", "rest", "uncons", "unswons"}) =>
    LET a == stack[1]
        m == Members(a)
    IN  CASE last' = "first"   -> stack'[1] = Head(m) /\ Left(1) = Kept(1)
          [] last' = "rest"    -> IsLike(stack'[1], a, Tail(m)) /\ Left(1) = Kept(1)
          [] last' = "uncons"  -> /\ IsLike(stack'[1], a, Tail(m)) /\ stack'[2] = Head(m)
                                  /\ Left(2) = Kept(1)
          [] last' = "unswons" -> /\ IsLike(stack'[2], a, Tail(m)) /\ stack'[1] = Head(m)
                                  /\ Left(2) = Kept(1)

(* A count that an int can tell, and a member that a string can hold. *)
Countable(x)   == IsIndex(x) /\ x[2] < 2 ^ (INT_BITS - 1)
Storable(x, a) == IsA(a, "STRING") => x[2] # 0 /\ x[2] \in -(2 ^ (CHAR_BITS - 1)) .. 2 ^ (CHAR_BITS - 1) - 1

Measures ==
  Succeeds({"null", "small", "size"}) =>
    LET a == stack[1]
    IN  /\ Left(1) = Kept(1)
        /\ Aggregate(a) =>
             stack'[1] = CASE last' = "size"  -> Integer(Len(Members(a)))
                           [] last' = "null"  -> Boolean(Members(a) = <<>>)
                           [] last' = "small" -> Boolean(Len(Members(a)) < 2)
        /\ Ordinal(a) =>
             \/ last' = "null"  /\ stack'[1] = Boolean(a[2] = 0)
             \/ last' = "small" /\ (a[2] < 0 \/ stack'[1] = Boolean(a[2] \in {0, 1}))

Selects ==
  Succeeds({"at", "of", "drop", "take", "cons", "swons", "has", "in"}) =>
    LET f == last'
        a == AggregateOf(f)
        x == OtherOf(f)
        m == Members(a)
    IN  CASE f \in {"at", "of", "drop", "take"} /\ ~Countable(x) -> TRUE
          [] f \in {"cons", "swons"} /\ ~Storable(x, a)          -> TRUE
          [] f \in {"at", "of"}      -> stack'[1] = m[x[2] + 1] /\ Left(1) = Kept(2)
          [] f = "drop"              -> /\ IsLike(stack'[1], a, [i \in 1 .. Len(m) - x[2] |-> m[i + x[2]]])
                                        /\ Left(1) = Kept(2)
          [] f = "take"              -> /\ IsLike(stack'[1], a, [i \in 1 .. Min({Len(m), x[2]}) |-> m[i]])
                                        /\ Left(1) = Kept(2)
          [] f \in {"cons", "swons"} -> IsLike(stack'[1], a, <<x>> \o m) /\ Left(1) = Kept(2)
          [] f \in {"has", "in"}     ->
               /\ Ordinal(x) => stack'[1] = Boolean(\E i \in 1 .. Len(m) : Compare(m[i], x) = 0)
               /\ Left(1) = Kept(2)

Joins ==
  /\ Succeeds({"concat"}) =>
       /\ IsLike(stack'[1], stack[2], Members(stack[2]) \o Members(stack[1]))
       /\ Left(1) = Kept(2)
  /\ Succeeds({"enconcat"}) /\ Storable(stack[3], stack[1]) =>
       /\ IsLike(stack'[1], stack[2], Members(stack[2]) \o <<stack[3]>> \o Members(stack[1]))
       /\ Left(1) = Kept(3)

(* The members that pass and those that do not, each in their order.  *)
Separates ==
  Succeeds({"split"}) =>
    LET a == stack[2]
        m == Members(a)
    IN  /\ \E passed \in [1 .. Len(m) -> BOOLEAN] :
             LET Those(b) == SelectSeq([i \in 1 .. Len(m) |-> <<i, m[i]>>], LAMBDA im : passed[im[1]] = b)
                 Are(v, b) == IsLike(v, a, [i \in 1 .. Len(Those(b)) |-> Those(b)[i][2]])
             IN  Are(stack'[2], TRUE) /\ Are(stack'[1], FALSE)
        /\ Left(2) = Kept(2)

(* first, rest, uncons and unswons fail on an empty aggregate only, at and *)
(* of where there is no member only.                                       *)
FailsOnlyWhenDue ==
  /\ (raised' /\ last' \in {"first", "rest", "uncons", "unswons"}) =>
       (stack # <<>> /\ Aggregate(stack[1]) => Members(stack[1]) = <<>>)
  /\ (raised' /\ last' \in {"at", "of"} /\ Has(stack, 2)) =>
       (Aggregate(AggregateOf(last')) /\ Countable(OtherOf(last')) =>
          OtherOf(last')[2] >= Len(Members(AggregateOf(last'))))

(* A string and a set are measured, taken apart, searched, cut, split and  *)
(* put together as the list of their members is: the three branches of     *)
(* each of these builtins of aggregate.c agree, at every length, for counts *)
(* and positions that an int can tell and characters that a char can hold. *)
(* (From others the code cuts bits off, and the branches differ.)          *)
AggregatesUniform ==
  [][Measures /\ TakesApart /\ Selects /\ Joins /\ Separates /\ FailsOnlyWhenDue]_vars
----
\* Linear algebra.

Orders(n)  == {p \in [1 .. n -> 1 .. n] : \A i, j \in 1 .. n : i # j => p[i] # p[j]}
Inversions(p) == Cardinality({ij \in (DOMAIN p) \X (DOMAIN p) : ij[1] < ij[2] /\ p[ij[1]] > p[ij[2]]})

(* The sum over all permutations. *)
Leibniz(m) ==
  FoldSet(LAMBDA p, x : LET y == ProductOf([i \in 1 .. m.rows |-> m.cells[i][p[i]]])
                        IN  Plus(x, IF Inversions(p) % 2 = 0 THEN y ELSE Negated(y)),
          Zero, Orders(m.rows))

DeterminantRight ==
  Succeeds({"det"}) => stack'[1] = Float(Leibniz(AsShape(stack[1])))

(* The inverse of a square matrix with cells exists when the determinant   *)
(* is not 0, and gives the identity from either side.                      *)
InverseRight ==
  (last' = "inv" /\ IsSquare(stack) /\ stack[1][2] # <<>>) =>
    LET m == AsShape(stack[1])
    IN  /\ raised' = (Leibniz(m) = Zero)
        /\ (~raised' /\ stack'[1] # Lost) =>
             LET r == AsShape(stack'[1])
             IN  Product(m, r) = Identity(m.rows) /\ Product(r, m) = Identity(m.rows)

HasCells(v) == IsA(v, "MATRIX") => v[2].rows > 0 /\ v[2].cols > 0
AsLists(s)  == [i \in 1 .. Len(s) |-> AsList(s[i])]

(* A native builtin leaves what the builtin on lists leaves for the lists  *)
(* of its parameters.                                                      *)
NativeAsLists ==
  Has(stack, 2) /\ HasCells(stack[1]) /\ HasCells(stack[2]) =>
    /\ Succeeds({"ndot"}) => stack' = dot(AsLists(stack)).stack
    /\ Succeeds({"nmv"})  => AsLists(stack') = mv(AsLists(stack)).stack
    /\ Succeeds({"nmm"})  => AsLists(stack') = mm(AsLists(stack)).stack

(* Cell (i, j) of the transpose is cell (j, i).                            *)
Transposes ==
  Succeeds({"transpose"}) /\ stack'[1] # Lost =>
    LET m == AsShape(stack[1])
    IN  m.cols > 0 => /\ IsMatrix(stack'[1])
                      /\ AsShape(stack'[1]).rows = m.cols
                      /\ \A i \in 1 .. m.rows, j \in 1 .. m.cols :
                           AsShape(stack'[1]).cells[j][i] = m.cells[i][j]

(* Elimination computes the determinant, and the inverse exactly when      *)
(* there is one; the native builtins compute what those on lists compute.  *)
(* A matrix that a collection broke while it was built is none.            *)
LinearAlgebraRight ==
  [][DeterminantRight /\ InverseRight /\ NativeAsLists /\ Transposes]_vars
----
\* Dictionaries.

(* A dictionary as what it is for the program: a function from keys to     *)
(* values, some of them older dictionaries.  View is the stack with its    *)
(* dictionaries seen so, those in pairs and in lists of pairs too.         *)
Functions ==
  LET seen[h \in 1 .. Len(tables)] ==
        [k \in Keys(h) |-> LET v == Value(h, k) IN IF IsA(v, "DICT") THEN <<"DICT", seen[v[2]]>> ELSE v]
  IN  seen
Inside(see(_), v) == IF IsA(v, "LIST") THEN ListOf([i \in 1 .. Len(v[2]) |-> see(v[2][i])]) ELSE v
Seen(v) == IF IsA(v, "DICT") THEN <<"DICT", Functions[v[2]]>> ELSE v
SeenIn(v) == Inside(Seen, Seen(v))
SeenInPairs(v) == Inside(SeenIn, Seen(v))
View == [i \in 1 .. Len(stack) |-> SeenInPairs(stack[i])]

Without(m, k) == [j \in DOMAIN m \ {k} |-> m[j]]
PairsOf(v) == {<<p[2][1][2], p[2][2]>> : p \in ToSet(v[2])}

(* What the comment above each builtin of dict.c says of the view v of its *)
(* parameters and the view w of what it leaves; fail: of when it fails.    *)
Described(f, v, w, fail) ==
  LET D == v[2][2]       \* the dictionary of the builtins D K
      K == v[1][2]
      Gives(k, x) == ~fail /\ w = <<x>> \o From(v, k)
  IN  CASE f = "dempty"   -> Gives(0, <<"DICT", <<>>>>)
        [] f = "dup"      -> Gives(0, v[1])
        [] f = "dput"     -> Gives(3, <<"DICT", (v[2][2] :> v[1]) @@ v[3][2]>>)
        [] f = "dget"     -> IF K \in DOMAIN D THEN Gives(2, D[K]) ELSE fail /\ w = v
        [] f = "dhas"     -> Gives(2, Boolean(K \in DOMAIN D))
        [] f = "ddel"     -> Gives(2, <<"DICT", Without(D, K)>>)
        [] f = "dmerge"   -> Gives(2, <<"DICT", v[1][2] @@ v[2][2]>>)
        [] f = "dsize"    -> Gives(1, Integer(Cardinality(DOMAIN v[1][2])))
        [] f = "dict"     -> Gives(1, Boolean(IsA(v[1], "DICT")))
        [] f = "dgetd"    -> Gives(3, IF v[2][2] \in DOMAIN v[3][2] THEN v[3][2][v[2][2]] ELSE v[1])
        [] f = "dkeys"    -> /\ ~fail /\ From(w, 1) = From(v, 1)
                             /\ {m[2] : m \in ToSet(w[1][2])} = DOMAIN v[1][2]
                             /\ Len(w[1][2]) = Cardinality(DOMAIN v[1][2])
        [] f = "fromdict" -> /\ ~fail /\ From(w, 1) = From(v, 1)
                             /\ PairsOf(w[1]) = {<<k, v[1][2][k]>> : k \in DOMAIN v[1][2]}
                             /\ Len(w[1][2]) = Cardinality(DOMAIN v[1][2])
        [] f = "todict"   -> /\ ~fail /\ From(w, 1) = From(v, 1)
                             /\ {<<k, w[1][2][k]>> : k \in DOMAIN w[1][2]} \subseteq PairsOf(v[1])
                             /\ DOMAIN w[1][2] = {p[1] : p \in PairsOf(v[1])}
        [] OTHER          -> TRUE

(* The parameters have the types that the builtin's comment names. *)
RightTypes(f) ==
  LET Is(i, type) == Has(stack, i) /\ IsA(stack[i], type)
  IN  CASE f \in {"dget", "dhas", "ddel"}               -> Is(2, "DICT") /\ Is(1, "STRING")
        [] f \in {"dput", "dgetd"}                      -> Is(3, "DICT") /\ Is(2, "STRING")
        [] f = "dmerge"                                 -> Is(2, "DICT") /\ Is(1, "DICT")
        [] f \in {"dkeys", "dvals", "dsize", "fromdict"} -> Is(1, "DICT")
        [] f = "todict"                                 -> Has(stack, 1) /\ IsPairs(stack[1])
        [] f \in {"dict", "dup"}                        -> Has(stack, 1)
        [] OTHER                                        -> TRUE

(* dvals gives the values in the order in which dkeys gives the keys. *)
ValuesInOrder ==
  Succeeds({"dvals"}) =>
    stack'[1] = ListOf([i \in 1 .. Len(tables[stack[1][2]]) |->
                          Value(stack[1][2], tables[stack[1][2]][i][1])])

(* A collection fell into the middle of a builtin that loops over pairs.   *)
Spoilt == Succeeds({"todict", "dkeys", "dvals", "fromdict"}) /\ stack'[1] = Lost

(* Every builtin does to dictionaries what its comment in dict.c says as   *)
(* if they were values: whatever else refers to the same dictionary, or to *)
(* one that was copied from it, still sees what it saw.  What a collection *)
(* takes it takes from all of them.  Excepted is what >dict leaves when it *)
(* collects before its end, and dkeys, dvals and dict> when strings need   *)
(* more nodes than these have reserved.                                    *)
DictionariesAreValues ==
  [][~Spoilt =>
       /\ RightTypes(last') => Described(last', View, View', raised')
       /\ ~RightTypes(last') => raised' /\ View' = View
       /\ ValuesInOrder]_vars
==============================================================================
