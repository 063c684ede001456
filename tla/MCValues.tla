------------------------------- MODULE MCValues -------------------------------
(***************************************************************************)
(* The literals that builtins are applied to in the runs of Values.        *)
(***************************************************************************)
EXTENDS ValuesCheck

Ints(ns) == [i \in 1 .. Len(ns) |-> Integer(ns[i])]
IntList(ns) == ListOf(Ints(ns))
SeqsUpTo(S, n) == UNION {[1 .. k -> S] : k \in 0 .. n}

(* Aggregates: strings of two characters, whose codes are also members of  *)
(* sets, lists, and what is no aggregate.                                  *)
Strings    == {String(c) : c \in SeqsUpTo({1, 3}, 2)} \cup {String(<<-2, 1>>)}
Sets       == {Set(S) : S \in {{}, {0}, {1}, {0, 2}, {1, 3}, {0, 1, 2, 3}}}
Lists      == {ListOf(vs) : vs \in SeqsUpTo({Integer(0), Char(1), String(<<3>>)}, 2)}
                \cup {ListOf(<<ListOf(<<>>)>>), ListOf(<<IntList(<<1>>), Set({0})>>),
                      IntList(<<1, 2, 3>>)}
(* An int has the numbers from -8 to 7 here, a char those from -4 to 3.  *)
Scalars    == {Integer(i) : i \in {-1, 0, 1, 2, 5, 8, 15, 17}}
                \cup {Char(c) : c \in {1, 3, 5, 8}} \cup {Boolean(FALSE), Boolean(TRUE)}
Names      == {<<"USR", <<1>>>>, <<"USR", <<1, 3>>>>}
Things     == Strings \cup Sets \cup Lists \cup Scalars \cup Names
AggregateStacks ==
  {<<>>} \cup {<<x>> : x \in Things} \cup {<<x, y>> : x, y \in Things}
  \cup {<<x, y, z>> : x, y \in {String(<<>>), String(<<3, 1>>), Set({1}), Set({0, 3}), IntList(<<1>>), IntList(<<>>)},
                      z \in Scalars \cup {String(<<1>>)}}
  \cup {<<x, y>> : x \in {Float(Fraction(1, 2)), Float(One)}, y \in Scalars \cup {Float(Fraction(1, 2)), Float(Zero)}}

(* Vectors and matrices. *)
Vectors    == {IntList(ns) : ns \in SeqsUpTo({-1, 0, 2}, 2)} \cup {IntList(<<1, 2, -1>>), IntList(<<0, 3, 1>>)}
                \cup {FloatList(<<Fraction(1, 2), Whole(-3)>>), ListOf(<<Integer(1), Char(1)>>)}
ListMatrix(r, c, cells) == ListOf([i \in 1 .. r |-> IntList([j \in 1 .. c |-> cells[(i - 1) * c + j]])])
Squares    == {ListMatrix(2, 2, ns) : ns \in [1 .. 4 -> {-1, 0, 2}]}
Cubes      == {ListMatrix(3, 3, ns) : ns \in {<<0, 1, 2, 3, 0, 1, 1, 1, 0>>, <<1, 2, 3, 2, 4, 6, 0, 1, 1>>,
                                              <<0, 0, 1, 0, 2, 0, 3, 0, 0>>, <<-2, 1, 0, 2, 1, 1, 2, 0, 3>>}}
Oblongs    == {ListMatrix(1, 2, <<2, -1>>), ListMatrix(2, 1, <<1, 3>>), ListMatrix(2, 3, <<1, 2, 3, 4, 5, 6>>),
               ListMatrix(3, 2, <<0, 1, 1, 0, 2, 2>>), ListOf(<<ListOf(<<>>), ListOf(<<>>)>>),
               ListOf(<<IntList(<<1>>), IntList(<<1, 2>>)>>), ListMatrix(1, 1, <<4>>), IntList(<<>>)}
FewSquares == {ListMatrix(2, 2, ns) : ns \in {<<1, 2, 3, 4>>, <<0, 1, 1, 0>>, <<2, 0, 0, 0>>}}
Counts     == {Integer(i) : i \in {-1, 0, 1, 2, 3}} \cup {Float(Fraction(1, 2))}
Native(v)  == tovec(<<v>>).stack[1]
NativeM(v) == tomat(<<v>>).stack[1]
Natives    == {Native(IntList(ns)) : ns \in {<<>>, <<1, 2>>, <<0, -1, 3>>}}
                \cup {NativeM(m) : m \in FewSquares \cup {ListMatrix(2, 3, <<1, 2, 3, 4, 5, 6>>), IntList(<<>>),
                                                         ListMatrix(3, 2, <<0, 1, 1, 0, 2, 2>>)}}
NumberStacks ==
  {<<x>> : x \in Vectors \cup Squares \cup Cubes \cup Oblongs \cup Counts \cup Natives}
  \cup {<<x, y>> : x, y \in Vectors} \cup {<<x, y>> : x \in Counts, y \in Vectors \cup Counts \cup FewSquares}
  \cup {<<x, y>> : x, y \in FewSquares \cup Oblongs} \cup {<<x, y>> : x \in Vectors, y \in FewSquares \cup Oblongs}
  \cup {<<x, y>> : x, y \in Natives}
  \cup {<<x, y, z>> : x, y, z \in {Integer(0), Integer(1), Integer(3), Float(Fraction(1, 2)), Char(1)}}

(* Dictionaries: a key that fits a node and one that does not; numbers and *)
(* strings as values.                                                      *)
MCKeys       == {<<1>>, <<3, 1>>}
PairList(ps) == ListOf([i \in 1 .. Len(ps) |-> ListOf(<<String(ps[i][1]), Integer(ps[i][2])>>)])
PairStacks   == {<<>>} \cup {<<PairList(ps)>> : ps \in {<< <<<<1>>, 1>>, <<<<3, 1>>, 2>> >>, << <<<<1>>, 1>>, <<<<1>>, 2>> >>}}
                  \cup {<<IntList(<<1>>)>>}

Vectorial  == {"v+", "v-", "v*", "v/", "vscale", "dot", "vsum", "vprod", "vmin", "vmax", "vmean",
               "vzeros", "vones", "vrange", "cross", "vlinspace"}
Matricial  == {"m+", "m-", "m*", "m/", "mscale", "mm", "mv", "transpose", "trace", "det", "inv", "meye"}
Natively   == {"tovec", "tomat", "tolist", "vector?", "matrix?", "ndot", "nmv", "nmm", "nvzeros", "nvones",
               "nmzeros", "nmones", "nmeye"}
OfAggregates == {"first", "rest", "uncons", "unswons", "null", "size", "small", "at", "of", "drop", "take",
                 "cons", "swons", "concat", "enconcat", "has", "in", "split"}
Logical    == {"compare", "=", "!=", ">=", ">", "<=", "<", "equal", "and", "or", "xor", "not"}
OfDictionaries == {"dempty", "dput", "dget", "dhas", "ddel", "dkeys", "dvals", "dsize", "todict", "fromdict",
                   "dict", "dmerge", "dgetd", "dup", "swap", "gc"}

MCSubjects == {"aggregates", "numbers", "dictionaries"}
Of(aggregates, numbers, dictionaries) ==
  [x \in MCSubjects |-> CASE x = "aggregates" -> aggregates
                           [] x = "numbers" -> numbers
                           [] x = "dictionaries" -> dictionaries]

MCBuiltins == Of(OfAggregates \cup Logical, Vectorial \cup Matricial \cup Natively, OfDictionaries)
MCStacks   == Of(AggregateStacks, NumberStacks, PairStacks)
MCLiterals == Of({}, {}, {String(k) : k \in MCKeys} \cup {Integer(1)})
MCMaxOps   == Of(1, 1, 6)
==============================================================================
