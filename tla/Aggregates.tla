----------------------------- MODULE Aggregates -----------------------------
(***************************************************************************)
(* The builtins on aggregates of src/src/builtin/aggregate.c and sets.c    *)
(* and the comparisons of comparison.c, with the macros of                 *)
(* builtin_macros.h that they are made of.  Lists, strings and sets each   *)
(* have a branch of their own in every builtin.                            *)
(*                                                                         *)
(* A string is a sequence of character codes that are not 0, a set a set   *)
(* of the numbers below SETSIZE, which the code keeps as the bits of a     *)
(* word.  Integers and CHAR_ nodes have 64 bits; the code takes them for   *)
(* an int or a char here and there, which cuts off the upper bits.  No     *)
(* string or list is longer than an int can tell.  Values, stacks and      *)
(* outcomes are those of Matrices.  A set compared with a float compares   *)
(* the bits of the two and is left out.                                    *)
(***************************************************************************)
EXTENDS Matrices, FiniteSetsExt

CONSTANTS
  SETSIZE,     \* the number of bits in a set
  INT_BITS,    \* the number of bits in an int
  CHAR_BITS    \* the number of bits in a char, which has a sign

Set(S)    == <<"SET", S>>
String(c) == <<"STRING", c>>
Char(c)   == <<"CHAR", c>>
Lost      == <<"LOST", 0>>    \* any value, or an error or a fault instead

(* What the conversion of a 64-bit number to a type of so many bits leaves. *)
Narrow(n, bits) == ((n + 2 ^ (bits - 1)) % (2 ^ bits)) - 2 ^ (bits - 1)

Aggregate(v) == v[1] \in {"LIST", "STRING", "SET"}
Ordinal(v)   == v[1] \in {"BOOLEAN", "CHAR", "INTEGER"}

(* A set read as a number: bit SETSIZE - 1 is the sign. *)
AsNumber(S) == SumSet({IF i = SETSIZE - 1 THEN -(2 ^ i) ELSE 2 ^ i : i \in S})

(* A number read as a set: its lowest SETSIZE bits. *)
Bits(n) == {i \in 0 .. SETSIZE - 1 : (n \div 2 ^ i) % 2 = 1}
BitsOf(v) == IF IsA(v, "SET") THEN v[2] ELSE Bits(v[2])

(* CHECKSETMEMBER *)
IsMember(v) == v[1] \in {"INTEGER", "CHAR"} /\ v[2] \in 0 .. SETSIZE - 1
----
\* Comparison.

is_null(v) ==
  CASE Ordinal(v)                         -> v[2] = 0
    [] IsA(v, "SET")                      -> v[2] = {}
    [] v[1] \in {"STRING", "LIST"}        -> v[2] = <<>>
    [] IsA(v, "FLOAT")                    -> v[2] = Zero
    [] OTHER                              -> FALSE

SignOf(below, above) == IF below THEN -1 ELSE IF above THEN 1 ELSE 0

(* strcmp, which has no negative characters. *)
Byte(c) == c % (2 ^ CHAR_BITS)
Precedes(a, b) ==
  \E k \in 0 .. Len(a) :
    /\ \A i \in 1 .. k : i <= Len(b) /\ a[i] = b[i]
    /\ k < Len(b) /\ (k = Len(a) \/ Byte(a[k + 1]) < Byte(b[k + 1]))

Wordlike(v) == v[1] \in {"USR", "STRING"}
Floatable(v) == Ordinal(v) \/ IsA(v, "FLOAT")
AsWord(v)    == IF IsA(v, "SET") THEN AsNumber(v[2]) ELSE v[2]
AsDouble(v)  == IF IsA(v, "FLOAT") THEN v[2] ELSE Whole(v[2])

(* Nothing equals nothing, whatever the types; a value that has no order   *)
(* with the other is not equal, and counts as greater.                     *)
Compare(x, y) ==
  CASE is_null(x) /\ is_null(y)         -> 0
    [] Wordlike(x) /\ Wordlike(y)       -> SignOf(Precedes(x[2], y[2]), Precedes(y[2], x[2]))
    [] (Ordinal(x) \/ IsA(x, "SET")) /\ (Ordinal(y) \/ IsA(y, "SET")) ->
         SignOf(AsWord(x) < AsWord(y), AsWord(x) > AsWord(y))
    [] Floatable(x) /\ Floatable(y)     ->
         SignOf(Below(AsDouble(x), AsDouble(y)), Below(AsDouble(y), AsDouble(x)))
    [] OTHER                            -> 1

Related(s, r(_, _)) == IF Has(s, 2) THEN Return(s, 2, r(s[2], s[1])) ELSE Raise(s)

compare(s) == Related(s, LAMBDA x, y : Integer(Compare(x, y)))
eql(s)     == Related(s, LAMBDA x, y : Boolean(Compare(x, y) = 0))
neql(s)    == Related(s, LAMBDA x, y : Boolean(Compare(x, y) # 0))

(* COMPREL: a set on either side makes sets of both.  Of a list, a string  *)
(* or a float it takes the word that holds it: see Unforeseen.             *)
COMPREL(s, onNumbers(_), onSets(_, _)) ==
  Related(s, LAMBDA x, y :
    Boolean(IF IsA(x, "SET") \/ IsA(y, "SET") THEN onSets(BitsOf(x), BitsOf(y))
            ELSE onNumbers(Compare(x, y))))

Unforeseen(s) == /\ Has(s, 2) /\ \E i \in {1, 2} : IsA(s[i], "SET")
                 /\ \E i \in {1, 2} : ~IsA(s[i], "SET") /\ ~Ordinal(s[i])

geql(s)    == COMPREL(s, LAMBDA c : c >= 0, LAMBDA i, j : j \subseteq i)
greater(s) == COMPREL(s, LAMBDA c : c > 0,  LAMBDA i, j : i # j /\ j \subseteq i)
leql(s)    == COMPREL(s, LAMBDA c : c <= 0, LAMBDA i, j : i \subseteq j)
less(s)    == COMPREL(s, LAMBDA c : c < 0,  LAMBDA i, j : i # j /\ i \subseteq j)

(* equal_aux on lists of lists at most: it descends as long as both are    *)
(* lists, and the lists of the runs nest no deeper.                        *)
EqualFlat(x, y) ==
  IF IsA(x, "LIST") /\ IsA(y, "LIST")
  THEN Len(x[2]) = Len(y[2]) /\ \A i \in 1 .. Len(x[2]) : Compare(x[2][i], y[2][i]) = 0
  ELSE Compare(x, y) = 0
equal_aux(x, y) ==
  IF IsA(x, "LIST") /\ IsA(y, "LIST")
  THEN Len(x[2]) = Len(y[2]) /\ \A i \in 1 .. Len(x[2]) : EqualFlat(x[2][i], y[2][i])
  ELSE Compare(x, y) = 0
equal(s) == Related(s, LAMBDA x, y : Boolean(equal_aux(y, x)))
----
\* Sets and truth values.

ANDORXOR(s, onSets(_, _), onNumbers(_, _)) ==
  IF ~Has(s, 2) \/ s[1][1] # s[2][1] THEN Raise(s)
  ELSE IF IsA(s[1], "SET") THEN Return(s, 2, Set(onSets(s[2][2], s[1][2])))
  ELSE IF Ordinal(s[1]) THEN Return(s, 2, Boolean(onNumbers(s[2][2], s[1][2])))
  ELSE Raise(s)

and(s) == ANDORXOR(s, LAMBDA i, j : i \cap j, LAMBDA m, n : m # 0 /\ n # 0)
or(s)  == ANDORXOR(s, LAMBDA i, j : i \cup j, LAMBDA m, n : m # 0 \/ n # 0)
xor(s) == ANDORXOR(s, LAMBDA i, j : (i \ j) \cup (j \ i), LAMBDA m, n : m # n)

not(s) ==
  IF Has(s, 1) /\ IsA(s[1], "SET") THEN Return(s, 1, Set((0 .. SETSIZE - 1) \ s[1][2]))
  ELSE IF Has(s, 1) /\ Ordinal(s[1]) THEN Return(s, 1, Boolean(s[1][2] = 0))
  ELSE Raise(s)

(* INHAS: a string looks for the number of the element, a set for an       *)
(* element it could have, a list for one that compares equal.  The code    *)
(* takes any element for a number of a character; the model looks for      *)
(* ordinals only.                                                          *)
INHAS(s, aggr, elem) ==
  IF ~Has(s, 2) THEN Raise(s)
  ELSE LET a == s[aggr]
           x == s[elem]
       IN  CASE IsA(a, "SET")    -> IF IsMember(x) THEN Return(s, 2, Boolean(x[2] \in a[2])) ELSE Raise(s)
             [] IsA(a, "STRING") -> Return(s, 2, Boolean(Ordinal(x) /\ \E i \in 1 .. Len(a[2]) : a[2][i] = x[2]))
             [] IsA(a, "LIST")   ->
                  Return(s, 2, Boolean(\E i \in 1 .. Len(a[2]) : Compare(a[2][i], x) = 0))
             [] OTHER            -> Raise(s)
has(s) == INHAS(s, 2, 1)
in(s)  == INHAS(s, 1, 2)
----
\* Taking apart and putting together; each type has a branch of its own.

(* The lowest bit that is set. *)
Lowest(S) == CHOOSE i \in S : \A j \in S : i <= j

(* The mutant of LowestFew that takes one bit fewer. *)
LowestFewOneLess(S, k) == {i \in S : Cardinality({j \in S : j < i}) < k - 1}

(* The k lowest bits that are set; all of them when k is at least as many. *)
LowestFew(S, k) == {i \in S : Cardinality({j \in S : j < i}) < k}

Filled(s) == Has(s, 1) /\ Aggregate(s[1]) /\ ~is_null(s[1])

FirstOf(v) == CASE IsA(v, "LIST")   -> v[2][1]
                [] IsA(v, "STRING") -> Char(v[2][1])
                [] IsA(v, "SET")    -> Integer(Lowest(v[2]))
RestOf(v)  == CASE IsA(v, "LIST")   -> ListOf(Tail(v[2]))
                [] IsA(v, "STRING") -> String(Tail(v[2]))
                [] IsA(v, "SET")    -> Set(v[2] \ {Lowest(v[2])})

first(s) == IF Filled(s) THEN Return(s, 1, FirstOf(s[1])) ELSE Raise(s)
rest(s)  == IF Filled(s) THEN Return(s, 1, RestOf(s[1])) ELSE Raise(s)

uncons(s) ==
  IF Filled(s) THEN Return(<<FirstOf(s[1])>> \o From(s, 1), 0, RestOf(s[1])) ELSE Raise(s)
unswons(s) ==
  IF Filled(s) THEN Return(<<RestOf(s[1])>> \o From(s, 1), 0, FirstOf(s[1])) ELSE Raise(s)

null(s) == IF Has(s, 1) THEN Return(s, 1, Boolean(is_null(s[1]))) ELSE Raise(s)

size(s) ==
  IF ~Has(s, 1) THEN Raise(s)
  ELSE CASE s[1][1] \in {"LIST", "STRING"} -> Return(s, 1, Integer(Len(s[1][2])))
         [] IsA(s[1], "SET")               -> Return(s, 1, Integer(Cardinality(s[1][2])))
         [] OTHER                          -> Raise(s)

small(s) ==
  IF ~Has(s, 1) THEN Raise(s)
  ELSE CASE Ordinal(s[1])                  -> Return(s, 1, Boolean(s[1][2] < 2))
         [] s[1][1] \in {"LIST", "STRING"} -> Return(s, 1, Boolean(Len(s[1][2]) < 2))
         [] IsA(s[1], "SET")               ->
              Return(s, 1, Boolean(s[1][2] = {} \/ s[1][2] \ {Lowest(s[1][2])} = {}))
         [] OTHER                          -> Raise(s)

(* OF_AT: the member at position indx, counted from 0.  An index that the  *)
(* int makes negative is none of a set, the first of a list, and before    *)
(* the beginning of a string.                                              *)
OF_AT(s, aggr, index) ==
  IF ~Has(s, 2) \/ ~IsIndex(s[index]) THEN Raise(s)
  ELSE LET a    == s[aggr]
           indx == Narrow(s[index][2], INT_BITS)
       IN  CASE IsA(a, "SET") /\ indx \in 0 .. Cardinality(a[2]) - 1 ->
                  Return(s, 2, Integer(Lowest(a[2] \ LowestFew(a[2], indx))))
             [] IsA(a, "STRING") /\ indx < Len(a[2])       ->
                  Return(s, 2, IF indx < 0 THEN Lost ELSE Char(a[2][indx + 1]))
             [] IsA(a, "LIST") /\ a[2] # <<>> /\ indx < Len(a[2]) ->
                  Return(s, 2, a[2][Max({indx, 0}) + 1])
             [] OTHER                                      -> Raise(s)
at(s) == OF_AT(s, 2, 1)
of(s) == OF_AT(s, 1, 2)

(* drop and take have removed the count when they find no aggregate. *)
Sliced(s, onSets(_, _), onStrings(_, _), onLists(_, _)) ==
  IF ~Has(s, 2) \/ ~IsIndex(s[1]) THEN Raise(s)
  ELSE LET a == s[2]
           n == Narrow(s[1][2], INT_BITS)
       IN  CASE IsA(a, "SET")    -> Return(s, 2, Set(onSets(a[2], n)))
             [] IsA(a, "STRING") -> Return(s, 2, onStrings(a[2], n))
             [] IsA(a, "LIST")   -> Return(s, 2, ListOf(onLists(a[2], n)))
             [] OTHER            -> Raise(From(s, 1))

Dropped(xs, n) == From(xs, Max({n, 0}))
drop(s) == Sliced(s, LAMBDA S, n : S \ LowestFew(S, n), LAMBDA c, n : String(Dropped(c, n)), Dropped)

(* Counting down to 0 from a negative number takes all there is; but the   *)
(* string is ended where the number says, before its beginning.            *)
Taken(xs, n)  == IF n < 0 \/ n >= Len(xs) THEN xs ELSE SubSeq(xs, 1, n)
take(s) == Sliced(s, LAMBDA S, n : IF n < 0 THEN S ELSE LowestFew(S, n),
                     LAMBDA c, n : IF n < 0 THEN Lost ELSE String(Taken(c, n)), Taken)

(* CONS_SWONS: a set takes a member it can have, a string a character; the *)
(* character 0 ends the string.                                            *)
CONS_SWONS(s, aggr, elem) ==
  IF ~Has(s, 2) THEN Raise(s)
  ELSE LET a == s[aggr]
           x == s[elem]
           c == Narrow(x[2], CHAR_BITS)
       IN  CASE IsA(a, "LIST")                        -> Return(s, 2, ListOf(<<x>> \o a[2]))
             [] IsA(a, "SET") /\ IsMember(x)          -> Return(s, 2, Set(a[2] \cup {x[2]}))
             [] IsA(a, "STRING") /\ IsA(x, "CHAR")    ->
                  Return(s, 2, String(IF c = 0 THEN <<>> ELSE <<c>> \o a[2]))
             [] OTHER                                 -> Raise(s)
cons(s)  == CONS_SWONS(s, 1, 2)
swons(s) == CONS_SWONS(s, 2, 1)

(* split puts each member to the test of a quotation: it is true of those  *)
(* at the positions passes, and ends in an error at position bad, if there *)
(* is such, with the member as its parameter.                              *)
At(xs, positions) ==
  LET order == SetToSortSeq(positions \cap DOMAIN xs, <) IN [i \in DOMAIN order |-> xs[order[i]]]
split(s, passes, bad) ==
  IF ~Has(s, 2) \/ ~IsA(s[1], "LIST") \/ ~Aggregate(s[2]) THEN Raise(s)
  ELSE LET a  == s[2]
           xs == IF IsA(a, "SET") THEN SetToSortSeq(a[2], <) ELSE a[2]
           Part(positions) == IF IsA(a, "SET") THEN Set(ToSet(At(xs, positions)))
                              ELSE <<a[1], At(xs, positions)>>
           Member(x) == CASE IsA(a, "SET")    -> Integer(x)
                          [] IsA(a, "STRING") -> Char(x)
                          [] IsA(a, "LIST")   -> x
       IN  IF bad \in DOMAIN xs THEN Raise(<<Member(xs[bad])>> \o From(s, 2))
           ELSE Return(<<Part(passes)>> \o From(s, 2), 0, Part(DOMAIN xs \ passes))

concat(s) ==
  IF ~Has(s, 2) \/ s[1][1] # s[2][1] THEN Raise(s)
  ELSE CASE IsA(s[1], "SET")               -> Return(s, 2, Set(s[2][2] \cup s[1][2]))
         [] s[1][1] \in {"LIST", "STRING"} -> Return(s, 2, <<s[1][1], s[2][2] \o s[1][2]>>)
         [] OTHER                          -> Raise(s)

(* swapd, cons and concat, each with its own checks: what an error in one  *)
(* of them leaves is what the ones before it made.                         *)
enconcat(s) ==
  IF ~Has(s, 3) \/ s[1][1] # s[2][1] THEN Raise(s)
  ELSE LET swapped == <<s[1], s[3], s[2]>> \o From(s, 3)
           consed  == cons(swapped)
       IN  IF consed.raised THEN consed ELSE concat(consed.stack)
==============================================================================
