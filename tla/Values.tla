-------------------------------- MODULE Values --------------------------------
(***************************************************************************)
(* A stack that the builtins of Aggregates, of Matrices and of             *)
(* src/src/builtin/dict.c are applied to, a few in a row.                  *)
(*                                                                         *)
(* A dictionary is a table of keys and of indices of nodes.  No builtin    *)
(* changes a table that exists: one that adds, removes or merges makes a   *)
(* copy that shares the nodes of the values.  No root of the collector     *)
(* covers those nodes: a collection takes them all, and what the table     *)
(* then reads is whatever came in their place.  A collection comes with an *)
(* allocation: before, after, or in the middle of a builtin.               *)
(***************************************************************************)
EXTENDS Aggregates, TLC

CONSTANTS
  Subjects,       \* what a behaviour is about
  Builtins,       \* of each subject, the builtins that are applied
  InitialStacks,  \* of each subject, what the stack holds at first: literals
  Literals,       \* of each subject, the literals that are pushed later
  MaxOps,         \* of each subject, how many terms there are in a row
  MaxStack,       \* a literal or a copy is pushed on fewer values only
  TYPES_SIZE,     \* the bytes of a string that a node holds
  NODE_SIZE       \* the bytes of each further node

VARIABLES
  subject,  \* chosen at first
  stack,    \* values, the top first
  tables,   \* the tables of dictionaries: pairs <<key, node>> in the order of the hash table
  nodes,    \* the nodes that tables refer to
  last,     \* the builtin that was applied last
  raised,   \* whether it ended in an error
  ops       \* how many terms there have been

vars == <<subject, stack, tables, nodes, last, raised, ops>>

Dict(h) == <<"DICT", h>>

(* The node of each key; kh_put keeps one pair for a key. *)
Keys(h)    == {tables[h][i][1] : i \in 1 .. Len(tables[h])}
NodeOf(h, k) == (CHOOSE i \in 1 .. Len(tables[h]) : tables[h][i][1] = k)
Table(h)   == [k \in Keys(h) |-> tables[h][NodeOf(h, k)][2]]
Value(h, k) == nodes[Table(h)[k]]

Init ==
  /\ subject \in Subjects
  /\ stack \in InitialStacks[subject]
  /\ tables = <<>> /\ nodes = <<>>
  /\ last = "" /\ raised = FALSE /\ ops = 0

(* No part of v is lost; a lost value may be anything. *)
Known(v) ==
  /\ v # Lost
  /\ IsA(v, "LIST") => \A x \in ToSet(v[2]) : x # Lost /\ (IsA(x, "LIST") => Lost \notin ToSet(x[2]))

(* Builtin f may be applied to what is on the stack. *)
Applies(f) ==
  /\ f \in Builtins[subject] /\ ops < MaxOps[subject] /\ ops' = ops + 1
  /\ \A i \in 1 .. Len(stack) : Known(stack[i])
  /\ last' = f /\ UNCHANGED subject

Leaves(r) == stack' = r.stack /\ raised' = r.raised

(* A builtin that has nothing to do with dictionaries. *)
Does(f, builtin(_)) == Applies(f) /\ Leaves(builtin(stack)) /\ UNCHANGED <<tables, nodes>>

(* A relation of a set and a value whose word is not known. *)
Relates(f, builtin(_)) ==
  \/ ~Unforeseen(stack) /\ Does(f, builtin)
  \/ /\ Unforeseen(stack) /\ Applies(f) /\ UNCHANGED <<tables, nodes>>
     /\ \E b \in BOOLEAN : Leaves(Return(stack, 2, Boolean(b)))

(* build_matrix makes the list of one row after the other and keeps the    *)
(* head and the last of the rows in variables that no root covers: when a  *)
(* later row starts a collection, the list is lost.                        *)
Broken(r) ==
  /\ ~r.raised /\ IsA(r.stack[1], "LIST") /\ Len(r.stack[1][2]) >= 2
  /\ stack' = <<Lost>> \o From(r.stack, 1) /\ raised' = FALSE
  /\ nodes' = [i \in 1 .. Len(nodes) |-> Lost] /\ UNCHANGED tables
Builds(f, builtin(_)) == Does(f, builtin) \/ (Applies(f) /\ Broken(builtin(stack)))

(* split, with a test that no two members need pass alike. *)
Splits ==
  /\ Applies("split") /\ UNCHANGED <<tables, nodes>>
  /\ LET positions == IF Has(stack, 2) /\ Aggregate(stack[2])
                      THEN 1 .. size(<<stack[2]>>).stack[1][2] ELSE {}
     IN  \E passes \in SUBSET positions, bad \in positions \cup {0} :
           Leaves(split(stack, passes, bad))
----
\* Dictionaries.

IsDict(i)   == IsA(stack[i], "DICT")
IsString(i) == IsA(stack[i], "STRING")

(* A new table for the function t; the hash table puts its keys in an      *)
(* order of its own.  The dictionary replaces the topmost k values.        *)
PushTable(k, t, values) ==
  /\ \E order \in SetToSeqs(DOMAIN t) :
       tables' = Append(tables, [i \in 1 .. Len(order) |-> <<order[i], t[order[i]]>>])
  /\ nodes' = nodes \o values
  /\ Leaves(Return(stack, k, Dict(Len(tables) + 1)))

(* A builtin f that makes a dictionary when its parameters are right. *)
Makes(f, right, k, t, values) ==
  /\ Applies(f)
  /\ IF right THEN PushTable(k, t, values) ELSE Leaves(Raise(stack)) /\ UNCHANGED <<tables, nodes>>

(* A builtin f that only reads dictionaries. *)
Reads(f, right, k, v) ==
  /\ Applies(f)
  /\ Leaves(IF right THEN Return(stack, k, v) ELSE Raise(stack))
  /\ UNCHANGED <<tables, nodes>>

dempty == Makes("dempty", TRUE, 0, <<>>, <<>>)

dput ==
  LET key == stack[2][2]
      old == Table(stack[3][2])     \* dict_copy
  IN  Makes("dput", Has(stack, 3) /\ IsDict(3) /\ IsString(2), 3,
            (key :> Len(nodes) + 1) @@ old, <<stack[1]>>)

(* The mutant of ddel that forgets dict_copy. *)
ddelInPlace ==
  LET right == Has(stack, 2) /\ IsString(1) /\ IsDict(2)
      h     == stack[2][2]
  IN  /\ Applies("ddel")
      /\ IF right
         THEN /\ tables' = [tables EXCEPT ![h] = SelectSeq(@, LAMBDA e : e[1] # stack[1][2])]
              /\ Leaves(Return(stack, 2, stack[2]))
         ELSE UNCHANGED tables /\ Leaves(Raise(stack))
      /\ UNCHANGED nodes

ddel ==
  LET old == Table(stack[2][2])
  IN  Makes("ddel", Has(stack, 2) /\ IsString(1) /\ IsDict(2), 2,
            [k \in DOMAIN old \ {stack[1][2]} |-> old[k]], <<>>)

dmerge ==
  Makes("dmerge", Has(stack, 2) /\ IsDict(1) /\ IsDict(2), 2,
        Table(stack[1][2]) @@ Table(stack[2][2]), <<>>)

(* A list of pairs; of two pairs with one key the later counts. *)
IsPair(v) == IsA(v, "LIST") /\ Len(v[2]) >= 2 /\ IsA(v[2][1], "STRING")
IsPairs(v) == IsA(v, "LIST") /\ \A i \in 1 .. Len(v[2]) : IsPair(v[2][i])
LastWith(pairs, key) ==
  CHOOSE i \in 1 .. Len(pairs) :
    pairs[i][2][1][2] = key /\ \A j \in i + 1 .. Len(pairs) : pairs[j][2][1][2] # key

(* A collection in the middle of builtin f, which keeps indices of nodes   *)
(* in variables of C: what it goes on with, they do not tell.              *)
Disturbed(f) ==
  /\ Applies(f)
  /\ stack' = <<Lost>> \o From(stack, 1) /\ raised' = FALSE
  /\ nodes' = [i \in 1 .. Len(nodes) |-> Lost] /\ UNCHANGED tables

(* todict copies the value of a pair while it knows the pair, and so the   *)
(* next, by its index.                                                     *)
todictDisturbed ==
  /\ Has(stack, 1) /\ IsA(stack[1], "LIST") /\ stack[1][2] # <<>> /\ IsPair(stack[1][2][1])
  /\ Disturbed("todict")

todict ==
  LET pairs == stack[1][2]
      keys  == {pairs[i][2][1][2] : i \in 1 .. Len(pairs)}
  IN  Makes("todict", Has(stack, 1) /\ IsPairs(stack[1]), 1,
            [key \in keys |-> Len(nodes) + LastWith(pairs, key)],
            [i \in 1 .. Len(pairs) |-> pairs[i][2][2]])

dget ==
  Reads("dget", Has(stack, 2) /\ IsString(1) /\ IsDict(2) /\ stack[1][2] \in Keys(stack[2][2]),
        2, Value(stack[2][2], stack[1][2]))

dgetd ==
  Reads("dgetd", Has(stack, 3) /\ IsString(2) /\ IsDict(3), 3,
        IF stack[2][2] \in Keys(stack[3][2]) THEN Value(stack[3][2], stack[2][2]) ELSE stack[1])

dhas ==
  Reads("dhas", Has(stack, 2) /\ IsString(1) /\ IsDict(2), 2,
        Boolean(stack[1][2] \in Keys(stack[2][2])))

dsize == Reads("dsize", Has(stack, 1) /\ IsDict(1), 1, Integer(Len(tables[stack[1][2]])))

dict == Reads("dict", Has(stack, 1), 1, Boolean(IsDict(1)))

(* The nodes that newnode takes for a value; a string has a 0 at its end. *)
NodesOf(v) ==
  1 + IF IsA(v, "STRING") /\ Len(v[2]) + 1 > TYPES_SIZE
      THEN (Len(v[2]) - TYPES_SIZE) \div NODE_SIZE + 1 ELSE 0

(* What member makes of the pairs of the table, in the table's order.  The *)
(* builtin asks ensure_capacity for some nodes first; when they are not    *)
(* enough for the table, a collection may come while it links the list.    *)
ListTable(f, member(_), enough(_)) ==
  \/ Reads(f, Has(stack, 1) /\ IsDict(1), 1,
           ListOf([i \in 1 .. Len(tables[stack[1][2]]) |-> member(tables[stack[1][2]][i])]))
  \/ Has(stack, 1) /\ IsDict(1) /\ ~enough(tables[stack[1][2]]) /\ Disturbed(f)

KeyOf(e)  == String(e[1])
ValueOf(e) == nodes[e[2]]
PairOf(e) == ListOf(<<KeyOf(e), ValueOf(e)>>)

(* One node for each key or value, four for each pair.  Of a value that is *)
(* lost nobody knows how many it takes.                                    *)
EnoughFor(member(_), t) == \A i \in DOMAIN t : member(t[i]) # Lost /\ NodesOf(member(t[i])) = 1
EnoughForPairs(t) ==
  /\ \A i \in DOMAIN t : ValueOf(t[i]) # Lost
  /\ MapThenSumSet(LAMBDA i : NodesOf(KeyOf(t[i])) + NodesOf(ValueOf(t[i])) + 1, DOMAIN t) <= 4 * Len(t)

dkeys    == ListTable("dkeys", KeyOf, LAMBDA t : EnoughFor(KeyOf, t))
dvals    == ListTable("dvals", ValueOf, LAMBDA t : EnoughFor(ValueOf, t))
fromdict == ListTable("fromdict", PairOf, EnoughForPairs)

(* gc1 copies what the stack refers to; the node of a value of a           *)
(* dictionary is not among it.                                             *)
gc ==
  /\ Applies("gc") /\ nodes # <<>>
  /\ nodes' = [i \in 1 .. Len(nodes) |-> Lost]
  /\ raised' = FALSE
  /\ UNCHANGED <<stack, tables>>
----
(* The interpreter pushes a literal. *)
Push ==
  /\ Len(stack) < MaxStack /\ ops < MaxOps[subject] /\ ops' = ops + 1
  /\ \E v \in Literals[subject] : stack' = <<v>> \o stack
  /\ last' = "literal" /\ raised' = FALSE
  /\ UNCHANGED <<subject, tables, nodes>>

dup(s)  == IF Has(s, 1) THEN Return(s, 0, s[1]) ELSE Raise(s)
swap(s) == IF Has(s, 2) THEN Return(<<s[1]>> \o From(s, 2), 0, s[2]) ELSE Raise(s)

VectorStep ==
  \/ Does("v+", vplus)         \/ Does("v-", vminus)       \/ Does("v*", vmul)
  \/ Does("v/", vdiv)          \/ Does("vscale", vscale)   \/ Does("dot", dot)
  \/ Does("vsum", vsum)        \/ Does("vprod", vprod)     \/ Does("vmin", vmin)
  \/ Does("vmax", vmax)        \/ Does("vmean", vmean)     \/ Does("vzeros", vzeros)
  \/ Does("vones", vones)      \/ Does("vrange", vrange)   \/ Does("cross", cross)
  \/ Does("vlinspace", vlinspace)

MatrixStep ==
  \/ Builds("m+", mplus)       \/ Builds("m-", mminus)     \/ Builds("m*", mmul)
  \/ Builds("m/", mdiv)        \/ Builds("mscale", mscale) \/ Builds("mm", mm)
  \/ Builds("transpose", transpose)
  \/ Builds("inv", invert)     \/ Builds("meye", meye)
  \/ Does("mv", mv)            \/ Does("trace", trace)     \/ Does("det", det)

NativeStep ==
  \/ Does("tovec", tovec)      \/ Does("tomat", tomat)     \/ Builds("tolist", tolist)
  \/ Does("vector?", vector_p) \/ Does("matrix?", matrix_p)
  \/ Does("ndot", ndot)        \/ Does("nmv", nmv)         \/ Does("nmm", nmm)
  \/ Does("nvzeros", nvzeros)  \/ Does("nvones", nvones)   \/ Does("nmzeros", nmzeros)
  \/ Does("nmones", nmones)    \/ Does("nmeye", nmeye)

AggregateStep ==
  \/ Does("first", first)      \/ Does("rest", rest)       \/ Does("uncons", uncons)
  \/ Does("unswons", unswons)  \/ Does("null", null)       \/ Does("size", size)
  \/ Does("small", small)      \/ Does("at", at)           \/ Does("of", of)
  \/ Does("drop", drop)        \/ Does("take", take)       \/ Does("cons", cons)
  \/ Does("swons", swons)      \/ Does("concat", concat)   \/ Does("enconcat", enconcat)
  \/ Does("has", has)          \/ Does("in", in)           \/ Splits

LogicStep ==
  \/ Does("compare", compare)  \/ Does("=", eql)           \/ Does("!=", neql)
  \/ Relates(">=", geql)       \/ Relates(">", greater)    \/ Relates("<=", leql)
  \/ Relates("<", less)        \/ Does("equal", equal)
  \/ Does("and", and)          \/ Does("or", or)           \/ Does("xor", xor)
  \/ Does("not", not)

DictionaryStep ==
  \/ dempty \/ dput \/ dget \/ dhas \/ ddel \/ dkeys \/ dvals \/ dsize
  \/ todict \/ todictDisturbed \/ fromdict \/ dict \/ dmerge \/ dgetd
  \/ (Len(stack) < MaxStack /\ Does("dup", dup)) \/ Does("swap", swap)
  \/ gc

Next == VectorStep \/ MatrixStep \/ NativeStep \/ AggregateStep \/ LogicStep \/ DictionaryStep \/ Push

Spec == Init /\ [][Next]_vars
==============================================================================
