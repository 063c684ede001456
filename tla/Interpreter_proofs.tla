------------------------- MODULE Interpreter_proofs -------------------------
(***************************************************************************)
(* Theorems about Interpreter, for every program of the builtins that      *)
(* relink no node of the stack or of a list, whatever it defines, however  *)
(* long it runs, and wherever it is collected: no reference dangles, and   *)
(* what is put on the dumps and on conts is removed from them.             *)
(***************************************************************************)
EXTENDS Interpreter, Induction, SequenceTheorems, TLAPS

-----------------------------------------------------------------------------
(* What ReachedFrom computes: a set that grows until nothing is added ends  *)
(* closed.                                                                 *)

More(s) == s \cup ((RefsOf(s) \cap DOMAIN memory) \ library)

Grown(g, s) == IF More(s) = s THEN s ELSE g[More(s)]

LEMMA MoreIs ==
  ASSUME NEW s \in SUBSET DOMAIN memory
  PROVE  /\ More(s) \in SUBSET DOMAIN memory /\ s \subseteq More(s)
         /\ \A n \in s : \A m \in Refs(n) :
              m \in DOMAIN memory /\ m \notin library => m \in More(s)
<1>1. \A n \in s : \A m \in Refs(n) : m \in RefsOf(s)
  BY DEF RefsOf
<1> QED BY <1>1 DEF More

(* A recursive definition of this form has a solution: the fixed point, if *)
(* there is one, that is a member of all sets that s is in and that lead   *)
(* from a set to the one that grows from it.                               *)
LEMMA GrowExists ==
  \E g : g = [s \in SUBSET DOMAIN memory |-> Grown(g, s)]
<1> DEFINE Sets    == SUBSET DOMAIN memory
           Leads(P) == \A x \in P : More(x) \in P
           Path(s) == {r \in Sets : \A P \in SUBSET Sets : s \in P /\ Leads(P) => r \in P}
           Ends(s) == {r \in Path(s) : More(r) = r}
           h == [s \in Sets |-> IF More(s) = s THEN s ELSE CHOOSE r : r \in Ends(s)]
           g == [s \in Sets |-> CHOOSE r : r \in Ends(s)]
<1>1. ASSUME NEW s \in Sets PROVE More(s) \in Sets
  BY MoreIs
<1>2. ASSUME NEW s \in Sets, More(s) = s PROVE Ends(s) = {s}
  <2>1. {s} \in SUBSET Sets /\ s \in {s} /\ Leads({s})
    BY <1>2
  <2>2. \A r \in Path(s) : r \in {s}
    BY <2>1
  <2>3. s \in Path(s)
    OBVIOUS
  <2> QED BY <2>2, <2>3, <1>2
<1>3. ASSUME NEW s \in Sets, More(s) # s PROVE Ends(s) = Ends(More(s))
  <2>1. Path(More(s)) \subseteq Path(s)
    BY <1>1
  <2>2. ASSUME NEW r \in Path(s), r # s PROVE r \in Path(More(s))
    <3> SUFFICES ASSUME NEW P \in SUBSET Sets, More(s) \in P, Leads(P) PROVE r \in P
      BY <2>2
    <3>1. P \cup {s} \in SUBSET Sets /\ s \in P \cup {s} /\ Leads(P \cup {s})
      OBVIOUS
    <3>2. r \in P \cup {s}
      BY <3>1
    <3> QED BY <3>2, <2>2
  <2>3. \A r : r \in Ends(s) <=> r \in Ends(More(s))
    BY <2>1, <2>2, <1>3
  <2> QED BY <2>3
<1> HIDE DEF Ends, Path
<1>4. ASSUME NEW s \in Sets PROVE g[s] = Grown(g, s)
  <2>1. CASE More(s) = s
    BY <2>1, <1>2 DEF Grown
  <2>2. CASE More(s) # s
    BY <2>2, <1>1, <1>3 DEF Grown
  <2> QED BY <2>1, <2>2
<1>5. g = [s \in Sets |-> Grown(g, s)]
  <2> HIDE DEF Sets
  <2> DEFINE k == [s \in Sets |-> Grown(g, s)]
  <2>1. g = k
    BY <1>4
  <2> QED BY <2>1
<1> QED BY <1>5

LEMMA ReachedClosed ==
  ASSUME IsFiniteSet(DOMAIN memory), NEW registers
  PROVE  LET R == ReachedFrom(registers) IN
         /\ R \subseteq DOMAIN memory
         /\ \A r \in registers : root[r] \in DOMAIN memory => root[r] \in R \cup library
         /\ \A n \in R : \A m \in Refs(n) : m \in DOMAIN memory => m \in R \cup library
<1> DEFINE Sets == SUBSET DOMAIN memory
           Grow == CHOOSE g : g = [s \in Sets |-> Grown(g, s)]
           start == ({root[r] : r \in registers} \cap DOMAIN memory) \ library
           Left(s) == Cardinality(DOMAIN memory) - Cardinality(s)
           Right(s) == Grow[s] \in Sets /\ s \subseteq Grow[s] /\ More(Grow[s]) = Grow[s]
           K == {k \in Nat : \A s \in Sets : Left(s) = k => Right(s)}
<1>1. Grow = [s \in Sets |-> Grown(Grow, s)]
  BY GrowExists
<1>2. ReachedFrom(registers) = Grow[start]
  BY DEF ReachedFrom, Grown, More
<1> HIDE DEF Grow
<1>3. ASSUME NEW s \in Sets
      PROVE  Left(s) \in Nat /\ IsFiniteSet(s)
  BY FS_Subset, FS_CardinalityType
<1>4. ASSUME NEW k \in Nat, \A j \in Nat : j < k => j \in K PROVE k \in K
  <2> SUFFICES ASSUME NEW s \in Sets, Left(s) = k PROVE Right(s)
    OBVIOUS
  <2>1. More(s) \in Sets /\ s \subseteq More(s)
    BY MoreIs
  <2>2. Grow[s] = Grown(Grow, s)
    BY <1>1
  <2>3. CASE More(s) = s
    BY <2>2, <2>3 DEF Grown
  <2>4. CASE More(s) # s
    <3>1. Cardinality(s) < Cardinality(More(s))
      <4>1. IsFiniteSet(More(s)) /\ Cardinality(s) \in Nat /\ Cardinality(More(s)) \in Nat
        BY <2>1, <1>3, FS_CardinalityType
      <4>2. Cardinality(s) <= Cardinality(More(s)) /\ Cardinality(s) # Cardinality(More(s))
        BY <2>1, <2>4, <4>1, FS_Subset
      <4> QED BY <4>1, <4>2
    <3>2. Left(More(s)) \in Nat /\ Left(More(s)) < k
      BY <2>1, <3>1, <1>3, FS_CardinalityType
    <3>3. Right(More(s))
      <4> HIDE DEF Right
      <4> QED BY <2>1, <3>2, <1>4
    <3> QED BY <2>1, <2>2, <2>4, <3>3 DEF Grown
  <2> QED BY <2>3, <2>4
<1>5. Nat \subseteq K
  <2> HIDE DEF K
  <2> QED BY <1>4, StrongInd
<1>6. start \in Sets /\ Left(start) \in Nat
  BY <1>3
<1>7. Right(start)
  <2> HIDE DEF Right, Left, start
  <2> QED BY <1>5, <1>6
<1>8. \A r \in registers :
        root[r] \in DOMAIN memory /\ root[r] \notin library => root[r] \in start
  OBVIOUS
<1> HIDE DEF start, Grow
<1>9. Grow[start] \in SUBSET DOMAIN memory /\ start \subseteq Grow[start]
      /\ More(Grow[start]) = Grow[start]
  BY <1>7
<1>10. \A n \in Grow[start] : \A m \in Refs(n) :
         m \in DOMAIN memory /\ m \notin library => m \in Grow[start]
  BY <1>9, MoreIs
<1> QED BY <1>2, <1>8, <1>9, <1>10

-----------------------------------------------------------------------------
(* Operands: the nodes on the way from a register.                         *)

Words    == Registers \cup {"lis", "next"}
Paths    == {o \in Seq(Words) : o # <<>> /\ o[1] \in Registers}
Operands == {Nil} \cup Paths

Hop(o, k, f) ==
  IF k = 1 THEN root[o[1]] ELSE IF o[k] = "lis" THEN Lis(f[k - 1]) ELSE memory[f[k - 1]].next

Walk(o, f) == f = [k \in 1 .. Len(o) |-> Hop(o, k, f)]

LEMMA WalkExists ==
  ASSUME NEW o, Len(o) \in Nat
  PROVE  \E f : Walk(o, f)
<1> DEFINE UpTo(f, m) == \A k \in 1 .. m : f[k] = Hop(o, k, f)
           K == {m \in Nat : \E f : UpTo(f, m)}
<1>1. 0 \in K
  OBVIOUS
<1>2. ASSUME NEW m \in Nat, m \in K PROVE m + 1 \in K
  <2>1. PICK f : UpTo(f, m)
    BY <1>2
  <2> DEFINE g == [k \in 1 .. m + 1 |-> IF k <= m THEN f[k] ELSE Hop(o, k, f)]
  <2>2. ASSUME NEW k \in 1 .. m + 1 PROVE g[k] = Hop(o, k, g)
    <3>1. g[k] = Hop(o, k, f)
      BY <2>1
    <3>2. k # 1 => g[k - 1] = f[k - 1]
      OBVIOUS
    <3> QED BY <3>1, <3>2 DEF Hop
  <2> HIDE DEF g
  <2>3. UpTo(g, m + 1)
    BY <2>2
  <2> QED BY <2>3
<1>3. Len(o) \in K
  <2> HIDE DEF K
  <2> QED BY <1>1, <1>2, NatInd
<1>4. PICK f : UpTo(f, Len(o))
  BY <1>3
<1> DEFINE g == [k \in 1 .. Len(o) |-> f[k]]
<1>5. \A k \in 1 .. Len(o) : Hop(o, k, f) = Hop(o, k, g)
  BY DEF Hop
<1>6. g = [k \in 1 .. Len(o) |-> Hop(o, k, g)]
  BY <1>4, <1>5
<1> QED BY <1>6 DEF Walk

LEMMA WalkUnique ==
  ASSUME NEW o, NEW q, NEW f, NEW g, Walk(o, f), Walk(q, g), NEW n \in Nat,
         Len(o) \in Nat, Len(q) \in Nat,
         n <= Len(o), n <= Len(q), \A k \in 1 .. n : o[k] = q[k]
  PROVE  \A k \in 1 .. n : f[k] = g[k]
<1> DEFINE K == {m \in Nat : m \in 1 .. n => f[m] = g[m]}
<1>1. 0 \in K
  OBVIOUS
<1>2. ASSUME NEW m \in Nat, m \in K PROVE m + 1 \in K
  <2> SUFFICES ASSUME m + 1 \in 1 .. n PROVE f[m + 1] = g[m + 1]
    OBVIOUS
  <2>1. f[m + 1] = Hop(o, m + 1, f) /\ g[m + 1] = Hop(q, m + 1, g)
    <3>1. m + 1 \in 1 .. Len(o) /\ m + 1 \in 1 .. Len(q)
      OBVIOUS
    <3> QED BY <3>1 DEF Walk
  <2>2. m = 0 \/ f[m] = g[m]
    BY <1>2
  <2>3. o[m + 1] = q[m + 1]
    OBVIOUS
  <2> QED BY <2>1, <2>2, <2>3 DEF Hop
<1>3. Nat \subseteq K
  <2> HIDE DEF K
  <2> QED BY <1>1, <1>2, NatInd
<1> QED BY <1>3

LEMMA AtWalk ==
  ASSUME NEW o \in Paths
  PROVE  \E f : Walk(o, f) /\ At(o) = f[Len(o)]
<1>1. Len(o) \in Nat /\ o # Nil
  BY DEF Paths, Nil
<1> DEFINE f == CHOOSE g : g = [k \in 1 .. Len(o) |-> Hop(o, k, g)]
<1>2. At(o) = f[Len(o)]
  BY <1>1 DEF At, Hop
<1>3. Walk(o, f)
  BY <1>1, WalkExists DEF Walk
<1> QED BY <1>2, <1>3

LEMMA AtRegister ==
  ASSUME NEW r \in Registers
  PROVE  <<r>> \in Paths /\ At(<<r>>) = root[r]
<1>1. <<r>> \in Paths
  <2>1. r \in Words
    BY DEF Words
  <2>2. <<r>> \in Seq(Words) /\ <<r>> # <<>> /\ <<r>>[1] = r
    <3> HIDE DEF Words
    <3> QED BY <2>1
  <2> QED BY <2>2 DEF Paths
<1>2. PICK f : Walk(<<r>>, f) /\ At(<<r>>) = f[1]
  BY <1>1, AtWalk
<1> QED BY <1>1, <1>2 DEF Walk, Hop

LEMMA AtHop ==
  ASSUME NEW o \in Paths, NEW h \in {"lis", "next"}
  PROVE  /\ Append(o, h) \in Paths
         /\ At(Append(o, h)) = IF h = "lis" THEN Lis(At(o)) ELSE memory[At(o)].next
<1> DEFINE q == Append(o, h)
<1>1. /\ o \in Seq(Words) /\ Len(o) \in Nat /\ Len(o) >= 1 /\ Len(q) = Len(o) + 1
      /\ \A k \in 1 .. Len(o) : q[k] = o[k]
      /\ q[Len(q)] = h /\ q \in Seq(Words)
  <2>1. o \in Seq(Words) /\ o # <<>>
    BY DEF Paths
  <2>2. Len(o) \in Nat /\ Len(o) # 0
    BY <2>1, EmptySeq, LenProperties
  <2>3. h \in Words
    BY DEF Words
  <2> HIDE DEF Words
  <2> QED BY <2>1, <2>2, <2>3, AppendProperties
<1>2. q \in Paths
  <2>1. o[1] \in Registers
    BY DEF Paths
  <2> HIDE DEF q
  <2>2. q # <<>> /\ q[1] = o[1]
    BY <1>1, EmptySeq
  <2> QED BY <1>1, <2>1, <2>2 DEF Paths
<1> HIDE DEF q
<1>3. PICK f : Walk(o, f) /\ At(o) = f[Len(o)]
  BY AtWalk
<1>4. PICK g : Walk(q, g) /\ At(q) = g[Len(q)]
  BY <1>2, AtWalk
<1>5. g[Len(o)] = f[Len(o)]
  BY <1>1, <1>3, <1>4, WalkUnique
<1>6. g[Len(q)] = Hop(q, Len(q), g)
  <2>1. Len(q) \in 1 .. Len(q)
    BY <1>1
  <2> QED BY <1>4, <2>1 DEF Walk
<1>7. q \in Paths
      /\ At(q) = IF h = "lis" THEN Lis(At(o)) ELSE memory[At(o)].next
  BY <1>1, <1>2, <1>3, <1>4, <1>5, <1>6 DEF Hop
<1> QED BY <1>7 DEF q

(* Where no reference dangles, every operand is a node.                    *)
LEMMA AtLive ==
  ASSUME 0 \in DOMAIN memory, \A n \in DOMAIN memory : Refs(n) \subseteq DOMAIN memory,
         \A r \in Registers : root[r] \in DOMAIN memory,
         NEW o \in Operands
  PROVE  At(o) \in DOMAIN memory
<1>1. CASE o = Nil
  BY <1>1 DEF At
<1>2. CASE o \in Paths
  <2>1. PICK f : Walk(o, f) /\ At(o) = f[Len(o)]
    BY <1>2, AtWalk
  <2>2. Len(o) \in Nat /\ Len(o) >= 1 /\ o[1] \in Registers
    BY <1>2 DEF Paths
  <2> DEFINE K == {m \in Nat : m \in 1 .. Len(o) => f[m] \in DOMAIN memory}
  <2>3. 0 \in K
    OBVIOUS
  <2>4. ASSUME NEW m \in Nat, m \in K PROVE m + 1 \in K
    <3> SUFFICES ASSUME m + 1 \in 1 .. Len(o) PROVE f[m + 1] \in DOMAIN memory
      OBVIOUS
    <3>1. f[m + 1] = Hop(o, m + 1, f)
      BY <2>1 DEF Walk
    <3>2. CASE m = 0
      BY <3>1, <3>2, <2>2 DEF Hop
    <3>3. CASE m # 0
      <4>1. f[m] \in DOMAIN memory
        BY <2>4, <3>3
      <4>2. Lis(f[m]) \in Refs(f[m]) /\ memory[f[m]].next \in Refs(f[m])
        BY DEF Refs
      <4> QED BY <3>1, <3>3, <4>1, <4>2 DEF Hop
    <3> QED BY <3>2, <3>3
  <2>5. Nat \subseteq K
    <3> HIDE DEF K
    <3> QED BY <2>3, <2>4, NatInd
  <2> QED BY <2>1, <2>2, <2>5
<1> QED BY <1>1, <1>2 DEF Operands

-----------------------------------------------------------------------------
(* The builtins that relink nothing: what they assign are registers, new    *)
(* nodes, and the lists that lie on dump1 and dump3.                       *)

(* Those that append to a list in place (filter, map), that put the stack   *)
(* they leave under a copy of their results (unary2 and so on, cleave), or  *)
(* that do both or exchange the stack (construct, while).                  *)
Relinking == {"unary2", "unary3", "unary4", "app12", "cleave", "construct", "filter",
              "map", "while"}

Unlinking == DOMAIN Builtin \ Relinking

Tests == ({"node", "true", "clauses", "local", "forever"} \X Operands)
         \cup ({"is"} \X Operands \X SUBSET {"INTEGER", "BOOLEAN", "LIST"})

Dumps == {dump, dump1, dump2, dump3}

Statics   == {"binrecaux", "condnestrecaux", "linrecaux", "treestepaux"}
Functions == {"genrecaux", "treegenrecaux", "treerecaux"}

(* The instructions without parts. *)
Plain ==
  ({"require"} \X SUBSET Tests)
  \cup ({"assign"} \X {stck, DMP1, DMP3} \X Operands)
  \cup {POP(d) : d \in Dumps}
  \cup ({"copy"} \X {stck} \X Operands \X Operands)
  \cup {Copy(dump2, o, dump2) : o \in Operands}
  \cup ({"list"} \X {stck} \X Operands \X Operands)
  \cup {List(d, o, d) : d \in Dumps, o \in Operands}
  \cup ({"function"} \X Functions)
  \cup ({"number"} \X {"null", "pred", "+", "i", "local"} \X Operands)
  \cup {<<"cons">>, Break, <<"print">>}
  \cup ({"exec"} \X Operands)
  \cup ({"call"} \X Statics)
  \cup ({"result"} \X Tests)
  \cup ({"setcount"} \X Operands)
  \cup ({"count"} \X {-1, 0, 1})

(* And those that have parts. *)
Layer(I) ==
  I \cup ({"if"} \X Tests \X Seq(I) \X Seq(I)) \cup ({"loop"} \X Tests \X Seq(I))

Inner        == Layer(Plain)
Instructions == Layer(Inner)

LEMMA MoreHops ==
  ASSUME NEW o \in Paths, NEW k \in Nat
  PROVE  lis(o) \in Paths /\ next(o, k) \in Paths
<1>1. o \in Seq(Words) /\ o # <<>> /\ o[1] \in Registers
  BY DEF Paths
<1>2. Len(o) \in Nat /\ Len(o) >= 1
  BY <1>1, EmptySeq
<1>3. lis(o) \in Paths
  BY AtHop DEF lis
<1> DEFINE h == [i \in 1 .. k |-> "next"]
<1>4. h \in Seq(Words)
  BY DEF Words
<1> HIDE DEF h
<1>5. o \o h \in Seq(Words) /\ Len(o \o h) = Len(o) + Len(h) /\ (o \o h)[1] = o[1]
  BY <1>1, <1>2, <1>4, ConcatProperties, LenProperties
<1>6. o \o h # <<>>
  BY <1>2, <1>4, <1>5, EmptySeq, LenProperties
<1> QED BY <1>1, <1>3, <1>5, <1>6 DEF next, h, Paths

LEMMA NamedPaths ==
  /\ stck \in Paths /\ dump \in Paths /\ dump1 \in Paths /\ dump2 \in Paths /\ dump3 \in Paths
  /\ Reg("prog") \in Paths
  /\ DMP1 \in Paths /\ DMP2 \in Paths /\ DMP3 \in Paths
  /\ \A k \in Nat : S(k) \in Paths
  /\ \A k \in Nat \ {0} : SAVED(k) \in Paths /\ Quote(k) \in Paths
<1>1. \A r \in Registers : Reg(r) \in Paths
  BY AtRegister DEF Reg
<1>2. /\ stck \in Paths /\ dump \in Paths /\ dump1 \in Paths /\ dump2 \in Paths
      /\ dump3 \in Paths /\ Reg("prog") \in Paths
  BY <1>1 DEF Registers, stck, dump, dump1, dump2, dump3
<1>3. lis(dump) \in Paths /\ DMP1 \in Paths /\ DMP2 \in Paths /\ DMP3 \in Paths
  BY <1>2, MoreHops DEF DMP1, DMP2, DMP3
<1>4. \A k \in Nat : S(k) \in Paths
  BY <1>2, MoreHops DEF S
<1>5. ASSUME NEW k \in Nat \ {0} PROVE SAVED(k) \in Paths /\ Quote(k) \in Paths
  <2>1. k - 1 \in Nat
    OBVIOUS
  <2> QED BY <2>1, <1>3, MoreHops DEF SAVED, Quote
<1> QED BY <1>2, <1>3, <1>4, <1>5

LEMMA Spelled ==
  /\ \A o \in Operands : Node(o) \in Tests /\ True(o) \in Tests /\ Clauses(o) \in Tests
  /\ \A o \in Operands : Is(o, Lists) \in Tests /\ Is(o, {"INTEGER"}) \in Tests
                         /\ Is(o, Numeric) \in Tests /\ Is(o, Numeric \cup Lists) \in Tests
  /\ RESULT \in Tests /\ Forever \in Tests
<1>1. Nil \in Operands
  BY DEF Operands
<1> QED BY <1>1 DEF Node, True, Clauses, Is, Lists, Numeric, RESULT, Forever, Tests

LEMMA Written ==
  /\ \A t \in Tests : Require(t) \in Plain /\ Result(t) \in Plain
  /\ Reset \in Plain
  /\ \A o \in Operands : /\ Assign(stck, o) \in Plain /\ Exec(o) \in Plain
                         /\ SetCount(o) \in Plain /\ CHECKEMPTYLIST(o) \in Plain
                         /\ BADAGGREGATE(o) \in Plain
  /\ \A o, n \in Operands : Copy(stck, o, n) \in Plain /\ List(stck, o, n) \in Plain
  /\ \A o \in Operands : /\ Copy(dump2, o, dump2) \in Plain
                         /\ List(dump1, o, dump1) \in Plain /\ List(dump2, o, dump2) \in Plain
                         /\ List(dump3, o, dump3) \in Plain
                         /\ GNULLARY(o) \in Plain /\ GUNARY(o) \in Plain
                         /\ GBINARY(o) \in Plain /\ GTERNARY(o) \in Plain
  /\ POP(stck) \in Plain /\ POP(dump) \in Plain /\ POP(dump1) \in Plain
  /\ POP(dump2) \in Plain /\ POP(dump3) \in Plain /\ POP(DMP1) \in Plain /\ POP(DMP3) \in Plain
  /\ SAVESTACK \in Plain /\ CHECKSTACK \in Plain /\ CHECKVALUE \in Plain
  /\ <<"cons">> \in Plain /\ Break \in Plain /\ <<"print">> \in Plain
  /\ \A n \in Operands : \A f \in {"null", "pred", "+", "i", "local"} : Number(f, n) \in Plain
  /\ \A f \in Functions : Function(f) \in Plain
  /\ \A f \in Statics : Call(f) \in Plain
  /\ Count(-1) \in Plain /\ Count(0) \in Plain /\ Count(1) \in Plain
  /\ \A n \in Nat \ {0}, q \in Nat : PARAMS(n, q) \in Plain
<1>1. Nil \in Operands /\ \A o \in Paths : o \in Operands
  BY DEF Operands
<1>2. \A t \in Tests : Require(t) \in Plain /\ Result(t) \in Plain
  BY DEF Require, Result, Plain
<1>3. Reset \in Plain
  BY <1>1, <1>2, Spelled DEF Reset
<1>4. \A o \in Operands : CHECKEMPTYLIST(o) \in Plain /\ BADAGGREGATE(o) \in Plain
  BY <1>2, Spelled DEF CHECKEMPTYLIST, BADAGGREGATE
<1>5. CHECKSTACK \in Plain /\ CHECKVALUE \in Plain
  BY <1>1, <1>2, NamedPaths, Spelled DEF CHECKSTACK, CHECKVALUE
<1>6. \A o \in Operands : Assign(stck, o) \in Plain
  BY DEF Assign, Plain
<1>7. \A o \in Operands : Exec(o) \in Plain /\ SetCount(o) \in Plain
  BY DEF Exec, SetCount, Plain
<1>8. \A o, n \in Operands : Copy(stck, o, n) \in Plain /\ List(stck, o, n) \in Plain
  BY DEF Copy, List, Plain
<1>9. \A o \in Operands : Copy(dump2, o, dump2) \in Plain
  BY DEF Plain
<1>10. \A d \in Dumps, o \in Operands : List(d, o, d) \in Plain
  BY DEF Plain
<1>11. \A d \in Dumps : POP(d) \in Plain
  BY DEF Plain
<1>12. dump \in Dumps /\ dump1 \in Dumps /\ dump2 \in Dumps /\ dump3 \in Dumps
  BY DEF Dumps
<1>13. POP(stck) \in Plain
  BY <1>1, <1>6, NamedPaths, MoreHops DEF POP
<1>14. next(DMP1, 1) \in Operands /\ next(DMP3, 1) \in Operands
  BY <1>1, NamedPaths, MoreHops
<1>15. POP(DMP1) \in Plain /\ POP(DMP3) \in Plain
  BY <1>14 DEF POP, Assign, Plain
<1>16. SAVESTACK \in Plain
  BY <1>1, <1>10, <1>12, NamedPaths DEF SAVESTACK
<1>17. \A o \in Operands : /\ GNULLARY(o) \in Plain /\ GUNARY(o) \in Plain
                           /\ GBINARY(o) \in Plain /\ GTERNARY(o) \in Plain
  BY <1>1, <1>8, NamedPaths DEF GNULLARY, GUNARY, GBINARY, GTERNARY
<1>18. <<"cons">> \in Plain /\ Break \in Plain /\ <<"print">> \in Plain
  BY DEF Break, Plain
<1>19. \A n \in Operands : \A f \in {"null", "pred", "+", "i", "local"} : Number(f, n) \in Plain
  BY DEF Number, Plain
<1>20. \A f \in Functions : Function(f) \in Plain
  BY DEF Function, Plain
<1>21. \A f \in Statics : Call(f) \in Plain
  BY DEF Call, Plain
<1>22. Count(-1) \in Plain /\ Count(0) \in Plain /\ Count(1) \in Plain
  BY DEF Count, Plain
<1>23. ASSUME NEW n \in Nat \ {0}, NEW q \in Nat PROVE PARAMS(n, q) \in Plain
  <2>1. Node(S(n - 1)) \in Tests
    BY <1>1, NamedPaths, Spelled
  <2>2. {Is(S(k), Lists) : k \in 0 .. q - 1} \in SUBSET Tests
    BY <1>1, NamedPaths, Spelled
  <2>3. {Node(S(n - 1))} \cup {Is(S(k), Lists) : k \in 0 .. q - 1} \in SUBSET Tests
    BY <2>1, <2>2
  <2> QED BY <2>3 DEF PARAMS, Plain
<1> QED
  BY <1>2, <1>3, <1>4, <1>5, <1>6, <1>7, <1>8, <1>9, <1>10, <1>11, <1>12, <1>13, <1>15,
     <1>16, <1>17, <1>18, <1>19, <1>20, <1>21, <1>22, <1>23


LEMMA Layers ==
  /\ Plain \subseteq Inner /\ Inner \subseteq Instructions
  /\ \A s \in Seq(Plain) : s \in Seq(Inner)
  /\ \A s \in Seq(Inner) : s \in Seq(Instructions)
  /\ \A t \in Tests : \A a, b \in Seq(Plain) : If(t, a, b) \in Inner /\ Loop(t, a) \in Inner
  /\ \A t \in Tests : \A a, b \in Seq(Inner) :
       If(t, a, b) \in Instructions /\ Loop(t, a) \in Instructions
<1>1. ASSUME NEW I, NEW t \in Tests, NEW a \in Seq(I), NEW b \in Seq(I)
      PROVE  If(t, a, b) \in Layer(I) /\ Loop(t, a) \in Layer(I)
  BY DEF Layer, If, Loop
<1>2. ASSUME NEW I PROVE I \subseteq Layer(I)
  BY DEF Layer
<1>3. Plain \subseteq Inner /\ Inner \subseteq Instructions
  BY <1>2 DEF Inner, Instructions
<1>4. /\ \A s \in Seq(Plain) : s \in Seq(Inner)
      /\ \A s \in Seq(Inner) : s \in Seq(Instructions)
  BY <1>3, SeqMonotonic
<1> QED BY <1>1, <1>3, <1>4 DEF Inner, Instructions

LEMMA NamedOperands ==
  /\ Nil \in Operands /\ \A o \in Paths : o \in Operands
  /\ \A o \in Paths : lis(o) \in Paths
  /\ \A o \in Paths : \A k \in Nat : next(o, k) \in Paths
BY MoreHops DEF Operands

(* The operands, tests and instructions that they are written with.       *)
LEMMA OperandsUsed ==
  /\ stck \in Operands /\ SAVED(1) \in Operands /\ SAVED(2) \in Operands
  /\ SAVED(3) \in Operands /\ lis(stck) \in Operands /\ next(lis(stck), 1) \in Operands
  /\ S(1) \in Operands /\ Quote(1) \in Operands /\ next(Quote(1), 1) \in Operands
  /\ S(2) \in Operands /\ SAVED(4) \in Operands /\ Quote(2) \in Operands
  /\ dump1 \in Operands /\ next(DMP1, 1) \in Operands /\ lis(lis(DMP1)) \in Operands
  /\ next(lis(DMP1), 1) \in Operands /\ lis(DMP1) \in Operands /\ Quote(3) \in Operands
  /\ SAVED(5) \in Operands /\ DMP1 \in Operands /\ lis(Quote(1)) \in Operands
  /\ lis(next(Quote(1), 1)) \in Operands /\ lis(next(Quote(1), 2)) \in Operands
  /\ next(Quote(1), 3) \in Operands /\ S(3) \in Operands
  /\ next(lis(lis(stck)), 2) \in Operands /\ next(lis(lis(stck)), 1) \in Operands
  /\ lis(SAVED(2)) \in Operands /\ Quote(4) \in Operands /\ dump2 \in Operands
  /\ DMP2 \in Operands /\ dump3 \in Operands /\ lis(DMP3) \in Operands /\ DMP3 \in Operands
BY NamedPaths, NamedOperands

LEMMA TestsUsed ==
  /\ Is(stck, Numeric \cup Lists) \in Tests /\ Is(stck, Numeric) \in Tests
  /\ Is(stck, {"INTEGER"}) \in Tests /\ Is(S(1), {"INTEGER"}) \in Tests
  /\ True(SAVED(3)) \in Tests /\ True(S(2)) \in Tests /\ Clauses(lis(stck)) \in Tests
  /\ Node(next(DMP1, 1)) \in Tests /\ True(stck) \in Tests /\ RESULT \in Tests
  /\ Is(S(1), Lists) \in Tests /\ Node(DMP1) \in Tests /\ Is(SAVED(3), Lists) \in Tests
  /\ Is(SAVED(3), {"INTEGER"}) \in Tests /\ Forever \in Tests
  /\ Is(SAVED(2), Lists) \in Tests /\ Node(DMP3) \in Tests /\ Is(DMP1, Lists) \in Tests
BY OperandsUsed, Spelled

LEMMA PlainUsed ==
  /\ PARAMS(1, 0) \in Plain /\ POP(stck) \in Plain /\ GNULLARY(stck) \in Plain
  /\ PARAMS(2, 0) \in Plain /\ SAVESTACK \in Plain /\ GBINARY(SAVED(1)) \in Plain
  /\ GNULLARY(SAVED(2)) \in Plain /\ POP(dump) \in Plain /\ PARAMS(3, 0) \in Plain
  /\ GTERNARY(SAVED(2)) \in Plain /\ GNULLARY(SAVED(1)) \in Plain
  /\ GNULLARY(SAVED(3)) \in Plain /\ List(stck, stck, stck) \in Plain
  /\ PARAMS(1, 1) \in Plain /\ Assign(stck, lis(stck)) \in Plain
  /\ BADAGGREGATE(stck) \in Plain /\ CHECKEMPTYLIST(lis(stck)) \in Plain
  /\ GUNARY(lis(stck)) \in Plain /\ List(stck, next(lis(stck), 1), S(1)) \in Plain
  /\ CHECKEMPTYLIST(Quote(1)) \in Plain /\ GUNARY(Quote(1)) \in Plain
  /\ List(stck, next(Quote(1), 1), stck) \in Plain
  /\ Require(Is(stck, Numeric \cup Lists)) \in Plain /\ Number("null", S(1)) \in Plain
  /\ Require(Is(stck, Numeric)) \in Plain /\ Number("pred", S(1)) \in Plain
  /\ Require(Is(stck, {"INTEGER"})) \in Plain /\ Require(Is(S(1), {"INTEGER"})) \in Plain
  /\ Number("+", S(2)) \in Plain /\ <<"cons">> \in Plain /\ PARAMS(3, 2) \in Plain
  /\ Assign(stck, SAVED(4)) \in Plain /\ Exec(Quote(2)) \in Plain
  /\ Exec(Quote(1)) \in Plain /\ GTERNARY(S(1)) \in Plain /\ GTERNARY(stck) \in Plain
  /\ Require(Clauses(lis(stck))) \in Plain /\ Reset \in Plain
  /\ List(dump1, lis(stck), dump1) \in Plain /\ Assign(stck, SAVED(2)) \in Plain
  /\ Exec(lis(lis(DMP1))) \in Plain /\ Result(True(stck)) \in Plain /\ Break \in Plain
  /\ POP(DMP1) \in Plain /\ Exec(next(lis(DMP1), 1)) \in Plain /\ Exec(lis(DMP1)) \in Plain
  /\ POP(dump1) \in Plain /\ PARAMS(3, 3) \in Plain /\ Exec(Quote(3)) \in Plain
  /\ Exec(lis(stck)) \in Plain /\ CHECKVALUE \in Plain
  /\ Copy(stck, stck, SAVED(2)) \in Plain /\ PARAMS(2, 1) \in Plain
  /\ Copy(stck, stck, SAVED(3)) \in Plain /\ PARAMS(3, 1) \in Plain
  /\ Copy(stck, stck, SAVED(4)) \in Plain /\ PARAMS(4, 1) \in Plain
  /\ Copy(stck, stck, SAVED(5)) \in Plain /\ Assign(stck, S(2)) \in Plain
  /\ Require(Is(S(1), Lists)) \in Plain /\ Assign(stck, Quote(2)) \in Plain
  /\ List(stck, stck, SAVED(3)) \in Plain /\ BADAGGREGATE(SAVED(2)) \in Plain
  /\ List(dump1, Quote(2), dump1) \in Plain /\ GNULLARY(DMP1) \in Plain
  /\ SetCount(SAVED(2)) \in Plain /\ Count(-1) \in Plain /\ Count(1) \in Plain
  /\ Copy(stck, DMP1, SAVED(3)) \in Plain /\ CHECKSTACK \in Plain
  /\ Number("local", SAVED(3)) \in Plain /\ Count(0) \in Plain /\ PARAMS(4, 4) \in Plain
  /\ Assign(stck, SAVED(5)) \in Plain /\ Call("binrecaux") \in Plain
  /\ Call("condnestrecaux") \in Plain /\ Exec(lis(Quote(1))) \in Plain
  /\ Exec(lis(next(Quote(1), 1))) \in Plain /\ Exec(lis(next(Quote(1), 2))) \in Plain
  /\ List(stck, Quote(1), stck) \in Plain /\ Function("genrecaux") \in Plain
  /\ Exec(next(Quote(1), 3)) \in Plain /\ Call("linrecaux") \in Plain
  /\ Assign(stck, S(3)) \in Plain /\ List(dump1, Quote(3), dump1) \in Plain
  /\ Require(Is(SAVED(3), {"INTEGER"})) \in Plain /\ SetCount(SAVED(3)) \in Plain
  /\ Number("i", stck) \in Plain /\ EnterStack \in Plain /\ Assign(stck, DMP1) \in Plain
  /\ PARAMS(4, 3) \in Plain /\ Function("treegenrecaux") \in Plain
  /\ Exec(next(lis(lis(stck)), 2)) \in Plain /\ Function("treerecaux") \in Plain
  /\ Exec(next(lis(lis(stck)), 1)) \in Plain /\ Assign(stck, SAVED(3)) \in Plain
  /\ List(dump1, lis(SAVED(2)), dump1) \in Plain /\ Call("treestepaux") \in Plain
  /\ Exec(Quote(4)) \in Plain /\ Copy(dump2, stck, dump2) \in Plain
  /\ GNULLARY(dump2) \in Plain /\ POP(dump2) \in Plain
  /\ List(dump1, Quote(1), dump1) \in Plain /\ List(dump2, stck, dump2) \in Plain
  /\ Assign(stck, DMP2) \in Plain /\ List(dump3, next(lis(DMP1), 1), dump3) \in Plain
  /\ List(dump3, lis(DMP1), dump3) \in Plain /\ Exec(lis(DMP3)) \in Plain
  /\ POP(DMP3) \in Plain /\ POP(dump3) \in Plain /\ List(dump1, lis(DMP1), dump1) \in Plain
<1>1. /\ PARAMS(1, 0) \in Plain /\ POP(stck) \in Plain /\ GNULLARY(stck) \in Plain
      /\ PARAMS(2, 0) \in Plain /\ SAVESTACK \in Plain /\ GBINARY(SAVED(1)) \in Plain
      /\ GNULLARY(SAVED(2)) \in Plain /\ POP(dump) \in Plain /\ PARAMS(3, 0) \in Plain
      /\ GTERNARY(SAVED(2)) \in Plain /\ GNULLARY(SAVED(1)) \in Plain
      /\ GNULLARY(SAVED(3)) \in Plain
  BY OperandsUsed, TestsUsed, Written DEF EnterStack, Statics, Functions
<1>2. /\ List(stck, stck, stck) \in Plain /\ PARAMS(1, 1) \in Plain
      /\ Assign(stck, lis(stck)) \in Plain /\ BADAGGREGATE(stck) \in Plain
      /\ CHECKEMPTYLIST(lis(stck)) \in Plain /\ GUNARY(lis(stck)) \in Plain
      /\ List(stck, next(lis(stck), 1), S(1)) \in Plain
      /\ CHECKEMPTYLIST(Quote(1)) \in Plain /\ GUNARY(Quote(1)) \in Plain
      /\ List(stck, next(Quote(1), 1), stck) \in Plain
      /\ Require(Is(stck, Numeric \cup Lists)) \in Plain /\ Number("null", S(1)) \in Plain
  BY OperandsUsed, TestsUsed, Written DEF EnterStack, Statics, Functions
<1>3. /\ Require(Is(stck, Numeric)) \in Plain /\ Number("pred", S(1)) \in Plain
      /\ Require(Is(stck, {"INTEGER"})) \in Plain
      /\ Require(Is(S(1), {"INTEGER"})) \in Plain /\ Number("+", S(2)) \in Plain
      /\ <<"cons">> \in Plain /\ PARAMS(3, 2) \in Plain /\ Assign(stck, SAVED(4)) \in Plain
      /\ Exec(Quote(2)) \in Plain /\ Exec(Quote(1)) \in Plain /\ GTERNARY(S(1)) \in Plain
      /\ GTERNARY(stck) \in Plain
  BY OperandsUsed, TestsUsed, Written DEF EnterStack, Statics, Functions
<1>4. /\ Require(Clauses(lis(stck))) \in Plain /\ Reset \in Plain
      /\ List(dump1, lis(stck), dump1) \in Plain /\ Assign(stck, SAVED(2)) \in Plain
      /\ Exec(lis(lis(DMP1))) \in Plain /\ Result(True(stck)) \in Plain /\ Break \in Plain
      /\ POP(DMP1) \in Plain /\ Exec(next(lis(DMP1), 1)) \in Plain
      /\ Exec(lis(DMP1)) \in Plain /\ POP(dump1) \in Plain /\ PARAMS(3, 3) \in Plain
  BY OperandsUsed, TestsUsed, Written DEF EnterStack, Statics, Functions
<1>5. /\ Exec(Quote(3)) \in Plain /\ Exec(lis(stck)) \in Plain /\ CHECKVALUE \in Plain
      /\ Copy(stck, stck, SAVED(2)) \in Plain /\ PARAMS(2, 1) \in Plain
      /\ Copy(stck, stck, SAVED(3)) \in Plain /\ PARAMS(3, 1) \in Plain
      /\ Copy(stck, stck, SAVED(4)) \in Plain /\ PARAMS(4, 1) \in Plain
      /\ Copy(stck, stck, SAVED(5)) \in Plain /\ Assign(stck, S(2)) \in Plain
      /\ Require(Is(S(1), Lists)) \in Plain
  BY OperandsUsed, TestsUsed, Written DEF EnterStack, Statics, Functions
<1>6. /\ Assign(stck, Quote(2)) \in Plain /\ List(stck, stck, SAVED(3)) \in Plain
      /\ BADAGGREGATE(SAVED(2)) \in Plain /\ List(dump1, Quote(2), dump1) \in Plain
      /\ GNULLARY(DMP1) \in Plain /\ SetCount(SAVED(2)) \in Plain /\ Count(-1) \in Plain
      /\ Count(1) \in Plain /\ Copy(stck, DMP1, SAVED(3)) \in Plain /\ CHECKSTACK \in Plain
      /\ Number("local", SAVED(3)) \in Plain /\ Count(0) \in Plain
  BY OperandsUsed, TestsUsed, Written DEF EnterStack, Statics, Functions
<1>7. /\ PARAMS(4, 4) \in Plain /\ Assign(stck, SAVED(5)) \in Plain
      /\ Call("binrecaux") \in Plain /\ Call("condnestrecaux") \in Plain
      /\ Exec(lis(Quote(1))) \in Plain /\ Exec(lis(next(Quote(1), 1))) \in Plain
      /\ Exec(lis(next(Quote(1), 2))) \in Plain /\ List(stck, Quote(1), stck) \in Plain
      /\ Function("genrecaux") \in Plain /\ Exec(next(Quote(1), 3)) \in Plain
      /\ Call("linrecaux") \in Plain /\ Assign(stck, S(3)) \in Plain
  BY OperandsUsed, TestsUsed, Written DEF EnterStack, Statics, Functions
<1>8. /\ List(dump1, Quote(3), dump1) \in Plain
      /\ Require(Is(SAVED(3), {"INTEGER"})) \in Plain /\ SetCount(SAVED(3)) \in Plain
      /\ Number("i", stck) \in Plain /\ EnterStack \in Plain /\ Assign(stck, DMP1) \in Plain
      /\ PARAMS(4, 3) \in Plain /\ Function("treegenrecaux") \in Plain
      /\ Exec(next(lis(lis(stck)), 2)) \in Plain /\ Function("treerecaux") \in Plain
      /\ Exec(next(lis(lis(stck)), 1)) \in Plain /\ Assign(stck, SAVED(3)) \in Plain
  BY OperandsUsed, TestsUsed, Written DEF EnterStack, Statics, Functions
<1>9. /\ List(dump1, lis(SAVED(2)), dump1) \in Plain /\ Call("treestepaux") \in Plain
      /\ Exec(Quote(4)) \in Plain /\ Copy(dump2, stck, dump2) \in Plain
      /\ GNULLARY(dump2) \in Plain /\ POP(dump2) \in Plain
      /\ List(dump1, Quote(1), dump1) \in Plain /\ List(dump2, stck, dump2) \in Plain
      /\ Assign(stck, DMP2) \in Plain /\ List(dump3, next(lis(DMP1), 1), dump3) \in Plain
      /\ List(dump3, lis(DMP1), dump3) \in Plain /\ Exec(lis(DMP3)) \in Plain
  BY OperandsUsed, TestsUsed, Written DEF EnterStack, Statics, Functions
<1>10. /\ POP(DMP3) \in Plain /\ POP(dump3) \in Plain
      /\ List(dump1, lis(DMP1), dump1) \in Plain
  BY OperandsUsed, TestsUsed, Written DEF EnterStack, Statics, Functions
<1> QED BY <1>1, <1>2, <1>3, <1>4, <1>5, <1>6, <1>7, <1>8, <1>9, <1>10

LEMMA Joined ==
  \A I : \A a, b \in Seq(I) : a \o b \in Seq(I)
BY ConcatProperties

LEMMA Repeats ==
  /\ \A l \in Operands : \A a \in Seq(Plain) :
       Node(l) \in Tests /\ POP(l) \in Plain => Each(l, a) \in Inner
  /\ \A l \in Operands : \A a \in Seq(Inner) :
       Node(l) \in Tests /\ POP(l) \in Plain => Each(l, a) \in Instructions
  /\ \A a \in Seq(Plain) : Times(a) \in Inner
<1>1. ASSUME NEW I, NEW a \in Seq(I), NEW i \in I PROVE Append(a, i) \in Seq(I)
  BY <1>1, AppendProperties
<1> QED BY <1>1, Layers, PlainUsed, TestsUsed DEF Each, Times

LEMMA PlainCodes ==
  /\ pop_ \in Seq(Plain) /\ dup_ \in Seq(Plain) /\ swap_ \in Seq(Plain)
  /\ rolldown_ \in Seq(Plain) /\ stack_ \in Seq(Plain) /\ unstack_ \in Seq(Plain)
  /\ DIPPED(2, pop_) \in Seq(Plain) /\ popd_ \in Seq(Plain)
  /\ DIPPED(3, swap_) \in Seq(Plain) /\ swapd_ \in Seq(Plain) /\ first_ \in Seq(Plain)
  /\ rest_ \in Seq(Plain) /\ uncons_ \in Seq(Plain) /\ null_ \in Seq(Plain)
  /\ pred_ \in Seq(Plain) /\ plus_ \in Seq(Plain) /\ cons_ \in Seq(Plain)
  /\ i_ \in Seq(Plain) /\ x_ \in Seq(Plain) /\ N_ARY(1, SAVED(2)) \in Seq(Plain)
  /\ nullary_ \in Seq(Plain) /\ N_ARY(2, SAVED(3)) \in Seq(Plain) /\ unary_ \in Seq(Plain)
  /\ N_ARY(3, SAVED(4)) \in Seq(Plain) /\ binary_ \in Seq(Plain)
  /\ N_ARY(4, SAVED(5)) \in Seq(Plain) /\ ternary_ \in Seq(Plain) /\ app1_ \in Seq(Plain)
  /\ app11_ \in Seq(Plain) /\ dip_ \in Seq(Plain) /\ infra_ \in Seq(Plain)
  /\ binrec_ \in Seq(Plain) /\ condnestrec_ \in Seq(Plain) /\ condlinrec_ \in Seq(Plain)
  /\ linrec_ \in Seq(Plain) /\ LeaveStack \in Seq(Plain)
<1>1. pop_ \in Seq(Plain)
  BY PlainUsed DEF pop_
<1>2. dup_ \in Seq(Plain)
  BY PlainUsed DEF dup_
<1>3. swap_ \in Seq(Plain)
  BY PlainUsed DEF swap_
<1>4. rolldown_ \in Seq(Plain)
  BY PlainUsed DEF rolldown_
<1>5. stack_ \in Seq(Plain)
  BY PlainUsed DEF stack_
<1>6. unstack_ \in Seq(Plain)
  BY PlainUsed DEF unstack_
<1>7. DIPPED(2, pop_) \in Seq(Plain)
  <2>1. /\ <<PARAMS(2, 0), SAVESTACK, POP(stck)>> \in Seq(Plain)
        /\ <<GNULLARY(SAVED(1)), POP(dump)>> \in Seq(Plain)
    BY PlainUsed
  <2> QED BY <2>1, <1>1, Joined DEF DIPPED
<1>8. popd_ \in Seq(Plain)
  BY <1>7 DEF popd_
<1>9. DIPPED(3, swap_) \in Seq(Plain)
  <2>1. /\ <<PARAMS(3, 0), SAVESTACK, POP(stck)>> \in Seq(Plain)
        /\ <<GNULLARY(SAVED(1)), POP(dump)>> \in Seq(Plain)
    BY PlainUsed
  <2> QED BY <2>1, <1>3, Joined DEF DIPPED
<1>10. swapd_ \in Seq(Plain)
  BY <1>9 DEF swapd_
<1>11. first_ \in Seq(Plain)
  BY PlainUsed DEF first_
<1>12. rest_ \in Seq(Plain)
  BY PlainUsed DEF rest_
<1>13. uncons_ \in Seq(Plain)
  BY PlainUsed DEF uncons_
<1>14. null_ \in Seq(Plain)
  BY PlainUsed DEF null_
<1>15. pred_ \in Seq(Plain)
  BY PlainUsed DEF pred_
<1>16. plus_ \in Seq(Plain)
  BY PlainUsed DEF plus_
<1>17. cons_ \in Seq(Plain)
  BY PlainUsed DEF cons_
<1>18. i_ \in Seq(Plain)
  BY PlainUsed DEF i_
<1>19. x_ \in Seq(Plain)
  BY PlainUsed DEF x_
<1>20. N_ARY(1, SAVED(2)) \in Seq(Plain)
  BY PlainUsed DEF N_ARY
<1>21. nullary_ \in Seq(Plain)
  BY <1>20 DEF nullary_
<1>22. N_ARY(2, SAVED(3)) \in Seq(Plain)
  BY PlainUsed DEF N_ARY
<1>23. unary_ \in Seq(Plain)
  BY <1>22 DEF unary_
<1>24. N_ARY(3, SAVED(4)) \in Seq(Plain)
  BY PlainUsed DEF N_ARY
<1>25. binary_ \in Seq(Plain)
  BY <1>24 DEF binary_
<1>26. N_ARY(4, SAVED(5)) \in Seq(Plain)
  BY PlainUsed DEF N_ARY
<1>27. ternary_ \in Seq(Plain)
  BY <1>26 DEF ternary_
<1>28. app1_ \in Seq(Plain)
  BY PlainUsed DEF app1_
<1>29. app11_ \in Seq(Plain)
  <2>1. <<PARAMS(3, 1)>> \in Seq(Plain)
    BY PlainUsed
  <2> QED BY <2>1, <1>18, <1>8, Joined DEF app11_
<1>30. dip_ \in Seq(Plain)
  BY PlainUsed DEF dip_
<1>31. infra_ \in Seq(Plain)
  BY PlainUsed DEF infra_
<1>32. binrec_ \in Seq(Plain)
  BY PlainUsed DEF binrec_
<1>33. condnestrec_ \in Seq(Plain)
  BY PlainUsed DEF condnestrec_
<1>34. condlinrec_ \in Seq(Plain)
  BY <1>33 DEF condlinrec_
<1>35. linrec_ \in Seq(Plain)
  BY PlainUsed DEF linrec_
<1>36. LeaveStack \in Seq(Plain)
  BY PlainUsed DEF LeaveStack
<1> QED
  BY <1>1, <1>2, <1>3, <1>4, <1>5, <1>6, <1>7, <1>8, <1>9, <1>10, <1>11, <1>12, <1>13,
       <1>14, <1>15, <1>16, <1>17, <1>18, <1>19, <1>20, <1>21, <1>22, <1>23, <1>24, <1>25,
       <1>26, <1>27, <1>28, <1>29, <1>30, <1>31, <1>32, <1>33, <1>34, <1>35, <1>36

LEMMA InnerUsed ==
  /\ If(True(SAVED(3)), <<Exec(Quote(2))>>, <<Exec(Quote(1))>>) \in Inner
  /\ If(True(S(2)), <<GTERNARY(S(1))>>, <<GTERNARY(stck)>>) \in Inner
  /\ If(RESULT, <<Break>>, <<>>) \in Inner
  /\ If(RESULT, <<Exec(next(lis(DMP1), 1))>>, <<Exec(lis(DMP1))>>) \in Inner
  /\ If(RESULT, <<Exec(Quote(2))>>, <<Exec(Quote(1))>>) \in Inner
  /\ Each(DMP1, <<GNULLARY(DMP1), Exec(Quote(1))>>) \in Inner
  /\ Times(<<Exec(Quote(1))>>) \in Inner
  /\ If(RESULT, <<>>, <<Break>>) \in Inner
  /\ If(RESULT, <<Exec(lis(next(Quote(1), 1)))>>, <<Exec(lis(next(Quote(1), 2))), List(stck,
       Quote(1), stck), Function("genrecaux")>> \o cons_ \o <<Exec(next(Quote(1),
       3))>>) \in Inner
  /\ Each(DMP1, <<GNULLARY(DMP1), Count(1)>>) \in Inner
  /\ Loop(RESULT, <<Number("i", stck), Count(-1)>>) \in Inner
  /\ If(RESULT, <<Exec(Quote(2)), Break>>, <<Exec(Quote(1))>>) \in Inner
  /\ If(Is(S(1), Lists), <<SAVESTACK, POP(stck), Exec(lis(next(Quote(1), 1))),
       GNULLARY(SAVED(1)), POP(dump), Function("treegenrecaux")>> \o cons_ \o
       <<Exec(next(lis(lis(stck)), 2))>>, <<List(dump1, lis(stck), dump1), POP(stck),
       Exec(lis(DMP1)), POP(dump1)>>) \in Inner
  /\ If(Is(S(1), Lists), <<Function("treerecaux")>> \o cons_ \o <<Exec(next(lis(lis(stck)),
       1))>>, <<List(dump1, lis(stck), dump1), POP(stck), Exec(lis(DMP1)),
       POP(dump1)>>) \in Inner
  /\ Each(DMP1, <<Call("treestepaux")>>) \in Inner
  /\ If(RESULT, <<Exec(Quote(3))>>, <<Exec(Quote(2)), Copy(dump2, stck, dump2), POP(stck),
       Call("binrecaux"), GNULLARY(dump2), POP(dump2), Call("binrecaux"),
       Exec(Quote(1))>>) \in Inner
  /\ If(RESULT, <<List(dump3, next(lis(DMP1), 1), dump3)>>, <<List(dump3, lis(DMP1),
       dump3)>>) \in Inner
  /\ Each(DMP3, <<Call("condnestrecaux"), Exec(lis(DMP3))>>) \in Inner
  /\ If(RESULT, <<Exec(Quote(3))>>, <<Exec(Quote(2)), Call("linrecaux"),
       Exec(Quote(1))>>) \in Inner
<1>1. If(True(SAVED(3)), <<Exec(Quote(2))>>, <<Exec(Quote(1))>>) \in Inner
  <2>1. /\ <<Exec(Quote(2))>> \in Seq(Plain)
        /\ <<Exec(Quote(1))>> \in Seq(Plain)
    BY PlainUsed
  <2> QED BY <2>1, TestsUsed, Layers
<1>2. If(True(S(2)), <<GTERNARY(S(1))>>, <<GTERNARY(stck)>>) \in Inner
  <2>1. /\ <<GTERNARY(S(1))>> \in Seq(Plain)
        /\ <<GTERNARY(stck)>> \in Seq(Plain)
    BY PlainUsed
  <2> QED BY <2>1, TestsUsed, Layers
<1>3. If(RESULT, <<Break>>, <<>>) \in Inner
  <2>1. /\ <<Break>> \in Seq(Plain)
        /\ <<>> \in Seq(Plain)
    BY PlainUsed
  <2> QED BY <2>1, TestsUsed, Layers
<1>4. If(RESULT, <<Exec(next(lis(DMP1), 1))>>, <<Exec(lis(DMP1))>>) \in Inner
  <2>1. /\ <<Exec(next(lis(DMP1), 1))>> \in Seq(Plain)
        /\ <<Exec(lis(DMP1))>> \in Seq(Plain)
    BY PlainUsed
  <2> QED BY <2>1, TestsUsed, Layers
<1>5. If(RESULT, <<Exec(Quote(2))>>, <<Exec(Quote(1))>>) \in Inner
  <2>1. /\ <<Exec(Quote(2))>> \in Seq(Plain)
        /\ <<Exec(Quote(1))>> \in Seq(Plain)
    BY PlainUsed
  <2> QED BY <2>1, TestsUsed, Layers
<1>6. Each(DMP1, <<GNULLARY(DMP1), Exec(Quote(1))>>) \in Inner
  <2>1. <<GNULLARY(DMP1), Exec(Quote(1))>> \in Seq(Plain)
    BY PlainUsed
  <2> QED BY <2>1, OperandsUsed, TestsUsed, PlainUsed, Layers, Repeats
<1>7. Times(<<Exec(Quote(1))>>) \in Inner
  <2>1. <<Exec(Quote(1))>> \in Seq(Plain)
    BY PlainUsed
  <2> QED BY <2>1, OperandsUsed, TestsUsed, PlainUsed, Layers, Repeats
<1>8. If(RESULT, <<>>, <<Break>>) \in Inner
  <2>1. /\ <<>> \in Seq(Plain)
        /\ <<Break>> \in Seq(Plain)
    BY PlainUsed
  <2> QED BY <2>1, TestsUsed, Layers
<1>9. If(RESULT, <<Exec(lis(next(Quote(1), 1)))>>, <<Exec(lis(next(Quote(1), 2))),
        List(stck, Quote(1), stck), Function("genrecaux")>> \o cons_ \o <<Exec(next(Quote(1),
        3))>>) \in Inner
  <2>1. /\ <<Exec(lis(next(Quote(1), 1)))>> \in Seq(Plain)
        /\ <<Exec(lis(next(Quote(1), 2))), List(stck, Quote(1), stck),
             Function("genrecaux")>> \in Seq(Plain)
        /\ <<Exec(next(Quote(1), 3))>> \in Seq(Plain)
    BY PlainUsed
  <2>2. /\ <<Exec(lis(next(Quote(1), 2))), List(stck, Quote(1), stck),
             Function("genrecaux")>> \o cons_ \o <<Exec(next(Quote(1), 3))>> \in Seq(Plain)
    BY <2>1, PlainCodes, Joined
  <2> QED BY <2>1, <2>2, TestsUsed, Layers
<1>10. Each(DMP1, <<GNULLARY(DMP1), Count(1)>>) \in Inner
  <2>1. <<GNULLARY(DMP1), Count(1)>> \in Seq(Plain)
    BY PlainUsed
  <2> QED BY <2>1, OperandsUsed, TestsUsed, PlainUsed, Layers, Repeats
<1>11. Loop(RESULT, <<Number("i", stck), Count(-1)>>) \in Inner
  <2>1. <<Number("i", stck), Count(-1)>> \in Seq(Plain)
    BY PlainUsed
  <2> QED BY <2>1, TestsUsed, Layers
<1>12. If(RESULT, <<Exec(Quote(2)), Break>>, <<Exec(Quote(1))>>) \in Inner
  <2>1. /\ <<Exec(Quote(2)), Break>> \in Seq(Plain)
        /\ <<Exec(Quote(1))>> \in Seq(Plain)
    BY PlainUsed
  <2> QED BY <2>1, TestsUsed, Layers
<1>13. If(Is(S(1), Lists), <<SAVESTACK, POP(stck), Exec(lis(next(Quote(1), 1))),
        GNULLARY(SAVED(1)), POP(dump), Function("treegenrecaux")>> \o cons_ \o
        <<Exec(next(lis(lis(stck)), 2))>>, <<List(dump1, lis(stck), dump1), POP(stck),
        Exec(lis(DMP1)), POP(dump1)>>) \in Inner
  <2>1. /\ <<SAVESTACK, POP(stck), Exec(lis(next(Quote(1), 1))), GNULLARY(SAVED(1)),
             POP(dump), Function("treegenrecaux")>> \in Seq(Plain)
        /\ <<Exec(next(lis(lis(stck)), 2))>> \in Seq(Plain)
        /\ <<List(dump1, lis(stck), dump1), POP(stck), Exec(lis(DMP1)),
             POP(dump1)>> \in Seq(Plain)
    BY PlainUsed
  <2>2. /\ <<SAVESTACK, POP(stck), Exec(lis(next(Quote(1), 1))), GNULLARY(SAVED(1)),
             POP(dump), Function("treegenrecaux")>> \o cons_ \o <<Exec(next(lis(lis(stck)),
             2))>> \in Seq(Plain)
    BY <2>1, PlainCodes, Joined
  <2> QED BY <2>1, <2>2, TestsUsed, Layers
<1>14. If(Is(S(1), Lists), <<Function("treerecaux")>> \o cons_ \o <<Exec(next(lis(lis(stck)),
        1))>>, <<List(dump1, lis(stck), dump1), POP(stck), Exec(lis(DMP1)),
        POP(dump1)>>) \in Inner
  <2>1. /\ <<Function("treerecaux")>> \in Seq(Plain)
        /\ <<Exec(next(lis(lis(stck)), 1))>> \in Seq(Plain)
        /\ <<List(dump1, lis(stck), dump1), POP(stck), Exec(lis(DMP1)),
             POP(dump1)>> \in Seq(Plain)
    BY PlainUsed
  <2>2. /\ <<Function("treerecaux")>> \o cons_ \o <<Exec(next(lis(lis(stck)),
             1))>> \in Seq(Plain)
    BY <2>1, PlainCodes, Joined
  <2> QED BY <2>1, <2>2, TestsUsed, Layers
<1>15. Each(DMP1, <<Call("treestepaux")>>) \in Inner
  <2>1. <<Call("treestepaux")>> \in Seq(Plain)
    BY PlainUsed
  <2> QED BY <2>1, OperandsUsed, TestsUsed, PlainUsed, Layers, Repeats
<1>16. If(RESULT, <<Exec(Quote(3))>>, <<Exec(Quote(2)), Copy(dump2, stck, dump2), POP(stck),
        Call("binrecaux"), GNULLARY(dump2), POP(dump2), Call("binrecaux"),
        Exec(Quote(1))>>) \in Inner
  <2>1. /\ <<Exec(Quote(3))>> \in Seq(Plain)
        /\ <<Exec(Quote(2)), Copy(dump2, stck, dump2), POP(stck), Call("binrecaux"),
             GNULLARY(dump2), POP(dump2), Call("binrecaux"), Exec(Quote(1))>> \in Seq(Plain)
    BY PlainUsed
  <2> QED BY <2>1, TestsUsed, Layers
<1>17. If(RESULT, <<List(dump3, next(lis(DMP1), 1), dump3)>>, <<List(dump3, lis(DMP1),
        dump3)>>) \in Inner
  <2>1. /\ <<List(dump3, next(lis(DMP1), 1), dump3)>> \in Seq(Plain)
        /\ <<List(dump3, lis(DMP1), dump3)>> \in Seq(Plain)
    BY PlainUsed
  <2> QED BY <2>1, TestsUsed, Layers
<1>18. Each(DMP3, <<Call("condnestrecaux"), Exec(lis(DMP3))>>) \in Inner
  <2>1. <<Call("condnestrecaux"), Exec(lis(DMP3))>> \in Seq(Plain)
    BY PlainUsed
  <2> QED BY <2>1, OperandsUsed, TestsUsed, PlainUsed, Layers, Repeats
<1>19. If(RESULT, <<Exec(Quote(3))>>, <<Exec(Quote(2)), Call("linrecaux"),
        Exec(Quote(1))>>) \in Inner
  <2>1. /\ <<Exec(Quote(3))>> \in Seq(Plain)
        /\ <<Exec(Quote(2)), Call("linrecaux"), Exec(Quote(1))>> \in Seq(Plain)
    BY PlainUsed
  <2> QED BY <2>1, TestsUsed, Layers
<1> QED BY <1>1, <1>2, <1>3, <1>4, <1>5, <1>6, <1>7, <1>8, <1>9, <1>10, <1>11, <1>12, <1>13,
             <1>14, <1>15, <1>16, <1>17, <1>18, <1>19

LEMMA InnerCodes ==
  /\ branch_ \in Seq(Inner) /\ choice_ \in Seq(Inner) /\ ifte_ \in Seq(Inner)
  /\ step_ \in Seq(Inner) /\ fold_ \in Seq(Inner) /\ times_ \in Seq(Inner)
  /\ genrecaux_ \in Seq(Inner) /\ genrec_ \in Seq(Inner) /\ treegenrecaux_ \in Seq(Inner)
  /\ treegenrec_ \in Seq(Inner) /\ treerecaux_ \in Seq(Inner) /\ treerec_ \in Seq(Inner)
  /\ binrecaux \in Seq(Inner) /\ linrecaux \in Seq(Inner)
<1>1. branch_ \in Seq(Inner)
  BY PlainUsed, InnerUsed, Layers DEF branch_
<1>2. choice_ \in Seq(Inner)
  BY PlainUsed, InnerUsed, Layers DEF choice_
<1>3. ifte_ \in Seq(Inner)
  BY PlainUsed, InnerUsed, Layers DEF ifte_
<1>4. step_ \in Seq(Inner)
  BY PlainUsed, InnerUsed, Layers DEF step_
<1>5. fold_ \in Seq(Inner)
  <2>1. <<PARAMS(3, 0)>> \in Seq(Inner)
    BY PlainUsed, InnerUsed, Layers
  <2> QED BY <2>1, <1>4, PlainCodes, Layers, Joined DEF fold_
<1>6. times_ \in Seq(Inner)
  BY PlainUsed, InnerUsed, Layers DEF times_
<1>7. genrecaux_ \in Seq(Inner)
  BY PlainUsed, InnerUsed, Layers DEF genrecaux_
<1>8. genrec_ \in Seq(Inner)
  <2>1. <<PARAMS(4, 4)>> \in Seq(Inner)
    BY PlainUsed, InnerUsed, Layers
  <2> QED BY <2>1, <1>7, PlainCodes, Layers, Joined DEF genrec_
<1>9. treegenrecaux_ \in Seq(Inner)
  BY PlainUsed, InnerUsed, Layers DEF treegenrecaux_
<1>10. treegenrec_ \in Seq(Inner)
  <2>1. <<PARAMS(4, 3)>> \in Seq(Inner)
    BY PlainUsed, InnerUsed, Layers
  <2> QED BY <2>1, <1>9, PlainCodes, Layers, Joined DEF treegenrec_
<1>11. treerecaux_ \in Seq(Inner)
  BY PlainUsed, InnerUsed, Layers DEF treerecaux_
<1>12. treerec_ \in Seq(Inner)
  <2>1. <<PARAMS(3, 2)>> \in Seq(Inner)
    BY PlainUsed, InnerUsed, Layers
  <2> QED BY <2>1, <1>11, PlainCodes, Layers, Joined DEF treerec_
<1>13. binrecaux \in Seq(Inner)
  <2>1. /\ <<EnterStack, Exec(Quote(4))>> \in Seq(Inner)
        /\ <<If(RESULT, <<Exec(Quote(3))>>, <<Exec(Quote(2)), Copy(dump2, stck, dump2),
             POP(stck), Call("binrecaux"), GNULLARY(dump2), POP(dump2), Call("binrecaux"),
             Exec(Quote(1))>>)>> \in Seq(Inner)
    BY PlainUsed, InnerUsed, Layers
  <2> QED BY <2>1, PlainCodes, Layers, Joined DEF binrecaux
<1>14. linrecaux \in Seq(Inner)
  <2>1. /\ <<EnterStack, Exec(Quote(4)), CHECKSTACK>> \in Seq(Inner)
        /\ <<If(RESULT, <<Exec(Quote(3))>>, <<Exec(Quote(2)), Call("linrecaux"),
             Exec(Quote(1))>>)>> \in Seq(Inner)
    BY PlainUsed, InnerUsed, Layers
  <2> QED BY <2>1, PlainCodes, Layers, Joined DEF linrecaux
<1> QED
  BY <1>1, <1>2, <1>3, <1>4, <1>5, <1>6, <1>7, <1>8, <1>9, <1>10, <1>11, <1>12, <1>13, <1>14

LEMMA TopUsed ==
  /\ Loop(Node(next(DMP1, 1)), <<Assign(stck, SAVED(2)), Exec(lis(lis(DMP1))),
       Result(True(stck)), If(RESULT, <<Break>>, <<>>), POP(DMP1)>>) \in Instructions
  /\ Each(DMP1, <<Copy(stck, DMP1, SAVED(3)), Exec(Quote(1)), CHECKSTACK,
       Result(True(stck)), If(RESULT, <<>>, <<Break>>)>>) \in Instructions
  /\ Each(DMP1, <<Copy(stck, DMP1, SAVED(3)), Exec(Quote(1)), CHECKSTACK,
       Result(True(stck)), If(RESULT, <<Break>>, <<>>)>>) \in Instructions
  /\ If(Is(SAVED(3), Lists), <<List(dump1, Quote(3), dump1), Each(DMP1, <<GNULLARY(DMP1),
       Count(1)>>), POP(dump1)>>, <<Require(Is(SAVED(3), {"INTEGER"})), SetCount(SAVED(3)),
       Loop(RESULT, <<Number("i", stck), Count(-1)>>), SetCount(SAVED(3))>>) \in Instructions
  /\ Loop(Forever, <<EnterStack, Exec(Quote(3)), CHECKSTACK>> \o LeaveStack \o <<If(RESULT,
       <<Exec(Quote(2)), Break>>, <<Exec(Quote(1))>>)>>) \in Instructions
  /\ If(Is(SAVED(2), Lists), <<List(dump1, lis(SAVED(2)), dump1), Each(DMP1,
       <<Call("treestepaux")>>), POP(dump1)>>, <<GNULLARY(SAVED(2)),
       Exec(Quote(1))>>) \in Instructions
  /\ Loop(Node(next(DMP1, 1)), <<Assign(stck, DMP2), Exec(lis(lis(DMP1))),
       Result(True(stck)), If(RESULT, <<Break>>, <<>>), POP(DMP1)>>) \in Instructions
  /\ If(Is(DMP1, Lists), <<List(dump1, lis(DMP1), dump1), Each(DMP1,
       <<Call("treestepaux")>>), POP(dump1)>>, <<GNULLARY(DMP1),
       Exec(Quote(1))>>) \in Instructions
<1>1. Loop(Node(next(DMP1, 1)), <<Assign(stck, SAVED(2)), Exec(lis(lis(DMP1))),
        Result(True(stck)), If(RESULT, <<Break>>, <<>>), POP(DMP1)>>) \in Instructions
  <2>1. <<Assign(stck, SAVED(2)), Exec(lis(lis(DMP1))), Result(True(stck)), If(RESULT,
             <<Break>>, <<>>), POP(DMP1)>> \in Seq(Inner)
    BY PlainUsed, InnerUsed, Layers
  <2> QED BY <2>1, TestsUsed, Layers
<1>2. Each(DMP1, <<Copy(stck, DMP1, SAVED(3)), Exec(Quote(1)), CHECKSTACK,
        Result(True(stck)), If(RESULT, <<>>, <<Break>>)>>) \in Instructions
  <2>1. <<Copy(stck, DMP1, SAVED(3)), Exec(Quote(1)), CHECKSTACK, Result(True(stck)),
             If(RESULT, <<>>, <<Break>>)>> \in Seq(Inner)
    BY PlainUsed, InnerUsed, Layers
  <2> QED BY <2>1, OperandsUsed, TestsUsed, PlainUsed, Layers, Repeats
<1>3. Each(DMP1, <<Copy(stck, DMP1, SAVED(3)), Exec(Quote(1)), CHECKSTACK,
        Result(True(stck)), If(RESULT, <<Break>>, <<>>)>>) \in Instructions
  <2>1. <<Copy(stck, DMP1, SAVED(3)), Exec(Quote(1)), CHECKSTACK, Result(True(stck)),
             If(RESULT, <<Break>>, <<>>)>> \in Seq(Inner)
    BY PlainUsed, InnerUsed, Layers
  <2> QED BY <2>1, OperandsUsed, TestsUsed, PlainUsed, Layers, Repeats
<1>4. If(Is(SAVED(3), Lists), <<List(dump1, Quote(3), dump1), Each(DMP1, <<GNULLARY(DMP1),
        Count(1)>>), POP(dump1)>>, <<Require(Is(SAVED(3), {"INTEGER"})), SetCount(SAVED(3)),
        Loop(RESULT, <<Number("i", stck), Count(-1)>>), SetCount(SAVED(3))>>) \in Instructions
  <2>1. /\ <<List(dump1, Quote(3), dump1), Each(DMP1, <<GNULLARY(DMP1), Count(1)>>),
             POP(dump1)>> \in Seq(Inner)
        /\ <<Require(Is(SAVED(3), {"INTEGER"})), SetCount(SAVED(3)), Loop(RESULT,
             <<Number("i", stck), Count(-1)>>), SetCount(SAVED(3))>> \in Seq(Inner)
    BY PlainUsed, InnerUsed, Layers
  <2> QED BY <2>1, TestsUsed, Layers
<1>5. Loop(Forever, <<EnterStack, Exec(Quote(3)), CHECKSTACK>> \o LeaveStack \o <<If(RESULT,
        <<Exec(Quote(2)), Break>>, <<Exec(Quote(1))>>)>>) \in Instructions
  <2>1. /\ <<EnterStack, Exec(Quote(3)), CHECKSTACK>> \in Seq(Inner)
        /\ <<If(RESULT, <<Exec(Quote(2)), Break>>, <<Exec(Quote(1))>>)>> \in Seq(Inner)
    BY PlainUsed, InnerUsed, Layers
  <2>2. /\ <<EnterStack, Exec(Quote(3)), CHECKSTACK>> \o LeaveStack \o <<If(RESULT,
             <<Exec(Quote(2)), Break>>, <<Exec(Quote(1))>>)>> \in Seq(Inner)
    BY <2>1, Layers, PlainCodes, Joined
  <2> QED BY <2>1, <2>2, TestsUsed, Layers
<1>6. If(Is(SAVED(2), Lists), <<List(dump1, lis(SAVED(2)), dump1), Each(DMP1,
        <<Call("treestepaux")>>), POP(dump1)>>, <<GNULLARY(SAVED(2)),
        Exec(Quote(1))>>) \in Instructions
  <2>1. /\ <<List(dump1, lis(SAVED(2)), dump1), Each(DMP1, <<Call("treestepaux")>>),
             POP(dump1)>> \in Seq(Inner)
        /\ <<GNULLARY(SAVED(2)), Exec(Quote(1))>> \in Seq(Inner)
    BY PlainUsed, InnerUsed, Layers
  <2> QED BY <2>1, TestsUsed, Layers
<1>7. Loop(Node(next(DMP1, 1)), <<Assign(stck, DMP2), Exec(lis(lis(DMP1))),
        Result(True(stck)), If(RESULT, <<Break>>, <<>>), POP(DMP1)>>) \in Instructions
  <2>1. <<Assign(stck, DMP2), Exec(lis(lis(DMP1))), Result(True(stck)), If(RESULT,
             <<Break>>, <<>>), POP(DMP1)>> \in Seq(Inner)
    BY PlainUsed, InnerUsed, Layers
  <2> QED BY <2>1, TestsUsed, Layers
<1>8. If(Is(DMP1, Lists), <<List(dump1, lis(DMP1), dump1), Each(DMP1,
        <<Call("treestepaux")>>), POP(dump1)>>, <<GNULLARY(DMP1),
        Exec(Quote(1))>>) \in Instructions
  <2>1. /\ <<List(dump1, lis(DMP1), dump1), Each(DMP1, <<Call("treestepaux")>>),
             POP(dump1)>> \in Seq(Inner)
        /\ <<GNULLARY(DMP1), Exec(Quote(1))>> \in Seq(Inner)
    BY PlainUsed, InnerUsed, Layers
  <2> QED BY <2>1, TestsUsed, Layers
<1> QED BY <1>1, <1>2, <1>3, <1>4, <1>5, <1>6, <1>7, <1>8

LEMMA TopCodes ==
  /\ cond_ \in Seq(Instructions) /\ SOMEALL(1, <<>>, <<Break>>) \in Seq(Instructions)
  /\ all_ \in Seq(Instructions) /\ SOMEALL(0, <<Break>>, <<>>) \in Seq(Instructions)
  /\ some_ \in Seq(Instructions) /\ primrec_ \in Seq(Instructions)
  /\ tailrecaux \in Seq(Instructions) /\ tailrec_ \in Seq(Instructions)
  /\ treestepaux(SAVED(2)) \in Seq(Instructions) /\ treestep_ \in Seq(Instructions)
  /\ condnestrecaux \in Seq(Instructions) /\ treestepaux(DMP1) \in Seq(Instructions)
<1>1. cond_ \in Seq(Instructions)
  BY PlainUsed, InnerUsed, TopUsed, Layers DEF cond_
<1>2. SOMEALL(1, <<>>, <<Break>>) \in Seq(Instructions)
  BY PlainUsed, InnerUsed, TopUsed, Layers DEF SOMEALL
<1>3. all_ \in Seq(Instructions)
  BY <1>2 DEF all_
<1>4. SOMEALL(0, <<Break>>, <<>>) \in Seq(Instructions)
  BY PlainUsed, InnerUsed, TopUsed, Layers DEF SOMEALL
<1>5. some_ \in Seq(Instructions)
  BY <1>4 DEF some_
<1>6. primrec_ \in Seq(Instructions)
  BY PlainUsed, InnerUsed, TopUsed, Layers DEF primrec_
<1>7. tailrecaux \in Seq(Instructions)
  BY PlainUsed, InnerUsed, TopUsed, Layers DEF tailrecaux
<1>8. tailrec_ \in Seq(Instructions)
  <2>1. /\ <<PARAMS(3, 3), SAVESTACK, Assign(stck, SAVED(4))>> \in Seq(Instructions)
        /\ <<POP(dump)>> \in Seq(Instructions)
    BY PlainUsed, InnerUsed, TopUsed, Layers
  <2> QED BY <2>1, <1>7, Layers, Joined DEF tailrec_
<1>9. treestepaux(SAVED(2)) \in Seq(Instructions)
  BY PlainUsed, InnerUsed, TopUsed, Layers DEF treestepaux
<1>10. treestep_ \in Seq(Instructions)
  <2>1. /\ <<PARAMS(2, 1), SAVESTACK, Assign(stck, SAVED(3))>> \in Seq(Instructions)
        /\ <<POP(dump)>> \in Seq(Instructions)
    BY PlainUsed, InnerUsed, TopUsed, Layers
  <2> QED BY <2>1, <1>9, Layers, Joined DEF treestep_
<1>11. condnestrecaux \in Seq(Instructions)
  BY PlainUsed, InnerUsed, TopUsed, Layers DEF condnestrecaux
<1>12. treestepaux(DMP1) \in Seq(Instructions)
  BY PlainUsed, InnerUsed, TopUsed, Layers DEF treestepaux
<1> QED
  BY <1>1, <1>2, <1>3, <1>4, <1>5, <1>6, <1>7, <1>8, <1>9, <1>10, <1>11, <1>12

(* What a builtin of a program executes is written with these instructions. *)
LEMMA BuiltinCodes ==
  /\ \A f \in Unlinking : Builtin[f] \in Seq(Instructions)
  /\ \A f \in Statics : Static[f] \in Seq(Instructions)
  /\ Functions \subseteq Unlinking
<1> DEFINE C == Seq(Instructions)
<1>1. Unlinking = {"pop", "dup", "swap", "rolldown", "stack", "unstack", "popd", "swapd",
                      "first", "rest", "uncons", "null", "pred", "plus", "cons", "branch",
                      "choice", "cond", "i", "ifte", "x", "nullary", "unary", "binary",
                      "ternary", "app1", "app11", "dip", "infra", "step", "fold", "times",
                      "all", "some", "binrec", "condnestrec", "condlinrec", "genrec",
                      "genrecaux", "linrec", "primrec", "tailrec", "treegenrec",
                      "treegenrecaux", "treerec", "treerecaux", "treestep"}
  BY DEF Unlinking, Relinking, Builtin
<1>2. /\ Builtin["pop"] \in C /\ Builtin["dup"] \in C /\ Builtin["swap"] \in C
      /\ Builtin["rolldown"] \in C /\ Builtin["stack"] \in C /\ Builtin["unstack"] \in C
      /\ Builtin["popd"] \in C /\ Builtin["swapd"] \in C
  BY PlainCodes, InnerCodes, TopCodes, Layers DEF Builtin
<1>3. /\ Builtin["first"] \in C /\ Builtin["rest"] \in C /\ Builtin["uncons"] \in C
      /\ Builtin["null"] \in C /\ Builtin["pred"] \in C /\ Builtin["plus"] \in C
      /\ Builtin["cons"] \in C /\ Builtin["branch"] \in C
  BY PlainCodes, InnerCodes, TopCodes, Layers DEF Builtin
<1>4. /\ Builtin["choice"] \in C /\ Builtin["cond"] \in C /\ Builtin["i"] \in C
      /\ Builtin["ifte"] \in C /\ Builtin["x"] \in C /\ Builtin["nullary"] \in C
      /\ Builtin["unary"] \in C /\ Builtin["binary"] \in C
  BY PlainCodes, InnerCodes, TopCodes, Layers DEF Builtin
<1>5. /\ Builtin["ternary"] \in C /\ Builtin["app1"] \in C /\ Builtin["app11"] \in C
      /\ Builtin["dip"] \in C /\ Builtin["infra"] \in C /\ Builtin["step"] \in C
      /\ Builtin["fold"] \in C /\ Builtin["times"] \in C
  BY PlainCodes, InnerCodes, TopCodes, Layers DEF Builtin
<1>6. /\ Builtin["all"] \in C /\ Builtin["some"] \in C /\ Builtin["binrec"] \in C
      /\ Builtin["condnestrec"] \in C /\ Builtin["condlinrec"] \in C
      /\ Builtin["genrec"] \in C /\ Builtin["genrecaux"] \in C /\ Builtin["linrec"] \in C
  BY PlainCodes, InnerCodes, TopCodes, Layers DEF Builtin
<1>7. /\ Builtin["primrec"] \in C /\ Builtin["tailrec"] \in C /\ Builtin["treegenrec"] \in C
      /\ Builtin["treegenrecaux"] \in C /\ Builtin["treerec"] \in C
      /\ Builtin["treerecaux"] \in C /\ Builtin["treestep"] \in C
  BY PlainCodes, InnerCodes, TopCodes, Layers DEF Builtin
<1>8. /\ Static["binrecaux"] \in C /\ Static["condnestrecaux"] \in C
      /\ Static["linrecaux"] \in C /\ Static["treestepaux"] \in C
  BY PlainCodes, InnerCodes, TopCodes, Layers DEF Static
<1> HIDE DEF C
<1>9. \A f \in Unlinking : Builtin[f] \in C
  BY <1>1, <1>2, <1>3, <1>4, <1>5, <1>6, <1>7
<1>10. \A f \in Statics : Static[f] \in C
  BY <1>8 DEF Statics
<1>11. Functions \subseteq Unlinking
  BY <1>1 DEF Functions
<1> QED BY <1>9, <1>10, <1>11 DEF C


-----------------------------------------------------------------------------
(* The memory: what a node refers to exists, what a definition refers to    *)
(* belongs to a definition, and the bad node refers to itself.             *)

IsCell(c) == c = [op |-> c.op, u |-> c.u, next |-> c.next]

CellIn(c, N) ==
  /\ IsCell(c) /\ c.next \in N
  /\ c.op = "LIST" => c.u \in N
  /\ c.op = "USR" => c.u \in Names
  /\ c.op = "ANON_FUNCT" => c.u \in Unlinking

Sound(mem, b, lib) ==
  /\ b \in Nat \ {0} /\ DOMAIN mem \subseteq 0 .. b - 1 /\ 0 \in DOMAIN mem
  /\ mem = [n \in DOMAIN mem |-> mem[n]]
  /\ mem[0].op = "ILLEGAL" /\ mem[0].next = 0
  /\ lib \subseteq DOMAIN mem \ {0}
  /\ \A n \in DOMAIN mem : CellIn(mem[n], DOMAIN mem)
  /\ \A n \in lib : CellIn(mem[n], lib \cup {0})

(* D: what lies on dump1 and dump3.  They are lists, and no definition's.   *)
Saved(D, mem, rt, lib) ==
  /\ D \subseteq DOMAIN mem \ (lib \cup {0})
  /\ rt["dump1"] \in D \cup {0} /\ rt["dump3"] \in D \cup {0}
  /\ \A n \in D : mem[n].op = "LIST" /\ mem[n].next \in D \cup {0}

(* While a command is executed, every register refers to a node.           *)
StoreOK(mem, rt, b, lib) ==
  /\ Sound(mem, b, lib)
  /\ rt = [r \in Registers |-> rt[r]] /\ \A r \in Registers : rt[r] \in DOMAIN mem
  /\ \E D : Saved(D, mem, rt, lib)

LEMMA SoundRefs ==
  ASSUME Sound(memory, born, library)
  PROVE  /\ \A n \in DOMAIN memory : Refs(n) \subseteq DOMAIN memory
         /\ \A n \in library : Refs(n) \subseteq library \cup {0}
         /\ \A n \in DOMAIN memory : Lis(n) \in DOMAIN memory
         /\ Lis(0) = 0
BY DEF Sound, CellIn, Refs, Lis

LEMMA SoundExtend ==
  ASSUME NEW mem, NEW c, Sound(mem, born, library), CellIn(c, DOMAIN mem)
  PROVE  /\ Sound(Extend(mem, c), born + 1, library)
         /\ DOMAIN Extend(mem, c) = DOMAIN mem \cup {born} /\ born \notin DOMAIN mem
         /\ Extend(mem, c)[born] = c /\ \A n \in DOMAIN mem : Extend(mem, c)[n] = mem[n]
<1> DEFINE mem2 == Extend(mem, c)
<1>1. DOMAIN mem2 = DOMAIN mem \cup {born} /\ mem2 = [n \in DOMAIN mem2 |-> mem2[n]]
  BY DEF Extend
<1>2. born \notin DOMAIN mem /\ born \in Nat /\ born # 0
  BY DEF Sound
<1>3. mem2[born] = c /\ \A n \in DOMAIN mem : mem2[n] = mem[n]
  BY <1>2 DEF Extend
<1> HIDE DEF mem2
<1>4. \A n \in DOMAIN mem2 : CellIn(mem2[n], DOMAIN mem2)
  BY <1>1, <1>3 DEF Sound, CellIn
<1>5. 0 \in DOMAIN mem /\ library \subseteq DOMAIN mem \ {0}
      /\ DOMAIN mem2 \subseteq 0 .. (born + 1) - 1
  BY <1>1, <1>2 DEF Sound
<1>6. \A n \in library : CellIn(mem2[n], library \cup {0})
  BY <1>3, <1>5 DEF Sound
<1>7. mem2[0].op = "ILLEGAL" /\ mem2[0].next = 0 /\ born + 1 \in Nat \ {0}
  BY <1>2, <1>3 DEF Sound
<1>8. Sound(mem2, born + 1, library)
  BY <1>1, <1>4, <1>5, <1>6, <1>7 DEF Sound
<1> QED BY <1>1, <1>2, <1>3, <1>8 DEF mem2

(* A node may be changed as long as a definition's remains one.            *)
LEMMA SoundChange ==
  ASSUME NEW mem, NEW n \in DOMAIN mem, NEW c, Sound(mem, born, library),
         CellIn(c, DOMAIN mem), n \in library => CellIn(c, library \cup {0}),
         n = 0 => c.op = "ILLEGAL" /\ c.next = 0
  PROVE  /\ Sound([mem EXCEPT ![n] = c], born, library)
         /\ DOMAIN [mem EXCEPT ![n] = c] = DOMAIN mem
         /\ [mem EXCEPT ![n] = c][n] = c
         /\ \A m \in DOMAIN mem : m # n => [mem EXCEPT ![n] = c][m] = mem[m]
<1> DEFINE mem2 == [mem EXCEPT ![n] = c]
<1>1. DOMAIN mem2 = DOMAIN mem /\ mem2 = [m \in DOMAIN mem2 |-> mem2[m]]
      /\ mem2[n] = c /\ \A m \in DOMAIN mem : m # n => mem2[m] = mem[m]
  OBVIOUS
<1> HIDE DEF mem2
<1>2. Sound(mem2, born, library)
  BY <1>1 DEF Sound
<1> QED BY <1>1, <1>2 DEF mem2

LEMMA Kept ==
  ASSUME NEW D, NEW mem, NEW mem2, NEW rt, NEW rt2, Saved(D, mem, rt, library),
         DOMAIN mem \subseteq DOMAIN mem2,
         \A n \in DOMAIN mem : mem2[n].op = mem[n].op /\ mem2[n].next = mem[n].next,
         rt2["dump1"] \in D \cup {0}, rt2["dump3"] \in D \cup {0}
  PROVE  Saved(D, mem2, rt2, library)
BY DEF Saved

(* A new node, put into a register; on dump1 and dump3, a list on top.     *)
LEMMA NewNode ==
  ASSUME NEW mem, NEW c, NEW r \in Registers, StoreOK(mem, root, born, library),
         CellIn(c, DOMAIN mem), New(mem, Reg(r), c),
         r \in {"dump1", "dump3"} => c.op = "LIST" /\ c.next = root[r]
  PROVE  StoreOK(memory', root', born', library)
<1>1. /\ memory' = Extend(mem, c) /\ root' = [root EXCEPT ![r] = born] /\ born' = born + 1
  BY DEF New, Store, Reg
<1>2. /\ Sound(memory', born', library)
      /\ DOMAIN memory' = DOMAIN mem \cup {born} /\ born \notin DOMAIN mem
      /\ memory'[born] = c /\ \A n \in DOMAIN mem : memory'[n] = mem[n]
  BY <1>1, SoundExtend DEF StoreOK
<1>3. /\ root' = [q \in Registers |-> root'[q]]
      /\ \A q \in Registers : root'[q] \in DOMAIN memory'
      /\ root'[r] = born /\ \A q \in Registers : q # r => root'[q] = root[q]
  BY <1>1, <1>2 DEF StoreOK
<1>4. PICK D : Saved(D, mem, root, library)
  BY DEF StoreOK
<1>5. "dump1" \in Registers /\ "dump3" \in Registers
  BY DEF Registers
<1>6. CASE r \in {"dump1", "dump3"}
  <2>1. born # 0 /\ library \subseteq DOMAIN mem /\ c.next \in D \cup {0}
    BY <1>4, <1>6 DEF Saved, StoreOK, Sound
  <2>2. Saved(D \cup {born}, memory', root', library)
    BY <1>2, <1>3, <1>4, <1>5, <1>6, <2>1 DEF Saved
  <2> QED BY <1>2, <1>3, <2>2 DEF StoreOK
<1>7. CASE r \notin {"dump1", "dump3"}
  <2>1. root'["dump1"] \in D \cup {0} /\ root'["dump3"] \in D \cup {0}
    BY <1>3, <1>4, <1>5, <1>7 DEF Saved
  <2>2. Saved(D, memory', root', library)
    BY <1>2, <1>4, <2>1, Kept
  <2> QED BY <1>2, <1>3, <2>2 DEF StoreOK
<1> QED BY <1>6, <1>7

(* A node is put into a register; on dump1 and dump3, one that lies there.  *)
LEMMA SetRegister ==
  ASSUME NEW r \in Registers, NEW v \in DOMAIN memory, StoreOK(memory, root, born, library),
         r \in {"dump1", "dump3"} => v = memory[root[r]].next
  PROVE  StoreOK(memory, [root EXCEPT ![r] = v], born, library)
<1> DEFINE root2 == [root EXCEPT ![r] = v]
<1>1. /\ root2 = [q \in Registers |-> root2[q]] /\ \A q \in Registers : root2[q] \in DOMAIN memory
      /\ root2[r] = v /\ \A q \in Registers : q # r => root2[q] = root[q]
  BY DEF StoreOK
<1> HIDE DEF root2
<1>2. PICK D : Saved(D, memory, root, library)
  BY DEF StoreOK
<1>3. "dump1" \in Registers /\ "dump3" \in Registers
  BY DEF Registers
<1>4. r \in {"dump1", "dump3"} => v \in D \cup {0}
  <2> SUFFICES ASSUME r \in {"dump1", "dump3"} PROVE v \in D \cup {0}
    OBVIOUS
  <2>1. root[r] \in D \cup {0} /\ memory[0].next = 0
    BY <1>2 DEF Saved, StoreOK, Sound
  <2> QED BY <1>2, <2>1 DEF Saved
<1>5. root2["dump1"] \in D \cup {0} /\ root2["dump3"] \in D \cup {0}
  BY <1>1, <1>2, <1>3, <1>4 DEF Saved
<1>6. Saved(D, memory, root2, library)
  BY <1>2, <1>5 DEF Saved
<1> QED BY <1>1, <1>6 DEF StoreOK, root2

(* The list of a node that is no definition's is changed; of the bad node,  *)
(* which has none, what is not looked at.                                  *)
LEMMA SetList ==
  ASSUME NEW n \in DOMAIN memory, NEW v \in DOMAIN memory,
         StoreOK(memory, root, born, library), memory[n].op \in {"LIST", "ILLEGAL"},
         n \in library => v \in library \cup {0}
  PROVE  StoreOK([memory EXCEPT ![n].u = v], root, born, library)
<1> DEFINE c == [memory[n] EXCEPT !.u = v]
<1>1. IsCell(memory[n]) /\ memory[n].next \in DOMAIN memory
      /\ (n \in library => memory[n].next \in library \cup {0})
      /\ (n = 0 => memory[n].op = "ILLEGAL" /\ memory[n].next = 0)
  BY DEF StoreOK, Sound, CellIn
<1>2. c = [op |-> memory[n].op, u |-> v, next |-> memory[n].next]
  BY <1>1 DEF IsCell
<1>3. [memory EXCEPT ![n].u = v] = [memory EXCEPT ![n] = c]
  OBVIOUS
<1> HIDE DEF c
<1>4. CellIn(c, DOMAIN memory) /\ (n \in library => CellIn(c, library \cup {0}))
      /\ (n = 0 => c.op = "ILLEGAL" /\ c.next = 0)
  BY <1>1, <1>2 DEF CellIn, IsCell
<1>5. Sound(memory, born, library)
  BY DEF StoreOK
<1>6. /\ Sound([memory EXCEPT ![n] = c], born, library)
      /\ DOMAIN [memory EXCEPT ![n] = c] = DOMAIN memory
      /\ [memory EXCEPT ![n] = c][n] = c
      /\ \A m \in DOMAIN memory : m # n => [memory EXCEPT ![n] = c][m] = memory[m]
  BY <1>4, <1>5, SoundChange
<1>7. PICK D : Saved(D, memory, root, library)
  BY DEF StoreOK
<1>8. Saved(D, [memory EXCEPT ![n] = c], root, library)
  <2>1. \A m \in DOMAIN memory : /\ [memory EXCEPT ![n] = c][m].op = memory[m].op
                                 /\ [memory EXCEPT ![n] = c][m].next = memory[m].next
    BY <1>2, <1>6
  <2>2. root["dump1"] \in D \cup {0} /\ root["dump3"] \in D \cup {0}
    BY <1>7 DEF Saved
  <2> QED BY <1>6, <1>7, <2>1, <2>2, Kept
<1> QED BY <1>3, <1>6, <1>8 DEF StoreOK

(* Two new nodes, the second on the stack.                                 *)
LEMMA TwoNodes ==
  ASSUME NEW f, NEW c, StoreOK(memory, root, born, library),
         CellIn(f, DOMAIN memory), CellIn(c, DOMAIN memory \cup {born}),
         memory' = [n \in DOMAIN memory \cup {born, born + 1} |-> memory'[n]],
         memory'[born] = f, memory'[born + 1] = c,
         \A n \in DOMAIN memory : memory'[n] = memory[n],
         born' = born + 2, root' = [root EXCEPT !.stck = born + 1]
  PROVE  StoreOK(memory', root', born', library)
<1>1. /\ born \in Nat \ {0} /\ DOMAIN memory \subseteq 0 .. born - 1 /\ 0 \in DOMAIN memory
      /\ library \subseteq DOMAIN memory \ {0}
      /\ \A n \in DOMAIN memory : CellIn(memory[n], DOMAIN memory)
      /\ \A n \in library : CellIn(memory[n], library \cup {0})
  BY DEF StoreOK, Sound
<1>2. /\ DOMAIN memory' = DOMAIN memory \cup {born, born + 1}
      /\ memory' = [n \in DOMAIN memory' |-> memory'[n]]
      /\ memory'[born] = f /\ memory'[born + 1] = c
      /\ \A n \in DOMAIN memory : memory'[n] = memory[n]
  BY <1>1
<1>3. \A n \in DOMAIN memory' : CellIn(memory'[n], DOMAIN memory')
  <2>1. CellIn(f, DOMAIN memory') /\ CellIn(c, DOMAIN memory')
    BY <1>2 DEF CellIn
  <2>2. \A n \in DOMAIN memory : CellIn(memory[n], DOMAIN memory')
    BY <1>1, <1>2 DEF CellIn
  <2> QED BY <1>2, <2>1, <2>2
<1>4. \A n \in library : CellIn(memory'[n], library \cup {0})
  BY <1>1, <1>2
<1>5. memory'[0].op = "ILLEGAL" /\ memory'[0].next = 0
  BY <1>1, <1>2 DEF StoreOK, Sound
<1>6. born' \in Nat \ {0} /\ DOMAIN memory' \subseteq 0 .. born' - 1 /\ 0 \in DOMAIN memory'
      /\ library \subseteq DOMAIN memory' \ {0}
  BY <1>1, <1>2
<1>7. Sound(memory', born', library)
  BY <1>2, <1>3, <1>4, <1>5, <1>6 DEF Sound
<1>8. "stck" \in Registers /\ "dump1" \in Registers /\ "dump3" \in Registers
  BY DEF Registers
<1>9. /\ root' = [r \in Registers |-> root'[r]]
      /\ \A r \in Registers : root'[r] \in DOMAIN memory'
      /\ root'["dump1"] = root["dump1"] /\ root'["dump3"] = root["dump3"]
  BY <1>2, <1>8 DEF StoreOK
<1>10. PICK D : Saved(D, memory, root, library)
  BY DEF StoreOK
<1>11. root'["dump1"] \in D \cup {0} /\ root'["dump3"] \in D \cup {0}
  BY <1>9, <1>10 DEF Saved
<1>12. Saved(D, memory', root', library)
  <2>1. DOMAIN memory \subseteq DOMAIN memory'
    BY <1>2
  <2>2. \A n \in DOMAIN memory : memory'[n].op = memory[n].op /\ memory'[n].next = memory[n].next
    BY <1>2
  <2>3. \A n \in D : memory'[n].op = "LIST" /\ memory'[n].next \in D \cup {0}
    BY <1>10, <2>2 DEF Saved
  <2>4. D \subseteq DOMAIN memory' \ (library \cup {0})
    BY <1>10, <2>1 DEF Saved
  <2> QED BY <1>11, <2>3, <2>4 DEF Saved
<1> QED BY <1>7, <1>9, <1>12 DEF StoreOK


-----------------------------------------------------------------------------
(* The C stack while a command is executed, and what a step makes of it.    *)

RunFrames(L) == [fn : {"exec_term"}, code : {<<>>}, local : {0}]
                \cup [fn : {"builtin", frontend}, code : Seq(Instructions), local : L]

Run(fr, L) == fr \in Seq(RunFrames(L)) /\ fr # <<>> /\ Last(fr).fn = frontend

Went == /\ StoreOK(memory', root', born', library)
        /\ frames' = <<>> \/ \E K : Run(frames', K)

LEMMA RunMore ==
  ASSUME NEW L, NEW K, L \subseteq K, NEW fr, Run(fr, L)
  PROVE  Run(fr, K)
<1>1. RunFrames(L) \subseteq RunFrames(K)
  BY DEF RunFrames
<1> QED BY <1>1, SeqMonotonic DEF Run

LEMMA RunTop ==
  ASSUME NEW L, Run(frames, L)
  PROVE  /\ Top \in RunFrames(L) /\ frames[1] = Top /\ Len(frames) \in Nat /\ Len(frames) >= 1
         /\ Top.code # <<>> =>
              /\ Top.fn \in {"builtin", frontend} /\ Instr \in Instructions
              /\ Top.code \in Seq(Instructions) /\ Tail(Top.code) \in Seq(Instructions)
<1>1. Top \in RunFrames(L) /\ frames[1] = Top /\ Len(frames) \in Nat /\ Len(frames) >= 1
  BY HeadTailProperties, EmptySeq DEF Run, Top
<1>2. Top.code # <<>> => Top.fn \in {"builtin", frontend} /\ Top.code \in Seq(Instructions)
  BY <1>1 DEF RunFrames
<1> QED BY <1>1, <1>2, HeadTailProperties DEF Instr

LEMMA RunReplace ==
  ASSUME NEW L, Run(frames, L), NEW f \in RunFrames(L), f.fn = Top.fn
  PROVE  Run([frames EXCEPT ![1] = f], L)
<1> DEFINE fr == [frames EXCEPT ![1] = f]
<1>1. frames \in Seq(RunFrames(L)) /\ frames # <<>> /\ 1 \in 1 .. Len(frames)
  BY EmptySeq DEF Run
<1>2. fr \in Seq(RunFrames(L)) /\ Len(fr) = Len(frames)
      /\ \A j \in 1 .. Len(frames) : fr[j] = IF j = 1 THEN f ELSE frames[j]
  BY <1>1, ExceptSeq
<1> HIDE DEF fr
<1>3. Len(frames) \in Nat /\ Len(frames) >= 1 /\ frames[1] = Top
  BY <1>1, EmptySeq, RunTop
<1>4. fr # <<>>
  BY <1>2, <1>3, EmptySeq
<1>5. Last(fr).fn = Last(frames).fn
  BY <1>2, <1>3 DEF Last
<1> QED BY <1>2, <1>4, <1>5 DEF Run, fr

LEMMA RunGoto ==
  ASSUME NEW L, Run(frames, L), Top.code # <<>>, NEW c \in Seq(Instructions)
  PROVE  Run([frames EXCEPT ![1].code = c], L)
<1> DEFINE f == [Top EXCEPT !.code = c]
<1>1. Top \in [fn : {"builtin", frontend}, code : Seq(Instructions), local : L]
  BY RunTop DEF RunFrames
<1>2. f \in RunFrames(L) /\ f.fn = Top.fn
  BY <1>1 DEF RunFrames
<1>3. [frames EXCEPT ![1].code = c] = [frames EXCEPT ![1] = f]
  BY RunTop
<1> QED BY <1>2, <1>3, RunReplace

LEMMA RunLocal ==
  ASSUME NEW L, Run(frames, L), Top.code # <<>>, NEW c \in Seq(Instructions), NEW n
  PROVE  Run([frames EXCEPT ![1].code = c, ![1].local = n], L \cup {n})
<1> DEFINE f == [Top EXCEPT !.code = c, !.local = n]
<1>1. Top \in [fn : {"builtin", frontend}, code : Seq(Instructions), local : L]
  BY RunTop DEF RunFrames
<1>2. f \in RunFrames(L \cup {n}) /\ f.fn = Top.fn
  BY <1>1 DEF RunFrames
<1>3. [frames EXCEPT ![1].code = c, ![1].local = n] = [frames EXCEPT ![1] = f]
  BY RunTop
<1>4. Run(frames, L \cup {n})
  BY RunMore
<1> HIDE DEF f
<1> QED BY <1>2, <1>3, <1>4, RunReplace

LEMMA RunPop ==
  ASSUME NEW L, Run(frames, L)
  PROVE  Tail(frames) = <<>> \/ Run(Tail(frames), L)
<1>1. frames \in Seq(RunFrames(L)) /\ frames # <<>>
  BY DEF Run
<1>2. /\ Tail(frames) \in Seq(RunFrames(L)) /\ Len(Tail(frames)) = Len(frames) - 1
      /\ Len(frames) \in Nat
      /\ \A i \in 1 .. Len(Tail(frames)) : Tail(frames)[i] = frames[i + 1]
  BY <1>1, HeadTailProperties, EmptySeq
<1>3. Tail(frames) # <<>> => Len(Tail(frames)) >= 1
  BY <1>2, EmptySeq
<1>4. Tail(frames) # <<>> => Last(Tail(frames)) = Last(frames)
  BY <1>2, <1>3 DEF Last
<1> QED BY <1>2, <1>4 DEF Run

LEMMA RunPush ==
  ASSUME NEW L, NEW fr, Run(fr, L), NEW f \in RunFrames(L)
  PROVE  Run(<<f>> \o fr, L)
<1>1. fr \in Seq(RunFrames(L)) /\ <<f>> \in Seq(RunFrames(L)) /\ Len(<<f>>) = 1
      /\ Len(fr) \in Nat /\ Len(fr) >= 1
  BY EmptySeq DEF Run
<1>2. /\ <<f>> \o fr \in Seq(RunFrames(L)) /\ Len(<<f>> \o fr) = Len(fr) + 1
      /\ (<<f>> \o fr)[Len(fr) + 1] = fr[Len(fr)]
  BY <1>1, ConcatProperties
<1>3. <<f>> \o fr # <<>>
  BY <1>1, <1>2, EmptySeq
<1>4. Last(<<f>> \o fr) = Last(fr)
  BY <1>1, <1>2 DEF Last
<1> QED BY <1>2, <1>3, <1>4 DEF Run

(* What an instruction is made of.                                         *)
LEMMA Forms ==
  ASSUME NEW i \in Instructions
  PROVE  /\ i[1] = "assign" => \/ i[2] \in {stck, DMP1, DMP3} /\ i[3] \in Operands
                               \/ \E d \in Dumps : i = POP(d)
         /\ i[1] = "copy" => \/ i[2] = stck /\ i[3] \in Operands /\ i[4] \in Operands
                             \/ i[2] = dump2 /\ i[3] \in Operands /\ i[4] = dump2
         /\ i[1] = "list" => \/ i[2] = stck /\ i[3] \in Operands /\ i[4] \in Operands
                             \/ i[2] \in Dumps /\ i[3] \in Operands /\ i[4] = i[2]
         /\ i[1] = "function" => i[2] \in Functions
         /\ i[1] = "number" => i[3] \in Operands
         /\ i[1] = "exec" => i[2] \in Operands
         /\ i[1] = "call" => i[2] \in Statics
         /\ i[1] = "if" => i[3] \in Seq(Instructions) /\ i[4] \in Seq(Instructions)
         /\ i[1] = "loop" => i[3] \in Seq(Instructions)
<1>1. CASE i \in Plain
  <2>1. i[1] \notin {"if", "loop"}
    BY <1>1 DEF Plain, POP, Assign, Copy, List, Break
  <2>2. /\ i[1] = "assign" => \/ i[2] \in {stck, DMP1, DMP3} /\ i[3] \in Operands
                              \/ \E d \in Dumps : i = POP(d)
    BY <1>1 DEF Plain, Copy, List, Break
  <2>3. /\ i[1] = "copy" => \/ i[2] = stck /\ i[3] \in Operands /\ i[4] \in Operands
                            \/ i[2] = dump2 /\ i[3] \in Operands /\ i[4] = dump2
        /\ i[1] = "list" => \/ i[2] = stck /\ i[3] \in Operands /\ i[4] \in Operands
                            \/ i[2] \in Dumps /\ i[3] \in Operands /\ i[4] = i[2]
    BY <1>1 DEF Plain, POP, Assign, Copy, List, Break
  <2>4. /\ i[1] = "exec" => i[2] \in Operands
        /\ i[1] = "call" => i[2] \in Statics
        /\ i[1] = "function" => i[2] \in Functions
        /\ i[1] = "number" => i[3] \in Operands
    BY <1>1 DEF Plain, POP, Assign, Copy, List, Break
  <2> QED BY <2>1, <2>2, <2>3, <2>4
<1>2. ASSUME NEW I, i \in ({"if"} \X Tests \X Seq(I) \X Seq(I)) \cup ({"loop"} \X Tests \X Seq(I))
      PROVE  /\ i[1] = "if" => i[3] \in Seq(I) /\ i[4] \in Seq(I)
             /\ i[1] = "loop" => i[3] \in Seq(I)
             /\ i[1] \in {"if", "loop"}
  BY <1>2
<1>3. CASE i \in ({"if"} \X Tests \X Seq(Plain) \X Seq(Plain))
                \cup ({"loop"} \X Tests \X Seq(Plain))
  <2>1. \A s \in Seq(Plain) : s \in Seq(Instructions)
    BY Layers
  <2> QED BY <1>2, <1>3, <2>1
<1>4. CASE i \in ({"if"} \X Tests \X Seq(Inner) \X Seq(Inner))
                \cup ({"loop"} \X Tests \X Seq(Inner))
  <2>1. \A s \in Seq(Inner) : s \in Seq(Instructions)
    BY Layers
  <2> QED BY <1>2, <1>4, <2>1
<1>5. i \in Plain
      \/ i \in ({"if"} \X Tests \X Seq(Plain) \X Seq(Plain))
              \cup ({"loop"} \X Tests \X Seq(Plain))
      \/ i \in ({"if"} \X Tests \X Seq(Inner) \X Seq(Inner))
              \cup ({"loop"} \X Tests \X Seq(Inner))
  BY DEF Instructions, Inner, Layer
<1> QED BY <1>1, <1>3, <1>4, <1>5


-----------------------------------------------------------------------------
(* The instructions, one lemma each where they do something to the memory. *)

RunOK(L) == StoreOK(memory, root, born, library) /\ Run(frames, L)

LEMMA OperandLive ==
  ASSUME StoreOK(memory, root, born, library), NEW o \in Operands
  PROVE  At(o) \in DOMAIN memory
<1>1. 0 \in DOMAIN memory /\ \A r \in Registers : root[r] \in DOMAIN memory
  BY DEF StoreOK, Sound
<1>2. \A n \in DOMAIN memory : Refs(n) \subseteq DOMAIN memory
  BY SoundRefs DEF StoreOK
<1> QED BY <1>1, <1>2, AtLive

LEMMA RegisterLive ==
  ASSUME StoreOK(memory, root, born, library)
  PROVE  /\ root.stck \in DOMAIN memory /\ root.conts \in DOMAIN memory
         /\ "stck" \in Registers /\ "conts" \in Registers /\ 0 \in DOMAIN memory
         /\ \A n \in DOMAIN memory : memory[n].next \in DOMAIN memory /\ Lis(n) \in DOMAIN memory
         /\ \A n \in DOMAIN memory : CellIn(memory[n], DOMAIN memory)
<1>1. "stck" \in Registers /\ "conts" \in Registers
  BY DEF Registers
<1> QED BY <1>1, SoundRefs DEF StoreOK, Sound, Refs

LEMMA AdvanceWent ==
  ASSUME NEW L, Run(frames, L), Top.code # <<>>, Advance,
         StoreOK(memory', root', born', library)
  PROVE  Went
<1>1. Run(frames', L)
  BY RunTop, RunGoto DEF Advance, Goto
<1> QED BY <1>1 DEF Went

LEMMA ErrorWent ==
  ASSUME NEW L, RunOK(L), execerror
  PROVE  Went
<1>1. frames' = <<>> /\ memory' = memory /\ born' = born
      /\ root' \in {root, [root EXCEPT !["prog"] = 0]}
  BY DEF execerror
<1>2. "prog" \in Registers /\ 0 \in DOMAIN memory
  BY DEF Registers, RunOK, StoreOK, Sound
<1>3. StoreOK(memory, [root EXCEPT !["prog"] = 0], born, library)
  BY <1>2, SetRegister DEF RunOK
<1> QED BY <1>1, <1>3 DEF Went, RunOK

LEMMA RequireWent ==
  ASSUME NEW L, RunOK(L), RequireStep
  PROVE  Went
<1>1. CASE execerror
  BY <1>1, ErrorWent
<1>2. CASE Advance /\ UNCHANGED store
  BY <1>2, AdvanceWent DEF RequireStep, Doing, store, RunOK
<1> QED BY <1>1, <1>2 DEF RequireStep

LEMMA FrontOfHop ==
  ASSUME NEW r \in Registers
  PROVE  LET o == Append(<<r>>, "lis") IN Front(o) = <<r>> /\ Last(o) = "lis" /\ Len(o) = 2
<1> DEFINE o == Append(<<r>>, "lis")
<1>1. <<r>> \in Seq(Words) /\ Len(<<r>>) = 1 /\ "lis" \in Words
  BY AtRegister DEF Paths, Words
<1> HIDE DEF Words
<1>2. /\ o \in Seq(Words) /\ Len(o) = 2 /\ o[1] = r /\ o[2] = "lis"
  BY <1>1, AppendProperties
<1> HIDE DEF o
<1>3. \A k \in 1 .. 1 : o[k] \in Words
  BY <1>2, ElementOfSeq
<1>4. /\ SubSeq(o, 1, 1) \in Seq(Words) /\ Len(SubSeq(o, 1, 1)) = 1
      /\ SubSeq(o, 1, 1)[1] = o[1]
  BY <1>3, SubSeqProperties
<1>5. \A k \in 1 .. 1 : SubSeq(o, 1, 1)[k] = <<r>>[k]
  BY <1>2, <1>4
<1>6. SubSeq(o, 1, 1) = <<r>>
  BY <1>1, <1>4, <1>5, SeqEqual
<1>7. Front(o) = SubSeq(o, 1, 1) /\ Last(o) = o[2]
  BY <1>2 DEF Front, Last
<1> QED BY <1>2, <1>6, <1>7 DEF o

LEMMA AssignWent ==
  ASSUME NEW L, RunOK(L), AssignStep
  PROVE  Went
<1> DEFINE i == Instr
<1>1. /\ Top.code # <<>> /\ i[1] = "assign" /\ Advance /\ born' = born
      /\ Store(memory, i[2], At(i[3]))
  BY DEF AssignStep, Doing, Instr
<1>2. i \in Instructions /\ Run(frames, L) /\ StoreOK(memory, root, born, library)
  BY <1>1, RunTop DEF RunOK
<1> SUFFICES StoreOK(memory', root', born', library)
  BY <1>1, <1>2, AdvanceWent
<1>3. CASE i[2] = stck /\ i[3] \in Operands
  <2>1. memory' = memory /\ root' = [root EXCEPT !["stck"] = At(i[3])]
    BY <1>1, <1>3 DEF Store, stck, Reg
  <2>2. At(i[3]) \in DOMAIN memory
    BY <1>2, <1>3, OperandLive
  <2> QED BY <1>1, <1>2, <2>1, <2>2, SetRegister, RegisterLive
<1>4. ASSUME NEW d \in Dumps, i = POP(d) PROVE StoreOK(memory', root', born', library)
  <2>1. PICK r \in Registers : d = <<r>> /\ r \in {"dump", "dump1", "dump2", "dump3"}
    BY DEF Dumps, dump, dump1, dump2, dump3, Reg, Registers
  <2>2. next(d, 1) = Append(d, "next")
    BY <2>1 DEF next
  <2>3. At(next(d, 1)) = memory[root[r]].next
    BY <2>1, <2>2, AtRegister, AtHop
  <2>4. i[2] = <<r>> /\ i[3] = next(d, 1)
    BY <1>4, <2>1 DEF POP, Assign
  <2>5. memory' = memory /\ root' = [root EXCEPT ![r] = memory[root[r]].next]
    BY <1>1, <2>3, <2>4 DEF Store
  <2>6. memory[root[r]].next \in DOMAIN memory
    BY <1>2, RegisterLive DEF StoreOK
  <2> QED BY <1>1, <1>2, <2>5, <2>6, SetRegister
<1>5. CASE i[2] \in {DMP1, DMP3} /\ i[3] \in Operands
  <2>1. PICK r \in Registers : i[2] = Append(<<r>>, "lis") /\ r \in {"dump1", "dump3"}
    BY <1>5 DEF DMP1, DMP3, lis, dump1, dump3, Reg, Registers
  <2>2. Front(i[2]) = <<r>> /\ Last(i[2]) = "lis" /\ Len(i[2]) = 2
    BY <2>1, FrontOfHop
  <2>3. At(Front(i[2])) = root[r]
    BY <2>2, AtRegister
  <2>4. memory' = [memory EXCEPT ![root[r]].u = At(i[3])] /\ root' = root
    BY <1>1, <2>2, <2>3 DEF Store
  <2>5. At(i[3]) \in DOMAIN memory /\ root[r] \in DOMAIN memory
    BY <1>2, <1>5, OperandLive DEF StoreOK
  <2>6. PICK D : Saved(D, memory, root, library)
    BY <1>2 DEF StoreOK
  <2>7. memory[root[r]].op \in {"LIST", "ILLEGAL"} /\ root[r] \notin library
    BY <1>2, <2>1, <2>6 DEF Saved, StoreOK, Sound
  <2> QED BY <1>1, <1>2, <2>4, <2>5, <2>7, SetList
<1> QED BY <1>1, <1>2, <1>3, <1>4, <1>5, Forms

LEMMA Relinked ==
  ASSUME NEW N, NEW cell, CellIn(cell, N), NEW n \in N
  PROVE  CellIn([cell EXCEPT !.next = n], N) /\ [cell EXCEPT !.next = n].op = cell.op
<1>1. [cell EXCEPT !.next = n] = [op |-> cell.op, u |-> cell.u, next |-> n]
  BY DEF CellIn, IsCell
<1> QED BY <1>1 DEF CellIn, IsCell

LEMMA CopyWent ==
  ASSUME NEW L, RunOK(L), CopyStep
  PROVE  Went
<1> DEFINE i == Instr
           c == [memory[At(i[3])] EXCEPT !.next = At(i[4])]
<1>1. /\ Top.code # <<>> /\ i[1] = "copy" /\ Advance /\ New(memory, i[2], c)
  BY DEF CopyStep, Doing, Instr
<1>2. i \in Instructions /\ Run(frames, L) /\ StoreOK(memory, root, born, library)
  BY <1>1, RunTop DEF RunOK
<1>3. \/ i[2] = stck /\ i[3] \in Operands /\ i[4] \in Operands
      \/ i[2] = dump2 /\ i[3] \in Operands /\ i[4] = dump2
  BY <1>1, <1>2, Forms
<1>4. i[3] \in Operands /\ i[4] \in Operands
  BY <1>3, NamedPaths, NamedOperands
<1>5. At(i[3]) \in DOMAIN memory /\ At(i[4]) \in DOMAIN memory
  BY <1>2, <1>4, OperandLive
<1>6. CellIn(c, DOMAIN memory)
  BY <1>2, <1>5, RegisterLive, Relinked
<1>7. PICK r \in Registers : i[2] = Reg(r) /\ r \notin {"dump1", "dump3"}
  BY <1>3 DEF stck, dump2, Registers
<1> HIDE DEF c
<1>8. StoreOK(memory', root', born', library)
  BY <1>1, <1>2, <1>6, <1>7, NewNode
<1> QED BY <1>1, <1>2, <1>8, AdvanceWent

LEMMA ListCell ==
  ASSUME NEW N, NEW u \in N, NEW n \in N
  PROVE  /\ CellIn(Cell("LIST", u, n), N)
         /\ Cell("LIST", u, n).op = "LIST" /\ Cell("LIST", u, n).next = n
BY DEF CellIn, IsCell, Cell

LEMMA ListWent ==
  ASSUME NEW L, RunOK(L), ListStep
  PROVE  Went
<1> DEFINE i == Instr
           c == Cell("LIST", At(i[3]), At(i[4]))
<1>1. /\ Top.code # <<>> /\ i[1] = "list" /\ Advance /\ New(memory, i[2], c)
  BY DEF ListStep, Doing, Instr
<1>2. i \in Instructions /\ Run(frames, L) /\ StoreOK(memory, root, born, library)
  BY <1>1, RunTop DEF RunOK
<1>3. \/ i[2] = stck /\ i[3] \in Operands /\ i[4] \in Operands
      \/ i[2] \in Dumps /\ i[3] \in Operands /\ i[4] = i[2]
  BY <1>1, <1>2, Forms
<1>4. PICK r \in Registers : i[2] = Reg(r) /\ (r \in {"dump1", "dump3"} => i[4] = Reg(r))
  BY <1>3 DEF stck, Dumps, dump, dump1, dump2, dump3, Registers, Reg
<1>5. i[3] \in Operands /\ i[4] \in Operands
  BY <1>3, NamedPaths, NamedOperands DEF Dumps
<1>6. At(i[3]) \in DOMAIN memory /\ At(i[4]) \in DOMAIN memory
  BY <1>2, <1>5, OperandLive
<1>7. CellIn(c, DOMAIN memory) /\ c.op = "LIST" /\ c.next = At(i[4])
  BY <1>6, ListCell
<1>8. r \in {"dump1", "dump3"} => c.next = root[r]
  BY <1>4, <1>7, AtRegister DEF Reg
<1> HIDE DEF c
<1>9. StoreOK(memory', root', born', library)
  BY <1>1, <1>2, <1>4, <1>7, <1>8, NewNode
<1> QED BY <1>1, <1>2, <1>9, AdvanceWent

LEMMA NumberWent ==
  ASSUME NEW L, RunOK(L), NumberStep
  PROVE  Went
<1> DEFINE i == Instr
           c == Cell(Value(i[2])[1], Value(i[2])[2], At(i[3]))
<1>1. /\ Top.code # <<>> /\ i[1] = "number" /\ Advance /\ New(memory, Reg("stck"), c)
  BY DEF NumberStep, Doing, Instr, stck
<1>2. i \in Instructions /\ Run(frames, L) /\ StoreOK(memory, root, born, library)
  BY <1>1, RunTop DEF RunOK
<1>3. At(i[3]) \in DOMAIN memory
  BY <1>1, <1>2, Forms, OperandLive
<1>4. Value(i[2])[1] \in {"INTEGER", "BOOLEAN"}
  BY DEF Value
<1>5. CellIn(c, DOMAIN memory)
  BY <1>3, <1>4 DEF CellIn, IsCell, Cell
<1> HIDE DEF c
<1>6. StoreOK(memory', root', born', library)
  BY <1>1, <1>2, <1>5, NewNode, RegisterLive
<1> QED BY <1>1, <1>2, <1>6, AdvanceWent


LEMMA FunctionWent ==
  ASSUME NEW L, RunOK(L), FunctionStep
  PROVE  Went
<1>1. /\ Top.code # <<>> /\ Instr[1] = "function" /\ Advance
      /\ born' = born + 2 /\ root' = [root EXCEPT !.stck = born + 1]
  BY DEF FunctionStep, Doing, Instr
<1>2. Instr \in Instructions /\ Run(frames, L) /\ StoreOK(memory, root, born, library)
  BY <1>1, RunTop DEF RunOK
<1>3. Instr[2] \in Unlinking
  BY <1>1, <1>2, Forms, BuiltinCodes
<1> DEFINE f == Cell("ANON_FUNCT", Instr[2], 0)
           c == Cell("LIST", born, root.stck)
<1>4. CellIn(f, DOMAIN memory)
  BY <1>2, <1>3, RegisterLive DEF CellIn, IsCell, Cell
<1>5. CellIn(c, DOMAIN memory \cup {born})
  BY <1>2, RegisterLive, ListCell
<1>6. /\ memory' = [n \in DOMAIN memory \cup {born, born + 1} |-> memory'[n]]
      /\ memory'[born] = f /\ memory'[born + 1] = c
      /\ \A n \in DOMAIN memory : memory'[n] = memory[n]
  BY <1>2 DEF FunctionStep, StoreOK, Sound
<1> HIDE DEF f, c
<1>7. StoreOK(memory', root', born', library)
  BY <1>1, <1>2, <1>4, <1>5, <1>6, TwoNodes
<1> QED BY <1>1, <1>2, <1>7, AdvanceWent

LEMMA ConsWent ==
  ASSUME NEW L, RunOK(L), ConsStep
  PROVE  Went
<1>1. /\ Top.code # <<>> /\ Advance
      /\ born' = born + 2 /\ root' = [root EXCEPT !.stck = born + 1]
  BY DEF ConsStep, Doing
<1>2. Run(frames, L) /\ StoreOK(memory, root, born, library)
  BY DEF RunOK
<1> DEFINE f == [memory[At(S(1))] EXCEPT !.next = Lis(root.stck)]
           c == Cell("LIST", born, At(S(2)))
<1>3. S(1) \in Operands /\ S(2) \in Operands
  BY NamedPaths, NamedOperands
<1>4. At(S(1)) \in DOMAIN memory /\ At(S(2)) \in DOMAIN memory
  BY <1>2, <1>3, OperandLive
<1>5. CellIn(f, DOMAIN memory)
  BY <1>2, <1>4, RegisterLive, Relinked
<1>6. CellIn(c, DOMAIN memory \cup {born})
  BY <1>4, ListCell
<1>7. /\ memory' = [n \in DOMAIN memory \cup {born, born + 1} |-> memory'[n]]
      /\ memory'[born] = f /\ memory'[born + 1] = c
      /\ \A n \in DOMAIN memory : memory'[n] = memory[n]
  BY <1>2 DEF ConsStep, StoreOK, Sound
<1> HIDE DEF f, c
<1>8. StoreOK(memory', root', born', library)
  BY <1>1, <1>2, <1>5, <1>6, <1>7, TwoNodes
<1> QED BY <1>1, <1>2, <1>8, AdvanceWent

(* exec_term, called from anywhere.                                        *)
LEMMA ExecTerm ==
  ASSUME NEW L, NEW mem, NEW n \in DOMAIN mem, NEW callers,
         StoreOK(mem, root, born, library), Run(callers, L), 0 \in L,
         exec_term(mem, n, callers)
  PROVE  Went
<1>1. CASE n = 0
  BY <1>1 DEF exec_term, Went
<1>2. CASE n # 0
  <2> DEFINE f == Activation("exec_term", <<>>)
  <2>1. frames' = <<f>> \o callers /\ New(mem, Reg("conts"), Cell("LIST", n, root.conts))
    BY <1>2 DEF exec_term
  <2>2. f \in RunFrames(L)
    BY DEF Activation, RunFrames
  <2> HIDE DEF f
  <2>3. Run(frames', L)
    BY <2>1, <2>2, RunPush
  <2>4. "conts" \in Registers /\ root.conts \in DOMAIN mem
    BY DEF Registers, StoreOK
  <2>5. CellIn(Cell("LIST", n, root.conts), DOMAIN mem)
    BY <2>4, ListCell
  <2>6. StoreOK(memory', root', born', library)
    BY <2>1, <2>4, <2>5, NewNode
  <2> QED BY <2>3, <2>6 DEF Went
<1> QED BY <1>1, <1>2

LEMMA ExecWent ==
  ASSUME NEW L, RunOK(L), ExecStep
  PROVE  Went
<1> DEFINE fr == [frames EXCEPT ![1].code = Tail(@)]
<1>1. /\ Top.code # <<>> /\ Instr[1] = "exec" /\ exec_term(memory, At(Instr[2]), fr)
  BY DEF ExecStep, Doing, Instr
<1>2. /\ Instr \in Instructions /\ Run(frames, L) /\ StoreOK(memory, root, born, library)
      /\ Tail(Top.code) \in Seq(Instructions) /\ frames[1] = Top
  BY <1>1, RunTop DEF RunOK
<1>3. At(Instr[2]) \in DOMAIN memory
  BY <1>1, <1>2, Forms, OperandLive
<1>4. fr = [frames EXCEPT ![1].code = Tail(Top.code)]
  BY <1>2
<1>5. Run(fr, L)
  BY <1>1, <1>2, <1>4, RunGoto
<1>6. Run(fr, L \cup {0})
  BY <1>5, RunMore
<1> HIDE DEF fr
<1> QED BY <1>1, <1>2, <1>3, <1>6, ExecTerm

LEMMA GotoWent ==
  ASSUME NEW L, RunOK(L), Top.code # <<>>, UNCHANGED store,
         NEW c \in Seq(Instructions), Goto(c)
  PROVE  Went
<1>1. Run(frames', L)
  BY RunGoto DEF Goto, RunOK
<1> QED BY <1>1 DEF Went, RunOK, store

LEMMA IfWent ==
  ASSUME NEW L, RunOK(L), IfStep
  PROVE  Went
<1> DEFINE c == (IF Holds(Instr[2]) THEN Instr[3] ELSE Instr[4]) \o Tail(Top.code)
<1>1. Top.code # <<>> /\ Instr[1] = "if" /\ Goto(c) /\ UNCHANGED store
  BY DEF IfStep, Doing, Instr
<1>2. Instr \in Instructions /\ Tail(Top.code) \in Seq(Instructions)
  BY <1>1, RunTop DEF RunOK
<1>3. Instr[3] \in Seq(Instructions) /\ Instr[4] \in Seq(Instructions)
  BY <1>1, <1>2, Forms
<1>4. c \in Seq(Instructions)
  BY <1>2, <1>3, ConcatProperties
<1> HIDE DEF c
<1> QED BY <1>1, <1>4, GotoWent

LEMMA LoopWent ==
  ASSUME NEW L, RunOK(L), LoopStep
  PROVE  Went
<1>1. Top.code # <<>> /\ Instr[1] = "loop" /\ UNCHANGED store
      /\ (Goto(Instr[3] \o Top.code) \/ Goto(Tail(Top.code)))
  BY DEF LoopStep, Doing, Instr, Advance
<1>2. Instr \in Instructions /\ Tail(Top.code) \in Seq(Instructions)
      /\ Top.code \in Seq(Instructions)
  BY <1>1, RunTop DEF RunOK
<1>3. Instr[3] \o Top.code \in Seq(Instructions)
  BY <1>1, <1>2, Forms, ConcatProperties
<1> QED BY <1>1, <1>2, <1>3, GotoWent

(* What Min chooses is there.                                              *)
LEMMA MinIs ==
  ASSUME NEW I, NEW n \in Nat, I \subseteq 1 .. n, I # {}
  PROVE  Min(I) \in I
<1>1. I \in SUBSET Nat
  OBVIOUS
<1> QED BY <1>1, LeastNumber DEF Min

LEMMA BreakWent ==
  ASSUME NEW L, RunOK(L), BreakStep
  PROVE  Went
<1> DEFINE I    == {i \in 1 .. Len(Top.code) : Top.code[i][1] = "loop"}
           loop == IF I # {} THEN Min(I) ELSE 0
           c    == SubSeq(Top.code, loop + 1, Len(Top.code))
<1>1. Top.code # <<>> /\ Goto(c) /\ UNCHANGED store
  BY DEF BreakStep, Doing, SelectInSeq
<1>2. Top.code \in Seq(Instructions) /\ Len(Top.code) \in Nat
  BY <1>1, RunTop, LenProperties DEF RunOK
<1>3. loop \in Nat
  BY <1>2, MinIs
<1> HIDE DEF loop
<1>4. \A i \in loop + 1 .. Len(Top.code) : Top.code[i] \in Instructions
  BY <1>2, <1>3, ElementOfSeq
<1>5. c \in Seq(Instructions)
  BY <1>2, <1>3, <1>4, SubSeqProperties
<1> HIDE DEF c
<1> QED BY <1>1, <1>5, GotoWent

LEMMA CallWent ==
  ASSUME NEW L, RunOK(L), CallStep
  PROVE  Went
<1> DEFINE c == Static[Instr[2]] \o Tail(Top.code)
<1>1. Top.code # <<>> /\ Instr[1] = "call" /\ Goto(c) /\ UNCHANGED store
  BY DEF CallStep, Doing, Instr
<1>2. Instr \in Instructions /\ Tail(Top.code) \in Seq(Instructions)
  BY <1>1, RunTop DEF RunOK
<1>3. Static[Instr[2]] \in Seq(Instructions)
  BY <1>1, <1>2, Forms, BuiltinCodes
<1>4. c \in Seq(Instructions)
  BY <1>2, <1>3, ConcatProperties
<1> HIDE DEF c
<1> QED BY <1>1, <1>4, GotoWent

LEMMA LocalWent ==
  ASSUME NEW L, RunOK(L), LocalStep
  PROVE  Went
<1>1. Top.code # <<>> /\ UNCHANGED store
      /\ \E n : frames' = [frames EXCEPT ![1].code = Tail(@), ![1].local = n]
  BY DEF LocalStep, Doing, Local
<1>2. PICK n : frames' = [frames EXCEPT ![1].code = Tail(@), ![1].local = n]
  BY <1>1
<1>3. Tail(Top.code) \in Seq(Instructions) /\ frames[1] = Top
  BY <1>1, RunTop DEF RunOK
<1>4. frames' = [frames EXCEPT ![1].code = Tail(Top.code), ![1].local = n]
  BY <1>2, <1>3
<1>5. Run(frames', L \cup {n})
  BY <1>1, <1>3, <1>4, RunLocal DEF RunOK
<1> QED BY <1>1, <1>5 DEF Went, RunOK, store

LEMMA ReturnWent ==
  ASSUME NEW L, RunOK(L), Return
  PROVE  Went
<1>1. frames' = Tail(frames) /\ UNCHANGED store
  BY DEF Return
<1> QED BY <1>1, RunPop DEF Went, RunOK, store

LEMMA PrintWent ==
  ASSUME NEW L, RunOK(L), PrintStep
  PROVE  Went
<1>1. Top.code # <<>> /\ Advance /\ memory' = memory /\ born' = born
      /\ root' \in {root, [root EXCEPT !["stck"] = memory[root.stck].next]}
  BY DEF PrintStep, Doing
<1>2. StoreOK(memory, [root EXCEPT !["stck"] = memory[root.stck].next], born, library)
  BY SetRegister, RegisterLive DEF RunOK
<1> QED BY <1>1, <1>2, AdvanceWent DEF RunOK


-----------------------------------------------------------------------------
(* The loop of exec_term.                                                  *)

Bodies == \A s \in Names : body[s] \in library \cup {0}

LEMMA FetchOK ==
  ASSUME StoreOK(memory, root, born, library), p # 0
  PROVE  /\ StoreOK(Fetch, root, born, library) /\ DOMAIN Fetch = DOMAIN memory
         /\ p \in DOMAIN memory /\ CellIn(memory[p], DOMAIN memory)
<1> DEFINE n == root["conts"]
           v == memory[p].next
<1>1. n \in DOMAIN memory /\ memory[n].op = "LIST" /\ p = memory[n].u
  BY RegisterLive DEF p, Lis
<1>2. p \in DOMAIN memory /\ v \in DOMAIN memory /\ CellIn(memory[p], DOMAIN memory)
  BY <1>1, RegisterLive DEF p
<1>3. n \in library => v \in library \cup {0}
  <2> SUFFICES ASSUME n \in library PROVE v \in library \cup {0}
    OBVIOUS
  <2>1. p \in library
    BY <1>1 DEF StoreOK, Sound, CellIn
  <2> QED BY <2>1 DEF StoreOK, Sound, CellIn
<1>4. Fetch = [memory EXCEPT ![n].u = v]
  BY DEF Fetch
<1> HIDE DEF n, v
<1>5. StoreOK(Fetch, root, born, library) /\ DOMAIN Fetch = DOMAIN memory
  BY <1>1, <1>2, <1>3, <1>4, SetList
<1> QED BY <1>2, <1>5

LEMMA EndProgramWent ==
  ASSUME NEW L, RunOK(L), EndProgram
  PROVE  Went
<1>1. /\ memory' = memory /\ born' = born /\ frames' = Tail(frames)
      /\ root' = [root EXCEPT !["conts"] = memory[root.conts].next]
  BY DEF EndProgram
<1>2. StoreOK(memory', root', born', library)
  BY <1>1, SetRegister, RegisterLive DEF RunOK
<1> QED BY <1>1, <1>2, RunPop DEF Went, RunOK

LEMMA BadNodeWent ==
  ASSUME NEW L, RunOK(L), BadNode
  PROVE  Went
<1>1. p # 0 /\ memory' = Fetch /\ root' = root /\ born' = born /\ frames' = Tail(frames)
  BY DEF BadNode, Fetched
<1> QED BY <1>1, FetchOK, RunPop DEF Went, RunOK

LEMMA PushLiteralWent ==
  ASSUME NEW L, RunOK(L), PushLiteral
  PROVE  Went
<1> DEFINE c == [memory[p] EXCEPT !.next = root.stck]
<1>1. p # 0 /\ New(Fetch, Reg("stck"), c) /\ frames' = frames
  BY DEF PushLiteral, Execute, Fetched, stck
<1>2. StoreOK(Fetch, root, born, library) /\ DOMAIN Fetch = DOMAIN memory
      /\ CellIn(memory[p], DOMAIN memory)
  BY <1>1, FetchOK DEF RunOK
<1>3. root.stck \in DOMAIN memory /\ "stck" \in Registers
  BY RegisterLive DEF RunOK
<1>4. CellIn(c, DOMAIN Fetch)
  BY <1>2, <1>3, Relinked
<1> HIDE DEF c
<1>5. StoreOK(memory', root', born', library)
  BY <1>1, <1>2, <1>3, <1>4, NewNode
<1> QED BY <1>1, <1>5 DEF Went, RunOK

LEMMA CallBuiltinWent ==
  ASSUME NEW L, 0 \in L, RunOK(L), CallBuiltin
  PROVE  Went
<1> DEFINE f == Activation("builtin", Builtin[memory[p].u])
<1>1. /\ p # 0 /\ memory[p].op = "ANON_FUNCT" /\ memory' = Fetch /\ root' = root
      /\ born' = born /\ frames' = <<f>> \o frames
  BY DEF CallBuiltin, Execute, Fetched
<1>2. StoreOK(Fetch, root, born, library) /\ memory[p].u \in Unlinking
  BY <1>1, FetchOK DEF RunOK, CellIn
<1>3. Builtin[memory[p].u] \in Seq(Instructions)
  BY <1>2, BuiltinCodes
<1>4. f \in RunFrames(L)
  BY <1>3 DEF RunFrames, Activation
<1> HIDE DEF f
<1>5. Run(frames', L)
  BY <1>1, <1>4, RunPush DEF RunOK
<1> QED BY <1>1, <1>2, <1>5 DEF Went

LEMMA SkipUndefinedWent ==
  ASSUME NEW L, RunOK(L), SkipUndefined
  PROVE  Went
<1>1. p # 0 /\ memory' = Fetch /\ root' = root /\ born' = born /\ frames' = frames
  BY DEF SkipUndefined, Execute, Fetched
<1> QED BY <1>1, FetchOK DEF Went, RunOK

LEMMA BodyLive ==
  ASSUME StoreOK(memory, root, born, library), Bodies, p # 0, memory[p].op = "USR"
  PROVE  body[memory[p].u] \in DOMAIN Fetch
<1>1. memory[p].u \in Names
  BY FetchOK DEF CellIn
<1>2. library \cup {0} \subseteq DOMAIN Fetch
  BY FetchOK DEF StoreOK, Sound
<1> QED BY <1>1, <1>2 DEF Bodies

LEMMA TailCallWent ==
  ASSUME NEW L, RunOK(L), Bodies, TailCall
  PROVE  Went
<1> DEFINE c == Cell("LIST", body[memory[p].u], memory[root.conts].next)
<1>1. p # 0 /\ memory[p].op = "USR" /\ New(Fetch, Reg("conts"), c) /\ frames' = frames
  BY DEF TailCall, Execute, Fetched
<1>2. StoreOK(Fetch, root, born, library) /\ DOMAIN Fetch = DOMAIN memory
  BY <1>1, FetchOK DEF RunOK
<1>3. "conts" \in Registers /\ memory[root.conts].next \in DOMAIN memory
  BY RegisterLive DEF RunOK
<1>4. CellIn(c, DOMAIN Fetch)
  BY <1>1, <1>2, <1>3, BodyLive, ListCell DEF RunOK
<1> HIDE DEF c
<1>5. StoreOK(memory', root', born', library)
  BY <1>1, <1>2, <1>3, <1>4, NewNode
<1> QED BY <1>1, <1>5 DEF Went, RunOK

LEMMA SubroutineWent ==
  ASSUME NEW L, 0 \in L, RunOK(L), Bodies, Subroutine
  PROVE  Went
<1>1. /\ p # 0 /\ memory[p].op = "USR"
      /\ exec_term(Fetch, body[memory[p].u], frames)
  BY DEF Subroutine, Execute, Fetched
<1>2. StoreOK(Fetch, root, born, library)
  BY <1>1, FetchOK DEF RunOK
<1>3. body[memory[p].u] \in DOMAIN Fetch
  BY <1>1, BodyLive DEF RunOK
<1> QED BY <1>1, <1>2, <1>3, ExecTerm DEF RunOK

(* A command is executed.                                                  *)
LEMMA StepWent ==
  ASSUME NEW L, RunOK(L), Bodies, Instruction \/ Program
  PROVE  Went
<1>1. CASE Instruction
  BY <1>1, RequireWent, AssignWent, CopyWent, ListWent, NumberWent, FunctionWent, ConsWent,
     ExecWent, IfWent, LoopWent, BreakWent, CallWent, LocalWent, ReturnWent, PrintWent
     DEF Instruction
<1>2. CASE Program
  <2>1. 0 \in L \cup {0} /\ RunOK(L \cup {0})
    BY RunMore DEF RunOK
  <2>2. CASE CallBuiltin \/ Subroutine
    <3> DEFINE K == L \cup {0}
    <3> HIDE DEF K
    <3> QED BY <2>1, <2>2, CallBuiltinWent, SubroutineWent DEF K
  <2> QED
    BY <1>2, <2>2, EndProgramWent, BadNodeWent, PushLiteralWent, SkipUndefinedWent,
       TailCallWent DEF Program
<1> QED BY <1>1, <1>2


-----------------------------------------------------------------------------
(* The memory while terms are read.  Counted from the outermost, term k     *)
(* lies at t[k] with the term that it is part of behind it; when it has a   *)
(* first factor (f[k] = 1), d[k] is the node of the dump that holds its     *)
(* last.  A factor that was read waits on top of the terms.  B is what a    *)
(* factor never is: it would be relinked.                                  *)

Alive(mem, rt) ==
  /\ rt = [r \in Registers |-> rt[r]]
  /\ \A r \in Registers \ {"prog"} : rt[r] \in DOMAIN mem

Loose(n, m, mem, t, B, lib) ==
  n \in DOMAIN mem \ (lib \cup {0} \cup B) /\ \A k \in 1 .. m : n # t[k]

Held(k, m, f, mem, t, d, B, lib) ==
  IF f[k] = 0 THEN d[k] = d[k - 1]
  ELSE /\ d[k] \in B /\ mem[d[k]].op = "LIST" /\ mem[d[k]].next = d[k - 1]
       /\ Loose(mem[d[k]].u, m, mem, t, B, lib)

Terms(m, mem, t, B, lib) ==
  /\ \A k \in 1 .. m : t[k] \in DOMAIN mem \ (lib \cup {0} \cup B) /\ mem[t[k]].op = "LIST"
  /\ \A j, k \in 1 .. m : j # k => t[j] # t[k]
  /\ \A k \in 2 .. m : mem[t[k]].next = t[k - 1]

Waiting(pending, m, mem, rt, t, B, lib) ==
  IF pending = 1 THEN Loose(rt["stck"], m, mem, t, B, lib) /\ mem[rt["stck"]].next = t[m]
                 ELSE rt["stck"] = t[m]

Nested(m, f, mem, rt, t, d, B, lib) ==
  /\ B \subseteq DOMAIN mem \ (lib \cup {0})
  /\ \E D \in SUBSET B : Saved(D, mem, rt, lib)
  /\ Terms(m, mem, t, B, lib)
  /\ \A k \in 1 .. m : Held(k, m, f, mem, t, d, B, lib)

Shape(m, f, pending, mem, rt, t, d, B, lib) ==
  /\ Nested(m, f, mem, rt, t, d, B, lib)
  /\ d[m] = rt["dump"] /\ Waiting(pending, m, mem, rt, t, B, lib)

LEMMA RegisterNames ==
  /\ {"stck", "prog", "conts", "dump", "dump1", "dump2", "dump3"} \subseteq Registers
BY DEF Registers

(* Links of a node that belongs to no definition.                          *)
LEMMA SetNext ==
  ASSUME NEW mem, Sound(mem, born, library), NEW n \in DOMAIN mem \ (library \cup {0}),
         NEW v \in DOMAIN mem
  PROVE  LET mem2 == [mem EXCEPT ![n].next = v] IN
         /\ Sound(mem2, born, library) /\ DOMAIN mem2 = DOMAIN mem
         /\ \A k \in DOMAIN mem : mem2[k].op = mem[k].op /\ mem2[k].u = mem[k].u
         /\ \A k \in DOMAIN mem : k # n => mem2[k].next = mem[k].next
         /\ mem2[n].next = v
<1> DEFINE c == [mem[n] EXCEPT !.next = v]
           mem2 == [mem EXCEPT ![n].next = v]
<1>1. CellIn(mem[n], DOMAIN mem)
  BY DEF Sound
<1>2. c = [op |-> mem[n].op, u |-> mem[n].u, next |-> v]
  BY <1>1 DEF CellIn, IsCell
<1>3. mem2 = [mem EXCEPT ![n] = c]
  OBVIOUS
<1>4. CellIn(c, DOMAIN mem)
  BY <1>1, Relinked
<1> HIDE DEF c, mem2
<1>5. /\ Sound(mem2, born, library) /\ DOMAIN mem2 = DOMAIN mem /\ mem2[n] = c
      /\ \A m \in DOMAIN mem : m # n => mem2[m] = mem[m]
  BY <1>3, <1>4, SoundChange
<1> QED BY <1>2, <1>5 DEF mem2

LEMMA SetLast ==
  ASSUME NEW mem, Sound(mem, born, library), NEW n \in DOMAIN mem \ (library \cup {0}),
         NEW v \in DOMAIN mem, mem[n].op = "LIST"
  PROVE  LET mem2 == [mem EXCEPT ![n].u = v] IN
         /\ Sound(mem2, born, library) /\ DOMAIN mem2 = DOMAIN mem
         /\ \A k \in DOMAIN mem : mem2[k].op = mem[k].op /\ mem2[k].next = mem[k].next
         /\ \A k \in DOMAIN mem : k # n => mem2[k].u = mem[k].u
         /\ mem2[n].u = v
<1> DEFINE c == [mem[n] EXCEPT !.u = v]
           mem2 == [mem EXCEPT ![n].u = v]
<1>1. CellIn(mem[n], DOMAIN mem)
  BY DEF Sound
<1>2. c = [op |-> mem[n].op, u |-> v, next |-> mem[n].next]
  BY <1>1 DEF CellIn, IsCell
<1>3. mem2 = [mem EXCEPT ![n] = c]
  OBVIOUS
<1> HIDE DEF c, mem2
<1>4. CellIn(c, DOMAIN mem)
  BY <1>1, <1>2 DEF CellIn, IsCell
<1>5. /\ Sound(mem2, born, library) /\ DOMAIN mem2 = DOMAIN mem /\ mem2[n] = c
      /\ \A m \in DOMAIN mem : m # n => mem2[m] = mem[m]
  BY <1>3, <1>4, SoundChange
<1> QED BY <1>2, <1>5 DEF mem2

(* What a change of the memory must leave as it is.                        *)
LEMMA NestedKept ==
  ASSUME NEW m \in Nat, NEW f, NEW mem, NEW mem2, NEW rt, NEW rt2, NEW t, NEW d, NEW B,
         Nested(m, f, mem, rt, t, d, B, library),
         DOMAIN mem \subseteq DOMAIN mem2,
         \A n \in DOMAIN mem : mem2[n].op = mem[n].op,
         \A n \in B : mem2[n].next = mem[n].next
                      /\ (mem2[n].u = mem[n].u \/ Loose(mem2[n].u, m, mem, t, B, library)),
         \A k \in 1 .. m : mem2[t[k]].next = mem[t[k]].next,
         rt2["dump1"] = rt["dump1"], rt2["dump3"] = rt["dump3"]
  PROVE  /\ Nested(m, f, mem2, rt2, t, d, B, library)
         /\ \A n : Loose(n, m, mem, t, B, library) => Loose(n, m, mem2, t, B, library)
<1>1. B \subseteq DOMAIN mem2 \ (library \cup {0}) /\ B \subseteq DOMAIN mem
  BY DEF Nested
<1>2. PICK D \in SUBSET B : Saved(D, mem, rt, library)
  BY DEF Nested
<1>3. Saved(D, mem2, rt2, library)
  BY <1>1, <1>2 DEF Saved
<1>4. Terms(m, mem2, t, B, library)
  BY DEF Terms, Nested
<1>5. \A n : Loose(n, m, mem, t, B, library) => Loose(n, m, mem2, t, B, library)
  BY DEF Loose
<1>6. ASSUME NEW k \in 1 .. m PROVE Held(k, m, f, mem2, t, d, B, library)
  <2>1. Held(k, m, f, mem, t, d, B, library)
    BY DEF Nested
  <2> QED BY <1>1, <1>5, <2>1 DEF Held
<1> QED BY <1>1, <1>3, <1>4, <1>5, <1>6 DEF Nested

(* A new node on the stack.                                                *)
LEMMA NewOnStack ==
  ASSUME NEW c, Sound(memory, born, library), Alive(memory, root), CellIn(c, DOMAIN memory),
         New(memory, stck, c)
  PROVE  /\ Sound(memory', born', library) /\ Alive(memory', root')
         /\ DOMAIN memory' = DOMAIN memory \cup {born} /\ born \notin DOMAIN memory
         /\ memory'[born] = c /\ \A n \in DOMAIN memory : memory'[n] = memory[n]
         /\ root'["stck"] = born /\ \A r \in Registers \ {"stck"} : root'[r] = root[r]
<1>1. memory' = Extend(memory, c) /\ born' = born + 1 /\ root' = [root EXCEPT !["stck"] = born]
  BY DEF New, Store, stck, Reg
<1>2. /\ Sound(memory', born', library)
      /\ DOMAIN memory' = DOMAIN memory \cup {born} /\ born \notin DOMAIN memory
      /\ memory'[born] = c /\ \A n \in DOMAIN memory : memory'[n] = memory[n]
  <2>1. /\ Sound(Extend(memory, c), born + 1, library)
        /\ DOMAIN Extend(memory, c) = DOMAIN memory \cup {born} /\ born \notin DOMAIN memory
        /\ Extend(memory, c)[born] = c
        /\ \A n \in DOMAIN memory : Extend(memory, c)[n] = memory[n]
    BY SoundExtend
  <2> QED BY <1>1, <2>1
<1>3. /\ root' = [r \in Registers |-> root'[r]]
      /\ root'["stck"] = born /\ \A r \in Registers \ {"stck"} : root'[r] = root[r]
  BY <1>1, RegisterNames DEF Alive
<1>4. Alive(memory', root')
  BY <1>2, <1>3 DEF Alive
<1> QED BY <1>2, <1>3, <1>4

LEMMA ShapeFactor ==
  ASSUME NEW m \in Nat, NEW f, NEW t, NEW d, NEW B, NEW c, m # 0,
         Sound(memory, born, library), Alive(memory, root),
         Shape(m, f, 0, memory, root, t, d, B, library),
         CellIn(c, DOMAIN memory), c.next = root.stck, New(memory, stck, c)
  PROVE  /\ Sound(memory', born', library) /\ Alive(memory', root')
         /\ Shape(m, f, 1, memory', root', t, d, B, library)
<1>1. /\ Sound(memory', born', library) /\ Alive(memory', root')
      /\ DOMAIN memory' = DOMAIN memory \cup {born} /\ born \notin DOMAIN memory
      /\ memory'[born] = c /\ \A n \in DOMAIN memory : memory'[n] = memory[n]
      /\ root'["stck"] = born /\ \A r \in Registers \ {"stck"} : root'[r] = root[r]
  BY NewOnStack
<1>2. B \subseteq DOMAIN memory /\ (\A k \in 1 .. m : t[k] \in DOMAIN memory) /\ root.stck = t[m]
  BY DEF Shape, Nested, Terms, Waiting
<1>3. Nested(m, f, memory', root', t, d, B, library)
  <2>1. root'["dump1"] = root["dump1"] /\ root'["dump3"] = root["dump3"]
    BY <1>1, RegisterNames
  <2>2. DOMAIN memory \subseteq DOMAIN memory'
    BY <1>1
  <2>3. /\ \A n \in DOMAIN memory : memory'[n].op = memory[n].op
        /\ \A n \in B : memory'[n].next = memory[n].next /\ memory'[n].u = memory[n].u
        /\ \A k \in 1 .. m : memory'[t[k]].next = memory[t[k]].next
    BY <1>1, <1>2
  <2>4. Nested(m, f, memory, root, t, d, B, library)
    BY DEF Shape
  <2> QED BY <2>1, <2>2, <2>3, <2>4, NestedKept
<1>4. Waiting(1, m, memory', root', t, B, library)
  <2>1. born \notin library \cup {0} \cup B /\ \A k \in 1 .. m : born # t[k]
    BY <1>1, <1>2 DEF Sound
  <2> QED BY <1>1, <1>2, <2>1 DEF Waiting, Loose
<1>5. d[m] = root'["dump"]
  BY <1>1, RegisterNames DEF Shape
<1> QED BY <1>1, <1>3, <1>4, <1>5 DEF Shape

Put(g, n, v) == [k \in Nat |-> IF k = n THEN v ELSE g[k]]

(* Another term begins, the first of all when m = 0.                       *)
LEMMA ShapeOpen ==
  ASSUME NEW m \in Nat, NEW f, NEW t, NEW d, NEW B,
         Sound(memory, born, library), Alive(memory, root),
         Shape(m, f, 0, memory, root, t, d, B, library),
         New(memory, stck, Cell("LIST", 0, root.stck))
  PROVE  /\ Sound(memory', born', library) /\ Alive(memory', root')
         /\ Shape(m + 1, Put(f, m + 1, 0), 0, memory', root', Put(t, m + 1, born),
                  Put(d, m + 1, root.dump), B, library)
<1> DEFINE c == Cell("LIST", 0, root.stck)
           g == Put(f, m + 1, 0)
           s == Put(t, m + 1, born)
           e == Put(d, m + 1, root.dump)
<1>1. CellIn(c, DOMAIN memory) /\ c.op = "LIST" /\ c.next = root.stck
  <2>1. root.stck \in DOMAIN memory /\ 0 \in DOMAIN memory
    BY RegisterNames DEF Alive, Sound
  <2> QED BY <2>1, ListCell
<1> HIDE DEF c
<1>2. /\ Sound(memory', born', library) /\ Alive(memory', root')
      /\ DOMAIN memory' = DOMAIN memory \cup {born} /\ born \notin DOMAIN memory
      /\ memory'[born] = c /\ \A n \in DOMAIN memory : memory'[n] = memory[n]
      /\ root'["stck"] = born /\ \A r \in Registers \ {"stck"} : root'[r] = root[r]
  BY <1>1, NewOnStack DEF c
<1>3. B \subseteq DOMAIN memory /\ (\A k \in 1 .. m : t[k] \in DOMAIN memory) /\ root.stck = t[m]
  BY DEF Shape, Nested, Terms, Waiting
<1>4. Nested(m, f, memory', root', t, d, B, library)
  <2>1. root'["dump1"] = root["dump1"] /\ root'["dump3"] = root["dump3"]
    BY <1>2, RegisterNames
  <2>2. DOMAIN memory \subseteq DOMAIN memory'
    BY <1>2
  <2>3. /\ \A n \in DOMAIN memory : memory'[n].op = memory[n].op
        /\ \A n \in B : memory'[n].next = memory[n].next /\ memory'[n].u = memory[n].u
        /\ \A k \in 1 .. m : memory'[t[k]].next = memory[t[k]].next
    BY <1>2, <1>3
  <2>4. Nested(m, f, memory, root, t, d, B, library)
    BY DEF Shape
  <2> QED BY <2>1, <2>2, <2>3, <2>4, NestedKept
<1>5. born \notin library \cup {0} \cup B /\ \A k \in 1 .. m : born # t[k]
  BY <1>2, <1>3 DEF Sound
<1>6. /\ s[m + 1] = born /\ e[m + 1] = root.dump /\ g[m + 1] = 0
      /\ \A k \in 0 .. m : s[k] = t[k] /\ e[k] = d[k] /\ g[k] = f[k]
  BY DEF Put
<1> HIDE DEF g, s, e
<1>7. Terms(m + 1, memory', s, B, library)
  <2>1. \A k \in 1 .. m + 1 : s[k] \in DOMAIN memory' \ (library \cup {0} \cup B)
                             /\ memory'[s[k]].op = "LIST"
    BY <1>1, <1>2, <1>4, <1>5, <1>6 DEF Terms, Nested
  <2>2. \A j, k \in 1 .. m + 1 : j # k => s[j] # s[k]
    BY <1>4, <1>5, <1>6 DEF Terms, Nested
  <2>3. ASSUME NEW k \in 2 .. m + 1 PROVE memory'[s[k]].next = s[k - 1]
    <3>1. CASE k = m + 1
      BY <1>1, <1>2, <1>3, <1>6, <3>1
    <3>2. CASE k # m + 1
      BY <1>4, <1>6, <3>2 DEF Terms, Nested
    <3> QED BY <3>1, <3>2
  <2> QED BY <2>1, <2>2, <2>3 DEF Terms
<1>8. \A n \in DOMAIN memory :
        Loose(n, m, memory', t, B, library) => Loose(n, m + 1, memory', s, B, library)
  BY <1>2, <1>6 DEF Loose
<1>9. ASSUME NEW k \in 1 .. m + 1 PROVE Held(k, m + 1, g, memory', s, e, B, library)
  <2>1. CASE k = m + 1
    BY <1>6, <2>1 DEF Held, Shape
  <2>2. CASE k # m + 1
    <3>1. k \in 1 .. m /\ k - 1 \in 0 .. m /\ Held(k, m, f, memory', t, d, B, library)
      BY <1>4, <2>2 DEF Nested
    <3>2. g[k] = f[k] /\ e[k] = d[k] /\ e[k - 1] = d[k - 1]
      BY <1>6, <3>1
    <3>3. f[k] # 0 => memory'[d[k]].u \in DOMAIN memory
      BY <1>2, <1>3, <3>1 DEF Held, Sound, CellIn
    <3> QED BY <1>8, <3>1, <3>2, <3>3 DEF Held
  <2> QED BY <2>1, <2>2
<1>10. e[m + 1] = root'["dump"] /\ Waiting(0, m + 1, memory', root', s, B, library)
  BY <1>2, <1>6, RegisterNames DEF Waiting
<1> QED BY <1>2, <1>4, <1>7, <1>9, <1>10 DEF Shape, Nested, g, s, e

(* The dump when a term ends.                                              *)
LEMMA EndAlive ==
  ASSUME Sound(memory, born, library), Alive(memory, root),
         NEW rt, rt = [root EXCEPT !.dump = EndOfTerm]
  PROVE  /\ Alive(memory, rt) /\ rt["dump"] \in DOMAIN memory
         /\ \A r \in Registers \ {"dump"} : rt[r] = root[r]
         /\ \A r \in {"prog", "dump1", "dump3"} : rt[r] = root[r]
<1>1. root.dump \in DOMAIN memory
  BY RegisterNames DEF Alive
<1>2. EndOfTerm \in DOMAIN memory
  BY <1>1 DEF Sound, CellIn, EndOfTerm
<1>3. rt["dump"] = EndOfTerm /\ rt = [r \in Registers |-> rt[r]]
      /\ \A r \in Registers \ {"dump"} : rt[r] = root[r]
  BY RegisterNames DEF Alive
<1> QED BY <1>2, <1>3, RegisterNames DEF Alive


(* The end of a term, of which the outer one is a factor.                  *)
LEMMA ShapeClose ==
  ASSUME NEW m \in Nat, NEW f, NEW t, NEW d, NEW B, NEW rt,
         Sound(memory, born, library), Alive(memory, root), m > 1, f[m] \in {0, 1},
         Shape(m, f, 0, memory, root, t, d, B, library),
         rt = [root EXCEPT !.dump = IF f[m] = 1 THEN memory[root.dump].next ELSE root.dump]
  PROVE  Alive(memory, rt) /\ Shape(m - 1, f, 1, memory, rt, t, d, B, library)
<1> DEFINE v == IF f[m] = 1 THEN memory[root.dump].next ELSE root.dump
<1>1. rt["dump"] = v /\ rt = [r \in Registers |-> rt[r]]
      /\ \A r \in Registers \ {"dump"} : rt[r] = root[r]
  BY RegisterNames DEF Alive
<1>2. root.dump \in DOMAIN memory
  BY RegisterNames DEF Alive
<1>3. v \in DOMAIN memory
  BY <1>2 DEF Sound, CellIn
<1>4. Alive(memory, rt)
  BY <1>1, <1>3 DEF Alive
<1>5. d[m - 1] = v
  <2>1. Held(m, m, f, memory, t, d, B, library) /\ d[m] = root.dump
    BY DEF Shape, Nested
  <2> QED BY <2>1 DEF Held
<1> HIDE DEF v
<1>6. \A n : Loose(n, m, memory, t, B, library) => Loose(n, m - 1, memory, t, B, library)
  BY DEF Loose
<1>7. \A k \in 1 .. m - 1 : Held(k, m - 1, f, memory, t, d, B, library)
  BY <1>6 DEF Held, Shape, Nested
<1>8. Terms(m - 1, memory, t, B, library)
  BY DEF Terms, Shape, Nested
<1>9. Loose(t[m], m - 1, memory, t, B, library) /\ memory[t[m]].next = t[m - 1]
  <2>1. Terms(m, memory, t, B, library)
    BY DEF Shape, Nested
  <2> QED BY <2>1 DEF Terms, Loose
<1>10. rt["stck"] = t[m] /\ rt["dump1"] = root["dump1"] /\ rt["dump3"] = root["dump3"]
  BY <1>1, RegisterNames DEF Shape, Waiting
<1>11. B \subseteq DOMAIN memory \ (library \cup {0})
       /\ \E D \in SUBSET B : Saved(D, memory, rt, library)
  BY <1>10 DEF Shape, Nested, Saved
<1>12. Waiting(1, m - 1, memory, rt, t, B, library)
  BY <1>9, <1>10 DEF Waiting
<1> QED BY <1>1, <1>4, <1>5, <1>7, <1>8, <1>11, <1>12 DEF Shape, Nested

(* The first factor becomes the list of its term, and the dump holds it.    *)
LEMMA ShapeFirst ==
  ASSUME NEW m \in Nat, NEW f, NEW t, NEW d, NEW B, m # 0, f[m] = 0,
         Sound(memory, born, library), Alive(memory, root),
         Shape(m, f, 1, memory, root, t, d, B, library),
         AttachFirst
  PROVE  /\ Sound(memory', born', library) /\ Alive(memory', root')
         /\ Shape(m, Put(f, m, 1), 0, memory', root', t, Put(d, m, born), B \cup {born}, library)
<1> DEFINE x  == root["stck"]
           c  == Cell("LIST", x, root["dump"])
           m1 == [memory EXCEPT ![t[m]].u = x]
           m2 == [m1 EXCEPT ![x].next = 0]
           g  == Put(f, m, 1)
           e  == Put(d, m, born)
<1>1. memory[x].next = t[m] /\ Loose(x, m, memory, t, B, library)
  BY DEF Shape, Waiting
<1>2. /\ memory' = Extend(m2, c) /\ born' = born + 1
      /\ root' = [root EXCEPT !["stck"] = t[m], !["dump"] = born]
  BY <1>1 DEF AttachFirst
<1>3. /\ t[m] \in DOMAIN memory \ (library \cup {0} \cup B) /\ memory[t[m]].op = "LIST"
      /\ x \in DOMAIN memory \ (library \cup {0} \cup B)
      /\ \A k \in 1 .. m : x # t[k] /\ t[k] \in DOMAIN memory
      /\ B \subseteq DOMAIN memory \ (library \cup {0})
  BY <1>1 DEF Shape, Nested, Terms, Loose
<1> HIDE DEF x
<1>4. /\ Sound(m1, born, library) /\ DOMAIN m1 = DOMAIN memory
      /\ \A k \in DOMAIN memory : m1[k].op = memory[k].op /\ m1[k].next = memory[k].next
      /\ \A k \in DOMAIN memory : k # t[m] => m1[k].u = memory[k].u
  BY <1>3, SetLast
<1> HIDE DEF m1
<1>5. /\ Sound(m2, born, library) /\ DOMAIN m2 = DOMAIN memory
      /\ \A k \in DOMAIN memory : m2[k].op = m1[k].op /\ m2[k].u = m1[k].u
      /\ \A k \in DOMAIN memory : k # x => m2[k].next = m1[k].next
  <2>1. x \in DOMAIN m1 \ (library \cup {0}) /\ 0 \in DOMAIN m1
    BY <1>3, <1>4 DEF Sound
  <2>2. Sound(m1, born, library)
    BY <1>4
  <2>3. /\ Sound(m2, born, library) /\ DOMAIN m2 = DOMAIN m1
        /\ \A k \in DOMAIN m1 : m2[k].op = m1[k].op /\ m2[k].u = m1[k].u
        /\ \A k \in DOMAIN m1 : k # x => m2[k].next = m1[k].next
    BY <2>1, <2>2, SetNext
  <2> HIDE DEF m2
  <2> QED BY <1>4, <2>3
<1> HIDE DEF m2
<1>6. CellIn(c, DOMAIN m2) /\ c.op = "LIST" /\ c.u = x /\ c.next = root["dump"]
  <2>1. root["dump"] \in DOMAIN m2 /\ x \in DOMAIN m2
    BY <1>3, <1>5, RegisterNames DEF Alive
  <2> QED BY <2>1, ListCell DEF Cell
<1> HIDE DEF c
<1>7. /\ Sound(Extend(m2, c), born + 1, library)
      /\ DOMAIN Extend(m2, c) = DOMAIN m2 \cup {born} /\ born \notin DOMAIN m2
      /\ Extend(m2, c)[born] = c /\ \A n \in DOMAIN m2 : Extend(m2, c)[n] = m2[n]
  BY <1>5, <1>6, SoundExtend
<1>8. /\ Sound(memory', born', library) /\ DOMAIN memory' = DOMAIN memory \cup {born}
      /\ born \notin DOMAIN memory /\ memory'[born] = c
      /\ \A n \in DOMAIN memory : memory'[n].op = memory[n].op
      /\ \A n \in DOMAIN memory : n # x => memory'[n].next = memory[n].next
      /\ \A n \in DOMAIN memory : n # t[m] => memory'[n].u = memory[n].u
  <2>1. Sound(memory', born', library)
    BY <1>2, <1>7
  <2>2. DOMAIN memory' = DOMAIN memory \cup {born} /\ born \notin DOMAIN memory
        /\ memory'[born] = c /\ \A n \in DOMAIN memory : memory'[n] = m2[n]
    BY <1>2, <1>5, <1>7
  <2> QED BY <1>4, <1>5, <2>1, <2>2
<1>9. /\ root' = [r \in Registers |-> root'[r]]
      /\ root'["stck"] = t[m] /\ root'["dump"] = born
      /\ \A r \in Registers \ {"stck", "dump"} : root'[r] = root[r]
  BY <1>2, RegisterNames DEF Alive
<1>10. Alive(memory', root')
  BY <1>3, <1>8, <1>9 DEF Alive
<1>11. /\ Nested(m, f, memory', root', t, d, B, library)
       /\ \A n : Loose(n, m, memory, t, B, library) => Loose(n, m, memory', t, B, library)
  <2>1. root'["dump1"] = root["dump1"] /\ root'["dump3"] = root["dump3"]
    BY <1>9, RegisterNames
  <2>2. DOMAIN memory \subseteq DOMAIN memory'
    BY <1>8
  <2>3. /\ \A n \in DOMAIN memory : memory'[n].op = memory[n].op
        /\ \A n \in B : memory'[n].next = memory[n].next /\ memory'[n].u = memory[n].u
        /\ \A k \in 1 .. m : memory'[t[k]].next = memory[t[k]].next
    BY <1>3, <1>8
  <2>4. Nested(m, f, memory, root, t, d, B, library)
    BY DEF Shape
  <2> QED BY <2>1, <2>2, <2>3, <2>4, NestedKept
<1>12. /\ born \notin library \cup {0} \cup B /\ \A k \in 1 .. m : born # t[k]
  BY <1>3, <1>8 DEF Sound
<1>13. /\ e[m] = born /\ g[m] = 1 /\ \A k \in 0 .. m : k # m => e[k] = d[k] /\ g[k] = f[k]
  BY DEF Put
<1> HIDE DEF e, g
<1>14. \A n \in DOMAIN memory :
         Loose(n, m, memory', t, B, library) => Loose(n, m, memory', t, B \cup {born}, library)
  BY <1>8 DEF Loose
<1>15. Terms(m, memory', t, B \cup {born}, library)
  BY <1>11, <1>12 DEF Terms, Nested
<1>16. B \cup {born} \subseteq DOMAIN memory' \ (library \cup {0})
       /\ \E D \in SUBSET (B \cup {born}) : Saved(D, memory', root', library)
  BY <1>8, <1>11, <1>12 DEF Nested
<1>17. ASSUME NEW k \in 1 .. m PROVE Held(k, m, g, memory', t, e, B \cup {born}, library)
  <2>1. CASE k = m
    <3>1. d[m - 1] = root["dump"]
      BY DEF Shape, Nested, Held
    <3>2. Loose(x, m, memory', t, B \cup {born}, library)
      BY <1>1, <1>3, <1>11, <1>14 DEF x
    <3>3. e[m - 1] = d[m - 1]
      BY <1>13
    <3> QED BY <1>6, <1>8, <1>13, <2>1, <3>1, <3>2, <3>3 DEF Held
  <2>2. CASE k # m
    <3>1. k \in 1 .. m /\ k - 1 \in 0 .. m /\ Held(k, m, f, memory', t, d, B, library)
          /\ Held(k, m, f, memory, t, d, B, library)
      BY <1>11, <2>2 DEF Nested, Shape
    <3>2. g[k] = f[k] /\ e[k] = d[k] /\ e[k - 1] = d[k - 1]
      BY <1>13, <2>2, <3>1
    <3>3. f[k] # 0 => /\ d[k] \in B
                      /\ memory'[d[k]].u = memory[d[k]].u /\ memory[d[k]].u \in DOMAIN memory
      BY <1>3, <1>8, <3>1 DEF Held, Loose
    <3> QED BY <1>14, <3>1, <3>2, <3>3 DEF Held
  <2> QED BY <2>1, <2>2
<1>18. e[m] = root'["dump"] /\ Waiting(0, m, memory', root', t, B \cup {born}, library)
  BY <1>9, <1>13 DEF Waiting
<1> QED BY <1>8, <1>10, <1>15, <1>16, <1>17, <1>18 DEF Shape, Nested, g, e

(* A further one is linked to the last, which the dump holds.               *)
LEMMA ShapeFurther ==
  ASSUME NEW m \in Nat, NEW f, NEW t, NEW d, NEW B, m # 0, f[m] = 1,
         Sound(memory, born, library), Alive(memory, root),
         Shape(m, f, 1, memory, root, t, d, B, library), AttachFurther
  PROVE  /\ Sound(memory', born', library) /\ Alive(memory', root')
         /\ Shape(m, f, 0, memory', root', t, d, B, library)
<1> DEFINE x  == root["stck"]
           h  == root["dump"]
           l  == Lis(root["dump"])
           m1 == [memory EXCEPT ![l].next = x]
           m2 == [m1 EXCEPT ![x].next = 0]
           m3 == [m2 EXCEPT ![h].u = x]
<1>1. memory[x].next = t[m] /\ Loose(x, m, memory, t, B, library)
  BY DEF Shape, Waiting
<1>2. memory' = m3 /\ born' = born /\ root' = [root EXCEPT !["stck"] = t[m]]
  BY <1>1 DEF AttachFurther
<1>3. /\ h \in B /\ memory[h].op = "LIST" /\ Loose(l, m, memory, t, B, library)
  BY DEF Shape, Nested, Held, Lis
<1>4. /\ x \in DOMAIN memory \ (library \cup {0} \cup B)
      /\ l \in DOMAIN memory \ (library \cup {0} \cup B)
      /\ h \in DOMAIN memory \ (library \cup {0})
      /\ \A k \in 1 .. m : x # t[k] /\ l # t[k] /\ t[k] \in DOMAIN memory \ B
      /\ B \subseteq DOMAIN memory \ (library \cup {0}) /\ 0 \in DOMAIN memory
  BY <1>1, <1>3 DEF Shape, Nested, Terms, Loose, Sound
<1> HIDE DEF x, h, l
<1>5. /\ Sound(m1, born, library) /\ DOMAIN m1 = DOMAIN memory
      /\ \A k \in DOMAIN memory : m1[k].op = memory[k].op /\ m1[k].u = memory[k].u
      /\ \A k \in DOMAIN memory : k # l => m1[k].next = memory[k].next
  BY <1>4, SetNext
<1> HIDE DEF m1
<1>6. /\ Sound(m2, born, library) /\ DOMAIN m2 = DOMAIN memory
      /\ \A k \in DOMAIN memory : m2[k].op = m1[k].op /\ m2[k].u = m1[k].u
      /\ \A k \in DOMAIN memory : k # x => m2[k].next = m1[k].next
  <2>1. x \in DOMAIN m1 \ (library \cup {0}) /\ 0 \in DOMAIN m1
    BY <1>4, <1>5
  <2>2. Sound(m1, born, library)
    BY <1>5
  <2>3. /\ Sound(m2, born, library) /\ DOMAIN m2 = DOMAIN m1
        /\ \A k \in DOMAIN m1 : m2[k].op = m1[k].op /\ m2[k].u = m1[k].u
        /\ \A k \in DOMAIN m1 : k # x => m2[k].next = m1[k].next
    BY <2>1, <2>2, SetNext
  <2> HIDE DEF m2
  <2> QED BY <1>5, <2>3
<1> HIDE DEF m2
<1>7. /\ Sound(m3, born, library) /\ DOMAIN m3 = DOMAIN memory /\ m3[h].u = x
      /\ \A k \in DOMAIN memory : m3[k].op = m2[k].op /\ m3[k].next = m2[k].next
      /\ \A k \in DOMAIN memory : k # h => m3[k].u = m2[k].u
  <2>1. h \in DOMAIN m2 \ (library \cup {0}) /\ x \in DOMAIN m2 /\ m2[h].op = "LIST"
    BY <1>3, <1>4, <1>5, <1>6
  <2>2. Sound(m2, born, library)
    BY <1>6
  <2>3. /\ Sound(m3, born, library) /\ DOMAIN m3 = DOMAIN m2 /\ m3[h].u = x
        /\ \A k \in DOMAIN m2 : m3[k].op = m2[k].op /\ m3[k].next = m2[k].next
        /\ \A k \in DOMAIN m2 : k # h => m3[k].u = m2[k].u
    BY <2>1, <2>2, SetLast
  <2> HIDE DEF m3
  <2> QED BY <1>6, <2>3
<1> HIDE DEF m3
<1>8. /\ Sound(memory', born', library) /\ DOMAIN memory' = DOMAIN memory
      /\ memory'[h].u = x
      /\ \A n \in DOMAIN memory : memory'[n].op = memory[n].op
      /\ \A n \in DOMAIN memory : n # x /\ n # l => memory'[n].next = memory[n].next
      /\ \A n \in DOMAIN memory : n # h => memory'[n].u = memory[n].u
  BY <1>2, <1>4, <1>5, <1>6, <1>7
<1>9. /\ root' = [r \in Registers |-> root'[r]]
      /\ root'["stck"] = t[m] /\ \A r \in Registers \ {"stck"} : root'[r] = root[r]
  BY <1>2, RegisterNames DEF Alive
<1>10. Alive(memory', root')
  BY <1>4, <1>8, <1>9 DEF Alive
<1>11. Nested(m, f, memory', root', t, d, B, library)
  <2>1. root'["dump1"] = root["dump1"] /\ root'["dump3"] = root["dump3"]
    BY <1>9, RegisterNames
  <2>2. DOMAIN memory \subseteq DOMAIN memory'
    BY <1>8
  <2>3. \A n \in B : memory'[n].next = memory[n].next
                     /\ (memory'[n].u = memory[n].u
                         \/ Loose(memory'[n].u, m, memory, t, B, library))
    BY <1>1, <1>4, <1>8 DEF x
  <2>4. /\ \A n \in DOMAIN memory : memory'[n].op = memory[n].op
        /\ \A k \in 1 .. m : memory'[t[k]].next = memory[t[k]].next
    BY <1>4, <1>8
  <2>5. Nested(m, f, memory, root, t, d, B, library)
    BY DEF Shape
  <2> QED BY <2>1, <2>2, <2>3, <2>4, <2>5, NestedKept
<1>12. d[m] = root'["dump"] /\ Waiting(0, m, memory', root', t, B, library)
  BY <1>9, RegisterNames DEF Waiting, Shape
<1> QED BY <1>8, <1>10, <1>11, <1>12 DEF Shape


-----------------------------------------------------------------------------
(* The C stack while terms are read, f[k] the local variable of the k-th    *)
(* activation of readterm from the outermost.                              *)

Attach     == << <<"attach">> >>
ReadFrames == [fn : {"readterm"}, code : {<<>>, Attach}, local : {0, 1}]

Layered(fr, m, f, pending) ==
  /\ fr \in Seq(ReadFrames) /\ Len(fr) = m /\ m # 0 /\ pending \in {0, 1}
  /\ \A k \in 1 .. m : fr[k].local = f[m + 1 - k] /\ (k # 1 => fr[k].code = Attach)
  /\ fr[1].code = IF pending = 1 THEN Attach ELSE <<>>

LEMMA LayeredTop ==
  ASSUME NEW m, NEW f, NEW pending, Layered(frames, m, f, pending)
  PROVE  /\ frames # <<>> /\ Top = frames[1] /\ Top \in ReadFrames /\ m \in Nat \ {0}
         /\ Top.fn = "readterm" /\ Top.local = f[m] /\ f[m] \in {0, 1}
         /\ Top.code = (IF pending = 1 THEN Attach ELSE <<>>)
         /\ Last(frames).fn = "readterm" /\ 1 \in 1 .. Len(frames)
         /\ pending = IF Top.code = <<>> THEN 0 ELSE 1
<1>1. Len(frames) \in Nat /\ frames # <<>>
  BY EmptySeq, LenProperties DEF Layered
<1>2. Top = frames[1] /\ m \in Nat \ {0} /\ 1 \in 1 .. m /\ m = Len(frames)
  BY <1>1 DEF Top, Layered
<1>3. \A k \in 1 .. m : frames[k] \in ReadFrames
  BY <1>2, ElementOfSeq DEF Layered
<1>4. Top.local = f[m]
  BY <1>2 DEF Layered
<1>5. Last(frames).fn = "readterm"
  BY <1>2, <1>3 DEF Last, ReadFrames
<1>6. pending = IF Top.code = <<>> THEN 0 ELSE 1
  <2>1. Attach # <<>>
    BY DEF Attach
  <2> QED BY <1>2, <2>1 DEF Layered
<1> QED BY <1>1, <1>2, <1>3, <1>4, <1>5, <1>6 DEF Layered, ReadFrames

LEMMA LayeredChanged ==
  ASSUME NEW m, NEW f, NEW pending, Layered(frames, m, f, pending), NEW q \in {0, 1},
         NEW top \in ReadFrames, top.code = (IF q = 1 THEN Attach ELSE <<>>),
         NEW g, g[m] = top.local, \A k \in 1 .. m : k # m => g[k] = f[k],
         NEW fr, fr = [frames EXCEPT ![1] = top]
  PROVE  Layered(fr, m, g, q)
<1>1. Top \in ReadFrames /\ m \in Nat \ {0} /\ 1 \in 1 .. Len(frames)
  BY LayeredTop
<1>4. frames \in Seq(ReadFrames) /\ Len(frames) = m
  BY DEF Layered
<1>5. /\ fr \in Seq(ReadFrames) /\ Len(fr) = m
      /\ \A k \in 1 .. m : fr[k] = IF k = 1 THEN top ELSE frames[k]
  BY <1>1, <1>4, ExceptSeq
<1>6. ASSUME NEW k \in 1 .. m PROVE fr[k].local = g[m + 1 - k]
  <2>1. CASE k = 1
    BY <1>1, <1>5, <2>1
  <2>2. CASE k # 1
    <3>1. m + 1 - k \in 1 .. m /\ m + 1 - k # m
      BY <1>1, <2>2
    <3>2. frames[k].local = f[m + 1 - k]
      BY DEF Layered
    <3> QED BY <1>5, <2>2, <3>1, <3>2
  <2> QED BY <2>1, <2>2
<1>7. \A k \in 1 .. m : k # 1 => fr[k].code = Attach
  BY <1>5 DEF Layered
<1>8. fr[1].code = IF q = 1 THEN Attach ELSE <<>>
  BY <1>1, <1>5
<1> QED BY <1>1, <1>5, <1>6, <1>7, <1>8 DEF Layered

LEMMA LayeredPush ==
  ASSUME NEW m, NEW f, NEW fr, Layered(fr, m, f, 1)
  PROVE  Layered(<<Activation("readterm", <<>>)>> \o fr, m + 1, Put(f, m + 1, 0), 0)
<1> DEFINE top == Activation("readterm", <<>>)
           fr2 == <<top>> \o fr
           g   == Put(f, m + 1, 0)
<1>1. top \in ReadFrames /\ top.code = <<>> /\ top.local = 0
  BY DEF Activation, ReadFrames
<1> HIDE DEF top
<1>2. fr \in Seq(ReadFrames) /\ Len(fr) = m /\ m \in Nat \ {0}
  BY LenProperties DEF Layered
<1>3. <<top>> \in Seq(ReadFrames) /\ Len(<<top>>) = 1 /\ <<top>>[1] = top
  BY <1>1
<1>4. /\ fr2 \in Seq(ReadFrames) /\ Len(fr2) = m + 1
      /\ \A k \in 1 .. m + 1 : fr2[k] = IF k <= 1 THEN <<top>>[k] ELSE fr[k - 1]
  BY <1>2, <1>3, ConcatProperties
<1>5. fr2[1] = top /\ \A k \in 1 .. m + 1 : k # 1 => fr2[k] = fr[k - 1]
  BY <1>2, <1>3, <1>4
<1> HIDE DEF fr2
<1>6. g[m + 1] = 0 /\ \A k \in 1 .. m : g[k] = f[k]
  BY <1>2 DEF Put
<1> HIDE DEF g
<1>7. ASSUME NEW k \in 1 .. m + 1
      PROVE  fr2[k].local = g[m + 1 + 1 - k] /\ (k # 1 => fr2[k].code = Attach)
  <2>1. CASE k = 1
    BY <1>1, <1>2, <1>5, <1>6, <2>1
  <2>2. CASE k # 1
    <3>1. k - 1 \in 1 .. m /\ m + 1 - (k - 1) \in 1 .. m /\ m + 1 - (k - 1) = m + 1 + 1 - k
      BY <1>2, <2>2
    <3>2. fr2[k] = fr[k - 1]
      BY <1>5, <2>2
    <3>3. fr[k - 1].local = f[m + 1 - (k - 1)] /\ fr[k - 1].code = Attach
      BY <3>1 DEF Layered
    <3> QED BY <1>6, <3>1, <3>2, <3>3
  <2> QED BY <2>1, <2>2
<1> QED BY <1>1, <1>2, <1>4, <1>5, <1>7 DEF Layered, fr2, g, top

LEMMA LayeredPop ==
  ASSUME NEW m, NEW f, Layered(frames, m, f, 0)
  PROVE  IF m = 1 THEN Tail(frames) = <<>> ELSE Layered(Tail(frames), m - 1, f, 1)
<1>1. frames \in Seq(ReadFrames) /\ frames # <<>> /\ Len(frames) = m /\ m \in Nat \ {0}
  BY LayeredTop DEF Layered
<1>2. /\ Tail(frames) \in Seq(ReadFrames) /\ Len(Tail(frames)) = m - 1
      /\ \A k \in 1 .. m - 1 : Tail(frames)[k] = frames[k + 1]
  BY <1>1, HeadTailProperties
<1>3. CASE m = 1
  <2>1. Tail(frames) \in Seq(ReadFrames) /\ Len(Tail(frames)) = 0
    BY <1>2, <1>3
  <2>2. Tail(frames) = <<>>
    BY <2>1, EmptySeq
  <2> QED BY <1>3, <2>2
<1>4. CASE m # 1
  <2>1. ASSUME NEW k \in 1 .. m - 1
        PROVE  Tail(frames)[k].local = f[m - 1 + 1 - k] /\ Tail(frames)[k].code = Attach
    <3>1. k + 1 \in 1 .. m /\ k + 1 # 1 /\ m + 1 - (k + 1) = m - 1 + 1 - k
      BY <1>1
    <3> QED BY <1>2, <3>1 DEF Layered
  <2>2. 1 \in 1 .. m - 1 /\ m - 1 # 0
    BY <1>1, <1>4
  <2> QED BY <1>2, <1>4, <2>1, <2>2 DEF Layered
<1> QED BY <1>3, <1>4


-----------------------------------------------------------------------------
(* The invariant.  At any time the memory is sound and the registers but    *)
(* prog are alive; the C stack is empty, that of readterm, or that of a     *)
(* command that is executed.                                               *)

(* What may be typed: no other builtins than these, and no undefined token. *)
Symbols ==
  ({"[", "]"} \X {0}) \cup ({"INTEGER"} \X Int) \cup ({"BOOLEAN"} \X {0, 1})
  \cup ({"USR"} \X Names) \cup ({"ANON_FUNCT"} \X Unlinking)

Programs == /\ \A f \in Frontends : Chunks[f] \subseteq Seq(Symbols)
            /\ Prelude \in Seq(Seq(Symbols))

Typed == frontend \in Frontends /\ line \in Seq(Symbols) /\ defs \in Nat

Registered ==
  /\ Sound(memory, born, library) /\ Alive(memory, root)
  /\ frontend = "joy_eval_string" => root["prog"] \in DOMAIN memory
  /\ \E D : Saved(D, memory, root, library)
  /\ body = [s \in Names |-> body[s]] /\ Bodies
  /\ defining # 0 => root["dump1"] = 0 /\ root["dump3"] = 0

(* d[0]: what lay on the dump before, nothing when no command has failed.  *)
ReadState(m, f, pending, t, d, B) ==
  /\ Layered(frames, m, f, pending) /\ Shape(m, f, pending, memory, root, t, d, B, library)
  /\ ~failed => d[0] = 0

RunState == /\ defining = 0 /\ root["prog"] \in DOMAIN memory
            /\ \E L : Run(frames, L)

Mode ==
  \/ frames = <<>>
  \/ \E m, f, pending, t, d, B : ReadState(m, f, pending, t, d, B)
  \/ RunState

IInv == Typed /\ Registered /\ Mode

LEMMA FrontendNames ==
  ASSUME frontend \in Frontends
  PROVE  frontend \in {"repl", "joy_eval_string"}
BY InterpreterAssumption

(* A step of readterm leaves the rest as it is.                            *)
LEMMA ReaderRest ==
  ASSUME Typed, Registered, Sound(memory', born', library), Alive(memory', root'),
         DOMAIN memory \subseteq DOMAIN memory',
         \A r \in {"prog", "dump1", "dump3"} : root'[r] = root[r],
         \E D : Saved(D, memory', root', library),
         UNCHANGED <<frontend, defs, body, library, defining>>, line' \in Seq(Symbols)
  PROVE  Typed' /\ Registered'
<1>1. Typed'
  BY DEF Typed
<1>2. /\ Sound(memory', born', library') /\ Alive(memory', root')
      /\ \E D : Saved(D, memory', root', library')
  OBVIOUS
<1>3. frontend' = "joy_eval_string" => root'["prog"] \in DOMAIN memory'
  BY DEF Registered
<1>4. body' = [s \in Names |-> body'[s]] /\ Bodies'
  BY DEF Registered, Bodies
<1>5. defining' # 0 => root'["dump1"] = 0 /\ root'["dump3"] = 0
  BY DEF Registered
<1> QED BY <1>1, <1>2, <1>3, <1>4, <1>5 DEF Registered

LEMMA ReadStateTo ==
  ASSUME NEW m, NEW f, NEW pending, NEW t, NEW d, NEW B, Layered(frames', m, f, pending),
         Shape(m, f, pending, memory', root', t, d, B, library), library' = library,
         ~failed' => d[0] = 0
  PROVE  Mode' /\ \E D : Saved(D, memory', root', library)
<1>1. /\ Layered(frames', m, f, pending)
      /\ Shape(m, f, pending, memory', root', t, d, B, library') /\ (~failed' => d[0] = 0)
  OBVIOUS
<1>2. ReadState(m, f, pending, t, d, B)'
  BY <1>1 DEF ReadState
<1>3. Mode'
  BY <1>2 DEF Mode
<1>4. \E D : Saved(D, memory', root', library)
  BY DEF Shape, Nested
<1> QED BY <1>3, <1>4

LEMMA LineTail ==
  ASSUME Typed, line # <<>>
  PROVE  Head(line) \in Symbols /\ Tail(line) \in Seq(Symbols)
BY HeadTailProperties DEF Typed

LEMMA ReadFactorKeeps ==
  ASSUME IInv, NEW m, NEW f, NEW pending, NEW t, NEW d, NEW B,
         ReadState(m, f, pending, t, d, B), ReadFactor
  PROVE  IInv'
<1> DEFINE c == Cell(Head(line)[1], Head(line)[2], root.stck)
<1>1. /\ Top.code = <<>> /\ line # <<>> /\ Head(line)[1] \notin {"[", "]"}
      /\ New(memory, stck, c) /\ line' = Tail(line)
      /\ frames' = [frames EXCEPT ![1].code = Attach]
      /\ UNCHANGED session /\ failed' = failed
  BY DEF ReadFactor, Reading, Quietly, Goto, Attach, verdict
<1>2. /\ Layered(frames, m, f, pending) /\ Shape(m, f, pending, memory, root, t, d, B, library)
      /\ ~failed => d[0] = 0
  BY DEF ReadState
<1>3. /\ Top = frames[1] /\ Top \in ReadFrames /\ m \in Nat \ {0}
      /\ Top.local = f[m] /\ f[m] \in {0, 1} /\ pending = 0
  BY <1>1, <1>2, LayeredTop
<1>4. Head(line) \in Symbols /\ Tail(line) \in Seq(Symbols)
  BY <1>1, LineTail DEF IInv
<1>5. CellIn(c, DOMAIN memory) /\ c.next = root.stck
  <2>1. root.stck \in DOMAIN memory
    BY RegisterNames DEF IInv, Registered, Alive
  <2> QED BY <1>1, <1>4, <2>1 DEF Symbols, CellIn, IsCell, Cell
<1>6. Sound(memory, born, library) /\ Alive(memory, root)
  BY DEF IInv, Registered
<1> HIDE DEF c
<1>7. /\ Sound(memory', born', library) /\ Alive(memory', root')
      /\ DOMAIN memory' = DOMAIN memory \cup {born}
      /\ \A r \in Registers \ {"stck"} : root'[r] = root[r]
  BY <1>1, <1>5, <1>6, NewOnStack
<1>8. Shape(m, f, 1, memory', root', t, d, B, library)
  BY <1>1, <1>2, <1>3, <1>5, <1>6, ShapeFactor
<1>9. Layered(frames', m, f, 1)
  <2> DEFINE top == [Top EXCEPT !.code = Attach]
  <2>1. top \in ReadFrames /\ top.code = Attach /\ top.local = f[m]
    BY <1>3 DEF ReadFrames
  <2>2. frames' = [frames EXCEPT ![1] = top]
    BY <1>1, <1>3
  <2> HIDE DEF top
  <2> QED BY <1>2, <2>1, <2>2, LayeredChanged
<1>10. Mode' /\ \E D : Saved(D, memory', root', library)
  BY <1>1, <1>2, <1>8, <1>9, ReadStateTo DEF session
<1>11. \A r \in {"prog", "dump1", "dump3"} : root'[r] = root[r]
  BY <1>7, RegisterNames
<1> QED BY <1>1, <1>4, <1>7, <1>10, <1>11, ReaderRest DEF IInv, session

LEMMA ReadOpenKeeps ==
  ASSUME IInv, NEW m, NEW f, NEW pending, NEW t, NEW d, NEW B,
         ReadState(m, f, pending, t, d, B), ReadOpen
  PROVE  IInv'
<1> DEFINE c  == Cell("LIST", 0, root.stck)
           fr == [frames EXCEPT ![1].code = Attach]
<1>1. /\ Top.code = <<>> /\ line # <<>> /\ New(memory, stck, c) /\ line' = Tail(line)
      /\ frames' = <<Activation("readterm", <<>>)>> \o fr /\ UNCHANGED session
      /\ failed' = failed
  BY DEF ReadOpen, Reading, Quietly, Attach, verdict
<1>2. /\ Layered(frames, m, f, pending) /\ Shape(m, f, pending, memory, root, t, d, B, library)
      /\ ~failed => d[0] = 0
  BY DEF ReadState
<1>3. /\ Top = frames[1] /\ Top \in ReadFrames /\ m \in Nat \ {0}
      /\ Top.local = f[m] /\ f[m] \in {0, 1} /\ pending = 0
  BY <1>1, <1>2, LayeredTop
<1>4. Tail(line) \in Seq(Symbols)
  BY <1>1, LineTail DEF IInv
<1>5. Sound(memory, born, library) /\ Alive(memory, root)
  BY DEF IInv, Registered
<1>6. CellIn(c, DOMAIN memory)
  BY <1>5, ListCell, RegisterNames DEF Alive, Sound
<1>7. /\ Sound(memory', born', library) /\ Alive(memory', root')
      /\ DOMAIN memory' = DOMAIN memory \cup {born}
      /\ \A r \in Registers \ {"stck"} : root'[r] = root[r]
  BY <1>1, <1>5, <1>6, NewOnStack
<1>8. Shape(m + 1, Put(f, m + 1, 0), 0, memory', root', Put(t, m + 1, born),
            Put(d, m + 1, root.dump), B, library)
  BY <1>1, <1>2, <1>3, <1>5, ShapeOpen
<1>9. Layered(fr, m, f, 1)
  <2> DEFINE top == [Top EXCEPT !.code = Attach]
  <2>1. top \in ReadFrames /\ top.code = Attach /\ top.local = f[m]
    BY <1>3 DEF ReadFrames
  <2>2. fr = [frames EXCEPT ![1] = top]
    BY <1>3
  <2> HIDE DEF top, fr
  <2> QED BY <1>2, <2>1, <2>2, LayeredChanged
<1>10. Layered(frames', m + 1, Put(f, m + 1, 0), 0)
  BY <1>1, <1>9, LayeredPush
<1>11. Mode' /\ \E D : Saved(D, memory', root', library)
  <2>1. ~failed' => Put(d, m + 1, root.dump)[0] = 0
    BY <1>1, <1>2, <1>3 DEF Put
  <2> QED BY <1>1, <1>8, <1>10, <2>1, ReadStateTo DEF session
<1>12. \A r \in {"prog", "dump1", "dump3"} : root'[r] = root[r]
  BY <1>7, RegisterNames
<1> QED BY <1>1, <1>4, <1>7, <1>11, <1>12, ReaderRest DEF IInv, session

LEMMA ReadCloseKeeps ==
  ASSUME IInv, NEW m, NEW f, NEW pending, NEW t, NEW d, NEW B,
         ReadState(m, f, pending, t, d, B), ReadClose
  PROVE  IInv'
<1>1. /\ Top.code = <<>> /\ line # <<>> /\ memory' = memory /\ born' = born
      /\ line' = Tail(line) /\ frames' = Tail(frames) /\ UNCHANGED session
      /\ root' = [root EXCEPT !.dump = EndOfTerm] /\ failed' = failed
  BY DEF ReadClose, Reading, Quietly, verdict
<1>2. /\ Layered(frames, m, f, pending) /\ Shape(m, f, pending, memory, root, t, d, B, library)
      /\ ~failed => d[0] = 0
  BY DEF ReadState
<1>3. /\ m \in Nat \ {0} /\ Top.local = f[m] /\ f[m] \in {0, 1} /\ pending = 0
  BY <1>1, <1>2, LayeredTop
<1>4. Tail(line) \in Seq(Symbols)
  BY <1>1, LineTail DEF IInv
<1>5. Sound(memory, born, library) /\ Alive(memory, root)
  BY DEF IInv, Registered
<1>6. Alive(memory', root') /\ \A r \in {"prog", "dump1", "dump3"} : root'[r] = root[r]
  BY <1>1, <1>5, EndAlive
<1>7. Mode' /\ \E D : Saved(D, memory', root', library)
  <2>1. CASE m = 1
    <3>1. frames' = <<>>
      BY <1>1, <1>2, <1>3, <2>1, LayeredPop
    <3>2. PICK D : Saved(D, memory, root, library)
      BY DEF IInv, Registered
    <3>3. Saved(D, memory', root', library)
      BY <1>1, <1>6, <3>2 DEF Saved
    <3> QED BY <3>1, <3>3 DEF Mode
  <2>2. CASE m # 1
    <3>1. Layered(frames', m - 1, f, 1)
      BY <1>1, <1>2, <1>3, <2>2, LayeredPop
    <3>2. root' = [root EXCEPT !.dump = IF f[m] = 1 THEN memory[root.dump].next ELSE root.dump]
      BY <1>1, <1>3 DEF EndOfTerm
    <3>3. m > 1
      BY <1>3, <2>2
    <3>4. Shape(m - 1, f, 1, memory', root', t, d, B, library)
      BY <1>1, <1>2, <1>3, <1>5, <3>2, <3>3, ShapeClose
    <3> QED BY <1>1, <1>2, <3>1, <3>4, ReadStateTo DEF session
  <2> QED BY <2>1, <2>2
<1> QED BY <1>1, <1>4, <1>5, <1>6, <1>7, ReaderRest DEF IInv, session

LEMMA AttachFirstKeeps ==
  ASSUME IInv, NEW m, NEW f, NEW pending, NEW t, NEW d, NEW B,
         ReadState(m, f, pending, t, d, B), AttachFirst
  PROVE  IInv'
<1>1. /\ Top.code # <<>> /\ Top.local = 0 /\ UNCHANGED <<session, typing>>
      /\ frames' = [frames EXCEPT ![1].code = <<>>, ![1].local = 1] /\ failed' = failed
  BY DEF AttachFirst, Doing, Quiet, Executing, verdict
<1>2. /\ Layered(frames, m, f, pending) /\ Shape(m, f, pending, memory, root, t, d, B, library)
      /\ ~failed => d[0] = 0
  BY DEF ReadState
<1>3. /\ Top = frames[1] /\ Top \in ReadFrames /\ m \in Nat \ {0}
      /\ Top.local = f[m] /\ f[m] \in {0, 1} /\ pending = 1
  BY <1>1, <1>2, LayeredTop
<1>4. Sound(memory, born, library) /\ Alive(memory, root)
  BY DEF IInv, Registered
<1>5. /\ Sound(memory', born', library) /\ Alive(memory', root')
      /\ Shape(m, Put(f, m, 1), 0, memory', root', t, Put(d, m, born), B \cup {born}, library)
  BY <1>1, <1>2, <1>3, <1>4, ShapeFirst
<1>6. Layered(frames', m, Put(f, m, 1), 0)
  <2> DEFINE top == [Top EXCEPT !.code = <<>>, !.local = 1]
  <2>1. top \in ReadFrames /\ top.code = <<>> /\ top.local = 1
    BY <1>3 DEF ReadFrames
  <2>2. Put(f, m, 1)[m] = 1 /\ \A k \in 1 .. m : k # m => Put(f, m, 1)[k] = f[k]
    BY <1>3 DEF Put
  <2>3. frames' = [frames EXCEPT ![1] = top]
    BY <1>1, <1>3
  <2> HIDE DEF top
  <2>4. top.code = (IF 0 = 1 THEN Attach ELSE <<>>) /\ 0 \in {0, 1}
    BY <2>1
  <2> QED BY <1>2, <2>1, <2>2, <2>3, <2>4, LayeredChanged
<1>7. Mode' /\ \E D : Saved(D, memory', root', library)
  <2>1. ~failed' => Put(d, m, born)[0] = 0
    BY <1>1, <1>2, <1>3 DEF Put
  <2> QED BY <1>1, <1>5, <1>6, <2>1, ReadStateTo DEF session
<1>8. /\ DOMAIN memory \subseteq DOMAIN memory'
      /\ \A r \in {"prog", "dump1", "dump3"} : root'[r] = root[r]
  BY <1>4, RegisterNames DEF AttachFirst, Extend, Alive
<1> QED BY <1>1, <1>5, <1>7, <1>8, ReaderRest DEF IInv, Typed, session, typing

LEMMA AttachFurtherKeeps ==
  ASSUME IInv, NEW m, NEW f, NEW pending, NEW t, NEW d, NEW B,
         ReadState(m, f, pending, t, d, B), AttachFurther
  PROVE  IInv'
<1>1. /\ Top.code # <<>> /\ Top.local = 1 /\ UNCHANGED <<session, typing>>
      /\ frames' = [frames EXCEPT ![1].code = <<>>] /\ failed' = failed
  BY DEF AttachFurther, Doing, Quiet, Executing, Goto, verdict
<1>2. /\ Layered(frames, m, f, pending) /\ Shape(m, f, pending, memory, root, t, d, B, library)
      /\ ~failed => d[0] = 0
  BY DEF ReadState
<1>3. /\ Top = frames[1] /\ Top \in ReadFrames /\ m \in Nat \ {0}
      /\ Top.local = f[m] /\ f[m] \in {0, 1} /\ pending = 1
  BY <1>1, <1>2, LayeredTop
<1>4. Sound(memory, born, library) /\ Alive(memory, root)
  BY DEF IInv, Registered
<1>5. /\ Sound(memory', born', library) /\ Alive(memory', root')
      /\ Shape(m, f, 0, memory', root', t, d, B, library)
  BY <1>1, <1>2, <1>3, <1>4, ShapeFurther
<1>6. Layered(frames', m, f, 0)
  <2> DEFINE top == [Top EXCEPT !.code = <<>>]
  <2>1. top \in ReadFrames /\ top.code = <<>> /\ top.local = f[m]
    BY <1>3 DEF ReadFrames
  <2>2. frames' = [frames EXCEPT ![1] = top]
    BY <1>1, <1>3
  <2> HIDE DEF top
  <2>3. top.code = (IF 0 = 1 THEN Attach ELSE <<>>) /\ 0 \in {0, 1}
    BY <2>1
  <2> QED BY <1>2, <2>1, <2>2, <2>3, LayeredChanged
<1>7. Mode' /\ \E D : Saved(D, memory', root', library)
  BY <1>1, <1>2, <1>5, <1>6, ReadStateTo DEF session
<1>8. /\ DOMAIN memory \subseteq DOMAIN memory'
      /\ \A r \in {"prog", "dump1", "dump3"} : root'[r] = root[r]
  BY <1>4, RegisterNames DEF AttachFurther, Alive
<1> QED BY <1>1, <1>5, <1>7, <1>8, ReaderRest DEF IInv, Typed, session, typing

LEMMA ReaderKeeps ==
  ASSUME IInv, NEW m, NEW f, NEW pending, NEW t, NEW d, NEW B,
         ReadState(m, f, pending, t, d, B), Reader
  PROVE  IInv'
BY ReadFactorKeeps, ReadOpenKeeps, ReadCloseKeeps, AttachFirstKeeps, AttachFurtherKeeps
   DEF Reader


-----------------------------------------------------------------------------
(* Which steps a mode allows.                                              *)

LEMMA InstructionIs ==
  ASSUME Instruction
  PROVE  /\ frames # <<>> /\ UNCHANGED <<session, typing>>
         /\ \/ Top.code # <<>> /\ Head(Top.code)[1] # "attach"
            \/ Top.code = <<>> /\ Top.fn \in {"builtin", frontend}
<1>1. CASE RequireStep \/ AssignStep \/ CopyStep \/ ListStep \/ NumberStep
  BY <1>1 DEF RequireStep, AssignStep, CopyStep, ListStep, NumberStep, Doing, Quiet, Executing
<1>2. CASE FunctionStep \/ ConsStep \/ ExecStep \/ IfStep \/ LoopStep
  BY <1>2 DEF FunctionStep, ConsStep, ExecStep, IfStep, LoopStep, Doing, Quiet, Executing
<1>3. CASE BreakStep \/ CallStep \/ LocalStep \/ Return \/ PrintStep
  BY <1>3 DEF BreakStep, CallStep, LocalStep, Return, PrintStep, Doing, Quiet, Executing
<1> QED BY <1>1, <1>2, <1>3 DEF Instruction

LEMMA ProgramIs ==
  ASSUME Program
  PROVE  frames # <<>> /\ Top.fn = "exec_term" /\ UNCHANGED <<session, typing>>
<1>1. CASE EndProgram
  BY <1>1 DEF EndProgram, In, Quiet, Executing
<1>2. ASSUME NEW op, Fetched(op)
      PROVE  frames # <<>> /\ Top.fn = "exec_term" /\ UNCHANGED <<session, typing>>
  BY <1>2 DEF Fetched, In, Executing
<1>3. CASE ~EndProgram
  <2>1. \E op : Fetched(op)
    BY <1>3 DEF Program, BadNode, PushLiteral, CallBuiltin, SkipUndefined, TailCall,
                Subroutine, Execute
  <2> QED BY <1>2, <2>1
<1> QED BY <1>1, <1>3

LEMMA ReaderIs ==
  ASSUME Reader
  PROVE  /\ frames # <<>>
         /\ \/ Top.code # <<>> /\ Head(Top.code)[1] = "attach"
            \/ Top.code = <<>> /\ Top.fn = "readterm"
BY DEF Reader, ReadFactor, ReadOpen, ReadClose, AttachFirst, AttachFurther, Reading, In, Doing

LEMMA NoAttach ==
  ASSUME NEW i \in Instructions
  PROVE  i[1] # "attach"
<1>1. CASE i \in Plain
  BY <1>1 DEF Plain, POP, Assign, Copy, List, Break
<1>2. ASSUME NEW I, i \in ({"if"} \X Tests \X Seq(I) \X Seq(I)) \cup ({"loop"} \X Tests \X Seq(I))
      PROVE  i[1] # "attach"
  BY <1>2
<1> QED BY <1>1, <1>2 DEF Instructions, Inner, Layer

LEMMA RunNoReader ==
  ASSUME RunState, Typed
  PROVE  ~Reader /\ frames # <<>> /\ Top.fn # "readterm"
<1>1. PICK L : Run(frames, L)
  BY DEF RunState
<1>2. frontend # "readterm"
  BY FrontendNames DEF Typed
<1>3. Top.fn # "readterm"
  BY <1>1, <1>2, RunTop DEF RunFrames
<1>4. Top.code # <<>> => Head(Top.code)[1] # "attach"
  BY <1>1, RunTop, NoAttach DEF Instr
<1> QED BY <1>1, <1>3, <1>4, ReaderIs DEF Run

LEMMA ReadNoRun ==
  ASSUME Typed, NEW m, NEW f, NEW pending, NEW t, NEW d, NEW B,
         ReadState(m, f, pending, t, d, B)
  PROVE  ~Instruction /\ ~Program /\ frames # <<>> /\ Top.fn = "readterm"
<1>1. /\ frames # <<>> /\ Top.fn = "readterm"
      /\ Top.code = (IF pending = 1 THEN Attach ELSE <<>>)
  BY LayeredTop DEF ReadState
<1>2. frontend # "readterm"
  BY FrontendNames DEF Typed
<1>3. Head(Attach)[1] = "attach" /\ Attach # <<>>
  BY DEF Attach
<1> QED BY <1>1, <1>2, <1>3, InstructionIs, ProgramIs

-----------------------------------------------------------------------------
(* What the steps do to the invariant.                                     *)

LEMMA RunKeeps ==
  ASSUME IInv, RunState, Instruction \/ Program
  PROVE  IInv'
<1>1. PICK L : Run(frames, L)
  BY DEF RunState
<1>2. StoreOK(memory, root, born, library) /\ Bodies
  BY DEF IInv, Registered, RunState, Alive, StoreOK
<1>3. Went
  BY <1>1, <1>2, StepWent DEF RunOK
<1>4. UNCHANGED <<session, typing>>
  BY InstructionIs, ProgramIs
<1>5. /\ frontend' = frontend /\ library' = library /\ body' = body /\ defining' = defining
      /\ defs' = defs /\ line' = line /\ defining = 0
  BY <1>4 DEF session, typing, RunState
<1>6. StoreOK(memory', root', born', library)
  BY <1>3 DEF Went
<1>7. Sound(memory', born', library') /\ Alive(memory', root')
      /\ root'["prog"] \in DOMAIN memory' /\ \E D : Saved(D, memory', root', library')
  BY <1>5, <1>6, RegisterNames DEF StoreOK, Alive
<1>8. Typed' /\ body' = [s \in Names |-> body'[s]] /\ Bodies'
  BY <1>5 DEF IInv, Typed, Registered, Bodies
<1>9. Registered'
  BY <1>5, <1>7, <1>8 DEF Registered
<1>10. Mode'
  <2>1. CASE frames' = <<>>
    BY <2>1 DEF Mode
  <2>2. CASE frames' # <<>>
    <3>1. PICK K : Run(frames', K)
      BY <1>3, <2>2 DEF Went
    <3>2. RunFrames(K)' = RunFrames(K)
      BY <1>5 DEF RunFrames
    <3>3. Run(frames, K)'
      BY <1>5, <3>1, <3>2 DEF Run
    <3> QED BY <1>5, <1>7, <3>3 DEF Mode, RunState
  <2> QED BY <2>1, <2>2
<1> QED BY <1>8, <1>9, <1>10 DEF IInv

LEMMA MachineKeeps ==
  ASSUME IInv, Machine
  PROVE  IInv'
<1>1. frames # <<>>
  BY InstructionIs, ProgramIs, ReaderIs DEF Machine
<1>2. CASE RunState
  BY <1>2, RunNoReader, RunKeeps DEF Machine, IInv
<1>3. ASSUME NEW m, NEW f, NEW pending, NEW t, NEW d, NEW B,
             ReadState(m, f, pending, t, d, B)
      PROVE  IInv'
  BY <1>3, ReadNoRun, ReaderKeeps DEF Machine, IInv
<1> QED BY <1>1, <1>2, <1>3 DEF IInv, Mode

LEMMA OneFrame ==
  ASSUME NEW f
  PROVE  Layered(<<Activation("readterm", <<>>)>>, 1, Put(f, 1, 0), 0)
<1> DEFINE top == Activation("readterm", <<>>)
<1>1. top \in ReadFrames /\ top.code = <<>> /\ top.local = 0
  BY DEF Activation, ReadFrames
<1> HIDE DEF top
<1>2. <<top>> \in Seq(ReadFrames) /\ Len(<<top>>) = 1 /\ <<top>>[1] = top
  BY <1>1
<1>3. Put(f, 1, 0)[1] = 0
  BY DEF Put
<1>4. \A k \in 1 .. 1 : k = 1
  OBVIOUS
<1> QED BY <1>1, <1>2, <1>3, <1>4 DEF Layered, top

(* Between commands, the memory is one in which no term is read.            *)
LEMMA NoTerms ==
  ASSUME NEW mem, NEW rt, NEW lib, NEW D, Saved(D, mem, rt, lib)
  PROVE  Shape(0, Put(root, 0, 0), 0, mem, rt, Put(root, 0, rt["stck"]),
               Put(root, 0, rt["dump"]), D, lib)
<1>1. Put(root, 0, rt["stck"])[0] = rt["stck"] /\ Put(root, 0, rt["dump"])[0] = rt["dump"]
  BY DEF Put
<1>2. D \in SUBSET D /\ D \subseteq DOMAIN mem \ (lib \cup {0})
  BY DEF Saved
<1>3. 1 .. 0 = {} /\ 2 .. 0 = {}
  OBVIOUS
<1> QED BY <1>1, <1>2, <1>3 DEF Shape, Nested, Terms, Waiting

LEMMA StartTermKeeps ==
  ASSUME IInv, StartTerm, ~failed => root["dump"] = 0
  PROVE  IInv'
<1> DEFINE c == Cell("LIST", 0, root.stck)
           f == Put(root, 0, 0)
           t == Put(root, 0, root["stck"])
           d == Put(root, 0, root["dump"])
<1>1. /\ New(memory, stck, c) /\ frames' = <<Activation("readterm", <<>>)>>
      /\ UNCHANGED <<session, line>> /\ failed' = failed
  BY DEF StartTerm
<1>2. Sound(memory, born, library) /\ Alive(memory, root)
  BY DEF IInv, Registered
<1>3. CellIn(c, DOMAIN memory)
  BY <1>2, ListCell, RegisterNames DEF Alive, Sound
<1>4. /\ Sound(memory', born', library) /\ Alive(memory', root')
      /\ DOMAIN memory' = DOMAIN memory \cup {born}
      /\ \A r \in Registers \ {"stck"} : root'[r] = root[r]
  BY <1>1, <1>2, <1>3, NewOnStack
<1>5. PICK D : Saved(D, memory, root, library)
  BY DEF IInv, Registered
<1>6. Shape(0, f, 0, memory, root, t, d, D, library) /\ d[0] = root["dump"]
  BY <1>5, NoTerms DEF Put
<1> HIDE DEF f, t, d
<1>7. Shape(0 + 1, Put(f, 0 + 1, 0), 0, memory', root', Put(t, 0 + 1, born),
            Put(d, 0 + 1, root.dump), D, library)
  BY <1>1, <1>2, <1>6, ShapeOpen
<1>8. Layered(frames', 0 + 1, Put(f, 0 + 1, 0), 0)
  BY <1>1, OneFrame
<1>9. Mode' /\ \E E : Saved(E, memory', root', library)
  <2>1. ~failed' => Put(d, 0 + 1, root.dump)[0] = 0
    BY <1>1, <1>6 DEF Put
  <2> QED BY <1>1, <1>7, <1>8, <2>1, ReadStateTo DEF session
<1>10. \A r \in {"prog", "dump1", "dump3"} : root'[r] = root[r]
  BY <1>4, RegisterNames
<1> QED BY <1>1, <1>4, <1>9, <1>10, ReaderRest DEF IInv, Typed, session

(* Nothing that the invariant is about changes but the line.               *)
LEMMA LineKeeps ==
  ASSUME IInv, UNCHANGED <<store, session, frames, failed>>, line' \in Seq(Symbols)
  PROVE  IInv'
<1>1. /\ memory' = memory /\ born' = born /\ root' = root /\ frames' = frames
      /\ frontend' = frontend /\ library' = library /\ body' = body /\ defining' = defining
      /\ defs' = defs
  BY DEF store, session
<1>2. Typed' /\ Registered'
  BY <1>1 DEF IInv, Typed, Registered, Bodies
<1>3. Mode'
  <2>1. CASE frames = <<>>
    BY <1>1, <2>1 DEF Mode
  <2>2. ASSUME NEW m, NEW f, NEW pending, NEW t, NEW d, NEW B,
               ReadState(m, f, pending, t, d, B)
        PROVE  Mode'
    <3>1. ReadState(m, f, pending, t, d, B)'
      BY <1>1, <2>2 DEF ReadState
    <3> QED BY <3>1 DEF Mode
  <2>3. CASE RunState
    <3>1. PICK L : Run(frames, L)
      BY <2>3 DEF RunState
    <3>2. RunFrames(L)' = RunFrames(L)
      BY <1>1 DEF RunFrames
    <3>3. Run(frames, L)'
      BY <1>1, <3>1, <3>2 DEF Run
    <3> QED BY <1>1, <2>3, <3>3 DEF Mode, RunState
  <2> QED BY <2>1, <2>2, <2>3 DEF IInv, Mode
<1> QED BY <1>2, <1>3 DEF IInv

LEMMA TypeKeeps ==
  ASSUME Programs, IInv, NEW c \in Chunks[frontend], Type(c)
  PROVE  IInv'
<1>1. line' \in Seq(Symbols)
  BY DEF Type, Programs, IInv, Typed
<1>2. UNCHANGED <<store, session, frames, failed>>
  BY DEF Type, verdict
<1> QED BY <1>1, <1>2, LineKeeps


LEMMA OneRun ==
  ASSUME NEW c \in Seq(Plain)
  PROVE  Run(<<Activation(frontend, c)>>, {0})
<1> DEFINE top == Activation(frontend, c)
<1>1. c \in Seq(Instructions)
  BY Layers
<1>2. top \in RunFrames({0}) /\ top.fn = frontend
  BY <1>1 DEF Activation, RunFrames
<1> HIDE DEF top
<1>3. <<top>> \in Seq(RunFrames({0})) /\ Len(<<top>>) = 1 /\ <<top>>[1] = top /\ <<top>> # <<>>
  BY <1>2
<1> QED BY <1>2, <1>3 DEF Run, Last, top

LEMMA EndTermKeeps ==
  ASSUME IInv, EndTerm
  PROVE  IInv'
<1>1. /\ memory' = memory /\ born' = born /\ defining = 0 /\ UNCHANGED <<session, typing>>
  BY DEF EndTerm
<1>2. Sound(memory, born, library) /\ Alive(memory, root)
  BY DEF IInv, Registered
<1> DEFINE rt == [root EXCEPT !.dump = EndOfTerm]
           r2 == [rt EXCEPT !["prog"] = Lis(root.stck), !["stck"] = memory[root.stck].next,
                            !["conts"] = 0]
<1>3. /\ Alive(memory, rt) /\ \A r \in {"prog", "dump1", "dump3"} : rt[r] = root[r]
  BY <1>2, EndAlive
<1> HIDE DEF rt
<1>4. /\ Alive(memory, r2) /\ r2["prog"] \in DOMAIN memory
      /\ \A r \in {"dump1", "dump3"} : r2[r] = rt[r]
  <2>1. /\ Lis(root.stck) \in DOMAIN memory /\ memory[root.stck].next \in DOMAIN memory
        /\ 0 \in DOMAIN memory
    <3>1. root.stck \in DOMAIN memory
      BY <1>2, RegisterNames DEF Alive
    <3> QED BY <1>2, <3>1 DEF Sound, CellIn, Lis
  <2>2. /\ r2 = [r \in Registers |-> r2[r]]
        /\ r2["prog"] = Lis(root.stck) /\ r2["stck"] = memory[root.stck].next /\ r2["conts"] = 0
        /\ \A r \in Registers \ {"prog", "stck", "conts"} : r2[r] = rt[r]
    BY <1>3, RegisterNames DEF Alive
  <2> HIDE DEF r2
  <2> QED BY <1>3, <2>1, <2>2, RegisterNames DEF Alive
<1>5. /\ Alive(memory', root') /\ root'["prog"] \in DOMAIN memory'
      /\ root'["dump1"] = root["dump1"] /\ root'["dump3"] = root["dump3"]
      /\ \E c \in Seq(Plain) : frames' = <<Activation(frontend, c)>>
  <2>1. CASE frontend = "repl"
    <3>1. root' = r2
      BY <2>1 DEF EndTerm, rt
    <3>2. <<Exec(Reg("prog")), <<"print">>>> \in Seq(Plain)
      <4>1. Exec(Reg("prog")) \in Plain /\ <<"print">> \in Plain
        BY Written, NamedPaths, NamedOperands
      <4> QED BY <4>1
    <3>3. frames' = <<Activation(frontend, <<Exec(Reg("prog")), <<"print">>>>)>>
      BY <2>1 DEF EndTerm
    <3> HIDE DEF r2
    <3> QED BY <1>1, <1>3, <1>4, <3>1, <3>2, <3>3
  <2>2. CASE frontend # "repl"
    <3>1. root' = rt
      BY <2>2 DEF EndTerm, rt
    <3>2. <<Exec(lis(stck)), POP(stck)>> \in Seq(Plain)
      <4>1. Exec(lis(stck)) \in Plain /\ POP(stck) \in Plain
        BY Written, NamedPaths, NamedOperands
      <4> QED BY <4>1
    <3>3. frames' = <<Activation(frontend, <<Exec(lis(stck)), POP(stck)>>)>>
      BY <2>2 DEF EndTerm
    <3>4. root["prog"] \in DOMAIN memory
      BY <2>2, FrontendNames DEF IInv, Typed, Registered
    <3> QED BY <1>1, <1>3, <3>1, <3>2, <3>3, <3>4
  <2> QED BY <2>1, <2>2
<1>6. /\ frontend' = frontend /\ library' = library /\ body' = body /\ defining' = defining
      /\ defs' = defs /\ line' = line
  BY <1>1 DEF session, typing
<1>7. \E D : Saved(D, memory', root', library')
  <2>1. PICK D : Saved(D, memory, root, library)
    BY DEF IInv, Registered
  <2>2. Saved(D, memory', root', library')
    BY <1>1, <1>5, <1>6, <2>1 DEF Saved
  <2> QED BY <2>2
<1>8. Typed' /\ Bodies' /\ body' = [s \in Names |-> body'[s]]
  BY <1>6 DEF IInv, Typed, Registered, Bodies
<1>9. Sound(memory', born', library')
  BY <1>1, <1>2, <1>6
<1>10. Registered'
  BY <1>1, <1>5, <1>6, <1>7, <1>8, <1>9 DEF Registered
<1>11. Mode'
  <2>1. PICK c \in Seq(Plain) : frames' = <<Activation(frontend, c)>>
    BY <1>5
  <2>2. Run(frames', {0})
    BY <2>1, OneRun
  <2>3. RunFrames({0})' = RunFrames({0})
    BY <1>6 DEF RunFrames
  <2>4. Run(frames, {0})'
    BY <1>6, <2>2, <2>3 DEF Run
  <2> QED BY <1>1, <1>5, <1>6, <2>4 DEF Mode, RunState
<1> QED BY <1>8, <1>10, <1>11 DEF IInv

LEMMA StartDefinitionKeeps ==
  ASSUME Programs, IInv, StartDefinition
  PROVE  IInv'
<1> DEFINE c == Cell("LIST", 0, 0)
           k == Keep({})
<1>1. /\ memory' = Extend(k, c) /\ born' = born + 1
      /\ root' = [r \in Registers |-> CASE r = "prog" -> root.prog
                                        [] r = "stck" -> born
                                        [] OTHER      -> 0]
      /\ frames' = <<Activation("readterm", <<>>)>>
      /\ frontend = "repl" /\ defs < Len(Prelude)
      /\ defs' = defs + 1 /\ line' = Prelude[defs + 1] /\ failed' = FALSE
      /\ UNCHANGED <<body, library, frontend>>
  BY DEF StartDefinition
<1>2. Sound(memory, born, library) /\ Alive(memory, root)
  BY DEF IInv, Registered
<1>3. Sound(k, born, library) /\ DOMAIN k = library \cup {0}
  <2>1. /\ DOMAIN k = library \cup {0} /\ k = [n \in DOMAIN k |-> k[n]]
        /\ \A n \in library \cup {0} : k[n] = memory[n]
    BY DEF Keep
  <2> HIDE DEF k
  <2>2. CellIn(memory[0], {0})
    BY <1>2 DEF Sound, CellIn
  <2>3. \A n \in DOMAIN k : CellIn(k[n], DOMAIN k)
    BY <1>2, <2>1, <2>2 DEF Sound, CellIn
  <2>4. \A n \in library : CellIn(k[n], library \cup {0})
    BY <1>2, <2>1 DEF Sound
  <2> QED BY <1>2, <2>1, <2>3, <2>4 DEF Sound
<1> HIDE DEF k
<1>4. CellIn(c, DOMAIN k) /\ c.op = "LIST"
  BY <1>3, ListCell
<1> HIDE DEF c
<1>5. /\ Sound(memory', born', library) /\ DOMAIN memory' = library \cup {0, born}
      /\ born \notin library \cup {0} /\ memory'[born] = c
  <2>1. /\ Sound(Extend(k, c), born + 1, library)
        /\ DOMAIN Extend(k, c) = DOMAIN k \cup {born} /\ born \notin DOMAIN k
        /\ Extend(k, c)[born] = c
    BY <1>3, <1>4, SoundExtend
  <2> QED BY <1>1, <1>3, <2>1
<1>6. /\ root' = [r \in Registers |-> root'[r]] /\ root'["stck"] = born
      /\ \A r \in Registers \ {"prog", "stck"} : root'[r] = 0
  BY <1>1, RegisterNames
<1>7. root'["dump"] = 0 /\ root'["dump1"] = 0 /\ root'["dump3"] = 0
  BY <1>6, RegisterNames
<1>8. Alive(memory', root')
  BY <1>5, <1>6 DEF Alive
<1>9. Saved({}, memory', root', library)
  BY <1>7 DEF Saved
<1> DEFINE f == Put(root, 1, 0)
           t == Put(root, 1, born)
           d == Put(Put(root, 0, 0), 1, 0)
<1>10. f[1] = 0 /\ t[1] = born /\ d[0] = 0 /\ d[1] = 0
  BY DEF Put
<1>11. Layered(frames', 1, f, 0)
  BY <1>1, OneFrame
<1> HIDE DEF f, t, d
<1>12. \A i \in 1 .. 1 : i = 1
  OBVIOUS
<1>13. 2 .. 1 = {}
  OBVIOUS
<1>14. Terms(1, memory', t, {}, library)
  BY <1>4, <1>5, <1>10, <1>12, <1>13 DEF Terms
<1>15. \A i \in 1 .. 1 : Held(i, 1, f, memory', t, d, {}, library)
  BY <1>10, <1>12 DEF Held
<1>16. Shape(1, f, 0, memory', root', t, d, {}, library)
  BY <1>6, <1>7, <1>9, <1>10, <1>14, <1>15 DEF Shape, Nested, Waiting
<1>17. Mode'
  BY <1>1, <1>10, <1>11, <1>16, ReadStateTo
<1>18. Typed'
  <2>1. defs \in Nat /\ defs + 1 \in 1 .. Len(Prelude)
    BY <1>1, LenProperties DEF IInv, Typed, Programs
  <2>2. Prelude[defs + 1] \in Seq(Symbols)
    BY <2>1, ElementOfSeq DEF Programs
  <2> QED BY <1>1, <2>1, <2>2 DEF IInv, Typed
<1>19. Registered'
  <2>1. Sound(memory', born', library') /\ Saved({}, memory', root', library')
    BY <1>1, <1>5, <1>9
  <2>2. body' = [s \in Names |-> body'[s]] /\ Bodies'
    BY <1>1 DEF IInv, Registered, Bodies
  <2> QED BY <1>1, <1>7, <1>8, <2>1, <2>2 DEF Registered
<1> QED BY <1>17, <1>18, <1>19 DEF IInv

LEMMA EndDefinitionKeeps ==
  ASSUME IInv, EndDefinition
  PROVE  IInv'
<1> DEFINE rt == [root EXCEPT !.dump = EndOfTerm]
           v  == Lis(root.stck)
<1>1. /\ memory' = memory /\ born' = born /\ defining # 0 /\ defining' = 0 /\ frames' = <<>>
      /\ library' = DOMAIN memory \ {0} /\ body' = [body EXCEPT ![defining] = v]
      /\ root' = [rt EXCEPT !["stck"] = memory[root.stck].next]
      /\ UNCHANGED <<frontend, defs, line>>
  BY DEF EndDefinition, typing
<1>2. Sound(memory, born, library) /\ Alive(memory, root)
      /\ root["dump1"] = 0 /\ root["dump3"] = 0
  BY <1>1 DEF IInv, Registered
<1>3. v \in DOMAIN memory /\ memory[root.stck].next \in DOMAIN memory
  <2>1. root.stck \in DOMAIN memory
    BY <1>2, RegisterNames DEF Alive
  <2> QED BY <1>2, <2>1 DEF Sound, CellIn, Lis
<1> HIDE DEF v
<1>4. /\ Alive(memory, rt) /\ \A r \in {"prog", "dump1", "dump3"} : rt[r] = root[r]
  BY <1>2, EndAlive
<1> HIDE DEF rt
<1>5. /\ root' = [r \in Registers |-> root'[r]] /\ root'["stck"] = memory[root.stck].next
      /\ \A r \in Registers \ {"stck"} : root'[r] = rt[r]
  BY <1>1, <1>4, RegisterNames DEF Alive
<1>6. Alive(memory', root') /\ \A r \in {"prog", "dump1", "dump3"} : root'[r] = root[r]
  BY <1>1, <1>3, <1>4, <1>5, RegisterNames DEF Alive
<1>7. Sound(memory', born', library')
  BY <1>1, <1>2 DEF Sound
<1>8. Saved({}, memory', root', library')
  BY <1>2, <1>6 DEF Saved
<1>9. body' = [s \in Names |-> body'[s]] /\ Bodies'
  <2>1. body = [s \in Names |-> body[s]] /\ \A s \in Names : body[s] \in library \cup {0}
    BY DEF IInv, Registered, Bodies
  <2>2. 0 \in DOMAIN memory /\ library \subseteq DOMAIN memory
    BY <1>2 DEF Sound
  <2>3. body' = [s \in Names |-> body'[s]]
        /\ \A s \in Names : body'[s] \in {v, body[s]}
    BY <1>1, <2>1
  <2> QED BY <1>1, <1>3, <2>1, <2>2, <2>3 DEF Bodies
<1>10. frontend' = "joy_eval_string" => root'["prog"] \in DOMAIN memory'
  BY <1>1, <1>6 DEF IInv, Registered
<1>11. Registered'
  BY <1>1, <1>6, <1>7, <1>8, <1>9, <1>10 DEF Registered
<1>12. Typed' /\ Mode'
  BY <1>1 DEF IInv, Typed, Mode
<1> QED BY <1>11, <1>12 DEF IInv


-----------------------------------------------------------------------------
(* A collection keeps every node that a register reaches, and no node that  *)
(* is kept refers to one that is not.                                      *)

LEMMA CollectIs ==
  ASSUME Sound(memory, born, library), memory' = Keep(Reached)
  PROVE  /\ Sound(memory', born, library) /\ DOMAIN memory' \subseteq DOMAIN memory
         /\ \A n \in DOMAIN memory' : memory'[n] = memory[n]
         /\ \A n \in DOMAIN memory' : memory[n].next \in DOMAIN memory'
         /\ \A n \in DOMAIN memory' : memory[n].op = "LIST" => memory[n].u \in DOMAIN memory'
         /\ \A r \in Registers : root[r] \in DOMAIN memory => root[r] \in DOMAIN memory'
         /\ library \cup {0} \subseteq DOMAIN memory'
<1>1. IsFiniteSet(DOMAIN memory)
  <2>1. born - 1 \in Int /\ DOMAIN memory \subseteq 0 .. born - 1
    BY DEF Sound
  <2>2. IsFiniteSet(0 .. born - 1)
    BY <2>1, FS_Interval
  <2> QED BY <2>1, <2>2, FS_Subset
<1>2. /\ Reached \subseteq DOMAIN memory
      /\ \A r \in Registers : root[r] \in DOMAIN memory => root[r] \in Reached \cup library
      /\ \A n \in Reached : \A k \in Refs(n) : k \in DOMAIN memory => k \in Reached \cup library
  BY <1>1, ReachedClosed DEF Reached
<1>3. /\ \A n \in DOMAIN memory : Refs(n) \subseteq DOMAIN memory
      /\ \A n \in library : Refs(n) \subseteq library \cup {0}
      /\ memory[0].next = 0 /\ memory[0].op = "ILLEGAL"
      /\ 0 \in DOMAIN memory /\ library \subseteq DOMAIN memory \ {0}
      /\ \A n \in DOMAIN memory : CellIn(memory[n], DOMAIN memory)
      /\ \A n \in library : CellIn(memory[n], library \cup {0})
      /\ DOMAIN memory \subseteq 0 .. born - 1 /\ born \in Nat \ {0}
  BY SoundRefs DEF Sound
<1>4. /\ DOMAIN memory' = Reached \cup library \cup {0}
      /\ memory' = [n \in DOMAIN memory' |-> memory'[n]]
      /\ \A n \in DOMAIN memory' : memory'[n] = memory[n]
  BY DEF Keep
<1>5. DOMAIN memory' \subseteq DOMAIN memory
  BY <1>2, <1>3, <1>4
<1>6. \A n \in DOMAIN memory' : Refs(n) \subseteq DOMAIN memory'
  <2>1. Refs(0) \subseteq {0}
    BY <1>3 DEF Refs, Lis
  <2>2. \A n \in Reached : Refs(n) \subseteq DOMAIN memory'
    BY <1>2, <1>3, <1>4
  <2> QED BY <1>3, <1>4, <2>1, <2>2
<1>7. /\ \A n \in DOMAIN memory' : memory[n].next \in DOMAIN memory'
      /\ \A n \in DOMAIN memory' : memory[n].op = "LIST" => memory[n].u \in DOMAIN memory'
  BY <1>6 DEF Refs, Lis
<1>8. \A n \in DOMAIN memory' : CellIn(memory'[n], DOMAIN memory')
  BY <1>3, <1>4, <1>5, <1>7 DEF CellIn
<1>9. \A n \in library : CellIn(memory'[n], library \cup {0})
  BY <1>3, <1>4
<1>10. Sound(memory', born, library)
  BY <1>3, <1>4, <1>5, <1>8, <1>9 DEF Sound
<1>11. \A r \in Registers : root[r] \in DOMAIN memory => root[r] \in DOMAIN memory'
  BY <1>2, <1>4
<1>12. library \cup {0} \subseteq DOMAIN memory'
  BY <1>4
<1> QED BY <1>4, <1>5, <1>7, <1>10, <1>11, <1>12

LEMMA SavedCollect ==
  ASSUME NEW D, Sound(memory, born, library), memory' = Keep(Reached),
         Saved(D, memory, root, library)
  PROVE  Saved(D \cap DOMAIN memory', memory', root, library)
<1>1. "dump1" \in Registers /\ "dump3" \in Registers
  BY RegisterNames
<1>2. root["dump1"] \in DOMAIN memory /\ root["dump3"] \in DOMAIN memory
  BY DEF Saved, Sound
<1>3. root["dump1"] \in DOMAIN memory' /\ root["dump3"] \in DOMAIN memory'
  BY <1>1, <1>2, CollectIs
<1>4. \A n \in D \cap DOMAIN memory' : /\ memory'[n].op = "LIST"
                                       /\ memory'[n].next \in (D \cap DOMAIN memory') \cup {0}
  BY CollectIs DEF Saved
<1> QED BY <1>3, <1>4 DEF Saved

LEMMA ShapeCollect ==
  ASSUME NEW m \in Nat \ {0}, NEW f, NEW pending, NEW t, NEW d, NEW B,
         Sound(memory, born, library), Alive(memory, root), memory' = Keep(Reached),
         Shape(m, f, pending, memory, root, t, d, B, library)
  PROVE  Shape(m, f, pending, memory', root, t, d, B \cap DOMAIN memory', library)
<1> DEFINE C == B \cap DOMAIN memory'
<1>1. /\ DOMAIN memory' \subseteq DOMAIN memory
      /\ \A n \in DOMAIN memory' : memory'[n] = memory[n]
      /\ \A n \in DOMAIN memory' : memory[n].next \in DOMAIN memory'
      /\ \A n \in DOMAIN memory' : memory[n].op = "LIST" => memory[n].u \in DOMAIN memory'
      /\ root["stck"] \in DOMAIN memory' /\ root["dump"] \in DOMAIN memory'
  BY CollectIs, RegisterNames DEF Alive
<1>2. /\ Terms(m, memory, t, B, library) /\ Waiting(pending, m, memory, root, t, B, library)
      /\ d[m] = root["dump"] /\ \A k \in 1 .. m : Held(k, m, f, memory, t, d, B, library)
  BY DEF Shape, Nested
<1>3. t[m] \in DOMAIN memory'
  BY <1>1, <1>2 DEF Waiting
<1> DEFINE K == {j \in Nat : j < m => t[m - j] \in DOMAIN memory' /\ d[m - j] \in DOMAIN memory'}
<1>4. 0 \in K
  BY <1>1, <1>2, <1>3
<1>5. ASSUME NEW j \in Nat, j \in K PROVE j + 1 \in K
  <2> SUFFICES ASSUME j + 1 < m
               PROVE  t[m - (j + 1)] \in DOMAIN memory' /\ d[m - (j + 1)] \in DOMAIN memory'
    OBVIOUS
  <2> DEFINE k == m - j
  <2>1. k \in 2 .. m /\ m - (j + 1) = k - 1 /\ k \in 1 .. m
    OBVIOUS
  <2>2. t[k] \in DOMAIN memory' /\ d[k] \in DOMAIN memory'
    BY <1>5
  <2> HIDE DEF k
  <2>3. t[k - 1] \in DOMAIN memory'
    <3>1. memory[t[k]].next = t[k - 1]
      BY <1>2, <2>1 DEF Terms
    <3> QED BY <1>1, <2>2, <3>1
  <2>4. d[k - 1] \in DOMAIN memory'
    <3>1. d[k] = d[k - 1] \/ memory[d[k]].next = d[k - 1]
      BY <1>2, <2>1 DEF Held
    <3> QED BY <1>1, <2>2, <3>1
  <2> QED BY <2>1, <2>3, <2>4
<1>6. Nat \subseteq K
  <2> HIDE DEF K
  <2> QED BY <1>4, <1>5, NatInd
<1>7. ASSUME NEW k \in 1 .. m PROVE t[k] \in DOMAIN memory' /\ d[k] \in DOMAIN memory'
  <2>1. m - k \in Nat /\ m - k < m /\ m - (m - k) = k
    OBVIOUS
  <2>2. m - k \in K
    BY <1>6, <2>1
  <2> QED BY <2>1, <2>2
<1> HIDE DEF K
<1>8. Terms(m, memory', t, C, library)
  <2>1. \A k \in 1 .. m : memory'[t[k]] = memory[t[k]]
    BY <1>1, <1>7
  <2>2. \A k \in 1 .. m : t[k] \in DOMAIN memory' \ (library \cup {0} \cup C)
                          /\ memory'[t[k]].op = "LIST"
    BY <1>2, <1>7, <2>1 DEF Terms
  <2>3. \A k \in 2 .. m : memory'[t[k]].next = t[k - 1]
    BY <1>2, <2>1 DEF Terms
  <2> QED BY <1>2, <2>2, <2>3 DEF Terms
<1>9. \A n \in DOMAIN memory' : Loose(n, m, memory, t, B, library)
                                => Loose(n, m, memory', t, C, library)
  BY DEF Loose
<1>10. ASSUME NEW k \in 1 .. m PROVE Held(k, m, f, memory', t, d, C, library)
  <2>1. Held(k, m, f, memory, t, d, B, library)
    BY <1>2
  <2>2. CASE f[k] = 0
    BY <2>1, <2>2 DEF Held
  <2>3. CASE f[k] # 0
    <3>1. memory'[d[k]] = memory[d[k]] /\ d[k] \in DOMAIN memory'
      BY <1>1, <1>7
    <3>2. d[k] \in C /\ memory[d[k]].op = "LIST" /\ memory[d[k]].next = d[k - 1]
          /\ Loose(memory[d[k]].u, m, memory, t, B, library)
      BY <2>1, <2>3, <3>1 DEF Held
    <3>3. memory[d[k]].u \in DOMAIN memory'
      BY <1>1, <3>1, <3>2
    <3> QED BY <1>9, <2>3, <3>1, <3>2, <3>3 DEF Held
  <2> QED BY <2>2, <2>3
<1>11. Waiting(pending, m, memory', root, t, C, library)
  BY <1>1, <1>2, <1>9 DEF Waiting
<1>12. C \subseteq DOMAIN memory' \ (library \cup {0})
       /\ \E D \in SUBSET C : Saved(D, memory', root, library)
  <2>1. PICK D \in SUBSET B : Saved(D, memory, root, library)
    BY DEF Shape, Nested
  <2>2. Saved(D \cap DOMAIN memory', memory', root, library)
    BY <2>1, SavedCollect
  <2>3. D \cap DOMAIN memory' \in SUBSET C
    BY <2>1
  <2> QED BY <2>2, <2>3 DEF Shape, Nested
<1> HIDE DEF C
<1>13. Shape(m, f, pending, memory', root, t, d, C, library)
  BY <1>2, <1>8, <1>10, <1>11, <1>12 DEF Shape, Nested
<1> QED BY <1>13 DEF C

LEMMA CollectKeeps ==
  ASSUME IInv, Collect
  PROVE  IInv'
<1>1. /\ memory' = Keep(Reached) /\ born' = born /\ root' = root /\ frames' = frames
      /\ frontend' = frontend /\ library' = library /\ body' = body /\ defining' = defining
      /\ defs' = defs /\ line' = line /\ failed' = failed
  BY DEF Collect, session, typing, verdict
<1>2. Sound(memory, born, library) /\ Alive(memory, root)
  BY DEF IInv, Registered
<1>3. Sound(memory', born', library') /\ Alive(memory', root')
      /\ \A r \in Registers : root[r] \in DOMAIN memory => root'[r] \in DOMAIN memory'
  BY <1>1, <1>2, CollectIs DEF Alive
<1>4. \E D : Saved(D, memory', root', library')
  <2>1. PICK D : Saved(D, memory, root, library)
    BY DEF IInv, Registered
  <2>2. Saved(D \cap DOMAIN memory', memory', root, library)
    BY <1>1, <1>2, <2>1, SavedCollect
  <2> QED BY <1>1, <2>2
<1>5. Typed' /\ Bodies' /\ body' = [s \in Names |-> body'[s]]
  BY <1>1 DEF IInv, Typed, Registered, Bodies
<1>6. Registered'
  BY <1>1, <1>3, <1>4, <1>5, RegisterNames DEF IInv, Registered
<1>7. Mode'
  <2>1. CASE frames = <<>>
    BY <1>1, <2>1 DEF Mode
  <2>2. ASSUME NEW m, NEW f, NEW pending, NEW t, NEW d, NEW B,
               ReadState(m, f, pending, t, d, B)
        PROVE  Mode'
    <3>1. /\ Layered(frames, m, f, pending)
          /\ Shape(m, f, pending, memory, root, t, d, B, library) /\ (~failed => d[0] = 0)
      BY <2>2 DEF ReadState
    <3>2. m \in Nat \ {0}
      BY <3>1, LayeredTop
    <3>3. Shape(m, f, pending, memory', root, t, d, B \cap DOMAIN memory', library)
      BY <1>1, <1>2, <3>1, <3>2, ShapeCollect
    <3> QED BY <1>1, <3>1, <3>3, ReadStateTo
  <2>3. CASE RunState
    <3>1. PICK L : Run(frames, L)
      BY <2>3 DEF RunState
    <3>2. RunFrames(L)' = RunFrames(L)
      BY <1>1 DEF RunFrames
    <3>3. Run(frames, L)'
      BY <1>1, <3>1, <3>2 DEF Run
    <3> QED BY <1>1, <1>3, <2>3, <3>3, RegisterNames DEF Mode, RunState
  <2> QED BY <2>1, <2>2, <2>3 DEF IInv, Mode
<1> QED BY <1>5, <1>6, <1>7 DEF IInv

-----------------------------------------------------------------------------
LEMMA IInvInit ==
  ASSUME Init
  PROVE  IInv
<1>1. /\ memory = [n \in {0} |-> Bad] /\ born = 1 /\ root = [r \in Registers |-> 0]
      /\ body = [s \in Names |-> 0] /\ library = {} /\ defining = 0 /\ defs = 0
      /\ frontend \in Frontends /\ frames = <<>> /\ line = <<>>
  BY DEF Init
<1>2. CellIn(Bad, {0}) /\ Bad.op = "ILLEGAL" /\ Bad.next = 0
  BY DEF CellIn, IsCell, Bad, Cell
<1>3. DOMAIN memory = {0} /\ memory[0] = Bad
  BY <1>1
<1>4. Sound(memory, born, library)
  BY <1>1, <1>2, <1>3 DEF Sound
<1>5. \A r \in Registers : root[r] = 0
  BY <1>1
<1>6. Saved({}, memory, root, library)
  BY <1>1, <1>5, RegisterNames DEF Saved
<1>7. Registered
  BY <1>1, <1>3, <1>4, <1>5, <1>6, RegisterNames DEF Registered, Alive, Bodies
<1>8. Typed /\ Mode
  BY <1>1 DEF Typed, Mode
<1> QED BY <1>7, <1>8 DEF IInv

LEMMA IInvNext ==
  ASSUME Programs, IInv, [Next]_vars, frames = <<>> /\ ~failed => root["dump"] = 0
  PROVE  IInv'
<1>1. CASE Machine
  BY <1>1, MachineKeeps
<1>2. CASE User
  <2>1. StartTerm => frames = <<>>
    BY DEF StartTerm, Idle
  <2> QED
    BY <1>2, <2>1, StartTermKeeps, TypeKeeps, EndTermKeeps, StartDefinitionKeeps, EndDefinitionKeeps
     DEF User
<1>3. CASE Collect
  BY <1>3, CollectKeeps
<1>4. CASE UNCHANGED vars
  <2>1. UNCHANGED <<store, session, frames, failed>> /\ line' = line
    BY <1>4 DEF vars, typing, verdict
  <2>2. line' \in Seq(Symbols)
    BY <2>1 DEF IInv, Typed
  <2> QED BY <2>1, <2>2, LineKeeps
<1> QED BY <1>1, <1>2, <1>3, <1>4 DEF Next

LEMMA IInvRefsLive ==
  ASSUME IInv
  PROVE  RefsLive
<1>1. \A r \in Registers \ {"prog"} : root[r] \in DOMAIN memory
  BY DEF IInv, Registered, Alive
<1>2. ASSUME Running PROVE root["prog"] \in DOMAIN memory
  <2>1. frames # <<>> /\ Last(frames).fn = frontend
    BY <1>2 DEF Running
  <2>2. frontend # "readterm"
    BY FrontendNames DEF IInv, Typed
  <2>3. ASSUME NEW m, NEW f, NEW pending, NEW t, NEW d, NEW B,
               ReadState(m, f, pending, t, d, B)
        PROVE  FALSE
    BY <2>1, <2>2, <2>3, LayeredTop DEF ReadState
  <2>4. RunState
    BY <2>1, <2>3 DEF IInv, Mode
  <2> QED BY <2>4 DEF RunState
<1>3. \A s \in Names : body[s] \in DOMAIN memory
  BY DEF IInv, Registered, Bodies, Sound
<1>4. \A n \in DOMAIN memory : Refs(n) \subseteq DOMAIN memory
  BY SoundRefs DEF IInv, Registered
<1> QED BY <1>1, <1>2, <1>3, <1>4 DEF RefsLive

-----------------------------------------------------------------------------
(* From n, links lead to 0 over k nodes, q.                                *)
Path(mem, n, k, q) ==
  /\ q[0] = n /\ q[k] = 0
  /\ \A i \in 0 .. k - 1 : q[i] # 0 /\ q[i] \in DOMAIN mem /\ q[i + 1] = mem[q[i]].next

Long(mem, n, k) == \E q : Path(mem, n, k, q)

LEMMA LongEnds ==
  ASSUME NEW mem, NEW n, NEW k \in Nat, Long(mem, n, k)
  PROVE  (k = 0 <=> n = 0) /\ (k # 0 => n \in DOMAIN mem)
<1>1. PICK q : /\ q[0] = n /\ q[k] = 0
               /\ \A i \in 0 .. k - 1 : /\ q[i] # 0 /\ q[i] \in DOMAIN mem
                                        /\ q[i + 1] = mem[q[i]].next
  BY DEF Long, Path
<1>2. CASE k = 0
  BY <1>1, <1>2
<1>3. CASE k # 0
  <2>1. 0 \in 0 .. k - 1
    BY <1>3
  <2> QED BY <1>1, <1>3, <2>1
<1> QED BY <1>2, <1>3

LEMMA LongNone ==
  ASSUME NEW mem
  PROVE  Long(mem, 0, 0)
<1>1. [j \in Nat |-> 0][0] = 0 /\ 0 .. 0 - 1 = {}
  OBVIOUS
<1> QED BY <1>1 DEF Long, Path

LEMMA PathCons ==
  ASSUME NEW mem, NEW n \in DOMAIN mem, n # 0, NEW k \in Nat,
         NEW q, Path(mem, mem[n].next, k, q)
  PROVE  Path(mem, n, k + 1, [j \in Nat |-> IF j = 0 THEN n ELSE q[j - 1]])
<1>1. /\ q[0] = mem[n].next /\ q[k] = 0
      /\ \A i \in 0 .. k - 1 : q[i] # 0 /\ q[i] \in DOMAIN mem /\ q[i + 1] = mem[q[i]].next
  BY DEF Path
<1> DEFINE r == [j \in Nat |-> IF j = 0 THEN n ELSE q[j - 1]]
<1>2. r[0] = n /\ \A j \in Nat : r[j + 1] = q[j]
  <2>1. ASSUME NEW j \in Nat PROVE r[j + 1] = q[j]
    <3>1. j + 1 \in Nat /\ j + 1 # 0 /\ (j + 1) - 1 = j
      OBVIOUS
    <3> QED BY <3>1
  <2> QED BY <2>1
<1> HIDE DEF r
<1>3. ASSUME NEW i \in 0 .. (k + 1) - 1
      PROVE  r[i] # 0 /\ r[i] \in DOMAIN mem /\ r[i + 1] = mem[r[i]].next
  <2>1. CASE i = 0
    BY <1>1, <1>2, <2>1
  <2>2. CASE i # 0
    <3>1. i - 1 \in 0 .. k - 1 /\ (i - 1) + 1 = i /\ i \in Nat /\ i - 1 \in Nat
      BY <2>2
    <3>2. r[i] = q[i - 1] /\ r[i + 1] = q[i]
      BY <1>2, <3>1
    <3> QED BY <1>1, <3>1, <3>2
  <2> QED BY <2>1, <2>2
<1>4. r[k + 1] = 0
  BY <1>1, <1>2
<1>5. Path(mem, n, k + 1, r)
  BY <1>2, <1>3, <1>4 DEF Path
<1> QED BY <1>5 DEF r

LEMMA LongCons ==
  ASSUME NEW mem, NEW n \in DOMAIN mem, n # 0, NEW k \in Nat, Long(mem, mem[n].next, k)
  PROVE  Long(mem, n, k + 1)
BY PathCons DEF Long

LEMMA LongTail ==
  ASSUME NEW mem, NEW n, NEW k \in Nat, Long(mem, n, k), k # 0
  PROVE  n # 0 /\ n \in DOMAIN mem /\ Long(mem, mem[n].next, k - 1)
<1>1. PICK q : /\ q[0] = n /\ q[k] = 0
               /\ \A i \in 0 .. k - 1 : /\ q[i] # 0 /\ q[i] \in DOMAIN mem
                                        /\ q[i + 1] = mem[q[i]].next
  BY DEF Long, Path
<1> DEFINE r == [j \in Nat |-> q[j + 1]]
<1>2. \A j \in Nat : r[j] = q[j + 1]
  OBVIOUS
<1> HIDE DEF r
<1>3. n # 0 /\ n \in DOMAIN mem /\ r[0] = mem[n].next
  <2>1. 0 \in 0 .. k - 1 /\ 0 + 1 = 1
    OBVIOUS
  <2> QED BY <1>1, <1>2, <2>1
<1>4. r[k - 1] = 0
  BY <1>1, <1>2
<1>5. ASSUME NEW i \in 0 .. (k - 1) - 1
      PROVE  r[i] # 0 /\ r[i] \in DOMAIN mem /\ r[i + 1] = mem[r[i]].next
  <2>1. i + 1 \in 0 .. k - 1 /\ i \in Nat /\ i + 1 \in Nat
    OBVIOUS
  <2>2. r[i] = q[i + 1] /\ r[i + 1] = q[(i + 1) + 1]
    BY <1>2, <2>1
  <2> QED BY <1>1, <2>1, <2>2
<1> QED BY <1>3, <1>4, <1>5 DEF Long, Path

(* A memory that has the links of another, as far as it has the nodes.     *)
Links(mem, mem2) ==
  \A n \in DOMAIN mem \cap DOMAIN mem2 :
    mem2[n].next = mem[n].next /\ mem[n].next \in DOMAIN mem2

LEMMA LongLinks ==
  ASSUME NEW mem, NEW mem2, Links(mem, mem2), NEW n \in DOMAIN mem2, NEW k \in Nat,
         Long(mem, n, k)
  PROVE  Long(mem2, n, k)
<1> DEFINE K == {j \in Nat : \A m \in DOMAIN mem2 : Long(mem, m, j) => Long(mem2, m, j)}
<1>1. 0 \in K
  BY LongEnds, LongNone
<1>2. ASSUME NEW j \in Nat, j \in K PROVE j + 1 \in K
  <2> SUFFICES ASSUME NEW m \in DOMAIN mem2, Long(mem, m, j + 1) PROVE Long(mem2, m, j + 1)
    OBVIOUS
  <2>1. j + 1 \in Nat /\ j + 1 # 0 /\ (j + 1) - 1 = j
    OBVIOUS
  <2>2. m # 0 /\ m \in DOMAIN mem /\ Long(mem, mem[m].next, j)
    BY <2>1, LongTail
  <2>3. mem2[m].next = mem[m].next /\ mem[m].next \in DOMAIN mem2
    BY <2>2 DEF Links
  <2>4. Long(mem2, mem2[m].next, j)
    BY <1>2, <2>2, <2>3
  <2> QED BY <2>2, <2>4, LongCons
<1>3. Nat \subseteq K
  <2> HIDE DEF K
  <2> QED BY <1>1, <1>2, NatInd
<1> QED BY <1>3

(* Every node is on a way to 0.                                            *)
Lin(mem) == \A n \in DOMAIN mem : \E k \in Nat : Long(mem, n, k)

LEMMA LinChange ==
  ASSUME NEW mem, NEW mem2, Lin(mem),
         \A n \in DOMAIN mem2 :
           \/ n \in DOMAIN mem /\ mem2[n].next = mem[n].next /\ mem[n].next \in DOMAIN mem2
           \/ \E k \in Nat : Long(mem2, n, k)
  PROVE  Lin(mem2)
<1> DEFINE K == {j \in Nat : \A m \in DOMAIN mem2 : Long(mem, m, j)
                                                    => \E k \in Nat : Long(mem2, m, k)}
<1>1. 0 \in K
  BY LongEnds, LongNone
<1>2. ASSUME NEW j \in Nat, j \in K PROVE j + 1 \in K
  <2> SUFFICES ASSUME NEW m \in DOMAIN mem2, Long(mem, m, j + 1)
               PROVE  \E k \in Nat : Long(mem2, m, k)
    OBVIOUS
  <2>1. j + 1 \in Nat /\ j + 1 # 0 /\ (j + 1) - 1 = j
    OBVIOUS
  <2>2. m # 0 /\ m \in DOMAIN mem /\ Long(mem, mem[m].next, j)
    BY <2>1, LongTail
  <2>3. CASE mem2[m].next = mem[m].next /\ mem[m].next \in DOMAIN mem2
    <3>1. PICK k \in Nat : Long(mem2, mem2[m].next, k)
      BY <1>2, <2>2, <2>3
    <3>2. Long(mem2, m, k + 1) /\ k + 1 \in Nat
      BY <2>2, <3>1, LongCons
    <3> QED BY <3>2
  <2> QED BY <2>3
<1>3. Nat \subseteq K
  <2> HIDE DEF K
  <2> QED BY <1>1, <1>2, NatInd
<1>4. ASSUME NEW n \in DOMAIN mem2 PROVE \E k \in Nat : Long(mem2, n, k)
  <2>1. CASE n \in DOMAIN mem
    <3>1. PICK j \in Nat : Long(mem, n, j)
      BY <2>1 DEF Lin
    <3> QED BY <1>3, <3>1
  <2> QED BY <2>1
<1> QED BY <1>4 DEF Lin

(* New nodes that refer to old ones.                                       *)
Grows(mem, mem2) ==
  /\ DOMAIN mem \subseteq DOMAIN mem2
  /\ \A n \in DOMAIN mem : mem2[n].next = mem[n].next /\ mem[n].next \in DOMAIN mem
  /\ \A n \in DOMAIN mem2 \ DOMAIN mem : mem2[n].next \in DOMAIN mem /\ n # 0

LEMMA LongGrows ==
  ASSUME NEW mem, NEW mem2, Grows(mem, mem2), NEW n \in DOMAIN mem, NEW k \in Nat,
         Long(mem, n, k)
  PROVE  Long(mem2, n, k)
<1>1. Links(mem, mem2) /\ n \in DOMAIN mem2
  BY DEF Links, Grows
<1> QED BY <1>1, LongLinks

LEMMA LinGrows ==
  ASSUME NEW mem, NEW mem2, Grows(mem, mem2), Lin(mem)
  PROVE  Lin(mem2)
<1>1. ASSUME NEW n \in DOMAIN mem2, n \notin DOMAIN mem
      PROVE  \E k \in Nat : Long(mem2, n, k)
  <2>1. mem2[n].next \in DOMAIN mem /\ n # 0
    BY <1>1 DEF Grows
  <2>2. PICK k \in Nat : Long(mem, mem2[n].next, k)
    BY <2>1 DEF Lin
  <2>3. Long(mem2, n, k + 1) /\ k + 1 \in Nat
    BY <2>1, <2>2, LongGrows, LongCons
  <2> QED BY <2>3
<1>2. \A n \in DOMAIN mem2 :
        \/ n \in DOMAIN mem /\ mem2[n].next = mem[n].next /\ mem[n].next \in DOMAIN mem2
        \/ \E k \in Nat : Long(mem2, n, k)
  BY <1>1 DEF Grows
<1> QED BY <1>2, LinChange

(* The list that Chain gives has as many nodes.                            *)
Listing(g) == g = [m \in DOMAIN memory |-> IF m = 0 THEN <<>> ELSE <<m>> \o g[memory[m].next]]

LEMMA PathUnique ==
  ASSUME NEW mem, NEW n, NEW k \in Nat, NEW q, NEW j \in Nat, NEW r,
         Path(mem, n, k, q), Path(mem, n, j, r)
  PROVE  k = j /\ \A i \in 0 .. k : q[i] = r[i]
<1> DEFINE K == {i \in Nat : i <= k /\ i <= j => q[i] = r[i]}
<1>1. 0 \in K
  BY DEF Path
<1>2. ASSUME NEW i \in Nat, i \in K PROVE i + 1 \in K
  <2> SUFFICES ASSUME i + 1 <= k, i + 1 <= j PROVE q[i + 1] = r[i + 1]
    OBVIOUS
  <2>1. i \in 0 .. k - 1 /\ i \in 0 .. j - 1 /\ q[i] = r[i]
    BY <1>2
  <2> QED BY <2>1 DEF Path
<1>3. Nat \subseteq K
  <2> HIDE DEF K
  <2> QED BY <1>1, <1>2, NatInd
<1>4. \A i \in Nat : i <= k /\ i <= j => q[i] = r[i]
  BY <1>3
<1> HIDE DEF K
<1>5. ~(k < j)
  <2> SUFFICES ASSUME k < j PROVE FALSE
    OBVIOUS
  <2>1. k \in 0 .. j - 1 /\ q[k] = r[k]
    BY <1>4
  <2> QED BY <2>1 DEF Path
<1>6. ~(j < k)
  <2> SUFFICES ASSUME j < k PROVE FALSE
    OBVIOUS
  <2>1. j \in 0 .. k - 1 /\ q[j] = r[j]
    BY <1>4
  <2> QED BY <2>1 DEF Path
<1>7. k = j
  BY <1>5, <1>6
<1> QED BY <1>4, <1>7

LEMMA ListingExists ==
  ASSUME Lin(memory), \A n \in DOMAIN memory : memory[n].next \in DOMAIN memory
  PROVE  \E g : Listing(g)
<1> DEFINE k(n) == CHOOSE j \in Nat : Long(memory, n, j)
           q(n) == CHOOSE w : Path(memory, n, k(n), w)
           g == [n \in DOMAIN memory |-> [j \in 1 .. k(n) |-> q(n)[j - 1]]]
<1>1. ASSUME NEW n \in DOMAIN memory PROVE k(n) \in Nat /\ Path(memory, n, k(n), q(n))
  <2>1. k(n) \in Nat /\ Long(memory, n, k(n))
    BY DEF Lin
  <2> HIDE DEF k
  <2> QED BY <2>1 DEF Long
<1>2. \A n \in DOMAIN memory : g[n] = [j \in 1 .. k(n) |-> q(n)[j - 1]]
  OBVIOUS
<1> HIDE DEF k, q
<1>3. ASSUME NEW n \in DOMAIN memory PROVE g[n] \in Seq(DOMAIN memory) /\ Len(g[n]) = k(n)
  <2>1. \A j \in 1 .. k(n) : j - 1 \in 0 .. k(n) - 1
    BY <1>1
  <2>2. \A j \in 1 .. k(n) : q(n)[j - 1] \in DOMAIN memory
    BY <1>1, <2>1 DEF Path
  <2>3. [j \in 1 .. k(n) |-> q(n)[j - 1]] \in Seq(DOMAIN memory)
        /\ Len([j \in 1 .. k(n) |-> q(n)[j - 1]]) = k(n)
    <3> DEFINE l == k(n)
               v(j) == q(n)[j - 1]
    <3>1. l \in Nat /\ \A j \in 1 .. l : v(j) \in DOMAIN memory
      BY <1>1, <2>2
    <3> HIDE DEF l, v
    <3>2. [j \in 1 .. l |-> v(j)] \in Seq(DOMAIN memory) /\ Len([j \in 1 .. l |-> v(j)]) = l
      BY <3>1
    <3> QED BY <3>2 DEF l, v
  <2> HIDE DEF g
  <2> QED BY <1>2, <2>3
<1>4. ASSUME NEW m \in DOMAIN memory, m # 0 PROVE g[m] = <<m>> \o g[memory[m].next]
  <2> DEFINE x == memory[m].next
             r == [j \in Nat |-> IF j = 0 THEN m ELSE q(x)[j - 1]]
  <2>1. x \in DOMAIN memory /\ k(x) \in Nat /\ Path(memory, x, k(x), q(x))
    BY <1>1
  <2>2. Path(memory, m, k(x) + 1, r)
    BY <1>4, <2>1, PathCons
  <2>3. \A j \in Nat : r[j] = IF j = 0 THEN m ELSE q(x)[j - 1]
    OBVIOUS
  <2> HIDE DEF r, x
  <2>4. k(m) = k(x) + 1 /\ \A i \in 0 .. k(m) : q(m)[i] = r[i]
    <3>1. k(m) \in Nat /\ Path(memory, m, k(m), q(m)) /\ k(x) + 1 \in Nat
      BY <1>1, <2>1
    <3> DEFINE a == k(m)
               b == k(x) + 1
               w == q(m)
    <3>2. a \in Nat /\ b \in Nat /\ Path(memory, m, a, w) /\ Path(memory, m, b, r)
      BY <2>2, <3>1
    <3> HIDE DEF a, b, w
    <3>3. a = b /\ \A i \in 0 .. a : w[i] = r[i]
      BY <3>2, PathUnique
    <3> QED BY <3>3 DEF a, b, w
  <2>5. /\ g[m] \in Seq(DOMAIN memory) /\ Len(g[m]) = k(x) + 1
        /\ g[x] \in Seq(DOMAIN memory) /\ Len(g[x]) = k(x)
    BY <1>3, <2>1, <2>4
  <2>6. /\ <<m>> \in Seq(DOMAIN memory) /\ Len(<<m>>) = 1 /\ <<m>>[1] = m
    OBVIOUS
  <2>7. /\ <<m>> \o g[x] \in Seq(DOMAIN memory) /\ Len(<<m>> \o g[x]) = k(x) + 1
        /\ \A i \in 1 .. k(x) + 1 : (<<m>> \o g[x])[i] = IF i <= 1 THEN m ELSE g[x][i - 1]
    <3> HIDE DEF g
    <3> QED BY <2>1, <2>5, <2>6, ConcatProperties
  <2>8. ASSUME NEW i \in 1 .. k(x) + 1 PROVE g[m][i] = (<<m>> \o g[x])[i]
    <3>1. g[m][i] = q(m)[i - 1] /\ i - 1 \in 0 .. k(m) /\ i - 1 \in Nat
      BY <1>2, <2>1, <2>4
    <3>2. g[m][i] = r[i - 1]
      BY <2>4, <3>1
    <3>3. CASE i = 1
      BY <2>1, <2>3, <2>7, <3>2, <3>3
    <3>4. CASE i # 1
      <4>1. i - 1 \in 1 .. k(x) /\ i - 1 # 0
        BY <2>1, <3>4
      <4>2. g[x][i - 1] = q(x)[(i - 1) - 1]
        BY <1>2, <2>1, <4>1
      <4> HIDE DEF g
      <4> QED BY <2>1, <2>3, <2>7, <3>1, <3>2, <4>1, <4>2
    <3> QED BY <3>3, <3>4
  <2> HIDE DEF g
  <2> QED BY <2>1, <2>5, <2>7, <2>8, SeqEqual DEF x
<1>5. 0 \in DOMAIN memory => g[0] = <<>>
  <2> SUFFICES ASSUME 0 \in DOMAIN memory PROVE g[0] = <<>>
    OBVIOUS
  <2>1. Long(memory, 0, k(0)) /\ k(0) \in Nat
    BY <1>1 DEF Long
  <2>2. k(0) = 0
    BY <2>1, LongEnds
  <2> HIDE DEF g
  <2> QED BY <1>3, <2>2, EmptySeq
<1>6. Listing(g)
  <2>1. g = [n \in DOMAIN memory |-> g[n]]
    OBVIOUS
  <2> HIDE DEF g
  <2> QED BY <1>4, <1>5, <2>1 DEF Listing
<1> HIDE DEF g
<1> QED BY <1>6

LEMMA ChainLength ==
  ASSUME Lin(memory), \A n \in DOMAIN memory : memory[n].next \in DOMAIN memory,
         NEW n \in DOMAIN memory, NEW k \in Nat, Long(memory, n, k)
  PROVE  Len(Chain(n)) = k
<1> DEFINE g == CHOOSE f : Listing(f)
<1>1. Listing(g)
  BY ListingExists
<1>2. Chain(n) = g[n]
  BY DEF Chain, Listing
<1> HIDE DEF g
<1> DEFINE K == {j \in Nat : \A m \in DOMAIN memory : Long(memory, m, j) =>
                                g[m] \in Seq(DOMAIN memory) /\ Len(g[m]) = j}
<1>3. 0 \in K
  <2> SUFFICES ASSUME NEW m \in DOMAIN memory, Long(memory, m, 0)
               PROVE  g[m] \in Seq(DOMAIN memory) /\ Len(g[m]) = 0
    OBVIOUS
  <2>1. m = 0
    BY LongEnds
  <2>2. g[m] = <<>>
    BY <1>1, <2>1 DEF Listing
  <2> QED BY <2>2
<1>4. ASSUME NEW j \in Nat, j \in K PROVE j + 1 \in K
  <2> SUFFICES ASSUME NEW m \in DOMAIN memory, Long(memory, m, j + 1)
               PROVE  g[m] \in Seq(DOMAIN memory) /\ Len(g[m]) = j + 1
    OBVIOUS
  <2>1. j + 1 \in Nat /\ j + 1 # 0 /\ (j + 1) - 1 = j
    OBVIOUS
  <2>2. m # 0 /\ Long(memory, memory[m].next, j)
    BY <2>1, LongTail
  <2>3. g[memory[m].next] \in Seq(DOMAIN memory) /\ Len(g[memory[m].next]) = j
    BY <1>4, <2>2
  <2>4. g[m] = <<m>> \o g[memory[m].next]
    BY <1>1, <2>2 DEF Listing
  <2>5. <<m>> \in Seq(DOMAIN memory) /\ Len(<<m>>) = 1
    OBVIOUS
  <2> QED BY <2>3, <2>4, <2>5, ConcatProperties
<1>5. Nat \subseteq K
  <2> HIDE DEF K
  <2> QED BY <1>3, <1>4, NatInd
<1> QED BY <1>2, <1>5

-----------------------------------------------------------------------------
(* What a builtin has put on a dump and not yet removed.  A point of a      *)
(* program says how many nodes of its own lie on the dump d before it: P    *)
(* when nothing forbids to add or remove some, -1 - P where a break may     *)
(* follow before they are removed.                                         *)

DumpNames == {"dump", "dump1", "dump2", "dump3", "dump4"}

Height(P) == IF P >= 0 THEN P ELSE -1 - P

(* What an instruction adds to the dump d itself.                          *)
Move(i, d) ==
  IF i[1] \in {"list", "copy"} /\ i[2] = <<d>> THEN 1
  ELSE IF i[1] = "assign" /\ i[2] = <<d>> THEN -1
  ELSE 0

(* From the point P, a program comes to Q, instruction by instruction.     *)
Flow(R, s, P, Q) ==
  /\ s \in Seq(Instructions)
  /\ \E w : /\ w[1] = P /\ w[Len(s) + 1] = Q
            /\ \A n \in 1 .. Len(s) : <<s[n], w[n], w[n + 1]>> \in R

Obeys(R, d, i, P, Q) ==
  /\ i \in Instructions /\ P \in Int /\ Q \in Int
  /\ i[1] # "loop" /\ P < 0 => Q = P
  /\ i[1] # "if" => Height(Q) = Height(P) + Move(i, d)
  /\ i[1] = "if" => Flow(R, i[3], P, Q) /\ Flow(R, i[4], P, Q)
  /\ i[1] = "loop" => \E z \in Int : Height(z) = Height(P) /\ Flow(R, i[3], Height(P), z)
  /\ i[1] = "break" => P < 0
  /\ i[1] = "call" => P >= 0 /\ Q = P

(* The points between which an instruction leads: all that are consistent. *)
Triples == Instructions \X Int \X Int

Consistent(R, d) == R \subseteq Triples /\ \A r \in R : Obeys(R, d, r[1], r[2], r[3])

Rules(d) == UNION {R \in SUBSET Triples : Consistent(R, d)}

LEMMA FlowMore ==
  ASSUME NEW R, NEW T, R \subseteq T, NEW s, NEW P, NEW Q, Flow(R, s, P, Q)
  PROVE  Flow(T, s, P, Q)
BY DEF Flow

LEMMA ObeysMore ==
  ASSUME NEW R, NEW T, R \subseteq T, NEW d, NEW i, NEW P, NEW Q, Obeys(R, d, i, P, Q)
  PROVE  Obeys(T, d, i, P, Q)
<1>1. \A s, A, B : Flow(R, s, A, B) => Flow(T, s, A, B)
  BY FlowMore
<1> QED BY <1>1 DEF Obeys

LEMMA RulesObey ==
  ASSUME NEW d, NEW i, NEW P, NEW Q
  PROVE  <<i, P, Q>> \in Rules(d) <=> Obeys(Rules(d), d, i, P, Q)
<1>1. ASSUME <<i, P, Q>> \in Rules(d) PROVE Obeys(Rules(d), d, i, P, Q)
  <2>1. PICK R \in SUBSET Triples : Consistent(R, d) /\ <<i, P, Q>> \in R
    BY <1>1 DEF Rules
  <2>2. R \subseteq Rules(d)
    BY <2>1 DEF Rules
  <2>3. Obeys(R, d, <<i, P, Q>>[1], <<i, P, Q>>[2], <<i, P, Q>>[3])
    BY <2>1 DEF Consistent
  <2>4. <<i, P, Q>>[1] = i /\ <<i, P, Q>>[2] = P /\ <<i, P, Q>>[3] = Q
    OBVIOUS
  <2>5. Obeys(R, d, i, P, Q)
    BY <2>3, <2>4
  <2> QED BY <2>2, <2>5, ObeysMore
<1>2. ASSUME Obeys(Rules(d), d, i, P, Q) PROVE <<i, P, Q>> \in Rules(d)
  <2> DEFINE r == <<i, P, Q>>
             T == Rules(d) \cup {r}
  <2>1. Rules(d) \subseteq T /\ Rules(d) \subseteq Triples
    BY DEF Rules
  <2>2. r \in Triples /\ r[1] = i /\ r[2] = P /\ r[3] = Q
    BY <1>2 DEF Obeys, Triples
  <2>3. Obeys(T, d, r[1], r[2], r[3])
    BY <1>2, <2>1, <2>2, ObeysMore
  <2>4. ASSUME NEW t \in Rules(d) PROVE Obeys(T, d, t[1], t[2], t[3])
    <3>1. PICK R \in SUBSET Triples : Consistent(R, d) /\ t \in R
      BY DEF Rules
    <3>2. R \subseteq T /\ Obeys(R, d, t[1], t[2], t[3])
      BY <3>1 DEF Rules, Consistent
    <3> QED BY <3>2, ObeysMore
  <2>5. T \in SUBSET Triples /\ Consistent(T, d)
    BY <2>1, <2>2, <2>3, <2>4 DEF Consistent
  <2>6. r \in T
    OBVIOUS
  <2> HIDE DEF T, r
  <2>7. r \in Rules(d)
    BY <2>5, <2>6 DEF Rules
  <2> QED BY <2>7 DEF r
<1> QED BY <1>1, <1>2

(* One program after another.                                              *)
LEMMA FlowJoin ==
  ASSUME NEW R, NEW a, NEW b, NEW P, NEW M, NEW Q, Flow(R, a, P, M), Flow(R, b, M, Q)
  PROVE  Flow(R, a \o b, P, Q)
<1>1. PICK v : /\ v[1] = P /\ v[Len(a) + 1] = M
               /\ \A n \in 1 .. Len(a) : <<a[n], v[n], v[n + 1]>> \in R
  BY DEF Flow
<1>2. PICK w : /\ w[1] = M /\ w[Len(b) + 1] = Q
               /\ \A n \in 1 .. Len(b) : <<b[n], w[n], w[n + 1]>> \in R
  BY DEF Flow
<1>3. a \in Seq(Instructions) /\ b \in Seq(Instructions) /\ Len(a) \in Nat /\ Len(b) \in Nat
  BY LenProperties DEF Flow
<1> DEFINE l == Len(a)
           m == Len(b)
           u == [n \in Nat |-> IF n <= l THEN v[n] ELSE w[n - l]]
<1>4. /\ a \o b \in Seq(Instructions) /\ Len(a \o b) = l + m
      /\ \A n \in 1 .. l + m : (a \o b)[n] = IF n <= l THEN a[n] ELSE b[n - l]
  BY <1>3, ConcatProperties
<1>5. l \in Nat /\ m \in Nat /\ v[l + 1] = w[1]
  BY <1>1, <1>2, <1>3
<1>6. \A n \in Nat : u[n] = IF n <= l THEN v[n] ELSE w[n - l]
  OBVIOUS
<1> HIDE DEF u
<1>7. u[1] = P
  BY <1>1, <1>5, <1>6
<1>8. u[l + m + 1] = Q
  <2>1. l + m + 1 \in Nat /\ ~(l + m + 1 <= l) /\ l + m + 1 - l = m + 1
    BY <1>5
  <2> QED BY <1>2, <1>6, <2>1
<1>9. ASSUME NEW n \in 1 .. l + m PROVE <<(a \o b)[n], u[n], u[n + 1]>> \in R
  <2>1. CASE n < l
    <3>1. n \in 1 .. l /\ n \in Nat /\ n + 1 \in Nat /\ n <= l /\ n + 1 <= l
      BY <1>5, <2>1
    <3>2. (a \o b)[n] = a[n] /\ u[n] = v[n] /\ u[n + 1] = v[n + 1]
      BY <1>4, <1>6, <3>1
    <3> QED BY <1>1, <3>1, <3>2
  <2>2. CASE n = l
    <3>1. n \in 1 .. l /\ n \in Nat /\ n + 1 \in Nat /\ n <= l /\ ~(n + 1 <= l) /\ n + 1 - l = 1
      BY <1>5, <2>2
    <3>2. (a \o b)[n] = a[n] /\ u[n] = v[n] /\ u[n + 1] = v[n + 1]
      BY <1>4, <1>5, <1>6, <2>2, <3>1
    <3> QED BY <1>1, <3>1, <3>2
  <2>3. CASE n > l
    <3>1. n - l \in 1 .. m /\ n \in Nat /\ n + 1 \in Nat /\ ~(n <= l) /\ ~(n + 1 <= l)
          /\ n + 1 - l = (n - l) + 1
      BY <1>5, <2>3
    <3>2. (a \o b)[n] = b[n - l] /\ u[n] = w[n - l] /\ u[n + 1] = w[(n - l) + 1]
      BY <1>4, <1>6, <3>1
    <3> QED BY <1>2, <3>1, <3>2
  <2>4. n < l \/ n = l \/ n > l
    BY <1>5
  <2> HIDE DEF l, m
  <2> QED BY <2>1, <2>2, <2>3, <2>4
<1> QED BY <1>4, <1>7, <1>8, <1>9 DEF Flow

(* The first instruction, and the others.                                  *)
LEMMA FlowHead ==
  ASSUME NEW R, NEW s, s # <<>>, NEW P, NEW Q, Flow(R, s, P, Q)
  PROVE  \E M : <<Head(s), P, M>> \in R /\ Flow(R, Tail(s), M, Q)
<1>1. PICK w : /\ w[1] = P /\ w[Len(s) + 1] = Q
               /\ \A n \in 1 .. Len(s) : <<s[n], w[n], w[n + 1]>> \in R
  BY DEF Flow
<1>2. /\ s \in Seq(Instructions) /\ Len(s) \in Nat /\ Len(s) >= 1 /\ Head(s) = s[1]
      /\ Tail(s) \in Seq(Instructions) /\ Len(Tail(s)) = Len(s) - 1
      /\ \A n \in 1 .. Len(Tail(s)) : Tail(s)[n] = s[n + 1]
  BY HeadTailProperties, EmptySeq, LenProperties DEF Flow
<1> DEFINE u == [n \in Nat |-> w[n + 1]]
<1>3. \A n \in Nat : u[n] = w[n + 1]
  OBVIOUS
<1> HIDE DEF u
<1>4. <<Head(s), P, w[2]>> \in R
  <2>1. 1 \in 1 .. Len(s) /\ 1 + 1 = 2
    BY <1>2
  <2> QED BY <1>1, <1>2, <2>1
<1>5. u[1] = w[2] /\ u[Len(Tail(s)) + 1] = Q
  <2>1. Len(Tail(s)) + 1 \in Nat /\ (Len(Tail(s)) + 1) + 1 = Len(s) + 1
    BY <1>2
  <2> QED BY <1>1, <1>3, <2>1
<1>6. ASSUME NEW n \in 1 .. Len(Tail(s)) PROVE <<Tail(s)[n], u[n], u[n + 1]>> \in R
  <2>1. n + 1 \in 1 .. Len(s) /\ n \in Nat /\ n + 1 \in Nat
    BY <1>2
  <2> QED BY <1>1, <1>2, <1>3, <2>1
<1>7. Flow(R, Tail(s), w[2], Q)
  BY <1>2, <1>5, <1>6 DEF Flow
<1> QED BY <1>4, <1>7

LEMMA Flow0 ==
  ASSUME NEW R, NEW P
  PROVE  Flow(R, <<>>, P, P)
<1> DEFINE s == <<>>
           w == <<P>>
<1>1. s \in Seq(Instructions) /\ Len(s) = 0 /\ w[1] = P /\ 0 + 1 = 1 /\ 1 .. 0 = {}
  OBVIOUS
<1> HIDE DEF s, w
<1>2. Flow(R, s, P, P)
  BY <1>1 DEF Flow
<1> QED BY <1>2 DEF s

LEMMA Flow1 ==
  ASSUME NEW d, NEW i1, NEW P0, NEW P1,
         <<i1, P0, P1>> \in Rules(d)
  PROVE  Flow(Rules(d), <<i1>>, P0, P1)
<1> DEFINE s == <<i1>>
           w == <<P0, P1>>
           R == Rules(d)
<1>0. i1 \in Instructions
  BY RulesObey DEF Obeys
<1> HIDE DEF R
<1>1. s \in Seq(Instructions) /\ Len(s) = 1 /\ w[1] = P0 /\ w[2] = P1
      /\ Len(s) + 1 = 2
  BY <1>0
<1>2. \A n \in 1 .. 1 : <<s[n], w[n], w[n + 1]>> \in R
  <2>1. <<s[1], w[1], w[2]>> \in R
    BY DEF R
  <2> HIDE DEF s, w
  <2> QED BY <2>1
<1> HIDE DEF w
<1>3. Flow(R, s, P0, P1)
  <2> HIDE DEF s
  <2> QED BY <1>1, <1>2 DEF Flow
<1> QED BY <1>3 DEF R

LEMMA Flow2 ==
  ASSUME NEW d, NEW i1, NEW i2, NEW P0, NEW P1, NEW P2,
         <<i1, P0, P1>> \in Rules(d), <<i2, P1, P2>> \in Rules(d)
  PROVE  Flow(Rules(d), <<i1, i2>>, P0, P2)
<1> DEFINE s == <<i1, i2>>
           w == <<P0, P1, P2>>
           R == Rules(d)
<1>0. i1 \in Instructions /\ i2 \in Instructions
  BY RulesObey DEF Obeys
<1> HIDE DEF R
<1>1. s \in Seq(Instructions) /\ Len(s) = 2 /\ w[1] = P0 /\ w[3] = P2
      /\ Len(s) + 1 = 3
  BY <1>0
<1>2. \A n \in 1 .. 2 : <<s[n], w[n], w[n + 1]>> \in R
  <2>1. <<s[1], w[1], w[2]>> \in R
    BY DEF R
  <2>2. <<s[2], w[2], w[3]>> \in R
    BY DEF R
  <2> HIDE DEF s, w
  <2> QED BY <2>1, <2>2
<1> HIDE DEF w
<1>3. Flow(R, s, P0, P2)
  <2> HIDE DEF s
  <2> QED BY <1>1, <1>2 DEF Flow
<1> QED BY <1>3 DEF R

LEMMA Flow3 ==
  ASSUME NEW d, NEW i1, NEW i2, NEW i3, NEW P0, NEW P1, NEW P2, NEW P3,
         <<i1, P0, P1>> \in Rules(d), <<i2, P1, P2>> \in Rules(d),
         <<i3, P2, P3>> \in Rules(d)
  PROVE  Flow(Rules(d), <<i1, i2, i3>>, P0, P3)
<1> DEFINE s == <<i1, i2, i3>>
           w == <<P0, P1, P2, P3>>
           R == Rules(d)
<1>0. i1 \in Instructions /\ i2 \in Instructions /\ i3 \in Instructions
  BY RulesObey DEF Obeys
<1> HIDE DEF R
<1>1. s \in Seq(Instructions) /\ Len(s) = 3 /\ w[1] = P0 /\ w[4] = P3
      /\ Len(s) + 1 = 4
  BY <1>0
<1>2. \A n \in 1 .. 3 : <<s[n], w[n], w[n + 1]>> \in R
  <2>1. <<s[1], w[1], w[2]>> \in R
    BY DEF R
  <2>2. <<s[2], w[2], w[3]>> \in R
    BY DEF R
  <2>3. <<s[3], w[3], w[4]>> \in R
    BY DEF R
  <2> HIDE DEF s, w
  <2> QED BY <2>1, <2>2, <2>3
<1> HIDE DEF w
<1>3. Flow(R, s, P0, P3)
  <2> HIDE DEF s
  <2> QED BY <1>1, <1>2 DEF Flow
<1> QED BY <1>3 DEF R

LEMMA Flow4 ==
  ASSUME NEW d, NEW i1, NEW i2, NEW i3, NEW i4, NEW P0, NEW P1, NEW P2, NEW P3, NEW P4,
         <<i1, P0, P1>> \in Rules(d), <<i2, P1, P2>> \in Rules(d),
         <<i3, P2, P3>> \in Rules(d), <<i4, P3, P4>> \in Rules(d)
  PROVE  Flow(Rules(d), <<i1, i2, i3, i4>>, P0, P4)
<1> DEFINE s == <<i1, i2, i3, i4>>
           w == <<P0, P1, P2, P3, P4>>
           R == Rules(d)
<1>0. i1 \in Instructions /\ i2 \in Instructions /\ i3 \in Instructions /\
      i4 \in Instructions
  BY RulesObey DEF Obeys
<1> HIDE DEF R
<1>1. s \in Seq(Instructions) /\ Len(s) = 4 /\ w[1] = P0 /\ w[5] = P4
      /\ Len(s) + 1 = 5
  BY <1>0
<1>2. \A n \in 1 .. 4 : <<s[n], w[n], w[n + 1]>> \in R
  <2>1. <<s[1], w[1], w[2]>> \in R
    BY DEF R
  <2>2. <<s[2], w[2], w[3]>> \in R
    BY DEF R
  <2>3. <<s[3], w[3], w[4]>> \in R
    BY DEF R
  <2>4. <<s[4], w[4], w[5]>> \in R
    BY DEF R
  <2> HIDE DEF s, w
  <2> QED BY <2>1, <2>2, <2>3, <2>4
<1> HIDE DEF w
<1>3. Flow(R, s, P0, P4)
  <2> HIDE DEF s
  <2> QED BY <1>1, <1>2 DEF Flow
<1> QED BY <1>3 DEF R

LEMMA Flow5 ==
  ASSUME NEW d, NEW i1, NEW i2, NEW i3, NEW i4, NEW i5, NEW P0, NEW P1, NEW P2, NEW P3, NEW P4,
         NEW P5,
         <<i1, P0, P1>> \in Rules(d), <<i2, P1, P2>> \in Rules(d),
         <<i3, P2, P3>> \in Rules(d), <<i4, P3, P4>> \in Rules(d),
         <<i5, P4, P5>> \in Rules(d)
  PROVE  Flow(Rules(d), <<i1, i2, i3, i4, i5>>, P0, P5)
<1> DEFINE s == <<i1, i2, i3, i4, i5>>
           w == <<P0, P1, P2, P3, P4, P5>>
           R == Rules(d)
<1>0. i1 \in Instructions /\ i2 \in Instructions /\ i3 \in Instructions /\
      i4 \in Instructions /\ i5 \in Instructions
  BY RulesObey DEF Obeys
<1> HIDE DEF R
<1>1. s \in Seq(Instructions) /\ Len(s) = 5 /\ w[1] = P0 /\ w[6] = P5
      /\ Len(s) + 1 = 6
  BY <1>0
<1>2. \A n \in 1 .. 5 : <<s[n], w[n], w[n + 1]>> \in R
  <2>1. <<s[1], w[1], w[2]>> \in R
    BY DEF R
  <2>2. <<s[2], w[2], w[3]>> \in R
    BY DEF R
  <2>3. <<s[3], w[3], w[4]>> \in R
    BY DEF R
  <2>4. <<s[4], w[4], w[5]>> \in R
    BY DEF R
  <2>5. <<s[5], w[5], w[6]>> \in R
    BY DEF R
  <2> HIDE DEF s, w
  <2> QED BY <2>1, <2>2, <2>3, <2>4, <2>5
<1> HIDE DEF w
<1>3. Flow(R, s, P0, P5)
  <2> HIDE DEF s
  <2> QED BY <1>1, <1>2 DEF Flow
<1> QED BY <1>3 DEF R

LEMMA Flow6 ==
  ASSUME NEW d, NEW i1, NEW i2, NEW i3, NEW i4, NEW i5, NEW i6, NEW P0, NEW P1, NEW P2, NEW P3,
         NEW P4, NEW P5, NEW P6,
         <<i1, P0, P1>> \in Rules(d), <<i2, P1, P2>> \in Rules(d),
         <<i3, P2, P3>> \in Rules(d), <<i4, P3, P4>> \in Rules(d),
         <<i5, P4, P5>> \in Rules(d), <<i6, P5, P6>> \in Rules(d)
  PROVE  Flow(Rules(d), <<i1, i2, i3, i4, i5, i6>>, P0, P6)
<1> DEFINE s == <<i1, i2, i3, i4, i5, i6>>
           w == <<P0, P1, P2, P3, P4, P5, P6>>
           R == Rules(d)
<1>0. i1 \in Instructions /\ i2 \in Instructions /\ i3 \in Instructions /\
      i4 \in Instructions /\ i5 \in Instructions /\ i6 \in Instructions
  BY RulesObey DEF Obeys
<1> HIDE DEF R
<1>1. s \in Seq(Instructions) /\ Len(s) = 6 /\ w[1] = P0 /\ w[7] = P6
      /\ Len(s) + 1 = 7
  BY <1>0
<1>2. \A n \in 1 .. 6 : <<s[n], w[n], w[n + 1]>> \in R
  <2>1. <<s[1], w[1], w[2]>> \in R
    BY DEF R
  <2>2. <<s[2], w[2], w[3]>> \in R
    BY DEF R
  <2>3. <<s[3], w[3], w[4]>> \in R
    BY DEF R
  <2>4. <<s[4], w[4], w[5]>> \in R
    BY DEF R
  <2>5. <<s[5], w[5], w[6]>> \in R
    BY DEF R
  <2>6. <<s[6], w[6], w[7]>> \in R
    BY DEF R
  <2> HIDE DEF s, w
  <2> QED BY <2>1, <2>2, <2>3, <2>4, <2>5, <2>6
<1> HIDE DEF w
<1>3. Flow(R, s, P0, P6)
  <2> HIDE DEF s
  <2> QED BY <1>1, <1>2 DEF Flow
<1> QED BY <1>3 DEF R

LEMMA Flow7 ==
  ASSUME NEW d, NEW i1, NEW i2, NEW i3, NEW i4, NEW i5, NEW i6, NEW i7, NEW P0, NEW P1, NEW P2,
         NEW P3, NEW P4, NEW P5, NEW P6, NEW P7,
         <<i1, P0, P1>> \in Rules(d), <<i2, P1, P2>> \in Rules(d),
         <<i3, P2, P3>> \in Rules(d), <<i4, P3, P4>> \in Rules(d),
         <<i5, P4, P5>> \in Rules(d), <<i6, P5, P6>> \in Rules(d),
         <<i7, P6, P7>> \in Rules(d)
  PROVE  Flow(Rules(d), <<i1, i2, i3, i4, i5, i6, i7>>, P0, P7)
<1> DEFINE s == <<i1, i2, i3, i4, i5, i6, i7>>
           w == <<P0, P1, P2, P3, P4, P5, P6, P7>>
           R == Rules(d)
<1>0. i1 \in Instructions /\ i2 \in Instructions /\ i3 \in Instructions /\
      i4 \in Instructions /\ i5 \in Instructions /\ i6 \in Instructions /\
      i7 \in Instructions
  BY RulesObey DEF Obeys
<1> HIDE DEF R
<1>1. s \in Seq(Instructions) /\ Len(s) = 7 /\ w[1] = P0 /\ w[8] = P7
      /\ Len(s) + 1 = 8
  BY <1>0
<1>2. \A n \in 1 .. 7 : <<s[n], w[n], w[n + 1]>> \in R
  <2>1. <<s[1], w[1], w[2]>> \in R
    BY DEF R
  <2>2. <<s[2], w[2], w[3]>> \in R
    BY DEF R
  <2>3. <<s[3], w[3], w[4]>> \in R
    BY DEF R
  <2>4. <<s[4], w[4], w[5]>> \in R
    BY DEF R
  <2>5. <<s[5], w[5], w[6]>> \in R
    BY DEF R
  <2>6. <<s[6], w[6], w[7]>> \in R
    BY DEF R
  <2>7. <<s[7], w[7], w[8]>> \in R
    BY DEF R
  <2> HIDE DEF s, w
  <2> QED BY <2>1, <2>2, <2>3, <2>4, <2>5, <2>6, <2>7
<1> HIDE DEF w
<1>3. Flow(R, s, P0, P7)
  <2> HIDE DEF s
  <2> QED BY <1>1, <1>2 DEF Flow
<1> QED BY <1>3 DEF R

LEMMA Flow8 ==
  ASSUME NEW d, NEW i1, NEW i2, NEW i3, NEW i4, NEW i5, NEW i6, NEW i7, NEW i8, NEW P0, NEW P1,
         NEW P2, NEW P3, NEW P4, NEW P5, NEW P6, NEW P7, NEW P8,
         <<i1, P0, P1>> \in Rules(d), <<i2, P1, P2>> \in Rules(d),
         <<i3, P2, P3>> \in Rules(d), <<i4, P3, P4>> \in Rules(d),
         <<i5, P4, P5>> \in Rules(d), <<i6, P5, P6>> \in Rules(d),
         <<i7, P6, P7>> \in Rules(d), <<i8, P7, P8>> \in Rules(d)
  PROVE  Flow(Rules(d), <<i1, i2, i3, i4, i5, i6, i7, i8>>, P0, P8)
<1> DEFINE s == <<i1, i2, i3, i4, i5, i6, i7, i8>>
           w == <<P0, P1, P2, P3, P4, P5, P6, P7, P8>>
           R == Rules(d)
<1>0. i1 \in Instructions /\ i2 \in Instructions /\ i3 \in Instructions /\
      i4 \in Instructions /\ i5 \in Instructions /\ i6 \in Instructions /\
      i7 \in Instructions /\ i8 \in Instructions
  BY RulesObey DEF Obeys
<1> HIDE DEF R
<1>1. s \in Seq(Instructions) /\ Len(s) = 8 /\ w[1] = P0 /\ w[9] = P8
      /\ Len(s) + 1 = 9
  BY <1>0
<1>2. \A n \in 1 .. 8 : <<s[n], w[n], w[n + 1]>> \in R
  <2>1. <<s[1], w[1], w[2]>> \in R
    BY DEF R
  <2>2. <<s[2], w[2], w[3]>> \in R
    BY DEF R
  <2>3. <<s[3], w[3], w[4]>> \in R
    BY DEF R
  <2>4. <<s[4], w[4], w[5]>> \in R
    BY DEF R
  <2>5. <<s[5], w[5], w[6]>> \in R
    BY DEF R
  <2>6. <<s[6], w[6], w[7]>> \in R
    BY DEF R
  <2>7. <<s[7], w[7], w[8]>> \in R
    BY DEF R
  <2>8. <<s[8], w[8], w[9]>> \in R
    BY DEF R
  <2> HIDE DEF s, w
  <2> QED BY <2>1, <2>2, <2>3, <2>4, <2>5, <2>6, <2>7, <2>8
<1> HIDE DEF w
<1>3. Flow(R, s, P0, P8)
  <2> HIDE DEF s
  <2> QED BY <1>1, <1>2 DEF Flow
<1> QED BY <1>3 DEF R

LEMMA Flow9 ==
  ASSUME NEW d, NEW i1, NEW i2, NEW i3, NEW i4, NEW i5, NEW i6, NEW i7, NEW i8, NEW i9, NEW P0,
         NEW P1, NEW P2, NEW P3, NEW P4, NEW P5, NEW P6, NEW P7, NEW P8, NEW P9,
         <<i1, P0, P1>> \in Rules(d), <<i2, P1, P2>> \in Rules(d),
         <<i3, P2, P3>> \in Rules(d), <<i4, P3, P4>> \in Rules(d),
         <<i5, P4, P5>> \in Rules(d), <<i6, P5, P6>> \in Rules(d),
         <<i7, P6, P7>> \in Rules(d), <<i8, P7, P8>> \in Rules(d),
         <<i9, P8, P9>> \in Rules(d)
  PROVE  Flow(Rules(d), <<i1, i2, i3, i4, i5, i6, i7, i8, i9>>, P0, P9)
<1> DEFINE s == <<i1, i2, i3, i4, i5, i6, i7, i8, i9>>
           w == <<P0, P1, P2, P3, P4, P5, P6, P7, P8, P9>>
           R == Rules(d)
<1>0. i1 \in Instructions /\ i2 \in Instructions /\ i3 \in Instructions /\
      i4 \in Instructions /\ i5 \in Instructions /\ i6 \in Instructions /\
      i7 \in Instructions /\ i8 \in Instructions /\ i9 \in Instructions
  BY RulesObey DEF Obeys
<1> HIDE DEF R
<1>1. s \in Seq(Instructions) /\ Len(s) = 9 /\ w[1] = P0 /\ w[10] = P9
      /\ Len(s) + 1 = 10
  BY <1>0
<1>2. \A n \in 1 .. 9 : <<s[n], w[n], w[n + 1]>> \in R
  <2>1. <<s[1], w[1], w[2]>> \in R
    BY DEF R
  <2>2. <<s[2], w[2], w[3]>> \in R
    BY DEF R
  <2>3. <<s[3], w[3], w[4]>> \in R
    BY DEF R
  <2>4. <<s[4], w[4], w[5]>> \in R
    BY DEF R
  <2>5. <<s[5], w[5], w[6]>> \in R
    BY DEF R
  <2>6. <<s[6], w[6], w[7]>> \in R
    BY DEF R
  <2>7. <<s[7], w[7], w[8]>> \in R
    BY DEF R
  <2>8. <<s[8], w[8], w[9]>> \in R
    BY DEF R
  <2>9. <<s[9], w[9], w[10]>> \in R
    BY DEF R
  <2> HIDE DEF s, w
  <2> QED BY <2>1, <2>2, <2>3, <2>4, <2>5, <2>6, <2>7, <2>8, <2>9
<1> HIDE DEF w
<1>3. Flow(R, s, P0, P9)
  <2> HIDE DEF s
  <2> QED BY <1>1, <1>2 DEF Flow
<1> QED BY <1>3 DEF R

LEMMA Flow10 ==
  ASSUME NEW d, NEW i1, NEW i2, NEW i3, NEW i4, NEW i5, NEW i6, NEW i7, NEW i8, NEW i9, NEW i10,
         NEW P0, NEW P1, NEW P2, NEW P3, NEW P4, NEW P5, NEW P6, NEW P7, NEW P8, NEW P9,
         NEW P10,
         <<i1, P0, P1>> \in Rules(d), <<i2, P1, P2>> \in Rules(d),
         <<i3, P2, P3>> \in Rules(d), <<i4, P3, P4>> \in Rules(d),
         <<i5, P4, P5>> \in Rules(d), <<i6, P5, P6>> \in Rules(d),
         <<i7, P6, P7>> \in Rules(d), <<i8, P7, P8>> \in Rules(d),
         <<i9, P8, P9>> \in Rules(d), <<i10, P9, P10>> \in Rules(d)
  PROVE  Flow(Rules(d), <<i1, i2, i3, i4, i5, i6, i7, i8, i9, i10>>, P0, P10)
<1> DEFINE s == <<i1, i2, i3, i4, i5, i6, i7, i8, i9, i10>>
           w == <<P0, P1, P2, P3, P4, P5, P6, P7, P8, P9, P10>>
           R == Rules(d)
<1>0. i1 \in Instructions /\ i2 \in Instructions /\ i3 \in Instructions /\
      i4 \in Instructions /\ i5 \in Instructions /\ i6 \in Instructions /\
      i7 \in Instructions /\ i8 \in Instructions /\ i9 \in Instructions /\
      i10 \in Instructions
  BY RulesObey DEF Obeys
<1> HIDE DEF R
<1>1. s \in Seq(Instructions) /\ Len(s) = 10 /\ w[1] = P0 /\ w[11] = P10
      /\ Len(s) + 1 = 11
  BY <1>0
<1>2. \A n \in 1 .. 10 : <<s[n], w[n], w[n + 1]>> \in R
  <2>1. <<s[1], w[1], w[2]>> \in R
    BY DEF R
  <2>2. <<s[2], w[2], w[3]>> \in R
    BY DEF R
  <2>3. <<s[3], w[3], w[4]>> \in R
    BY DEF R
  <2>4. <<s[4], w[4], w[5]>> \in R
    BY DEF R
  <2>5. <<s[5], w[5], w[6]>> \in R
    BY DEF R
  <2>6. <<s[6], w[6], w[7]>> \in R
    BY DEF R
  <2>7. <<s[7], w[7], w[8]>> \in R
    BY DEF R
  <2>8. <<s[8], w[8], w[9]>> \in R
    BY DEF R
  <2>9. <<s[9], w[9], w[10]>> \in R
    BY DEF R
  <2>10. <<s[10], w[10], w[11]>> \in R
    BY DEF R
  <2> HIDE DEF s, w
  <2> QED BY <2>1, <2>2, <2>3, <2>4, <2>5, <2>6, <2>7, <2>8, <2>9, <2>10
<1> HIDE DEF w
<1>3. Flow(R, s, P0, P10)
  <2> HIDE DEF s
  <2> QED BY <1>1, <1>2 DEF Flow
<1> QED BY <1>3 DEF R

LEMMA Flow11 ==
  ASSUME NEW d, NEW i1, NEW i2, NEW i3, NEW i4, NEW i5, NEW i6, NEW i7, NEW i8, NEW i9, NEW i10,
         NEW i11, NEW P0, NEW P1, NEW P2, NEW P3, NEW P4, NEW P5, NEW P6, NEW P7, NEW P8,
         NEW P9, NEW P10, NEW P11,
         <<i1, P0, P1>> \in Rules(d), <<i2, P1, P2>> \in Rules(d),
         <<i3, P2, P3>> \in Rules(d), <<i4, P3, P4>> \in Rules(d),
         <<i5, P4, P5>> \in Rules(d), <<i6, P5, P6>> \in Rules(d),
         <<i7, P6, P7>> \in Rules(d), <<i8, P7, P8>> \in Rules(d),
         <<i9, P8, P9>> \in Rules(d), <<i10, P9, P10>> \in Rules(d),
         <<i11, P10, P11>> \in Rules(d)
  PROVE  Flow(Rules(d), <<i1, i2, i3, i4, i5, i6, i7, i8, i9, i10, i11>>, P0, P11)
<1> DEFINE s == <<i1, i2, i3, i4, i5, i6, i7, i8, i9, i10, i11>>
           w == <<P0, P1, P2, P3, P4, P5, P6, P7, P8, P9, P10, P11>>
           R == Rules(d)
<1>0. i1 \in Instructions /\ i2 \in Instructions /\ i3 \in Instructions /\
      i4 \in Instructions /\ i5 \in Instructions /\ i6 \in Instructions /\
      i7 \in Instructions /\ i8 \in Instructions /\ i9 \in Instructions /\
      i10 \in Instructions /\ i11 \in Instructions
  BY RulesObey DEF Obeys
<1> HIDE DEF R
<1>1. s \in Seq(Instructions) /\ Len(s) = 11 /\ w[1] = P0 /\ w[12] = P11
      /\ Len(s) + 1 = 12
  BY <1>0
<1>2. \A n \in 1 .. 11 : <<s[n], w[n], w[n + 1]>> \in R
  <2>1. <<s[1], w[1], w[2]>> \in R
    BY DEF R
  <2>2. <<s[2], w[2], w[3]>> \in R
    BY DEF R
  <2>3. <<s[3], w[3], w[4]>> \in R
    BY DEF R
  <2>4. <<s[4], w[4], w[5]>> \in R
    BY DEF R
  <2>5. <<s[5], w[5], w[6]>> \in R
    BY DEF R
  <2>6. <<s[6], w[6], w[7]>> \in R
    BY DEF R
  <2>7. <<s[7], w[7], w[8]>> \in R
    BY DEF R
  <2>8. <<s[8], w[8], w[9]>> \in R
    BY DEF R
  <2>9. <<s[9], w[9], w[10]>> \in R
    BY DEF R
  <2>10. <<s[10], w[10], w[11]>> \in R
    BY DEF R
  <2>11. <<s[11], w[11], w[12]>> \in R
    BY DEF R
  <2> HIDE DEF s, w
  <2> QED BY <2>1, <2>2, <2>3, <2>4, <2>5, <2>6, <2>7, <2>8, <2>9, <2>10, <2>11
<1> HIDE DEF w
<1>3. Flow(R, s, P0, P11)
  <2> HIDE DEF s
  <2> QED BY <1>1, <1>2 DEF Flow
<1> QED BY <1>3 DEF R

LEMMA Flow12 ==
  ASSUME NEW d, NEW i1, NEW i2, NEW i3, NEW i4, NEW i5, NEW i6, NEW i7, NEW i8, NEW i9, NEW i10,
         NEW i11, NEW i12, NEW P0, NEW P1, NEW P2, NEW P3, NEW P4, NEW P5, NEW P6, NEW P7,
         NEW P8, NEW P9, NEW P10, NEW P11, NEW P12,
         <<i1, P0, P1>> \in Rules(d), <<i2, P1, P2>> \in Rules(d),
         <<i3, P2, P3>> \in Rules(d), <<i4, P3, P4>> \in Rules(d),
         <<i5, P4, P5>> \in Rules(d), <<i6, P5, P6>> \in Rules(d),
         <<i7, P6, P7>> \in Rules(d), <<i8, P7, P8>> \in Rules(d),
         <<i9, P8, P9>> \in Rules(d), <<i10, P9, P10>> \in Rules(d),
         <<i11, P10, P11>> \in Rules(d), <<i12, P11, P12>> \in Rules(d)
  PROVE  Flow(Rules(d), <<i1, i2, i3, i4, i5, i6, i7, i8, i9, i10, i11, i12>>, P0, P12)
<1> DEFINE s == <<i1, i2, i3, i4, i5, i6, i7, i8, i9, i10, i11, i12>>
           w == <<P0, P1, P2, P3, P4, P5, P6, P7, P8, P9, P10, P11, P12>>
           R == Rules(d)
<1>0. i1 \in Instructions /\ i2 \in Instructions /\ i3 \in Instructions /\
      i4 \in Instructions /\ i5 \in Instructions /\ i6 \in Instructions /\
      i7 \in Instructions /\ i8 \in Instructions /\ i9 \in Instructions /\
      i10 \in Instructions /\ i11 \in Instructions /\ i12 \in Instructions
  BY RulesObey DEF Obeys
<1> HIDE DEF R
<1>1. s \in Seq(Instructions) /\ Len(s) = 12 /\ w[1] = P0 /\ w[13] = P12
      /\ Len(s) + 1 = 13
  BY <1>0
<1>2. \A n \in 1 .. 12 : <<s[n], w[n], w[n + 1]>> \in R
  <2>1. <<s[1], w[1], w[2]>> \in R
    BY DEF R
  <2>2. <<s[2], w[2], w[3]>> \in R
    BY DEF R
  <2>3. <<s[3], w[3], w[4]>> \in R
    BY DEF R
  <2>4. <<s[4], w[4], w[5]>> \in R
    BY DEF R
  <2>5. <<s[5], w[5], w[6]>> \in R
    BY DEF R
  <2>6. <<s[6], w[6], w[7]>> \in R
    BY DEF R
  <2>7. <<s[7], w[7], w[8]>> \in R
    BY DEF R
  <2>8. <<s[8], w[8], w[9]>> \in R
    BY DEF R
  <2>9. <<s[9], w[9], w[10]>> \in R
    BY DEF R
  <2>10. <<s[10], w[10], w[11]>> \in R
    BY DEF R
  <2>11. <<s[11], w[11], w[12]>> \in R
    BY DEF R
  <2>12. <<s[12], w[12], w[13]>> \in R
    BY DEF R
  <2> HIDE DEF s, w
  <2> QED BY <2>1, <2>2, <2>3, <2>4, <2>5, <2>6, <2>7, <2>8, <2>9, <2>10, <2>11, <2>12
<1> HIDE DEF w
<1>3. Flow(R, s, P0, P12)
  <2> HIDE DEF s
  <2> QED BY <1>1, <1>2 DEF Flow
<1> QED BY <1>3 DEF R

-----------------------------------------------------------------------------
(* The rules for the instructions that the builtins are written with.      *)

(* Those that leave all dumps as long as they are.                         *)
Steady ==
  {i \in Plain : /\ i[1] \notin {"break", "call"}
                 /\ \A d \in DumpNames : Move(i, d) = 0}

LEMMA PlainKinds ==
  ASSUME NEW i \in Plain
  PROVE  i[1] \notin {"if", "loop"} /\ i \in Instructions
<1>1. i[1] \notin {"if", "loop"}
  BY DEF Plain, POP, Assign, Copy, List, Break
<1> QED BY <1>1, Layers

LEMMA Steadfast ==
  ASSUME NEW d \in DumpNames, NEW i \in Steady, NEW P \in Int
  PROVE  <<i, P, P>> \in Rules(d)
<1>1. i \in Plain /\ i[1] \notin {"break", "call", "if", "loop"} /\ i \in Instructions
      /\ Move(i, d) = 0
  BY PlainKinds DEF Steady
<1>2. Height(P) \in Int
  BY DEF Height
<1> QED BY <1>1, <1>2, RulesObey DEF Obeys

LEMMA NotDumps ==
  ASSUME NEW d \in DumpNames
  PROVE  stck # <<d>> /\ DMP1 # <<d>> /\ DMP3 # <<d>>
<1>1. d \in Registers /\ "dump1" \in Registers /\ "dump3" \in Registers
  BY DEF DumpNames, Registers
<1>2. <<"stck">> # <<d>>
  BY DEF DumpNames
<1>3. Len(<<d>>) = 1
  OBVIOUS
<1>4. Len(Append(<<"dump1">>, "lis")) = 2 /\ Len(Append(<<"dump3">>, "lis")) = 2
  BY <1>1, FrontOfHop
<1> QED BY <1>2, <1>3, <1>4 DEF stck, Reg, DMP1, DMP3, lis, dump1, dump3

LEMMA SteadyKinds ==
  ASSUME NEW i \in Plain,
         \/ i[1] \notin {"assign", "copy", "list", "break", "call"}
         \/ i[1] \in {"assign", "copy", "list"} /\ i[2] \in {stck, DMP1, DMP3}
  PROVE  i \in Steady
<1>1. \A d \in DumpNames : Move(i, d) = 0
  BY NotDumps DEF Move
<1> QED BY <1>1 DEF Steady

LEMMA SteadyWritten ==
  /\ \A n, q : PARAMS(n, q) \in Plain => PARAMS(n, q) \in Steady
  /\ \A t : Require(t) \in Plain => Require(t) \in Steady
  /\ \A t : Result(t) \in Plain => Result(t) \in Steady
  /\ Reset \in Plain => Reset \in Steady
  /\ \A o : CHECKEMPTYLIST(o) \in Plain => CHECKEMPTYLIST(o) \in Steady
  /\ \A o : BADAGGREGATE(o) \in Plain => BADAGGREGATE(o) \in Steady
  /\ CHECKSTACK \in Plain => CHECKSTACK \in Steady
  /\ CHECKVALUE \in Plain => CHECKVALUE \in Steady
  /\ \A o : Assign(stck, o) \in Plain => Assign(stck, o) \in Steady
  /\ \A o, n : Copy(stck, o, n) \in Plain => Copy(stck, o, n) \in Steady
  /\ \A o, n : List(stck, o, n) \in Plain => List(stck, o, n) \in Steady
  /\ \A o : GNULLARY(o) \in Plain => GNULLARY(o) \in Steady
  /\ \A o : GUNARY(o) \in Plain => GUNARY(o) \in Steady
  /\ \A o : GBINARY(o) \in Plain => GBINARY(o) \in Steady
  /\ \A o : GTERNARY(o) \in Plain => GTERNARY(o) \in Steady
  /\ POP(stck) \in Plain => POP(stck) \in Steady
  /\ POP(DMP1) \in Plain => POP(DMP1) \in Steady
  /\ POP(DMP3) \in Plain => POP(DMP3) \in Steady
  /\ \A f, n : Number(f, n) \in Plain => Number(f, n) \in Steady
  /\ \A f : Function(f) \in Plain => Function(f) \in Steady
  /\ \A o : Exec(o) \in Plain => Exec(o) \in Steady
  /\ \A o : SetCount(o) \in Plain => SetCount(o) \in Steady
  /\ \A n : Count(n) \in Plain => Count(n) \in Steady
  /\ <<"cons">> \in Plain => <<"cons">> \in Steady
<1>1. /\ \A n, q : PARAMS(n, q) \in Plain => PARAMS(n, q) \in Steady
      /\ \A t : Require(t) \in Plain => Require(t) \in Steady
      /\ \A t : Result(t) \in Plain => Result(t) \in Steady
  BY SteadyKinds DEF PARAMS, Require, Result
<1>2. /\ Reset \in Plain => Reset \in Steady
      /\ \A o : CHECKEMPTYLIST(o) \in Plain => CHECKEMPTYLIST(o) \in Steady
      /\ \A o : BADAGGREGATE(o) \in Plain => BADAGGREGATE(o) \in Steady
      /\ CHECKSTACK \in Plain => CHECKSTACK \in Steady
      /\ CHECKVALUE \in Plain => CHECKVALUE \in Steady
  BY <1>1 DEF Reset, CHECKEMPTYLIST, BADAGGREGATE, CHECKSTACK, CHECKVALUE
<1>3. /\ \A o : Assign(stck, o) \in Plain => Assign(stck, o) \in Steady
      /\ \A o, n : Copy(stck, o, n) \in Plain => Copy(stck, o, n) \in Steady
      /\ \A o, n : List(stck, o, n) \in Plain => List(stck, o, n) \in Steady
  BY SteadyKinds DEF Assign, Copy, List
<1>4. /\ \A o : GNULLARY(o) \in Plain => GNULLARY(o) \in Steady
      /\ \A o : GUNARY(o) \in Plain => GUNARY(o) \in Steady
      /\ \A o : GBINARY(o) \in Plain => GBINARY(o) \in Steady
      /\ \A o : GTERNARY(o) \in Plain => GTERNARY(o) \in Steady
  BY <1>3 DEF GNULLARY, GUNARY, GBINARY, GTERNARY
<1>5. /\ POP(stck) \in Plain => POP(stck) \in Steady
      /\ POP(DMP1) \in Plain => POP(DMP1) \in Steady
      /\ POP(DMP3) \in Plain => POP(DMP3) \in Steady
  BY SteadyKinds DEF POP, Assign
<1>6. /\ \A f, n : Number(f, n) \in Plain => Number(f, n) \in Steady
      /\ \A f : Function(f) \in Plain => Function(f) \in Steady
      /\ \A o : Exec(o) \in Plain => Exec(o) \in Steady
      /\ \A o : SetCount(o) \in Plain => SetCount(o) \in Steady
      /\ \A n : Count(n) \in Plain => Count(n) \in Steady
      /\ <<"cons">> \in Plain => <<"cons">> \in Steady
  BY SteadyKinds DEF Number, Function, Exec, SetCount, Count
<1> QED BY <1>1, <1>2, <1>3, <1>4, <1>5, <1>6

(* Those that put a node on a dump, remove one, or constrain the point.    *)
On(d, e) == IF d = e THEN 1 ELSE 0

LEMMA Moving ==
  ASSUME NEW d \in DumpNames, NEW i \in Plain, i[1] # "break",
         NEW P \in Nat, NEW Q \in Nat, Q = P + Move(i, d)
  PROVE  <<i, P, Q>> \in Rules(d) /\ (i[1] # "call" => <<i, P, -1 - Q>> \in Rules(d))
<1>1. i[1] \notin {"if", "loop"} /\ i \in Instructions
  BY PlainKinds
<1>2. /\ Height(P) = P /\ Height(Q) = Q /\ Height(-1 - Q) = Q /\ P \in Int /\ Q \in Int
      /\ -1 - Q \in Int /\ ~(P < 0)
  BY DEF Height
<1>3. i[1] = "call" => Move(i, d) = 0
  BY DEF Move
<1> QED BY <1>1, <1>2, <1>3, RulesObey DEF Obeys

LEMMA Movers ==
  ASSUME NEW d \in DumpNames, NEW P \in Nat
  PROVE  /\ On(d, "dump") \in {0, 1} /\ On(d, "dump1") \in {0, 1}
         /\ On(d, "dump2") \in {0, 1} /\ On(d, "dump3") \in {0, 1}
         /\ <<SAVESTACK, P, P + On(d, "dump")>> \in Rules(d)
         /\ <<POP(dump), P + On(d, "dump"), P>> \in Rules(d)
         /\ \A o \in Operands : <<List(dump1, o, dump1), P, P + On(d, "dump1")>> \in Rules(d)
         /\ <<EnterStack, P, P + On(d, "dump1")>> \in Rules(d)
         /\ <<POP(dump1), P + On(d, "dump1"), P>> \in Rules(d)
         /\ <<POP(dump1), P + On(d, "dump1"), -1 - P>> \in Rules(d)
         /\ \A o \in Operands : <<List(dump2, o, dump2), P, P + On(d, "dump2")>> \in Rules(d)
         /\ \A o \in Operands : <<Copy(dump2, o, dump2), P, P + On(d, "dump2")>> \in Rules(d)
         /\ <<POP(dump2), P + On(d, "dump2"), P>> \in Rules(d)
         /\ \A o \in Operands : <<List(dump3, o, dump3), P, P + On(d, "dump3")>> \in Rules(d)
         /\ <<POP(dump3), P + On(d, "dump3"), P>> \in Rules(d)
         /\ \A f \in Statics : <<Call(f), P, P>> \in Rules(d)
         /\ \A t \in Tests : <<Result(t), P, -1 - P>> \in Rules(d)
         /\ <<Break, -1 - P, -1 - P>> \in Rules(d)
<1>1. /\ On(d, "dump") \in {0, 1} /\ On(d, "dump1") \in {0, 1}
      /\ On(d, "dump2") \in {0, 1} /\ On(d, "dump3") \in {0, 1}
  BY DEF On
<1>2. \A o \in Operands, e \in {"dump", "dump1", "dump2", "dump3"} :
        P + On(d, e) \in Nat /\ Move(List(<<e>>, o, <<e>>), d) = On(d, e)
        /\ Move(Copy(<<e>>, o, <<e>>), d) = On(d, e) /\ Move(POP(<<e>>), d) = - On(d, e)
        /\ List(<<e>>, o, <<e>>)[1] = "list" /\ Copy(<<e>>, o, <<e>>)[1] = "copy"
        /\ POP(<<e>>)[1] = "assign"
  BY <1>1 DEF On, Move, List, Copy, POP, Assign
<1>3. \A o \in Operands, e \in {"dump1", "dump2", "dump3"} :
        List(<<e>>, o, <<e>>) \in Plain
  BY Written DEF dump1, dump2, dump3, Reg
<1>4. \A e \in {"dump", "dump1", "dump2", "dump3"} : POP(<<e>>) \in Plain
  BY Written DEF dump, dump1, dump2, dump3, Reg
<1>5. \A o \in Operands, e \in {"dump1", "dump2", "dump3"} :
        <<List(<<e>>, o, <<e>>), P, P + On(d, e)>> \in Rules(d)
  BY <1>2, <1>3, Moving
<1>6. \A e \in {"dump", "dump1", "dump2", "dump3"} :
        <<POP(<<e>>), P + On(d, e), P>> \in Rules(d)
        /\ <<POP(<<e>>), P + On(d, e), -1 - P>> \in Rules(d)
  <2> SUFFICES ASSUME NEW e \in {"dump", "dump1", "dump2", "dump3"}
               PROVE  <<POP(<<e>>), P + On(d, e), P>> \in Rules(d)
                      /\ <<POP(<<e>>), P + On(d, e), -1 - P>> \in Rules(d)
    OBVIOUS
  <2>1. stck \in Operands
    BY OperandsUsed
  <2>2. /\ P + On(d, e) \in Nat /\ Move(POP(<<e>>), d) = - On(d, e)
        /\ POP(<<e>>)[1] = "assign" /\ On(d, e) \in {0, 1}
    <3>1. On(d, e) \in {0, 1}
      BY DEF On
    <3> QED BY <1>2, <2>1, <3>1
  <2>3. P = (P + On(d, e)) + Move(POP(<<e>>), d)
    BY <2>2
  <2>4. POP(<<e>>) \in Plain
    BY <1>4
  <2> QED BY <2>2, <2>3, <2>4, Moving
<1>7. <<SAVESTACK, P, P + On(d, "dump")>> \in Rules(d)
  <2>1. stck \in Operands /\ SAVESTACK \in Plain /\ SAVESTACK = List(<<"dump">>, stck, <<"dump">>)
    BY OperandsUsed, PlainUsed DEF SAVESTACK, dump, Reg
  <2> QED BY <1>2, <2>1, Moving
<1>8. \A o \in Operands : <<Copy(dump2, o, dump2), P, P + On(d, "dump2")>> \in Rules(d)
  <2>1. \A o \in Operands : Copy(<<"dump2">>, o, <<"dump2">>) \in Plain
    BY Written DEF dump2, Reg
  <2>2. \A o \in Operands :
          <<Copy(<<"dump2">>, o, <<"dump2">>), P, P + On(d, "dump2")>> \in Rules(d)
    BY <1>2, <2>1, Moving
  <2> QED BY <2>2 DEF dump2, Reg
<1>9. <<EnterStack, P, P + On(d, "dump1")>> \in Rules(d)
  BY <1>5, OperandsUsed DEF EnterStack, dump1, Reg
<1>10. \A f \in Statics : <<Call(f), P, P>> \in Rules(d)
  <2>1. \A f \in Statics : Call(f) \in Plain /\ Call(f)[1] = "call" /\ Move(Call(f), d) = 0
    BY Written DEF Call, Move
  <2>2. ASSUME NEW f \in Statics PROVE <<Call(f), P, P>> \in Rules(d)
    <3>1. P = P + Move(Call(f), d)
      BY <2>1
    <3> QED BY <2>1, <3>1, Moving
  <2> QED BY <2>2
<1>11. \A t \in Tests : <<Result(t), P, -1 - P>> \in Rules(d)
  <2>1. \A t \in Tests : Result(t) \in Plain /\ Result(t)[1] = "result" /\ Move(Result(t), d) = 0
    BY Written DEF Result, Move
  <2>2. ASSUME NEW t \in Tests PROVE <<Result(t), P, -1 - P>> \in Rules(d)
    <3>1. P = P + Move(Result(t), d)
      BY <2>1
    <3>2. Result(t) \in Plain /\ Result(t)[1] # "break" /\ Result(t)[1] # "call"
      BY <2>1
    <3> QED BY <3>1, <3>2, Moving
  <2> QED BY <2>2
<1>12. <<Break, -1 - P, -1 - P>> \in Rules(d)
  <2>1. Break \in Plain /\ Break[1] = "break" /\ Move(Break, d) = 0
    BY Written DEF Break, Move
  <2>2. Break \in Instructions
    BY <2>1, PlainKinds
  <2>3. -1 - P < 0 /\ -1 - P \in Int /\ Height(-1 - P) \in Int
    BY DEF Height
  <2> QED BY <2>1, <2>2, <2>3, RulesObey DEF Obeys
<1> QED
  BY <1>1, <1>5, <1>6, <1>7, <1>8, <1>9, <1>10, <1>11, <1>12 DEF dump, dump1, dump2, dump3, Reg

(* And those that have parts.                                              *)
LEMMA IfRule ==
  ASSUME NEW d, NEW t, NEW a, NEW b, If(t, a, b) \in Instructions, NEW P \in Int,
         NEW Q \in Int, P < 0 => Q = P, Flow(Rules(d), a, P, Q), Flow(Rules(d), b, P, Q)
  PROVE  <<If(t, a, b), P, Q>> \in Rules(d)
<1>1. If(t, a, b)[1] = "if" /\ If(t, a, b)[3] = a /\ If(t, a, b)[4] = b
  BY DEF If
<1> QED BY <1>1, RulesObey DEF Obeys

LEMMA LoopRule ==
  ASSUME NEW d, NEW t, NEW a, Loop(t, a) \in Instructions, NEW P \in Nat,
         Flow(Rules(d), a, P, P) \/ Flow(Rules(d), a, P, -1 - P)
  PROVE  <<Loop(t, a), P, P>> \in Rules(d)
<1>1. Loop(t, a)[1] = "loop" /\ Loop(t, a)[3] = a
  BY DEF Loop
<1>2. P \in Int /\ -1 - P \in Int /\ Height(P) = P /\ Height(-1 - P) = P
  BY DEF Height
<1>3. Move(Loop(t, a), d) = 0
  BY <1>1 DEF Move
<1> QED BY <1>1, <1>2, <1>3, RulesObey DEF Obeys

LEMMA FlowAppend ==
  ASSUME NEW d, NEW s, NEW i, NEW P, NEW M, NEW Q, Flow(Rules(d), s, P, M),
         <<i, M, Q>> \in Rules(d)
  PROVE  Flow(Rules(d), Append(s, i), P, Q)
<1>1. Flow(Rules(d), s \o <<i>>, P, Q)
  BY Flow1, FlowJoin
<1>2. s \in Seq(Instructions) /\ i \in Instructions
  BY RulesObey DEF Flow, Obeys
<1>3. Append(s, i) = s \o <<i>>
  BY <1>2, AppendIsConcat
<1> QED BY <1>1, <1>3

LEMMA RepeatRules ==
  ASSUME NEW d \in DumpNames, NEW a, NEW P \in Nat,
         Flow(Rules(d), a, P, P) \/ Flow(Rules(d), a, P, -1 - P)
  PROVE  /\ \A l : POP(l) \in Steady /\ Each(l, a) \in Instructions
                   => <<Each(l, a), P, P>> \in Rules(d)
         /\ Times(a) \in Instructions => <<Times(a), P, P>> \in Rules(d)
<1>1. P \in Int /\ -1 - P \in Int
  OBVIOUS
<1>2. ASSUME NEW i \in Steady
      PROVE  Flow(Rules(d), Append(a, i), P, P) \/ Flow(Rules(d), Append(a, i), P, -1 - P)
  BY <1>1, Steadfast, FlowAppend
<1>3. Count(-1) \in Steady
  BY PlainUsed, SteadyWritten
<1> QED BY <1>2, <1>3, LoopRule DEF Each, Times

-----------------------------------------------------------------------------
(* What a builtin puts on a dump it removes: each leaves a dump as long as  *)
(* it found it, h being the number of nodes of its own that lay there.     *)

LEMMA SteadyUsed ==
  /\ PARAMS(1, 0) \in Steady /\ POP(stck) \in Steady /\ GNULLARY(stck) \in Steady
  /\ PARAMS(2, 0) \in Steady /\ GBINARY(SAVED(1)) \in Steady
  /\ GNULLARY(SAVED(2)) \in Steady /\ PARAMS(3, 0) \in Steady
  /\ GTERNARY(SAVED(2)) \in Steady /\ GNULLARY(SAVED(1)) \in Steady
  /\ GNULLARY(SAVED(3)) \in Steady /\ List(stck, stck, stck) \in Steady
  /\ PARAMS(1, 1) \in Steady /\ Assign(stck, lis(stck)) \in Steady
  /\ BADAGGREGATE(stck) \in Steady /\ CHECKEMPTYLIST(lis(stck)) \in Steady
  /\ GUNARY(lis(stck)) \in Steady /\ List(stck, next(lis(stck), 1), S(1)) \in Steady
  /\ CHECKEMPTYLIST(Quote(1)) \in Steady /\ GUNARY(Quote(1)) \in Steady
  /\ List(stck, next(Quote(1), 1), stck) \in Steady
  /\ Require(Is(stck, Numeric \cup Lists)) \in Steady /\ Number("null", S(1)) \in Steady
  /\ Require(Is(stck, Numeric)) \in Steady /\ Number("pred", S(1)) \in Steady
  /\ Require(Is(stck, {"INTEGER"})) \in Steady /\ Require(Is(S(1), {"INTEGER"})) \in Steady
  /\ Number("+", S(2)) \in Steady /\ <<"cons">> \in Steady /\ PARAMS(3, 2) \in Steady
  /\ Assign(stck, SAVED(4)) \in Steady /\ Exec(Quote(2)) \in Steady
  /\ Exec(Quote(1)) \in Steady /\ GTERNARY(S(1)) \in Steady /\ GTERNARY(stck) \in Steady
  /\ Require(Clauses(lis(stck))) \in Steady /\ Reset \in Steady
  /\ Assign(stck, SAVED(2)) \in Steady /\ Exec(lis(lis(DMP1))) \in Steady
  /\ Result(True(stck)) \in Steady /\ POP(DMP1) \in Steady
  /\ Exec(next(lis(DMP1), 1)) \in Steady /\ Exec(lis(DMP1)) \in Steady
  /\ PARAMS(3, 3) \in Steady /\ Exec(Quote(3)) \in Steady /\ Exec(lis(stck)) \in Steady
  /\ CHECKVALUE \in Steady /\ Copy(stck, stck, SAVED(2)) \in Steady
  /\ PARAMS(2, 1) \in Steady /\ Copy(stck, stck, SAVED(3)) \in Steady
  /\ PARAMS(3, 1) \in Steady /\ Copy(stck, stck, SAVED(4)) \in Steady
  /\ PARAMS(4, 1) \in Steady /\ Copy(stck, stck, SAVED(5)) \in Steady
  /\ Assign(stck, S(2)) \in Steady /\ Require(Is(S(1), Lists)) \in Steady
  /\ Assign(stck, Quote(2)) \in Steady /\ List(stck, stck, SAVED(3)) \in Steady
  /\ BADAGGREGATE(SAVED(2)) \in Steady /\ GNULLARY(DMP1) \in Steady
  /\ SetCount(SAVED(2)) \in Steady /\ Count(-1) \in Steady /\ Count(1) \in Steady
  /\ Copy(stck, DMP1, SAVED(3)) \in Steady /\ CHECKSTACK \in Steady
  /\ Number("local", SAVED(3)) \in Steady /\ Count(0) \in Steady /\ PARAMS(4, 4) \in Steady
  /\ Assign(stck, SAVED(5)) \in Steady /\ Exec(lis(Quote(1))) \in Steady
  /\ Exec(lis(next(Quote(1), 1))) \in Steady /\ Exec(lis(next(Quote(1), 2))) \in Steady
  /\ List(stck, Quote(1), stck) \in Steady /\ Function("genrecaux") \in Steady
  /\ Exec(next(Quote(1), 3)) \in Steady /\ Assign(stck, S(3)) \in Steady
  /\ Require(Is(SAVED(3), {"INTEGER"})) \in Steady /\ SetCount(SAVED(3)) \in Steady
  /\ Number("i", stck) \in Steady /\ Assign(stck, DMP1) \in Steady
  /\ PARAMS(4, 3) \in Steady /\ Function("treegenrecaux") \in Steady
  /\ Exec(next(lis(lis(stck)), 2)) \in Steady /\ Function("treerecaux") \in Steady
  /\ Exec(next(lis(lis(stck)), 1)) \in Steady /\ Assign(stck, SAVED(3)) \in Steady
  /\ Exec(Quote(4)) \in Steady /\ GNULLARY(dump2) \in Steady
  /\ Assign(stck, DMP2) \in Steady /\ Exec(lis(DMP3)) \in Steady /\ POP(DMP3) \in Steady
<1>1. /\ PARAMS(1, 0) \in Steady /\ POP(stck) \in Steady /\ GNULLARY(stck) \in Steady
      /\ PARAMS(2, 0) \in Steady /\ GBINARY(SAVED(1)) \in Steady
      /\ GNULLARY(SAVED(2)) \in Steady /\ PARAMS(3, 0) \in Steady
      /\ GTERNARY(SAVED(2)) \in Steady /\ GNULLARY(SAVED(1)) \in Steady
      /\ GNULLARY(SAVED(3)) \in Steady /\ List(stck, stck, stck) \in Steady
      /\ PARAMS(1, 1) \in Steady
  BY PlainUsed, SteadyWritten
<1>2. /\ Assign(stck, lis(stck)) \in Steady /\ BADAGGREGATE(stck) \in Steady
      /\ CHECKEMPTYLIST(lis(stck)) \in Steady /\ GUNARY(lis(stck)) \in Steady
      /\ List(stck, next(lis(stck), 1), S(1)) \in Steady
      /\ CHECKEMPTYLIST(Quote(1)) \in Steady /\ GUNARY(Quote(1)) \in Steady
      /\ List(stck, next(Quote(1), 1), stck) \in Steady
      /\ Require(Is(stck, Numeric \cup Lists)) \in Steady /\ Number("null", S(1)) \in Steady
      /\ Require(Is(stck, Numeric)) \in Steady /\ Number("pred", S(1)) \in Steady
  BY PlainUsed, SteadyWritten
<1>3. /\ Require(Is(stck, {"INTEGER"})) \in Steady
      /\ Require(Is(S(1), {"INTEGER"})) \in Steady /\ Number("+", S(2)) \in Steady
      /\ <<"cons">> \in Steady /\ PARAMS(3, 2) \in Steady
      /\ Assign(stck, SAVED(4)) \in Steady /\ Exec(Quote(2)) \in Steady
      /\ Exec(Quote(1)) \in Steady /\ GTERNARY(S(1)) \in Steady /\ GTERNARY(stck) \in Steady
      /\ Require(Clauses(lis(stck))) \in Steady /\ Reset \in Steady
  BY PlainUsed, SteadyWritten
<1>4. /\ Assign(stck, SAVED(2)) \in Steady /\ Exec(lis(lis(DMP1))) \in Steady
      /\ Result(True(stck)) \in Steady /\ POP(DMP1) \in Steady
      /\ Exec(next(lis(DMP1), 1)) \in Steady /\ Exec(lis(DMP1)) \in Steady
      /\ PARAMS(3, 3) \in Steady /\ Exec(Quote(3)) \in Steady /\ Exec(lis(stck)) \in Steady
      /\ CHECKVALUE \in Steady /\ Copy(stck, stck, SAVED(2)) \in Steady
      /\ PARAMS(2, 1) \in Steady
  BY PlainUsed, SteadyWritten
<1>5. /\ Copy(stck, stck, SAVED(3)) \in Steady /\ PARAMS(3, 1) \in Steady
      /\ Copy(stck, stck, SAVED(4)) \in Steady /\ PARAMS(4, 1) \in Steady
      /\ Copy(stck, stck, SAVED(5)) \in Steady /\ Assign(stck, S(2)) \in Steady
      /\ Require(Is(S(1), Lists)) \in Steady /\ Assign(stck, Quote(2)) \in Steady
      /\ List(stck, stck, SAVED(3)) \in Steady /\ BADAGGREGATE(SAVED(2)) \in Steady
      /\ GNULLARY(DMP1) \in Steady /\ SetCount(SAVED(2)) \in Steady
  BY PlainUsed, SteadyWritten
<1>6. /\ Count(-1) \in Steady /\ Count(1) \in Steady
      /\ Copy(stck, DMP1, SAVED(3)) \in Steady /\ CHECKSTACK \in Steady
      /\ Number("local", SAVED(3)) \in Steady /\ Count(0) \in Steady
      /\ PARAMS(4, 4) \in Steady /\ Assign(stck, SAVED(5)) \in Steady
      /\ Exec(lis(Quote(1))) \in Steady /\ Exec(lis(next(Quote(1), 1))) \in Steady
      /\ Exec(lis(next(Quote(1), 2))) \in Steady /\ List(stck, Quote(1), stck) \in Steady
  BY PlainUsed, SteadyWritten
<1>7. /\ Function("genrecaux") \in Steady /\ Exec(next(Quote(1), 3)) \in Steady
      /\ Assign(stck, S(3)) \in Steady /\ Require(Is(SAVED(3), {"INTEGER"})) \in Steady
      /\ SetCount(SAVED(3)) \in Steady /\ Number("i", stck) \in Steady
      /\ Assign(stck, DMP1) \in Steady /\ PARAMS(4, 3) \in Steady
      /\ Function("treegenrecaux") \in Steady /\ Exec(next(lis(lis(stck)), 2)) \in Steady
      /\ Function("treerecaux") \in Steady /\ Exec(next(lis(lis(stck)), 1)) \in Steady
  BY PlainUsed, SteadyWritten
<1>8. /\ Assign(stck, SAVED(3)) \in Steady /\ Exec(Quote(4)) \in Steady
      /\ GNULLARY(dump2) \in Steady /\ Assign(stck, DMP2) \in Steady
      /\ Exec(lis(DMP3)) \in Steady /\ POP(DMP3) \in Steady
  BY PlainUsed, SteadyWritten
<1> QED BY <1>1, <1>2, <1>3, <1>4, <1>5, <1>6, <1>7, <1>8

LEMMA PopFlow ==
  ASSUME NEW d \in DumpNames, NEW h \in Nat
  PROVE  Flow(Rules(d), pop_, h, h)
<1>1. h \in Nat /\ h \in Int
  OBVIOUS
<1>2. /\ <<PARAMS(1, 0), h, h>> \in Rules(d)
      /\ <<POP(stck), h, h>> \in Rules(d)
  BY <1>1, SteadyUsed, Steadfast
<1> QED BY <1>2, Flow2 DEF pop_

LEMMA DupFlow ==
  ASSUME NEW d \in DumpNames, NEW h \in Nat
  PROVE  Flow(Rules(d), dup_, h, h)
<1>1. h \in Nat /\ h \in Int
  OBVIOUS
<1>2. /\ <<PARAMS(1, 0), h, h>> \in Rules(d)
      /\ <<GNULLARY(stck), h, h>> \in Rules(d)
  BY <1>1, SteadyUsed, Steadfast
<1> QED BY <1>2, Flow2 DEF dup_

LEMMA SwapFlow ==
  ASSUME NEW d \in DumpNames, NEW h \in Nat
  PROVE  Flow(Rules(d), swap_, h, h)
<1> DEFINE h1 == h + On(d, "dump")
<1>1. /\ h \in Nat /\ h \in Int /\ h1 \in Nat /\ h1 \in Int
  BY DEF On
<1>2. /\ <<PARAMS(2, 0), h, h>> \in Rules(d)
      /\ <<GBINARY(SAVED(1)), h1, h1>> \in Rules(d)
      /\ <<GNULLARY(SAVED(2)), h1, h1>> \in Rules(d)
  BY <1>1, SteadyUsed, Steadfast
<1>3. /\ <<SAVESTACK, h, h1>> \in Rules(d)
      /\ <<POP(dump), h1, h>> \in Rules(d)
  BY <1>1, Movers, OperandsUsed, TestsUsed
<1> QED BY <1>2, <1>3, Flow5 DEF swap_

LEMMA RolldownFlow ==
  ASSUME NEW d \in DumpNames, NEW h \in Nat
  PROVE  Flow(Rules(d), rolldown_, h, h)
<1> DEFINE h1 == h + On(d, "dump")
<1>1. /\ h \in Nat /\ h \in Int /\ h1 \in Nat /\ h1 \in Int
  BY DEF On
<1>2. /\ <<PARAMS(3, 0), h, h>> \in Rules(d)
      /\ <<GTERNARY(SAVED(2)), h1, h1>> \in Rules(d)
      /\ <<GNULLARY(SAVED(1)), h1, h1>> \in Rules(d)
      /\ <<GNULLARY(SAVED(3)), h1, h1>> \in Rules(d)
  BY <1>1, SteadyUsed, Steadfast
<1>3. /\ <<SAVESTACK, h, h1>> \in Rules(d)
      /\ <<POP(dump), h1, h>> \in Rules(d)
  BY <1>1, Movers, OperandsUsed, TestsUsed
<1> QED BY <1>2, <1>3, Flow6 DEF rolldown_

LEMMA StackFlow ==
  ASSUME NEW d \in DumpNames, NEW h \in Nat
  PROVE  Flow(Rules(d), stack_, h, h)
<1>1. h \in Nat /\ h \in Int
  OBVIOUS
<1>2. <<List(stck, stck, stck), h, h>> \in Rules(d)
  BY <1>1, SteadyUsed, Steadfast
<1> QED BY <1>2, Flow1 DEF stack_

LEMMA UnstackFlow ==
  ASSUME NEW d \in DumpNames, NEW h \in Nat
  PROVE  Flow(Rules(d), unstack_, h, h)
<1>1. h \in Nat /\ h \in Int
  OBVIOUS
<1>2. /\ <<PARAMS(1, 1), h, h>> \in Rules(d)
      /\ <<Assign(stck, lis(stck)), h, h>> \in Rules(d)
  BY <1>1, SteadyUsed, Steadfast
<1> QED BY <1>2, Flow2 DEF unstack_

LEMMA DippedPopFlow ==
  ASSUME NEW d \in DumpNames, NEW h \in Nat
  PROVE  Flow(Rules(d), DIPPED(2, pop_), h, h)
<1> DEFINE h1 == h + On(d, "dump")
<1>1. /\ h \in Nat /\ h \in Int /\ h1 \in Nat /\ h1 \in Int
  BY DEF On
<1>2. Flow(Rules(d), <<PARAMS(2, 0), SAVESTACK, POP(stck)>>, h, h1)
  <2>1. /\ <<PARAMS(2, 0), h, h>> \in Rules(d)
        /\ <<POP(stck), h1, h1>> \in Rules(d)
    BY <1>1, SteadyUsed, Steadfast
  <2>2. <<SAVESTACK, h, h1>> \in Rules(d)
    BY <1>1, Movers, OperandsUsed, TestsUsed
  <2> QED BY <2>1, <2>2, Flow3
<1>3. Flow(Rules(d), pop_, h1, h1)
  BY <1>1, PopFlow
<1>4. Flow(Rules(d), <<PARAMS(2, 0), SAVESTACK, POP(stck)>> \o pop_, h, h1)
  BY <1>2, <1>3, FlowJoin
<1>5. Flow(Rules(d), <<GNULLARY(SAVED(1)), POP(dump)>>, h1, h)
  <2>1. <<GNULLARY(SAVED(1)), h1, h1>> \in Rules(d)
    BY <1>1, SteadyUsed, Steadfast
  <2>2. <<POP(dump), h1, h>> \in Rules(d)
    BY <1>1, Movers, OperandsUsed, TestsUsed
  <2> QED BY <2>1, <2>2, Flow2
<1> QED BY <1>4, <1>5, FlowJoin DEF DIPPED

LEMMA PopdFlow ==
  ASSUME NEW d \in DumpNames, NEW h \in Nat
  PROVE  Flow(Rules(d), popd_, h, h)
BY DippedPopFlow DEF popd_

LEMMA DippedSwapFlow ==
  ASSUME NEW d \in DumpNames, NEW h \in Nat
  PROVE  Flow(Rules(d), DIPPED(3, swap_), h, h)
<1> DEFINE h1 == h + On(d, "dump")
<1>1. /\ h \in Nat /\ h \in Int /\ h1 \in Nat /\ h1 \in Int
  BY DEF On
<1>2. Flow(Rules(d), <<PARAMS(3, 0), SAVESTACK, POP(stck)>>, h, h1)
  <2>1. /\ <<PARAMS(3, 0), h, h>> \in Rules(d)
        /\ <<POP(stck), h1, h1>> \in Rules(d)
    BY <1>1, SteadyUsed, Steadfast
  <2>2. <<SAVESTACK, h, h1>> \in Rules(d)
    BY <1>1, Movers, OperandsUsed, TestsUsed
  <2> QED BY <2>1, <2>2, Flow3
<1>3. Flow(Rules(d), swap_, h1, h1)
  BY <1>1, SwapFlow
<1>4. Flow(Rules(d), <<PARAMS(3, 0), SAVESTACK, POP(stck)>> \o swap_, h, h1)
  BY <1>2, <1>3, FlowJoin
<1>5. Flow(Rules(d), <<GNULLARY(SAVED(1)), POP(dump)>>, h1, h)
  <2>1. <<GNULLARY(SAVED(1)), h1, h1>> \in Rules(d)
    BY <1>1, SteadyUsed, Steadfast
  <2>2. <<POP(dump), h1, h>> \in Rules(d)
    BY <1>1, Movers, OperandsUsed, TestsUsed
  <2> QED BY <2>1, <2>2, Flow2
<1> QED BY <1>4, <1>5, FlowJoin DEF DIPPED

LEMMA SwapdFlow ==
  ASSUME NEW d \in DumpNames, NEW h \in Nat
  PROVE  Flow(Rules(d), swapd_, h, h)
BY DippedSwapFlow DEF swapd_

LEMMA FirstFlow ==
  ASSUME NEW d \in DumpNames, NEW h \in Nat
  PROVE  Flow(Rules(d), first_, h, h)
<1>1. h \in Nat /\ h \in Int
  OBVIOUS
<1>2. /\ <<PARAMS(1, 0), h, h>> \in Rules(d)
      /\ <<BADAGGREGATE(stck), h, h>> \in Rules(d)
      /\ <<CHECKEMPTYLIST(lis(stck)), h, h>> \in Rules(d)
      /\ <<GUNARY(lis(stck)), h, h>> \in Rules(d)
  BY <1>1, SteadyUsed, Steadfast
<1> QED BY <1>2, Flow4 DEF first_

LEMMA RestFlow ==
  ASSUME NEW d \in DumpNames, NEW h \in Nat
  PROVE  Flow(Rules(d), rest_, h, h)
<1>1. h \in Nat /\ h \in Int
  OBVIOUS
<1>2. /\ <<PARAMS(1, 0), h, h>> \in Rules(d)
      /\ <<BADAGGREGATE(stck), h, h>> \in Rules(d)
      /\ <<CHECKEMPTYLIST(lis(stck)), h, h>> \in Rules(d)
      /\ <<List(stck, next(lis(stck), 1), S(1)), h, h>> \in Rules(d)
  BY <1>1, SteadyUsed, Steadfast
<1> QED BY <1>2, Flow4 DEF rest_

LEMMA UnconsFlow ==
  ASSUME NEW d \in DumpNames, NEW h \in Nat
  PROVE  Flow(Rules(d), uncons_, h, h)
<1> DEFINE h1 == h + On(d, "dump")
<1>1. /\ h \in Nat /\ h \in Int /\ h1 \in Nat /\ h1 \in Int
  BY DEF On
<1>2. /\ <<PARAMS(1, 0), h, h>> \in Rules(d)
      /\ <<BADAGGREGATE(stck), h, h>> \in Rules(d)
      /\ <<CHECKEMPTYLIST(Quote(1)), h1, h1>> \in Rules(d)
      /\ <<GUNARY(Quote(1)), h1, h1>> \in Rules(d)
      /\ <<List(stck, next(Quote(1), 1), stck), h1, h1>> \in Rules(d)
  BY <1>1, SteadyUsed, Steadfast
<1>3. /\ <<SAVESTACK, h, h1>> \in Rules(d)
      /\ <<POP(dump), h1, h>> \in Rules(d)
  BY <1>1, Movers, OperandsUsed, TestsUsed
<1> QED BY <1>2, <1>3, Flow7 DEF uncons_

LEMMA NullFlow ==
  ASSUME NEW d \in DumpNames, NEW h \in Nat
  PROVE  Flow(Rules(d), null_, h, h)
<1>1. h \in Nat /\ h \in Int
  OBVIOUS
<1>2. /\ <<PARAMS(1, 0), h, h>> \in Rules(d)
      /\ <<Require(Is(stck, Numeric \cup Lists)), h, h>> \in Rules(d)
      /\ <<Number("null", S(1)), h, h>> \in Rules(d)
  BY <1>1, SteadyUsed, Steadfast
<1> QED BY <1>2, Flow3 DEF null_

LEMMA PredFlow ==
  ASSUME NEW d \in DumpNames, NEW h \in Nat
  PROVE  Flow(Rules(d), pred_, h, h)
<1>1. h \in Nat /\ h \in Int
  OBVIOUS
<1>2. /\ <<PARAMS(1, 0), h, h>> \in Rules(d)
      /\ <<Require(Is(stck, Numeric)), h, h>> \in Rules(d)
      /\ <<Number("pred", S(1)), h, h>> \in Rules(d)
  BY <1>1, SteadyUsed, Steadfast
<1> QED BY <1>2, Flow3 DEF pred_

LEMMA PlusFlow ==
  ASSUME NEW d \in DumpNames, NEW h \in Nat
  PROVE  Flow(Rules(d), plus_, h, h)
<1>1. h \in Nat /\ h \in Int
  OBVIOUS
<1>2. /\ <<PARAMS(2, 0), h, h>> \in Rules(d)
      /\ <<Require(Is(stck, {"INTEGER"})), h, h>> \in Rules(d)
      /\ <<Require(Is(S(1), {"INTEGER"})), h, h>> \in Rules(d)
      /\ <<Number("+", S(2)), h, h>> \in Rules(d)
  BY <1>1, SteadyUsed, Steadfast
<1> QED BY <1>2, Flow4 DEF plus_

LEMMA ConsFlow ==
  ASSUME NEW d \in DumpNames, NEW h \in Nat
  PROVE  Flow(Rules(d), cons_, h, h)
<1>1. h \in Nat /\ h \in Int
  OBVIOUS
<1>2. /\ <<PARAMS(2, 0), h, h>> \in Rules(d)
      /\ <<BADAGGREGATE(stck), h, h>> \in Rules(d)
      /\ <<<<"cons">>, h, h>> \in Rules(d)
  BY <1>1, SteadyUsed, Steadfast
<1> QED BY <1>2, Flow3 DEF cons_

LEMMA BranchFlow ==
  ASSUME NEW d \in DumpNames, NEW h \in Nat
  PROVE  Flow(Rules(d), branch_, h, h)
<1> DEFINE h1 == h + On(d, "dump")
<1>1. /\ h \in Nat /\ h \in Int /\ h1 \in Nat /\ h1 \in Int
  BY DEF On
<1>2. /\ <<PARAMS(3, 2), h, h>> \in Rules(d)
      /\ <<Assign(stck, SAVED(4)), h1, h1>> \in Rules(d)
  BY <1>1, SteadyUsed, Steadfast
<1>3. /\ <<SAVESTACK, h, h1>> \in Rules(d)
      /\ <<POP(dump), h1, h>> \in Rules(d)
  BY <1>1, Movers, OperandsUsed, TestsUsed
<1>4. <<If(True(SAVED(3)), <<Exec(Quote(2))>>, <<Exec(Quote(1))>>), h1, h1>> \in Rules(d)
  <2>1. If(True(SAVED(3)), <<Exec(Quote(2))>>, <<Exec(Quote(1))>>) \in Instructions
    BY InnerUsed, TopUsed, Layers
  <2>2. Flow(Rules(d), <<Exec(Quote(2))>>, h1, h1)
    <3>1. <<Exec(Quote(2)), h1, h1>> \in Rules(d)
      BY <1>1, SteadyUsed, Steadfast
    <3> QED BY <3>1, Flow1
  <2>3. Flow(Rules(d), <<Exec(Quote(1))>>, h1, h1)
    <3>1. <<Exec(Quote(1)), h1, h1>> \in Rules(d)
      BY <1>1, SteadyUsed, Steadfast
    <3> QED BY <3>1, Flow1
  <2> QED BY <1>1, <2>1, <2>2, <2>3, IfRule
<1> QED BY <1>2, <1>3, <1>4, Flow5 DEF branch_

LEMMA ChoiceFlow ==
  ASSUME NEW d \in DumpNames, NEW h \in Nat
  PROVE  Flow(Rules(d), choice_, h, h)
<1>1. h \in Nat /\ h \in Int
  OBVIOUS
<1>2. <<PARAMS(3, 0), h, h>> \in Rules(d)
  BY <1>1, SteadyUsed, Steadfast
<1>3. <<If(True(S(2)), <<GTERNARY(S(1))>>, <<GTERNARY(stck)>>), h, h>> \in Rules(d)
  <2>1. If(True(S(2)), <<GTERNARY(S(1))>>, <<GTERNARY(stck)>>) \in Instructions
    BY InnerUsed, TopUsed, Layers
  <2>2. Flow(Rules(d), <<GTERNARY(S(1))>>, h, h)
    <3>1. <<GTERNARY(S(1)), h, h>> \in Rules(d)
      BY <1>1, SteadyUsed, Steadfast
    <3> QED BY <3>1, Flow1
  <2>3. Flow(Rules(d), <<GTERNARY(stck)>>, h, h)
    <3>1. <<GTERNARY(stck), h, h>> \in Rules(d)
      BY <1>1, SteadyUsed, Steadfast
    <3> QED BY <3>1, Flow1
  <2> QED BY <1>1, <2>1, <2>2, <2>3, IfRule
<1> QED BY <1>2, <1>3, Flow2 DEF choice_

LEMMA CondFlow ==
  ASSUME NEW d \in DumpNames, NEW h \in Nat
  PROVE  Flow(Rules(d), cond_, h, h)
<1> DEFINE h1 == h + On(d, "dump")
           h2 == h1 + On(d, "dump1")
           b2 == -1 - h2
<1>1. /\ h \in Nat /\ h \in Int /\ h1 \in Nat /\ h1 \in Int /\ h2 \in Nat /\ h2 \in Int
      /\ b2 \in Int
  BY DEF On
<1>2. /\ <<PARAMS(1, 1), h, h>> \in Rules(d)
      /\ <<CHECKEMPTYLIST(lis(stck)), h, h>> \in Rules(d)
      /\ <<Require(Clauses(lis(stck))), h, h>> \in Rules(d)
      /\ <<Reset, h1, h1>> \in Rules(d)
      /\ <<Assign(stck, SAVED(2)), h2, h2>> \in Rules(d)
  BY <1>1, SteadyUsed, Steadfast
<1>3. /\ <<SAVESTACK, h, h1>> \in Rules(d)
      /\ <<List(dump1, lis(stck), dump1), h1, h2>> \in Rules(d)
      /\ <<POP(dump1), h2, h1>> \in Rules(d)
      /\ <<POP(dump), h1, h>> \in Rules(d)
  BY <1>1, Movers, OperandsUsed, TestsUsed
<1>4. <<Loop(Node(next(DMP1, 1)), <<Assign(stck, SAVED(2)), Exec(lis(lis(DMP1))),
        Result(True(stck)), If(RESULT, <<Break>>, <<>>), POP(DMP1)>>), h2, h2>> \in Rules(d)
  <2>1. Loop(Node(next(DMP1, 1)), <<Assign(stck, SAVED(2)), Exec(lis(lis(DMP1))),
          Result(True(stck)), If(RESULT, <<Break>>, <<>>), POP(DMP1)>>) \in Instructions
    BY InnerUsed, TopUsed, Layers
  <2>2. Flow(Rules(d), <<Assign(stck, SAVED(2)), Exec(lis(lis(DMP1))), Result(True(stck)),
          If(RESULT, <<Break>>, <<>>), POP(DMP1)>>, h2, b2)
    <3>1. /\ <<Assign(stck, SAVED(2)), h2, h2>> \in Rules(d)
          /\ <<Exec(lis(lis(DMP1))), h2, h2>> \in Rules(d)
          /\ <<POP(DMP1), b2, b2>> \in Rules(d)
      BY <1>1, SteadyUsed, Steadfast
    <3>2. <<Result(True(stck)), h2, b2>> \in Rules(d)
      BY <1>1, Movers, OperandsUsed, TestsUsed
    <3>3. <<If(RESULT, <<Break>>, <<>>), b2, b2>> \in Rules(d)
      <4>1. If(RESULT, <<Break>>, <<>>) \in Instructions
        BY InnerUsed, TopUsed, Layers
      <4>2. Flow(Rules(d), <<Break>>, b2, b2)
        <5>1. <<Break, b2, b2>> \in Rules(d)
          BY <1>1, Movers, OperandsUsed, TestsUsed
        <5> QED BY <5>1, Flow1
      <4>3. Flow(Rules(d), <<>>, b2, b2)
        BY <1>1, Flow0
      <4> QED BY <1>1, <4>1, <4>2, <4>3, IfRule
    <3> QED BY <3>1, <3>2, <3>3, Flow5
  <2> QED BY <1>1, <2>1, <2>2, LoopRule
<1>5. <<If(RESULT, <<Exec(next(lis(DMP1), 1))>>, <<Exec(lis(DMP1))>>), h2, h2>> \in Rules(d)
  <2>1. If(RESULT, <<Exec(next(lis(DMP1), 1))>>, <<Exec(lis(DMP1))>>) \in Instructions
    BY InnerUsed, TopUsed, Layers
  <2>2. Flow(Rules(d), <<Exec(next(lis(DMP1), 1))>>, h2, h2)
    <3>1. <<Exec(next(lis(DMP1), 1)), h2, h2>> \in Rules(d)
      BY <1>1, SteadyUsed, Steadfast
    <3> QED BY <3>1, Flow1
  <2>3. Flow(Rules(d), <<Exec(lis(DMP1))>>, h2, h2)
    <3>1. <<Exec(lis(DMP1)), h2, h2>> \in Rules(d)
      BY <1>1, SteadyUsed, Steadfast
    <3> QED BY <3>1, Flow1
  <2> QED BY <1>1, <2>1, <2>2, <2>3, IfRule
<1> QED BY <1>2, <1>3, <1>4, <1>5, Flow11 DEF cond_

LEMMA IFlow ==
  ASSUME NEW d \in DumpNames, NEW h \in Nat
  PROVE  Flow(Rules(d), i_, h, h)
<1> DEFINE h1 == h + On(d, "dump")
<1>1. /\ h \in Nat /\ h \in Int /\ h1 \in Nat /\ h1 \in Int
  BY DEF On
<1>2. /\ <<PARAMS(1, 1), h, h>> \in Rules(d)
      /\ <<POP(stck), h1, h1>> \in Rules(d)
      /\ <<Exec(Quote(1)), h1, h1>> \in Rules(d)
  BY <1>1, SteadyUsed, Steadfast
<1>3. /\ <<SAVESTACK, h, h1>> \in Rules(d)
      /\ <<POP(dump), h1, h>> \in Rules(d)
  BY <1>1, Movers, OperandsUsed, TestsUsed
<1> QED BY <1>2, <1>3, Flow5 DEF i_

LEMMA IfteFlow ==
  ASSUME NEW d \in DumpNames, NEW h \in Nat
  PROVE  Flow(Rules(d), ifte_, h, h)
<1> DEFINE h1 == h + On(d, "dump")
<1>1. /\ h \in Nat /\ h \in Int /\ h1 \in Nat /\ h1 \in Int
  BY DEF On
<1>2. /\ <<PARAMS(3, 3), h, h>> \in Rules(d)
      /\ <<Assign(stck, SAVED(4)), h1, h1>> \in Rules(d)
      /\ <<Exec(Quote(3)), h1, h1>> \in Rules(d)
      /\ <<Result(True(stck)), h1, h1>> \in Rules(d)
  BY <1>1, SteadyUsed, Steadfast
<1>3. /\ <<SAVESTACK, h, h1>> \in Rules(d)
      /\ <<POP(dump), h1, h>> \in Rules(d)
  BY <1>1, Movers, OperandsUsed, TestsUsed
<1>4. <<If(RESULT, <<Exec(Quote(2))>>, <<Exec(Quote(1))>>), h1, h1>> \in Rules(d)
  <2>1. If(RESULT, <<Exec(Quote(2))>>, <<Exec(Quote(1))>>) \in Instructions
    BY InnerUsed, TopUsed, Layers
  <2>2. Flow(Rules(d), <<Exec(Quote(2))>>, h1, h1)
    <3>1. <<Exec(Quote(2)), h1, h1>> \in Rules(d)
      BY <1>1, SteadyUsed, Steadfast
    <3> QED BY <3>1, Flow1
  <2>3. Flow(Rules(d), <<Exec(Quote(1))>>, h1, h1)
    <3>1. <<Exec(Quote(1)), h1, h1>> \in Rules(d)
      BY <1>1, SteadyUsed, Steadfast
    <3> QED BY <3>1, Flow1
  <2> QED BY <1>1, <2>1, <2>2, <2>3, IfRule
<1> QED BY <1>2, <1>3, <1>4, Flow8 DEF ifte_

LEMMA XFlow ==
  ASSUME NEW d \in DumpNames, NEW h \in Nat
  PROVE  Flow(Rules(d), x_, h, h)
<1>1. h \in Nat /\ h \in Int
  OBVIOUS
<1>2. /\ <<PARAMS(1, 1), h, h>> \in Rules(d)
      /\ <<Exec(lis(stck)), h, h>> \in Rules(d)
  BY <1>1, SteadyUsed, Steadfast
<1> QED BY <1>2, Flow2 DEF x_

LEMMA NAry1Flow ==
  ASSUME NEW d \in DumpNames, NEW h \in Nat
  PROVE  Flow(Rules(d), N_ARY(1, SAVED(2)), h, h)
<1> DEFINE h1 == h + On(d, "dump")
<1>1. /\ h \in Nat /\ h \in Int /\ h1 \in Nat /\ h1 \in Int
  BY DEF On
<1>2. /\ <<PARAMS(1, 1), h, h>> \in Rules(d)
      /\ <<POP(stck), h1, h1>> \in Rules(d)
      /\ <<Exec(Quote(1)), h1, h1>> \in Rules(d)
      /\ <<CHECKVALUE, h1, h1>> \in Rules(d)
      /\ <<Copy(stck, stck, SAVED(2)), h1, h1>> \in Rules(d)
  BY <1>1, SteadyUsed, Steadfast
<1>3. /\ <<SAVESTACK, h, h1>> \in Rules(d)
      /\ <<POP(dump), h1, h>> \in Rules(d)
  BY <1>1, Movers, OperandsUsed, TestsUsed
<1> QED BY <1>2, <1>3, Flow7 DEF N_ARY

LEMMA NullaryFlow ==
  ASSUME NEW d \in DumpNames, NEW h \in Nat
  PROVE  Flow(Rules(d), nullary_, h, h)
BY NAry1Flow DEF nullary_

LEMMA NAry2Flow ==
  ASSUME NEW d \in DumpNames, NEW h \in Nat
  PROVE  Flow(Rules(d), N_ARY(2, SAVED(3)), h, h)
<1> DEFINE h1 == h + On(d, "dump")
<1>1. /\ h \in Nat /\ h \in Int /\ h1 \in Nat /\ h1 \in Int
  BY DEF On
<1>2. /\ <<PARAMS(2, 1), h, h>> \in Rules(d)
      /\ <<POP(stck), h1, h1>> \in Rules(d)
      /\ <<Exec(Quote(1)), h1, h1>> \in Rules(d)
      /\ <<CHECKVALUE, h1, h1>> \in Rules(d)
      /\ <<Copy(stck, stck, SAVED(3)), h1, h1>> \in Rules(d)
  BY <1>1, SteadyUsed, Steadfast
<1>3. /\ <<SAVESTACK, h, h1>> \in Rules(d)
      /\ <<POP(dump), h1, h>> \in Rules(d)
  BY <1>1, Movers, OperandsUsed, TestsUsed
<1> QED BY <1>2, <1>3, Flow7 DEF N_ARY

LEMMA UnaryFlow ==
  ASSUME NEW d \in DumpNames, NEW h \in Nat
  PROVE  Flow(Rules(d), unary_, h, h)
BY NAry2Flow DEF unary_

LEMMA NAry3Flow ==
  ASSUME NEW d \in DumpNames, NEW h \in Nat
  PROVE  Flow(Rules(d), N_ARY(3, SAVED(4)), h, h)
<1> DEFINE h1 == h + On(d, "dump")
<1>1. /\ h \in Nat /\ h \in Int /\ h1 \in Nat /\ h1 \in Int
  BY DEF On
<1>2. /\ <<PARAMS(3, 1), h, h>> \in Rules(d)
      /\ <<POP(stck), h1, h1>> \in Rules(d)
      /\ <<Exec(Quote(1)), h1, h1>> \in Rules(d)
      /\ <<CHECKVALUE, h1, h1>> \in Rules(d)
      /\ <<Copy(stck, stck, SAVED(4)), h1, h1>> \in Rules(d)
  BY <1>1, SteadyUsed, Steadfast
<1>3. /\ <<SAVESTACK, h, h1>> \in Rules(d)
      /\ <<POP(dump), h1, h>> \in Rules(d)
  BY <1>1, Movers, OperandsUsed, TestsUsed
<1> QED BY <1>2, <1>3, Flow7 DEF N_ARY

LEMMA BinaryFlow ==
  ASSUME NEW d \in DumpNames, NEW h \in Nat
  PROVE  Flow(Rules(d), binary_, h, h)
BY NAry3Flow DEF binary_

LEMMA NAry4Flow ==
  ASSUME NEW d \in DumpNames, NEW h \in Nat
  PROVE  Flow(Rules(d), N_ARY(4, SAVED(5)), h, h)
<1> DEFINE h1 == h + On(d, "dump")
<1>1. /\ h \in Nat /\ h \in Int /\ h1 \in Nat /\ h1 \in Int
  BY DEF On
<1>2. /\ <<PARAMS(4, 1), h, h>> \in Rules(d)
      /\ <<POP(stck), h1, h1>> \in Rules(d)
      /\ <<Exec(Quote(1)), h1, h1>> \in Rules(d)
      /\ <<CHECKVALUE, h1, h1>> \in Rules(d)
      /\ <<Copy(stck, stck, SAVED(5)), h1, h1>> \in Rules(d)
  BY <1>1, SteadyUsed, Steadfast
<1>3. /\ <<SAVESTACK, h, h1>> \in Rules(d)
      /\ <<POP(dump), h1, h>> \in Rules(d)
  BY <1>1, Movers, OperandsUsed, TestsUsed
<1> QED BY <1>2, <1>3, Flow7 DEF N_ARY

LEMMA TernaryFlow ==
  ASSUME NEW d \in DumpNames, NEW h \in Nat
  PROVE  Flow(Rules(d), ternary_, h, h)
BY NAry4Flow DEF ternary_

LEMMA App1Flow ==
  ASSUME NEW d \in DumpNames, NEW h \in Nat
  PROVE  Flow(Rules(d), app1_, h, h)
<1> DEFINE h1 == h + On(d, "dump")
<1>1. /\ h \in Nat /\ h \in Int /\ h1 \in Nat /\ h1 \in Int
  BY DEF On
<1>2. /\ <<PARAMS(2, 1), h, h>> \in Rules(d)
      /\ <<POP(stck), h1, h1>> \in Rules(d)
      /\ <<Exec(Quote(1)), h1, h1>> \in Rules(d)
  BY <1>1, SteadyUsed, Steadfast
<1>3. /\ <<SAVESTACK, h, h1>> \in Rules(d)
      /\ <<POP(dump), h1, h>> \in Rules(d)
  BY <1>1, Movers, OperandsUsed, TestsUsed
<1> QED BY <1>2, <1>3, Flow5 DEF app1_

LEMMA App11Flow ==
  ASSUME NEW d \in DumpNames, NEW h \in Nat
  PROVE  Flow(Rules(d), app11_, h, h)
<1>1. h \in Nat /\ h \in Int
  OBVIOUS
<1>2. Flow(Rules(d), <<PARAMS(3, 1)>>, h, h)
  <2>1. <<PARAMS(3, 1), h, h>> \in Rules(d)
    BY <1>1, SteadyUsed, Steadfast
  <2> QED BY <2>1, Flow1
<1>3. Flow(Rules(d), i_, h, h)
  BY <1>1, IFlow
<1>4. Flow(Rules(d), <<PARAMS(3, 1)>> \o i_, h, h)
  BY <1>2, <1>3, FlowJoin
<1>5. Flow(Rules(d), popd_, h, h)
  BY <1>1, PopdFlow
<1> QED BY <1>4, <1>5, FlowJoin DEF app11_

LEMMA DipFlow ==
  ASSUME NEW d \in DumpNames, NEW h \in Nat
  PROVE  Flow(Rules(d), dip_, h, h)
<1> DEFINE h1 == h + On(d, "dump")
<1>1. /\ h \in Nat /\ h \in Int /\ h1 \in Nat /\ h1 \in Int
  BY DEF On
<1>2. /\ <<PARAMS(2, 1), h, h>> \in Rules(d)
      /\ <<Assign(stck, S(2)), h1, h1>> \in Rules(d)
      /\ <<Exec(Quote(1)), h1, h1>> \in Rules(d)
      /\ <<GNULLARY(SAVED(2)), h1, h1>> \in Rules(d)
  BY <1>1, SteadyUsed, Steadfast
<1>3. /\ <<SAVESTACK, h, h1>> \in Rules(d)
      /\ <<POP(dump), h1, h>> \in Rules(d)
  BY <1>1, Movers, OperandsUsed, TestsUsed
<1> QED BY <1>2, <1>3, Flow6 DEF dip_

LEMMA InfraFlow ==
  ASSUME NEW d \in DumpNames, NEW h \in Nat
  PROVE  Flow(Rules(d), infra_, h, h)
<1> DEFINE h1 == h + On(d, "dump")
<1>1. /\ h \in Nat /\ h \in Int /\ h1 \in Nat /\ h1 \in Int
  BY DEF On
<1>2. /\ <<PARAMS(2, 1), h, h>> \in Rules(d)
      /\ <<Require(Is(S(1), Lists)), h, h>> \in Rules(d)
      /\ <<Assign(stck, Quote(2)), h1, h1>> \in Rules(d)
      /\ <<Exec(Quote(1)), h1, h1>> \in Rules(d)
      /\ <<List(stck, stck, SAVED(3)), h1, h1>> \in Rules(d)
  BY <1>1, SteadyUsed, Steadfast
<1>3. /\ <<SAVESTACK, h, h1>> \in Rules(d)
      /\ <<POP(dump), h1, h>> \in Rules(d)
  BY <1>1, Movers, OperandsUsed, TestsUsed
<1> QED BY <1>2, <1>3, Flow7 DEF infra_

LEMMA StepFlow ==
  ASSUME NEW d \in DumpNames, NEW h \in Nat
  PROVE  Flow(Rules(d), step_, h, h)
<1> DEFINE h1 == h + On(d, "dump")
           h2 == h1 + On(d, "dump1")
<1>1. /\ h \in Nat /\ h \in Int /\ h1 \in Nat /\ h1 \in Int /\ h2 \in Nat /\ h2 \in Int
  BY DEF On
<1>2. /\ <<PARAMS(2, 1), h, h>> \in Rules(d)
      /\ <<Assign(stck, S(2)), h1, h1>> \in Rules(d)
      /\ <<BADAGGREGATE(SAVED(2)), h1, h1>> \in Rules(d)
  BY <1>1, SteadyUsed, Steadfast
<1>3. /\ <<SAVESTACK, h, h1>> \in Rules(d)
      /\ <<List(dump1, Quote(2), dump1), h1, h2>> \in Rules(d)
      /\ <<POP(dump1), h2, h1>> \in Rules(d)
      /\ <<POP(dump), h1, h>> \in Rules(d)
  BY <1>1, Movers, OperandsUsed, TestsUsed
<1>4. <<Each(DMP1, <<GNULLARY(DMP1), Exec(Quote(1))>>), h2, h2>> \in Rules(d)
  <2>1. Each(DMP1, <<GNULLARY(DMP1), Exec(Quote(1))>>) \in Instructions
    BY InnerUsed, TopUsed, Layers
  <2>2. Flow(Rules(d), <<GNULLARY(DMP1), Exec(Quote(1))>>, h2, h2)
    <3>1. /\ <<GNULLARY(DMP1), h2, h2>> \in Rules(d)
          /\ <<Exec(Quote(1)), h2, h2>> \in Rules(d)
      BY <1>1, SteadyUsed, Steadfast
    <3> QED BY <3>1, Flow2
  <2> QED BY <1>1, <2>1, <2>2, RepeatRules, SteadyUsed
<1> QED BY <1>2, <1>3, <1>4, Flow8 DEF step_

LEMMA FoldFlow ==
  ASSUME NEW d \in DumpNames, NEW h \in Nat
  PROVE  Flow(Rules(d), fold_, h, h)
<1>1. h \in Nat /\ h \in Int
  OBVIOUS
<1>2. Flow(Rules(d), <<PARAMS(3, 0)>>, h, h)
  <2>1. <<PARAMS(3, 0), h, h>> \in Rules(d)
    BY <1>1, SteadyUsed, Steadfast
  <2> QED BY <2>1, Flow1
<1>3. Flow(Rules(d), swapd_, h, h)
  BY <1>1, SwapdFlow
<1>4. Flow(Rules(d), <<PARAMS(3, 0)>> \o swapd_, h, h)
  BY <1>2, <1>3, FlowJoin
<1>5. Flow(Rules(d), step_, h, h)
  BY <1>1, StepFlow
<1> QED BY <1>4, <1>5, FlowJoin DEF fold_

LEMMA TimesFlow ==
  ASSUME NEW d \in DumpNames, NEW h \in Nat
  PROVE  Flow(Rules(d), times_, h, h)
<1> DEFINE h1 == h + On(d, "dump")
<1>1. /\ h \in Nat /\ h \in Int /\ h1 \in Nat /\ h1 \in Int
  BY DEF On
<1>2. /\ <<PARAMS(2, 1), h, h>> \in Rules(d)
      /\ <<Require(Is(S(1), {"INTEGER"})), h, h>> \in Rules(d)
      /\ <<Assign(stck, S(2)), h1, h1>> \in Rules(d)
      /\ <<SetCount(SAVED(2)), h1, h1>> \in Rules(d)
  BY <1>1, SteadyUsed, Steadfast
<1>3. /\ <<SAVESTACK, h, h1>> \in Rules(d)
      /\ <<POP(dump), h1, h>> \in Rules(d)
  BY <1>1, Movers, OperandsUsed, TestsUsed
<1>4. <<Times(<<Exec(Quote(1))>>), h1, h1>> \in Rules(d)
  <2>1. Times(<<Exec(Quote(1))>>) \in Instructions
    BY InnerUsed, TopUsed, Layers
  <2>2. Flow(Rules(d), <<Exec(Quote(1))>>, h1, h1)
    <3>1. <<Exec(Quote(1)), h1, h1>> \in Rules(d)
      BY <1>1, SteadyUsed, Steadfast
    <3> QED BY <3>1, Flow1
  <2> QED BY <1>1, <2>1, <2>2, RepeatRules, SteadyUsed
<1> QED BY <1>2, <1>3, <1>4, Flow7 DEF times_

LEMMA SomeAllAllFlow ==
  ASSUME NEW d \in DumpNames, NEW h \in Nat
  PROVE  Flow(Rules(d), SOMEALL(1, <<>>, <<Break>>), h, h)
<1> DEFINE h1 == h + On(d, "dump")
           h2 == h1 + On(d, "dump1")
           b2 == -1 - h2
<1>1. /\ h \in Nat /\ h \in Int /\ h1 \in Nat /\ h1 \in Int /\ h2 \in Nat /\ h2 \in Int
      /\ b2 \in Int
  BY DEF On
<1>2. /\ <<PARAMS(2, 1), h, h>> \in Rules(d)
      /\ <<BADAGGREGATE(SAVED(2)), h1, h1>> \in Rules(d)
      /\ <<Reset, h1, h1>> \in Rules(d)
      /\ <<Count(1), h1, h1>> \in Rules(d)
      /\ <<Number("local", SAVED(3)), h1, h1>> \in Rules(d)
  BY <1>1, SteadyUsed, Steadfast
<1>3. /\ <<SAVESTACK, h, h1>> \in Rules(d)
      /\ <<List(dump1, Quote(2), dump1), h1, h2>> \in Rules(d)
      /\ <<POP(dump1), h2, h1>> \in Rules(d)
      /\ <<POP(dump), h1, h>> \in Rules(d)
  BY <1>1, Movers, OperandsUsed, TestsUsed
<1>4. <<Each(DMP1, <<Copy(stck, DMP1, SAVED(3)), Exec(Quote(1)), CHECKSTACK,
        Result(True(stck)), If(RESULT, <<>>, <<Break>>)>>), h2, h2>> \in Rules(d)
  <2>1. Each(DMP1, <<Copy(stck, DMP1, SAVED(3)), Exec(Quote(1)), CHECKSTACK,
          Result(True(stck)), If(RESULT, <<>>, <<Break>>)>>) \in Instructions
    BY InnerUsed, TopUsed, Layers
  <2>2. Flow(Rules(d), <<Copy(stck, DMP1, SAVED(3)), Exec(Quote(1)), CHECKSTACK,
          Result(True(stck)), If(RESULT, <<>>, <<Break>>)>>, h2, b2)
    <3>1. /\ <<Copy(stck, DMP1, SAVED(3)), h2, h2>> \in Rules(d)
          /\ <<Exec(Quote(1)), h2, h2>> \in Rules(d)
          /\ <<CHECKSTACK, h2, h2>> \in Rules(d)
      BY <1>1, SteadyUsed, Steadfast
    <3>2. <<Result(True(stck)), h2, b2>> \in Rules(d)
      BY <1>1, Movers, OperandsUsed, TestsUsed
    <3>3. <<If(RESULT, <<>>, <<Break>>), b2, b2>> \in Rules(d)
      <4>1. If(RESULT, <<>>, <<Break>>) \in Instructions
        BY InnerUsed, TopUsed, Layers
      <4>2. Flow(Rules(d), <<>>, b2, b2)
        BY <1>1, Flow0
      <4>3. Flow(Rules(d), <<Break>>, b2, b2)
        <5>1. <<Break, b2, b2>> \in Rules(d)
          BY <1>1, Movers, OperandsUsed, TestsUsed
        <5> QED BY <5>1, Flow1
      <4> QED BY <1>1, <4>1, <4>2, <4>3, IfRule
    <3> QED BY <3>1, <3>2, <3>3, Flow5
  <2> QED BY <1>1, <2>1, <2>2, RepeatRules, SteadyUsed
<1> QED BY <1>2, <1>3, <1>4, Flow10 DEF SOMEALL

LEMMA AllFlow ==
  ASSUME NEW d \in DumpNames, NEW h \in Nat
  PROVE  Flow(Rules(d), all_, h, h)
BY SomeAllAllFlow DEF all_

LEMMA SomeAllSomeFlow ==
  ASSUME NEW d \in DumpNames, NEW h \in Nat
  PROVE  Flow(Rules(d), SOMEALL(0, <<Break>>, <<>>), h, h)
<1> DEFINE h1 == h + On(d, "dump")
           h2 == h1 + On(d, "dump1")
           b2 == -1 - h2
<1>1. /\ h \in Nat /\ h \in Int /\ h1 \in Nat /\ h1 \in Int /\ h2 \in Nat /\ h2 \in Int
      /\ b2 \in Int
  BY DEF On
<1>2. /\ <<PARAMS(2, 1), h, h>> \in Rules(d)
      /\ <<BADAGGREGATE(SAVED(2)), h1, h1>> \in Rules(d)
      /\ <<Reset, h1, h1>> \in Rules(d)
      /\ <<Count(0), h1, h1>> \in Rules(d)
      /\ <<Number("local", SAVED(3)), h1, h1>> \in Rules(d)
  BY <1>1, SteadyUsed, Steadfast
<1>3. /\ <<SAVESTACK, h, h1>> \in Rules(d)
      /\ <<List(dump1, Quote(2), dump1), h1, h2>> \in Rules(d)
      /\ <<POP(dump1), h2, h1>> \in Rules(d)
      /\ <<POP(dump), h1, h>> \in Rules(d)
  BY <1>1, Movers, OperandsUsed, TestsUsed
<1>4. <<Each(DMP1, <<Copy(stck, DMP1, SAVED(3)), Exec(Quote(1)), CHECKSTACK,
        Result(True(stck)), If(RESULT, <<Break>>, <<>>)>>), h2, h2>> \in Rules(d)
  <2>1. Each(DMP1, <<Copy(stck, DMP1, SAVED(3)), Exec(Quote(1)), CHECKSTACK,
          Result(True(stck)), If(RESULT, <<Break>>, <<>>)>>) \in Instructions
    BY InnerUsed, TopUsed, Layers
  <2>2. Flow(Rules(d), <<Copy(stck, DMP1, SAVED(3)), Exec(Quote(1)), CHECKSTACK,
          Result(True(stck)), If(RESULT, <<Break>>, <<>>)>>, h2, b2)
    <3>1. /\ <<Copy(stck, DMP1, SAVED(3)), h2, h2>> \in Rules(d)
          /\ <<Exec(Quote(1)), h2, h2>> \in Rules(d)
          /\ <<CHECKSTACK, h2, h2>> \in Rules(d)
      BY <1>1, SteadyUsed, Steadfast
    <3>2. <<Result(True(stck)), h2, b2>> \in Rules(d)
      BY <1>1, Movers, OperandsUsed, TestsUsed
    <3>3. <<If(RESULT, <<Break>>, <<>>), b2, b2>> \in Rules(d)
      <4>1. If(RESULT, <<Break>>, <<>>) \in Instructions
        BY InnerUsed, TopUsed, Layers
      <4>2. Flow(Rules(d), <<Break>>, b2, b2)
        <5>1. <<Break, b2, b2>> \in Rules(d)
          BY <1>1, Movers, OperandsUsed, TestsUsed
        <5> QED BY <5>1, Flow1
      <4>3. Flow(Rules(d), <<>>, b2, b2)
        BY <1>1, Flow0
      <4> QED BY <1>1, <4>1, <4>2, <4>3, IfRule
    <3> QED BY <3>1, <3>2, <3>3, Flow5
  <2> QED BY <1>1, <2>1, <2>2, RepeatRules, SteadyUsed
<1> QED BY <1>2, <1>3, <1>4, Flow10 DEF SOMEALL

LEMMA SomeFlow ==
  ASSUME NEW d \in DumpNames, NEW h \in Nat
  PROVE  Flow(Rules(d), some_, h, h)
BY SomeAllSomeFlow DEF some_

LEMMA BinrecFlow ==
  ASSUME NEW d \in DumpNames, NEW h \in Nat
  PROVE  Flow(Rules(d), binrec_, h, h)
<1> DEFINE h1 == h + On(d, "dump")
<1>1. /\ h \in Nat /\ h \in Int /\ h1 \in Nat /\ h1 \in Int
  BY DEF On
<1>2. /\ <<PARAMS(4, 4), h, h>> \in Rules(d)
      /\ <<Assign(stck, SAVED(5)), h1, h1>> \in Rules(d)
  BY <1>1, SteadyUsed, Steadfast
<1>3. /\ <<SAVESTACK, h, h1>> \in Rules(d)
      /\ <<Call("binrecaux"), h1, h1>> \in Rules(d)
      /\ <<POP(dump), h1, h>> \in Rules(d)
  BY <1>1, Movers, OperandsUsed, TestsUsed DEF Statics
<1> QED BY <1>2, <1>3, Flow5 DEF binrec_

LEMMA CondnestrecFlow ==
  ASSUME NEW d \in DumpNames, NEW h \in Nat
  PROVE  Flow(Rules(d), condnestrec_, h, h)
<1> DEFINE h1 == h + On(d, "dump")
<1>1. /\ h \in Nat /\ h \in Int /\ h1 \in Nat /\ h1 \in Int
  BY DEF On
<1>2. /\ <<PARAMS(1, 1), h, h>> \in Rules(d)
      /\ <<CHECKEMPTYLIST(lis(stck)), h, h>> \in Rules(d)
      /\ <<Assign(stck, SAVED(2)), h1, h1>> \in Rules(d)
  BY <1>1, SteadyUsed, Steadfast
<1>3. /\ <<SAVESTACK, h, h1>> \in Rules(d)
      /\ <<Call("condnestrecaux"), h1, h1>> \in Rules(d)
      /\ <<POP(dump), h1, h>> \in Rules(d)
  BY <1>1, Movers, OperandsUsed, TestsUsed DEF Statics
<1> QED BY <1>2, <1>3, Flow6 DEF condnestrec_

LEMMA CondlinrecFlow ==
  ASSUME NEW d \in DumpNames, NEW h \in Nat
  PROVE  Flow(Rules(d), condlinrec_, h, h)
BY CondnestrecFlow DEF condlinrec_

LEMMA GenrecauxFlow ==
  ASSUME NEW d \in DumpNames, NEW h \in Nat
  PROVE  Flow(Rules(d), genrecaux_, h, h)
<1> DEFINE h1 == h + On(d, "dump")
<1>1. /\ h \in Nat /\ h \in Int /\ h1 \in Nat /\ h1 \in Int
  BY DEF On
<1>2. /\ <<POP(stck), h1, h1>> \in Rules(d)
      /\ <<Exec(lis(Quote(1))), h1, h1>> \in Rules(d)
      /\ <<CHECKSTACK, h1, h1>> \in Rules(d)
      /\ <<Result(True(stck)), h1, h1>> \in Rules(d)
      /\ <<Assign(stck, SAVED(2)), h1, h1>> \in Rules(d)
  BY <1>1, SteadyUsed, Steadfast
<1>3. /\ <<SAVESTACK, h, h1>> \in Rules(d)
      /\ <<POP(dump), h1, h>> \in Rules(d)
  BY <1>1, Movers, OperandsUsed, TestsUsed
<1>4. <<If(RESULT, <<Exec(lis(next(Quote(1), 1)))>>, <<Exec(lis(next(Quote(1), 2))),
        List(stck, Quote(1), stck), Function("genrecaux")>> \o cons_ \o
        <<Exec(next(Quote(1), 3))>>), h1, h1>> \in Rules(d)
  <2>1. If(RESULT, <<Exec(lis(next(Quote(1), 1)))>>, <<Exec(lis(next(Quote(1), 2))),
          List(stck, Quote(1), stck), Function("genrecaux")>> \o cons_ \o
          <<Exec(next(Quote(1), 3))>>) \in Instructions
    BY InnerUsed, TopUsed, Layers
  <2>2. Flow(Rules(d), <<Exec(lis(next(Quote(1), 1)))>>, h1, h1)
    <3>1. <<Exec(lis(next(Quote(1), 1))), h1, h1>> \in Rules(d)
      BY <1>1, SteadyUsed, Steadfast
    <3> QED BY <3>1, Flow1
  <2>3. Flow(Rules(d), <<Exec(lis(next(Quote(1), 2))), List(stck, Quote(1), stck),
          Function("genrecaux")>> \o cons_ \o <<Exec(next(Quote(1), 3))>>, h1, h1)
    <3>1. Flow(Rules(d), <<Exec(lis(next(Quote(1), 2))), List(stck, Quote(1), stck),
            Function("genrecaux")>>, h1, h1)
      <4>1. /\ <<Exec(lis(next(Quote(1), 2))), h1, h1>> \in Rules(d)
            /\ <<List(stck, Quote(1), stck), h1, h1>> \in Rules(d)
            /\ <<Function("genrecaux"), h1, h1>> \in Rules(d)
        BY <1>1, SteadyUsed, Steadfast
      <4> QED BY <4>1, Flow3
    <3>2. Flow(Rules(d), cons_, h1, h1)
      BY <1>1, ConsFlow
    <3>3. Flow(Rules(d), <<Exec(lis(next(Quote(1), 2))), List(stck, Quote(1), stck),
            Function("genrecaux")>> \o cons_, h1, h1)
      BY <3>1, <3>2, FlowJoin
    <3>4. Flow(Rules(d), <<Exec(next(Quote(1), 3))>>, h1, h1)
      <4>1. <<Exec(next(Quote(1), 3)), h1, h1>> \in Rules(d)
        BY <1>1, SteadyUsed, Steadfast
      <4> QED BY <4>1, Flow1
    <3> QED BY <3>3, <3>4, FlowJoin
  <2> QED BY <1>1, <2>1, <2>2, <2>3, IfRule
<1> QED BY <1>2, <1>3, <1>4, Flow8 DEF genrecaux_

LEMMA GenrecFlow ==
  ASSUME NEW d \in DumpNames, NEW h \in Nat
  PROVE  Flow(Rules(d), genrec_, h, h)
<1>1. h \in Nat /\ h \in Int
  OBVIOUS
<1>2. Flow(Rules(d), <<PARAMS(4, 4)>>, h, h)
  <2>1. <<PARAMS(4, 4), h, h>> \in Rules(d)
    BY <1>1, SteadyUsed, Steadfast
  <2> QED BY <2>1, Flow1
<1>3. Flow(Rules(d), cons_, h, h)
  BY <1>1, ConsFlow
<1>4. Flow(Rules(d), <<PARAMS(4, 4)>> \o cons_, h, h)
  BY <1>2, <1>3, FlowJoin
<1>5. Flow(Rules(d), cons_, h, h)
  BY <1>1, ConsFlow
<1>6. Flow(Rules(d), <<PARAMS(4, 4)>> \o cons_ \o cons_, h, h)
  BY <1>4, <1>5, FlowJoin
<1>7. Flow(Rules(d), cons_, h, h)
  BY <1>1, ConsFlow
<1>8. Flow(Rules(d), <<PARAMS(4, 4)>> \o cons_ \o cons_ \o cons_, h, h)
  BY <1>6, <1>7, FlowJoin
<1>9. Flow(Rules(d), genrecaux_, h, h)
  BY <1>1, GenrecauxFlow
<1> QED BY <1>8, <1>9, FlowJoin DEF genrec_

LEMMA LinrecFlow ==
  ASSUME NEW d \in DumpNames, NEW h \in Nat
  PROVE  Flow(Rules(d), linrec_, h, h)
<1> DEFINE h1 == h + On(d, "dump")
<1>1. /\ h \in Nat /\ h \in Int /\ h1 \in Nat /\ h1 \in Int
  BY DEF On
<1>2. /\ <<PARAMS(4, 4), h, h>> \in Rules(d)
      /\ <<Assign(stck, SAVED(5)), h1, h1>> \in Rules(d)
  BY <1>1, SteadyUsed, Steadfast
<1>3. /\ <<SAVESTACK, h, h1>> \in Rules(d)
      /\ <<Call("linrecaux"), h1, h1>> \in Rules(d)
      /\ <<POP(dump), h1, h>> \in Rules(d)
  BY <1>1, Movers, OperandsUsed, TestsUsed DEF Statics
<1> QED BY <1>2, <1>3, Flow5 DEF linrec_

LEMMA PrimrecFlow ==
  ASSUME NEW d \in DumpNames, NEW h \in Nat
  PROVE  Flow(Rules(d), primrec_, h, h)
<1> DEFINE h1 == h + On(d, "dump")
           h2 == h1 + On(d, "dump1")
<1>1. /\ h \in Nat /\ h \in Int /\ h1 \in Nat /\ h1 \in Int /\ h2 \in Nat /\ h2 \in Int
  BY DEF On
<1>2. /\ <<PARAMS(3, 2), h, h>> \in Rules(d)
      /\ <<Assign(stck, S(3)), h1, h1>> \in Rules(d)
      /\ <<Reset, h1, h1>> \in Rules(d)
      /\ <<Exec(Quote(2)), h1, h1>> \in Rules(d)
  BY <1>1, SteadyUsed, Steadfast
<1>3. /\ <<SAVESTACK, h, h1>> \in Rules(d)
      /\ <<POP(dump), h1, h>> \in Rules(d)
  BY <1>1, Movers, OperandsUsed, TestsUsed
<1>4. <<If(Is(SAVED(3), Lists), <<List(dump1, Quote(3), dump1), Each(DMP1,
        <<GNULLARY(DMP1), Count(1)>>), POP(dump1)>>, <<Require(Is(SAVED(3), {"INTEGER"})),
        SetCount(SAVED(3)), Loop(RESULT, <<Number("i", stck), Count(-1)>>),
        SetCount(SAVED(3))>>), h1, h1>> \in Rules(d)
  <2>1. If(Is(SAVED(3), Lists), <<List(dump1, Quote(3), dump1), Each(DMP1,
          <<GNULLARY(DMP1), Count(1)>>), POP(dump1)>>, <<Require(Is(SAVED(3), {"INTEGER"})),
          SetCount(SAVED(3)), Loop(RESULT, <<Number("i", stck), Count(-1)>>),
          SetCount(SAVED(3))>>) \in Instructions
    BY InnerUsed, TopUsed, Layers
  <2>2. Flow(Rules(d), <<List(dump1, Quote(3), dump1), Each(DMP1, <<GNULLARY(DMP1),
          Count(1)>>), POP(dump1)>>, h1, h1)
    <3>1. /\ <<List(dump1, Quote(3), dump1), h1, h2>> \in Rules(d)
          /\ <<POP(dump1), h2, h1>> \in Rules(d)
      BY <1>1, Movers, OperandsUsed, TestsUsed
    <3>2. <<Each(DMP1, <<GNULLARY(DMP1), Count(1)>>), h2, h2>> \in Rules(d)
      <4>1. Each(DMP1, <<GNULLARY(DMP1), Count(1)>>) \in Instructions
        BY InnerUsed, TopUsed, Layers
      <4>2. Flow(Rules(d), <<GNULLARY(DMP1), Count(1)>>, h2, h2)
        <5>1. /\ <<GNULLARY(DMP1), h2, h2>> \in Rules(d)
              /\ <<Count(1), h2, h2>> \in Rules(d)
          BY <1>1, SteadyUsed, Steadfast
        <5> QED BY <5>1, Flow2
      <4> QED BY <1>1, <4>1, <4>2, RepeatRules, SteadyUsed
    <3> QED BY <3>1, <3>2, Flow3
  <2>3. Flow(Rules(d), <<Require(Is(SAVED(3), {"INTEGER"})), SetCount(SAVED(3)),
          Loop(RESULT, <<Number("i", stck), Count(-1)>>), SetCount(SAVED(3))>>, h1, h1)
    <3>1. /\ <<Require(Is(SAVED(3), {"INTEGER"})), h1, h1>> \in Rules(d)
          /\ <<SetCount(SAVED(3)), h1, h1>> \in Rules(d)
      BY <1>1, SteadyUsed, Steadfast
    <3>2. <<Loop(RESULT, <<Number("i", stck), Count(-1)>>), h1, h1>> \in Rules(d)
      <4>1. Loop(RESULT, <<Number("i", stck), Count(-1)>>) \in Instructions
        BY InnerUsed, TopUsed, Layers
      <4>2. Flow(Rules(d), <<Number("i", stck), Count(-1)>>, h1, h1)
        <5>1. /\ <<Number("i", stck), h1, h1>> \in Rules(d)
              /\ <<Count(-1), h1, h1>> \in Rules(d)
          BY <1>1, SteadyUsed, Steadfast
        <5> QED BY <5>1, Flow2
      <4> QED BY <1>1, <4>1, <4>2, LoopRule
    <3> QED BY <3>1, <3>2, Flow4
  <2> QED BY <1>1, <2>1, <2>2, <2>3, IfRule
<1>5. <<Times(<<Exec(Quote(1))>>), h1, h1>> \in Rules(d)
  <2>1. Times(<<Exec(Quote(1))>>) \in Instructions
    BY InnerUsed, TopUsed, Layers
  <2>2. Flow(Rules(d), <<Exec(Quote(1))>>, h1, h1)
    <3>1. <<Exec(Quote(1)), h1, h1>> \in Rules(d)
      BY <1>1, SteadyUsed, Steadfast
    <3> QED BY <3>1, Flow1
  <2> QED BY <1>1, <2>1, <2>2, RepeatRules, SteadyUsed
<1> QED BY <1>2, <1>3, <1>4, <1>5, Flow8 DEF primrec_

LEMMA LeaveStackFlow ==
  ASSUME NEW d \in DumpNames, NEW h \in Nat
  PROVE  /\ Flow(Rules(d), LeaveStack, h + On(d, "dump1"), h)
         /\ Flow(Rules(d), LeaveStack, h + On(d, "dump1"), -1 - h)
<1>1. h + On(d, "dump1") \in Nat /\ h + On(d, "dump1") \in Int
  BY DEF On
<1>2. /\ <<Result(True(stck)), h + On(d, "dump1"), h + On(d, "dump1")>> \in Rules(d)
      /\ <<Assign(stck, DMP1), h + On(d, "dump1"), h + On(d, "dump1")>> \in Rules(d)
  BY <1>1, SteadyUsed, Steadfast
<1>3. /\ <<POP(dump1), h + On(d, "dump1"), h>> \in Rules(d)
      /\ <<POP(dump1), h + On(d, "dump1"), -1 - h>> \in Rules(d)
  BY Movers
<1> QED BY <1>2, <1>3, Flow3 DEF LeaveStack

LEMMA TailrecauxFlow ==
  ASSUME NEW d \in DumpNames, NEW h \in Nat
  PROVE  Flow(Rules(d), tailrecaux, h, h)
<1> DEFINE h1 == h + On(d, "dump1")
           b == -1 - h
<1>1. /\ h \in Nat /\ h \in Int /\ h1 \in Nat /\ h1 \in Int /\ b \in Int
  BY DEF On
<1>2. <<Loop(Forever, <<EnterStack, Exec(Quote(3)), CHECKSTACK>> \o LeaveStack \o
        <<If(RESULT, <<Exec(Quote(2)), Break>>, <<Exec(Quote(1))>>)>>), h, h>> \in Rules(d)
  <2>1. Loop(Forever, <<EnterStack, Exec(Quote(3)), CHECKSTACK>> \o LeaveStack \o
          <<If(RESULT, <<Exec(Quote(2)), Break>>, <<Exec(Quote(1))>>)>>) \in Instructions
    BY InnerUsed, TopUsed, Layers
  <2>2. Flow(Rules(d), <<EnterStack, Exec(Quote(3)), CHECKSTACK>> \o LeaveStack \o
          <<If(RESULT, <<Exec(Quote(2)), Break>>, <<Exec(Quote(1))>>)>>, h, b)
    <3>1. Flow(Rules(d), <<EnterStack, Exec(Quote(3)), CHECKSTACK>>, h, h1)
      <4>1. /\ <<Exec(Quote(3)), h1, h1>> \in Rules(d)
            /\ <<CHECKSTACK, h1, h1>> \in Rules(d)
        BY <1>1, SteadyUsed, Steadfast
      <4>2. <<EnterStack, h, h1>> \in Rules(d)
        BY <1>1, Movers, OperandsUsed, TestsUsed
      <4> QED BY <4>1, <4>2, Flow3
    <3>2. Flow(Rules(d), LeaveStack, h1, b)
      BY <1>1, LeaveStackFlow
    <3>3. Flow(Rules(d), <<EnterStack, Exec(Quote(3)), CHECKSTACK>> \o LeaveStack, h, b)
      BY <3>1, <3>2, FlowJoin
    <3>4. Flow(Rules(d), <<If(RESULT, <<Exec(Quote(2)), Break>>, <<Exec(Quote(1))>>)>>, b,
            b)
      <4>1. <<If(RESULT, <<Exec(Quote(2)), Break>>, <<Exec(Quote(1))>>), b, b>> \in Rules(d)
        <5>1. If(RESULT, <<Exec(Quote(2)), Break>>, <<Exec(Quote(1))>>) \in Instructions
          BY InnerUsed, TopUsed, Layers
        <5>2. Flow(Rules(d), <<Exec(Quote(2)), Break>>, b, b)
          <6>1. <<Exec(Quote(2)), b, b>> \in Rules(d)
            BY <1>1, SteadyUsed, Steadfast
          <6>2. <<Break, b, b>> \in Rules(d)
            BY <1>1, Movers, OperandsUsed, TestsUsed
          <6> QED BY <6>1, <6>2, Flow2
        <5>3. Flow(Rules(d), <<Exec(Quote(1))>>, b, b)
          <6>1. <<Exec(Quote(1)), b, b>> \in Rules(d)
            BY <1>1, SteadyUsed, Steadfast
          <6> QED BY <6>1, Flow1
        <5> QED BY <1>1, <5>1, <5>2, <5>3, IfRule
      <4> QED BY <4>1, Flow1
    <3> QED BY <3>3, <3>4, FlowJoin
  <2> QED BY <1>1, <2>1, <2>2, LoopRule
<1> QED BY <1>2, Flow1 DEF tailrecaux

LEMMA TailrecFlow ==
  ASSUME NEW d \in DumpNames, NEW h \in Nat
  PROVE  Flow(Rules(d), tailrec_, h, h)
<1> DEFINE h1 == h + On(d, "dump")
<1>1. /\ h \in Nat /\ h \in Int /\ h1 \in Nat /\ h1 \in Int
  BY DEF On
<1>2. Flow(Rules(d), <<PARAMS(3, 3), SAVESTACK, Assign(stck, SAVED(4))>>, h, h1)
  <2>1. /\ <<PARAMS(3, 3), h, h>> \in Rules(d)
        /\ <<Assign(stck, SAVED(4)), h1, h1>> \in Rules(d)
    BY <1>1, SteadyUsed, Steadfast
  <2>2. <<SAVESTACK, h, h1>> \in Rules(d)
    BY <1>1, Movers, OperandsUsed, TestsUsed
  <2> QED BY <2>1, <2>2, Flow3
<1>3. Flow(Rules(d), tailrecaux, h1, h1)
  BY <1>1, TailrecauxFlow
<1>4. Flow(Rules(d), <<PARAMS(3, 3), SAVESTACK, Assign(stck, SAVED(4))>> \o tailrecaux, h,
        h1)
  BY <1>2, <1>3, FlowJoin
<1>5. Flow(Rules(d), <<POP(dump)>>, h1, h)
  <2>1. <<POP(dump), h1, h>> \in Rules(d)
    BY <1>1, Movers, OperandsUsed, TestsUsed
  <2> QED BY <2>1, Flow1
<1> QED BY <1>4, <1>5, FlowJoin DEF tailrec_

LEMMA TreegenrecauxFlow ==
  ASSUME NEW d \in DumpNames, NEW h \in Nat
  PROVE  Flow(Rules(d), treegenrecaux_, h, h)
<1> DEFINE h1 == h + On(d, "dump")
           h2 == h + On(d, "dump1")
<1>1. /\ h \in Nat /\ h \in Int /\ h1 \in Nat /\ h1 \in Int /\ h2 \in Nat /\ h2 \in Int
  BY DEF On
<1>2. <<If(Is(S(1), Lists), <<SAVESTACK, POP(stck), Exec(lis(next(Quote(1), 1))),
        GNULLARY(SAVED(1)), POP(dump), Function("treegenrecaux")>> \o cons_ \o
        <<Exec(next(lis(lis(stck)), 2))>>, <<List(dump1, lis(stck), dump1), POP(stck),
        Exec(lis(DMP1)), POP(dump1)>>), h, h>> \in Rules(d)
  <2>1. If(Is(S(1), Lists), <<SAVESTACK, POP(stck), Exec(lis(next(Quote(1), 1))),
          GNULLARY(SAVED(1)), POP(dump), Function("treegenrecaux")>> \o cons_ \o
          <<Exec(next(lis(lis(stck)), 2))>>, <<List(dump1, lis(stck), dump1), POP(stck),
          Exec(lis(DMP1)), POP(dump1)>>) \in Instructions
    BY InnerUsed, TopUsed, Layers
  <2>2. Flow(Rules(d), <<SAVESTACK, POP(stck), Exec(lis(next(Quote(1), 1))),
          GNULLARY(SAVED(1)), POP(dump), Function("treegenrecaux")>> \o cons_ \o
          <<Exec(next(lis(lis(stck)), 2))>>, h, h)
    <3>1. Flow(Rules(d), <<SAVESTACK, POP(stck), Exec(lis(next(Quote(1), 1))),
            GNULLARY(SAVED(1)), POP(dump), Function("treegenrecaux")>>, h, h)
      <4>1. /\ <<POP(stck), h1, h1>> \in Rules(d)
            /\ <<Exec(lis(next(Quote(1), 1))), h1, h1>> \in Rules(d)
            /\ <<GNULLARY(SAVED(1)), h1, h1>> \in Rules(d)
            /\ <<Function("treegenrecaux"), h, h>> \in Rules(d)
        BY <1>1, SteadyUsed, Steadfast
      <4>2. /\ <<SAVESTACK, h, h1>> \in Rules(d)
            /\ <<POP(dump), h1, h>> \in Rules(d)
        BY <1>1, Movers, OperandsUsed, TestsUsed
      <4> QED BY <4>1, <4>2, Flow6
    <3>2. Flow(Rules(d), cons_, h, h)
      BY <1>1, ConsFlow
    <3>3. Flow(Rules(d), <<SAVESTACK, POP(stck), Exec(lis(next(Quote(1), 1))),
            GNULLARY(SAVED(1)), POP(dump), Function("treegenrecaux")>> \o cons_, h, h)
      BY <3>1, <3>2, FlowJoin
    <3>4. Flow(Rules(d), <<Exec(next(lis(lis(stck)), 2))>>, h, h)
      <4>1. <<Exec(next(lis(lis(stck)), 2)), h, h>> \in Rules(d)
        BY <1>1, SteadyUsed, Steadfast
      <4> QED BY <4>1, Flow1
    <3> QED BY <3>3, <3>4, FlowJoin
  <2>3. Flow(Rules(d), <<List(dump1, lis(stck), dump1), POP(stck), Exec(lis(DMP1)),
          POP(dump1)>>, h, h)
    <3>1. /\ <<POP(stck), h2, h2>> \in Rules(d)
          /\ <<Exec(lis(DMP1)), h2, h2>> \in Rules(d)
      BY <1>1, SteadyUsed, Steadfast
    <3>2. /\ <<List(dump1, lis(stck), dump1), h, h2>> \in Rules(d)
          /\ <<POP(dump1), h2, h>> \in Rules(d)
      BY <1>1, Movers, OperandsUsed, TestsUsed
    <3> QED BY <3>1, <3>2, Flow4
  <2> QED BY <1>1, <2>1, <2>2, <2>3, IfRule
<1> QED BY <1>2, Flow1 DEF treegenrecaux_

LEMMA TreegenrecFlow ==
  ASSUME NEW d \in DumpNames, NEW h \in Nat
  PROVE  Flow(Rules(d), treegenrec_, h, h)
<1>1. h \in Nat /\ h \in Int
  OBVIOUS
<1>2. Flow(Rules(d), <<PARAMS(4, 3)>>, h, h)
  <2>1. <<PARAMS(4, 3), h, h>> \in Rules(d)
    BY <1>1, SteadyUsed, Steadfast
  <2> QED BY <2>1, Flow1
<1>3. Flow(Rules(d), cons_, h, h)
  BY <1>1, ConsFlow
<1>4. Flow(Rules(d), <<PARAMS(4, 3)>> \o cons_, h, h)
  BY <1>2, <1>3, FlowJoin
<1>5. Flow(Rules(d), cons_, h, h)
  BY <1>1, ConsFlow
<1>6. Flow(Rules(d), <<PARAMS(4, 3)>> \o cons_ \o cons_, h, h)
  BY <1>4, <1>5, FlowJoin
<1>7. Flow(Rules(d), treegenrecaux_, h, h)
  BY <1>1, TreegenrecauxFlow
<1> QED BY <1>6, <1>7, FlowJoin DEF treegenrec_

LEMMA TreerecauxFlow ==
  ASSUME NEW d \in DumpNames, NEW h \in Nat
  PROVE  Flow(Rules(d), treerecaux_, h, h)
<1> DEFINE h1 == h + On(d, "dump1")
<1>1. /\ h \in Nat /\ h \in Int /\ h1 \in Nat /\ h1 \in Int
  BY DEF On
<1>2. <<If(Is(S(1), Lists), <<Function("treerecaux")>> \o cons_ \o
        <<Exec(next(lis(lis(stck)), 1))>>, <<List(dump1, lis(stck), dump1), POP(stck),
        Exec(lis(DMP1)), POP(dump1)>>), h, h>> \in Rules(d)
  <2>1. If(Is(S(1), Lists), <<Function("treerecaux")>> \o cons_ \o
          <<Exec(next(lis(lis(stck)), 1))>>, <<List(dump1, lis(stck), dump1), POP(stck),
          Exec(lis(DMP1)), POP(dump1)>>) \in Instructions
    BY InnerUsed, TopUsed, Layers
  <2>2. Flow(Rules(d), <<Function("treerecaux")>> \o cons_ \o <<Exec(next(lis(lis(stck)),
          1))>>, h, h)
    <3>1. Flow(Rules(d), <<Function("treerecaux")>>, h, h)
      <4>1. <<Function("treerecaux"), h, h>> \in Rules(d)
        BY <1>1, SteadyUsed, Steadfast
      <4> QED BY <4>1, Flow1
    <3>2. Flow(Rules(d), cons_, h, h)
      BY <1>1, ConsFlow
    <3>3. Flow(Rules(d), <<Function("treerecaux")>> \o cons_, h, h)
      BY <3>1, <3>2, FlowJoin
    <3>4. Flow(Rules(d), <<Exec(next(lis(lis(stck)), 1))>>, h, h)
      <4>1. <<Exec(next(lis(lis(stck)), 1)), h, h>> \in Rules(d)
        BY <1>1, SteadyUsed, Steadfast
      <4> QED BY <4>1, Flow1
    <3> QED BY <3>3, <3>4, FlowJoin
  <2>3. Flow(Rules(d), <<List(dump1, lis(stck), dump1), POP(stck), Exec(lis(DMP1)),
          POP(dump1)>>, h, h)
    <3>1. /\ <<POP(stck), h1, h1>> \in Rules(d)
          /\ <<Exec(lis(DMP1)), h1, h1>> \in Rules(d)
      BY <1>1, SteadyUsed, Steadfast
    <3>2. /\ <<List(dump1, lis(stck), dump1), h, h1>> \in Rules(d)
          /\ <<POP(dump1), h1, h>> \in Rules(d)
      BY <1>1, Movers, OperandsUsed, TestsUsed
    <3> QED BY <3>1, <3>2, Flow4
  <2> QED BY <1>1, <2>1, <2>2, <2>3, IfRule
<1> QED BY <1>2, Flow1 DEF treerecaux_

LEMMA TreerecFlow ==
  ASSUME NEW d \in DumpNames, NEW h \in Nat
  PROVE  Flow(Rules(d), treerec_, h, h)
<1>1. h \in Nat /\ h \in Int
  OBVIOUS
<1>2. Flow(Rules(d), <<PARAMS(3, 2)>>, h, h)
  <2>1. <<PARAMS(3, 2), h, h>> \in Rules(d)
    BY <1>1, SteadyUsed, Steadfast
  <2> QED BY <2>1, Flow1
<1>3. Flow(Rules(d), cons_, h, h)
  BY <1>1, ConsFlow
<1>4. Flow(Rules(d), <<PARAMS(3, 2)>> \o cons_, h, h)
  BY <1>2, <1>3, FlowJoin
<1>5. Flow(Rules(d), treerecaux_, h, h)
  BY <1>1, TreerecauxFlow
<1> QED BY <1>4, <1>5, FlowJoin DEF treerec_

LEMMA TreestepauxSavedFlow ==
  ASSUME NEW d \in DumpNames, NEW h \in Nat
  PROVE  Flow(Rules(d), treestepaux(SAVED(2)), h, h)
<1> DEFINE h1 == h + On(d, "dump1")
<1>1. /\ h \in Nat /\ h \in Int /\ h1 \in Nat /\ h1 \in Int
  BY DEF On
<1>2. <<If(Is(SAVED(2), Lists), <<List(dump1, lis(SAVED(2)), dump1), Each(DMP1,
        <<Call("treestepaux")>>), POP(dump1)>>, <<GNULLARY(SAVED(2)), Exec(Quote(1))>>), h,
        h>> \in Rules(d)
  <2>1. If(Is(SAVED(2), Lists), <<List(dump1, lis(SAVED(2)), dump1), Each(DMP1,
          <<Call("treestepaux")>>), POP(dump1)>>, <<GNULLARY(SAVED(2)), Exec(Quote(1))>>)
          \in Instructions
    BY InnerUsed, TopUsed, Layers
  <2>2. Flow(Rules(d), <<List(dump1, lis(SAVED(2)), dump1), Each(DMP1,
          <<Call("treestepaux")>>), POP(dump1)>>, h, h)
    <3>1. /\ <<List(dump1, lis(SAVED(2)), dump1), h, h1>> \in Rules(d)
          /\ <<POP(dump1), h1, h>> \in Rules(d)
      BY <1>1, Movers, OperandsUsed, TestsUsed
    <3>2. <<Each(DMP1, <<Call("treestepaux")>>), h1, h1>> \in Rules(d)
      <4>1. Each(DMP1, <<Call("treestepaux")>>) \in Instructions
        BY InnerUsed, TopUsed, Layers
      <4>2. Flow(Rules(d), <<Call("treestepaux")>>, h1, h1)
        <5>1. <<Call("treestepaux"), h1, h1>> \in Rules(d)
          BY <1>1, Movers, OperandsUsed, TestsUsed DEF Statics
        <5> QED BY <5>1, Flow1
      <4> QED BY <1>1, <4>1, <4>2, RepeatRules, SteadyUsed
    <3> QED BY <3>1, <3>2, Flow3
  <2>3. Flow(Rules(d), <<GNULLARY(SAVED(2)), Exec(Quote(1))>>, h, h)
    <3>1. /\ <<GNULLARY(SAVED(2)), h, h>> \in Rules(d)
          /\ <<Exec(Quote(1)), h, h>> \in Rules(d)
      BY <1>1, SteadyUsed, Steadfast
    <3> QED BY <3>1, Flow2
  <2> QED BY <1>1, <2>1, <2>2, <2>3, IfRule
<1> QED BY <1>2, Flow1 DEF treestepaux

LEMMA TreestepFlow ==
  ASSUME NEW d \in DumpNames, NEW h \in Nat
  PROVE  Flow(Rules(d), treestep_, h, h)
<1> DEFINE h1 == h + On(d, "dump")
<1>1. /\ h \in Nat /\ h \in Int /\ h1 \in Nat /\ h1 \in Int
  BY DEF On
<1>2. Flow(Rules(d), <<PARAMS(2, 1), SAVESTACK, Assign(stck, SAVED(3))>>, h, h1)
  <2>1. /\ <<PARAMS(2, 1), h, h>> \in Rules(d)
        /\ <<Assign(stck, SAVED(3)), h1, h1>> \in Rules(d)
    BY <1>1, SteadyUsed, Steadfast
  <2>2. <<SAVESTACK, h, h1>> \in Rules(d)
    BY <1>1, Movers, OperandsUsed, TestsUsed
  <2> QED BY <2>1, <2>2, Flow3
<1>3. Flow(Rules(d), treestepaux(SAVED(2)), h1, h1)
  BY <1>1, TreestepauxSavedFlow
<1>4. Flow(Rules(d), <<PARAMS(2, 1), SAVESTACK, Assign(stck, SAVED(3))>> \o
        treestepaux(SAVED(2)), h, h1)
  BY <1>2, <1>3, FlowJoin
<1>5. Flow(Rules(d), <<POP(dump)>>, h1, h)
  <2>1. <<POP(dump), h1, h>> \in Rules(d)
    BY <1>1, Movers, OperandsUsed, TestsUsed
  <2> QED BY <2>1, Flow1
<1> QED BY <1>4, <1>5, FlowJoin DEF treestep_

LEMMA BinrecauxFlow ==
  ASSUME NEW d \in DumpNames, NEW h \in Nat
  PROVE  Flow(Rules(d), binrecaux, h, h)
<1> DEFINE h1 == h + On(d, "dump1")
           h2 == h + On(d, "dump2")
<1>1. /\ h \in Nat /\ h \in Int /\ h1 \in Nat /\ h1 \in Int /\ h2 \in Nat /\ h2 \in Int
  BY DEF On
<1>2. Flow(Rules(d), <<EnterStack, Exec(Quote(4))>>, h, h1)
  <2>1. <<Exec(Quote(4)), h1, h1>> \in Rules(d)
    BY <1>1, SteadyUsed, Steadfast
  <2>2. <<EnterStack, h, h1>> \in Rules(d)
    BY <1>1, Movers, OperandsUsed, TestsUsed
  <2> QED BY <2>1, <2>2, Flow2
<1>3. Flow(Rules(d), LeaveStack, h1, h)
  BY <1>1, LeaveStackFlow
<1>4. Flow(Rules(d), <<EnterStack, Exec(Quote(4))>> \o LeaveStack, h, h)
  BY <1>2, <1>3, FlowJoin
<1>5. Flow(Rules(d), <<If(RESULT, <<Exec(Quote(3))>>, <<Exec(Quote(2)), Copy(dump2, stck,
        dump2), POP(stck), Call("binrecaux"), GNULLARY(dump2), POP(dump2),
        Call("binrecaux"), Exec(Quote(1))>>)>>, h, h)
  <2>1. <<If(RESULT, <<Exec(Quote(3))>>, <<Exec(Quote(2)), Copy(dump2, stck, dump2),
          POP(stck), Call("binrecaux"), GNULLARY(dump2), POP(dump2), Call("binrecaux"),
          Exec(Quote(1))>>), h, h>> \in Rules(d)
    <3>1. If(RESULT, <<Exec(Quote(3))>>, <<Exec(Quote(2)), Copy(dump2, stck, dump2),
            POP(stck), Call("binrecaux"), GNULLARY(dump2), POP(dump2), Call("binrecaux"),
            Exec(Quote(1))>>) \in Instructions
      BY InnerUsed, TopUsed, Layers
    <3>2. Flow(Rules(d), <<Exec(Quote(3))>>, h, h)
      <4>1. <<Exec(Quote(3)), h, h>> \in Rules(d)
        BY <1>1, SteadyUsed, Steadfast
      <4> QED BY <4>1, Flow1
    <3>3. Flow(Rules(d), <<Exec(Quote(2)), Copy(dump2, stck, dump2), POP(stck),
            Call("binrecaux"), GNULLARY(dump2), POP(dump2), Call("binrecaux"),
            Exec(Quote(1))>>, h, h)
      <4>1. /\ <<Exec(Quote(2)), h, h>> \in Rules(d)
            /\ <<POP(stck), h2, h2>> \in Rules(d)
            /\ <<GNULLARY(dump2), h2, h2>> \in Rules(d)
            /\ <<Exec(Quote(1)), h, h>> \in Rules(d)
        BY <1>1, SteadyUsed, Steadfast
      <4>2. /\ <<Copy(dump2, stck, dump2), h, h2>> \in Rules(d)
            /\ <<Call("binrecaux"), h2, h2>> \in Rules(d)
            /\ <<POP(dump2), h2, h>> \in Rules(d)
            /\ <<Call("binrecaux"), h, h>> \in Rules(d)
        BY <1>1, Movers, OperandsUsed, TestsUsed DEF Statics
      <4> QED BY <4>1, <4>2, Flow8
    <3> QED BY <1>1, <3>1, <3>2, <3>3, IfRule
  <2> QED BY <2>1, Flow1
<1> QED BY <1>4, <1>5, FlowJoin DEF binrecaux

LEMMA CondnestrecauxFlow ==
  ASSUME NEW d \in DumpNames, NEW h \in Nat
  PROVE  Flow(Rules(d), condnestrecaux, h, h)
<1> DEFINE h1 == h + On(d, "dump1")
           h2 == h1 + On(d, "dump2")
           h3 == h2 + On(d, "dump3")
           b2 == -1 - h2
<1>1. /\ h \in Nat /\ h \in Int /\ h1 \in Nat /\ h1 \in Int /\ h2 \in Nat /\ h2 \in Int
      /\ b2 \in Int /\ h3 \in Nat /\ h3 \in Int
  BY DEF On
<1>2. /\ <<Reset, h, h>> \in Rules(d)
      /\ <<Assign(stck, DMP2), h2, h2>> \in Rules(d)
      /\ <<Exec(lis(DMP3)), h3, h3>> \in Rules(d)
      /\ <<POP(DMP3), h3, h3>> \in Rules(d)
  BY <1>1, SteadyUsed, Steadfast
<1>3. /\ <<List(dump1, Quote(1), dump1), h, h1>> \in Rules(d)
      /\ <<List(dump2, stck, dump2), h1, h2>> \in Rules(d)
      /\ <<POP(dump3), h3, h2>> \in Rules(d)
      /\ <<POP(dump2), h2, h1>> \in Rules(d)
      /\ <<POP(dump1), h1, h>> \in Rules(d)
  BY <1>1, Movers, OperandsUsed, TestsUsed
<1>4. <<Loop(Node(next(DMP1, 1)), <<Assign(stck, DMP2), Exec(lis(lis(DMP1))),
        Result(True(stck)), If(RESULT, <<Break>>, <<>>), POP(DMP1)>>), h2, h2>> \in Rules(d)
  <2>1. Loop(Node(next(DMP1, 1)), <<Assign(stck, DMP2), Exec(lis(lis(DMP1))),
          Result(True(stck)), If(RESULT, <<Break>>, <<>>), POP(DMP1)>>) \in Instructions
    BY InnerUsed, TopUsed, Layers
  <2>2. Flow(Rules(d), <<Assign(stck, DMP2), Exec(lis(lis(DMP1))), Result(True(stck)),
          If(RESULT, <<Break>>, <<>>), POP(DMP1)>>, h2, b2)
    <3>1. /\ <<Assign(stck, DMP2), h2, h2>> \in Rules(d)
          /\ <<Exec(lis(lis(DMP1))), h2, h2>> \in Rules(d)
          /\ <<POP(DMP1), b2, b2>> \in Rules(d)
      BY <1>1, SteadyUsed, Steadfast
    <3>2. <<Result(True(stck)), h2, b2>> \in Rules(d)
      BY <1>1, Movers, OperandsUsed, TestsUsed
    <3>3. <<If(RESULT, <<Break>>, <<>>), b2, b2>> \in Rules(d)
      <4>1. If(RESULT, <<Break>>, <<>>) \in Instructions
        BY InnerUsed, TopUsed, Layers
      <4>2. Flow(Rules(d), <<Break>>, b2, b2)
        <5>1. <<Break, b2, b2>> \in Rules(d)
          BY <1>1, Movers, OperandsUsed, TestsUsed
        <5> QED BY <5>1, Flow1
      <4>3. Flow(Rules(d), <<>>, b2, b2)
        BY <1>1, Flow0
      <4> QED BY <1>1, <4>1, <4>2, <4>3, IfRule
    <3> QED BY <3>1, <3>2, <3>3, Flow5
  <2> QED BY <1>1, <2>1, <2>2, LoopRule
<1>5. <<If(RESULT, <<List(dump3, next(lis(DMP1), 1), dump3)>>, <<List(dump3, lis(DMP1),
        dump3)>>), h2, h3>> \in Rules(d)
  <2>1. If(RESULT, <<List(dump3, next(lis(DMP1), 1), dump3)>>, <<List(dump3, lis(DMP1),
          dump3)>>) \in Instructions
    BY InnerUsed, TopUsed, Layers
  <2>2. Flow(Rules(d), <<List(dump3, next(lis(DMP1), 1), dump3)>>, h2, h3)
    <3>1. <<List(dump3, next(lis(DMP1), 1), dump3), h2, h3>> \in Rules(d)
      BY <1>1, Movers, OperandsUsed, TestsUsed
    <3> QED BY <3>1, Flow1
  <2>3. Flow(Rules(d), <<List(dump3, lis(DMP1), dump3)>>, h2, h3)
    <3>1. <<List(dump3, lis(DMP1), dump3), h2, h3>> \in Rules(d)
      BY <1>1, Movers, OperandsUsed, TestsUsed
    <3> QED BY <3>1, Flow1
  <2> QED BY <1>1, <2>1, <2>2, <2>3, IfRule
<1>6. <<Each(DMP3, <<Call("condnestrecaux"), Exec(lis(DMP3))>>), h3, h3>> \in Rules(d)
  <2>1. Each(DMP3, <<Call("condnestrecaux"), Exec(lis(DMP3))>>) \in Instructions
    BY InnerUsed, TopUsed, Layers
  <2>2. Flow(Rules(d), <<Call("condnestrecaux"), Exec(lis(DMP3))>>, h3, h3)
    <3>1. <<Exec(lis(DMP3)), h3, h3>> \in Rules(d)
      BY <1>1, SteadyUsed, Steadfast
    <3>2. <<Call("condnestrecaux"), h3, h3>> \in Rules(d)
      BY <1>1, Movers, OperandsUsed, TestsUsed DEF Statics
    <3> QED BY <3>1, <3>2, Flow2
  <2> QED BY <1>1, <2>1, <2>2, RepeatRules, SteadyUsed
<1> QED BY <1>2, <1>3, <1>4, <1>5, <1>6, Flow12 DEF condnestrecaux

LEMMA LinrecauxFlow ==
  ASSUME NEW d \in DumpNames, NEW h \in Nat
  PROVE  Flow(Rules(d), linrecaux, h, h)
<1> DEFINE h1 == h + On(d, "dump1")
<1>1. /\ h \in Nat /\ h \in Int /\ h1 \in Nat /\ h1 \in Int
  BY DEF On
<1>2. Flow(Rules(d), <<EnterStack, Exec(Quote(4)), CHECKSTACK>>, h, h1)
  <2>1. /\ <<Exec(Quote(4)), h1, h1>> \in Rules(d)
        /\ <<CHECKSTACK, h1, h1>> \in Rules(d)
    BY <1>1, SteadyUsed, Steadfast
  <2>2. <<EnterStack, h, h1>> \in Rules(d)
    BY <1>1, Movers, OperandsUsed, TestsUsed
  <2> QED BY <2>1, <2>2, Flow3
<1>3. Flow(Rules(d), LeaveStack, h1, h)
  BY <1>1, LeaveStackFlow
<1>4. Flow(Rules(d), <<EnterStack, Exec(Quote(4)), CHECKSTACK>> \o LeaveStack, h, h)
  BY <1>2, <1>3, FlowJoin
<1>5. Flow(Rules(d), <<If(RESULT, <<Exec(Quote(3))>>, <<Exec(Quote(2)), Call("linrecaux"),
        Exec(Quote(1))>>)>>, h, h)
  <2>1. <<If(RESULT, <<Exec(Quote(3))>>, <<Exec(Quote(2)), Call("linrecaux"),
          Exec(Quote(1))>>), h, h>> \in Rules(d)
    <3>1. If(RESULT, <<Exec(Quote(3))>>, <<Exec(Quote(2)), Call("linrecaux"),
            Exec(Quote(1))>>) \in Instructions
      BY InnerUsed, TopUsed, Layers
    <3>2. Flow(Rules(d), <<Exec(Quote(3))>>, h, h)
      <4>1. <<Exec(Quote(3)), h, h>> \in Rules(d)
        BY <1>1, SteadyUsed, Steadfast
      <4> QED BY <4>1, Flow1
    <3>3. Flow(Rules(d), <<Exec(Quote(2)), Call("linrecaux"), Exec(Quote(1))>>, h, h)
      <4>1. /\ <<Exec(Quote(2)), h, h>> \in Rules(d)
            /\ <<Exec(Quote(1)), h, h>> \in Rules(d)
        BY <1>1, SteadyUsed, Steadfast
      <4>2. <<Call("linrecaux"), h, h>> \in Rules(d)
        BY <1>1, Movers, OperandsUsed, TestsUsed DEF Statics
      <4> QED BY <4>1, <4>2, Flow3
    <3> QED BY <1>1, <3>1, <3>2, <3>3, IfRule
  <2> QED BY <2>1, Flow1
<1> QED BY <1>4, <1>5, FlowJoin DEF linrecaux

LEMMA TreestepauxStaticFlow ==
  ASSUME NEW d \in DumpNames, NEW h \in Nat
  PROVE  Flow(Rules(d), treestepaux(DMP1), h, h)
<1> DEFINE h1 == h + On(d, "dump1")
<1>1. /\ h \in Nat /\ h \in Int /\ h1 \in Nat /\ h1 \in Int
  BY DEF On
<1>2. <<If(Is(DMP1, Lists), <<List(dump1, lis(DMP1), dump1), Each(DMP1,
        <<Call("treestepaux")>>), POP(dump1)>>, <<GNULLARY(DMP1), Exec(Quote(1))>>), h, h>>
        \in Rules(d)
  <2>1. If(Is(DMP1, Lists), <<List(dump1, lis(DMP1), dump1), Each(DMP1,
          <<Call("treestepaux")>>), POP(dump1)>>, <<GNULLARY(DMP1), Exec(Quote(1))>>)
          \in Instructions
    BY InnerUsed, TopUsed, Layers
  <2>2. Flow(Rules(d), <<List(dump1, lis(DMP1), dump1), Each(DMP1,
          <<Call("treestepaux")>>), POP(dump1)>>, h, h)
    <3>1. /\ <<List(dump1, lis(DMP1), dump1), h, h1>> \in Rules(d)
          /\ <<POP(dump1), h1, h>> \in Rules(d)
      BY <1>1, Movers, OperandsUsed, TestsUsed
    <3>2. <<Each(DMP1, <<Call("treestepaux")>>), h1, h1>> \in Rules(d)
      <4>1. Each(DMP1, <<Call("treestepaux")>>) \in Instructions
        BY InnerUsed, TopUsed, Layers
      <4>2. Flow(Rules(d), <<Call("treestepaux")>>, h1, h1)
        <5>1. <<Call("treestepaux"), h1, h1>> \in Rules(d)
          BY <1>1, Movers, OperandsUsed, TestsUsed DEF Statics
        <5> QED BY <5>1, Flow1
      <4> QED BY <1>1, <4>1, <4>2, RepeatRules, SteadyUsed
    <3> QED BY <3>1, <3>2, Flow3
  <2>3. Flow(Rules(d), <<GNULLARY(DMP1), Exec(Quote(1))>>, h, h)
    <3>1. /\ <<GNULLARY(DMP1), h, h>> \in Rules(d)
          /\ <<Exec(Quote(1)), h, h>> \in Rules(d)
      BY <1>1, SteadyUsed, Steadfast
    <3> QED BY <3>1, Flow2
  <2> QED BY <1>1, <2>1, <2>2, <2>3, IfRule
<1> QED BY <1>2, Flow1 DEF treestepaux

LEMMA BuiltinFlows ==
  ASSUME NEW d \in DumpNames
  PROVE  /\ \A f \in Unlinking : Flow(Rules(d), Builtin[f], 0, 0)
         /\ \A f \in Statics, h \in Nat : Flow(Rules(d), Static[f], h, h)
<1>1. Unlinking = {"pop", "dup", "swap", "rolldown", "stack", "unstack", "popd", "swapd",
                      "first", "rest", "uncons", "null", "pred", "plus", "cons", "branch",
                      "choice", "cond", "i", "ifte", "x", "nullary", "unary", "binary",
                      "ternary", "app1", "app11", "dip", "infra", "step", "fold", "times",
                      "all", "some", "binrec", "condnestrec", "condlinrec", "genrec",
                      "genrecaux", "linrec", "primrec", "tailrec", "treegenrec",
                      "treegenrecaux", "treerec", "treerecaux", "treestep"}
  BY DEF Unlinking, Relinking, Builtin
<1>2. 0 \in Nat
  OBVIOUS
<1>3. /\ Flow(Rules(d), Builtin["pop"], 0, 0) /\ Flow(Rules(d), Builtin["dup"], 0, 0)
      /\ Flow(Rules(d), Builtin["swap"], 0, 0) /\ Flow(Rules(d), Builtin["rolldown"], 0, 0)
      /\ Flow(Rules(d), Builtin["stack"], 0, 0) /\ Flow(Rules(d), Builtin["unstack"], 0, 0)
      /\ Flow(Rules(d), Builtin["popd"], 0, 0) /\ Flow(Rules(d), Builtin["swapd"], 0, 0)
  BY <1>2, PopFlow, DupFlow, SwapFlow, RolldownFlow, StackFlow, UnstackFlow, PopdFlow,
       SwapdFlow
     DEF Builtin
<1>4. /\ Flow(Rules(d), Builtin["first"], 0, 0) /\ Flow(Rules(d), Builtin["rest"], 0, 0)
      /\ Flow(Rules(d), Builtin["uncons"], 0, 0) /\ Flow(Rules(d), Builtin["null"], 0, 0)
      /\ Flow(Rules(d), Builtin["pred"], 0, 0) /\ Flow(Rules(d), Builtin["plus"], 0, 0)
      /\ Flow(Rules(d), Builtin["cons"], 0, 0) /\ Flow(Rules(d), Builtin["branch"], 0, 0)
  BY <1>2, FirstFlow, RestFlow, UnconsFlow, NullFlow, PredFlow, PlusFlow, ConsFlow,
       BranchFlow
     DEF Builtin
<1>5. /\ Flow(Rules(d), Builtin["choice"], 0, 0) /\ Flow(Rules(d), Builtin["cond"], 0, 0)
      /\ Flow(Rules(d), Builtin["i"], 0, 0) /\ Flow(Rules(d), Builtin["ifte"], 0, 0)
      /\ Flow(Rules(d), Builtin["x"], 0, 0) /\ Flow(Rules(d), Builtin["nullary"], 0, 0)
      /\ Flow(Rules(d), Builtin["unary"], 0, 0) /\ Flow(Rules(d), Builtin["binary"], 0, 0)
  BY <1>2, ChoiceFlow, CondFlow, IFlow, IfteFlow, XFlow, NullaryFlow, UnaryFlow, BinaryFlow
     DEF Builtin
<1>6. /\ Flow(Rules(d), Builtin["ternary"], 0, 0) /\ Flow(Rules(d), Builtin["app1"], 0, 0)
      /\ Flow(Rules(d), Builtin["app11"], 0, 0) /\ Flow(Rules(d), Builtin["dip"], 0, 0)
      /\ Flow(Rules(d), Builtin["infra"], 0, 0) /\ Flow(Rules(d), Builtin["step"], 0, 0)
      /\ Flow(Rules(d), Builtin["fold"], 0, 0) /\ Flow(Rules(d), Builtin["times"], 0, 0)
  BY <1>2, TernaryFlow, App1Flow, App11Flow, DipFlow, InfraFlow, StepFlow, FoldFlow,
       TimesFlow
     DEF Builtin
<1>7. /\ Flow(Rules(d), Builtin["all"], 0, 0) /\ Flow(Rules(d), Builtin["some"], 0, 0)
      /\ Flow(Rules(d), Builtin["binrec"], 0, 0)
      /\ Flow(Rules(d), Builtin["condnestrec"], 0, 0)
      /\ Flow(Rules(d), Builtin["condlinrec"], 0, 0)
      /\ Flow(Rules(d), Builtin["genrec"], 0, 0)
      /\ Flow(Rules(d), Builtin["genrecaux"], 0, 0)
      /\ Flow(Rules(d), Builtin["linrec"], 0, 0)
  BY <1>2, AllFlow, SomeFlow, BinrecFlow, CondnestrecFlow, CondlinrecFlow, GenrecFlow,
       GenrecauxFlow, LinrecFlow
     DEF Builtin
<1>8. /\ Flow(Rules(d), Builtin["primrec"], 0, 0)
      /\ Flow(Rules(d), Builtin["tailrec"], 0, 0)
      /\ Flow(Rules(d), Builtin["treegenrec"], 0, 0)
      /\ Flow(Rules(d), Builtin["treegenrecaux"], 0, 0)
      /\ Flow(Rules(d), Builtin["treerec"], 0, 0)
      /\ Flow(Rules(d), Builtin["treerecaux"], 0, 0)
      /\ Flow(Rules(d), Builtin["treestep"], 0, 0)
  BY <1>2, PrimrecFlow, TailrecFlow, TreegenrecFlow, TreegenrecauxFlow, TreerecFlow,
       TreerecauxFlow, TreestepFlow
     DEF Builtin
<1>9. \A f \in Unlinking : Flow(Rules(d), Builtin[f], 0, 0)
  BY <1>1, <1>3, <1>4, <1>5, <1>6, <1>7, <1>8
<1>10. ASSUME NEW f \in Statics, NEW h \in Nat PROVE Flow(Rules(d), Static[f], h, h)
  BY BinrecauxFlow, CondnestrecauxFlow, LinrecauxFlow, TreestepauxStaticFlow
  DEF Statics, Static
<1> QED BY <1>9, <1>10

-----------------------------------------------------------------------------
(* What the activations on the C stack still have on the dump d, and how    *)
(* many of them are exec_term's.                                           *)

Commands == {Exec(Reg("prog")), <<"print">>, Exec(lis(stck)), POP(stck)}

Owes(f, d, k) ==
  IF f.fn = "exec_term" THEN k = 0
  ELSE /\ \E P, Q \in Int : Height(P) = k /\ Height(Q) = 0 /\ Flow(Rules(d), f.code, P, Q)
       /\ f.fn \in Frontends => f.code \in Seq(Commands)

(* k is the sum of what they owe; only the outermost is a front end.        *)
Sums(fr, d, k) ==
  \E a : /\ a[1] = k /\ a[Len(fr) + 1] = 0
         /\ \A i \in 1 .. Len(fr) + 1 : a[i] \in Nat
         /\ \A i \in 1 .. Len(fr) : /\ Owes(fr[i], d, a[i] - a[i + 1])
                                    /\ i < Len(fr) => fr[i].fn \notin Frontends

Calls(fr) == Cardinality({i \in DOMAIN fr : fr[i].fn = "exec_term"})

(* fr is f on top of rest.                                                 *)
Atop(fr, f, rest) ==
  /\ Len(rest) \in Nat /\ Len(fr) = Len(rest) + 1 /\ (Len(rest) = 0 <=> rest = <<>>)
  /\ DOMAIN rest = 1 .. Len(rest) /\ DOMAIN fr = 1 .. Len(fr)
  /\ fr[1] = f /\ \A i \in 1 .. Len(rest) : fr[i + 1] = rest[i]

LEMMA OwesNat ==
  ASSUME NEW f, NEW d, NEW k, Owes(f, d, k)
  PROVE  k \in Nat
<1>1. \A P \in Int : Height(P) \in Nat
  BY DEF Height
<1> QED BY <1>1 DEF Owes

LEMMA SumsEmpty ==
  ASSUME NEW d
  PROVE  Sums(<<>>, d, 0) /\ \A k : Sums(<<>>, d, k) => k = 0
<1>1. Len(<<>>) = 0
  OBVIOUS
<1> DEFINE a == [i \in Nat |-> 0]
<1>2. a[1] = 0 /\ \A i \in 1 .. 0 + 1 : a[i] \in Nat
  OBVIOUS
<1>3. 1 .. 0 = {} /\ 0 + 1 = 1
  OBVIOUS
<1> HIDE DEF a
<1>4. Sums(<<>>, d, 0)
  BY <1>1, <1>2, <1>3 DEF Sums
<1>5. \A k : Sums(<<>>, d, k) => k = 0
  BY <1>1, <1>3 DEF Sums
<1> QED BY <1>4, <1>5

LEMMA SumsOff ==
  ASSUME NEW fr, NEW f, NEW rest, Atop(fr, f, rest), NEW d, NEW k, Sums(fr, d, k)
  PROVE  /\ k \in Nat /\ (rest # <<>> => f.fn \notin Frontends)
         /\ \E m \in Nat : m <= k /\ Sums(rest, d, m) /\ Owes(f, d, k - m)
<1> DEFINE n == Len(rest)
<1>1. PICK a : /\ a[1] = k /\ a[n + 1 + 1] = 0 /\ \A i \in 1 .. n + 1 + 1 : a[i] \in Nat
               /\ \A i \in 1 .. n + 1 : /\ Owes(fr[i], d, a[i] - a[i + 1])
                                        /\ i < n + 1 => fr[i].fn \notin Frontends
  BY DEF Sums, Atop
<1>2. n \in Nat /\ fr[1] = f /\ (\A i \in 1 .. n : fr[i + 1] = rest[i])
      /\ DOMAIN rest = 1 .. n
  BY DEF Atop
<1> DEFINE b == [i \in Nat |-> a[i + 1]]
<1>3. \A i \in Nat : b[i] = a[i + 1]
  OBVIOUS
<1> HIDE DEF b
<1>4. b[1] = a[2] /\ b[n + 1] = 0
  <2> DEFINE q == n + 1
  <2>1. q \in Nat /\ 1 \in Nat /\ 1 + 1 = 2
    BY <1>2
  <2>2. a[q + 1] = 0
    BY <1>1
  <2> HIDE DEF q
  <2>3. b[q] = 0
    BY <1>3, <2>1, <2>2
  <2> QED BY <1>3, <2>1, <2>3 DEF q
<1>5. ASSUME NEW i \in 1 .. n + 1 PROVE b[i] \in Nat
  <2>1. i \in Nat /\ i + 1 \in 1 .. n + 1 + 1
    BY <1>2
  <2> QED BY <1>1, <1>3, <2>1
<1>6. ASSUME NEW i \in 1 .. n
      PROVE  Owes(rest[i], d, b[i] - b[i + 1]) /\ (i < n => rest[i].fn \notin Frontends)
  <2>1. i \in Nat /\ i + 1 \in Nat /\ i + 1 \in 1 .. n + 1 /\ (i < n => i + 1 < n + 1)
    BY <1>2
  <2>2. b[i] = a[i + 1] /\ b[i + 1] = a[i + 1 + 1] /\ fr[i + 1] = rest[i]
    BY <1>2, <1>3, <2>1
  <2> QED BY <1>1, <2>1, <2>2
<1>7. Sums(rest, d, a[2])
  BY <1>4, <1>5, <1>6 DEF Sums
<1>8. 1 \in 1 .. n + 1 /\ 1 + 1 = 2 /\ 1 \in 1 .. n + 1 + 1 /\ 2 \in 1 .. n + 1 + 1
  BY <1>2
<1>9. k \in Nat /\ a[2] \in Nat /\ Owes(f, d, k - a[2]) /\ (1 < n + 1 => f.fn \notin Frontends)
  BY <1>1, <1>2, <1>8
<1>10. a[2] <= k
  BY <1>9, OwesNat
<1>11. rest # <<>> => 1 < n + 1
  BY <1>2 DEF Atop
<1> QED BY <1>7, <1>9, <1>10, <1>11

LEMMA SumsOn ==
  ASSUME NEW fr, NEW f, NEW rest, Atop(fr, f, rest), NEW d, NEW m \in Nat, NEW j \in Nat,
         Sums(rest, d, m), Owes(f, d, j), rest # <<>> => f.fn \notin Frontends
  PROVE  Sums(fr, d, m + j)
<1> DEFINE n == Len(rest)
<1>1. PICK a : /\ a[1] = m /\ a[n + 1] = 0 /\ \A i \in 1 .. n + 1 : a[i] \in Nat
               /\ \A i \in 1 .. n : /\ Owes(rest[i], d, a[i] - a[i + 1])
                                    /\ i < n => rest[i].fn \notin Frontends
  BY DEF Sums
<1>2. n \in Nat /\ Len(fr) = n + 1 /\ fr[1] = f /\ (\A i \in 1 .. n : fr[i + 1] = rest[i])
      /\ (n = 0 <=> rest = <<>>)
  BY DEF Atop
<1> DEFINE b == [i \in Nat |-> IF i = 1 THEN m + j ELSE a[i - 1]]
<1>3. b[1] = m + j /\ \A i \in Nat : i # 1 => b[i] = a[i - 1]
  OBVIOUS
<1> HIDE DEF b, n
<1>4. b[n + 1 + 1] = 0
  <2> DEFINE q == n + 1 + 1
  <2>1. q \in Nat /\ q # 1 /\ q - 1 = n + 1
    BY <1>2
  <2> HIDE DEF q
  <2>2. b[q] = 0
    BY <1>1, <1>3, <2>1
  <2> QED BY <2>2 DEF q
<1>5. ASSUME NEW i \in 1 .. n + 1 + 1 PROVE b[i] \in Nat
  <2>1. i \in Nat /\ (i # 1 => i - 1 \in 1 .. n + 1)
    BY <1>2
  <2>2. m + j \in Nat
    OBVIOUS
  <2>3. CASE i = 1
    BY <1>3, <2>2, <2>3
  <2>4. CASE i # 1
    <3>1. b[i] = a[i - 1]
      BY <1>3, <2>1, <2>4
    <3>2. a[i - 1] \in Nat
      BY <1>1, <2>1, <2>4
    <3> QED BY <3>1, <3>2
  <2> QED BY <2>3, <2>4
<1>6. ASSUME NEW i \in 1 .. n + 1
      PROVE  Owes(fr[i], d, b[i] - b[i + 1]) /\ (i < n + 1 => fr[i].fn \notin Frontends)
  <2>1. CASE i = 1
    <3>1. 1 + 1 \in Nat /\ 1 + 1 # 1 /\ 1 + 1 - 1 = 1
      OBVIOUS
    <3>2. b[1 + 1] = a[1]
      BY <1>3, <3>1
    <3>3. b[1] - b[1 + 1] = j
      BY <1>1, <1>3, <3>2
    <3>4. 1 < n + 1 => n # 0
      BY <1>2
    <3> QED BY <1>2, <2>1, <3>3, <3>4
  <2>2. CASE i # 1
    <3> DEFINE h == i - 1
    <3>1. h \in 1 .. n /\ i = h + 1 /\ i \in Nat /\ i + 1 \in Nat /\ i + 1 # 1
          /\ i + 1 - 1 = h + 1 /\ (i < n + 1 => h < n)
      BY <1>2, <2>2
    <3>2. b[i] = a[h] /\ b[i + 1] = a[h + 1] /\ fr[i] = rest[h]
      BY <1>2, <1>3, <2>2, <3>1
    <3> HIDE DEF h
    <3> QED BY <1>1, <3>1, <3>2
  <2> QED BY <2>1, <2>2
<1> QED BY <1>2, <1>3, <1>4, <1>5, <1>6 DEF Sums

(* The activation on top is replaced by another of the same function.       *)
LEMMA SumsTop ==
  ASSUME NEW fr, NEW f, NEW rest, Atop(fr, f, rest), NEW gr, NEW g, Atop(gr, g, rest),
         g.fn = f.fn, NEW d, NEW n \in Int,
         \A j \in Nat : Owes(f, d, j) => j + n \in Nat /\ Owes(g, d, j + n),
         NEW k, Sums(fr, d, k)
  PROVE  k + n \in Nat /\ Sums(gr, d, k + n)
<1>1. PICK m \in Nat : m <= k /\ Sums(rest, d, m) /\ Owes(f, d, k - m)
  BY SumsOff
<1>2. k \in Nat /\ (rest # <<>> => f.fn \notin Frontends)
  BY SumsOff
<1> DEFINE j == k - m
           h == j + n
<1>3. j \in Nat
  BY <1>1, <1>2
<1>4. h \in Nat /\ Owes(g, d, h)
  BY <1>1, <1>3
<1>5. m + h = k + n
  BY <1>1, <1>2
<1> HIDE DEF h, j
<1>6. Sums(gr, d, m + h)
  BY <1>1, <1>2, <1>4, SumsOn
<1> QED BY <1>1, <1>4, <1>5, <1>6

LEMMA CallsAtop ==
  ASSUME NEW fr, NEW f, NEW rest, Atop(fr, f, rest)
  PROVE  /\ Calls(rest) \in Nat
         /\ Calls(fr) = Calls(rest) + (IF f.fn = "exec_term" THEN 1 ELSE 0)
<1> DEFINE n == Len(rest)
           R == {i \in 1 .. n : rest[i].fn = "exec_term"}
           T == {i \in 2 .. n + 1 : fr[i].fn = "exec_term"}
           U == {i \in 1 .. n + 1 : fr[i].fn = "exec_term"}
<1>1. n \in Nat /\ fr[1] = f /\ (\A i \in 1 .. n : fr[i + 1] = rest[i])
      /\ Calls(rest) = Cardinality(R) /\ Calls(fr) = Cardinality(U)
  BY DEF Atop, Calls
<1>2. IsFiniteSet(1 .. n) /\ IsFiniteSet(2 .. n + 1)
  BY <1>1, FS_Interval
<1>3. IsFiniteSet(R) /\ IsFiniteSet(T) /\ Cardinality(R) \in Nat
  BY <1>2, FS_Subset, FS_CardinalityType
<1> DEFINE b == [i \in R |-> i + 1]
<1>4. b \in Bijection(R, T)
  <2>1. \A i \in R : b[i] \in T
    BY <1>1
  <2>2. \A i, j \in R : b[i] = b[j] => i = j
    BY <1>1
  <2>3. ASSUME NEW j \in T PROVE \E i \in R : b[i] = j
    <3>1. j - 1 \in 1 .. n /\ (j - 1) + 1 = j
      BY <1>1
    <3>2. j - 1 \in R
      BY <1>1, <3>1
    <3> QED BY <3>1, <3>2
  <2>4. b \in [R -> T] /\ DOMAIN b = R
    BY <2>1
  <2> HIDE DEF b, R, T
  <2> QED BY <2>2, <2>3, <2>4 DEF Bijection, Injection, IsInjective, Surjection
<1>5. ExistsBijection(R, T)
  BY <1>4 DEF ExistsBijection
<1>6. Cardinality(T) = Cardinality(R)
  BY <1>3, <1>5, FS_Bijection
<1>7. U = IF f.fn = "exec_term" THEN T \cup {1} ELSE T
  <2>1. \A i : i \in 1 .. n + 1 <=> i = 1 \/ i \in 2 .. n + 1
    BY <1>1
  <2> QED BY <1>1, <2>1
<1>8. 1 \notin T
  BY <1>1
<1>9. Cardinality(T \cup {1}) = Cardinality(T) + 1
  BY <1>3, <1>8, FS_AddElement
<1> HIDE DEF R, T, U
<1>10. CASE f.fn = "exec_term"
  BY <1>1, <1>3, <1>6, <1>7, <1>9, <1>10
<1>11. CASE f.fn # "exec_term"
  BY <1>1, <1>3, <1>6, <1>7, <1>11
<1> QED BY <1>10, <1>11

LEMMA CallsEmpty == Calls(<<>>) = 0
<1>1. {i \in DOMAIN <<>> : <<>>[i].fn = "exec_term"} = {}
  OBVIOUS
<1> QED BY <1>1, FS_EmptySet DEF Calls

-----------------------------------------------------------------------------
(* What an instruction makes of what its builtin owes.                     *)

LEMMA CommandKinds ==
  ASSUME NEW i \in Commands
  PROVE  i[1] \in {"exec", "print", "assign"} /\ \A d \in DumpNames : Move(i, d) = 0
<1>1. i[1] \in {"exec", "print", "assign"}
  BY DEF Commands, Exec, POP, Assign
<1>2. i[1] = "assign" => i[2] = stck
  BY DEF Commands, Exec, POP, Assign
<1> QED BY <1>1, <1>2, NotDumps DEF Move

LEMMA OwesBegins ==
  ASSUME NEW f, f.fn # "exec_term", f.code # <<>>, NEW d, NEW j, Owes(f, d, j)
  PROVE  \E P, M, Q \in Int :
           /\ Height(P) = j /\ Height(Q) = 0 /\ Obeys(Rules(d), d, Head(f.code), P, M)
           /\ Flow(Rules(d), Tail(f.code), M, Q) /\ Flow(Rules(d), f.code, P, Q)
<1>1. PICK P, Q \in Int : Height(P) = j /\ Height(Q) = 0 /\ Flow(Rules(d), f.code, P, Q)
  BY DEF Owes
<1>2. PICK M : <<Head(f.code), P, M>> \in Rules(d) /\ Flow(Rules(d), Tail(f.code), M, Q)
  BY <1>1, FlowHead
<1>3. Obeys(Rules(d), d, Head(f.code), P, M)
  BY <1>2, RulesObey
<1>4. M \in Int
  BY <1>3 DEF Obeys
<1> QED BY <1>1, <1>2, <1>3, <1>4

LEMMA OwesAdvance ==
  ASSUME NEW f, NEW g, f.fn # "exec_term", f.code # <<>>, Head(f.code)[1] # "if",
         g.fn = f.fn, g.code = Tail(f.code), NEW d, NEW j, Owes(f, d, j)
  PROVE  /\ j + Move(Head(f.code), d) \in Nat
         /\ Owes(g, d, j + Move(Head(f.code), d))
<1>1. PICK P, M, Q \in Int :
           /\ Height(P) = j /\ Height(Q) = 0 /\ Obeys(Rules(d), d, Head(f.code), P, M)
           /\ Flow(Rules(d), Tail(f.code), M, Q) /\ Flow(Rules(d), f.code, P, Q)
  BY OwesBegins
<1>2. Height(M) = j + Move(Head(f.code), d)
  BY <1>1 DEF Obeys
<1>3. f.fn \in Frontends => Tail(f.code) \in Seq(Commands)
  BY HeadTailProperties DEF Owes
<1>4. Owes(g, d, Height(M))
  BY <1>1, <1>3 DEF Owes
<1> QED BY <1>2, <1>4, OwesNat

(* The command of a front end neither branches nor calls.                  *)
LEMMA OwesInner ==
  ASSUME NEW f, f.fn # "exec_term", f.code # <<>>, NEW d, NEW j, Owes(f, d, j),
         Head(f.code)[1] \in {"if", "loop", "break", "call"}
  PROVE  f.fn \notin Frontends
<1> SUFFICES ASSUME f.fn \in Frontends PROVE FALSE
  OBVIOUS
<1>1. f.code \in Seq(Commands)
  BY DEF Owes
<1>2. Head(f.code) \in Commands
  BY <1>1, HeadTailProperties
<1> QED BY <1>2, CommandKinds

LEMMA OwesIf ==
  ASSUME NEW f, NEW g, f.fn # "exec_term", f.code # <<>>, Head(f.code)[1] = "if",
         NEW x, x \in {Head(f.code)[3], Head(f.code)[4]},
         g.fn = f.fn, g.code = x \o Tail(f.code), NEW d, NEW j, Owes(f, d, j)
  PROVE  Owes(g, d, j)
<1>1. PICK P, M, Q \in Int :
           /\ Height(P) = j /\ Height(Q) = 0 /\ Obeys(Rules(d), d, Head(f.code), P, M)
           /\ Flow(Rules(d), Tail(f.code), M, Q) /\ Flow(Rules(d), f.code, P, Q)
  BY OwesBegins
<1>2. Flow(Rules(d), x, P, M)
  BY <1>1 DEF Obeys
<1>3. Flow(Rules(d), g.code, P, Q)
  BY <1>1, <1>2, FlowJoin
<1> QED BY <1>1, <1>3, OwesInner DEF Owes

LEMMA OwesLoop ==
  ASSUME NEW f, NEW g, f.fn # "exec_term", f.code # <<>>, Head(f.code)[1] = "loop",
         g.fn = f.fn, g.code = Head(f.code)[3] \o f.code, NEW d, NEW j, Owes(f, d, j)
  PROVE  Owes(g, d, j)
<1> DEFINE i == Head(f.code)
<1>1. PICK P, M, Q \in Int :
           /\ Height(P) = j /\ Height(Q) = 0 /\ Obeys(Rules(d), d, i, P, M)
           /\ Flow(Rules(d), Tail(f.code), M, Q) /\ Flow(Rules(d), f.code, P, Q)
  BY OwesBegins
<1> HIDE DEF i
<1>2. PICK z \in Int : Height(z) = Height(P) /\ Flow(Rules(d), i[3], Height(P), z)
  BY <1>1 DEF Obeys, i
<1>3. Height(Height(P)) = Height(P) /\ Height(P) \in Int
  BY DEF Height
<1>4. Obeys(Rules(d), d, i, z, M)
  BY <1>1, <1>2 DEF Obeys, i
<1>5. Flow(Rules(d), <<i>>, z, M)
  BY <1>4, RulesObey, Flow1
<1>6. <<i>> \o Tail(f.code) = f.code
  <2>1. f.code \in Seq(Instructions)
    BY <1>1 DEF Flow
  <2> DEFINE n == Len(f.code)
  <2>2. /\ Tail(f.code) \in Seq(Instructions) /\ Len(Tail(f.code)) = n - 1 /\ n \in Nat
        /\ n >= 1 /\ i = f.code[1] /\ i \in Instructions
        /\ \A k \in 1 .. n - 1 : Tail(f.code)[k] = f.code[k + 1]
    BY <2>1, HeadTailProperties, EmptySeq DEF i
  <2>3. <<i>> \in Seq(Instructions) /\ Len(<<i>>) = 1 /\ <<i>>[1] = i
    BY <2>2
  <2> DEFINE s == <<i>>
  <2> HIDE DEF s
  <2>4. /\ s \o Tail(f.code) \in Seq(Instructions) /\ Len(s \o Tail(f.code)) = 1 + (n - 1)
        /\ \A k \in 1 .. 1 + (n - 1) :
             (s \o Tail(f.code))[k] = IF k <= 1 THEN s[k] ELSE Tail(f.code)[k - 1]
    BY <2>2, <2>3, ConcatProperties DEF s
  <2> DEFINE c == s \o Tail(f.code)
  <2> HIDE DEF c
  <2>5. ASSUME NEW k \in 1 .. n PROVE c[k] = f.code[k]
    <3>1. CASE k = 1
      BY <2>2, <2>3, <2>4, <3>1 DEF c, s
    <3>2. CASE k # 1
      <4>1. k - 1 \in 1 .. n - 1 /\ (k - 1) + 1 = k /\ ~(k <= 1) /\ k \in 1 .. 1 + (n - 1)
        BY <2>2, <3>2
      <4>2. c[k] = Tail(f.code)[k - 1]
        BY <2>4, <4>1 DEF c
      <4> QED BY <2>2, <4>1, <4>2
    <3> QED BY <3>1, <3>2
  <2>6. c \in Seq(Instructions) /\ Len(c) = n
    BY <2>2, <2>4 DEF c
  <2>7. c = f.code
    BY <2>1, <2>5, <2>6, SeqEqual
  <2> QED BY <2>7 DEF c, s
<1>7. Flow(Rules(d), f.code, z, Q)
  BY <1>1, <1>5, <1>6, FlowJoin
<1>8. Flow(Rules(d), g.code, Height(P), Q)
  BY <1>2, <1>7, FlowJoin DEF i
<1> QED BY <1>1, <1>3, <1>8, OwesInner DEF Owes, i

LEMMA MinLeast ==
  ASSUME NEW I, NEW n \in Nat, I \subseteq 1 .. n, I # {}
  PROVE  Min(I) \in I /\ \A x \in I : Min(I) <= x
<1>1. I \in SUBSET Nat
  OBVIOUS
<1> QED BY <1>1, LeastNumber DEF Min

LEMMA OwesBreak ==
  ASSUME NEW f, NEW g, f.fn # "exec_term", f.code # <<>>, Head(f.code)[1] = "break",
         NEW n \in 1 .. Len(f.code), f.code[n][1] = "loop",
         \A k \in 1 .. Len(f.code) : f.code[k][1] = "loop" => n <= k,
         g.fn = f.fn, g.code = SubSeq(f.code, n + 1, Len(f.code)),
         NEW d, NEW j, Owes(f, d, j)
  PROVE  Owes(g, d, j)
<1>1. PICK P, M, Q \in Int :
           /\ Height(P) = j /\ Height(Q) = 0 /\ Obeys(Rules(d), d, Head(f.code), P, M)
           /\ Flow(Rules(d), Tail(f.code), M, Q) /\ Flow(Rules(d), f.code, P, Q)
  BY OwesBegins
<1> DEFINE s == f.code
           l == Len(s)
<1>2. s \in Seq(Instructions) /\ l \in Nat
  BY <1>1, LenProperties DEF Flow
<1>3. PICK w : w[1] = P /\ w[l + 1] = Q /\ \A k \in 1 .. l : <<s[k], w[k], w[k + 1]>> \in Rules(d)
  BY <1>1 DEF Flow
<1>4. \A k \in 1 .. l : Obeys(Rules(d), d, s[k], w[k], w[k + 1])
  BY <1>3, RulesObey
<1>5. P < 0
  BY <1>1 DEF Obeys
<1> DEFINE K == {k \in Nat : k < n => w[k + 1] = P}
<1>6. 0 \in K
  BY <1>3
<1>7. ASSUME NEW k \in Nat, k \in K PROVE k + 1 \in K
  <2> SUFFICES ASSUME k + 1 < n PROVE w[(k + 1) + 1] = P
    OBVIOUS
  <2>1. k + 1 \in 1 .. l /\ k < n /\ ~(n <= k + 1)
    BY <1>2
  <2>2. w[k + 1] = P /\ s[k + 1][1] # "loop"
    BY <1>7, <2>1
  <2>3. Obeys(Rules(d), d, s[k + 1], w[k + 1], w[(k + 1) + 1])
    BY <1>4, <2>1
  <2> QED BY <1>5, <2>2, <2>3 DEF Obeys
<1> HIDE DEF K
<1>8. Nat \subseteq K
  BY <1>6, <1>7, NatInd
<1>9. n - 1 \in Nat /\ n - 1 < n /\ (n - 1) + 1 = n /\ n \in Nat /\ n <= l
  BY <1>2
<1>10. n - 1 \in K
  BY <1>8, <1>9
<1>11. w[n] = P
  BY <1>9, <1>10 DEF K
<1>12. Obeys(Rules(d), d, s[n], P, w[n + 1])
  BY <1>4, <1>11
<1>13. Move(s[n], d) = 0
  BY DEF Move
<1>14. w[n + 1] \in Int /\ Height(w[n + 1]) = j
  <2>1. Height(P) \in Int
    BY DEF Height
  <2>2. w[n + 1] \in Int /\ Height(w[n + 1]) = Height(P) + 0
    BY <1>12, <1>13 DEF Obeys
  <2> QED BY <1>1, <2>1, <2>2
<1> DEFINE c == SubSeq(s, n + 1, l)
           m == l - n
           v == [k \in Nat |-> w[k + n]]
<1>15. m \in Nat /\ \A k \in 1 .. m : k + n \in 1 .. l
  BY <1>2, <1>9
<1>16. c \in Seq(Instructions) /\ Len(c) = m /\ \A k \in 1 .. m : c[k] = s[k + n]
  <2>1. \A k \in n + 1 .. l : s[k] \in Instructions
    BY <1>2, <1>9, ElementOfSeq
  <2>2. n + 1 \in Int /\ l \in Int
    BY <1>2, <1>9
  <2>3. /\ c \in Seq(Instructions)
        /\ Len(c) = IF n + 1 <= l THEN l - (n + 1) + 1 ELSE 0
        /\ \A k \in 1 .. l - (n + 1) + 1 : c[k] = s[(n + 1) + k - 1]
    BY <2>1, <2>2, SubSeqProperties
  <2> HIDE DEF c
  <2>4. l - (n + 1) + 1 = m /\ \A k \in Int : (n + 1) + k - 1 = k + n
    BY <1>2, <1>9
  <2>5. Len(c) = m
    BY <1>2, <1>9, <2>3
  <2> QED BY <2>3, <2>4, <2>5
<1>17. \A k \in Nat : v[k] = w[k + n]
  OBVIOUS
<1> HIDE DEF v, c, s, l
<1>18. ASSUME NEW k \in 1 .. m PROVE <<c[k], v[k], v[k + 1]>> \in Rules(d)
  <2> DEFINE q == k + n
  <2>1. k \in Nat /\ k + 1 \in Nat /\ q \in 1 .. l /\ (k + 1) + n = q + 1
    BY <1>9, <1>15
  <2>2. c[k] = s[q] /\ v[k] = w[q] /\ v[k + 1] = w[q + 1]
    BY <1>16, <1>17, <2>1
  <2> HIDE DEF q
  <2> QED BY <1>3, <2>1, <2>2
<1>19. v[1] = w[n + 1] /\ v[m + 1] = Q
  <2>1. 1 + n = n + 1 /\ (m + 1) + n = l + 1 /\ m + 1 \in Nat
    BY <1>2, <1>9, <1>15
  <2>2. v[1] = w[1 + n] /\ v[m + 1] = w[(m + 1) + n]
    BY <1>17, <2>1
  <2> QED BY <1>3, <2>1, <2>2
<1>20. Flow(Rules(d), c, w[n + 1], Q)
  BY <1>16, <1>18, <1>19 DEF Flow
<1>21. Flow(Rules(d), g.code, w[n + 1], Q)
  BY <1>20 DEF c, s, l
<1> QED BY <1>1, <1>14, <1>21, OwesInner DEF Owes

LEMMA OwesCall ==
  ASSUME NEW f, NEW g, f.fn # "exec_term", f.code # <<>>, Head(f.code)[1] = "call",
         Head(f.code)[2] \in Statics, g.fn = f.fn,
         g.code = Static[Head(f.code)[2]] \o Tail(f.code),
         NEW d \in DumpNames, NEW j, Owes(f, d, j)
  PROVE  Owes(g, d, j)
<1>1. PICK P, M, Q \in Int :
           /\ Height(P) = j /\ Height(Q) = 0 /\ Obeys(Rules(d), d, Head(f.code), P, M)
           /\ Flow(Rules(d), Tail(f.code), M, Q) /\ Flow(Rules(d), f.code, P, Q)
  BY OwesBegins
<1>2. P \in Nat /\ M = P
  BY <1>1 DEF Obeys
<1>3. Flow(Rules(d), Static[Head(f.code)[2]], P, P)
  BY <1>2, BuiltinFlows
<1>4. Flow(Rules(d), g.code, P, Q)
  BY <1>1, <1>2, <1>3, FlowJoin
<1> QED BY <1>1, <1>4, OwesInner DEF Owes

LEMMA OwesNothing ==
  ASSUME NEW f, f.fn # "exec_term", f.code = <<>>, NEW d, NEW j, Owes(f, d, j)
  PROVE  j = 0
<1>1. PICK P, Q \in Int : Height(P) = j /\ Height(Q) = 0 /\ Flow(Rules(d), <<>>, P, Q)
  BY DEF Owes
<1>2. P = Q
  BY <1>1 DEF Flow
<1> QED BY <1>1, <1>2

-----------------------------------------------------------------------------
(* The registers that the builtins and exec_term push on and pop from.      *)

DumpsAndConts == DumpNames \cup {"conts"}

(* The list of register r has become n nodes longer.                       *)
Moved(r, n) ==
  \A k \in Nat : Long(memory, root[r], k) /\ k + n \in Nat => Long(memory', root'[r], k + n)

(* And what the C stack owes to the dump d, by n.                          *)
Shifted(d, n) == \A k : Sums(frames, d, k) => k + n \in Nat /\ Sums(frames', d, k + n)

LEMMA DumpsAreRegisters ==
  /\ DumpsAndConts \subseteq Registers \ {"stck", "prog"}
  /\ "conts" \in DumpsAndConts /\ DumpNames \subseteq DumpsAndConts /\ "dump" \in DumpNames
BY DEF DumpsAndConts, DumpNames, Registers

LEMMA MovedSame ==
  ASSUME Grows(memory, memory'), NEW r, root[r] \in DOMAIN memory, root'[r] = root[r]
  PROVE  Moved(r, 0)
<1> SUFFICES ASSUME NEW k \in Nat, Long(memory, root[r], k)
             PROVE  Long(memory', root'[r], k + 0)
  BY DEF Moved
<1>1. Long(memory', root[r], k)
  BY LongGrows
<1> QED BY <1>1

LEMMA MovedUp ==
  ASSUME Grows(memory, memory'), NEW r, root[r] \in DOMAIN memory,
         root'[r] \in DOMAIN memory', root'[r] # 0, memory'[root'[r]].next = root[r]
  PROVE  Moved(r, 1)
<1> SUFFICES ASSUME NEW k \in Nat, Long(memory, root[r], k)
             PROVE  Long(memory', root'[r], k + 1)
  BY DEF Moved
<1>1. Long(memory', memory'[root'[r]].next, k)
  BY LongGrows
<1> QED BY <1>1, LongCons

LEMMA MovedDown ==
  ASSUME Grows(memory, memory'), NEW r, root'[r] = memory[root[r]].next
  PROVE  Moved(r, -1)
<1> SUFFICES ASSUME NEW k \in Nat, Long(memory, root[r], k), k + (-1) \in Nat
             PROVE  Long(memory', root'[r], k + (-1))
  BY DEF Moved
<1>1. k # 0 /\ k + (-1) = k - 1 /\ k - 1 \in Nat
  OBVIOUS
<1>2. root[r] \in DOMAIN memory /\ Long(memory, memory[root[r]].next, k - 1)
  BY <1>1, LongTail
<1>3. memory[root[r]].next \in DOMAIN memory
  BY <1>2 DEF Grows
<1> DEFINE j == k - 1
<1> HIDE DEF j
<1>4. j \in Nat /\ Long(memory, memory[root[r]].next, j)
  BY <1>1, <1>2 DEF j
<1>5. Long(memory', memory[root[r]].next, j)
  BY <1>3, <1>4, LongGrows
<1> QED BY <1>1, <1>5 DEF j

(* The dumps and conts stay as they are.                                   *)
LEMMA AllStay ==
  ASSUME Grows(memory, memory'),
         \A r \in DumpsAndConts : root[r] \in DOMAIN memory /\ root'[r] = root[r]
  PROVE  \A r \in DumpsAndConts : Moved(r, 0)
BY MovedSame

(* A memory that has the same links, and what a new node makes of it.       *)
LEMMA GrowsSame ==
  ASSUME NEW mem, Sound(memory, born, library), DOMAIN mem = DOMAIN memory,
         \A n \in DOMAIN memory : mem[n].next = memory[n].next
  PROVE  Grows(memory, mem)
BY DEF Grows, Sound, CellIn

LEMMA FetchGrows ==
  ASSUME StoreOK(memory, root, born, library)
  PROVE  /\ Grows(memory, Fetch) /\ DOMAIN Fetch = DOMAIN memory
         /\ \A n \in DOMAIN memory : Fetch[n].next = memory[n].next
<1> DEFINE m == root["conts"]
           v == memory[p].next
<1>1. m \in DOMAIN memory
  BY RegisterLive
<1>2. Fetch = [memory EXCEPT ![m].u = v]
  BY DEF Fetch
<1>3. IsCell(memory[m])
  BY <1>1, RegisterLive DEF CellIn
<1> HIDE DEF m, v
<1>4. DOMAIN Fetch = DOMAIN memory /\ Fetch[m] = [memory[m] EXCEPT !.u = v]
      /\ \A n \in DOMAIN memory : n # m => Fetch[n] = memory[n]
  BY <1>1, <1>2
<1>5. Fetch[m].next = memory[m].next
  BY <1>3, <1>4 DEF IsCell
<1>6. \A n \in DOMAIN memory : Fetch[n].next = memory[n].next
  BY <1>4, <1>5
<1> QED BY <1>4, <1>6, GrowsSame DEF StoreOK

LEMMA NewGrows ==
  ASSUME NEW mem, NEW c, NEW r \in Registers, StoreOK(memory, root, born, library),
         DOMAIN mem = DOMAIN memory, \A n \in DOMAIN memory : mem[n].next = memory[n].next,
         c.next \in DOMAIN memory, New(mem, Reg(r), c)
  PROVE  /\ Grows(memory, memory') /\ born # 0 /\ root'[r] = born
         /\ born \in DOMAIN memory' /\ memory'[born].next = c.next
         /\ \A q \in Registers : q # r => root'[q] = root[q]
<1>1. memory' = Extend(mem, c) /\ root' = [root EXCEPT ![r] = born]
  BY DEF New, Store, Reg
<1>2. born \in Nat \ {0} /\ born \notin DOMAIN memory
      /\ \A n \in DOMAIN memory : memory[n].next \in DOMAIN memory
  BY DEF StoreOK, Sound, CellIn
<1>3. /\ DOMAIN memory' = DOMAIN memory \cup {born} /\ memory'[born] = c
      /\ \A n \in DOMAIN memory : memory'[n] = mem[n]
  BY <1>1, <1>2 DEF Extend
<1>4. Grows(memory, memory')
  BY <1>2, <1>3 DEF Grows
<1>5. root'[r] = born /\ \A q \in Registers : q # r => root'[q] = root[q]
  BY <1>1 DEF StoreOK
<1> QED BY <1>2, <1>3, <1>4, <1>5

LEMMA TwoGrow ==
  ASSUME NEW f, NEW c, StoreOK(memory, root, born, library),
         f.next \in DOMAIN memory, c.next \in DOMAIN memory,
         memory' = [n \in DOMAIN memory \cup {born, born + 1} |-> memory'[n]],
         memory'[born] = f, memory'[born + 1] = c,
         \A n \in DOMAIN memory : memory'[n] = memory[n],
         root' = [root EXCEPT !.stck = born + 1]
  PROVE  Grows(memory, memory') /\ \A r \in DumpsAndConts : Moved(r, 0)
<1>1. born \in Nat \ {0} /\ \A n \in DOMAIN memory : memory[n].next \in DOMAIN memory
  BY DEF StoreOK, Sound, CellIn
<1>2. DOMAIN memory' = DOMAIN memory \cup {born, born + 1} /\ born + 1 # 0
  BY <1>1
<1>3. Grows(memory, memory')
  BY <1>1, <1>2 DEF Grows
<1>4. \A r \in DumpsAndConts : root[r] \in DOMAIN memory /\ root'[r] = root[r]
  BY DumpsAreRegisters DEF StoreOK
<1> QED BY <1>3, <1>4, AllStay

-----------------------------------------------------------------------------
(* While a command is executed the dumps hold what the C stack owes, and    *)
(* conts one program for every activation of exec_term.                    *)

Holding(fr, mem, rt) ==
  \A d \in DumpNames : \E k \in Nat : Sums(fr, d, k) /\ Long(mem, rt[d], k)

Called(fr, mem, rt) == Long(mem, rt["conts"], Calls(fr))

Balanced ==
  /\ ~failed => Holding(frames, memory, root)
  /\ ~failed \/ (frontend = "repl" /\ ~aborted) => Called(frames, memory, root)

LEMMA BalanceStep ==
  ASSUME Balanced, frontend' = frontend, failed' = failed, aborted' = aborted,
         \A d \in DumpNames : \E n \in Int : Shifted(d, n) /\ Moved(d, n),
         NEW c \in Int, Moved("conts", c), Calls(frames) \in Nat, Calls(frames') \in Nat,
         Calls(frames') = Calls(frames) + c
  PROVE  Balanced'
<1>1. ASSUME Holding(frames, memory, root) PROVE Holding(frames', memory', root')
  <2> SUFFICES ASSUME NEW d \in DumpNames
               PROVE  \E k \in Nat : Sums(frames', d, k) /\ Long(memory', root'[d], k)
    BY DEF Holding
  <2>1. PICK k \in Nat : Sums(frames, d, k) /\ Long(memory, root[d], k)
    BY <1>1 DEF Holding
  <2>2. PICK n \in Int : Shifted(d, n) /\ Moved(d, n)
    OBVIOUS
  <2> DEFINE j == k + n
  <2>3. j \in Nat /\ Sums(frames', d, j)
    BY <2>1, <2>2 DEF Shifted
  <2>4. Long(memory', root'[d], j)
    BY <2>1, <2>2, <2>3 DEF Moved
  <2> QED BY <2>3, <2>4
<1>2. ASSUME Called(frames, memory, root) PROVE Called(frames', memory', root')
  BY <1>2 DEF Called, Moved
<1> QED BY <1>1, <1>2 DEF Balanced

LEMMA AtopTop ==
  ASSUME NEW L, Run(frames, L)
  PROVE  Atop(frames, Top, Tail(frames))
<1>1. frames \in Seq(RunFrames(L)) /\ frames # <<>> /\ frames[1] = Top
  BY RunTop DEF Run
<1>2. /\ Tail(frames) \in Seq(RunFrames(L)) /\ Len(Tail(frames)) = Len(frames) - 1
      /\ Len(frames) \in Nat /\ Len(frames) # 0
      /\ \A i \in 1 .. Len(Tail(frames)) : Tail(frames)[i] = frames[i + 1]
  BY <1>1, HeadTailProperties, EmptySeq
<1>3. DOMAIN frames = 1 .. Len(frames) /\ DOMAIN Tail(frames) = 1 .. Len(Tail(frames))
      /\ (Len(Tail(frames)) = 0 <=> Tail(frames) = <<>>)
  BY <1>1, <1>2, LenProperties, EmptySeq
<1> QED BY <1>1, <1>2, <1>3 DEF Atop

LEMMA AtopExcept ==
  ASSUME NEW L, Run(frames, L), NEW g
  PROVE  Atop([frames EXCEPT ![1] = g], g, Tail(frames))
<1> DEFINE X  == RunFrames(L) \cup {g}
           fr == [frames EXCEPT ![1] = g]
<1>1. Atop(frames, Top, Tail(frames))
  BY AtopTop
<1>2. frames \in Seq(X) /\ 1 \in 1 .. Len(frames) /\ g \in X
  BY <1>1, SeqMonotonic DEF Run, Atop
<1> HIDE DEF X
<1>3. fr \in Seq(X) /\ Len(fr) = Len(frames)
      /\ \A j \in 1 .. Len(frames) : fr[j] = IF j = 1 THEN g ELSE frames[j]
  BY <1>2, ExceptSeq
<1>4. DOMAIN fr = 1 .. Len(fr)
  BY <1>3, LenProperties
<1> HIDE DEF fr
<1>5. fr[1] = g
  BY <1>2, <1>3
<1>6. ASSUME NEW i \in 1 .. Len(Tail(frames)) PROVE fr[i + 1] = Tail(frames)[i]
  <2>1. i + 1 \in 1 .. Len(frames) /\ i + 1 # 1
    BY <1>1 DEF Atop
  <2> QED BY <1>1, <1>3, <2>1 DEF Atop
<1> QED BY <1>1, <1>3, <1>4, <1>5, <1>6 DEF Atop, fr

LEMMA AtopPush ==
  ASSUME NEW L, NEW fr, Run(fr, L), NEW f
  PROVE  Atop(<<f>> \o fr, f, fr) /\ fr # <<>>
<1> DEFINE X == RunFrames(L) \cup {f}
           s == <<f>>
<1>1. fr \in Seq(X) /\ fr # <<>>
  BY SeqMonotonic DEF Run
<1>2. s \in Seq(X) /\ Len(s) = 1 /\ s[1] = f
  OBVIOUS
<1> HIDE DEF X, s
<1>3. /\ s \o fr \in Seq(X) /\ Len(s \o fr) = 1 + Len(fr)
      /\ \A i \in 1 .. 1 + Len(fr) : (s \o fr)[i] = IF i <= 1 THEN s[i] ELSE fr[i - 1]
  <2>1. /\ s \o fr \in Seq(X) /\ Len(s \o fr) = Len(s) + Len(fr)
        /\ \A i \in 1 .. Len(s) + Len(fr) :
             (s \o fr)[i] = IF i <= Len(s) THEN s[i] ELSE fr[i - Len(s)]
    BY <1>1, <1>2, ConcatProperties
  <2> QED BY <1>2, <2>1
<1>4. /\ Len(fr) \in Nat /\ DOMAIN fr = 1 .. Len(fr) /\ (Len(fr) = 0 <=> fr = <<>>)
      /\ DOMAIN (s \o fr) = 1 .. Len(s \o fr)
  BY <1>1, <1>3, LenProperties, EmptySeq
<1> DEFINE t == s \o fr
<1> HIDE DEF t
<1>5. t[1] = f
  BY <1>2, <1>3, <1>4 DEF t
<1>6. ASSUME NEW i \in 1 .. Len(fr) PROVE t[i + 1] = fr[i]
  <2>1. i + 1 \in 1 .. 1 + Len(fr) /\ ~(i + 1 <= 1) /\ (i + 1) - 1 = i
    BY <1>4
  <2> QED BY <1>3, <2>1 DEF t
<1>7. Atop(t, f, fr)
  BY <1>3, <1>4, <1>5, <1>6 DEF Atop, t
<1> QED BY <1>1, <1>7 DEF t, s

-----------------------------------------------------------------------------
(* What the instructions do to the dumps.                                  *)

Effect(i) ==
  /\ Grows(memory, memory') /\ Moved("conts", 0)
  /\ \A d \in DumpNames : Moved(d, Move(i, d))

LEMMA StillEffect ==
  ASSUME NEW i, Grows(memory, memory'), \A r \in DumpsAndConts : Moved(r, 0),
         \A d \in DumpNames : Move(i, d) = 0
  PROVE  Effect(i)
BY DumpsAreRegisters DEF Effect

LEMMA OtherEffect ==
  ASSUME NEW i, Grows(memory, memory'), \A r \in DumpsAndConts : Moved(r, 0),
         i[1] \notin {"assign", "copy", "list"} \/ i[2] \in {stck, DMP1, DMP3}
  PROVE  Effect(i)
<1>1. \A d \in DumpNames : Move(i, d) = 0
  BY NotDumps DEF Move
<1> QED BY <1>1, StillEffect

LEMMA StoreEffect ==
  ASSUME NEW i, StoreOK(memory, root, born, library), memory' = memory,
         \A r \in DumpsAndConts : root'[r] = root[r],
         i[1] \notin {"assign", "copy", "list"} \/ i[2] \in {stck, DMP1, DMP3}
  PROVE  Effect(i)
<1>1. Grows(memory, memory')
  BY GrowsSame DEF StoreOK
<1>2. \A r \in DumpsAndConts : root[r] \in DOMAIN memory /\ root'[r] = root[r]
  BY DumpsAreRegisters DEF StoreOK
<1> QED BY <1>1, <1>2, AllStay, OtherEffect

(* A new node in a register.                                               *)
LEMMA NewEffect ==
  ASSUME NEW i, NEW c, NEW r \in Registers \ {"conts"}, StoreOK(memory, root, born, library),
         c.next \in DOMAIN memory, New(memory, Reg(r), c),
         r # "stck" => i[1] \in {"copy", "list"} /\ i[2] = <<r>> /\ c.next = root[r],
         i[1] \in {"assign", "copy", "list"} => i[2] = <<r>>
  PROVE  Effect(i)
<1>1. /\ Grows(memory, memory') /\ born # 0 /\ root'[r] = born
      /\ born \in DOMAIN memory' /\ memory'[born].next = c.next
      /\ \A q \in Registers : q # r => root'[q] = root[q]
  BY NewGrows
<1>2. ASSUME NEW q \in DumpsAndConts, q # r PROVE Moved(q, 0)
  <2>1. root[q] \in DOMAIN memory /\ root'[q] = root[q]
    BY <1>1, <1>2, DumpsAreRegisters DEF StoreOK
  <2> QED BY <1>1, <2>1, MovedSame
<1>3. Moved("conts", 0)
  BY <1>2, DumpsAreRegisters
<1>4. ASSUME NEW d \in DumpNames PROVE Moved(d, Move(i, d))
  <2>1. CASE d = r
    <3>1. r # "stck" /\ root[r] \in DOMAIN memory
      BY <2>1, DumpsAreRegisters DEF StoreOK
    <3>2. Move(i, d) = 1
      BY <2>1, <3>1 DEF Move
    <3>3. Moved(r, 1)
      BY <1>1, <3>1, MovedUp
    <3> QED BY <2>1, <3>2, <3>3
  <2>2. CASE d # r
    <3>1. <<d>> # <<r>>
      BY <2>2
    <3>2. Move(i, d) = 0
      BY <3>1 DEF Move
    <3> QED BY <1>2, <2>2, <3>2, DumpsAreRegisters
  <2> QED BY <2>1, <2>2
<1> QED BY <1>1, <1>3, <1>4 DEF Effect

LEMMA AssignEffect ==
  ASSUME NEW L, RunOK(L), AssignStep
  PROVE  Effect(Instr)
<1> DEFINE i == Instr
<1>1. /\ Top.code # <<>> /\ i[1] = "assign" /\ Store(memory, i[2], At(i[3]))
  BY DEF AssignStep, Doing, Instr
<1>2. i \in Instructions /\ StoreOK(memory, root, born, library)
  BY <1>1, RunTop DEF RunOK
<1>3. CASE i[2] = stck
  <2>1. memory' = memory /\ root' = [root EXCEPT !["stck"] = At(i[3])]
    BY <1>1, <1>3 DEF Store, stck, Reg
  <2>2. \A r \in DumpsAndConts : root'[r] = root[r]
    BY <1>2, <2>1, DumpsAreRegisters DEF StoreOK
  <2> QED BY <1>2, <1>3, <2>1, <2>2, StoreEffect
<1>4. ASSUME NEW dd \in Dumps, i = POP(dd) PROVE Effect(Instr)
  <2>1. PICK r \in Registers : dd = <<r>> /\ r \in {"dump", "dump1", "dump2", "dump3"}
    BY DEF Dumps, dump, dump1, dump2, dump3, Reg, Registers
  <2>2. next(dd, 1) = Append(dd, "next")
    BY <2>1 DEF next
  <2>3. At(next(dd, 1)) = memory[root[r]].next
    BY <2>1, <2>2, AtRegister, AtHop
  <2>4. i[2] = <<r>> /\ i[3] = next(dd, 1)
    BY <1>4, <2>1 DEF POP, Assign
  <2>5. memory' = memory /\ root' = [root EXCEPT ![r] = memory[root[r]].next]
    BY <1>1, <2>3, <2>4 DEF Store
  <2>6. Grows(memory, memory')
    BY <1>2, <2>5, GrowsSame DEF StoreOK
  <2>7. root'[r] = memory[root[r]].next /\ \A q \in Registers : q # r => root'[q] = root[q]
    BY <1>2, <2>5 DEF StoreOK
  <2>8. ASSUME NEW q \in DumpsAndConts, q # r PROVE Moved(q, 0)
    <3>1. root[q] \in DOMAIN memory /\ root'[q] = root[q]
      BY <1>2, <2>7, <2>8, DumpsAreRegisters DEF StoreOK
    <3> QED BY <2>6, <3>1, MovedSame
  <2>9. Moved("conts", 0)
    BY <2>1, <2>8, DumpsAreRegisters
  <2>10. ASSUME NEW d \in DumpNames PROVE Moved(d, Move(i, d))
    <3>1. CASE d = r
      <4>1. Move(i, d) = -1
        BY <1>1, <2>4, <3>1 DEF Move
      <4>2. Moved(r, -1)
        BY <2>6, <2>7, MovedDown
      <4> QED BY <3>1, <4>1, <4>2
    <3>2. CASE d # r
      <4>1. <<d>> # <<r>>
        BY <3>2
      <4>2. Move(i, d) = 0
        BY <2>4, <4>1 DEF Move
      <4> QED BY <2>8, <3>2, <4>2, DumpsAreRegisters
    <3> QED BY <3>1, <3>2
  <2> QED BY <2>6, <2>9, <2>10 DEF Effect
<1>5. CASE i[2] \in {DMP1, DMP3}
  <2>1. PICK r \in Registers : i[2] = Append(<<r>>, "lis")
    BY <1>5 DEF DMP1, DMP3, lis, dump1, dump3, Reg, Registers
  <2>2. Front(i[2]) = <<r>> /\ Last(i[2]) = "lis" /\ Len(i[2]) = 2
    BY <2>1, FrontOfHop
  <2>3. At(Front(i[2])) = root[r]
    BY <2>2, AtRegister
  <2> DEFINE m == root[r]
             v == At(i[3])
  <2>4. memory' = [memory EXCEPT ![m].u = v] /\ root' = root
    BY <1>1, <2>2, <2>3 DEF Store
  <2>5. m \in DOMAIN memory /\ IsCell(memory[m])
    BY <1>2 DEF StoreOK, Sound, CellIn
  <2> HIDE DEF m, v
  <2>6. DOMAIN memory' = DOMAIN memory /\ memory'[m] = [memory[m] EXCEPT !.u = v]
        /\ \A n \in DOMAIN memory : n # m => memory'[n] = memory[n]
    BY <2>4, <2>5
  <2>7. memory'[m].next = memory[m].next
    BY <2>5, <2>6 DEF IsCell
  <2>8. \A n \in DOMAIN memory : memory'[n].next = memory[n].next
    BY <2>6, <2>7
  <2>9. Grows(memory, memory')
    BY <1>2, <2>6, <2>8, GrowsSame DEF StoreOK
  <2>10. \A r2 \in DumpsAndConts : root[r2] \in DOMAIN memory /\ root'[r2] = root[r2]
    BY <1>2, <2>4, DumpsAreRegisters DEF StoreOK
  <2> QED BY <1>5, <2>9, <2>10, AllStay, OtherEffect
<1> QED BY <1>1, <1>2, <1>3, <1>4, <1>5, Forms

LEMMA CopyEffect ==
  ASSUME NEW L, RunOK(L), CopyStep
  PROVE  Effect(Instr)
<1> DEFINE i == Instr
           c == [memory[At(i[3])] EXCEPT !.next = At(i[4])]
<1>1. /\ Top.code # <<>> /\ i[1] = "copy" /\ New(memory, i[2], c)
  BY DEF CopyStep, Doing, Instr
<1>2. i \in Instructions /\ StoreOK(memory, root, born, library)
  BY <1>1, RunTop DEF RunOK
<1>3. \/ i[2] = stck /\ i[3] \in Operands /\ i[4] \in Operands
      \/ i[2] = dump2 /\ i[3] \in Operands /\ i[4] = dump2
  BY <1>1, <1>2, Forms
<1>4. i[3] \in Operands /\ i[4] \in Operands
  BY <1>3, NamedPaths, NamedOperands
<1>5. At(i[3]) \in DOMAIN memory /\ At(i[4]) \in DOMAIN memory
  BY <1>2, <1>4, OperandLive
<1>6. c.next = At(i[4])
  BY <1>2, <1>5, RegisterLive DEF CellIn, IsCell
<1> HIDE DEF c
<1>7. CASE i[2] = stck
  BY <1>1, <1>2, <1>5, <1>6, <1>7, NewEffect, RegisterNames DEF stck, Reg
<1>8. CASE i[2] = dump2 /\ i[4] = dump2
  <2>1. c.next = root["dump2"]
    BY <1>6, <1>8, AtRegister, RegisterNames DEF dump2, Reg
  <2> QED BY <1>1, <1>2, <1>5, <1>6, <1>8, <2>1, NewEffect, RegisterNames DEF dump2, Reg
<1> QED BY <1>3, <1>7, <1>8

LEMMA ListEffect ==
  ASSUME NEW L, RunOK(L), ListStep
  PROVE  Effect(Instr)
<1> DEFINE i == Instr
           c == Cell("LIST", At(i[3]), At(i[4]))
<1>1. /\ Top.code # <<>> /\ i[1] = "list" /\ New(memory, i[2], c)
  BY DEF ListStep, Doing, Instr
<1>2. i \in Instructions /\ StoreOK(memory, root, born, library)
  BY <1>1, RunTop DEF RunOK
<1>3. \/ i[2] = stck /\ i[3] \in Operands /\ i[4] \in Operands
      \/ i[2] \in Dumps /\ i[3] \in Operands /\ i[4] = i[2]
  BY <1>1, <1>2, Forms
<1>4. i[4] \in Operands
  BY <1>3, NamedPaths, NamedOperands DEF Dumps
<1>5. At(i[4]) \in DOMAIN memory
  BY <1>2, <1>4, OperandLive
<1>6. c.next = At(i[4])
  BY DEF Cell
<1> HIDE DEF c
<1>7. CASE i[2] = stck
  BY <1>1, <1>2, <1>5, <1>6, <1>7, NewEffect, RegisterNames DEF stck, Reg
<1>8. CASE i[2] \in Dumps /\ i[4] = i[2]
  <2>1. PICK r \in Registers \ {"conts", "stck"} : i[2] = Reg(r)
    BY <1>8, RegisterNames DEF Dumps, dump, dump1, dump2, dump3
  <2>2. c.next = root[r]
    BY <1>6, <1>8, <2>1, AtRegister DEF Reg
  <2> QED BY <1>1, <1>2, <1>5, <1>6, <2>1, <2>2, NewEffect DEF Reg
<1> QED BY <1>3, <1>7, <1>8

LEMMA NumberEffect ==
  ASSUME NEW L, RunOK(L), NumberStep
  PROVE  Effect(Instr)
<1> DEFINE i == Instr
           c == Cell(Value(i[2])[1], Value(i[2])[2], At(i[3]))
<1>1. /\ Top.code # <<>> /\ i[1] = "number" /\ New(memory, Reg("stck"), c)
  BY DEF NumberStep, Doing, Instr, stck
<1>2. i \in Instructions /\ StoreOK(memory, root, born, library)
  BY <1>1, RunTop DEF RunOK
<1>3. At(i[3]) \in DOMAIN memory
  BY <1>1, <1>2, Forms, OperandLive
<1>4. c.next = At(i[3])
  BY DEF Cell
<1> HIDE DEF c
<1> QED BY <1>1, <1>2, <1>3, <1>4, NewEffect, RegisterNames

LEMMA FunctionEffect ==
  ASSUME NEW L, RunOK(L), FunctionStep
  PROVE  Effect(Instr)
<1>1. Instr[1] = "function" /\ root' = [root EXCEPT !.stck = born + 1]
  BY DEF FunctionStep, Doing, Instr
<1>2. StoreOK(memory, root, born, library)
  BY DEF RunOK
<1> DEFINE f == Cell("ANON_FUNCT", Instr[2], 0)
           c == Cell("LIST", born, root.stck)
<1>3. f.next \in DOMAIN memory /\ c.next \in DOMAIN memory
  BY <1>2, RegisterLive DEF Cell
<1>4. /\ memory' = [n \in DOMAIN memory \cup {born, born + 1} |-> memory'[n]]
      /\ memory'[born] = f /\ memory'[born + 1] = c
      /\ \A n \in DOMAIN memory : memory'[n] = memory[n]
  BY <1>2 DEF FunctionStep, StoreOK, Sound
<1> HIDE DEF f, c
<1>5. Grows(memory, memory') /\ \A r \in DumpsAndConts : Moved(r, 0)
  BY <1>1, <1>2, <1>3, <1>4, TwoGrow
<1> QED BY <1>1, <1>5, OtherEffect

LEMMA ConsEffect ==
  ASSUME NEW L, RunOK(L), ConsStep
  PROVE  Effect(Instr)
<1>1. Instr[1] = "cons" /\ root' = [root EXCEPT !.stck = born + 1]
  BY DEF ConsStep, Doing, Instr
<1>2. StoreOK(memory, root, born, library)
  BY DEF RunOK
<1> DEFINE f == [memory[At(S(1))] EXCEPT !.next = Lis(root.stck)]
           c == Cell("LIST", born, At(S(2)))
<1>3. S(1) \in Operands /\ S(2) \in Operands
  BY NamedPaths, NamedOperands
<1>4. At(S(1)) \in DOMAIN memory /\ At(S(2)) \in DOMAIN memory
  BY <1>2, <1>3, OperandLive
<1>5. f.next = Lis(root.stck) /\ Lis(root.stck) \in DOMAIN memory
  BY <1>2, <1>4, RegisterLive DEF CellIn, IsCell
<1>6. c.next \in DOMAIN memory
  BY <1>4 DEF Cell
<1>7. /\ memory' = [n \in DOMAIN memory \cup {born, born + 1} |-> memory'[n]]
      /\ memory'[born] = f /\ memory'[born + 1] = c
      /\ \A n \in DOMAIN memory : memory'[n] = memory[n]
  BY <1>2 DEF ConsStep, StoreOK, Sound
<1> HIDE DEF f, c
<1>8. Grows(memory, memory') /\ \A r \in DumpsAndConts : Moved(r, 0)
  BY <1>1, <1>2, <1>5, <1>6, <1>7, TwoGrow
<1> QED BY <1>1, <1>8, OtherEffect

-----------------------------------------------------------------------------
(* The steps of a command keep the balance.                                *)

Unfailing == frontend' = frontend /\ failed' = failed /\ aborted' = aborted

LEMMA NotExecTerm ==
  ASSUME Typed, NEW L, Run(frames, L)
  PROVE  /\ "exec_term" \notin Frontends /\ "builtin" \notin Frontends
         /\ Top.code # <<>> \/ Top.fn \in {"builtin", frontend} => Top.fn # "exec_term"
         /\ Calls(frames) \in Nat
<1>1. Frontends \subseteq {"repl", "joy_eval_string"} /\ frontend \in Frontends
  BY InterpreterAssumption DEF Typed
<1>2. Top.code # <<>> => Top.fn \in {"builtin", frontend}
  BY RunTop
<1>3. Calls(frames) \in Nat
  BY AtopTop, CallsAtop
<1> QED BY <1>1, <1>2, <1>3

LEMMA SumsNat ==
  ASSUME NEW L, Run(frames, L), NEW d, NEW k, Sums(frames, d, k)
  PROVE  k \in Nat
BY AtopTop, SumsOff

LEMMA StillBalanced ==
  ASSUME Balanced, Unfailing,
         \A d \in DumpNames : \A k : Sums(frames, d, k) => Sums(frames', d, k),
         \A r \in DumpsAndConts : Moved(r, 0), NEW L, Run(frames, L), Typed,
         Calls(frames') = Calls(frames)
  PROVE  Balanced'
<1>1. ASSUME NEW d \in DumpNames PROVE Shifted(d, 0) /\ Moved(d, 0)
  <2>1. ASSUME NEW k, Sums(frames, d, k) PROVE k + 0 \in Nat /\ Sums(frames', d, k + 0)
    <3>1. k \in Nat /\ Sums(frames', d, k)
      BY <2>1, SumsNat
    <3>2. k + 0 = k
      BY <3>1
    <3> QED BY <3>1, <3>2
  <2> QED BY <2>1, DumpsAreRegisters DEF Shifted
<1>2. Moved("conts", 0) /\ Calls(frames) \in Nat /\ 0 \in Int
  BY DumpsAreRegisters, NotExecTerm
<1>3. Calls(frames') \in Nat /\ Calls(frames') = Calls(frames) + 0
  BY <1>2
<1> QED BY <1>1, <1>2, <1>3, BalanceStep DEF Unfailing

LEMMA AdvanceBalanced ==
  ASSUME NEW L, RunOK(L), Typed, Balanced, Unfailing, Top.code # <<>>, Instr[1] # "if",
         NEW g, g.fn = Top.fn, g.code = Tail(Top.code), frames' = [frames EXCEPT ![1] = g],
         Effect(Instr)
  PROVE  Balanced'
<1>1. Run(frames, L) /\ Atop(frames, Top, Tail(frames)) /\ Atop(frames', g, Tail(frames))
  BY AtopTop, AtopExcept DEF RunOK
<1>2. Top.fn # "exec_term" /\ Calls(frames) \in Nat
  BY <1>1, NotExecTerm
<1>3. ASSUME NEW d \in DumpNames
      PROVE  Move(Instr, d) \in Int /\ Shifted(d, Move(Instr, d)) /\ Moved(d, Move(Instr, d))
  <2> DEFINE n == Move(Instr, d)
  <2>1. n \in Int
    BY DEF Move
  <2>2. \A j \in Nat : Owes(Top, d, j) => j + n \in Nat /\ Owes(g, d, j + n)
    BY <1>2, OwesAdvance DEF Instr
  <2> HIDE DEF n
  <2>3. \A k : Sums(frames, d, k) => k + n \in Nat /\ Sums(frames', d, k + n)
    BY <1>1, <2>1, <2>2, SumsTop
  <2> QED BY <2>1, <2>3 DEF Shifted, Effect, n
<1>4. Moved("conts", 0) /\ Calls(frames') = Calls(frames) + 0 /\ 0 \in Int
      /\ Calls(frames') \in Nat
  <2>1. Calls(frames') = Calls(Tail(frames)) + 0 /\ Calls(frames) = Calls(Tail(frames)) + 0
    BY <1>1, <1>2, CallsAtop
  <2>2. Calls(frames') = Calls(frames)
    BY <2>1
  <2> QED BY <1>2, <2>2 DEF Effect
<1> QED BY <1>2, <1>3, <1>4, BalanceStep DEF Unfailing

LEMMA InnerBalanced ==
  ASSUME NEW L, RunOK(L), Typed, Balanced, Unfailing, UNCHANGED store, Top.code # <<>>,
         NEW g, g.fn = Top.fn, frames' = [frames EXCEPT ![1] = g],
         \A d \in DumpNames : \A j : Owes(Top, d, j) => Owes(g, d, j)
  PROVE  Balanced'
<1>1. Run(frames, L) /\ Atop(frames, Top, Tail(frames)) /\ Atop(frames', g, Tail(frames))
  BY AtopTop, AtopExcept DEF RunOK
<1>2. Top.fn # "exec_term"
  BY <1>1, NotExecTerm
<1>3. ASSUME NEW d \in DumpNames, NEW k, Sums(frames, d, k) PROVE Sums(frames', d, k)
  <2>1. PICK m \in Nat : m <= k /\ Sums(Tail(frames), d, m) /\ Owes(Top, d, k - m)
    BY <1>1, <1>3, SumsOff
  <2>2. k \in Nat /\ (Tail(frames) # <<>> => Top.fn \notin Frontends)
    BY <1>1, <1>3, SumsOff
  <2> DEFINE j == k - m
  <2>3. j \in Nat /\ m + j = k /\ Owes(g, d, j)
    BY <2>1, <2>2
  <2> HIDE DEF j
  <2>4. Sums(frames', d, m + j)
    BY <1>1, <2>1, <2>2, <2>3, SumsOn
  <2> QED BY <2>3, <2>4
<1>4. Calls(frames') = Calls(frames)
  BY <1>1, <1>2, CallsAtop
<1>5. \A r \in DumpsAndConts : Moved(r, 0)
  <2>1. memory' = memory /\ root' = root /\ Grows(memory, memory')
    BY GrowsSame DEF store, RunOK, StoreOK
  <2>2. \A r \in DumpsAndConts : root[r] \in DOMAIN memory
    BY DumpsAreRegisters DEF RunOK, StoreOK
  <2> QED BY <2>1, <2>2, AllStay
<1> QED BY <1>1, <1>3, <1>4, <1>5, StillBalanced

LEMMA PushBalanced ==
  ASSUME NEW L, Run(frames, L), NEW fr, Run(fr, L), Typed, NEW f, NEW d,
         NEW k, k \in Nat, Sums(fr, d, k), Owes(f, d, 0), f.fn \notin Frontends
  PROVE  Sums(<<f>> \o fr, d, k)
<1>1. Atop(<<f>> \o fr, f, fr)
  BY AtopPush
<1>2. Sums(<<f>> \o fr, d, k + 0) /\ k + 0 = k
  BY <1>1, SumsOn
<1> QED BY <1>2

(* exec_term is called with callers that owe what the C stack owes now.     *)
LEMMA ExecTermBalanced ==
  ASSUME NEW L, RunOK(L), Typed, Balanced, Unfailing, NEW mem, DOMAIN mem = DOMAIN memory,
         \A n \in DOMAIN memory : mem[n].next = memory[n].next,
         NEW n, NEW fr, Run(fr, L), exec_term(mem, n, fr),
         \A d \in DumpNames : \A k : Sums(frames, d, k) => Sums(fr, d, k),
         Calls(fr) = Calls(frames)
  PROVE  Balanced'
<1>1. Run(frames, L) /\ StoreOK(memory, root, born, library)
  BY DEF RunOK
<1>2. CASE n = 0
  <2>1. frames' = fr /\ memory' = mem /\ root' = root
    BY <1>2 DEF exec_term
  <2>2. Grows(memory, memory')
    BY <1>1, <2>1, GrowsSame DEF StoreOK
  <2>3. \A r \in DumpsAndConts : root[r] \in DOMAIN memory /\ root'[r] = root[r]
    BY <1>1, <2>1, DumpsAreRegisters DEF StoreOK
  <2>4. \A r \in DumpsAndConts : Moved(r, 0)
    BY <2>2, <2>3, AllStay
  <2> QED BY <1>1, <2>1, <2>4, StillBalanced
<1>3. CASE n # 0
  <2> DEFINE f == Activation("exec_term", <<>>)
             c == Cell("LIST", n, root.conts)
  <2>1. frames' = <<f>> \o fr /\ New(mem, Reg("conts"), c)
    BY <1>3 DEF exec_term
  <2>2. f.fn = "exec_term" /\ \A d : Owes(f, d, 0)
    BY DEF Activation, Owes
  <2>3. c.next = root.conts /\ root.conts \in DOMAIN memory
    BY <1>1, RegisterLive DEF Cell
  <2> HIDE DEF f, c
  <2>4. /\ Grows(memory, memory') /\ born # 0 /\ root'["conts"] = born
        /\ born \in DOMAIN memory' /\ memory'[born].next = c.next
        /\ \A q \in Registers : q # "conts" => root'[q] = root[q]
    BY <1>1, <2>1, <2>3, NewGrows, RegisterNames
  <2>5. Moved("conts", 1)
    BY <2>3, <2>4, MovedUp
  <2>6. ASSUME NEW d \in DumpNames PROVE Shifted(d, 0) /\ Moved(d, 0)
    <3>1. root[d] \in DOMAIN memory /\ root'[d] = root[d]
      <4>1. d # "conts" /\ d \in Registers
        BY DumpsAreRegisters DEF DumpNames
      <4> QED BY <1>1, <2>4, <4>1 DEF StoreOK
    <3>2. ASSUME NEW k, Sums(frames, d, k) PROVE k + 0 \in Nat /\ Sums(frames', d, k + 0)
      <4>1. k \in Nat /\ Sums(fr, d, k)
        BY <1>1, <3>2, SumsNat
      <4>2. k + 0 = k /\ "exec_term" \notin Frontends
        BY <1>1, <4>1, NotExecTerm
      <4>3. Sums(frames', d, k)
        BY <1>1, <2>1, <2>2, <4>1, <4>2, PushBalanced
      <4> QED BY <4>1, <4>2, <4>3
    <3> QED BY <2>4, <3>1, <3>2, MovedSame DEF Shifted
  <2>7. Calls(frames) \in Nat /\ Calls(frames') = Calls(frames) + 1
    <3>1. Atop(frames', f, fr)
      BY <2>1, AtopPush
    <3> QED BY <1>1, <2>2, <3>1, CallsAtop, NotExecTerm
  <2>8. Calls(frames') \in Nat /\ 0 \in Int /\ 1 \in Int
    BY <2>7
  <2> QED BY <2>5, <2>6, <2>7, <2>8, BalanceStep DEF Unfailing
<1> QED BY <1>2, <1>3

LEMMA TopChanged ==
  ASSUME NEW L, Run(frames, L), NEW c
  PROVE  /\ \E g : /\ g.fn = Top.fn /\ g.code = c
                   /\ [frames EXCEPT ![1].code = c] = [frames EXCEPT ![1] = g]
         /\ \A n : \E g : /\ g.fn = Top.fn /\ g.code = c
                          /\ [frames EXCEPT ![1].code = c, ![1].local = n]
                               = [frames EXCEPT ![1] = g]
<1>1. Top = [fn |-> Top.fn, code |-> Top.code, local |-> Top.local] /\ frames[1] = Top
  BY RunTop DEF RunFrames
<1> DEFINE g == [Top EXCEPT !.code = c]
<1>2. g.fn = Top.fn /\ g.code = c
  BY <1>1
<1>3. [frames EXCEPT ![1].code = c] = [frames EXCEPT ![1] = g]
  BY <1>1
<1>4. ASSUME NEW n
      PROVE  LET h == [Top EXCEPT !.code = c, !.local = n] IN
             /\ h.fn = Top.fn /\ h.code = c
             /\ [frames EXCEPT ![1].code = c, ![1].local = n] = [frames EXCEPT ![1] = h]
  BY <1>1
<1> HIDE DEF g
<1> QED BY <1>2, <1>3, <1>4

LEMMA ErrorBalanced ==
  ASSUME execerror
  PROVE  Balanced'
BY DEF execerror, Balanced

LEMMA QuietUnfailing ==
  ASSUME Quiet
  PROVE  Unfailing
BY DEF Quiet, Executing, Unfailing, session, verdict

LEMMA AdvanceStepBalanced ==
  ASSUME NEW L, RunOK(L), Typed, Balanced, Unfailing, Top.code # <<>>, Instr[1] # "if",
         Advance, Effect(Instr)
  PROVE  Balanced'
<1>1. PICK g : /\ g.fn = Top.fn /\ g.code = Tail(Top.code)
               /\ [frames EXCEPT ![1].code = Tail(Top.code)] = [frames EXCEPT ![1] = g]
  BY TopChanged DEF RunOK
<1>2. frames' = [frames EXCEPT ![1] = g]
  BY <1>1 DEF Advance, Goto
<1> QED BY <1>1, <1>2, AdvanceBalanced

LEMMA RequireBalanced ==
  ASSUME NEW L, RunOK(L), Typed, Balanced, RequireStep
  PROVE  Balanced'
<1>1. Top.code # <<>> /\ Instr[1] = "require" /\ frontend' = frontend
  BY DEF RequireStep, Doing, Instr, Executing, session
<1>2. CASE execerror
  BY <1>2, ErrorBalanced
<1>3. CASE Advance /\ UNCHANGED <<store, verdict>>
  <2>1. Unfailing /\ memory' = memory /\ root' = root
    BY <1>1, <1>3 DEF Unfailing, verdict, store
  <2>2. Effect(Instr)
    BY <1>1, <2>1, StoreEffect DEF RunOK
  <2> QED BY <1>1, <1>3, <2>1, <2>2, AdvanceStepBalanced
<1> QED BY <1>2, <1>3 DEF RequireStep

LEMMA MovesBalanced ==
  ASSUME NEW L, RunOK(L), Typed, Balanced,
         AssignStep \/ CopyStep \/ ListStep \/ NumberStep \/ FunctionStep \/ ConsStep
  PROVE  Balanced'
<1>1. CASE AssignStep
  <2>1. Top.code # <<>> /\ Instr[1] = "assign" /\ Advance /\ Unfailing
    BY <1>1, QuietUnfailing DEF AssignStep, Doing, Instr
  <2> QED BY <1>1, <2>1, AssignEffect, AdvanceStepBalanced
<1>2. CASE CopyStep
  <2>1. Top.code # <<>> /\ Instr[1] = "copy" /\ Advance /\ Unfailing
    BY <1>2, QuietUnfailing DEF CopyStep, Doing, Instr
  <2> QED BY <1>2, <2>1, CopyEffect, AdvanceStepBalanced
<1>3. CASE ListStep
  <2>1. Top.code # <<>> /\ Instr[1] = "list" /\ Advance /\ Unfailing
    BY <1>3, QuietUnfailing DEF ListStep, Doing, Instr
  <2> QED BY <1>3, <2>1, ListEffect, AdvanceStepBalanced
<1>4. CASE NumberStep
  <2>1. Top.code # <<>> /\ Instr[1] = "number" /\ Advance /\ Unfailing
    BY <1>4, QuietUnfailing DEF NumberStep, Doing, Instr
  <2> QED BY <1>4, <2>1, NumberEffect, AdvanceStepBalanced
<1>5. CASE FunctionStep
  <2>1. Top.code # <<>> /\ Instr[1] = "function" /\ Advance /\ Unfailing
    BY <1>5, QuietUnfailing DEF FunctionStep, Doing, Instr
  <2> QED BY <1>5, <2>1, FunctionEffect, AdvanceStepBalanced
<1>6. CASE ConsStep
  <2>1. Top.code # <<>> /\ Instr[1] = "cons" /\ Advance /\ Unfailing
    BY <1>6, QuietUnfailing DEF ConsStep, Doing, Instr
  <2> QED BY <1>6, <2>1, ConsEffect, AdvanceStepBalanced
<1> QED BY <1>1, <1>2, <1>3, <1>4, <1>5, <1>6

LEMMA PrintBalanced ==
  ASSUME NEW L, RunOK(L), Typed, Balanced, PrintStep
  PROVE  Balanced'
<1>1. /\ Top.code # <<>> /\ Instr[1] = "print" /\ Advance /\ Unfailing /\ memory' = memory
      /\ root' \in {root, [root EXCEPT !["stck"] = memory[root.stck].next]}
  BY QuietUnfailing DEF PrintStep, Doing, Instr
<1>2. \A r \in DumpsAndConts : root'[r] = root[r]
  BY <1>1, DumpsAreRegisters DEF RunOK, StoreOK
<1>3. Effect(Instr)
  BY <1>1, <1>2, StoreEffect DEF RunOK
<1> QED BY <1>1, <1>3, AdvanceStepBalanced

LEMMA LocalBalanced ==
  ASSUME NEW L, RunOK(L), Typed, Balanced, LocalStep
  PROVE  Balanced'
<1>1. Top.code # <<>> /\ UNCHANGED store /\ Instr[1] \in {"result", "setcount", "count"}
      /\ Unfailing /\ \E n : frames' = [frames EXCEPT ![1].code = Tail(@), ![1].local = n]
  BY QuietUnfailing DEF LocalStep, Doing, Instr, Local
<1>2. PICK n : frames' = [frames EXCEPT ![1].code = Tail(@), ![1].local = n]
  BY <1>1
<1>3. frames[1] = Top
  BY RunTop DEF RunOK
<1>4. frames' = [frames EXCEPT ![1].code = Tail(Top.code), ![1].local = n]
  BY <1>2, <1>3
<1> DEFINE c == Tail(Top.code)
<1>5. frames' = [frames EXCEPT ![1].code = c, ![1].local = n]
  BY <1>4
<1> HIDE DEF c
<1>6. \A k : \E g : /\ g.fn = Top.fn /\ g.code = c
                     /\ [frames EXCEPT ![1].code = c, ![1].local = k]
                          = [frames EXCEPT ![1] = g]
  BY TopChanged DEF RunOK
<1>7. PICK g : g.fn = Top.fn /\ g.code = c /\ frames' = [frames EXCEPT ![1] = g]
  BY <1>5, <1>6
<1>8. Effect(Instr)
  BY <1>1, StoreEffect DEF RunOK, store
<1> QED BY <1>1, <1>7, <1>8, AdvanceBalanced DEF c

LEMMA ExecBalanced ==
  ASSUME NEW L, RunOK(L), Typed, Balanced, ExecStep
  PROVE  Balanced'
<1> DEFINE fr == [frames EXCEPT ![1].code = Tail(@)]
<1>1. /\ Top.code # <<>> /\ Instr[1] = "exec" /\ exec_term(memory, At(Instr[2]), fr)
      /\ Unfailing
  BY QuietUnfailing DEF ExecStep, Doing, Instr
<1>2. /\ Run(frames, L) /\ Tail(Top.code) \in Seq(Instructions) /\ frames[1] = Top
  BY <1>1, RunTop DEF RunOK
<1>3. fr = [frames EXCEPT ![1].code = Tail(Top.code)]
  BY <1>2
<1>4. Run(fr, L)
  BY <1>1, <1>2, <1>3, RunGoto
<1> HIDE DEF fr
<1>5. PICK g : g.fn = Top.fn /\ g.code = Tail(Top.code) /\ fr = [frames EXCEPT ![1] = g]
  BY <1>2, <1>3, TopChanged
<1>6. Atop(frames, Top, Tail(frames)) /\ Atop(fr, g, Tail(frames))
  BY <1>2, <1>5, AtopTop, AtopExcept
<1>7. Top.fn # "exec_term"
  BY <1>1, <1>2, NotExecTerm
<1>8. ASSUME NEW d \in DumpNames, NEW k, Sums(frames, d, k) PROVE Sums(fr, d, k)
  <2>1. Move(Instr, d) = 0
    BY <1>1 DEF Move
  <2>2. \A j \in Nat : Owes(Top, d, j) => j + 0 \in Nat /\ Owes(g, d, j + 0)
    BY <1>1, <1>5, <1>7, <2>1, OwesAdvance DEF Instr
  <2>3. k \in Nat /\ Sums(fr, d, k + 0)
    BY <1>2, <1>5, <1>6, <1>8, <2>2, SumsTop, SumsNat
  <2>4. k + 0 = k
    BY <2>3
  <2> QED BY <2>3, <2>4
<1>9. Calls(fr) = Calls(frames)
  BY <1>5, <1>6, CallsAtop
<1> QED BY <1>1, <1>4, <1>8, <1>9, ExecTermBalanced

LEMMA GotoBalanced ==
  ASSUME NEW L, RunOK(L), Typed, Balanced, Unfailing, UNCHANGED store, Top.code # <<>>,
         NEW c, Goto(c),
         \A g : g.fn = Top.fn /\ g.code = c =>
           \A d \in DumpNames : \A j : Owes(Top, d, j) => Owes(g, d, j)
  PROVE  Balanced'
<1>1. PICK g : /\ g.fn = Top.fn /\ g.code = c
               /\ [frames EXCEPT ![1].code = c] = [frames EXCEPT ![1] = g]
  BY TopChanged DEF RunOK
<1>2. frames' = [frames EXCEPT ![1] = g]
  BY <1>1 DEF Goto
<1> QED BY <1>1, <1>2, InnerBalanced

LEMMA IfBalanced ==
  ASSUME NEW L, RunOK(L), Typed, Balanced, IfStep
  PROVE  Balanced'
<1> DEFINE x == IF Holds(Instr[2]) THEN Instr[3] ELSE Instr[4]
<1>1. Top.code # <<>> /\ Instr[1] = "if" /\ Goto(x \o Tail(Top.code)) /\ UNCHANGED store
      /\ Unfailing /\ x \in {Instr[3], Instr[4]}
  BY QuietUnfailing DEF IfStep, Doing, Instr
<1> HIDE DEF x
<1>2. Top.fn # "exec_term"
  BY <1>1, NotExecTerm DEF RunOK
<1>3. \A g : g.fn = Top.fn /\ g.code = x \o Tail(Top.code) =>
        \A d \in DumpNames : \A j : Owes(Top, d, j) => Owes(g, d, j)
  BY <1>1, <1>2, OwesIf DEF Instr
<1> QED BY <1>1, <1>3, GotoBalanced

LEMMA LoopBalanced ==
  ASSUME NEW L, RunOK(L), Typed, Balanced, LoopStep
  PROVE  Balanced'
<1>1. Top.code # <<>> /\ Instr[1] = "loop" /\ UNCHANGED store /\ Unfailing
      /\ (Goto(Instr[3] \o Top.code) \/ Advance)
  BY QuietUnfailing DEF LoopStep, Doing, Instr
<1>2. Top.fn # "exec_term"
  BY <1>1, NotExecTerm DEF RunOK
<1>3. CASE Advance
  <2>1. Effect(Instr)
    BY <1>1, StoreEffect DEF RunOK, store
  <2> QED BY <1>1, <1>3, <2>1, AdvanceStepBalanced
<1>4. CASE Goto(Instr[3] \o Top.code)
  <2>1. \A g : g.fn = Top.fn /\ g.code = Instr[3] \o Top.code =>
          \A d \in DumpNames : \A j : Owes(Top, d, j) => Owes(g, d, j)
    BY <1>1, <1>2, OwesLoop DEF Instr
  <2> QED BY <1>1, <1>4, <2>1, GotoBalanced
<1> QED BY <1>1, <1>3, <1>4

LEMMA BreakBalanced ==
  ASSUME NEW L, RunOK(L), Typed, Balanced, BreakStep
  PROVE  Balanced'
<1> DEFINE I    == {i \in 1 .. Len(Top.code) : Top.code[i][1] = "loop"}
           loop == IF I # {} THEN Min(I) ELSE 0
           c    == SubSeq(Top.code, loop + 1, Len(Top.code))
<1>1. Top.code # <<>> /\ Instr[1] = "break" /\ Goto(c) /\ UNCHANGED store /\ Unfailing
  BY QuietUnfailing DEF BreakStep, Doing, Instr, SelectInSeq
<1>2. Top.code \in Seq(Instructions) /\ Len(Top.code) \in Nat
  BY <1>1, RunTop, LenProperties DEF RunOK
<1>3. Top.fn # "exec_term"
  BY <1>1, NotExecTerm DEF RunOK
<1>4. ASSUME NEW g, g.fn = Top.fn, g.code = c, NEW d \in DumpNames, NEW j, Owes(Top, d, j)
      PROVE  Owes(g, d, j)
  <2>1. CASE I # {}
    <3>1. /\ loop \in 1 .. Len(Top.code) /\ Top.code[loop][1] = "loop"
          /\ \A k \in 1 .. Len(Top.code) : Top.code[k][1] = "loop" => loop <= k
      <4>1. I \subseteq 1 .. Len(Top.code)
        OBVIOUS
      <4> HIDE DEF I
      <4>2. loop \in I /\ \A k \in I : loop <= k
        BY <1>2, <2>1, <4>1, MinLeast
      <4> QED BY <4>2 DEF I
    <3> HIDE DEF loop
    <3> QED BY <1>1, <1>3, <1>4, <3>1, OwesBreak DEF Instr
  <2>2. CASE I = {}
    <3>1. c = SubSeq(Top.code, 1, Len(Top.code))
      BY <2>2
    <3>2. c = Top.code
      <4> DEFINE n == Len(Top.code)
      <4>1. 1 \in Int /\ n \in Int /\ \A k \in 1 .. n : Top.code[k] \in Instructions
        BY <1>2, ElementOfSeq
      <4>2. /\ SubSeq(Top.code, 1, n) \in Seq(Instructions)
            /\ Len(SubSeq(Top.code, 1, n)) = IF 1 <= n THEN n - 1 + 1 ELSE 0
            /\ \A k \in 1 .. n - 1 + 1 : SubSeq(Top.code, 1, n)[k] = Top.code[1 + k - 1]
        BY <4>1, SubSeqProperties
      <4> DEFINE s == SubSeq(Top.code, 1, n)
      <4> HIDE DEF s
      <4>3. s \in Seq(Instructions) /\ Len(s) = n
        BY <1>2, <4>2 DEF s
      <4>4. \A k \in 1 .. n : s[k] = Top.code[k]
        BY <1>2, <4>2 DEF s
      <4>5. s = Top.code
        BY <1>2, <4>3, <4>4, SeqEqual
      <4> QED BY <3>1, <4>5 DEF s
    <3> HIDE DEF c
    <3> QED BY <1>3, <1>4, <3>2 DEF Owes
  <2> QED BY <2>1, <2>2
<1> HIDE DEF c
<1> QED BY <1>1, <1>4, GotoBalanced

LEMMA CallBalanced ==
  ASSUME NEW L, RunOK(L), Typed, Balanced, CallStep
  PROVE  Balanced'
<1>1. Top.code # <<>> /\ Instr[1] = "call" /\ UNCHANGED store /\ Unfailing
      /\ Goto(Static[Instr[2]] \o Tail(Top.code))
  BY QuietUnfailing DEF CallStep, Doing, Instr
<1>2. Top.fn # "exec_term"
  BY <1>1, NotExecTerm DEF RunOK
<1>3. Instr[2] \in Statics
  BY <1>1, RunTop, Forms DEF RunOK
<1>4. \A g : g.fn = Top.fn /\ g.code = Static[Instr[2]] \o Tail(Top.code) =>
        \A d \in DumpNames : \A j : Owes(Top, d, j) => Owes(g, d, j)
  BY <1>1, <1>2, <1>3, OwesCall DEF Instr
<1> QED BY <1>1, <1>4, GotoBalanced

LEMMA ReturnBalanced ==
  ASSUME NEW L, RunOK(L), Typed, Balanced, Return
  PROVE  Balanced'
<1>1. /\ Top.fn \in {"builtin", frontend} /\ Top.code = <<>> /\ UNCHANGED store
      /\ frames' = Tail(frames) /\ Unfailing
  BY QuietUnfailing DEF Return
<1>2. Atop(frames, Top, Tail(frames)) /\ Top.fn # "exec_term" /\ Run(frames, L)
  BY <1>1, AtopTop, NotExecTerm DEF RunOK
<1>3. ASSUME NEW d \in DumpNames, NEW k, Sums(frames, d, k) PROVE Sums(frames', d, k)
  <2>1. PICK m \in Nat : m <= k /\ Sums(Tail(frames), d, m) /\ Owes(Top, d, k - m)
    BY <1>2, <1>3, SumsOff
  <2>2. k \in Nat /\ k - m = 0
    BY <1>1, <1>2, <1>3, <2>1, OwesNothing, SumsNat
  <2>3. k = m
    BY <2>2
  <2> QED BY <1>1, <2>1, <2>3
<1>4. Calls(frames') = Calls(frames)
  BY <1>1, <1>2, CallsAtop
<1>5. \A r \in DumpsAndConts : Moved(r, 0)
  <2>1. memory' = memory /\ root' = root /\ Grows(memory, memory')
    BY <1>1, GrowsSame DEF store, RunOK, StoreOK
  <2>2. \A r \in DumpsAndConts : root[r] \in DOMAIN memory
    BY DumpsAreRegisters DEF RunOK, StoreOK
  <2> QED BY <2>1, <2>2, AllStay
<1> QED BY <1>1, <1>2, <1>3, <1>4, <1>5, StillBalanced

-----------------------------------------------------------------------------
(* Links are added and never changed while a command is executed.           *)

LEMMA ExecTermGrows ==
  ASSUME StoreOK(memory, root, born, library), NEW mem, DOMAIN mem = DOMAIN memory,
         \A n \in DOMAIN memory : mem[n].next = memory[n].next,
         NEW n, NEW fr, exec_term(mem, n, fr)
  PROVE  Grows(memory, memory')
<1>1. CASE n = 0
  BY <1>1, GrowsSame DEF exec_term, StoreOK
<1>2. CASE n # 0
  <2> DEFINE c == Cell("LIST", n, root.conts)
  <2>1. New(mem, Reg("conts"), c)
    BY <1>2 DEF exec_term
  <2>2. c.next \in DOMAIN memory
    BY RegisterLive DEF Cell
  <2> HIDE DEF c
  <2> QED BY <2>1, <2>2, NewGrows, RegisterNames
<1> QED BY <1>1, <1>2

LEMMA InstructionBalanced ==
  ASSUME NEW L, RunOK(L), Typed, Balanced, Instruction
  PROVE  Balanced' /\ Grows(memory, memory')
<1>1. memory' = memory => Grows(memory, memory')
  BY GrowsSame DEF RunOK, StoreOK
<1>2. CASE RequireStep
  <2>1. memory' = memory
    BY <1>2 DEF RequireStep, execerror, store
  <2> QED BY <1>1, <1>2, <2>1, RequireBalanced
<1>3. CASE AssignStep \/ CopyStep \/ ListStep \/ NumberStep \/ FunctionStep \/ ConsStep
  <2>1. Effect(Instr)
    BY <1>3, AssignEffect, CopyEffect, ListEffect, NumberEffect, FunctionEffect, ConsEffect
  <2> QED BY <1>3, <2>1, MovesBalanced DEF Effect
<1>4. CASE ExecStep
  <2>1. Grows(memory, memory')
    BY <1>4, ExecTermGrows DEF ExecStep, RunOK
  <2> QED BY <1>4, <2>1, ExecBalanced
<1>5. CASE IfStep \/ LoopStep \/ BreakStep \/ CallStep \/ LocalStep \/ Return \/ PrintStep
  <2>1. memory' = memory
    BY <1>5 DEF IfStep, LoopStep, BreakStep, CallStep, LocalStep, Return, PrintStep, store
  <2> QED BY <1>1, <1>5, <2>1, IfBalanced, LoopBalanced, BreakBalanced, CallBalanced,
             LocalBalanced, ReturnBalanced, PrintBalanced
<1> QED BY <1>2, <1>3, <1>4, <1>5 DEF Instruction

-----------------------------------------------------------------------------
(* The loop of exec_term.                                                  *)

LEMMA ExecuteUnfailing ==
  ASSUME NEW op, Execute(op)
  PROVE  Unfailing /\ p # 0 /\ Top.fn = "exec_term"
BY DEF Execute, Fetched, In, Executing, Unfailing, session, verdict

LEMMA EndProgramBalanced ==
  ASSUME NEW L, RunOK(L), Typed, Balanced, EndProgram
  PROVE  Balanced' /\ Grows(memory, memory')
<1>1. /\ Top.fn = "exec_term" /\ memory' = memory /\ frames' = Tail(frames) /\ Unfailing
      /\ root' = [root EXCEPT !["conts"] = memory[root.conts].next]
  BY QuietUnfailing DEF EndProgram, In
<1>2. Grows(memory, memory')
  BY <1>1, GrowsSame DEF RunOK, StoreOK
<1>3. Run(frames, L) /\ Atop(frames, Top, Tail(frames))
  BY AtopTop DEF RunOK
<1>4. Moved("conts", -1)
  <2>1. root'["conts"] = memory[root["conts"]].next
    BY <1>1, RegisterNames DEF RunOK, StoreOK
  <2> QED BY <1>2, <2>1, MovedDown
<1>5. ASSUME NEW d \in DumpNames PROVE Shifted(d, 0) /\ Moved(d, 0)
  <2>1. root[d] \in DOMAIN memory /\ root'[d] = root[d]
    <3>1. d # "conts" /\ d \in Registers
      BY DumpsAreRegisters DEF DumpNames
    <3> QED BY <1>1, <3>1 DEF RunOK, StoreOK
  <2>2. ASSUME NEW k, Sums(frames, d, k) PROVE k + 0 \in Nat /\ Sums(frames', d, k + 0)
    <3>1. PICK m \in Nat : m <= k /\ Sums(Tail(frames), d, m) /\ Owes(Top, d, k - m)
      BY <1>3, <2>2, SumsOff
    <3>2. k \in Nat /\ k - m = 0
      BY <1>1, <1>3, <2>2, <3>1, SumsNat DEF Owes
    <3>3. k = m /\ k + 0 = k
      BY <3>2
    <3> QED BY <1>1, <3>1, <3>3
  <2> QED BY <1>2, <2>1, <2>2, MovedSame DEF Shifted
<1>6. Calls(frames') \in Nat /\ Calls(frames) \in Nat /\ Calls(frames') = Calls(frames) + (-1)
  <2>1. Calls(Tail(frames)) \in Nat /\ Calls(frames) = Calls(Tail(frames)) + 1
    BY <1>1, <1>3, CallsAtop
  <2> QED BY <1>1, <2>1
<1>7. 0 \in Int /\ -1 \in Int
  OBVIOUS
<1>8. \A d \in DumpNames : \E n \in Int : Shifted(d, n) /\ Moved(d, n)
  BY <1>5, <1>7
<1> QED BY <1>1, <1>2, <1>4, <1>6, <1>7, <1>8, BalanceStep DEF Unfailing

LEMMA BadNodeBalanced ==
  ASSUME NEW L, RunOK(L), BadNode
  PROVE  Balanced' /\ Grows(memory, memory')
<1>1. memory' = Fetch /\ failed' = TRUE /\ aborted' = TRUE
  BY DEF BadNode
<1>2. Grows(memory, memory')
  BY <1>1, FetchGrows DEF RunOK
<1> QED BY <1>1, <1>2 DEF Balanced

(* The C stack, the dumps and conts stay as they are.                      *)
LEMMA SameBalanced ==
  ASSUME NEW L, RunOK(L), Typed, Balanced, Unfailing, frames' = frames,
         Grows(memory, memory'), \A r \in DumpsAndConts : root'[r] = root[r]
  PROVE  Balanced'
<1>1. \A r \in DumpsAndConts : root[r] \in DOMAIN memory
  BY DumpsAreRegisters DEF RunOK, StoreOK
<1>2. \A r \in DumpsAndConts : Moved(r, 0)
  BY <1>1, AllStay
<1> QED BY <1>2, StillBalanced DEF RunOK

LEMMA PushLiteralBalanced ==
  ASSUME NEW L, RunOK(L), Typed, Balanced, PushLiteral
  PROVE  Balanced' /\ Grows(memory, memory')
<1> DEFINE c == [memory[p] EXCEPT !.next = root.stck]
<1>1. p # 0 /\ New(Fetch, Reg("stck"), c) /\ frames' = frames /\ Unfailing
  BY ExecuteUnfailing DEF PushLiteral, stck
<1>2. /\ DOMAIN Fetch = DOMAIN memory /\ IsCell(memory[p])
      /\ \A n \in DOMAIN memory : Fetch[n].next = memory[n].next
  BY <1>1, FetchOK, FetchGrows DEF RunOK, CellIn
<1>3. c.next = root.stck /\ root.stck \in DOMAIN memory
  BY <1>2, RegisterLive DEF RunOK, IsCell
<1> HIDE DEF c
<1>4. Grows(memory, memory') /\ \A q \in Registers : q # "stck" => root'[q] = root[q]
  BY <1>1, <1>2, <1>3, NewGrows, RegisterNames DEF RunOK
<1>5. \A r \in DumpsAndConts : root'[r] = root[r]
  BY <1>4, DumpsAreRegisters
<1> QED BY <1>1, <1>4, <1>5, SameBalanced

LEMMA SkipUndefinedBalanced ==
  ASSUME NEW L, RunOK(L), Typed, Balanced, SkipUndefined
  PROVE  Balanced' /\ Grows(memory, memory')
<1>1. memory' = Fetch /\ root' = root /\ frames' = frames /\ Unfailing
  BY ExecuteUnfailing DEF SkipUndefined
<1>2. Grows(memory, memory')
  BY <1>1, FetchGrows DEF RunOK
<1> QED BY <1>1, <1>2, SameBalanced

LEMMA CallBuiltinBalanced ==
  ASSUME NEW L, RunOK(L), Typed, Balanced, CallBuiltin
  PROVE  Balanced' /\ Grows(memory, memory')
<1> DEFINE f == Activation("builtin", Builtin[memory[p].u])
<1>1. /\ p # 0 /\ memory[p].op = "ANON_FUNCT" /\ memory' = Fetch /\ root' = root
      /\ frames' = <<f>> \o frames /\ Unfailing
  BY ExecuteUnfailing DEF CallBuiltin, Execute, Fetched
<1>2. Grows(memory, memory') /\ Run(frames, L)
  BY <1>1, FetchGrows DEF RunOK
<1>3. memory[p].u \in Unlinking
  BY <1>1, FetchOK DEF RunOK, CellIn
<1>4. /\ f.fn = "builtin" /\ f.code = Builtin[memory[p].u]
      /\ "builtin" \notin Frontends
  BY <1>2, NotExecTerm DEF Activation
<1>5. ASSUME NEW d \in DumpNames PROVE Owes(f, d, 0)
  <2>1. Flow(Rules(d), f.code, 0, 0)
    BY <1>3, <1>4, BuiltinFlows
  <2>2. 0 \in Int /\ Height(0) = 0
    BY DEF Height
  <2> HIDE DEF f
  <2> QED BY <1>4, <2>1, <2>2 DEF Owes
<1> HIDE DEF f
<1>6. \A r \in DumpsAndConts : Moved(r, 0)
  <2>1. \A r \in DumpsAndConts : root[r] \in DOMAIN memory /\ root'[r] = root[r]
    BY <1>1, DumpsAreRegisters DEF RunOK, StoreOK
  <2> QED BY <1>2, <2>1, AllStay
<1>7. ASSUME NEW d \in DumpNames, NEW k, Sums(frames, d, k) PROVE Sums(frames', d, k)
  <2>1. k \in Nat
    BY <1>2, <1>7, SumsNat
  <2> QED BY <1>1, <1>2, <1>4, <1>5, <1>7, <2>1, PushBalanced
<1>8. Calls(frames') = Calls(frames)
  <2>1. Atop(frames', f, frames)
    BY <1>1, <1>2, AtopPush
  <2> QED BY <1>2, <1>4, <2>1, CallsAtop, NotExecTerm
<1> QED BY <1>1, <1>2, <1>6, <1>7, <1>8, StillBalanced

(* The node on top of conts gives way to another.                          *)
LEMMA TailCallBalanced ==
  ASSUME NEW L, RunOK(L), Typed, Balanced, TailCall
  PROVE  Balanced' /\ Grows(memory, memory')
<1> DEFINE c == Cell("LIST", body[memory[p].u], memory[root.conts].next)
           n == root["conts"]
<1>1. p # 0 /\ New(Fetch, Reg("conts"), c) /\ frames' = frames /\ Unfailing
  BY ExecuteUnfailing DEF TailCall
<1>2. /\ StoreOK(memory, root, born, library) /\ Run(frames, L)
      /\ DOMAIN Fetch = DOMAIN memory /\ n \in DOMAIN memory
      /\ \A m \in DOMAIN memory : Fetch[m].next = memory[m].next
  BY <1>1, FetchGrows, RegisterLive DEF RunOK
<1>3. c.next = memory[n].next /\ memory[n].next \in DOMAIN memory
  BY <1>2, RegisterLive DEF Cell
<1>4. n # 0
  BY <1>1, <1>2 DEF p, Lis, StoreOK, Sound
<1> HIDE DEF c
<1>5. /\ Grows(memory, memory') /\ born # 0 /\ root'["conts"] = born
      /\ born \in DOMAIN memory' /\ memory'[born].next = c.next
      /\ \A q \in Registers : q # "conts" => root'[q] = root[q]
  BY <1>1, <1>2, <1>3, NewGrows, RegisterNames
<1>6. Moved("conts", 0)
  <2> SUFFICES ASSUME NEW k \in Nat, Long(memory, n, k)
               PROVE  Long(memory', root'["conts"], k + 0)
    BY DEF Moved
  <2> DEFINE j == k - 1
  <2>1. k # 0 /\ j \in Nat /\ j + 1 = k /\ k + 0 = k
    BY <1>4, LongEnds
  <2>2. Long(memory, memory[n].next, j)
    BY <2>1, LongTail
  <2> HIDE DEF j
  <2>3. Long(memory', c.next, j)
    BY <1>3, <1>5, <2>1, <2>2, LongGrows
  <2>4. Long(memory', born, j + 1)
    BY <1>5, <2>1, <2>3, LongCons
  <2> QED BY <1>5, <2>1, <2>4
<1>7. \A r \in DumpsAndConts : Moved(r, 0)
  <2>1. ASSUME NEW r \in DumpsAndConts, r # "conts" PROVE Moved(r, 0)
    <3>1. root[r] \in DOMAIN memory /\ root'[r] = root[r]
      BY <1>2, <1>5, <2>1, DumpsAreRegisters DEF StoreOK
    <3> QED BY <1>5, <3>1, MovedSame
  <2> QED BY <1>6, <2>1
<1> QED BY <1>1, <1>2, <1>5, <1>7, StillBalanced

LEMMA SubroutineBalanced ==
  ASSUME NEW L, RunOK(L), Typed, Balanced, Subroutine
  PROVE  Balanced' /\ Grows(memory, memory')
<1> DEFINE n == body[memory[p].u]
<1>1. exec_term(Fetch, n, frames) /\ Unfailing
  BY ExecuteUnfailing DEF Subroutine
<1>2. /\ StoreOK(memory, root, born, library) /\ Run(frames, L)
      /\ DOMAIN Fetch = DOMAIN memory
      /\ \A m \in DOMAIN memory : Fetch[m].next = memory[m].next
  BY FetchGrows DEF RunOK
<1> HIDE DEF n
<1>3. Balanced'
  BY <1>1, <1>2, ExecTermBalanced
<1> QED BY <1>1, <1>2, <1>3, ExecTermGrows

LEMMA ProgramBalanced ==
  ASSUME NEW L, RunOK(L), Typed, Balanced, Program
  PROVE  Balanced' /\ Grows(memory, memory')
BY EndProgramBalanced, BadNodeBalanced, PushLiteralBalanced, CallBuiltinBalanced,
   SkipUndefinedBalanced, TailCallBalanced, SubroutineBalanced DEF Program

-----------------------------------------------------------------------------
(* The links of the memory lead to the bad node after every step.           *)

LEMMA ExtendGrows ==
  ASSUME NEW mem, NEW c, born \in Nat \ {0}, born \notin DOMAIN mem, c.next \in DOMAIN mem,
         \A n \in DOMAIN mem : mem[n].next \in DOMAIN mem
  PROVE  Grows(mem, Extend(mem, c))
<1>1. /\ DOMAIN Extend(mem, c) = DOMAIN mem \cup {born} /\ Extend(mem, c)[born] = c
      /\ \A n \in DOMAIN mem : Extend(mem, c)[n] = mem[n]
  BY DEF Extend
<1> QED BY <1>1 DEF Grows

LEMMA LinExtend ==
  ASSUME Sound(memory, born, library), Lin(memory), NEW c, c.next \in DOMAIN memory,
         memory' = Extend(memory, c)
  PROVE  Lin(memory')
<1>1. /\ born \in Nat \ {0} /\ born \notin DOMAIN memory
      /\ \A n \in DOMAIN memory : memory[n].next \in DOMAIN memory
  BY DEF Sound, CellIn
<1> QED BY <1>1, ExtendGrows, LinGrows

LEMMA StckLin ==
  ASSUME IInv, Lin(memory), NEW c, c.next = root.stck, New(memory, stck, c)
  PROVE  Lin(memory') /\ \A r \in DumpsAndConts : root'[r] = root[r]
<1>1. /\ Sound(memory, born, library) /\ root.stck \in DOMAIN memory
      /\ root = [r \in Registers |-> root[r]]
  BY RegisterNames DEF IInv, Registered, Alive
<1>2. memory' = Extend(memory, c) /\ root' = [root EXCEPT !["stck"] = born]
  BY DEF New, Store, stck, Reg
<1> QED BY <1>1, <1>2, LinExtend, DumpsAreRegisters

LEMMA AttachFirstLin ==
  ASSUME IInv, Lin(memory), NEW m, NEW f, NEW pending, NEW t, NEW d, NEW B,
         ReadState(m, f, pending, t, d, B), AttachFirst
  PROVE  Lin(memory')
<1> DEFINE a    == root["stck"]
           b    == memory[a].next
           mem2 == [memory EXCEPT ![b].u = a, ![a].next = 0]
           c    == Cell("LIST", a, root.dump)
<1>1. Top.code # <<>> /\ memory' = Extend(mem2, c)
  BY DEF AttachFirst, Doing
<1>2. /\ Layered(frames, m, f, pending)
      /\ Shape(m, f, pending, memory, root, t, d, B, library)
  BY DEF ReadState
<1>3. pending = 1
  BY <1>1, <1>2, LayeredTop
<1>4. /\ Sound(memory, born, library) /\ a \in DOMAIN memory \ {0}
      /\ root.dump \in DOMAIN memory
  BY <1>2, <1>3, RegisterNames DEF Shape, Waiting, Loose, IInv, Registered, Alive
<1>5. \A n \in DOMAIN memory : IsCell(memory[n]) /\ memory[n].next \in DOMAIN memory
  BY <1>4 DEF Sound, CellIn
<1>6. b \in DOMAIN memory
  BY <1>4, <1>5
<1>7. 0 \in DOMAIN memory /\ born \in Nat \ {0} /\ born \notin DOMAIN memory
  BY <1>4 DEF Sound
<1>8. /\ DOMAIN mem2 = DOMAIN memory /\ mem2[a].next = 0
      /\ \A n \in DOMAIN memory : n # a => mem2[n].next = memory[n].next
  <2> DEFINE mem1 == [memory EXCEPT ![b].u = a]
  <2> HIDE DEF a, b
  <2>1. /\ DOMAIN mem1 = DOMAIN memory
        /\ \A n \in DOMAIN memory : mem1[n].next = memory[n].next /\ IsCell(mem1[n])
    BY <1>5, <1>6 DEF IsCell
  <2>2. mem2 = [mem1 EXCEPT ![a].next = 0]
    OBVIOUS
  <2> HIDE DEF mem1, mem2
  <2>3. DOMAIN mem2 = DOMAIN memory /\ mem2[a] = [mem1[a] EXCEPT !.next = 0]
        /\ \A n \in DOMAIN memory : n # a => mem2[n] = mem1[n]
    BY <1>4, <2>1, <2>2
  <2>4. mem2[a].next = 0
    BY <1>4, <2>1, <2>3 DEF IsCell
  <2> QED BY <2>1, <2>3, <2>4
<1> HIDE DEF a, b, mem2
<1>9. Long(mem2, a, 0 + 1)
  BY <1>4, <1>8, LongNone, LongCons
<1>10. Lin(mem2)
  <2>1. \A n \in DOMAIN mem2 :
          \/ n \in DOMAIN memory /\ mem2[n].next = memory[n].next
             /\ memory[n].next \in DOMAIN mem2
          \/ \E k \in Nat : Long(mem2, n, k)
    BY <1>5, <1>8, <1>9
  <2> QED BY <2>1, LinChange
<1>11. c.next \in DOMAIN mem2 /\ \A n \in DOMAIN mem2 : mem2[n].next \in DOMAIN mem2
  BY <1>4, <1>5, <1>7, <1>8 DEF Cell
<1> HIDE DEF c
<1> QED BY <1>1, <1>7, <1>8, <1>10, <1>11, ExtendGrows, LinGrows

LEMMA AttachFurtherLin ==
  ASSUME IInv, Lin(memory), NEW m, NEW f, NEW pending, NEW t, NEW d, NEW B,
         ReadState(m, f, pending, t, d, B), AttachFurther
  PROVE  Lin(memory')
<1> DEFINE a == root["stck"]
           e == root["dump"]
           l == Lis(e)
<1>1. /\ Top.code # <<>> /\ Top.local = 1
      /\ memory' = [memory EXCEPT ![l].next = a, ![a].next = 0, ![e].u = a]
  BY DEF AttachFurther, Doing
<1>2. /\ Layered(frames, m, f, pending)
      /\ Shape(m, f, pending, memory, root, t, d, B, library)
  BY DEF ReadState
<1>3. pending = 1 /\ f[m] = 1 /\ m \in Nat \ {0}
  BY <1>1, <1>2, LayeredTop
<1>4. /\ Sound(memory, born, library) /\ a \in DOMAIN memory \ {0} /\ e \in DOMAIN memory
  BY <1>2, <1>3, RegisterNames DEF Shape, Waiting, Loose, IInv, Registered, Alive
<1>5. l \in DOMAIN memory \ {0}
  <2>1. d[m] = e /\ Held(m, m, f, memory, t, d, B, library)
    BY <1>2, <1>3 DEF Shape, Nested
  <2>2. memory[e].op = "LIST" /\ Loose(memory[e].u, m, memory, t, B, library)
    BY <1>3, <2>1 DEF Held
  <2> QED BY <2>2 DEF Loose, Lis
<1>6. \A n \in DOMAIN memory : IsCell(memory[n]) /\ memory[n].next \in DOMAIN memory
  BY <1>4 DEF Sound, CellIn
<1> HIDE DEF a, e, l
<1>7. /\ DOMAIN memory' = DOMAIN memory /\ memory'[a].next = 0
      /\ l # a => memory'[l].next = a
      /\ \A n \in DOMAIN memory : n # a /\ n # l => memory'[n].next = memory[n].next
  <2> DEFINE mem1 == [memory EXCEPT ![l].next = a]
             mem2 == [mem1 EXCEPT ![a].next = 0]
  <2>1. memory' = [mem2 EXCEPT ![e].u = a]
    BY <1>1
  <2>2. /\ DOMAIN mem1 = DOMAIN memory /\ mem1[l].next = a
        /\ \A n \in DOMAIN memory : n # l => mem1[n].next = memory[n].next
        /\ \A n \in DOMAIN memory : IsCell(mem1[n])
    BY <1>5, <1>6 DEF IsCell
  <2> HIDE DEF mem1
  <2>3. /\ DOMAIN mem2 = DOMAIN memory /\ mem2[a].next = 0
        /\ \A n \in DOMAIN memory : n # a => mem2[n].next = mem1[n].next
        /\ \A n \in DOMAIN memory : IsCell(mem2[n])
    BY <1>4, <2>2 DEF IsCell
  <2> HIDE DEF mem2
  <2>4. /\ DOMAIN memory' = DOMAIN memory
        /\ \A n \in DOMAIN memory : memory'[n].next = mem2[n].next
    BY <1>4, <2>1, <2>3 DEF IsCell
  <2> QED BY <1>4, <1>5, <2>2, <2>3, <2>4
<1>8. Long(memory', a, 0 + 1)
  BY <1>4, <1>7, LongNone, LongCons
<1>9. Long(memory', l, 0 + 1) \/ Long(memory', l, 0 + 1 + 1)
  <2> DEFINE j == 0 + 1
  <2>1. j \in Nat /\ Long(memory', a, j)
    BY <1>8
  <2> HIDE DEF j
  <2>2. l # a => Long(memory', l, j + 1)
    BY <1>5, <1>7, <2>1, LongCons
  <2> QED BY <2>1, <2>2 DEF j
<1>10. \A n \in DOMAIN memory' :
         \/ n \in DOMAIN memory /\ memory'[n].next = memory[n].next
            /\ memory[n].next \in DOMAIN memory'
         \/ \E k \in Nat : Long(memory', n, k)
  <2>1. 0 + 1 \in Nat /\ 0 + 1 + 1 \in Nat
    OBVIOUS
  <2> QED BY <1>6, <1>7, <1>8, <1>9, <2>1
<1> QED BY <1>10, LinChange

LEMMA StartDefinitionLin ==
  ASSUME IInv, Lin(memory), StartDefinition
  PROVE  Lin(memory') /\ \A r \in DumpsAndConts : root'[r] = 0
<1> DEFINE k == Keep({})
           c == Cell("LIST", 0, 0)
<1>1. /\ memory' = Extend(k, c)
      /\ root' = [r \in Registers |-> CASE r = "prog" -> root.prog
                                        [] r = "stck" -> born
                                        [] OTHER      -> 0]
  BY DEF StartDefinition
<1>2. Sound(memory, born, library)
  BY DEF IInv, Registered
<1>3. DOMAIN k = library \cup {0} /\ \A n \in library \cup {0} : k[n] = memory[n]
  BY DEF Keep
<1> HIDE DEF k
<1>4. \A n \in library \cup {0} : n \in DOMAIN memory /\ memory[n].next \in library \cup {0}
  BY <1>2 DEF Sound, CellIn
<1>5. \A n \in DOMAIN k : \/ n \in DOMAIN memory /\ k[n].next = memory[n].next
                             /\ memory[n].next \in DOMAIN k
                          \/ \E j \in Nat : Long(k, n, j)
  BY <1>3, <1>4
<1>6. Lin(k)
  BY <1>5, LinChange
<1>7. /\ born \in Nat \ {0} /\ born \notin DOMAIN k /\ c.next \in DOMAIN k
      /\ \A n \in DOMAIN k : k[n].next \in DOMAIN k
  BY <1>2, <1>3, <1>4 DEF Sound, Cell
<1> HIDE DEF c
<1>8. Lin(memory')
  BY <1>1, <1>6, <1>7, ExtendGrows, LinGrows
<1>9. \A r \in DumpsAndConts : root'[r] = 0
  BY <1>1, DumpsAreRegisters
<1> QED BY <1>8, <1>9

LEMMA CollectLin ==
  ASSUME IInv, Lin(memory), Collect
  PROVE  Lin(memory') /\ Links(memory, memory') /\ root' = root
         /\ \A r \in Registers : root[r] \in DOMAIN memory => root[r] \in DOMAIN memory'
<1>1. memory' = Keep(Reached) /\ root' = root
  BY DEF Collect
<1>2. /\ DOMAIN memory' \subseteq DOMAIN memory
      /\ \A n \in DOMAIN memory' : memory'[n] = memory[n]
      /\ \A n \in DOMAIN memory' : memory[n].next \in DOMAIN memory'
      /\ \A r \in Registers : root[r] \in DOMAIN memory => root[r] \in DOMAIN memory'
  BY <1>1, CollectIs DEF IInv, Registered
<1>3. Links(memory, memory')
  BY <1>2 DEF Links
<1>4. \A n \in DOMAIN memory' : \/ n \in DOMAIN memory /\ memory'[n].next = memory[n].next
                                   /\ memory[n].next \in DOMAIN memory'
                                \/ \E k \in Nat : Long(memory', n, k)
  BY <1>2
<1> QED BY <1>1, <1>2, <1>3, <1>4, LinChange

-----------------------------------------------------------------------------
(* While nothing is executed conts and the dumps are empty, except that the *)
(* dump holds the ends of the terms that are read.                         *)

Emptied == \A r \in DumpsAndConts \ {"dump"} : root[r] = 0

Even ==
  /\ Running => Balanced
  /\ ~Running /\ ~failed => Emptied /\ (frames = <<>> => root["dump"] = 0)

LEMMA NotRunning ==
  ASSUME Typed, NEW fr \in Seq(ReadFrames)
  PROVE  ~(fr # <<>> /\ Last(fr).fn = frontend)
<1> SUFFICES ASSUME fr # <<>>, Last(fr).fn = frontend PROVE FALSE
  OBVIOUS
<1>1. Len(fr) \in 1 .. Len(fr)
  BY EmptySeq, LenProperties
<1>2. Last(fr) \in ReadFrames
  BY <1>1, ElementOfSeq DEF Last
<1>3. frontend # "readterm"
  BY FrontendNames DEF Typed
<1> QED BY <1>2, <1>3 DEF ReadFrames

LEMMA WhichMode ==
  ASSUME IInv, frames # <<>>
  PROVE  \/ RunState /\ Running
         \/ /\ ~Running
            /\ \E m, f, pending, t, d, B : ReadState(m, f, pending, t, d, B)
<1>1. RunState => Running
  BY DEF RunState, Run, Running
<1>2. ASSUME NEW m, NEW f, NEW pending, NEW t, NEW d, NEW B,
             ReadState(m, f, pending, t, d, B)
      PROVE  ~Running
  <2>1. frames \in Seq(ReadFrames)
    BY <1>2 DEF ReadState, Layered
  <2> QED BY <2>1, NotRunning DEF Running, IInv
<1> QED BY <1>1, <1>2 DEF IInv, Mode

(* When the outermost term ends, the dump is what it was before.            *)
LEMMA EndEmpty ==
  ASSUME NEW f, NEW pending, NEW t, NEW d, NEW B, ReadState(1, f, pending, t, d, B), ~failed
  PROVE  EndOfTerm = 0
<1>1. /\ Layered(frames, 1, f, pending) /\ d[0] = 0 /\ d[1] = root["dump"]
      /\ Held(1, 1, f, memory, t, d, B, library)
  BY DEF ReadState, Shape, Nested
<1>2. Top.local = f[1] /\ f[1] \in {0, 1}
  BY <1>1, LayeredTop
<1>3. 1 - 1 = 0
  OBVIOUS
<1>4. f[1] = 0 => d[1] = 0
  BY <1>1, <1>3 DEF Held
<1>5. f[1] # 0 => memory[d[1]].next = 0
  BY <1>1, <1>3 DEF Held
<1> QED BY <1>1, <1>2, <1>4, <1>5 DEF EndOfTerm

LEMMA ReaderFrames ==
  ASSUME NEW m, NEW f, NEW pending, NEW t, NEW d, NEW B,
         ReadState(m, f, pending, t, d, B), Reader
  PROVE  frames' \in Seq(ReadFrames) /\ (frames' = <<>> => ReadClose /\ m = 1)
<1>1. /\ frames \in Seq(ReadFrames) /\ frames # <<>> /\ Len(frames) = m /\ frames[1] = Top
      /\ Top \in ReadFrames /\ 1 \in 1 .. Len(frames)
  <2>1. Layered(frames, m, f, pending)
    BY DEF ReadState
  <2>2. frames \in Seq(ReadFrames) /\ Len(frames) = m
    BY <2>1 DEF Layered
  <2> QED BY <2>1, <2>2, LayeredTop
<1>2. ASSUME NEW g \in ReadFrames
      PROVE  [frames EXCEPT ![1] = g] \in Seq(ReadFrames) /\ [frames EXCEPT ![1] = g] # <<>>
  <2> DEFINE s == [frames EXCEPT ![1] = g]
  <2>1. s \in Seq(ReadFrames) /\ Len(s) = Len(frames)
    BY <1>1, ExceptSeq
  <2> HIDE DEF s
  <2>2. s # <<>>
    BY <1>1, <2>1, EmptySeq
  <2> QED BY <2>1, <2>2 DEF s
<1>3. ASSUME NEW c \in {<<>>, Attach}
      PROVE  LET s == [frames EXCEPT ![1].code = c] IN s \in Seq(ReadFrames) /\ s # <<>>
  <2> DEFINE g == [Top EXCEPT !.code = c]
  <2>1. g \in ReadFrames /\ [frames EXCEPT ![1].code = c] = [frames EXCEPT ![1] = g]
    BY <1>1 DEF ReadFrames
  <2> HIDE DEF g
  <2> QED BY <1>2, <2>1
<1>4. CASE ReadFactor \/ AttachFurther
  <2>1. \E c \in {<<>>, Attach} : frames' = [frames EXCEPT ![1].code = c]
    BY <1>4 DEF ReadFactor, AttachFurther, Goto, Attach
  <2> QED BY <1>3, <2>1
<1>5. CASE AttachFirst
  <2> DEFINE g == [Top EXCEPT !.code = <<>>, !.local = 1]
  <2>1. g \in ReadFrames
    BY <1>1 DEF ReadFrames
  <2>2. frames' = [frames EXCEPT ![1] = g]
    BY <1>1, <1>5 DEF AttachFirst
  <2> HIDE DEF g
  <2> QED BY <1>2, <2>1, <2>2
<1>6. CASE ReadOpen
  <2> DEFINE a == Activation("readterm", <<>>)
             s == [frames EXCEPT ![1].code = Attach]
  <2>1. frames' = <<a>> \o s
    BY <1>6 DEF ReadOpen, Attach
  <2>2. a \in ReadFrames
    BY DEF Activation, ReadFrames
  <2>3. s \in Seq(ReadFrames)
    BY <1>3
  <2> HIDE DEF a, s
  <2>4. <<a>> \in Seq(ReadFrames) /\ Len(<<a>>) = 1
    BY <2>2
  <2> DEFINE w == <<a>>
  <2> HIDE DEF w
  <2>5. w \o s \in Seq(ReadFrames) /\ Len(w \o s) = 1 + Len(s)
    BY <2>3, <2>4, ConcatProperties DEF w
  <2>6. w \o s # <<>>
    BY <2>3, <2>5, EmptySeq, LenProperties
  <2> QED BY <2>1, <2>5, <2>6 DEF w
<1>7. CASE ReadClose
  <2>1. frames' = Tail(frames)
    BY <1>7 DEF ReadClose
  <2>2. Tail(frames) \in Seq(ReadFrames) /\ Len(Tail(frames)) = m - 1
    BY <1>1, HeadTailProperties
  <2>3. frames' = <<>> => m = 1
    <3>1. m \in Nat
      BY <1>1, LenProperties
    <3>2. Len(<<>>) = 0
      OBVIOUS
    <3>3. frames' = <<>> => m - 1 = 0
      BY <2>1, <2>2, <3>2
    <3> QED BY <3>1, <3>3
  <2> QED BY <1>7, <2>1, <2>2, <2>3
<1> QED BY <1>4, <1>5, <1>6, <1>7 DEF Reader

LEMMA ReaderLin ==
  ASSUME IInv, Lin(memory), NEW m, NEW f, NEW pending, NEW t, NEW d, NEW B,
         ReadState(m, f, pending, t, d, B), Reader
  PROVE  /\ Lin(memory') /\ frontend' = frontend /\ failed' = failed
         /\ \A r \in DumpsAndConts \ {"dump"} : root'[r] = root[r]
         /\ ReadClose => root'["dump"] = EndOfTerm
<1>1. root = [r \in Registers |-> root[r]]
  BY DEF IInv, Registered, Alive
<1>2. CASE ReadFactor
  <2> DEFINE c == Cell(Head(line)[1], Head(line)[2], root.stck)
  <2>1. New(memory, stck, c) /\ frontend' = frontend /\ failed' = failed /\ Top.code = <<>>
    BY <1>2 DEF ReadFactor, Quietly, session, verdict, Reading
  <2>2. c.next = root.stck
    BY DEF Cell
  <2>3. ~ReadClose
    BY <1>2 DEF ReadFactor, ReadClose
  <2> HIDE DEF c
  <2> QED BY <2>1, <2>2, <2>3, StckLin
<1>3. CASE ReadOpen
  <2> DEFINE c == Cell("LIST", 0, root.stck)
  <2>1. New(memory, stck, c) /\ frontend' = frontend /\ failed' = failed
    BY <1>3 DEF ReadOpen, Quietly, session, verdict
  <2>2. c.next = root.stck
    BY DEF Cell
  <2>3. ~ReadClose
    BY <1>3 DEF ReadOpen, ReadClose
  <2> HIDE DEF c
  <2> QED BY <2>1, <2>2, <2>3, StckLin
<1>4. CASE ReadClose
  <2>1. /\ memory' = memory /\ frontend' = frontend /\ failed' = failed
        /\ root' = [root EXCEPT !["dump"] = EndOfTerm]
    BY <1>4 DEF ReadClose, Quietly, session, verdict
  <2> QED BY <1>1, <2>1, DumpsAreRegisters, RegisterNames
<1>5. CASE AttachFirst
  <2>1. /\ frontend' = frontend /\ failed' = failed /\ Top.code # <<>>
        /\ root' = [root EXCEPT !["stck"] = memory[root.stck].next, !["dump"] = born]
    BY <1>5 DEF AttachFirst, Quiet, Executing, session, verdict, Doing
  <2>2. \A r \in DumpsAndConts \ {"dump"} : root'[r] = root[r]
    BY <1>1, <2>1, DumpsAreRegisters
  <2> QED BY <1>5, <2>1, <2>2, AttachFirstLin DEF ReadClose, Reading
<1>6. CASE AttachFurther
  <2>1. /\ frontend' = frontend /\ failed' = failed /\ Top.code # <<>>
        /\ root' = [root EXCEPT !["stck"] = memory[root.stck].next]
    BY <1>6 DEF AttachFurther, Quiet, Executing, session, verdict, Doing
  <2>2. \A r \in DumpsAndConts : root'[r] = root[r]
    BY <1>1, <2>1, DumpsAreRegisters
  <2> QED BY <1>6, <2>1, <2>2, AttachFurtherLin DEF ReadClose, Reading
<1> QED BY <1>2, <1>3, <1>4, <1>5, <1>6 DEF Reader

LEMMA ReaderEven ==
  ASSUME IInv, Even, Lin(memory), NEW m, NEW f, NEW pending, NEW t, NEW d, NEW B,
         ReadState(m, f, pending, t, d, B), Reader
  PROVE  Even' /\ Lin(memory')
<1>1. frames' \in Seq(ReadFrames) /\ (frames' = <<>> => ReadClose /\ m = 1)
  BY ReaderFrames
<1>2. /\ Lin(memory') /\ frontend' = frontend /\ failed' = failed
      /\ \A r \in DumpsAndConts \ {"dump"} : root'[r] = root[r]
      /\ ReadClose => root'["dump"] = EndOfTerm
  BY ReaderLin
<1>3. ~Running
  BY ReadNoRun, NotRunning DEF Running, IInv, ReadState, Layered
<1>4. ~(frames' # <<>> /\ Last(frames').fn = frontend)
  BY <1>1, NotRunning DEF IInv
<1>5. ~Running'
  BY <1>2, <1>4 DEF Running
<1>6. ~failed' => Emptied'
  BY <1>2, <1>3 DEF Even, Emptied
<1>7. ~failed' /\ frames' = <<>> => root'["dump"] = 0
  BY <1>1, <1>2, EndEmpty
<1> QED BY <1>2, <1>5, <1>6, <1>7 DEF Even

(* A command is executed.                                                  *)
LEMMA RunEven ==
  ASSUME IInv, Even, Lin(memory), RunState, Instruction \/ Program
  PROVE  Even' /\ Lin(memory')
<1>1. PICK L : Run(frames, L)
  BY DEF RunState
<1>2. StoreOK(memory, root, born, library) /\ Bodies /\ Typed /\ Running
  BY <1>1 DEF IInv, Registered, RunState, Alive, StoreOK, Run, Running
<1>3. RunOK(L) /\ Balanced
  BY <1>1, <1>2 DEF RunOK, Even
<1>4. Balanced' /\ Grows(memory, memory')
  BY <1>2, <1>3, InstructionBalanced, ProgramBalanced
<1>5. Lin(memory')
  BY <1>4, LinGrows
<1>6. frames' = <<>> \/ \E K : Run(frames', K)
  BY <1>2, <1>3, StepWent DEF Went
<1>7. frontend' = frontend
  BY InstructionIs, ProgramIs DEF session
<1>8. frames' # <<>> => Running'
  BY <1>6, <1>7 DEF Run, Running
<1>9. ASSUME frames' = <<>>, ~failed' PROVE Emptied' /\ root'["dump"] = 0
  <2>1. Holding(<<>>, memory', root') /\ Called(<<>>, memory', root')
    BY <1>4, <1>9 DEF Balanced
  <2>2. ASSUME NEW d \in DumpNames PROVE root'[d] = 0
    <3>1. PICK k \in Nat : Sums(<<>>, d, k) /\ Long(memory', root'[d], k)
      BY <2>1 DEF Holding
    <3>2. k = 0
      BY <3>1, SumsEmpty
    <3> QED BY <3>1, <3>2, LongEnds
  <2>3. root'["conts"] = 0
    BY <2>1, CallsEmpty, LongEnds DEF Called
  <2> QED BY <2>2, <2>3, DumpsAreRegisters DEF Emptied, DumpsAndConts
<1> QED BY <1>4, <1>5, <1>8, <1>9 DEF Even, Running

-----------------------------------------------------------------------------
(* The front ends and collections.                                         *)

LEMMA StartTermEven ==
  ASSUME IInv, Even, Lin(memory), StartTerm
  PROVE  Even' /\ Lin(memory')
<1> DEFINE c == Cell("LIST", 0, root.stck)
           a == Activation("readterm", <<>>)
<1>1. /\ frames = <<>> /\ New(memory, stck, c) /\ frames' = <<a>>
      /\ frontend' = frontend /\ failed' = failed
  BY DEF StartTerm, Idle, session
<1>2. c.next = root.stck
  BY DEF Cell
<1>3. a \in ReadFrames
  BY DEF Activation, ReadFrames
<1> HIDE DEF c, a
<1>4. Lin(memory') /\ \A r \in DumpsAndConts : root'[r] = root[r]
  BY <1>1, <1>2, StckLin
<1>5. frames' \in Seq(ReadFrames) /\ frames' # <<>>
  BY <1>1, <1>3
<1>6. ~Running'
  BY <1>1, <1>5, NotRunning DEF Running, IInv
<1>7. ~failed => Emptied
  BY <1>1 DEF Even, Running
<1>8. ~failed' => Emptied'
  BY <1>1, <1>4, <1>7 DEF Emptied
<1> QED BY <1>4, <1>5, <1>6, <1>8 DEF Even

LEMMA StartDefinitionEven ==
  ASSUME IInv, Even, Lin(memory), StartDefinition
  PROVE  Even' /\ Lin(memory')
<1> DEFINE a == Activation("readterm", <<>>)
<1>1. frames' = <<a>> /\ frontend' = frontend
  BY DEF StartDefinition
<1>2. a \in ReadFrames
  BY DEF Activation, ReadFrames
<1> HIDE DEF a
<1>3. frames' \in Seq(ReadFrames) /\ frames' # <<>>
  BY <1>1, <1>2
<1>4. ~Running'
  BY <1>1, <1>3, NotRunning DEF Running, IInv
<1>5. Lin(memory') /\ Emptied'
  BY StartDefinitionLin DEF Emptied
<1> QED BY <1>3, <1>4, <1>5 DEF Even

LEMMA Outermost ==
  ASSUME IInv, Reading, Len(frames) = 1
  PROVE  /\ ~Running
         /\ \E f, pending, t, d, B : ReadState(1, f, pending, t, d, B)
<1>1. frames # <<>> /\ Top.fn = "readterm"
  BY DEF Reading, In
<1>2. ~RunState
  BY <1>1, RunNoReader DEF IInv
<1>3. PICK m, f, pending, t, d, B : ReadState(m, f, pending, t, d, B)
  BY <1>1, <1>2, WhichMode
<1>4. m = 1
  BY <1>3 DEF ReadState, Layered
<1> QED BY <1>1, <1>2, <1>3, <1>4, WhichMode

LEMMA EndDefinitionEven ==
  ASSUME IInv, Even, Lin(memory), EndDefinition
  PROVE  Even' /\ Lin(memory')
<1>1. /\ Reading /\ Len(frames) = 1 /\ memory' = memory /\ frames' = <<>>
      /\ root' = [root EXCEPT !["dump"] = EndOfTerm, !["stck"] = memory[root.stck].next]
      /\ failed' = failed
  BY DEF EndDefinition, verdict
<1>2. root = [r \in Registers |-> root[r]]
  BY DEF IInv, Registered, Alive
<1>3. root'["dump"] = EndOfTerm /\ \A r \in DumpsAndConts \ {"dump"} : root'[r] = root[r]
  BY <1>1, <1>2, RegisterNames, DumpsAreRegisters
<1>4. ~Running /\ (~failed => EndOfTerm = 0)
  BY <1>1, Outermost, EndEmpty
<1>5. ~failed' => Emptied' /\ root'["dump"] = 0
  BY <1>1, <1>3, <1>4 DEF Even, Emptied
<1>6. ~Running'
  BY <1>1 DEF Running
<1> QED BY <1>1, <1>5, <1>6 DEF Even

(* What a front end is about to execute owes nothing.                      *)
LEMMA FrontBalanced ==
  ASSUME Typed, NEW a \in Commands, NEW b \in Commands, a \in Plain, b \in Plain,
         frames' = <<Activation(frontend, <<a, b>>)>>, frontend' = frontend,
         ~failed' => \A d \in DumpNames : root'[d] = 0, root'["conts"] = 0 \/ failed',
         frontend = "repl" => root'["conts"] = 0
  PROVE  Balanced'
<1> DEFINE f == Activation(frontend, <<a, b>>)
<1>1. frames' = <<f>> /\ f.fn = frontend /\ f.code = <<a, b>>
  BY DEF Activation
<1>2. <<a, b>> \in Seq(Commands)
  OBVIOUS
<1>3. a \in Steady /\ b \in Steady
  BY CommandKinds DEF Steady
<1>4. ASSUME NEW d \in DumpNames PROVE Owes(f, d, 0)
  <2>1. 0 \in Int /\ Height(0) = 0
    BY DEF Height
  <2>2. Flow(Rules(d), <<a, b>>, 0, 0)
    BY <1>3, <2>1, Steadfast, Flow2
  <2>3. f.fn # "exec_term"
    BY <1>1, FrontendNames DEF Typed
  <2> HIDE DEF f
  <2> QED BY <1>1, <1>2, <2>1, <2>2, <2>3 DEF Owes
<1> HIDE DEF f
<1> DEFINE none == <<>>
           fr   == <<f>>
<1>5. Atop(fr, f, none)
  BY DEF Atop
<1>6. ASSUME NEW d \in DumpNames PROVE Sums(fr, d, 0)
  <2>1. Sums(none, d, 0)
    BY SumsEmpty
  <2> HIDE DEF fr
  <2>2. Sums(fr, d, 0 + 0)
    BY <1>4, <1>5, <2>1, SumsOn
  <2> QED BY <2>2
<1>7. Calls(fr) = 0
  <2>1. f.fn # "exec_term" /\ Calls(none) = 0
    BY <1>1, CallsEmpty, FrontendNames DEF Typed
  <2> HIDE DEF fr, none
  <2> QED BY <1>5, <2>1, CallsAtop
<1>8. frames' = fr
  BY <1>1
<1> HIDE DEF fr
<1>9. ~failed' => Holding(frames', memory', root')
  BY <1>6, <1>8, LongNone DEF Holding
<1>10. root'["conts"] = 0 => Called(frames', memory', root')
  BY <1>7, <1>8, LongNone DEF Called
<1> QED BY <1>9, <1>10 DEF Balanced

LEMMA EndTermEven ==
  ASSUME IInv, Even, Lin(memory), EndTerm
  PROVE  Even' /\ Lin(memory')
<1>1. /\ Reading /\ Len(frames) = 1 /\ memory' = memory
      /\ failed' = failed /\ frontend' = frontend
  BY DEF EndTerm, verdict, session
<1>2. root = [r \in Registers |-> root[r]] /\ Typed
  BY DEF IInv, Registered, Alive
<1>3. ~Running /\ (~failed => EndOfTerm = 0)
  BY <1>1, Outermost, EndEmpty
<1>4. ~failed => Emptied
  BY <1>3 DEF Even
<1>5. /\ root'["dump"] = EndOfTerm
      /\ \A r \in DumpsAndConts \ {"dump", "conts"} : root'[r] = root[r]
      /\ root'["conts"] = IF frontend = "repl" THEN 0 ELSE root["conts"]
  <2>1. CASE frontend = "repl"
    <3>1. root' = [root EXCEPT !["dump"] = EndOfTerm, !["prog"] = Lis(root.stck),
                               !["stck"] = memory[root.stck].next, !["conts"] = 0]
      BY <2>1 DEF EndTerm
    <3> QED BY <1>2, <2>1, <3>1, RegisterNames, DumpsAreRegisters
  <2>2. CASE frontend # "repl"
    <3>1. root' = [root EXCEPT !["dump"] = EndOfTerm]
      BY <2>2 DEF EndTerm
    <3> QED BY <1>2, <2>2, <3>1, RegisterNames, DumpsAreRegisters
  <2> QED BY <2>1, <2>2
<1>6. ~failed' => (\A d \in DumpNames : root'[d] = 0) /\ root'["conts"] = 0
  <2>1. \A d \in DumpNames : d # "conts" /\ d \in DumpsAndConts
    BY DumpsAreRegisters DEF DumpNames
  <2> QED BY <1>1, <1>3, <1>4, <1>5, <2>1, DumpsAreRegisters DEF Emptied
<1>7. PICK a, b \in Commands \cap Plain : frames' = <<Activation(frontend, <<a, b>>)>>
  <2>1. Exec(Reg("prog")) \in Plain /\ <<"print">> \in Plain
        /\ Exec(lis(stck)) \in Plain /\ POP(stck) \in Plain
    BY Written, NamedPaths, NamedOperands
  <2>2. Exec(Reg("prog")) \in Commands /\ <<"print">> \in Commands
        /\ Exec(lis(stck)) \in Commands /\ POP(stck) \in Commands
    BY DEF Commands
  <2> QED BY <2>1, <2>2 DEF EndTerm
<1>8. Balanced'
  BY <1>1, <1>2, <1>5, <1>6, <1>7, FrontBalanced
<1>9. Running'
  <2> DEFINE f == Activation(frontend, <<a, b>>)
  <2>1. frames' = <<f>> /\ f.fn = frontend
    BY <1>7 DEF Activation
  <2> HIDE DEF f
  <2>2. frames' # <<>> /\ Last(frames') = f
    BY <2>1 DEF Last
  <2> QED BY <1>1, <2>1, <2>2 DEF Running
<1> QED BY <1>1, <1>8, <1>9 DEF Even

LEMMA CollectEven ==
  ASSUME IInv, Even, Lin(memory), Collect
  PROVE  Even' /\ Lin(memory')
<1>1. /\ Lin(memory') /\ Links(memory, memory') /\ root' = root
      /\ \A r \in Registers : root[r] \in DOMAIN memory => root[r] \in DOMAIN memory'
      /\ frames' = frames /\ frontend' = frontend /\ failed' = failed /\ aborted' = aborted
  BY CollectLin DEF Collect, session, verdict
<1>2. ASSUME NEW r \in DumpsAndConts, NEW k \in Nat, Long(memory, root[r], k)
      PROVE  Long(memory', root[r], k)
  <2>1. root[r] \in DOMAIN memory'
    BY <1>1, DumpsAreRegisters DEF IInv, Registered, Alive
  <2> QED BY <1>1, <1>2, <2>1, LongLinks
<1>3. Running' = Running
  BY <1>1 DEF Running
<1>4. ASSUME Balanced, RunState PROVE Balanced'
  <2>1. Holding(frames, memory, root) => Holding(frames', memory', root')
    BY <1>1, <1>2, DumpsAreRegisters DEF Holding
  <2>2. Calls(frames) \in Nat
    BY <1>4, NotExecTerm DEF RunState, IInv
  <2>3. Called(frames, memory, root) => Called(frames', memory', root')
    BY <1>1, <1>2, <2>2, DumpsAreRegisters DEF Called
  <2> QED BY <1>1, <1>4, <2>1, <2>3 DEF Balanced
<1>5. Running => RunState
  BY WhichMode DEF Running
<1>6. Emptied' = Emptied
  BY <1>1 DEF Emptied
<1> QED BY <1>1, <1>3, <1>4, <1>5, <1>6 DEF Even

LEMMA SameEven ==
  ASSUME Even, Lin(memory), UNCHANGED <<store, session, frames, verdict>>
  PROVE  Even' /\ Lin(memory')
<1>1. /\ memory' = memory /\ root' = root /\ frames' = frames /\ frontend' = frontend
      /\ failed' = failed /\ aborted' = aborted
  BY DEF store, session, verdict
<1>2. Running' = Running /\ Balanced' = Balanced /\ Emptied' = Emptied
  BY <1>1 DEF Running, Balanced, Emptied
<1> QED BY <1>1, <1>2 DEF Even

-----------------------------------------------------------------------------
LEMMA EvenInit ==
  ASSUME Init
  PROVE  Even /\ Lin(memory)
<1>1. frames = <<>> /\ memory = [n \in {0} |-> Bad] /\ root = [r \in Registers |-> 0]
  BY DEF Init
<1>2. ~Running /\ Emptied /\ root["dump"] = 0
  BY <1>1, DumpsAreRegisters, RegisterNames DEF Running, Emptied
<1>3. Lin(memory)
  <2>1. DOMAIN memory = {0}
    BY <1>1
  <2> QED BY <2>1, LongNone DEF Lin
<1> QED BY <1>2, <1>3 DEF Even

LEMMA EvenNext ==
  ASSUME IInv, Even, Lin(memory), [Next]_vars
  PROVE  Even' /\ Lin(memory')
<1>1. CASE Machine
  <2>1. frames # <<>>
    BY <1>1, InstructionIs, ProgramIs, ReaderIs DEF Machine
  <2>2. CASE RunState
    BY <1>1, <2>2, RunNoReader, RunEven DEF Machine, IInv
  <2>3. ASSUME NEW m, NEW f, NEW pending, NEW t, NEW d, NEW B,
               ReadState(m, f, pending, t, d, B)
        PROVE  Even' /\ Lin(memory')
    BY <1>1, <2>3, ReadNoRun, ReaderEven DEF Machine, IInv
  <2> QED BY <2>1, <2>2, <2>3, WhichMode
<1>2. CASE User
  <2>1. ASSUME NEW c, Type(c) PROVE Even' /\ Lin(memory')
    BY <2>1, SameEven DEF Type
  <2> QED BY <1>2, <2>1, StartTermEven, EndTermEven, StartDefinitionEven, EndDefinitionEven
          DEF User
<1>3. CASE Collect
  BY <1>3, CollectEven
<1>4. CASE UNCHANGED vars
  BY <1>4, SameEven DEF vars
<1> QED BY <1>1, <1>2, <1>3, <1>4 DEF Next

LEMMA EvenIdle ==
  ASSUME Even
  PROVE  frames = <<>> /\ ~failed => root["dump"] = 0
BY DEF Even, Running

(* Only the front end is left, and its second command owes nothing.         *)
LEMMA EvenDumps ==
  ASSUME IInv, Even
  PROVE  DumpsEmpty
<1> SUFFICES ASSUME Finished, ~failed, NEW r \in Registers \ {"stck", "prog"}
             PROVE  root[r] = 0
  BY DEF DumpsEmpty
<1>1. frames # <<>> /\ Top.fn = frontend /\ Len(Top.code) = 1
  BY DEF Finished, In
<1>2. Typed /\ frontend # "readterm" /\ frontend # "exec_term" /\ frontend \in Frontends
  BY FrontendNames DEF IInv, Typed
<1>3. RunState /\ Running
  BY <1>1, <1>2, WhichMode, ReadNoRun
<1>4. PICK L : Run(frames, L)
  BY <1>3 DEF RunState
<1>5. Atop(frames, Top, Tail(frames))
  BY <1>4, AtopTop
<1>6. Holding(frames, memory, root) /\ Called(frames, memory, root)
  BY <1>3 DEF Even, Balanced
<1>7. Top.code # <<>>
  BY <1>1
<1>8. ASSUME NEW d \in DumpNames PROVE root[d] = 0 /\ Tail(frames) = <<>>
  <2>1. PICK k \in Nat : Sums(frames, d, k) /\ Long(memory, root[d], k)
    BY <1>6 DEF Holding
  <2>2. Tail(frames) = <<>>
    BY <1>1, <1>2, <1>5, <2>1, SumsOff
  <2>3. PICK m \in Nat : m <= k /\ Sums(Tail(frames), d, m) /\ Owes(Top, d, k - m)
    BY <1>5, <2>1, SumsOff
  <2>4. m = 0
    BY <2>2, <2>3, SumsEmpty
  <2>5. Owes(Top, d, k)
    BY <2>3, <2>4
  <2>6. Top.code \in Seq(Commands)
    BY <1>1, <1>2, <2>5 DEF Owes
  <2>7. Head(Top.code) \in Commands /\ Tail(Top.code) \in Seq(Commands)
        /\ Len(Tail(Top.code)) = 0
    BY <1>1, <1>7, <2>6, HeadTailProperties
  <2>8. Head(Top.code)[1] # "if" /\ Move(Head(Top.code), d) = 0 /\ Tail(Top.code) = <<>>
    BY <2>7, CommandKinds, EmptySeq
  <2> DEFINE g == [fn |-> Top.fn, code |-> Tail(Top.code)]
  <2>9. Owes(g, d, k + 0) /\ g.code = <<>> /\ g.fn # "exec_term"
    BY <1>1, <1>2, <1>7, <2>5, <2>8, OwesAdvance
  <2> HIDE DEF g
  <2>10. k = 0
    BY <2>9, OwesNothing
  <2> QED BY <2>1, <2>2, <2>10, LongEnds
<1>9. root["conts"] = 0
  <2>1. Tail(frames) = <<>>
    BY <1>8, DumpsAreRegisters
  <2>2. Calls(Tail(frames)) = 0
    BY <2>1, CallsEmpty
  <2>3. Calls(frames) = Calls(Tail(frames)) + (IF Top.fn = "exec_term" THEN 1 ELSE 0)
    BY <1>5, CallsAtop
  <2>4. Calls(frames) = 0
    BY <1>1, <1>2, <2>2, <2>3
  <2> QED BY <1>6, <2>4, LongEnds DEF Called
<1>10. r \in DumpNames \cup {"conts"}
  BY DEF Registers, DumpNames
<1> QED BY <1>8, <1>9, <1>10

LEMMA EvenConts ==
  ASSUME IInv, Even, Lin(memory)
  PROVE  ContsMatch
<1> SUFFICES ASSUME Running, ~aborted, frontend = "repl"
             PROVE  Len(Chain(root["conts"])) = Calls(frames)
  BY DEF ContsMatch, Calls
<1>1. RunState /\ Balanced
  BY WhichMode DEF Running, Even
<1>2. Long(memory, root["conts"], Calls(frames)) /\ Calls(frames) \in Nat
  BY <1>1, NotExecTerm DEF Balanced, Called, RunState, IInv
<1>3. root["conts"] \in DOMAIN memory
      /\ \A n \in DOMAIN memory : memory[n].next \in DOMAIN memory
  BY RegisterNames DEF IInv, Registered, Alive, Sound, CellIn
<1> QED BY <1>2, <1>3, ChainLength

-----------------------------------------------------------------------------
(* The theorems.  The three parts of the invariant need one another: what   *)
(* is on the dump when a term ends is what was there before it began, and   *)
(* that it was nothing follows from how the command before it ended.        *)

LEMMA Invariance ==
  ASSUME Programs
  PROVE  Spec => [](IInv /\ Even /\ Lin(memory))
<1>1. Init => IInv /\ Even /\ Lin(memory)
  BY IInvInit, EvenInit
<1>2. IInv /\ Even /\ Lin(memory) /\ [Next]_vars => (IInv /\ Even /\ Lin(memory))'
  BY IInvNext, EvenNext, EvenIdle
<1> QED BY <1>1, <1>2, PTL DEF Spec

(* Whatever is typed and defined with the builtins that relink nothing, and *)
(* wherever collections fall between the steps of readterm, exec_term and   *)
(* the builtins: no register, no definition and no node refers to a node    *)
(* that a collection has dropped.                                          *)
THEOREM ReferencesAlive ==
  ASSUME Programs
  PROVE  Spec => []RefsLive
<1>1. IInv => RefsLive
  BY IInvRefsLive
<1> QED BY <1>1, Invariance, PTL

(* Such a program, when the commands since the last definition raised no    *)
(* error, leaves conts and all dumps empty at the end of a command, however *)
(* its builtins branch, repeat and call one another: what repl tests after  *)
(* each command (src/repl.c:73).                                           *)
THEOREM CommandsLeaveNothing ==
  ASSUME Programs
  PROVE  Spec => []DumpsEmpty
<1>1. IInv /\ Even => DumpsEmpty
  BY EvenDumps
<1> QED BY <1>1, Invariance, PTL

(* And while such a command is executed from repl, until it executes a bad  *)
(* node, the list at conts has one program for every activation of          *)
(* exec_term on the C stack (src/interp.c:exec_term): calls, tail calls and *)
(* empty programs push and pop it in step.                                 *)
THEOREM ContsInStep ==
  ASSUME Programs
  PROVE  Spec => []ContsMatch
<1>1. IInv /\ Even /\ Lin(memory) => ContsMatch
  BY EvenConts
<1> QED BY <1>1, Invariance, PTL

=============================================================================
