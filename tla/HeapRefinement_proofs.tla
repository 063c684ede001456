----------------------- MODULE HeapRefinement_proofs -----------------------
(***************************************************************************)
(* NodeHeap implements ValueStack, for every size of the memory, every     *)
(* length of a run and every way memory is enlarged: the values that a     *)
(* program sees are those of a stack on which nothing is ever collected.   *)
(***************************************************************************)
EXTENDS HeapRefinement, NodeHeap_proofs, Induction

-----------------------------------------------------------------------------
(* Denote, the recursive function, and what it computes on a sound heap.   *)

Depths == 0 .. 2 * MaxIndex

(* What one level of Denote makes of the level below.                      *)
ValueAt(node, n, g) ==
  CASE node.op = "INTEGER" -> <<"num", node.u>>
    [] node.op = "STRING"  -> <<"str", node.len>>
    [] node.op = "LIST"    -> <<"list", g[node.u]>>
    [] OTHER               -> <<"bad", n>>

Level(d, g) ==
  [n \in Index |->
     IF n = 0 THEN <<>>
     ELSE IF d = 0 THEN << <<"bad", n>> >>
     ELSE <<ValueAt(memory[n], n, g)>> \o g[memory[n].next]]

Denoting(f) == f = [d \in Depths |-> Level(d, f[d - 1])]

(* There is a function with the levels up to k, for every k.               *)
LEMMA DenotingExists == \E f : Denoting(f)
<1> DEFINE UpTo(f, k) == /\ DOMAIN f = Depths /\ f = [d \in Depths |-> f[d]]
                         /\ \A d \in Depths : d <= k => f[d] = Level(d, f[d - 1])
           K == {k \in Nat : \E f : UpTo(f, k)}
<1>0. MaxIndex \in Nat
  BY HeapAssumption
<1>1. 0 \in K
  <2> DEFINE f == [d \in Depths |-> Level(0, <<>>)]
  <2>1. \A g : Level(0, g) = Level(0, <<>>)
    BY DEF Level
  <2>2. \A d \in Depths : d <= 0 => d = 0
    BY <1>0 DEF Depths
  <2>3. UpTo(f, 0)
    BY <2>1, <2>2
  <2> QED BY <2>3
<1>2. ASSUME NEW k \in Nat, k \in K PROVE k + 1 \in K
  <2>1. PICK f : UpTo(f, k)
    BY <1>2
  <2> DEFINE g == [d \in Depths |-> IF d <= k THEN f[d] ELSE Level(d, f[d - 1])]
  <2>2. ASSUME NEW d \in Depths, d <= k + 1 PROVE g[d] = Level(d, g[d - 1])
    <3>0. d \in Nat
      BY <1>0 DEF Depths
    <3>1. g[d] = Level(d, f[d - 1])
      BY <2>1, <2>2
    <3>2. CASE d = 0
      <4>1. Level(0, f[d - 1]) = Level(0, g[d - 1])
        BY DEF Level
      <4> QED BY <3>1, <3>2, <4>1
    <3>3. CASE d # 0
      <4>1. d - 1 \in Depths /\ d - 1 <= k
        BY <1>0, <2>2, <3>0, <3>3 DEF Depths
      <4>2. g[d - 1] = f[d - 1]
        BY <4>1
      <4> QED BY <3>1, <4>2
    <3> QED BY <3>2, <3>3
  <2>3. DOMAIN g = Depths /\ g = [d \in Depths |-> g[d]]
    OBVIOUS
  <2> HIDE DEF g
  <2>4. UpTo(g, k + 1)
    BY <2>2, <2>3
  <2> QED BY <2>4
<1>3. 2 * MaxIndex \in K
  <2> HIDE DEF K
  <2> QED BY <1>0, <1>1, <1>2, NatInd
<1>4. PICK f : UpTo(f, 2 * MaxIndex)
  BY <1>3
<1>5. f = [d \in Depths |-> Level(d, f[d - 1])]
  <2>1. \A d \in Depths : d <= 2 * MaxIndex
    BY <1>0 DEF Depths
  <2>2. \A d \in Depths : f[d] = Level(d, f[d - 1])
    BY <1>4, <2>1
  <2>3. f = [d \in Depths |-> f[d]]
    BY <1>4
  <2> QED BY <2>2, <2>3
<1> QED BY <1>5 DEF Denoting

LEMMA DenoteLevel ==
  ASSUME NEW d \in Depths
  PROVE  Denote[d] = Level(d, Denote[d - 1])
<1>1. \A f : Denoting(f) => Denoting(Denote)
  BY DEF Denoting, Denote, Level, ValueAt, Depths
<1>2. Denoting(Denote)
  BY <1>1, DenotingExists
<1> QED BY <1>2 DEF Denoting

(* A heap on which V is the value of every node of D: references stay in   *)
(* D and lead to nodes of lower rank.                                      *)
ValueOf(x, V) ==
  IF x.op = "INTEGER" THEN <<"num", x.u>>
  ELSE IF x.op = "STRING" THEN <<"str", x.len>>
  ELSE <<"list", V[x.u]>>

Reaches(n, r, D, rank) == r = 0 \/ (r \in D /\ rank[r] < rank[n])

SoundNode(x, n, D, V, rank) ==
  /\ x.op \in {"INTEGER", "STRING", "LIST"}
  /\ Reaches(n, x.next, D, rank)
  /\ x.op = "LIST" => Reaches(n, x.u, D, rank)
  /\ V[n] = <<ValueOf(x, V)>> \o V[x.next]

Sound(mem, D, V, rank) ==
  /\ D \subseteq 1 .. MaxIndex
  /\ rank \in [Index -> Nat]
  /\ V[0] = <<>>
  /\ \A n \in D : SoundNode(mem[n], n, D, V, rank)

(* Denote finds V: no path of references is longer than the nodes are many.*)
LEMMA DenoteRight ==
  \A D, V, rank : Sound(memory, D, V, rank) => \A n \in D \cup {0} : Values(n) = V[n]
<1> SUFFICES ASSUME NEW D, NEW V, NEW rank, Sound(memory, D, V, rank)
             PROVE  \A n \in D \cup {0} : Values(n) = V[n]
  OBVIOUS
<1>0. /\ MaxIndex \in Nat /\ MaxIndex > 0 /\ D \subseteq 1 .. MaxIndex /\ D \subseteq Index
      /\ rank \in [Index -> Nat] /\ V[0] = <<>> /\ 0 \in Index
  BY HeapAssumption DEF Sound, Index
<1> DEFINE Under(n) == {k \in D : rank[k] < rank[n]}
           height   == [n \in D |-> Cardinality(Under(n))]
           P(d)     == \A n \in D : height[n] < d => Denote[d][n] = V[n]
           K        == {d \in Nat : d \in Depths => P(d)}
<1>1. ASSUME NEW n \in D PROVE IsFiniteSet(Under(n)) /\ height[n] \in Nat /\ height[n] <= MaxIndex
  <2>1. IsFiniteSet(1 .. MaxIndex) /\ Cardinality(1 .. MaxIndex) = MaxIndex
    BY <1>0, FS_Interval
  <2>2. Under(n) \subseteq 1 .. MaxIndex
    BY <1>0
  <2> HIDE DEF Under
  <2>3. IsFiniteSet(Under(n)) /\ Cardinality(Under(n)) <= MaxIndex
    BY <2>1, <2>2, FS_Subset
  <2>4. Cardinality(Under(n)) \in Nat
    BY <2>3, FS_CardinalityType
  <2> QED BY <2>3, <2>4
<1>2. ASSUME NEW n \in D, NEW m \in D, rank[m] < rank[n] PROVE height[m] < height[n]
  <2>1. m \in Under(n) /\ m \notin Under(m) /\ Under(m) \subseteq Under(n)
    BY <1>0, <1>2
  <2>2. IsFiniteSet(Under(n)) /\ IsFiniteSet(Under(m))
    BY <1>1
  <2> HIDE DEF Under
  <2>3. Under(m) # Under(n)
    BY <2>1
  <2>4. Cardinality(Under(m)) < Cardinality(Under(n))
    <3>1. /\ Cardinality(Under(m)) <= Cardinality(Under(n))
          /\ Cardinality(Under(n)) = Cardinality(Under(m)) => Under(n) = Under(m)
      BY <2>1, <2>2, FS_Subset
    <3>2. Cardinality(Under(m)) \in Nat /\ Cardinality(Under(n)) \in Nat
      BY <2>2, FS_CardinalityType
    <3> QED BY <2>3, <3>1, <3>2
  <2> QED BY <2>4
<1> HIDE DEF height, Under
<1>3. 0 \in K
  <2>1. P(0)
    BY <1>1
  <2> QED BY <2>1
<1>z. \A d \in Depths : Denote[d][0] = <<>>
  BY <1>0, DenoteLevel DEF Level
<1>4. ASSUME NEW d \in Nat, d \in K PROVE d + 1 \in K
  <2>1. SUFFICES ASSUME d + 1 \in Depths, NEW n \in D, height[n] < d + 1
                 PROVE  Denote[d + 1][n] = V[n]
    OBVIOUS
  <2>2. d \in Depths /\ d + 1 # 0 /\ d + 1 - 1 = d
    BY <1>0, <2>1 DEF Depths
  <2>3. P(d)
    BY <1>4, <2>2
  <2> DEFINE x == memory[n]
  <2>4. SoundNode(x, n, D, V, rank)
    BY DEF Sound
  <2>5. ASSUME NEW r, Reaches(n, r, D, rank) PROVE Denote[d][r] = V[r]
    <3>1. CASE r = 0
      BY <1>0, <1>z, <2>2, <3>1
    <3>2. CASE r \in D /\ rank[r] < rank[n]
      <4>1. height[r] < height[n] /\ height[r] \in Nat /\ height[n] \in Nat
        BY <1>1, <1>2, <3>2
      <4>2. height[r] < d
        BY <2>1, <4>1
      <4> QED BY <2>3, <3>2, <4>2
    <3> QED BY <2>5, <3>1, <3>2 DEF Reaches
  <2>6. Denote[d + 1][n] = <<ValueAt(x, n, Denote[d])>> \o Denote[d][x.next]
    <3>1. Denote[d + 1] = Level(d + 1, Denote[d])
      BY <2>1, <2>2, DenoteLevel
    <3>2. n \in Index /\ n # 0
      BY <1>0
    <3> QED BY <2>2, <3>1, <3>2 DEF Level
  <2>7. Denote[d][x.next] = V[x.next]
    BY <2>4, <2>5 DEF SoundNode
  <2>8. ValueAt(x, n, Denote[d]) = ValueOf(x, V)
    <3>1. x.op = "LIST" => Denote[d][x.u] = V[x.u]
      BY <2>4, <2>5 DEF SoundNode
    <3> QED BY <2>4, <3>1 DEF ValueAt, ValueOf, SoundNode
  <2> QED BY <2>4, <2>6, <2>7, <2>8 DEF SoundNode
<1>5. 2 * MaxIndex \in K
  <2> HIDE DEF K
  <2> QED BY <1>0, <1>3, <1>4, NatInd
<1>6. 2 * MaxIndex \in Depths /\ P(2 * MaxIndex)
  <2>1. 2 * MaxIndex \in Depths
    BY <1>0 DEF Depths
  <2> QED BY <1>5, <2>1
<1>7. ASSUME NEW n \in D PROVE Values(n) = V[n]
  <2>1. height[n] < 2 * MaxIndex
    BY <1>0, <1>1
  <2> QED BY <1>6, <2>1 DEF Values
<1>8. Values(0) = V[0]
  BY <1>0, <1>6, <1>z DEF Values
<1> QED BY <1>7, <1>8

-----------------------------------------------------------------------------
(* What a program of NodeHeap does to values.  The registers hold chains,  *)
(* whose values are sequences; binding has the values of the bodies.       *)

Rest(q)   == IF q = <<>> THEN <<>> ELSE Tail(q)
InList(q) == IF q # <<>> /\ q[1][1] = "list" THEN q[1][2] ELSE <<>>

After(q, k) == CASE k = 0 -> q
                 [] k = 1 -> Rest(q)
                 [] k = 2 -> Rest(Rest(q))
                 [] OTHER -> Rest(Rest(Rest(q)))

ValueAtOp(o, a) ==
  CASE o[1] = "stck"  -> After(a.reg["stck"], o[2])
    [] o[1] = "lis"   -> InList(After(a.reg["stck"], o[2]))
    [] o[1] = "saved" -> After(InList(a.reg["dump"]), o[2])
    [] o[1] = "first" -> After(InList(InList(a.reg["dump"])), o[2])
    [] o[1] = "dump"  -> a.reg["dump"]
    [] o[1] = "body"  -> a.binding[o[2]]
    [] o[1] = "l"     -> a.reg["l"]
    [] OTHER          -> <<>>

(* A chain is handed to a register; the parameter l is passed on once.     *)
Put(a, dst, q) ==
  [reg     |-> [r \in Target |-> IF r = dst THEN q
                                 ELSE IF r = "l" THEN <<>> ELSE a.reg[r]],
   binding |-> a.binding]

NewValue(i, a) ==
  CASE i.do = "lit"  -> IF i.op = "INTEGER" THEN <<"num", i.u>> ELSE <<"str", i.len>>
    [] i.do = "copy" -> ValueAtOp(i.src, a)[1]
    [] OTHER         -> <<"list", ValueAtOp(i.src, a)>>

Allocating == {"lit", "copy", "list"}

Effect(i, a) ==
  CASE i.do \in Allocating -> Put(a, i.dst, <<NewValue(i, a)>> \o ValueAtOp(i.nxt, a))
    [] i.do = "pop"     -> [reg |-> [a.reg EXCEPT ![i.reg] = Rest(@)], binding |-> a.binding]
    [] i.do = "unstack" -> [reg |-> [a.reg EXCEPT !["stck"] = InList(@)], binding |-> a.binding]
    [] i.do = "body"    -> [reg     |-> [a.reg EXCEPT !["stck"] = Rest(@)],
                            binding |-> [a.binding EXCEPT ![i.sym] = InList(a.reg["stck"])]]
    [] i.do = "var"     -> [reg     |-> [a.reg EXCEPT !["l"] = <<>>],
                            binding |-> [a.binding EXCEPT ![i.sym] = a.reg["l"]]]
    [] OTHER            -> a

(* A node that is not there is never copied.                               *)
Ready(i, a) == i.do = "copy" => ValueAtOp(i.src, a) # <<>>

(* The program c, started on a, ends with g.                               *)
Arrives(c, a, g) ==
  \E t : /\ t[1] = a /\ t[Len(c) + 1] = g
         /\ \A k \in 1 .. Len(c) : Ready(c[k], t[k]) /\ t[k + 1] = Effect(c[k], t[k])

LEMMA ArrivesEnd == ASSUME NEW a, NEW g PROVE Arrives(<<>>, a, g) <=> a = g
<1>1. ASSUME a = g PROVE Arrives(<<>>, a, g)
  <2> DEFINE t == <<a>>
  <2>1. t[1] = a /\ t[Len(<<>>) + 1] = g /\ \A k \in 1 .. Len(<<>>) : FALSE
    BY <1>1
  <2> HIDE DEF t
  <2> QED BY <2>1 DEF Arrives
<1>2. ASSUME Arrives(<<>>, a, g) PROVE a = g
  BY <1>2 DEF Arrives
<1> QED BY <1>1, <1>2

LEMMA ArrivesTail ==
  ASSUME NEW I, NEW c \in Seq(I), c # <<>>, NEW a, NEW g, Arrives(c, a, g)
  PROVE  Ready(Head(c), a) /\ Arrives(Tail(c), Effect(Head(c), a), g)
<1>1. PICK t : /\ t[1] = a /\ t[Len(c) + 1] = g
               /\ \A k \in 1 .. Len(c) : Ready(c[k], t[k]) /\ t[k + 1] = Effect(c[k], t[k])
  BY DEF Arrives
<1>2. /\ Len(c) \in Nat \ {0} /\ Head(c) = c[1] /\ Len(Tail(c)) = Len(c) - 1
      /\ \A k \in 1 .. Len(Tail(c)) : Tail(c)[k] = c[k + 1]
  OBVIOUS
<1>3. Ready(Head(c), a) /\ t[2] = Effect(Head(c), a)
  <2>1. 1 \in 1 .. Len(c) /\ 1 + 1 = 2
    BY <1>2
  <2> QED BY <1>1, <1>2, <2>1
<1> DEFINE n == Len(Tail(c))
           s == [k \in 1 .. Len(c) |-> t[k + 1]]
<1>4. s[1] = t[2] /\ s[n + 1] = g
  <2>1. 1 \in 1 .. Len(c) /\ n + 1 \in 1 .. Len(c) /\ n + 1 = Len(c) /\ 1 + 1 = 2
    BY <1>2
  <2> HIDE DEF n
  <2> QED BY <1>1, <2>1
<1>5. ASSUME NEW k \in 1 .. n PROVE Ready(Tail(c)[k], s[k]) /\ s[k + 1] = Effect(Tail(c)[k], s[k])
  <2>1. k \in 1 .. Len(c) /\ k + 1 \in 1 .. Len(c) /\ Tail(c)[k] = c[k + 1]
    BY <1>2
  <2> QED BY <1>1, <2>1
<1> HIDE DEF s
<1> QED BY <1>3, <1>4, <1>5 DEF Arrives

-----------------------------------------------------------------------------
(* The values of the registers and of the bodies of names: R and B are the *)
(* nodes at which they begin.                                              *)

Valued(mem, D, V, rank) ==
  /\ Sound(mem, D, V, rank)
  /\ mem[0] = Blank
  /\ \E T : V \in [Index -> Seq(T)]

Plain(V, R, B) ==
  [reg |-> [r \in Target |-> V[R[r]]], binding |-> [s \in Syms |-> V[B[s]]]]

Bodies == [s \in Syms |-> symtab[s].body]

(* The roots and the bodies are nil or nodes of D.                         *)
Within(D, R, B) ==
  /\ R \in [RootSet -> D \cup {0}]
  /\ B \in [Syms -> D \cup {0}]

LEMMA ConsFacts ==
  ASSUME NEW T, NEW q \in Seq(T), NEW v
  PROVE  /\ <<v>> \o q # <<>> /\ (<<v>> \o q)[1] = v
         /\ Rest(<<v>> \o q) = q
<1> DEFINE U == T \cup {v}
           b == <<v>> \o q
<1>1. q \in Seq(U) /\ <<v>> \in Seq(U) /\ Len(<<v>>) = 1 /\ <<v>>[1] = v
  OBVIOUS
<1> HIDE DEF U
<1>2. /\ b \in Seq(U) /\ Len(b) = 1 + Len(q) /\ Len(q) \in Nat
      /\ \A k \in 1 .. 1 + Len(q) : b[k] = IF k <= 1 THEN <<v>>[k] ELSE q[k - 1]
  BY <1>1, ConcatProperties
<1> HIDE DEF b
<1>3. b # <<>> /\ b[1] = v
  BY <1>1, <1>2
<1>4. Tail(b) \in Seq(U) /\ Len(Tail(b)) = Len(q) /\ \A k \in 1 .. Len(q) : Tail(b)[k] = b[k + 1]
  BY <1>2, <1>3
<1>5. \A k \in 1 .. Len(q) : Tail(b)[k] = q[k]
  BY <1>2, <1>4
<1>6. Tail(b) = q
  BY <1>1, <1>4, <1>5, SeqEqual
<1>7. Rest(b) = q
  BY <1>3, <1>6 DEF Rest
<1> QED BY <1>3, <1>7 DEF b

LEMMA ValueRest ==
  ASSUME TypeOK, NEW D, NEW V, NEW rank, Valued(memory, D, V, rank), NEW n \in D \cup {0}
  PROVE  /\ n \in Index
         /\ Nxt(n) \in D \cup {0} /\ V[Nxt(n)] = Rest(V[n])
         /\ Lis(n) \in D \cup {0} /\ V[Lis(n)] = InList(V[n])
         /\ V[n] = <<>> <=> n = 0
         /\ n # 0 => V[n][1] = ValueOf(memory[n], V)
<1>0. /\ Sound(memory, D, V, rank) /\ memory[0] = Blank /\ V[0] = <<>>
      /\ D \subseteq Index /\ 0 \notin D /\ n \in Index
  <2>1. D \subseteq 1 .. MaxIndex /\ MaxIndex \in Nat
    BY HeapAssumption DEF Valued, Sound
  <2>2. D \subseteq Index /\ 0 \in Index /\ 0 \notin D
    BY <2>1 DEF Index
  <2> QED BY <2>2 DEF Valued, Sound
<1>t. PICK T : V \in [Index -> Seq(T)]
  BY DEF Valued
<1>1. CASE n = 0
  BY <1>0, <1>1 DEF Nxt, Lis, Blank, Rest, InList
<1>2. CASE n # 0
  <2> DEFINE x == memory[n]
  <2>1. SoundNode(x, n, D, V, rank)
    BY <1>0, <1>2 DEF Sound
  <2>2. x.next \in D \cup {0} /\ V[x.next] \in Seq(T) /\ V[n] = <<ValueOf(x, V)>> \o V[x.next]
    <3>1. x.next \in D \cup {0} /\ V[n] = <<ValueOf(x, V)>> \o V[x.next]
      BY <2>1 DEF SoundNode, Reaches
    <3>2. x.next \in Index
      BY <1>0, <3>1, IndexFacts
    <3> QED BY <1>t, <3>1, <3>2
  <2>3. V[n] # <<>> /\ V[n][1] = ValueOf(x, V) /\ Rest(V[n]) = V[x.next]
    BY <2>2, ConsFacts
  <2>4. Lis(n) \in D \cup {0} /\ V[Lis(n)] = InList(V[n])
    <3>1. CASE x.op = "LIST"
      <4>1. x.u \in D \cup {0}
        BY <2>1, <3>1 DEF SoundNode, Reaches
      <4>2. ValueOf(x, V) = <<"list", V[x.u]>>
        BY <3>1 DEF ValueOf
      <4> QED BY <2>3, <3>1, <4>1, <4>2 DEF Lis, InList
    <3>2. CASE x.op # "LIST"
      <4>1. ValueOf(x, V)[1] # "list"
        BY <2>1, <3>2 DEF ValueOf, SoundNode
      <4> QED BY <1>0, <2>3, <3>2, <4>1 DEF Lis, InList
    <3> QED BY <3>1, <3>2
  <2> QED BY <1>0, <1>2, <2>2, <2>3, <2>4 DEF Nxt
<1> QED BY <1>1, <1>2

LEMMA ValueSkip ==
  ASSUME TypeOK, NEW D, NEW V, NEW rank, Valued(memory, D, V, rank),
         NEW n \in D \cup {0}, NEW k
  PROVE  Skip(n, k) \in D \cup {0} /\ V[Skip(n, k)] = After(V[n], k)
<1>1. Nxt(n) \in D \cup {0} /\ V[Nxt(n)] = Rest(V[n])
  BY ValueRest
<1>2. Nxt(Nxt(n)) \in D \cup {0} /\ V[Nxt(Nxt(n))] = Rest(V[Nxt(n)])
  BY <1>1, ValueRest
<1>3. Nxt(Nxt(Nxt(n))) \in D \cup {0} /\ V[Nxt(Nxt(Nxt(n)))] = Rest(V[Nxt(Nxt(n))])
  BY <1>2, ValueRest
<1> QED BY <1>1, <1>2, <1>3 DEF Skip, After

(* An operand is the node whose value the abstract program looks at.       *)
LEMMA ValueAtRight ==
  ASSUME TypeOK, NEW D, NEW V, NEW rank, Valued(memory, D, V, rank),
         Within(D, root, Bodies), NEW o \in Operand
  PROVE  At(o) \in D \cup {0} /\ V[At(o)] = ValueAtOp(o, Plain(V, root, Bodies))
<1> DEFINE a == Plain(V, root, Bodies)
<1>1. /\ a.reg["stck"] = V[root.stck] /\ a.reg["dump"] = V[root.dump] /\ a.reg["l"] = V[root.l]
      /\ root.stck \in D \cup {0} /\ root.dump \in D \cup {0} /\ root.l \in D \cup {0}
      /\ V[0] = <<>>
  BY RootNamesType DEF Plain, Target, Within, Valued, Sound
<1>2. ASSUME NEW k PROVE /\ Skip(root.stck, k) \in D \cup {0}
                         /\ V[Skip(root.stck, k)] = After(a.reg["stck"], k)
  BY <1>1, ValueSkip
<1>3. Lis(root.dump) \in D \cup {0} /\ V[Lis(root.dump)] = InList(a.reg["dump"])
  BY <1>1, ValueRest
<1>4. Lis(Lis(root.dump)) \in D \cup {0} /\ V[Lis(Lis(root.dump))] = InList(InList(a.reg["dump"]))
  BY <1>3, ValueRest
<1>5. CASE o[1] = "stck"
  BY <1>2, <1>5 DEF At, ValueAtOp
<1>6. CASE o[1] = "lis"
  <2>1. /\ Lis(Skip(root.stck, o[2])) \in D \cup {0}
        /\ V[Lis(Skip(root.stck, o[2]))] = InList(After(a.reg["stck"], o[2]))
    BY <1>2, ValueRest
  <2> QED BY <1>6, <2>1 DEF At, ValueAtOp
<1>7. CASE o[1] = "saved"
  <2>1. /\ Skip(Lis(root.dump), o[2]) \in D \cup {0}
        /\ V[Skip(Lis(root.dump), o[2])] = After(InList(a.reg["dump"]), o[2])
    BY <1>3, ValueSkip
  <2> QED BY <1>7, <2>1 DEF At, ValueAtOp
<1>8. CASE o[1] = "first"
  <2>1. /\ Skip(Lis(Lis(root.dump)), o[2]) \in D \cup {0}
        /\ V[Skip(Lis(Lis(root.dump)), o[2])] = After(InList(InList(a.reg["dump"])), o[2])
    BY <1>4, ValueSkip
  <2> QED BY <1>8, <2>1 DEF At, ValueAtOp
<1>9. CASE o[1] \in {"dump", "l"}
  BY <1>1, <1>9 DEF At, ValueAtOp
<1>10. CASE o[1] = "body"
  <2>1. o[2] \in Syms
    BY <1>10 DEF Operand
  <2>2. a.binding[o[2]] = V[Bodies[o[2]]] /\ Bodies[o[2]] = symtab[o[2]].body
    BY <2>1 DEF Plain, Bodies
  <2> QED BY <1>10, <2>1, <2>2 DEF At, ValueAtOp, Within
<1>11. CASE o[1] = "nil"
  BY <1>1, <1>11 DEF At, ValueAtOp
<1> QED BY <1>5, <1>6, <1>7, <1>8, <1>9, <1>10, <1>11 DEF Operand

-----------------------------------------------------------------------------
(* A new node: its value, made of values that are there already.           *)

NodeOf(q, u, nxt) == [op |-> q.op, len |-> q.len, next |-> nxt, u |-> u]

(* The new node has a value, and every other one the value it had.         *)
Extended(V2, rank2, D, V, q, u, nxt) ==
  /\ Valued(memory', D \cup {memoryindex}, V2, rank2)
  /\ D \cup {memoryindex} \subseteq 1 .. memoryindex' - 1
  /\ \A n \in D \cup {0} : V2[n] = V[n]
  /\ V2[memoryindex] = <<ValueOf(NodeOf(q, u, nxt), V)>> \o V[nxt]

LEMMA BuildValued ==
  ASSUME TypeOK, Low, NEW D, NEW V, NEW rank, Valued(memory, D, V, rank),
         D \subseteq 1 .. memoryindex - 1,
         NEW q \in Requests, q.op # "ILLEGAL", NEW u \in Nat, NEW nxt \in D \cup {0},
         q.op = "LIST" => u \in D \cup {0}, Build(q, u, nxt)
  PROVE  \E V2, rank2 : Extended(V2, rank2, D, V, q, u, nxt)
<1> DEFINE p == memoryindex
           x == NodeOf(q, u, nxt)
           val == ValueOf(x, V)
           high == IF q.op = "LIST" THEN rank[u] ELSE 0
           rank2 == [rank EXCEPT ![p] = 1 + rank[nxt] + high]
           V2 == [V EXCEPT ![p] = <<val>> \o V[nxt]]
           E == D \cup {p}
<1>0. /\ p \in 1 .. MaxIndex /\ p \in Index /\ p \in Nat /\ MaxIndex \in Nat
      /\ memoryindex' = p + 1 + q.len /\ q.len \in Nat
      /\ q.op \in {"INTEGER", "STRING", "LIST"}
  <2>1. p \in Nat /\ q.len \in Nat /\ p >= 1 /\ MaxIndex \in Nat
    BY LowIndex, HeapAssumption DEF Requests, Low
  <2>2. p + q.len <= MaxIndex /\ memoryindex' = p + 1 + q.len
    BY DEF Build
  <2>3. q.op \in {"INTEGER", "STRING", "LIST"}
    BY DEF Requests, Ops
  <2> QED BY <2>1, <2>2, <2>3 DEF Index
<1>1. /\ memory' = [i \in Index |-> IF i = p THEN x
                                   ELSE IF i \in p + 1 .. p + q.len THEN Blank ELSE memory[i]]
      /\ 0 \in Index
  BY IndexFacts DEF Build, NodeOf
<1>2. /\ Sound(memory, D, V, rank) /\ memory[0] = Blank /\ V[0] = <<>>
      /\ D \subseteq 1 .. MaxIndex /\ rank \in [Index -> Nat] /\ p \notin D /\ D \subseteq Index
  <2>1. D \subseteq 1 .. MaxIndex
    BY DEF Valued, Sound
  <2>2. D \subseteq Index /\ p \notin D
    BY <1>0, <2>1 DEF Index
  <2> QED BY <2>1, <2>2 DEF Valued, Sound
<1>t. PICK T : V \in [Index -> Seq(T)]
  BY DEF Valued
<1>3. \A n \in D \cup {0} : n # p /\ n \in Index /\ memory'[n] = memory[n] /\ V2[n] = V[n] /\ rank2[n] = rank[n]
  <2>1. \A n \in D \cup {0} : n \in Index /\ n # p /\ n \notin p + 1 .. p + q.len
    <3>1. \A n \in D \cup {0} : n \in Nat /\ n < p
      BY <1>0
    <3>2. \A n \in D \cup {0} : n \in Index
      BY <1>1, <1>2
    <3> QED BY <1>0, <3>1, <3>2
  <2> QED BY <1>1, <1>2, <1>t, <2>1
<1>4. /\ memory'[p] = x /\ V2[p] = <<val>> \o V[nxt]
      /\ high \in Nat /\ rank[nxt] \in Nat /\ rank2[p] = 1 + rank[nxt] + high
  <2>1. nxt \in Index /\ (q.op = "LIST" => u \in Index)
    BY <1>1, <1>2
  <2> HIDE DEF x, val
  <2> QED BY <1>0, <1>1, <1>2, <1>t, <2>1
<1>5. V2 \in [Index -> Seq(T \cup {val})] /\ rank2 \in [Index -> Nat]
  <2>1. \A n \in Index : V[n] \in Seq(T \cup {val})
    BY <1>t
  <2>2. V[nxt] \in Seq(T \cup {val})
    BY <1>1, <1>2, <2>1
  <2>3. <<val>> \o V[nxt] \in Seq(T \cup {val})
    <3> HIDE DEF val
    <3> QED BY <2>2
  <2> DEFINE W == T \cup {val}
             w == <<val>> \o V[nxt]
  <2>4. V \in [Index -> Seq(W)] /\ w \in Seq(W)
    BY <1>t, <2>1, <2>3
  <2> HIDE DEF W, w
  <2>5. V2 \in [Index -> Seq(W)]
    <3>1. V2 = [V EXCEPT ![p] = w]
      BY DEF w
    <3> HIDE DEF V2
    <3> QED BY <1>0, <2>4, <3>1
  <2>6. rank2 \in [Index -> Nat]
    <3> DEFINE k == 1 + rank[nxt] + high
    <3>1. k \in Nat /\ rank2 = [rank EXCEPT ![p] = k]
      BY <1>4
    <3> HIDE DEF k, rank2
    <3> QED BY <1>0, <1>2, <3>1
  <2> QED BY <2>5, <2>6 DEF W
<1>6. E \subseteq 1 .. memoryindex' - 1 /\ E \subseteq 1 .. MaxIndex
  BY <1>0, <1>2
<1> HIDE DEF V2, rank2, high
<1>7. ASSUME NEW n \in D PROVE SoundNode(memory'[n], n, E, V2, rank2)
  <2> DEFINE y == memory[n]
  <2>1. SoundNode(y, n, D, V, rank) /\ memory'[n] = y
    BY <1>2, <1>3 DEF Sound
  <2>2. ASSUME NEW r, Reaches(n, r, D, rank) PROVE Reaches(n, r, E, rank2) /\ V2[r] = V[r]
    BY <1>3, <2>2 DEF Reaches
  <2>3. ValueOf(y, V2) = ValueOf(y, V)
    BY <2>1, <2>2 DEF ValueOf, SoundNode
  <2> HIDE DEF y, E
  <2> QED BY <1>3, <2>1, <2>2, <2>3 DEF SoundNode
<1>8. SoundNode(memory'[p], p, E, V2, rank2)
  <2>1. /\ x.op = q.op /\ x.next = nxt /\ x.u = u
    BY DEF NodeOf
  <2>2. Reaches(p, nxt, E, rank2)
    BY <1>3, <1>4 DEF Reaches
  <2>3. ASSUME q.op = "LIST" PROVE Reaches(p, u, E, rank2)
    <3>1. CASE u = 0
      <4> HIDE DEF E
      <4> QED BY <3>1 DEF Reaches
    <3>2. CASE u \in D
      <4>1. u \in E
        BY <3>2
      <4>2. high = rank[u] /\ rank2[u] = rank[u] /\ rank[u] \in Nat
        BY <1>2, <1>3, <2>3, <3>2 DEF high
      <4>3. rank2[u] < rank2[p]
        BY <1>4, <4>2
      <4> HIDE DEF E
      <4> QED BY <4>1, <4>3 DEF Reaches
    <3> QED BY <2>3, <3>1, <3>2
  <2>4. ValueOf(x, V2) = val
    <3>1. q.op = "LIST" => V2[u] = V[u]
      BY <1>3
    <3> HIDE DEF x
    <3> QED BY <1>0, <2>1, <3>1 DEF ValueOf
  <2>5. V2[p] = <<ValueOf(x, V2)>> \o V2[nxt]
    BY <1>3, <1>4, <2>4
  <2> HIDE DEF x, val, E
  <2> QED BY <1>0, <1>4, <2>1, <2>2, <2>3, <2>5 DEF SoundNode
<1>9. memory'[0] = Blank /\ V2[0] = <<>>
  BY <1>2, <1>3
<1>10. Valued(memory', E, V2, rank2)
  <2>1. \A n \in E : SoundNode(memory'[n], n, E, V2, rank2)
    BY <1>7, <1>8
  <2> HIDE DEF E
  <2> QED BY <1>5, <1>6, <1>9, <2>1 DEF Valued, Sound
<1> QED BY <1>3, <1>4, <1>6, <1>10 DEF Extended

-----------------------------------------------------------------------------
(***************************************************************************)
(* The collector at work.  D are the nodes of the old memory that may be   *)
(* reached, fwd says where a node has moved, fs are the activations of     *)
(* copy(), and `from` is the node at which the root being copied began.    *)
(* A moved node is like the old one; its list has moved; its link leads to *)
(* where its successor has moved, or the activation that moved it is about *)
(* to move the successor.                                                  *)
(***************************************************************************)

Gone(fwd, n) == n < mem_low \/ fwd[n] # 0
Fwd(fwd, n)  == IF n < mem_low THEN n ELSE fwd[n]
Unused(fwd, p) == \A n \in Index : fwd[n] # p

Like(x, old) ==
  /\ x.op = old.op /\ x.len = old.len
  /\ old.op # "LIST" => x.u = old.u

Forwarded(D, fwd, top, n) ==
  /\ n \in D /\ mem_low <= n
  /\ mem_low <= fwd[n] /\ fwd[n] < top
  /\ \A k \in Index : fwd[k] = fwd[n] => k = n

Linked(x, n, fwd, fs) ==
  \/ /\ Gone(fwd, old_memory[n].next)
     /\ x.next = Fwd(fwd, old_memory[n].next)
  \/ \E k \in 1 .. Len(fs) :
       fs[k].tail = fwd[n] /\ fs[k].cur = old_memory[n].next

NodeMoved(x, n, fwd, fs) ==
  /\ Like(x, old_memory[n])
  /\ old_memory[n].op = "LIST" =>
       /\ Gone(fwd, old_memory[n].u)
       /\ x.u = Fwd(fwd, old_memory[n].u)
  /\ Linked(x, n, fwd, fs)

(* Where the chain of the k-th activation began in the old memory.         *)
StartOf(fs, k, from) == IF k = Len(fs) THEN from ELSE old_memory[fs[k + 1].cur].u

Chain(D, fwd, f, start) ==
  /\ f.cur \in D \cup {0}
  /\ f.head = 0 => f.tail = 0 /\ f.cur = start
  /\ f.head # 0 => /\ f.tail # 0 /\ start \in D /\ mem_low <= start /\ fwd[start] = f.head
                   /\ \E n \in D : fwd[n] = f.tail /\ old_memory[n].next = f.cur

Waiting(D, mem, fwd, top, f) ==
  /\ f.cur \in D /\ mem_low <= f.cur /\ fwd[f.cur] = 0
  /\ old_memory[f.cur].op = "LIST"
  /\ mem_low <= f.dest /\ f.dest < top /\ Unused(fwd, f.dest)
  /\ Like(mem[f.dest], old_memory[f.cur])

(* Inner activations are at nodes of lower rank, and every activation has  *)
(* a node of its own.                                                      *)
Apart(rank, f, g) == f.cur # 0 => rank[f.cur] < rank[g.cur]

Sim(D, rank, from, mem, fwd, top, fs) ==
  /\ mem \in [Index -> Node] /\ fwd \in [Index -> Index] /\ fs \in Seq(Frame)
  /\ top \in Nat
  /\ \A n \in Index : n < mem_low => mem[n] = old_memory[n]
  /\ \A n \in Index : fwd[n] # 0 => Forwarded(D, fwd, top, n)
  /\ \A n \in Index : fwd[n] # 0 => NodeMoved(mem[fwd[n]], n, fwd, fs)
  /\ \A k \in 1 .. Len(fs) : Chain(D, fwd, fs[k], StartOf(fs, k, from))
  /\ \A k \in 2 .. Len(fs) : Waiting(D, mem, fwd, top, fs[k])
  /\ \A j, k \in 1 .. Len(fs) : j < k => Apart(rank, fs[j], fs[k])
  /\ \A j, k \in 2 .. Len(fs) : j < k => fs[j].dest # fs[k].dest

(* The old memory while it is copied.                                      *)
OldFacts(D, rank) ==
  /\ D \subseteq 1 .. MaxIndex /\ rank \in [Index -> Nat]
  /\ old_memory \in [Index -> Node] /\ mem_low \in Nat /\ mem_low > 0
  /\ \A n \in D : /\ Reaches(n, old_memory[n].next, D, rank)
                  /\ old_memory[n].op = "LIST" => Reaches(n, old_memory[n].u, D, rank)

LEMMA OldIndex ==
  ASSUME NEW D, NEW rank, OldFacts(D, rank)
  PROVE  /\ D \subseteq Index /\ 0 \notin D /\ 0 \in Index /\ Index \subseteq Nat
         /\ \A n \in D : old_memory[n].next \in D \cup {0}
         /\ \A n \in D : old_memory[n].op = "LIST" => old_memory[n].u \in D \cup {0}
<1>1. D \subseteq 1 .. MaxIndex /\ MaxIndex \in Nat
  BY HeapAssumption DEF OldFacts
<1> QED BY <1>1 DEF OldFacts, Reaches, Index

(* Sequences of activations. *)
LEMMA FramesJoin ==
  ASSUME NEW fs \in Seq(Frame), fs # <<>>, NEW f \in Frame
  PROVE  LET gs == <<f>> \o Tail(fs) IN
         /\ gs \in Seq(Frame) /\ Len(gs) = Len(fs) /\ gs[1] = f
         /\ Len(fs) \in Nat \ {0} /\ Head(fs) = fs[1]
         /\ \A k \in 2 .. Len(fs) : gs[k] = fs[k]
         /\ \A k \in 1 .. Len(fs) : fs[k] \in Frame
OBVIOUS

LEMMA FramesTail ==
  ASSUME NEW fs \in Seq(Frame), fs # <<>>
  PROVE  /\ Tail(fs) \in Seq(Frame) /\ Len(Tail(fs)) = Len(fs) - 1
         /\ Len(fs) \in Nat \ {0} /\ Head(fs) = fs[1]
         /\ \A k \in 1 .. Len(fs) - 1 : Tail(fs)[k] = fs[k + 1]
         /\ \A k \in 1 .. Len(fs) : fs[k] \in Frame
OBVIOUS

LEMMA FramesPush ==
  ASSUME NEW fs \in Seq(Frame), fs # <<>>, NEW f \in Frame, NEW g \in Frame
  PROVE  LET gs == <<f>> \o (<<g>> \o Tail(fs)) IN
         /\ gs \in Seq(Frame) /\ Len(gs) = Len(fs) + 1 /\ gs[1] = f /\ gs[2] = g
         /\ Len(fs) \in Nat \ {0} /\ Head(fs) = fs[1]
         /\ \A k \in 3 .. Len(gs) : gs[k] = fs[k - 1]
         /\ \A k \in 1 .. Len(fs) : fs[k] \in Frame
OBVIOUS

(* The tail of a chain is linked to a node. *)
LEMMA LinkedTail ==
  ASSUME NEW mem \in [Index -> Node], NEW tail \in Index, NEW to \in Index,
         NEW mem2, mem2 = LinkTail(mem, tail, to)
  PROVE  /\ mem2 \in [Index -> Node]
         /\ \A i \in Index : /\ i # tail => mem2[i] = mem[i]
                             /\ mem2[i].op = mem[i].op /\ mem2[i].len = mem[i].len
                             /\ mem2[i].u = mem[i].u
         /\ tail # 0 => mem2[tail].next = to
<1>1. mem[tail] \in Node
  OBVIOUS
<1>2. [mem[tail] EXCEPT !.next = to] \in Node
  BY <1>1 DEF Node
<1> QED BY <1>1, <1>2 DEF LinkTail, Node

(* Where a node has moved stays so while further nodes move. *)
LEMMA GoneStays ==
  ASSUME NEW fwd \in [Index -> Index], NEW n0 \in Index, fwd[n0] = 0, NEW to \in Index, to # 0,
         NEW n \in Index, Gone(fwd, n)
  PROVE  LET fwd2 == [fwd EXCEPT ![n0] = to] IN
         Gone(fwd2, n) /\ Fwd(fwd2, n) = Fwd(fwd, n)
BY DEF Gone, Fwd

LEMMA JoinSim ==
  ASSUME NEW D, NEW rank, NEW from, NEW mem, NEW fwd, NEW top, NEW fs, NEW to \in Index,
         OldFacts(D, rank), Sim(D, rank, from, mem, fwd, top, fs), fs # <<>>,
         mem_low <= fs[1].cur, fwd[fs[1].cur] = 0,
         mem_low <= to, to < top, Unused(fwd, to),
         Like(mem[to], old_memory[fs[1].cur]),
         old_memory[fs[1].cur].op = "LIST" =>
           Gone(fwd, old_memory[fs[1].cur].u) /\ mem[to].u = Fwd(fwd, old_memory[fs[1].cur].u),
         \A k \in 2 .. Len(fs) : fs[k].dest # to
  PROVE  Sim(D, rank, from, LinkTail(mem, fs[1].tail, to), [fwd EXCEPT ![fs[1].cur] = to], top,
             <<Joined(fs[1], to)>> \o Tail(fs))
<1> DEFINE f    == fs[1]
           n0   == f.cur
           old  == old_memory[n0]
           g    == Joined(f, to)
           gs   == <<g>> \o Tail(fs)
           mem2 == LinkTail(mem, f.tail, to)
           fwd2 == [fwd EXCEPT ![n0] = to]
<1>1. /\ mem \in [Index -> Node] /\ fwd \in [Index -> Index] /\ fs \in Seq(Frame) /\ top \in Nat
      /\ D \subseteq Index /\ 0 \notin D /\ 0 \in Index /\ Index \subseteq Nat
      /\ mem_low \in Nat /\ mem_low > 0 /\ rank \in [Index -> Nat] /\ old_memory \in [Index -> Node]
      /\ to # 0
  <2>1. /\ mem \in [Index -> Node] /\ fwd \in [Index -> Index] /\ fs \in Seq(Frame) /\ top \in Nat
    BY DEF Sim
  <2>2. /\ D \subseteq Index /\ 0 \notin D /\ 0 \in Index /\ Index \subseteq Nat
    BY OldIndex
  <2>3. mem_low \in Nat /\ mem_low > 0 /\ rank \in [Index -> Nat] /\ old_memory \in [Index -> Node]
    BY DEF OldFacts
  <2>4. to \in Nat
    BY <2>2
  <2> QED BY <2>1, <2>2, <2>3, <2>4
<1>2. /\ Len(fs) \in Nat \ {0} /\ f \in Frame /\ 1 \in 1 .. Len(fs)
      /\ \A k \in 1 .. Len(fs) : fs[k] \in Frame
  BY <1>1, FramesTail
<1>3. /\ Chain(D, fwd, f, StartOf(fs, 1, from)) /\ n0 \in D /\ n0 \in Index /\ n0 # 0
      /\ ~(n0 < mem_low)
  <2>1. Chain(D, fwd, f, StartOf(fs, 1, from))
    BY <1>2 DEF Sim
  <2>2. n0 \in D \cup {0}
    BY <2>1 DEF Chain
  <2>3. n0 # 0
    BY <1>1
  <2>4. n0 \in Nat
    BY <1>1, <2>2
  <2>5. ~(n0 < mem_low)
    <3> HIDE DEF n0
    <3> QED BY <1>1, <2>4 DEF n0
  <2> QED BY <1>1, <2>1, <2>2, <2>3, <2>5
<1>4. /\ old.next \in D \cup {0} /\ old.next \in Index /\ Reaches(n0, old.next, D, rank)
  BY <1>1, <1>3, OldIndex DEF OldFacts
<1>5. /\ g.cur = old.next /\ g.head = (IF f.head = 0 THEN to ELSE f.head) /\ g.tail = to /\ g.dest = 0
      /\ g \in Frame
  BY <1>1, <1>2, <1>4 DEF Joined, Frame
<1>6. /\ gs \in Seq(Frame) /\ Len(gs) = Len(fs) /\ gs[1] = g
      /\ \A k \in 2 .. Len(fs) : gs[k] = fs[k]
  <2> HIDE DEF g
  <2> QED BY <1>1, <1>5, FramesJoin
<1>7. /\ mem2 \in [Index -> Node]
      /\ \A i \in Index : /\ i # f.tail => mem2[i] = mem[i]
                          /\ mem2[i].op = mem[i].op /\ mem2[i].len = mem[i].len
                          /\ mem2[i].u = mem[i].u
      /\ f.tail # 0 => mem2[f.tail].next = to
      /\ f.tail \in Index /\ f.head \in Index
  <2>1. f.tail \in Index /\ f.head \in Index
    BY <1>2 DEF Frame
  <2> DEFINE t == f.tail
  <2>2. t \in Index /\ mem2 = LinkTail(mem, t, to)
    BY <2>1
  <2> HIDE DEF mem2, t
  <2>3. /\ mem2 \in [Index -> Node]
        /\ \A i \in Index : /\ i # t => mem2[i] = mem[i]
                            /\ mem2[i].op = mem[i].op /\ mem2[i].len = mem[i].len
                            /\ mem2[i].u = mem[i].u
        /\ t # 0 => mem2[t].next = to
    <3>1. mem \in [Index -> Node]
      BY <1>1
    <3> QED BY <2>2, <3>1, LinkedTail
  <2> QED BY <2>1, <2>3 DEF t
<1>8. /\ fwd2 \in [Index -> Index] /\ fwd2[n0] = to
      /\ \A n \in Index : n # n0 => fwd2[n] = fwd[n]
  BY <1>1, <1>3
<1>9. \A n \in Index : Gone(fwd, n) => Gone(fwd2, n) /\ Fwd(fwd2, n) = Fwd(fwd, n)
  BY <1>1, <1>3, GoneStays
<1>10. \A n \in Index : fwd[n] # 0 => Forwarded(D, fwd, top, n) /\ NodeMoved(mem[fwd[n]], n, fwd, fs)
  BY DEF Sim
<1>11. \A k \in 2 .. Len(fs) : /\ fs[k].cur \in D /\ fs[k].cur # n0 /\ rank[n0] < rank[fs[k].cur]
                              /\ Waiting(D, mem, fwd, top, fs[k]) /\ Apart(rank, f, fs[k])
  <2> SUFFICES ASSUME NEW k \in 2 .. Len(fs)
               PROVE  /\ fs[k].cur \in D /\ fs[k].cur # n0 /\ rank[n0] < rank[fs[k].cur]
                      /\ Waiting(D, mem, fwd, top, fs[k]) /\ Apart(rank, f, fs[k])
    OBVIOUS
  <2>1. k \in 1 .. Len(fs) /\ 1 < k
    BY <1>2
  <2>2. Apart(rank, f, fs[k]) /\ Waiting(D, mem, fwd, top, fs[k])
    BY <1>2, <2>1 DEF Sim
  <2>3. rank[n0] < rank[fs[k].cur] /\ fs[k].cur \in D
    BY <1>3, <2>2 DEF Apart, Waiting
  <2>4. rank[n0] \in Nat
    BY <1>1, <1>3
  <2> QED BY <2>2, <2>3, <2>4
<1> HIDE DEF g, gs, mem2, fwd2
<1>12. \A n \in Index : n < mem_low => mem2[n] = old_memory[n]
  <2> SUFFICES ASSUME NEW n \in Index, n < mem_low PROVE mem2[n] = old_memory[n]
    OBVIOUS
  <2>1. mem[n] = old_memory[n]
    BY DEF Sim
  <2>2. n # f.tail \/ f.tail = 0
    <3>1. CASE f.tail = 0
      BY <3>1
    <3>2. CASE f.tail # 0
      <4>1. f.head # 0
        BY <1>3, <3>2 DEF Chain
      <4>2. PICK m \in D : fwd[m] = f.tail
        BY <1>3, <4>1 DEF Chain
      <4>3. mem_low <= f.tail
        BY <1>1, <1>10, <3>2, <4>2 DEF Forwarded
      <4> QED BY <1>1, <1>7, <4>3
    <3> QED BY <3>1, <3>2
  <2> QED BY <1>7, <2>1, <2>2 DEF mem2, LinkTail
<1>13. \A n \in Index : fwd2[n] # 0 => Forwarded(D, fwd2, top, n)
  <2> SUFFICES ASSUME NEW n \in Index, fwd2[n] # 0 PROVE Forwarded(D, fwd2, top, n)
    OBVIOUS
  <2>1. CASE n = n0
    <3>1. \A k \in Index : fwd2[k] = to => k = n0
      BY <1>8 DEF Unused
    <3> QED BY <1>3, <1>8, <2>1, <3>1 DEF Forwarded
  <2>2. CASE n # n0
    <3>1. fwd2[n] = fwd[n] /\ Forwarded(D, fwd, top, n)
      BY <1>8, <1>10, <2>2
    <3>2. \A k \in Index : fwd2[k] = fwd2[n] => k = n
      BY <1>8, <3>1 DEF Forwarded, Unused
    <3> QED BY <3>1, <3>2 DEF Forwarded
  <2> QED BY <2>1, <2>2
<1>14. \A n \in Index : fwd2[n] # 0 => NodeMoved(mem2[fwd2[n]], n, fwd2, gs)
  <2> SUFFICES ASSUME NEW n \in Index, fwd2[n] # 0 PROVE NodeMoved(mem2[fwd2[n]], n, fwd2, gs)
    OBVIOUS
  <2>1. CASE n = n0
    <3>1. Like(mem2[to], old)
      BY <1>7 DEF Like
    <3>2. ASSUME old.op = "LIST" PROVE Gone(fwd2, old.u) /\ mem2[to].u = Fwd(fwd2, old.u)
      <4>1. old.u \in Index
        BY <1>1, <1>3, <3>2, OldIndex
      <4> QED BY <1>7, <1>9, <3>2, <4>1
    <3>3. Linked(mem2[to], n0, fwd2, gs)
      <4>1. 1 \in 1 .. Len(gs) /\ gs[1].tail = fwd2[n0] /\ gs[1].cur = old_memory[n0].next
        BY <1>2, <1>5, <1>6, <1>8
      <4> QED BY <4>1 DEF Linked
    <3> QED BY <1>8, <2>1, <3>1, <3>2, <3>3 DEF NodeMoved
  <2>2. CASE n # n0
    <3>1. fwd2[n] = fwd[n] /\ Forwarded(D, fwd, top, n) /\ NodeMoved(mem[fwd[n]], n, fwd, fs)
          /\ fwd[n] # 0 /\ fwd[n] \in Index /\ n \in D
      BY <1>1, <1>8, <1>10, <2>2 DEF Forwarded
    <3>2. Like(mem2[fwd[n]], old_memory[n])
      BY <1>7, <3>1 DEF NodeMoved, Like
    <3>3. ASSUME old_memory[n].op = "LIST"
          PROVE  Gone(fwd2, old_memory[n].u) /\ mem2[fwd[n]].u = Fwd(fwd2, old_memory[n].u)
      <4>1. old_memory[n].u \in Index
        BY <1>1, <3>1, <3>3, OldIndex
      <4> QED BY <1>7, <1>9, <3>1, <3>3, <4>1 DEF NodeMoved
    <3>4. Linked(mem2[fwd[n]], n, fwd2, gs)
      <4>0. old_memory[n].next \in Index
        BY <1>1, <3>1, OldIndex
      <4>1. CASE fwd[n] = f.tail
        <5>1. f.tail # 0 /\ f.head # 0
          BY <1>3, <3>1, <4>1 DEF Chain
        <5>2. PICK m \in D : fwd[m] = f.tail /\ old_memory[m].next = n0
          BY <1>3, <5>1 DEF Chain
        <5>3. m = n
          BY <1>1, <3>1, <4>1, <5>2 DEF Forwarded
        <5>4. mem2[fwd[n]].next = to /\ old_memory[n].next = n0
          BY <1>7, <4>1, <5>1, <5>2, <5>3
        <5>5. Gone(fwd2, n0) /\ Fwd(fwd2, n0) = to
          <6>1. ~(n0 < mem_low) /\ n0 \in Index
            BY <1>3
          <6>2. fwd2[n0] = to /\ to # 0
            BY <1>1, <1>8
          <6> QED BY <6>1, <6>2 DEF Gone, Fwd
        <5> QED BY <5>4, <5>5 DEF Linked
      <4>2. CASE fwd[n] # f.tail
        <5>1. mem2[fwd[n]] = mem[fwd[n]]
          BY <1>7, <3>1, <4>2
        <5>2. CASE Gone(fwd, old_memory[n].next) /\ mem[fwd[n]].next = Fwd(fwd, old_memory[n].next)
          BY <1>9, <4>0, <5>1, <5>2 DEF Linked
        <5>3. CASE \E k \in 1 .. Len(fs) : fs[k].tail = fwd[n] /\ fs[k].cur = old_memory[n].next
          <6>1. PICK k \in 1 .. Len(fs) : fs[k].tail = fwd[n] /\ fs[k].cur = old_memory[n].next
            BY <5>3
          <6>2. k \in 2 .. Len(fs)
            BY <1>2, <4>2, <6>1
          <6>3. gs[k].tail = fwd2[n] /\ gs[k].cur = old_memory[n].next /\ k \in 1 .. Len(gs)
            BY <1>6, <3>1, <6>1, <6>2
          <6> QED BY <6>3 DEF Linked
        <5> QED BY <3>1, <5>2, <5>3 DEF NodeMoved, Linked
      <4> QED BY <4>1, <4>2
    <3> QED BY <3>1, <3>2, <3>3, <3>4 DEF NodeMoved
  <2> QED BY <2>1, <2>2
<1>15. \A k \in 1 .. Len(gs) : Chain(D, fwd2, gs[k], StartOf(gs, k, from))
  <2> SUFFICES ASSUME NEW k \in 1 .. Len(gs) PROVE Chain(D, fwd2, gs[k], StartOf(gs, k, from))
    OBVIOUS
  <2>0. k \in 1 .. Len(fs)
    BY <1>6
  <2>1. StartOf(gs, k, from) = StartOf(fs, k, from)
    <3>1. k # Len(fs) => k + 1 \in 2 .. Len(fs)
      BY <1>2, <2>0
    <3> QED BY <1>6, <3>1 DEF StartOf
  <2> DEFINE st == StartOf(fs, k, from)
  <2>2. Chain(D, fwd, fs[k], st)
    BY <2>0 DEF Sim
  <2> HIDE DEF st
  <2>3. CASE k = 1
    <3>1. gs[k] = g /\ fs[k] = f
      BY <1>6, <2>3
    <3>2. g.head # 0
      BY <1>1, <1>5
    <3>3. st \in D /\ mem_low <= st /\ fwd2[st] = g.head
      <4>1. CASE f.head = 0
        BY <1>3, <1>5, <1>8, <2>2, <3>1, <4>1 DEF Chain
      <4>2. CASE f.head # 0
        <5>1. st \in D /\ mem_low <= st /\ fwd[st] = f.head /\ f.head # 0
          BY <2>2, <3>1, <4>2 DEF Chain
        <5>2. fwd2[st] = fwd[st]
          BY <1>1, <5>1 DEF fwd2
        <5> QED BY <1>5, <4>2, <5>1, <5>2
      <4> QED BY <4>1, <4>2
    <3>4. n0 \in D /\ fwd2[n0] = g.tail /\ old_memory[n0].next = g.cur /\ g.tail # 0
      BY <1>1, <1>3, <1>5, <1>8
    <3> QED BY <1>4, <1>5, <2>1, <3>1, <3>2, <3>3, <3>4 DEF Chain, st
  <2>4. CASE k # 1
    <3>1. gs[k] = fs[k] /\ k \in 2 .. Len(fs)
      BY <1>2, <1>6, <2>0, <2>4
    <3> DEFINE h == fs[k]
    <3>2. ASSUME h.head # 0 PROVE st \in D /\ mem_low <= st /\ fwd2[st] = h.head /\ h.tail # 0
      <4>1. st \in D /\ mem_low <= st /\ fwd[st] = h.head /\ h.tail # 0
        BY <2>2, <3>2 DEF Chain
      <4>2. fwd2[st] = fwd[st]
        BY <1>1, <3>2, <4>1 DEF fwd2
      <4> QED BY <4>1, <4>2
    <3>3. ASSUME h.head # 0 PROVE \E n \in D : fwd2[n] = h.tail /\ old_memory[n].next = h.cur
      <4>1. PICK n \in D : fwd[n] = h.tail /\ old_memory[n].next = h.cur
        BY <2>2, <3>3 DEF Chain
      <4>2. fwd2[n] = fwd[n]
        BY <1>1, <1>8, <3>2, <3>3, <4>1
      <4> QED BY <4>1, <4>2
    <3>4. h.cur \in D \cup {0} /\ (h.head = 0 => h.tail = 0 /\ h.cur = st)
      BY <2>2 DEF Chain
    <3> HIDE DEF h
    <3>5. Chain(D, fwd2, h, st)
      BY <3>2, <3>3, <3>4 DEF Chain
    <3> QED BY <2>1, <3>1, <3>5 DEF h, st
  <2> QED BY <2>3, <2>4
<1>16. \A k \in 2 .. Len(gs) : Waiting(D, mem2, fwd2, top, gs[k])
  <2> SUFFICES ASSUME NEW k \in 2 .. Len(fs) PROVE Waiting(D, mem2, fwd2, top, fs[k])
    BY <1>6
  <2> DEFINE h == fs[k]
  <2>1. Waiting(D, mem, fwd, top, h) /\ h.cur # n0 /\ h.cur \in D /\ h.dest # to /\ h \in Frame
    BY <1>2, <1>11
  <2>2. h.dest \in Index /\ h.cur \in Index
    BY <2>1 DEF Frame
  <2> HIDE DEF h
  <2>3. fwd2[h.cur] = 0 /\ Unused(fwd2, h.dest)
    BY <1>8, <2>1, <2>2 DEF Waiting, Unused
  <2>4. Like(mem2[h.dest], old_memory[h.cur])
    BY <1>7, <2>1, <2>2 DEF Waiting, Like
  <2> QED BY <2>1, <2>3, <2>4 DEF Waiting, h
<1>17. \A j, k \in 1 .. Len(gs) : j < k => Apart(rank, gs[j], gs[k])
  <2> SUFFICES ASSUME NEW j \in 1 .. Len(fs), NEW k \in 1 .. Len(fs), j < k
               PROVE  Apart(rank, gs[j], gs[k])
    BY <1>6
  <2>1. k \in 2 .. Len(fs) /\ gs[k] = fs[k]
    BY <1>2, <1>6
  <2>2. CASE j = 1
    <3>1. old.next # 0 => rank[old.next] < rank[n0] /\ rank[old.next] \in Nat
      BY <1>1, <1>4 DEF Reaches
    <3>2. rank[n0] < rank[fs[k].cur] /\ rank[n0] \in Nat /\ rank[fs[k].cur] \in Nat
      BY <1>1, <1>3, <1>11, <2>1
    <3>3. old.next # 0 => rank[old.next] < rank[fs[k].cur]
      BY <3>1, <3>2
    <3> QED BY <1>5, <1>6, <2>1, <2>2, <3>3 DEF Apart
  <2>3. CASE j # 1
    <3>1. gs[j] = fs[j]
      BY <1>2, <1>6, <2>3
    <3> QED BY <2>1, <3>1 DEF Sim
  <2> QED BY <2>2, <2>3
<1>18. \A j, k \in 2 .. Len(gs) : j < k => gs[j].dest # gs[k].dest
  BY <1>6 DEF Sim
<1>19. Sim(D, rank, from, mem2, fwd2, top, gs)
  BY <1>1, <1>6, <1>7, <1>8, <1>12, <1>13, <1>14, <1>15, <1>16, <1>17, <1>18 DEF Sim
<1> QED BY <1>19 DEF mem2, fwd2, gs, g

LEMMA SimFacts ==
  ASSUME NEW D, NEW rank, NEW from, NEW mem, NEW fwd, NEW top, NEW fs,
         OldFacts(D, rank), Sim(D, rank, from, mem, fwd, top, fs)
  PROVE  /\ mem \in [Index -> Node] /\ fwd \in [Index -> Index] /\ fs \in Seq(Frame) /\ top \in Nat
         /\ D \subseteq Index /\ 0 \notin D /\ 0 \in Index /\ Index \subseteq Nat
         /\ mem_low \in Nat /\ mem_low > 0 /\ rank \in [Index -> Nat]
         /\ old_memory \in [Index -> Node]
<1>1. /\ mem \in [Index -> Node] /\ fwd \in [Index -> Index] /\ fs \in Seq(Frame) /\ top \in Nat
  BY DEF Sim
<1>2. /\ D \subseteq Index /\ 0 \notin D /\ 0 \in Index /\ Index \subseteq Nat
  BY OldIndex
<1>3. mem_low \in Nat /\ mem_low > 0 /\ rank \in [Index -> Nat] /\ old_memory \in [Index -> Node]
  BY DEF OldFacts
<1> QED BY <1>1, <1>2, <1>3

(* A node taken from the new memory, at its top, is nobody's yet. *)
LEMMA FreshSim ==
  ASSUME NEW D, NEW rank, NEW from, NEW mem, NEW fwd, NEW top \in Index, NEW fs,
         OldFacts(D, rank), Sim(D, rank, from, mem, fwd, top, fs),
         NEW x \in Node, NEW top2 \in Nat, top2 > top, mem_low <= top
  PROVE  /\ Sim(D, rank, from, [mem EXCEPT ![top] = x], fwd, top2, fs)
         /\ Unused(fwd, top) /\ \A k \in 2 .. Len(fs) : fs[k].dest # top
<1> DEFINE mem2 == [mem EXCEPT ![top] = x]
<1>1. /\ mem \in [Index -> Node] /\ fwd \in [Index -> Index] /\ fs \in Seq(Frame) /\ top \in Nat
      /\ 0 \in Index /\ Index \subseteq Nat /\ mem_low \in Nat /\ mem_low > 0
  BY SimFacts
<1>2. /\ mem2 \in [Index -> Node]
      /\ \A i \in Index : i < top => mem2[i] = mem[i]
  BY <1>1
<1> HIDE DEF mem2
<1>3. \A n \in Index : fwd[n] # 0 => Forwarded(D, fwd, top, n) /\ fwd[n] \in Index /\ fwd[n] < top
                                     /\ NodeMoved(mem[fwd[n]], n, fwd, fs)
  BY <1>1 DEF Sim, Forwarded
<1>4. Unused(fwd, top)
  BY <1>1, <1>3 DEF Unused
<1>5. ASSUME NEW k \in 2 .. Len(fs)
      PROVE  /\ Waiting(D, mem, fwd, top, fs[k])
             /\ fs[k].dest \in Index /\ fs[k].dest < top /\ fs[k].dest # top
  <2>1. k \in 1 .. Len(fs) /\ fs[k] \in Frame
    <3>1. k \in 1 .. Len(fs)
      BY <1>1
    <3> QED BY <1>1, <3>1
  <2>2. Waiting(D, mem, fwd, top, fs[k])
    BY DEF Sim
  <2>3. fs[k].dest \in Index /\ fs[k].dest < top
    BY <2>1, <2>2 DEF Waiting, Frame
  <2> QED BY <1>1, <2>2, <2>3
<1>6. \A n \in Index : n < mem_low => mem2[n] = old_memory[n]
  BY <1>1, <1>2 DEF Sim
<1>7. \A n \in Index : fwd[n] # 0 => Forwarded(D, fwd, top2, n) /\ NodeMoved(mem2[fwd[n]], n, fwd, fs)
  <2> SUFFICES ASSUME NEW n \in Index, fwd[n] # 0
               PROVE  Forwarded(D, fwd, top2, n) /\ NodeMoved(mem2[fwd[n]], n, fwd, fs)
    OBVIOUS
  <2>1. mem2[fwd[n]] = mem[fwd[n]]
    BY <1>2, <1>3
  <2>2. fwd[n] < top2
    BY <1>1, <1>3
  <2> QED BY <1>3, <2>1, <2>2 DEF Forwarded
<1>8. \A k \in 2 .. Len(fs) : Waiting(D, mem2, fwd, top2, fs[k])
  <2> SUFFICES ASSUME NEW k \in 2 .. Len(fs) PROVE Waiting(D, mem2, fwd, top2, fs[k])
    OBVIOUS
  <2>1. mem2[fs[k].dest] = mem[fs[k].dest]
    BY <1>2, <1>5
  <2>2. fs[k].dest < top2
    <3>1. fs[k].dest \in Nat /\ fs[k].dest < top
      BY <1>1, <1>5
    <3> QED BY <1>1, <3>1
  <2> QED BY <1>5, <2>1, <2>2 DEF Waiting
<1>9. Sim(D, rank, from, mem2, fwd, top2, fs)
  BY <1>1, <1>2, <1>6, <1>7, <1>8 DEF Sim
<1> QED BY <1>4, <1>5, <1>9 DEF mem2

(* A list: its node waits for what the inner activation moves. *)
LEMMA PushSim ==
  ASSUME NEW D, NEW rank, NEW from, NEW mem, NEW fwd, NEW top, NEW fs, NEW to \in Index,
         OldFacts(D, rank), Sim(D, rank, from, mem, fwd, top, fs), fs # <<>>,
         mem_low <= fs[1].cur, fwd[fs[1].cur] = 0, old_memory[fs[1].cur].op = "LIST",
         mem_low <= to, to < top, Unused(fwd, to),
         Like(mem[to], old_memory[fs[1].cur]),
         \A k \in 2 .. Len(fs) : fs[k].dest # to
  PROVE  LET inner == [cur |-> old_memory[fs[1].cur].u, head |-> 0, tail |-> 0, dest |-> 0]
             outer == [cur |-> fs[1].cur, head |-> fs[1].head, tail |-> fs[1].tail, dest |-> to]
         IN Sim(D, rank, from, mem, fwd, top, <<inner>> \o (<<outer>> \o Tail(fs)))
<1> DEFINE f     == fs[1]
           n0    == f.cur
           inner == [cur |-> old_memory[n0].u, head |-> 0, tail |-> 0, dest |-> 0]
           outer == [cur |-> n0, head |-> f.head, tail |-> f.tail, dest |-> to]
           gs    == <<inner>> \o (<<outer>> \o Tail(fs))
<1>1. /\ mem \in [Index -> Node] /\ fwd \in [Index -> Index] /\ fs \in Seq(Frame) /\ top \in Nat
      /\ D \subseteq Index /\ 0 \notin D /\ 0 \in Index /\ Index \subseteq Nat
      /\ mem_low \in Nat /\ mem_low > 0 /\ rank \in [Index -> Nat] /\ old_memory \in [Index -> Node]
  BY SimFacts
<1>2. /\ Len(fs) \in Nat \ {0} /\ f \in Frame /\ 1 \in 1 .. Len(fs)
      /\ \A k \in 1 .. Len(fs) : fs[k] \in Frame
  BY <1>1, FramesTail
<1>3. Chain(D, fwd, f, StartOf(fs, 1, from)) /\ n0 \in D /\ n0 \in Index
  <2>1. Chain(D, fwd, f, StartOf(fs, 1, from))
    BY <1>2 DEF Sim
  <2>2. n0 \in D \cup {0}
    BY <2>1 DEF Chain
  <2>3. n0 # 0
    BY <1>1
  <2> QED BY <1>1, <2>1, <2>2, <2>3
<1>4. /\ old_memory[n0].u \in D \cup {0} /\ old_memory[n0].u \in Index
      /\ Reaches(n0, old_memory[n0].u, D, rank)
  <2>1. Reaches(n0, old_memory[n0].u, D, rank)
    BY <1>3 DEF OldFacts
  <2> QED BY <1>1, <2>1 DEF Reaches
<1>5. inner \in Frame /\ outer \in Frame
  <2>1. f.head \in Index /\ f.tail \in Index
    BY <1>2 DEF Frame
  <2> QED BY <1>1, <1>3, <1>4, <2>1 DEF Frame
<1>6. /\ inner.cur = old_memory[n0].u /\ inner.head = 0 /\ inner.tail = 0
      /\ outer.cur = n0 /\ outer.head = f.head /\ outer.tail = f.tail /\ outer.dest = to
  OBVIOUS
<1> HIDE DEF inner, outer
<1>7. /\ gs \in Seq(Frame) /\ Len(gs) = Len(fs) + 1 /\ gs[1] = inner /\ gs[2] = outer
      /\ \A k \in 3 .. Len(gs) : gs[k] = fs[k - 1]
  BY <1>1, <1>5, FramesPush
<1> HIDE DEF gs
<1>8. \A k \in 2 .. Len(gs) : /\ k - 1 \in 1 .. Len(fs)
                              /\ gs[k].cur = fs[k - 1].cur /\ gs[k].head = fs[k - 1].head
                              /\ gs[k].tail = fs[k - 1].tail
  <2> SUFFICES ASSUME NEW k \in 2 .. Len(gs)
               PROVE  /\ k - 1 \in 1 .. Len(fs)
                      /\ gs[k].cur = fs[k - 1].cur /\ gs[k].head = fs[k - 1].head
                      /\ gs[k].tail = fs[k - 1].tail
    OBVIOUS
  <2>0. k - 1 \in 1 .. Len(fs)
    BY <1>2, <1>7
  <2>1. CASE k = 2
    BY <1>6, <1>7, <2>0, <2>1
  <2>2. CASE k # 2
    <3>1. k \in 3 .. Len(gs)
      BY <1>2, <1>7, <2>2
    <3> QED BY <1>7, <2>0, <3>1
  <2> QED BY <2>1, <2>2
<1>9. ASSUME NEW k \in 2 .. Len(fs)
      PROVE  Waiting(D, mem, fwd, top, fs[k]) /\ fs[k].dest # to /\ k \in 1 .. Len(fs)
             /\ rank[n0] < rank[fs[k].cur]
  <2>1. k \in 1 .. Len(fs) /\ 1 < k
    BY <1>2
  <2>2. Apart(rank, f, fs[k]) /\ Waiting(D, mem, fwd, top, fs[k])
    BY <1>2, <2>1 DEF Sim
  <2>3. n0 # 0
    BY <1>1, <1>3
  <2> QED BY <2>1, <2>2, <2>3 DEF Apart
<1>10. \A n \in Index : fwd[n] # 0 => NodeMoved(mem[fwd[n]], n, fwd, gs)
  <2> SUFFICES ASSUME NEW n \in Index, fwd[n] # 0 PROVE NodeMoved(mem[fwd[n]], n, fwd, gs)
    OBVIOUS
  <2>1. NodeMoved(mem[fwd[n]], n, fwd, fs)
    BY DEF Sim
  <2>2. ASSUME NEW k \in 1 .. Len(fs), fs[k].tail = fwd[n], fs[k].cur = old_memory[n].next
        PROVE  \E j \in 1 .. Len(gs) : gs[j].tail = fwd[n] /\ gs[j].cur = old_memory[n].next
    <3>1. k + 1 \in 2 .. Len(gs) /\ k + 1 \in 1 .. Len(gs) /\ k + 1 - 1 = k
      BY <1>2, <1>7
    <3> QED BY <1>8, <2>2, <3>1
  <2>3. Linked(mem[fwd[n]], n, fwd, gs)
    BY <2>1, <2>2 DEF NodeMoved, Linked
  <2> QED BY <2>1, <2>3 DEF NodeMoved
<1>11. \A k \in 1 .. Len(gs) : Chain(D, fwd, gs[k], StartOf(gs, k, from))
  <2> SUFFICES ASSUME NEW k \in 1 .. Len(gs) PROVE Chain(D, fwd, gs[k], StartOf(gs, k, from))
    OBVIOUS
  <2>1. CASE k = 1
    <3>1. StartOf(gs, 1, from) = old_memory[n0].u
      <4>1. 1 # Len(gs) /\ 1 + 1 = 2
        BY <1>2, <1>7
      <4> QED BY <1>6, <1>7, <4>1 DEF StartOf
    <3> QED BY <1>4, <1>6, <1>7, <2>1, <3>1 DEF Chain
  <2>2. CASE k # 1
    <3>1. k \in 2 .. Len(gs)
      BY <1>2, <1>7, <2>2
    <3>2. StartOf(gs, k, from) = StartOf(fs, k - 1, from)
      <4>1. CASE k = Len(gs)
        <5>1. k - 1 = Len(fs)
          BY <1>2, <1>7, <4>1
        <5> QED BY <4>1, <5>1 DEF StartOf
      <4>2. CASE k # Len(gs)
        <5>1. k + 1 \in 2 .. Len(gs) /\ k + 1 - 1 = k - 1 + 1 /\ k - 1 # Len(fs)
          BY <1>2, <1>7, <3>1, <4>2
        <5>2. gs[k + 1].cur = fs[k - 1 + 1].cur
          BY <1>8, <5>1
        <5> QED BY <4>2, <5>1, <5>2 DEF StartOf
      <4> QED BY <4>1, <4>2
    <3>3. Chain(D, fwd, fs[k - 1], StartOf(fs, k - 1, from))
      BY <1>8, <3>1 DEF Sim
    <3> QED BY <1>8, <3>1, <3>2, <3>3 DEF Chain
  <2> QED BY <2>1, <2>2
<1>12. \A k \in 2 .. Len(gs) : Waiting(D, mem, fwd, top, gs[k])
  <2> SUFFICES ASSUME NEW k \in 2 .. Len(gs) PROVE Waiting(D, mem, fwd, top, gs[k])
    OBVIOUS
  <2>1. CASE k = 2
    <3>1. Waiting(D, mem, fwd, top, outer)
      BY <1>3, <1>6 DEF Waiting
    <3> QED BY <1>7, <2>1, <3>1
  <2>2. CASE k # 2
    <3>1. k \in 3 .. Len(gs) /\ k - 1 \in 2 .. Len(fs)
      BY <1>2, <1>7, <2>2
    <3> QED BY <1>7, <1>9, <3>1
  <2> QED BY <2>1, <2>2
<1>13. \A j, k \in 1 .. Len(gs) : j < k => Apart(rank, gs[j], gs[k])
  <2> SUFFICES ASSUME NEW j \in 1 .. Len(gs), NEW k \in 1 .. Len(gs), j < k
               PROVE  Apart(rank, gs[j], gs[k])
    OBVIOUS
  <2>1. k \in 2 .. Len(gs) /\ k - 1 \in 1 .. Len(fs)
    BY <1>2, <1>7
  <2>2. CASE j = 1
    <3>0. rank[n0] \in Nat
      BY <1>1, <1>3
    <3>1. inner.cur # 0 => rank[inner.cur] < rank[n0] /\ rank[inner.cur] \in Nat
      BY <1>1, <1>4, <1>6 DEF Reaches
    <3>2. CASE k = 2
      BY <1>6, <1>7, <2>2, <3>1, <3>2 DEF Apart
    <3>3. CASE k # 2
      <4>1. k \in 3 .. Len(gs) /\ k - 1 \in 2 .. Len(fs)
        BY <1>2, <1>7, <3>3
      <4>2. rank[n0] < rank[fs[k - 1].cur] /\ gs[k] = fs[k - 1]
        BY <1>7, <1>9, <4>1
      <4>3. rank[fs[k - 1].cur] \in Nat
        BY <1>1, <1>2, <2>1 DEF Frame
      <4>4. inner.cur # 0 => rank[inner.cur] < rank[gs[k].cur]
        BY <3>0, <3>1, <4>2, <4>3
      <4> QED BY <1>7, <2>2, <4>4 DEF Apart
    <3> QED BY <3>2, <3>3
  <2>3. CASE j # 1
    <3>1. j \in 2 .. Len(gs) /\ j - 1 \in 1 .. Len(fs) /\ j - 1 < k - 1
      BY <1>2, <1>7, <2>1, <2>3
    <3>2. Apart(rank, fs[j - 1], fs[k - 1])
      BY <2>1, <3>1 DEF Sim
    <3> QED BY <1>8, <2>1, <3>1, <3>2 DEF Apart
  <2> QED BY <2>2, <2>3
<1>14. \A j, k \in 2 .. Len(gs) : j < k => gs[j].dest # gs[k].dest
  <2> SUFFICES ASSUME NEW j \in 2 .. Len(gs), NEW k \in 2 .. Len(gs), j < k
               PROVE  gs[j].dest # gs[k].dest
    OBVIOUS
  <2>1. k \in 3 .. Len(gs) /\ k - 1 \in 2 .. Len(fs)
    BY <1>2, <1>7
  <2>2. CASE j = 2
    BY <1>6, <1>7, <1>9, <2>1, <2>2
  <2>3. CASE j # 2
    <3>1. j \in 3 .. Len(gs) /\ j - 1 \in 2 .. Len(fs) /\ j - 1 < k - 1
      BY <1>2, <1>7, <2>1, <2>3
    <3>2. fs[j - 1].dest # fs[k - 1].dest
      <4> DEFINE a == j - 1
                 b == k - 1
      <4>1. a \in 2 .. Len(fs) /\ b \in 2 .. Len(fs) /\ a < b
        BY <2>1, <3>1
      <4> HIDE DEF a, b
      <4>2. fs[a].dest # fs[b].dest
        BY <4>1 DEF Sim
      <4> QED BY <4>2 DEF a, b
    <3> QED BY <1>7, <2>1, <3>1, <3>2
  <2> QED BY <2>2, <2>3
<1>15. Sim(D, rank, from, mem, fwd, top, gs)
  BY <1>1, <1>7, <1>10, <1>11, <1>12, <1>13, <1>14 DEF Sim
<1> QED BY <1>15 DEF gs, inner, outer

(* A chain is complete: its last node is linked to where the rest has moved. *)
LEMMA PopSim ==
  ASSUME NEW D, NEW rank, NEW from, NEW mem, NEW fwd, NEW top, NEW fs,
         OldFacts(D, rank), Sim(D, rank, from, mem, fwd, top, fs), fs # <<>>,
         Gone(fwd, fs[1].cur)
  PROVE  LET f == fs[1]
             target == Fwd(fwd, f.cur)
             start  == StartOf(fs, 1, from)
         IN /\ Gone(fwd, start)
            /\ Fwd(fwd, start) = IF f.head = 0 THEN target ELSE f.head
            /\ Sim(D, rank, from, LinkTail(mem, f.tail, target), fwd, top, Tail(fs))
            /\ target \in Index /\ f.head \in Index
            /\ Len(fs) > 1 => Waiting(D, LinkTail(mem, f.tail, target), fwd, top, fs[2])
<1> DEFINE f      == fs[1]
           target == Fwd(fwd, f.cur)
           start  == StartOf(fs, 1, from)
           gs     == Tail(fs)
           mem2   == LinkTail(mem, f.tail, target)
<1>1. /\ mem \in [Index -> Node] /\ fwd \in [Index -> Index] /\ fs \in Seq(Frame) /\ top \in Nat
      /\ D \subseteq Index /\ 0 \notin D /\ 0 \in Index /\ Index \subseteq Nat
      /\ mem_low \in Nat /\ mem_low > 0 /\ rank \in [Index -> Nat] /\ old_memory \in [Index -> Node]
  BY SimFacts
<1>2. /\ Len(fs) \in Nat \ {0} /\ f \in Frame /\ 1 \in 1 .. Len(fs)
      /\ \A k \in 1 .. Len(fs) : fs[k] \in Frame
      /\ f.cur \in Index /\ f.head \in Index /\ f.tail \in Index
  <2>1. /\ Len(fs) \in Nat \ {0} /\ 1 \in 1 .. Len(fs) /\ \A k \in 1 .. Len(fs) : fs[k] \in Frame
    BY <1>1, FramesTail
  <2> QED BY <2>1 DEF Frame
<1>3. /\ gs \in Seq(Frame) /\ Len(gs) = Len(fs) - 1
      /\ \A k \in 1 .. Len(gs) : gs[k] = fs[k + 1] /\ k + 1 \in 2 .. Len(fs)
  <2>1. gs \in Seq(Frame) /\ Len(gs) = Len(fs) - 1 /\ \A k \in 1 .. Len(fs) - 1 : gs[k] = fs[k + 1]
    BY <1>1, FramesTail
  <2> HIDE DEF gs
  <2> QED BY <1>2, <2>1
<1>4. Chain(D, fwd, f, start)
  BY <1>2 DEF Sim
<1>5. target \in Index
  BY <1>1, <1>2 DEF Fwd
<1> HIDE DEF start
<1>6. Gone(fwd, start) /\ Fwd(fwd, start) = IF f.head = 0 THEN target ELSE f.head
  <2>1. CASE f.head = 0
    BY <1>4, <2>1 DEF Chain
  <2>2. CASE f.head # 0
    <3>1. fwd[start] = f.head /\ mem_low <= start /\ fwd[start] # 0 /\ start \in D
      BY <1>4, <2>2 DEF Chain
    <3>3. Gone(fwd, start)
      BY <3>1 DEF Gone
    <3>4. start \in Nat
      BY <1>1, <3>1
    <3>5. ~(start < mem_low)
      BY <1>1, <3>1, <3>4
    <3> QED BY <2>2, <3>1, <3>3, <3>5 DEF Fwd
  <2> QED BY <2>1, <2>2
<1>7. /\ mem2 \in [Index -> Node]
      /\ \A i \in Index : /\ i # f.tail => mem2[i] = mem[i]
                          /\ mem2[i].op = mem[i].op /\ mem2[i].len = mem[i].len
                          /\ mem2[i].u = mem[i].u
      /\ f.tail # 0 => mem2[f.tail].next = target
  <2> DEFINE t == f.tail
             g == target
  <2>1. t \in Index /\ g \in Index /\ mem2 = LinkTail(mem, t, g)
    BY <1>2, <1>5
  <2> HIDE DEF mem2, t, g
  <2>2. /\ mem2 \in [Index -> Node]
        /\ \A i \in Index : /\ i # t => mem2[i] = mem[i]
                            /\ mem2[i].op = mem[i].op /\ mem2[i].len = mem[i].len
                            /\ mem2[i].u = mem[i].u
        /\ t # 0 => mem2[t].next = g
    <3>1. mem \in [Index -> Node]
      BY <1>1
    <3> QED BY <2>1, <3>1, LinkedTail
  <2> QED BY <2>2 DEF t, g
<1>10. \A n \in Index : fwd[n] # 0 => Forwarded(D, fwd, top, n) /\ NodeMoved(mem[fwd[n]], n, fwd, fs)
  BY DEF Sim
<1> HIDE DEF gs, mem2
<1>12. \A n \in Index : n < mem_low => mem2[n] = old_memory[n]
  <2> SUFFICES ASSUME NEW n \in Index, n < mem_low PROVE mem2[n] = old_memory[n]
    OBVIOUS
  <2>1. mem[n] = old_memory[n]
    BY DEF Sim
  <2>2. n # f.tail \/ f.tail = 0
    <3>1. CASE f.tail = 0
      BY <3>1
    <3>2. CASE f.tail # 0
      <4>1. f.head # 0
        BY <1>4, <3>2 DEF Chain
      <4>2. PICK m \in D : fwd[m] = f.tail
        BY <1>4, <4>1 DEF Chain
      <4>3. mem_low <= f.tail
        BY <1>1, <1>10, <3>2, <4>2 DEF Forwarded
      <4>4. f.tail \in Nat /\ n \in Nat
        BY <1>1, <1>2
      <4> QED BY <1>1, <4>3, <4>4
    <3> QED BY <3>1, <3>2
  <2> QED BY <1>7, <2>1, <2>2 DEF mem2, LinkTail
<1>14. \A n \in Index : fwd[n] # 0 => NodeMoved(mem2[fwd[n]], n, fwd, gs)
  <2> SUFFICES ASSUME NEW n \in Index, fwd[n] # 0 PROVE NodeMoved(mem2[fwd[n]], n, fwd, gs)
    OBVIOUS
  <2>1. Forwarded(D, fwd, top, n) /\ NodeMoved(mem[fwd[n]], n, fwd, fs)
        /\ fwd[n] \in Index /\ n \in D
    BY <1>1, <1>10 DEF Forwarded
  <2>2. Like(mem2[fwd[n]], old_memory[n])
    BY <1>7, <2>1 DEF NodeMoved, Like
  <2>3. ASSUME old_memory[n].op = "LIST"
        PROVE  Gone(fwd, old_memory[n].u) /\ mem2[fwd[n]].u = Fwd(fwd, old_memory[n].u)
    BY <1>7, <2>1, <2>3 DEF NodeMoved
  <2>4. Linked(mem2[fwd[n]], n, fwd, gs)
    <3>1. CASE fwd[n] = f.tail
      <4>1. f.tail # 0 /\ f.head # 0
        BY <1>4, <2>1, <3>1 DEF Chain
      <4>2. PICK m \in D : fwd[m] = f.tail /\ old_memory[m].next = f.cur
        BY <1>4, <4>1 DEF Chain
      <4>3. m = n
        BY <1>1, <2>1, <3>1, <4>2 DEF Forwarded
      <4>4. mem2[fwd[n]].next = target /\ old_memory[n].next = f.cur
        BY <1>7, <3>1, <4>1, <4>2, <4>3
      <4> QED BY <4>4 DEF Linked
    <3>2. CASE fwd[n] # f.tail
      <4>1. mem2[fwd[n]] = mem[fwd[n]]
        BY <1>7, <2>1, <3>2
      <4>2. CASE Gone(fwd, old_memory[n].next) /\ mem[fwd[n]].next = Fwd(fwd, old_memory[n].next)
        BY <4>1, <4>2 DEF Linked
      <4>3. CASE \E k \in 1 .. Len(fs) : fs[k].tail = fwd[n] /\ fs[k].cur = old_memory[n].next
        <5>1. PICK k \in 1 .. Len(fs) : fs[k].tail = fwd[n] /\ fs[k].cur = old_memory[n].next
          BY <4>3
        <5>2. k - 1 \in 1 .. Len(gs) /\ k - 1 + 1 = k
          BY <1>2, <1>3, <3>2, <5>1
        <5>3. gs[k - 1].tail = fwd[n] /\ gs[k - 1].cur = old_memory[n].next
          BY <1>3, <5>1, <5>2
        <5> QED BY <5>2, <5>3 DEF Linked
      <4> QED BY <2>1, <4>2, <4>3 DEF NodeMoved, Linked
    <3> QED BY <3>1, <3>2
  <2> QED BY <2>1, <2>2, <2>3, <2>4 DEF NodeMoved
<1>15. \A k \in 1 .. Len(gs) : Chain(D, fwd, gs[k], StartOf(gs, k, from))
  <2> SUFFICES ASSUME NEW k \in 1 .. Len(gs) PROVE Chain(D, fwd, gs[k], StartOf(gs, k, from))
    OBVIOUS
  <2>1. StartOf(gs, k, from) = StartOf(fs, k + 1, from)
    <3>1. CASE k = Len(gs)
      <4>1. k + 1 = Len(fs)
        BY <1>2, <1>3, <3>1
      <4> QED BY <3>1, <4>1 DEF StartOf
    <3>2. CASE k # Len(gs)
      <4>1. k + 1 # Len(fs) /\ k + 1 \in 1 .. Len(gs)
        BY <1>2, <1>3, <3>2
      <4>2. gs[k + 1] = fs[k + 1 + 1]
        BY <1>3, <4>1
      <4> QED BY <3>2, <4>1, <4>2 DEF StartOf
    <3> QED BY <3>1, <3>2
  <2>2. k + 1 \in 1 .. Len(fs)
    BY <1>2, <1>3
  <2>3. Chain(D, fwd, fs[k + 1], StartOf(fs, k + 1, from))
    BY <2>2 DEF Sim
  <2> QED BY <1>3, <2>1, <2>3
<1>16. \A k \in 2 .. Len(fs) : Waiting(D, mem2, fwd, top, fs[k])
  <2> SUFFICES ASSUME NEW k \in 2 .. Len(fs) PROVE Waiting(D, mem2, fwd, top, fs[k])
    OBVIOUS
  <2> DEFINE h == fs[k]
  <2>1. Waiting(D, mem, fwd, top, h) /\ h \in Frame
    <3>1. k \in 1 .. Len(fs)
      BY <1>2
    <3> QED BY <1>2, <3>1 DEF Sim
  <2>2. h.dest \in Index /\ h.cur \in Index
    BY <2>1 DEF Frame
  <2> HIDE DEF h
  <2>4. Like(mem2[h.dest], old_memory[h.cur])
    BY <1>7, <2>1, <2>2 DEF Waiting, Like
  <2> QED BY <2>1, <2>4 DEF Waiting, h
<1>17. \A k \in 2 .. Len(gs) : Waiting(D, mem2, fwd, top, gs[k])
  <2> SUFFICES ASSUME NEW k \in 2 .. Len(gs) PROVE Waiting(D, mem2, fwd, top, gs[k])
    OBVIOUS
  <2>1. k \in 1 .. Len(gs)
    BY <1>2, <1>3
  <2> QED BY <1>3, <1>16, <2>1
<1>18. \A j, k \in 1 .. Len(gs) : j < k => Apart(rank, gs[j], gs[k])
  <2> SUFFICES ASSUME NEW j \in 1 .. Len(gs), NEW k \in 1 .. Len(gs), j < k
               PROVE  Apart(rank, gs[j], gs[k])
    OBVIOUS
  <2> DEFINE a == j + 1
             b == k + 1
  <2>1. a \in 1 .. Len(fs) /\ b \in 1 .. Len(fs) /\ a < b
    BY <1>2, <1>3
  <2>2. gs[j] = fs[a] /\ gs[k] = fs[b]
    BY <1>3
  <2> HIDE DEF a, b
  <2> QED BY <2>1, <2>2 DEF Sim
<1>19. \A j, k \in 2 .. Len(gs) : j < k => gs[j].dest # gs[k].dest
  <2> SUFFICES ASSUME NEW j \in 2 .. Len(gs), NEW k \in 2 .. Len(gs), j < k
               PROVE  gs[j].dest # gs[k].dest
    OBVIOUS
  <2> DEFINE a == j + 1
             b == k + 1
  <2>1. a \in 2 .. Len(fs) /\ b \in 2 .. Len(fs) /\ a < b
    BY <1>2, <1>3
  <2>2. gs[j] = fs[a] /\ gs[k] = fs[b]
    <3>1. j \in 1 .. Len(gs) /\ k \in 1 .. Len(gs)
      BY <1>2, <1>3
    <3> QED BY <1>3, <3>1
  <2> HIDE DEF a, b
  <2> QED BY <2>1, <2>2 DEF Sim
<1>20. Sim(D, rank, from, mem2, fwd, top, gs)
  BY <1>1, <1>3, <1>7, <1>10, <1>12, <1>14, <1>15, <1>17, <1>18, <1>19 DEF Sim
<1>21. Len(fs) > 1 => Waiting(D, mem2, fwd, top, fs[2])
  <2>1. Len(fs) > 1 => 2 \in 2 .. Len(fs)
    BY <1>2
  <2> QED BY <1>16, <2>1
<1> QED BY <1>2, <1>5, <1>6, <1>20, <1>21 DEF gs, mem2, start

(* The list of a waiting node is filled in. *)
LEMMA SetLisSim ==
  ASSUME NEW D, NEW rank, NEW from, NEW mem, NEW fwd, NEW top, NEW fs, NEW d \in Index,
         NEW r \in Index,
         OldFacts(D, rank), Sim(D, rank, from, mem, fwd, top, fs),
         mem_low <= d, Unused(fwd, d), \A k \in 2 .. Len(fs) : fs[k].dest # d,
         NEW mem2, mem2 = [mem EXCEPT ![d].u = r]
  PROVE  Sim(D, rank, from, mem2, fwd, top, fs)
<1>1. /\ mem \in [Index -> Node] /\ fwd \in [Index -> Index] /\ fs \in Seq(Frame) /\ top \in Nat
      /\ 0 \in Index /\ Index \subseteq Nat /\ mem_low \in Nat /\ mem_low > 0
  BY SimFacts
<1>2. /\ mem2 \in [Index -> Node]
      /\ \A i \in Index : i # d => mem2[i] = mem[i]
      /\ mem2[d].u = r /\ mem2[d].op = mem[d].op /\ mem2[d].len = mem[d].len
  <2>1. mem[d] \in Node
    BY <1>1
  <2>2. [mem[d] EXCEPT !.u = r] \in Node
    BY <1>1, <2>1 DEF Node
  <2>3. mem2[d] = [mem[d] EXCEPT !.u = r]
    BY <1>1
  <2>4. /\ [mem[d] EXCEPT !.u = r].u = r /\ [mem[d] EXCEPT !.u = r].op = mem[d].op
        /\ [mem[d] EXCEPT !.u = r].len = mem[d].len
    BY <2>1 DEF Node
  <2>5. mem2 \in [Index -> Node] /\ \A i \in Index : i # d => mem2[i] = mem[i]
    BY <1>1, <2>2
  <2> QED BY <2>3, <2>4, <2>5
<1>3. \A n \in Index : n < mem_low => mem2[n] = old_memory[n]
  <2>1. \A n \in Index : n < mem_low => n # d
    BY <1>1
  <2> QED BY <1>2, <2>1 DEF Sim
<1>4. \A n \in Index : fwd[n] # 0 => NodeMoved(mem2[fwd[n]], n, fwd, fs)
  <2>1. \A n \in Index : fwd[n] \in Index /\ fwd[n] # d
    BY <1>1 DEF Unused
  <2> QED BY <1>2, <2>1 DEF Sim
<1>5. \A k \in 2 .. Len(fs) : Waiting(D, mem2, fwd, top, fs[k])
  <2> SUFFICES ASSUME NEW k \in 2 .. Len(fs) PROVE Waiting(D, mem2, fwd, top, fs[k])
    OBVIOUS
  <2>1. fs[k] \in Frame
    <3>1. k \in 1 .. Len(fs)
      BY <1>1
    <3> QED BY <1>1, <3>1
  <2>2. fs[k].dest \in Index /\ fs[k].dest # d
    BY <2>1 DEF Frame
  <2>3. mem2[fs[k].dest] = mem[fs[k].dest]
    BY <1>2, <2>2
  <2> QED BY <2>3 DEF Waiting, Sim
<1>6. Sim(D, rank, from, mem2, fwd, top, fs)
  BY <1>1, <1>2, <1>3, <1>4, <1>5 DEF Sim
<1> QED BY <1>6

(* Everything is copied: the new memory has the values of the old one. *)
LEMMA CopiedValued ==
  ASSUME NEW D, NEW V, NEW rank, NEW from, NEW mem, NEW fwd, NEW top,
         OldFacts(D, rank), Sim(D, rank, from, mem, fwd, top, <<>>),
         Valued(old_memory, D, V, rank), mem_low <= top,
         \A n \in Index : n < mem_low => Closed(old_memory[n], mem_low)
  PROVE  \E D2, V2, rank2 :
           /\ Valued(mem, D2, V2, rank2) /\ D2 \subseteq 1 .. top - 1
           /\ \A n \in D \cup {0} : Gone(fwd, n) =>
                Fwd(fwd, n) \in D2 \cup {0} /\ V2[Fwd(fwd, n)] = V[n]
<1> DEFINE G     == {n \in D : Gone(fwd, n)}
           D2    == {Fwd(fwd, n) : n \in G}
           Back(m) == CHOOSE n \in G : Fwd(fwd, n) = m
           V2    == [m \in Index |-> IF m \in D2 THEN V[Back(m)] ELSE <<>>]
           rank2 == [m \in Index |-> IF m \in D2 THEN rank[Back(m)] ELSE 0]
<1>1. /\ mem \in [Index -> Node] /\ fwd \in [Index -> Index] /\ top \in Nat
      /\ D \subseteq Index /\ 0 \notin D /\ 0 \in Index /\ Index \subseteq Nat
      /\ mem_low \in Nat /\ mem_low > 0 /\ rank \in [Index -> Nat] /\ old_memory \in [Index -> Node]
  BY SimFacts
<1>2. PICK T : V \in [Index -> Seq(T)]
  BY DEF Valued
<1>3. Sound(old_memory, D, V, rank) /\ old_memory[0] = Blank /\ V[0] = <<>>
  BY DEF Valued, Sound
<1>4. \A n \in Index : fwd[n] # 0 => Forwarded(D, fwd, top, n) /\ NodeMoved(mem[fwd[n]], n, fwd, <<>>)
  BY DEF Sim
<1>5. \A n \in G : /\ n \in D /\ n \in Index /\ Fwd(fwd, n) \in Index
                   /\ Fwd(fwd, n) \in 1 .. top - 1
                   /\ \A k \in G : Fwd(fwd, k) = Fwd(fwd, n) => k = n
  <2> SUFFICES ASSUME NEW n \in G
               PROVE  /\ n \in D /\ n \in Index /\ Fwd(fwd, n) \in Index
                      /\ Fwd(fwd, n) \in 1 .. top - 1
                      /\ \A k \in G : Fwd(fwd, k) = Fwd(fwd, n) => k = n
    OBVIOUS
  <2>1. n \in D /\ n \in Index /\ n \in Nat /\ n # 0
    BY <1>1
  <2>2. \A k \in G : k \in Index /\ k \in Nat /\ (k < mem_low \/ (fwd[k] # 0 /\ mem_low <= fwd[k] /\ fwd[k] \in Nat))
    <3> SUFFICES ASSUME NEW k \in G
                 PROVE  k \in Index /\ k \in Nat /\ (k < mem_low \/ (fwd[k] # 0 /\ mem_low <= fwd[k] /\ fwd[k] \in Nat))
      OBVIOUS
    <3>1. k \in Index /\ Gone(fwd, k)
      BY <1>1
    <3>2. fwd[k] # 0 => mem_low <= fwd[k]
      BY <1>4, <3>1 DEF Forwarded
    <3> QED BY <1>1, <3>1, <3>2 DEF Gone
  <2>3. CASE n < mem_low
    <3>1. Fwd(fwd, n) = n
      BY <2>3 DEF Fwd
    <3>2. n \in 1 .. top - 1
      BY <1>1, <2>1, <2>3
    <3>3. ASSUME NEW k \in G, Fwd(fwd, k) = n PROVE k = n
      BY <1>1, <2>1, <2>2, <2>3, <3>3 DEF Fwd
    <3> QED BY <2>1, <3>1, <3>2, <3>3
  <2>4. CASE ~(n < mem_low)
    <3>1. Fwd(fwd, n) = fwd[n] /\ fwd[n] # 0 /\ fwd[n] \in Index /\ fwd[n] \in Nat
      BY <1>1, <2>1, <2>2, <2>4 DEF Fwd
    <3>2. Forwarded(D, fwd, top, n)
      BY <1>4, <2>1, <3>1
    <3>3. fwd[n] \in 1 .. top - 1
      BY <1>1, <3>1, <3>2 DEF Forwarded
    <3>4. ASSUME NEW k \in G, Fwd(fwd, k) = fwd[n] PROVE k = n
      <4>1. CASE k < mem_low
        <5>1. k = fwd[n] /\ mem_low <= fwd[n]
          BY <3>2, <3>4, <4>1 DEF Fwd, Forwarded
        <5> QED BY <1>1, <2>2, <3>1, <4>1, <5>1
      <4>2. CASE ~(k < mem_low)
        BY <2>2, <3>2, <3>4, <4>2 DEF Fwd, Forwarded
      <4> QED BY <4>1, <4>2
    <3> QED BY <2>1, <3>1, <3>3, <3>4
  <2> QED BY <2>3, <2>4
<1>6. \A n \in G : Fwd(fwd, n) \in D2 /\ Back(Fwd(fwd, n)) = n
  <2> SUFFICES ASSUME NEW n \in G PROVE Back(Fwd(fwd, n)) = n
    OBVIOUS
  <2>1. Back(Fwd(fwd, n)) \in G /\ Fwd(fwd, Back(Fwd(fwd, n))) = Fwd(fwd, n)
    <3> HIDE DEF G
    <3> QED OBVIOUS
  <2> HIDE DEF Back, G
  <2> QED BY <1>5, <2>1
<1>7. D2 \subseteq 1 .. top - 1 /\ D2 \subseteq Index /\ D2 \subseteq 1 .. MaxIndex /\ 0 \notin D2
  <2>1. \A m \in D2 : m \in 1 .. top - 1 /\ m \in Index
    <3> HIDE DEF G
    <3> QED BY <1>5
  <2>2. \A m \in D2 : m \in 1 .. MaxIndex /\ m # 0
    <3> HIDE DEF D2
    <3> QED BY <2>1, HeapAssumption DEF Index
  <2> HIDE DEF D2
  <2> QED BY <2>1, <2>2
<1> HIDE DEF Back, D2
<1>8. \A n \in G : V2[Fwd(fwd, n)] = V[n] /\ rank2[Fwd(fwd, n)] = rank[n]
  <2> HIDE DEF G
  <2> QED BY <1>5, <1>6
<1>9. V2 \in [Index -> Seq(T)] /\ rank2 \in [Index -> Nat] /\ V2[0] = <<>>
  <2>1. \A m \in D2 : \E n \in G : m = Fwd(fwd, n)
    BY DEF D2
  <2>2. \A m \in D2 : V[Back(m)] \in Seq(T) /\ rank[Back(m)] \in Nat
    <3> HIDE DEF G
    <3> QED BY <1>1, <1>2, <1>5, <1>6, <2>1
  <2>3. <<>> \in Seq(T) /\ 0 \in Nat
    OBVIOUS
  <2> QED BY <1>1, <1>7, <2>2, <2>3
<1> HIDE DEF V2, rank2
<1>10. ASSUME NEW n \in G, NEW r, Reaches(n, r, D, rank), Gone(fwd, r)
       PROVE  Reaches(Fwd(fwd, n), Fwd(fwd, r), D2, rank2) /\ V2[Fwd(fwd, r)] = V[r]
  <2>1. CASE r = 0
    <3>1. Fwd(fwd, r) = 0
      BY <1>1, <2>1 DEF Fwd
    <3> QED BY <1>3, <1>9, <2>1, <3>1 DEF Reaches
  <2>2. CASE r # 0
    <3>1. r \in G /\ rank[r] < rank[n]
      BY <1>10, <2>2 DEF Reaches
    <3> HIDE DEF G
    <3> QED BY <1>6, <1>8, <3>1 DEF Reaches
  <2> QED BY <2>1, <2>2
<1>11. ASSUME NEW n \in G
       PROVE  SoundNode(mem[Fwd(fwd, n)], Fwd(fwd, n), D2, V2, rank2)
  <2> DEFINE m == Fwd(fwd, n)
             x == mem[m]
             y == old_memory[n]
  <2>0. n \in D /\ n \in Index
    BY <1>5
  <2>1. SoundNode(y, n, D, V, rank)
    BY <1>3, <2>0 DEF Sound
  <2>2. /\ Like(x, y)
        /\ Gone(fwd, y.next) /\ x.next = Fwd(fwd, y.next)
        /\ y.op = "LIST" => Gone(fwd, y.u) /\ x.u = Fwd(fwd, y.u)
    <3>1. CASE n < mem_low
      <4>1. m = n /\ x = y
        BY <2>0, <3>1 DEF Fwd, Sim
      <4>2. y.next < mem_low /\ (y.op = "LIST" => y.u < mem_low)
        BY <2>0, <3>1 DEF Closed
      <4> QED BY <4>1, <4>2 DEF Like, Gone, Fwd
    <3>2. CASE ~(n < mem_low)
      <4>1. fwd[n] # 0 /\ m = fwd[n]
        BY <3>2 DEF Gone, Fwd
      <4>2. NodeMoved(x, n, fwd, <<>>)
        BY <1>4, <2>0, <4>1
      <4>3. ~ \E k \in 1 .. Len(<<>>) : TRUE
        OBVIOUS
      <4> QED BY <4>2, <4>3 DEF NodeMoved, Linked
    <3> QED BY <3>1, <3>2
  <2> HIDE DEF G, m, x, y
  <2>3. /\ Reaches(m, x.next, D2, rank2) /\ V2[x.next] = V[y.next]
    BY <1>10, <2>1, <2>2 DEF SoundNode, m
  <2>4. y.op = "LIST" => Reaches(m, x.u, D2, rank2) /\ V2[x.u] = V[y.u]
    BY <1>10, <2>1, <2>2 DEF SoundNode, m
  <2>5. x.op = y.op /\ x.len = y.len /\ (y.op # "LIST" => x.u = y.u)
    BY <2>2 DEF Like
  <2>6. ValueOf(x, V2) = ValueOf(y, V)
    BY <2>1, <2>4, <2>5 DEF ValueOf, SoundNode
  <2>7. V2[m] = V[n]
    BY <1>8 DEF m
  <2>8. SoundNode(x, m, D2, V2, rank2)
    BY <2>1, <2>3, <2>4, <2>5, <2>6, <2>7 DEF SoundNode
  <2> QED BY <2>8 DEF x, m
<1>12. \A m \in D2 : SoundNode(mem[m], m, D2, V2, rank2)
  BY <1>11 DEF D2
<1>13. mem[0] = Blank
  BY <1>1, <1>3 DEF Sim
<1>14. Valued(mem, D2, V2, rank2)
  BY <1>7, <1>9, <1>12, <1>13 DEF Valued, Sound
<1>15. \A n \in D \cup {0} : Gone(fwd, n) =>
          Fwd(fwd, n) \in D2 \cup {0} /\ V2[Fwd(fwd, n)] = V[n]
  <2>1. Fwd(fwd, 0) = 0
    BY <1>1 DEF Fwd
  <2> QED BY <1>3, <1>6, <1>8, <1>9, <2>1
<1> QED BY <1>7, <1>14, <1>15

-----------------------------------------------------------------------------
(***************************************************************************)
(* The heap between two commands and within one.  D are the nodes in use,  *)
(* V their values, R and B the nodes at which the roots and the bodies     *)
(* begin: those of the registers, and while a collection moves them, those *)
(* of the old memory.                                                      *)
(***************************************************************************)

(* Names are defined at the top level, or there is one variable.           *)
Separate ==
  /\ EmbedSyms = {}
  /\ VarSyms = {} \/ (DefSyms = {} /\ \A s, t \in VarSyms : s = t)

HeapNow == IF gc = "copy" THEN old_memory ELSE memory

Orig(R, B, j) == IF j <= 11 THEN R[RootNames[j]] ELSE B[SymOf(j)]

(* The roots before slot have moved, the others are as they were.          *)
RootsCopied(R, B) ==
  \A j \in 1 .. Slots :
    IF j < slot THEN Gone(forward, Orig(R, B, j)) /\ SlotRoot(j) = Fwd(forward, Orig(R, B, j))
    ELSE SlotRoot(j) = Orig(R, B, j)

Copying(D, rank, R, B) ==
  /\ OldFacts(D, rank)
  /\ Sim(D, rank, Orig(R, B, slot), memory, forward, memoryindex, frames)
  /\ RootsCopied(R, B)

(* A body is a definition, or that of a variable gc1 looks for.            *)
BodiesSafe(B) ==
  \A s \in Syms :
    IF s \in VarSyms THEN B[s] = 0 \/ (variable_busy /\ symtab[s].is_root)
    ELSE flibrary_busy \/ B[s] < mem_low

Machine(D, V, rank, R, B) ==
  /\ Valued(HeapNow, D, V, rank)
  /\ Within(D, R, B)
  /\ BodiesSafe(B)
  /\ gc # "copy" => R = root /\ B = Bodies /\ D \subseteq 1 .. memoryindex - 1
  /\ gc = "copy" => Copying(D, rank, R, B)

(* The one entry that may end the scan is the variable.                    *)
LastInv == \A s \in Syms : symtab[s].is_last => s \in VarSyms

(* A call of newnode waits during the collection it asked for.             *)
PendInv ==
  /\ gc = "off" => pend = NoPend
  /\ gc = "alloc" => pend # NoPend
  /\ pend # NoPend => pend.op # "ILLEGAL"

LEMMA RootNamesOnce == \A i, j \in 1 .. 11 : RootNames[i] = RootNames[j] => i = j
BY DEF RootNames

LEMMA SlotKinds ==
  ASSUME NEW j \in 1 .. Slots
  PROVE  /\ j \in Nat /\ (j <= 11 => j \in 1 .. 11 /\ RootNames[j] \in RootSet)
         /\ ~(j <= 11) => SymOf(j) \in Syms
         /\ \A k \in 1 .. Slots : SymOf(j) = SymOf(k) => j = k
<1>1. NSyms \in Nat
  BY HeapAssumption
<1> QED BY <1>1, RootNamesType DEF Slots, SymOf, Syms

LEMMA OrigWithin ==
  ASSUME NEW D, NEW R, NEW B, Within(D, R, B), NEW j \in 1 .. Slots
  PROVE  Orig(R, B, j) \in D \cup {0}
BY SlotKinds DEF Within, Orig

(* What gc1 does not copy does not move.                                   *)
LEMMA UnwantedStays ==
  ASSUME TypeOK, Separate, LastInv, NEW B, BodiesSafe(B), ~flibrary_busy,
         mem_low \in Nat, mem_low > 0, NEW R, NEW j \in 1 .. Slots, ~Wanted(j),
         SlotRoot(j) = Orig(R, B, j)
  PROVE  Orig(R, B, j) < mem_low
<1>1. CASE SlotRoot(j) = 0
  BY <1>1
<1>2. CASE SlotRoot(j) # 0
  <2> DEFINE s == SymOf(j)
  <2>1. ~(j <= 11) /\ ~Scanned(s) /\ s \in Syms /\ Orig(R, B, j) = B[s] /\ j \in Nat
    <3>1. j \in Nat /\ (~(j <= 11) => s \in Syms)
      BY SlotKinds
    <3>2. j > 11 /\ ~Scanned(s)
      BY <1>2 DEF Wanted
    <3> QED BY <3>1, <3>2 DEF Orig
  <2>2. CASE s \in VarSyms
    <3>1. variable_busy /\ symtab[s].is_root
      BY <1>2, <2>1, <2>2 DEF BodiesSafe
    <3>2. ASSUME NEW t \in Syms, t > s PROVE ~symtab[t].is_last
      <4>1. s \in Nat /\ t \in Nat
        BY <2>1, HeapAssumption DEF Syms
      <4>2. t # s
        BY <3>2, <4>1
      <4>3. t \notin VarSyms
        BY <2>2, <4>2 DEF Separate
      <4> QED BY <4>3 DEF LastInv
    <3> QED BY <2>1, <3>1, <3>2 DEF Scanned
  <2>3. CASE s \notin VarSyms
    BY <2>1, <2>3 DEF BodiesSafe
  <2> QED BY <2>2, <2>3
<1> QED BY <1>1, <1>2

(* Sim looks at mem_low and at the old memory, which the copying leaves.   *)
LEMMA SimSame ==
  ASSUME mem_low' = mem_low, old_memory' = old_memory,
         NEW D, NEW rank, NEW from, NEW mem, NEW fwd, NEW top, NEW fs,
         Sim(D, rank, from, mem, fwd, top, fs)
  PROVE  Sim(D, rank, from, mem, fwd, top, fs)'
BY DEF Sim, Forwarded, NodeMoved, Linked, Like, Gone, Fwd, Unused, Chain, StartOf, Waiting, Apart

LEMMA OldSame ==
  ASSUME mem_low' = mem_low, old_memory' = old_memory, NEW D, NEW rank, OldFacts(D, rank)
  PROVE  OldFacts(D, rank)'
BY DEF OldFacts, Reaches

(* Without activations it does not matter which root is next.              *)
LEMMA SimFrom ==
  ASSUME NEW D, NEW rank, NEW from, NEW mem, NEW fwd, NEW top,
         Sim(D, rank, from, mem, fwd, top, <<>>), NEW from2
  PROVE  Sim(D, rank, from2, mem, fwd, top, <<>>)
<1>1. Len(<<>>) = 0 /\ 1 .. 0 = {}
  OBVIOUS
<1> QED BY <1>1 DEF Sim

LEMMA GcRootMachine ==
  ASSUME DInv, Separate, LastInv, NEW D, NEW V, NEW rank, NEW R, NEW B,
         Machine(D, V, rank, R, B), NEW j \in 1 .. Slots, GcRoot(j)
  PROVE  Machine(D, V, rank, R, B)'
<1> DEFINE f == [cur |-> SlotRoot(j), head |-> 0, tail |-> 0, dest |-> 0]
<1>1. /\ gc = "copy" /\ gc' = "copy" /\ frames = <<>> /\ frames' = <<f>> /\ slot' = j
      /\ j >= slot /\ Wanted(j) /\ \A k \in slot .. j - 1 : ~Wanted(k)
      /\ UNCHANGED <<memory, memoryindex, mem_low, flibrary_busy, root, symtab, variable_busy,
                     old_memory, forward>>
  BY DEF GcRoot, heapVars, symVars
<1>2. /\ TypeOK /\ ~flibrary_busy /\ mem_low \in Nat /\ mem_low > 0 /\ slot \in Nat
      /\ Copying(D, rank, R, B) /\ Within(D, R, B) /\ BodiesSafe(B)
      /\ Valued(old_memory, D, V, rank)
  <2>1. TypeOK /\ Low /\ ~flibrary_busy
    BY <1>1 DEF DInv, TInv, BusyInv
  <2>2. mem_low \in Nat /\ mem_low > 0 /\ slot \in Nat
    BY <2>1, LowIndex DEF Low, TypeOK
  <2> QED BY <1>1, <2>1, <2>2 DEF Machine, HeapNow
<1>3. OldFacts(D, rank) /\ RootsCopied(R, B) /\ Orig(R, B, j) \in D \cup {0}
      /\ SlotRoot(j) = Orig(R, B, j) /\ j \in Nat
  BY <1>1, <1>2, SlotKinds, OrigWithin DEF Copying, RootsCopied
<1>4. Sim(D, rank, Orig(R, B, j), memory, forward, memoryindex, <<>>)
  BY <1>1, <1>2, SimFrom DEF Copying
<1>5. f \in Frame /\ f.cur = Orig(R, B, j) /\ f.head = 0 /\ f.tail = 0
  BY <1>3, OldIndex DEF Frame
<1> HIDE DEF f
<1>6. Sim(D, rank, Orig(R, B, j), memory, forward, memoryindex, <<f>>)
  <2>1. <<f>> \in Seq(Frame) /\ Len(<<f>>) = 1 /\ <<f>>[1] = f
    BY <1>5
  <2>2. \A n \in Index : forward[n] # 0 => NodeMoved(memory[forward[n]], n, forward, <<f>>)
    <3>1. \A n \in Index : forward[n] # 0 => NodeMoved(memory[forward[n]], n, forward, <<>>)
      BY <1>4 DEF Sim
    <3>2. ~ \E k \in 1 .. Len(<<>>) : TRUE
      OBVIOUS
    <3> QED BY <3>1, <3>2 DEF NodeMoved, Linked
  <2>3. Chain(D, forward, f, Orig(R, B, j))
    BY <1>3, <1>5 DEF Chain
  <2>4. StartOf(<<f>>, 1, Orig(R, B, j)) = Orig(R, B, j)
    BY <2>1 DEF StartOf
  <2>5. /\ \A k \in 1 .. Len(<<f>>) : k = 1 /\ 2 .. Len(<<f>>) = {}
        /\ \A i, k \in 1 .. Len(<<f>>) : ~(i < k)
    BY <2>1
  <2> DEFINE fs == <<f>>
  <2> HIDE DEF fs
  <2>6. \A k \in 1 .. Len(fs) : Chain(D, forward, fs[k], StartOf(fs, k, Orig(R, B, j)))
    BY <2>1, <2>3, <2>4, <2>5 DEF fs
  <2>7. Sim(D, rank, Orig(R, B, j), memory, forward, memoryindex, fs)
    <3>1. /\ memory \in [Index -> Node] /\ forward \in [Index -> Index] /\ memoryindex \in Nat
          /\ \A n \in Index : n < mem_low => memory[n] = old_memory[n]
          /\ \A n \in Index : forward[n] # 0 => Forwarded(D, forward, memoryindex, n)
      BY <1>4 DEF Sim
    <3>2. /\ fs \in Seq(Frame)
          /\ \A n \in Index : forward[n] # 0 => NodeMoved(memory[forward[n]], n, forward, fs)
          /\ \A i, k \in 1 .. Len(fs) : ~(i < k)
          /\ Len(fs) = 1
      BY <2>1, <2>2, <2>5 DEF fs
    <3>3. 2 .. Len(fs) = {}
      BY <3>2
    <3> QED BY <2>6, <3>1, <3>2, <3>3 DEF Sim
  <2> QED BY <2>7 DEF fs
<1>7. RootsCopied(R, B)'
  <2> SUFFICES ASSUME NEW k \in 1 .. Slots
               PROVE  IF k < j THEN Gone(forward, Orig(R, B, k)) /\ SlotRoot(k) = Fwd(forward, Orig(R, B, k))
                      ELSE SlotRoot(k) = Orig(R, B, k)
    BY <1>1 DEF RootsCopied, Gone, Fwd, SlotRoot, Orig, Slots, SymOf
  <2>1. k \in Nat
    BY SlotKinds
  <2>2. CASE k < slot
    BY <1>1, <1>2, <1>3, <2>1, <2>2 DEF RootsCopied
  <2>3. CASE ~(k < slot)
    <3>1. SlotRoot(k) = Orig(R, B, k)
      BY <1>3, <2>3 DEF RootsCopied
    <3>2. CASE k < j
      <4>1. k \in slot .. j - 1
        BY <1>2, <1>3, <2>1, <2>3, <3>2
      <4>2. Orig(R, B, k) < mem_low
        BY <1>1, <1>2, <3>1, <4>1, UnwantedStays
      <4> QED BY <3>1, <3>2, <4>2 DEF Gone, Fwd
    <3> QED BY <3>1, <3>2
  <2> QED BY <2>2, <2>3
<1>8. Copying(D, rank, R, B)'
  <2>0. PICK o : o = Orig(R, B, j)
    OBVIOUS
  <2>1. Sim(D, rank, o, memory, forward, memoryindex, frames)'
    BY <1>1, <1>6, <2>0, SimSame
  <2>2. OldFacts(D, rank)'
    BY <1>1, <1>3, OldSame
  <2>3. Orig(R, B, slot)' = o
    BY <1>1, <2>0 DEF Orig, SymOf
  <2> QED BY <1>1, <1>7, <2>1, <2>2, <2>3 DEF Copying
<1> QED BY <1>1, <1>2, <1>8 DEF Machine, HeapNow, Valued, Sound, Within, BodiesSafe

(* What a step of copy() starts from.                                      *)
LEMMA CopyingFacts ==
  ASSUME DInv, NEW D, NEW V, NEW rank, NEW R, NEW B, Machine(D, V, rank, R, B), gc = "copy"
  PROVE  /\ TypeOK /\ ~flibrary_busy /\ Low /\ mem_low \in Nat /\ memoryindex \in Nat
         /\ OldFacts(D, rank) /\ RootsCopied(R, B) /\ Within(D, R, B) /\ BodiesSafe(B)
         /\ Valued(old_memory, D, V, rank)
         /\ Sim(D, rank, Orig(R, B, slot), memory, forward, memoryindex, frames)
<1>1. TypeOK /\ Low /\ ~flibrary_busy
  BY DEF DInv, TInv, BusyInv
<1>2. mem_low \in Nat /\ memoryindex \in Nat
  BY <1>1, LowIndex
<1> QED BY <1>1, <1>2 DEF Machine, HeapNow, Copying

(* The rest of Machine is not touched while a root is copied.              *)
LEMMA CopyingSame ==
  ASSUME NEW D, NEW V, NEW rank, NEW R, NEW B, Machine(D, V, rank, R, B),
         gc = "copy", gc' = "copy",
         UNCHANGED <<mem_low, flibrary_busy, variable_busy, old_memory>>,
         \A s \in Syms : symtab'[s].is_root = symtab[s].is_root,
         RootsCopied(R, B)',
         Sim(D, rank, Orig(R, B, slot), memory, forward, memoryindex, frames)'
  PROVE  Machine(D, V, rank, R, B)'
<1>1. OldFacts(D, rank)'
  BY OldSame DEF Machine, Copying
<1>2. Copying(D, rank, R, B)'
  BY <1>1 DEF Copying
<1>3. BodiesSafe(B)'
  BY DEF Machine, BodiesSafe
<1> QED BY <1>2, <1>3 DEF Machine, HeapNow, Valued, Sound, Within

LEMMA MovedLike ==
  ASSUME NEW old \in Node
  PROVE  Moved(old) \in Node /\ Like(Moved(old), old)
BY IndexFacts DEF Moved, Like, Node

LEMMA GcCopyNodeMachine ==
  ASSUME DInv, NEW D, NEW V, NEW rank, NEW R, NEW B, Machine(D, V, rank, R, B), GcCopyNode
  PROVE  Machine(D, V, rank, R, B)'
<1> DEFINE f    == Head(frames)
           n0   == f.cur
           old  == old_memory[n0]
           temp == memoryindex
           mem  == [memory EXCEPT ![temp] = Moved(old)]
           inner == [cur |-> old.u, head |-> 0, tail |-> 0, dest |-> 0]
           outer == [cur |-> f.cur, head |-> f.head, tail |-> f.tail, dest |-> temp]
<1>1. /\ gc = "copy" /\ gc' = "copy" /\ frames # <<>>
      /\ UNCHANGED <<mem_low, flibrary_busy, root, symtab, variable_busy, old_memory, slot>>
      /\ n0 >= mem_low /\ forward[n0] = 0
      /\ memoryindex' = temp + MovedSize(old) /\ memoryindex' <= MaxIndex + 1
  BY DEF GcCopyNode, symVars
<1>2. /\ TypeOK /\ Low /\ mem_low \in Nat /\ memoryindex \in Nat /\ RootsCopied(R, B)
      /\ OldFacts(D, rank) /\ Within(D, R, B)
      /\ Sim(D, rank, Orig(R, B, slot), memory, forward, memoryindex, frames)
  BY <1>1, CopyingFacts
<1> PICK o : o = Orig(R, B, slot)
  OBVIOUS
<1>3. f = frames[1] /\ n0 \in Index /\ old \in Node /\ frames \in Seq(Frame)
  <2>1. frames \in Seq(Frame) /\ old_memory \in [Index -> Node]
    BY <1>2 DEF TypeOK
  <2>2. f = frames[1] /\ f \in Frame
    BY <1>1, <2>1, FramesJoin
  <2> QED BY <2>1, <2>2 DEF Frame
<1>4. /\ temp \in Index /\ memoryindex' \in Nat /\ memoryindex' > temp /\ mem_low <= temp
      /\ temp # 0
  <2>1. MovedSize(old) \in Nat \ {0}
    BY <1>3, MovedType
  <2>2. temp \in Nat /\ mem_low <= temp /\ mem_low >= 1
    BY <1>2 DEF Low
  <2> QED BY <1>1, <1>2, <2>1, <2>2, HeapAssumption DEF Index
<1>5. Moved(old) \in Node /\ Like(Moved(old), old)
  BY <1>3, MovedLike
<1>6. /\ Sim(D, rank, o, mem, forward, memoryindex', frames)
      /\ Unused(forward, temp) /\ \A k \in 2 .. Len(frames) : frames[k].dest # temp
  BY <1>2, <1>4, <1>5, FreshSim
<1>7. mem[temp] = Moved(old)
  BY <1>2, <1>4 DEF TypeOK
<1> HIDE DEF mem, temp, old
<1>8. \A n \in Index : Gone(forward, n) => Gone(forward', n) /\ Fwd(forward', n) = Fwd(forward, n)
  <2>1. CASE old.op = "LIST"
    <3>1. forward' = forward
      BY <2>1 DEF GcCopyNode, old
    <3> QED BY <3>1
  <2>2. CASE old.op # "LIST"
    <3>1. forward' = [forward EXCEPT ![n0] = temp]
      BY <2>2 DEF GcCopyNode, old, temp
    <3>2. forward \in [Index -> Index]
      BY <1>2 DEF TypeOK
    <3> HIDE DEF n0
    <3> QED BY <1>1, <1>3, <1>4, <3>1, <3>2, GoneStays
  <2> QED BY <2>1, <2>2
<1>9. RootsCopied(R, B)'
  <2>1. \A j \in 1 .. Slots : Orig(R, B, j) \in Index
    BY <1>2, OrigWithin, OldIndex
  <2>2. \A j \in 1 .. Slots : SlotRoot(j)' = SlotRoot(j)
    BY <1>1 DEF SlotRoot
  <2>3. \A j \in 1 .. Slots : IF j < slot THEN Gone(forward', Orig(R, B, j)) /\ SlotRoot(j) = Fwd(forward', Orig(R, B, j))
                              ELSE SlotRoot(j) = Orig(R, B, j)
    BY <1>2, <1>8, <2>1 DEF RootsCopied
  <2> QED BY <1>1, <2>2, <2>3 DEF RootsCopied, Gone, Fwd, Orig, SymOf, Slots
<1>10. Sim(D, rank, o, memory', forward', memoryindex', frames')
  <2>1. CASE old.op = "LIST"
    <3>1. /\ memory' = mem /\ forward' = forward
          /\ frames' = <<inner>> \o (<<outer>> \o Tail(frames))
      BY <2>1 DEF GcCopyNode, old, mem, temp
    <3>2. Sim(D, rank, o, mem, forward, memoryindex', <<inner>> \o (<<outer>> \o Tail(frames)))
      <4>1. /\ frames # <<>> /\ mem_low <= frames[1].cur /\ forward[frames[1].cur] = 0
            /\ old_memory[frames[1].cur].op = "LIST" /\ old = old_memory[frames[1].cur]
            /\ Like(mem[temp], old_memory[frames[1].cur]) /\ temp < memoryindex'
        BY <1>1, <1>2, <1>3, <1>4, <1>5, <1>7, <2>1, IndexFacts DEF old
      <4>2. inner = [cur |-> old_memory[frames[1].cur].u, head |-> 0, tail |-> 0, dest |-> 0]
        BY <4>1
      <4>3. outer = [cur |-> frames[1].cur, head |-> frames[1].head, tail |-> frames[1].tail, dest |-> temp]
        BY <1>3
      <4> HIDE DEF inner, outer, f
      <4> QED BY <1>2, <1>4, <1>6, <4>1, <4>2, <4>3, PushSim
    <3> QED BY <3>1, <3>2
  <2>2. CASE old.op # "LIST"
    <3>1. /\ memory' = LinkTail(mem, f.tail, temp) /\ forward' = [forward EXCEPT ![n0] = temp]
          /\ frames' = <<Joined(f, temp)>> \o Tail(frames)
      BY <2>2 DEF GcCopyNode, old, mem, temp
    <3>2. Sim(D, rank, o, LinkTail(mem, frames[1].tail, temp), [forward EXCEPT ![frames[1].cur] = temp],
              memoryindex', <<Joined(frames[1], temp)>> \o Tail(frames))
      <4>1. /\ frames # <<>> /\ mem_low <= frames[1].cur /\ forward[frames[1].cur] = 0
            /\ old_memory[frames[1].cur].op # "LIST"
            /\ Like(mem[temp], old_memory[frames[1].cur]) /\ temp < memoryindex'
        BY <1>1, <1>2, <1>3, <1>4, <1>5, <1>7, <2>2, IndexFacts DEF old
      <4> HIDE DEF f
      <4> QED BY <1>2, <1>4, <1>6, <4>1, JoinSim
    <3> QED BY <1>3, <3>1, <3>2
  <2> QED BY <2>1, <2>2
<1>11. Sim(D, rank, Orig(R, B, slot), memory, forward, memoryindex, frames)'
  <2>1. Sim(D, rank, o, memory, forward, memoryindex, frames)'
    BY <1>1, <1>10, SimSame
  <2>2. Orig(R, B, slot)' = o
    BY <1>1 DEF Orig, SymOf
  <2> QED BY <2>1, <2>2
<1> QED BY <1>1, <1>9, <1>11, CopyingSame

LEMMA GcChainEndMachine ==
  ASSUME DInv, NEW D, NEW V, NEW rank, NEW R, NEW B, Machine(D, V, rank, R, B), GcChainEnd
  PROVE  Machine(D, V, rank, R, B)'
<1> DEFINE f      == Head(frames)
           target == IF f.cur < mem_low THEN f.cur ELSE forward[f.cur]
           result == IF f.head = 0 THEN target ELSE f.head
           mem    == LinkTail(memory, f.tail, target)
           g      == Head(Tail(frames))
<1>1. /\ gc = "copy" /\ gc' = "copy" /\ frames # <<>>
      /\ UNCHANGED <<memoryindex, mem_low, flibrary_busy, variable_busy, old_memory>>
      /\ f.cur < mem_low \/ forward[f.cur] # 0
  BY DEF GcChainEnd
<1>2. /\ TypeOK /\ Low /\ mem_low \in Nat /\ memoryindex \in Nat /\ RootsCopied(R, B)
      /\ OldFacts(D, rank) /\ Within(D, R, B)
      /\ Sim(D, rank, Orig(R, B, slot), memory, forward, memoryindex, frames)
  BY <1>1, CopyingFacts
<1> PICK o : o = Orig(R, B, slot)
  OBVIOUS
<1>3. /\ frames \in Seq(Frame) /\ f = frames[1] /\ Len(frames) \in Nat \ {0}
      /\ \A k \in 1 .. Len(frames) : frames[k] \in Frame
      /\ Len(Tail(frames)) = Len(frames) - 1 /\ Tail(frames) \in Seq(Frame)
      /\ \A k \in 1 .. Len(frames) - 1 : Tail(frames)[k] = frames[k + 1]
  BY <1>1, <1>2, FramesTail DEF TypeOK
<1>4. target = Fwd(forward, frames[1].cur) /\ Gone(forward, frames[1].cur)
  BY <1>1, <1>3 DEF Fwd, Gone
<1> DEFINE start == StartOf(frames, 1, o)
<1>5. /\ Gone(forward, start) /\ Fwd(forward, start) = result
      /\ Sim(D, rank, o, mem, forward, memoryindex, Tail(frames))
      /\ target \in Index /\ f.head \in Index
      /\ Len(frames) > 1 => Waiting(D, mem, forward, memoryindex, frames[2])
  <2> HIDE DEF target
  <2> QED BY <1>1, <1>2, <1>3, <1>4, PopSim
<1>6. result \in Index
  BY <1>5
<1> HIDE DEF target, result, mem
<1>7. CASE Tail(frames) # <<>>
  <2>1. /\ memory' = LinkTail([mem EXCEPT ![g.dest].u = result], g.tail, g.dest)
        /\ forward' = [forward EXCEPT ![g.cur] = g.dest]
        /\ frames' = <<Joined(g, g.dest)>> \o Tail(Tail(frames))
        /\ UNCHANGED <<root, symtab, slot>>
    BY <1>7 DEF GcChainEnd, target, result, mem
  <2> DEFINE gs   == Tail(frames)
             mem2 == [mem EXCEPT ![g.dest].u = result]
  <2>2. /\ Len(frames) > 1 /\ gs \in Seq(Frame) /\ gs # <<>> /\ Len(gs) = Len(frames) - 1
        /\ g = gs[1] /\ gs[1] = frames[2] /\ g \in Frame
    <3>1. gs # <<>> /\ gs \in Seq(Frame)
      BY <1>3, <1>7
    <3>2. Len(gs) \in Nat \ {0} /\ g = gs[1]
      BY <3>1, FramesTail
    <3>3. Len(frames) > 1
      BY <1>3, <3>2
    <3>4. 1 \in 1 .. Len(frames) - 1 /\ 2 \in 1 .. Len(frames) /\ 1 + 1 = 2
      BY <1>3, <3>3
    <3>5. gs[1] = frames[2]
      BY <1>3, <3>4
    <3> QED BY <1>3, <3>1, <3>2, <3>3, <3>4, <3>5
  <2>3. /\ Waiting(D, mem, forward, memoryindex, g) /\ g.dest \in Index /\ g.cur \in Index
        /\ start = old_memory[g.cur].u
    <3>1. start = old_memory[frames[2].cur].u
      <4>1. 1 # Len(frames) /\ 1 + 1 = 2
        BY <2>2
      <4> QED BY <4>1 DEF StartOf
    <3> HIDE DEF g
    <3> QED BY <1>5, <2>2, <3>1 DEF Frame
  <2>4. \A k \in 2 .. Len(gs) : gs[k].dest # g.dest
    <3> SUFFICES ASSUME NEW k \in 2 .. Len(gs) PROVE gs[k].dest # g.dest
      OBVIOUS
    <3>1. k + 1 \in 2 .. Len(frames) /\ 2 \in 2 .. Len(frames) /\ 2 < k + 1
          /\ k \in 1 .. Len(frames) - 1
      BY <1>3, <2>2
    <3>2. gs[k] = frames[k + 1]
      BY <1>3, <3>1
    <3>3. frames[2].dest # frames[k + 1].dest
      <4> DEFINE b == k + 1
      <4>1. b \in 2 .. Len(frames) /\ 2 \in 2 .. Len(frames) /\ 2 < b
        BY <3>1
      <4> HIDE DEF b
      <4>2. frames[2].dest # frames[b].dest
        BY <1>2, <4>1 DEF Sim
      <4> QED BY <4>2 DEF b
    <3> HIDE DEF g, gs
    <3> QED BY <2>2, <3>2, <3>3
  <2> DEFINE d  == g.dest
             n0 == g.cur
  <2>5. /\ d \in Index /\ n0 \in Index /\ mem_low <= d /\ d < memoryindex /\ Unused(forward, d)
        /\ Like(mem[d], old_memory[n0]) /\ old_memory[n0].op = "LIST"
        /\ n0 \in D /\ mem_low <= n0 /\ forward[n0] = 0
    <3> HIDE DEF g
    <3> QED BY <2>3 DEF Waiting
  <2>6. /\ Sim(D, rank, o, mem2, forward, memoryindex, gs)
        /\ mem2[d].u = result /\ mem2[d].op = mem[d].op /\ mem2[d].len = mem[d].len
    <3> HIDE DEF d, gs, n0
    <3>1. Sim(D, rank, o, mem, forward, memoryindex, gs)
      BY <1>5 DEF gs
    <3>2. \A k \in 2 .. Len(gs) : gs[k].dest # d
      BY <2>4 DEF d, gs
    <3>3. mem2 = [mem EXCEPT ![d].u = result]
      BY DEF d
    <3>4. d \in Index /\ mem_low <= d /\ Unused(forward, d)
      BY <2>5
    <3>5. OldFacts(D, rank) /\ result \in Index
      BY <1>2, <1>6
    <3> HIDE DEF g, mem2
    <3>6. Sim(D, rank, o, mem2, forward, memoryindex, gs)
      BY <3>1, <3>2, <3>3, <3>4, <3>5, SetLisSim
    <3>7. mem2[d].u = result /\ mem2[d].op = mem[d].op /\ mem2[d].len = mem[d].len
      <4>1. mem \in [Index -> Node]
        BY <3>1 DEF Sim
      <4> QED BY <3>3, <3>4, <4>1 DEF Node
    <3> QED BY <3>6, <3>7
  <2>7. Like(mem2[d], old_memory[n0])
    <3> HIDE DEF mem2, d, n0
    <3> QED BY <2>5, <2>6 DEF Like
  <2>8. Sim(D, rank, o, LinkTail(mem2, gs[1].tail, d), [forward EXCEPT ![gs[1].cur] = d], memoryindex,
            <<Joined(gs[1], d)>> \o Tail(gs))
    <3>1. n0 = gs[1].cur
      BY <2>2
    <3>2. \A k \in 2 .. Len(gs) : gs[k].dest # d
      BY <2>4
    <3>3. Gone(forward, old_memory[n0].u) /\ mem2[d].u = Fwd(forward, old_memory[n0].u)
      BY <1>5, <2>3, <2>6
    <3>4. gs # <<>>
      BY <2>2
    <3> HIDE DEF mem2, d, gs, n0, g
    <3> QED BY <1>2, <2>5, <2>6, <2>7, <3>1, <3>2, <3>3, <3>4, JoinSim
  <2>9. Sim(D, rank, o, memory', forward', memoryindex', frames')
    <3>1. /\ memory' = LinkTail(mem2, gs[1].tail, d) /\ forward' = [forward EXCEPT ![gs[1].cur] = d]
          /\ frames' = <<Joined(gs[1], d)>> \o Tail(gs) /\ memoryindex' = memoryindex
      BY <1>1, <2>1, <2>2
    <3> HIDE DEF mem2, d, gs
    <3> QED BY <2>8, <3>1
  <2>10. Sim(D, rank, Orig(R, B, slot), memory, forward, memoryindex, frames)'
    <3>1. Sim(D, rank, o, memory, forward, memoryindex, frames)'
      BY <1>1, <2>9, SimSame
    <3>2. Orig(R, B, slot)' = o
      BY <2>1 DEF Orig, SymOf
    <3> QED BY <3>1, <3>2
  <2>11. \A n \in Index : Gone(forward, n) => Gone(forward', n) /\ Fwd(forward', n) = Fwd(forward, n)
    <3>1. forward' = [forward EXCEPT ![n0] = d] /\ d # 0
      <4>1. forward' = [forward EXCEPT ![n0] = d]
        BY <2>1
      <4>2. mem_low >= 1 /\ d \in Nat /\ mem_low <= d /\ mem_low \in Nat
        BY <1>2, <2>5, IndexFacts DEF Low
      <4> HIDE DEF d, n0
      <4> QED BY <4>1, <4>2
    <3>2. forward \in [Index -> Index]
      BY <1>2 DEF TypeOK
    <3> HIDE DEF n0, d
    <3> QED BY <2>5, <3>1, <3>2, GoneStays
  <2>12. RootsCopied(R, B)'
    <3>1. \A j \in 1 .. Slots : Orig(R, B, j) \in Index
      BY <1>2, OrigWithin, OldIndex
    <3>2. \A j \in 1 .. Slots : SlotRoot(j)' = SlotRoot(j)
      BY <2>1 DEF SlotRoot
    <3>3. \A j \in 1 .. Slots : IF j < slot THEN Gone(forward', Orig(R, B, j)) /\ SlotRoot(j) = Fwd(forward', Orig(R, B, j))
                                ELSE SlotRoot(j) = Orig(R, B, j)
      BY <1>2, <2>11, <3>1 DEF RootsCopied
    <3> QED BY <1>1, <2>1, <3>2, <3>3 DEF RootsCopied, Gone, Fwd, Orig, SymOf, Slots
  <2> QED BY <1>1, <2>1, <2>10, <2>12, CopyingSame
<1>8. CASE Tail(frames) = <<>>
  <2>1. /\ memory' = mem /\ frames' = <<>> /\ slot' = slot + 1 /\ forward' = forward
        /\ IF slot <= 11
             THEN root' = [root EXCEPT ![RootNames[slot]] = result] /\ symtab' = symtab
             ELSE symtab' = [symtab EXCEPT ![SymOf(slot)].body = result] /\ root' = root
    BY <1>8 DEF GcChainEnd, target, result, mem
  <2>2. Len(frames) = 1 /\ start = o
    <3>1. Len(frames) - 1 = 0 /\ Len(frames) \in Nat
      BY <1>3, <1>8
    <3>2. Len(frames) = 1
      BY <3>1
    <3> QED BY <3>2 DEF StartOf
  <2>3. slot \in 1 .. Slots /\ slot \in Nat
    BY <1>1, HeapAssumption DEF DInv, TInv, FrameSlot, TypeOK, Slots
  <2>4. Sim(D, rank, Orig(R, B, slot), memory, forward, memoryindex, frames)'
    <3> PICK o2 : o2 = Orig(R, B, slot')
      OBVIOUS
    <3>1. Sim(D, rank, o2, mem, forward, memoryindex, <<>>)
      BY <1>5, <1>8, SimFrom
    <3>2. Sim(D, rank, o2, memory', forward', memoryindex', frames')
      BY <1>1, <2>1, <3>1
    <3>3. Sim(D, rank, o2, memory, forward, memoryindex, frames)'
      BY <1>1, <3>2, SimSame
    <3>4. Orig(R, B, slot)' = o2
      BY DEF Orig, SymOf
    <3> QED BY <3>3, <3>4
  <2>5. \A s \in Syms : symtab'[s].is_root = symtab[s].is_root
    BY <1>2, <2>1 DEF TypeOK, Entry
  <2>6. ASSUME NEW j \in 1 .. Slots
        PROVE  SlotRoot(j)' = IF j = slot THEN result ELSE SlotRoot(j)
    <3>1. j \in Nat /\ (j <= 11 => j \in 1 .. 11 /\ RootNames[j] \in RootSet) /\ (~(j <= 11) => SymOf(j) \in Syms)
          /\ (SymOf(j) = SymOf(slot) => j = slot)
      BY <2>3, SlotKinds
    <3>2. slot <= 11 => slot \in 1 .. 11 /\ RootNames[slot] \in RootSet
      BY <2>3, SlotKinds
    <3>3. root \in [RootSet -> Index] /\ symtab \in [Syms -> Entry]
      BY <1>2 DEF TypeOK
    <3>4. CASE j <= 11 /\ slot <= 11
      <4>1. RootNames[j] = RootNames[slot] => j = slot
        BY <3>1, <3>2, <3>4, RootNamesOnce
      <4> QED BY <2>1, <3>1, <3>2, <3>3, <3>4, <4>1 DEF SlotRoot
    <3>5. CASE ~(j <= 11) /\ ~(slot <= 11)
      <4>1. SymOf(j)' = SymOf(j)
        BY DEF SymOf
      <4> DEFINE s == SymOf(j)
                 t == SymOf(slot)
      <4>2. s \in Syms /\ (s = t => j = slot) /\ (j = slot => s = t)
        BY <3>1, <3>5
      <4>3. symtab' = [symtab EXCEPT ![t].body = result] /\ SlotRoot(j) = symtab[s].body
            /\ SlotRoot(j)' = symtab'[s].body
        BY <2>1, <3>5, <4>1 DEF SlotRoot
      <4> HIDE DEF s, t
      <4>4. symtab'[s].body = IF s = t THEN result ELSE symtab[s].body
        BY <3>3, <4>2, <4>3 DEF Entry
      <4> QED BY <4>2, <4>3, <4>4
    <3>6. CASE (j <= 11) /\ ~(slot <= 11)
      <4>1. root' = root
        BY <2>1, <3>6
      <4> QED BY <3>1, <3>6, <4>1 DEF SlotRoot
    <3>7. CASE ~(j <= 11) /\ (slot <= 11)
      <4>1. symtab' = symtab /\ SymOf(j)' = SymOf(j)
        BY <2>1, <3>7 DEF SymOf
      <4> QED BY <3>1, <3>7, <4>1 DEF SlotRoot
    <3> QED BY <3>4, <3>5, <3>6, <3>7
  <2>7. RootsCopied(R, B)'
    <3>1. ASSUME NEW j \in 1 .. Slots
          PROVE  IF j < slot + 1 THEN Gone(forward, Orig(R, B, j)) /\ SlotRoot(j)' = Fwd(forward, Orig(R, B, j))
                 ELSE SlotRoot(j)' = Orig(R, B, j)
      <4>1. j \in Nat
        BY SlotKinds
      <4>2. CASE j = slot
        BY <1>5, <2>2, <2>3, <2>6, <4>1, <4>2
      <4>3. CASE j # slot
        <5>1. SlotRoot(j)' = SlotRoot(j) /\ (j < slot + 1 <=> j < slot)
          BY <2>3, <2>6, <4>1, <4>3
        <5> QED BY <1>2, <5>1 DEF RootsCopied
      <4> QED BY <4>2, <4>3
    <3> QED BY <1>1, <2>1, <3>1 DEF RootsCopied, Gone, Fwd, Orig, SymOf, Slots
  <2> QED BY <1>1, <2>4, <2>5, <2>7, CopyingSame
<1> QED BY <1>7, <1>8

(* The registers as the program sees them: a call of newnode that waits    *)
(* for the collection counts as done.                                      *)
Registers(V, R, B) ==
  IF pend = NoPend THEN Plain(V, R, B)
  ELSE Put(Plain(V, R, B), pend.dst,
           <<ValueOf(NodeOf(pend, IF pend.op = "LIST" THEN R["l"] ELSE pend.u, R["r"]), V)>>
             \o V[R["r"]])

LEMMA SlotsCover ==
  /\ \A r \in RootSet : \E j \in 1 .. Slots : j <= 11 /\ RootNames[j] = r
  /\ \A s \in Syms : \E j \in 1 .. Slots : ~(j <= 11) /\ SymOf(j) = s
<1>1. NSyms \in Nat
  BY HeapAssumption
<1>2. ASSUME NEW s \in Syms PROVE \E j \in 1 .. Slots : ~(j <= 11) /\ SymOf(j) = s
  <2>1. s \in 1 .. NSyms /\ NSyms + 12 - s \in 1 .. 11 + NSyms /\ ~(NSyms + 12 - s <= 11)
        /\ NSyms + 12 - (NSyms + 12 - s) = s
    BY <1>1 DEF Syms
  <2> QED BY <2>1 DEF Slots, SymOf
<1>3. ASSUME NEW r \in RootSet PROVE \E j \in 1 .. Slots : j <= 11 /\ RootNames[j] = r
  <2>1. PICK j \in 1 .. 11 : r = RootNames[j]
    BY RootNamesType
  <2>2. j \in 1 .. Slots /\ j <= 11
    BY <1>1 DEF Slots
  <2> QED BY <2>1, <2>2
<1> QED BY <1>2, <1>3

(* When gc1 is done every root leads to where its value has moved.         *)
LEMMA AllMoved ==
  ASSUME DInv, Separate, LastInv, NEW D, NEW V, NEW rank, NEW R, NEW B,
         Machine(D, V, rank, R, B), Gc2
  PROVE  /\ \A r \in RootSet : Gone(forward, R[r]) /\ root[r] = Fwd(forward, R[r])
         /\ \A s \in Syms : Gone(forward, B[s]) /\ Bodies[s] = Fwd(forward, B[s])
<1>1. gc = "copy" /\ \A j \in slot .. Slots : ~Wanted(j)
  BY DEF Gc2
<1>2. /\ TypeOK /\ ~flibrary_busy /\ Low /\ mem_low \in Nat /\ memoryindex \in Nat
      /\ RootsCopied(R, B) /\ BodiesSafe(B)
  BY <1>1, CopyingFacts
<1>3. ASSUME NEW j \in 1 .. Slots
      PROVE  Gone(forward, Orig(R, B, j)) /\ SlotRoot(j) = Fwd(forward, Orig(R, B, j))
  <2>1. CASE j < slot
    BY <1>2, <2>1 DEF RootsCopied
  <2>2. CASE ~(j < slot)
    <3>1. SlotRoot(j) = Orig(R, B, j) /\ j \in slot .. Slots
      BY <1>2, <2>2, HeapAssumption DEF RootsCopied, TypeOK, Slots
    <3>2. mem_low > 0
      BY <1>2 DEF Low
    <3>3. Orig(R, B, j) < mem_low
      BY <1>1, <1>2, <3>1, <3>2, UnwantedStays
    <3> QED BY <3>1, <3>3 DEF Gone, Fwd
  <2> QED BY <2>1, <2>2
<1>4. ASSUME NEW r \in RootSet PROVE Gone(forward, R[r]) /\ root[r] = Fwd(forward, R[r])
  <2>1. PICK j \in 1 .. Slots : j <= 11 /\ RootNames[j] = r
    BY SlotsCover
  <2> QED BY <1>3, <2>1 DEF Orig, SlotRoot
<1>5. ASSUME NEW s \in Syms PROVE Gone(forward, B[s]) /\ Bodies[s] = Fwd(forward, B[s])
  <2>1. PICK j \in 1 .. Slots : ~(j <= 11) /\ SymOf(j) = s
    BY SlotsCover
  <2>2. Orig(R, B, j) = B[s] /\ SlotRoot(j) = symtab[s].body /\ Bodies[s] = symtab[s].body
    BY <2>1 DEF Orig, SlotRoot, Bodies
  <2> QED BY <1>3, <2>2
<1> QED BY <1>4, <1>5

(* A collection changes no value.                                          *)
LEMMA Gc2Step ==
  ASSUME DInv, Separate, LastInv, PendInv, NEW D, NEW V, NEW rank, NEW R, NEW B,
         Machine(D, V, rank, R, B), Gc2
  PROVE  \E D2, V2, rank2, R2, B2 :
           /\ Machine(D2, V2, rank2, R2, B2)'
           /\ Registers(V2, R2, B2)' = Registers(V, R, B)
<1>1. /\ gc = "copy" /\ frames = <<>> /\ gc' # "copy"
      /\ UNCHANGED <<memory, memoryindex, mem_low, flibrary_busy, root, symtab, variable_busy, pend>>
  BY DEF Gc2, symVars
<1>2. /\ TypeOK /\ ~flibrary_busy /\ Low /\ mem_low \in Nat /\ memoryindex \in Nat
      /\ OldFacts(D, rank) /\ Within(D, R, B) /\ BodiesSafe(B)
      /\ Valued(old_memory, D, V, rank)
      /\ Sim(D, rank, Orig(R, B, slot), memory, forward, memoryindex, frames)
  BY <1>1, CopyingFacts
<1>3. \A n \in Index : n < mem_low => Closed(old_memory[n], mem_low)
  <2> SUFFICES ASSUME NEW n \in Index, n < mem_low PROVE Closed(old_memory[n], mem_low)
    OBVIOUS
  <2>1. n \in 0 .. mem_low - 1 /\ old_memory[n] = memory[n]
    BY <1>2, IndexFacts DEF Sim, Index
  <2> QED BY <2>1 DEF DInv, DefinitionsClosed
<1>4. mem_low <= memoryindex /\ mem_low > 0
  BY <1>2 DEF Low
<1>5. Sim(D, rank, Orig(R, B, slot), memory, forward, memoryindex, <<>>)
  BY <1>1, <1>2
<1>6. \E D2, V2, rank2 :
           /\ Valued(memory, D2, V2, rank2) /\ D2 \subseteq 1 .. memoryindex - 1
           /\ \A n \in D \cup {0} : Gone(forward, n) =>
                Fwd(forward, n) \in D2 \cup {0} /\ V2[Fwd(forward, n)] = V[n]
  BY <1>2, <1>3, <1>4, <1>5, CopiedValued
<1>7. PICK D2, V2, rank2 :
           /\ Valued(memory, D2, V2, rank2) /\ D2 \subseteq 1 .. memoryindex - 1
           /\ \A n \in D \cup {0} : Gone(forward, n) =>
                Fwd(forward, n) \in D2 \cup {0} /\ V2[Fwd(forward, n)] = V[n]
  BY <1>6
<1>8. /\ \A r \in RootSet : root[r] \in D2 \cup {0} /\ V2[root[r]] = V[R[r]]
      /\ \A s \in Syms : Bodies[s] \in D2 \cup {0} /\ V2[Bodies[s]] = V[B[s]]
                         /\ Bodies[s] = Fwd(forward, B[s])
  BY <1>2, <1>7, AllMoved DEF Within
<1>9. Within(D2, root, Bodies)
  <2>1. root \in [RootSet -> Index]
    BY <1>2 DEF TypeOK
  <2> QED BY <1>8, <2>1 DEF Within, Bodies
<1>10. BodiesSafe(Bodies)
  <2> SUFFICES ASSUME NEW s \in Syms
               PROVE  IF s \in VarSyms THEN Bodies[s] = 0 \/ (variable_busy /\ symtab[s].is_root)
                      ELSE flibrary_busy \/ Bodies[s] < mem_low
    BY DEF BodiesSafe
  <2>1. Bodies[s] = Fwd(forward, B[s])
    BY <1>8
  <2>2. B[s] < mem_low => Bodies[s] = B[s]
    BY <2>1 DEF Fwd
  <2>3. B[s] = 0 => B[s] < mem_low
    BY <1>4
  <2> QED BY <1>2, <2>2, <2>3 DEF BodiesSafe
<1>a. PICK R2, B2 : R2 = root /\ B2 = Bodies
  OBVIOUS
<1>11. Machine(D2, V2, rank2, R2, B2)'
  <2>1. root' = root /\ Bodies' = Bodies
    BY <1>1 DEF Bodies
  <2>2. (gc # "copy" => R2 = root /\ B2 = Bodies /\ D2 \subseteq 1 .. memoryindex - 1)'
    BY <1>1, <1>7, <1>a, <2>1
  <2>3. Valued(HeapNow, D2, V2, rank2)'
    BY <1>1, <1>7 DEF HeapNow, Valued, Sound
  <2>4. Within(D2, R2, B2)' /\ BodiesSafe(B2)'
    BY <1>1, <1>9, <1>10, <1>a DEF Within, BodiesSafe
  <2> QED BY <1>1, <2>2, <2>3, <2>4 DEF Machine
<1>12. Registers(V2, root, Bodies) = Registers(V, R, B)
  <2>1. Plain(V2, root, Bodies) = Plain(V, R, B)
    <3>1. Target \subseteq RootSet
      BY RootNamesType
    <3> QED BY <1>8, <3>1 DEF Plain
  <2>2. V2[root["r"]] = V[R["r"]] /\ V2[root["l"]] = V[R["l"]]
    BY <1>8, RootNamesType
  <2>3. pend # NoPend =>
          ValueOf(NodeOf(pend, IF pend.op = "LIST" THEN root["l"] ELSE pend.u, root["r"]), V2)
          = ValueOf(NodeOf(pend, IF pend.op = "LIST" THEN R["l"] ELSE pend.u, R["r"]), V)
    <3>1. CASE pend.op = "LIST"
      BY <2>2, <3>1 DEF ValueOf, NodeOf
    <3>2. CASE pend.op # "LIST"
      <4>1. pend # NoPend => pend.op \in {"INTEGER", "STRING"}
        BY <1>2, <3>2 DEF PendInv, TypeOK, Requests, Ops
      <4> QED BY <3>2, <4>1 DEF ValueOf, NodeOf
    <3> QED BY <3>1, <3>2
  <2> QED BY <2>1, <2>2, <2>3 DEF Registers
<1>13. Registers(V2, R2, B2)' = Registers(V, R, B)
  <2>1. Registers(V2, R2, B2)' = Registers(V2, R2, B2)
    BY <1>1 DEF Registers, Plain
  <2> QED BY <1>12, <1>a, <2>1
<1> QED BY <1>11, <1>13

(* What is left of the program leads to g.                                 *)
Simulates(g) ==
  \E D, V, rank, R, B :
    Machine(D, V, rank, R, B) /\ Arrives(code, Registers(V, R, B), g)

(* What holds at every step and does not speak of values.                  *)
QuietInstr == {i \in Instr : i.do \notin {"body", "inimem2"}}
CodeQuiet  == ~flibrary_busy => code \in Seq(QuietInstr)

Side == DInv /\ LastInv /\ PendInv /\ CodeQuiet

LEMMA StartGcMachine ==
  ASSUME DInv, NEW D, NEW V, NEW rank, NEW R, NEW B,
         Valued(memory, D, V, rank), Within(D, R, B), BodiesSafe(B),
         gc # "copy", StartGc, UNCHANGED <<flibrary_busy, symtab, variable_busy>>,
         root' = R, B = Bodies
  PROVE  Machine(D, V, rank, R, B)'
<1>1. /\ gc' = "copy" /\ old_memory' = memory /\ memoryindex' = mem_low /\ slot' = 1
      /\ memory' = [i \in Index |-> IF i < mem_low THEN memory[i] ELSE Blank]
      /\ UNCHANGED <<mem_low, forward, frames>>
  BY DEF StartGc
<1>2. /\ TypeOK /\ mem_low \in Nat /\ mem_low > 0
      /\ frames = <<>> /\ (\A n \in Index : forward[n] = 0)
  <2>1. TypeOK /\ Low /\ GcInv
    BY DEF DInv, TInv
  <2>2. mem_low \in Nat /\ mem_low > 0
    BY <2>1, LowIndex DEF Low
  <2> QED BY <2>1, <2>2 DEF GcInv
<1>3. Sound(memory, D, V, rank)
  BY DEF Valued
<1>4. OldFacts(D, rank)'
  BY <1>1, <1>2, <1>3 DEF OldFacts, Sound, SoundNode, Reaches, TypeOK
<1>5. PICK o : o = Orig(R, B, 1)
  OBVIOUS
<1>6. memory' \in [Index -> Node]
  BY <1>2, StartGcType
<1>7. Sim(D, rank, o, memory, forward, memoryindex, frames)'
  <2>1. Len(<<>>) = 0 /\ <<>> \in Seq(Frame)
    OBVIOUS
  <2> QED BY <1>1, <1>2, <1>6, <2>1 DEF Sim, TypeOK
<1>8. Orig(R, B, slot)' = o
  BY <1>1, <1>5 DEF Orig, SymOf
<1>9. RootsCopied(R, B)'
  <2>1. ASSUME NEW j \in 1 .. Slots PROVE ~(j < 1) /\ SlotRoot(j)' = Orig(R, B, j)
    <3>1. ~(j <= 11) => SymOf(j) \in Syms /\ SymOf(j)' = SymOf(j)
      BY SlotKinds DEF SymOf
    <3> QED BY <3>1 DEF SlotRoot, Orig, Bodies
  <2> QED BY <1>1, <2>1 DEF RootsCopied, Orig, SymOf, Slots
<1>10. Copying(D, rank, R, B)'
  BY <1>4, <1>7, <1>8, <1>9 DEF Copying
<1>11. Valued(HeapNow, D, V, rank)'
  BY <1>1 DEF HeapNow, Valued, Sound
<1> QED BY <1>1, <1>10, <1>11 DEF Machine, Within, BodiesSafe

(* What an instruction asks newnode for is what it means for values.       *)
LEMMA RequestRight ==
  ASSUME TypeOK, NEW D, NEW V, NEW rank, Valued(memory, D, V, rank),
         Within(D, root, Bodies), NEW i \in Instr, i.do \in Allocating,
         Ready(i, Plain(V, root, Bodies))
  PROVE  LET a == Plain(V, root, Bodies)
             q == Request(i)
             n == At(i.nxt)
         IN /\ q \in Requests /\ q.op # "ILLEGAL" /\ q.dst = i.dst
            /\ n \in D \cup {0} /\ V[n] = ValueAtOp(i.nxt, a)
            /\ q.op = "LIST" => q.u \in D \cup {0}
            /\ ValueOf(NodeOf(q, q.u, n), V) = NewValue(i, a)
<1> DEFINE a == Plain(V, root, Bodies)
           q == Request(i)
           n == At(i.nxt)
<1>1. q \in Requests
  BY RequestType DEF Allocating
<1>2. i.nxt \in Operand
  BY DEF Instr, Allocating
<1>3. n \in D \cup {0} /\ V[n] = ValueAtOp(i.nxt, a)
  BY <1>2, ValueAtRight
<1>4. CASE i.do = "lit"
  <2>1. q = [op |-> i.op, len |-> i.len, u |-> i.u, dst |-> i.dst] /\ i.op \in {"INTEGER", "STRING"}
    BY <1>4 DEF Request, Instr
  <2>2. q.op = i.op /\ q.dst = i.dst /\ q.u = i.u /\ q.len = i.len
    BY <2>1
  <2>3. ValueOf(NodeOf(q, q.u, n), V) = NewValue(i, a)
    BY <1>4, <2>1, <2>2 DEF ValueOf, NodeOf, NewValue
  <2> QED BY <1>1, <1>3, <2>1, <2>2, <2>3
<1>5. CASE i.do = "list"
  <2>1. q = [op |-> "LIST", len |-> 0, u |-> At(i.src), dst |-> i.dst] /\ i.src \in Operand
    BY <1>5 DEF Request, Instr
  <2>2. At(i.src) \in D \cup {0} /\ V[At(i.src)] = ValueAtOp(i.src, a)
    BY <2>1, ValueAtRight
  <2>3. ValueOf(NodeOf(q, q.u, n), V) = NewValue(i, a)
    BY <1>5, <2>1, <2>2 DEF ValueOf, NodeOf, NewValue
  <2> QED BY <1>1, <1>3, <2>1, <2>2, <2>3
<1>6. CASE i.do = "copy"
  <2> DEFINE m == At(i.src)
             x == memory[m]
  <2>1. q = [op |-> x.op, len |-> x.len, u |-> x.u, dst |-> i.dst] /\ i.src \in Operand
    BY <1>6 DEF Request, Instr, Source
  <2>2. m \in D \cup {0} /\ V[m] = ValueAtOp(i.src, a)
    BY <2>1, ValueAtRight
  <2>3. V[m] # <<>>
    BY <1>6, <2>2 DEF Ready
  <2>4. m \in D /\ V[m][1] = ValueOf(x, V)
    BY <2>2, <2>3, ValueRest
  <2>5. x.op \in {"INTEGER", "STRING", "LIST"} /\ (x.op = "LIST" => x.u \in D \cup {0})
    BY <2>4 DEF Valued, Sound, SoundNode, Reaches
  <2> HIDE DEF m, x
  <2>6. q.op = x.op /\ q.dst = i.dst /\ q.u = x.u /\ q.len = x.len
    BY <2>1
  <2>7. ValueOf(NodeOf(q, q.u, n), V) = NewValue(i, a)
    <3>1. NewValue(i, a) = ValueOf(x, V)
      BY <1>6, <2>2, <2>4 DEF NewValue
    <3> HIDE DEF q
    <3> QED BY <2>5, <2>6, <3>1 DEF ValueOf, NodeOf
  <2> QED BY <1>1, <1>3, <2>5, <2>6, <2>7
<1> QED BY <1>4, <1>5, <1>6 DEF Allocating

(* A node is built: the register it goes to has one more value.            *)
LEMMA BuildMachine ==
  ASSUME DInv, NEW D, NEW V, NEW rank, Machine(D, V, rank, root, Bodies), gc # "copy",
         NEW q \in Requests, q.op # "ILLEGAL", NEW u \in Nat, NEW nxt \in D \cup {0},
         q.op = "LIST" => u \in D \cup {0}, Build(q, u, nxt), gc' # "copy",
         UNCHANGED <<symtab, variable_busy, mem_low, flibrary_busy>>
  PROVE  \E D2, V2, rank2, R2, B2 :
           /\ Machine(D2, V2, rank2, R2, B2)'
           /\ Plain(V2, R2, B2) =
                Put(Plain(V, root, Bodies), q.dst, <<ValueOf(NodeOf(q, u, nxt), V)>> \o V[nxt])
<1> DEFINE p == memoryindex
           w == <<ValueOf(NodeOf(q, u, nxt), V)>> \o V[nxt]
<1>1. /\ TypeOK /\ Low /\ Valued(memory, D, V, rank) /\ D \subseteq 1 .. memoryindex - 1
      /\ Within(D, root, Bodies) /\ BodiesSafe(Bodies)
  BY DEF DInv, TInv, Machine, HeapNow
<1>2. \E V2, rank2 : Extended(V2, rank2, D, V, q, u, nxt)
  <2>1. TypeOK /\ Low /\ Valued(memory, D, V, rank) /\ D \subseteq 1 .. memoryindex - 1
    BY <1>1
  <2> QED BY <2>1, BuildValued
<1>2a. PICK V2, rank2 : Extended(V2, rank2, D, V, q, u, nxt)
  BY <1>2
<1>2b. /\ Valued(memory', D \cup {p}, V2, rank2)
      /\ D \cup {p} \subseteq 1 .. memoryindex' - 1
      /\ \A n \in D \cup {0} : V2[n] = V[n]
      /\ V2[p] = w
  BY <1>2a DEF Extended
<1>3. PICK R2, B2, D2 : R2 = root' /\ B2 = Bodies /\ D2 = D \cup {p}
  OBVIOUS
<1>4. /\ R2 = [r \in RootSet |-> IF r = q.dst THEN p
                               ELSE IF r \in {"l", "r"} THEN 0 ELSE root[r]]
      /\ q.dst \in Target /\ Bodies' = Bodies
  BY <1>3 DEF Build, Requests, Bodies
<1>5. Within(D2, R2, B2)
  <2>1. \A r \in RootSet : R2[r] \in D2 \cup {0}
    BY <1>1, <1>3, <1>4 DEF Within
  <2>2. B2 \in [Syms -> D2 \cup {0}]
    BY <1>1, <1>3 DEF Within, Bodies
  <2> QED BY <1>4, <2>1, <2>2 DEF Within
<1>6. Machine(D2, V2, rank2, R2, B2)'
  <2>1. (gc # "copy" => R2 = root /\ B2 = Bodies /\ D2 \subseteq 1 .. memoryindex - 1)'
    BY <1>2b, <1>3, <1>4
  <2>2. Valued(HeapNow, D2, V2, rank2)'
    BY <1>2b, <1>3 DEF HeapNow, Valued, Sound
  <2>3. Within(D2, R2, B2)' /\ BodiesSafe(B2)'
    BY <1>1, <1>3, <1>5 DEF Within, BodiesSafe
  <2> QED BY <2>1, <2>2, <2>3 DEF Machine
<1>7. Plain(V2, R2, B2) = Put(Plain(V, root, Bodies), q.dst, w)
  <2> HIDE DEF w
  <2>1. \A r \in Target : r \in RootSet /\ r # "r" /\ root[r] \in D \cup {0}
    BY <1>1, RootNamesType DEF Target, Within
  <2>2. V2[0] = V[0] /\ V[0] = <<>>
    BY <1>1, <1>2b DEF Valued, Sound
  <2>3. \A r \in Target : V2[R2[r]] = IF r = q.dst THEN w
                                      ELSE IF r = "l" THEN <<>> ELSE V[root[r]]
    <3> SUFFICES ASSUME NEW r \in Target
                 PROVE  V2[R2[r]] = IF r = q.dst THEN w
                                    ELSE IF r = "l" THEN <<>> ELSE V[root[r]]
      OBVIOUS
    <3>1. R2[r] = IF r = q.dst THEN p ELSE IF r = "l" THEN 0 ELSE root[r]
      BY <1>4, <2>1
    <3>2. V2[root[r]] = V[root[r]]
      BY <1>2b, <2>1
    <3> QED BY <1>2b, <2>2, <3>1, <3>2
  <2>4. \A s \in Syms : V2[B2[s]] = V[Bodies[s]]
    BY <1>1, <1>2b, <1>3 DEF Within
  <2> QED BY <2>3, <2>4 DEF Plain, Put
<1> QED BY <1>6, <1>7

(* Outside a collection the ghosts are the registers themselves.           *)
LEMMA SettledFacts ==
  ASSUME DInv, NEW D, NEW V, NEW rank, NEW R, NEW B, Machine(D, V, rank, R, B), gc # "copy"
  PROVE  /\ TypeOK /\ Low /\ Valued(memory, D, V, rank) /\ R = root /\ B = Bodies
         /\ D \subseteq 1 .. memoryindex - 1 /\ Within(D, root, Bodies) /\ BodiesSafe(Bodies)
         /\ mem_low \in Nat /\ memoryindex \in Nat
<1>1. TypeOK /\ Low
  BY DEF DInv, TInv
<1>2. mem_low \in Nat /\ memoryindex \in Nat
  BY <1>1, LowIndex
<1> QED BY <1>1, <1>2 DEF Machine, HeapNow

LEMMA EffectAllocating ==
  ASSUME NEW i, NEW a, i.do \in Allocating
  PROVE  Effect(i, a) = Put(a, i.dst, <<NewValue(i, a)>> \o ValueAtOp(i.nxt, a))
BY DEF Effect, Allocating

(* newnode has room: the instruction is executed.                          *)
LEMMA AllocSimulates ==
  ASSUME Side, NEW g, Simulates(g), AllocFits \/ AllocLibrary
  PROVE  Simulates(g)'
<1> DEFINE i == Head(code)
           q == Request(i)
           nxt == At(i.nxt)
<1>0. PICK D, V, rank, R, B : Machine(D, V, rank, R, B) /\ Arrives(code, Registers(V, R, B), g)
  BY DEF Simulates
<1>1. /\ DInv /\ gc = "off" /\ pend = NoPend /\ gc' = "off" /\ pend' = NoPend /\ code # <<>>
      /\ i.do \in Allocating /\ Build(q, q.u, nxt) /\ code' = Tail(code)
      /\ UNCHANGED <<symtab, variable_busy, mem_low, flibrary_busy>>
  BY DEF Side, PendInv, AllocFits, AllocLibrary, Allocates, Allocating, symVars
<1>2. /\ TypeOK /\ Valued(memory, D, V, rank) /\ R = root /\ B = Bodies
      /\ Within(D, root, Bodies) /\ i \in Instr /\ code \in Seq(Instr)
  <2>1. TypeOK /\ Valued(memory, D, V, rank) /\ R = root /\ B = Bodies /\ Within(D, root, Bodies)
    BY <1>0, <1>1, SettledFacts
  <2> QED BY <1>1, <2>1, TailType DEF TypeOK
<1> DEFINE a == Plain(V, root, Bodies)
<1>3. Ready(i, a) /\ Arrives(Tail(code), Effect(i, a), g)
  <2>1. Arrives(code, a, g)
    BY <1>0, <1>1, <1>2 DEF Registers
  <2> HIDE DEF a
  <2> QED BY <1>1, <1>2, <2>1, ArrivesTail
<1>4. /\ q \in Requests /\ q.op # "ILLEGAL" /\ q.dst = i.dst
      /\ nxt \in D \cup {0} /\ V[nxt] = ValueAtOp(i.nxt, a)
      /\ q.op = "LIST" => q.u \in D \cup {0}
      /\ ValueOf(NodeOf(q, q.u, nxt), V) = NewValue(i, a)
  BY <1>1, <1>2, <1>3, RequestRight
<1>5. Effect(i, a) = Put(a, q.dst, <<ValueOf(NodeOf(q, q.u, nxt), V)>> \o V[nxt])
  <2>1. Effect(i, a) = Put(a, i.dst, <<NewValue(i, a)>> \o ValueAtOp(i.nxt, a))
    BY <1>1, EffectAllocating
  <2> HIDE DEF a, i, q, nxt
  <2> QED BY <1>4, <2>1
<1>6. \E D2, V2, rank2, R2, B2 :
           /\ Machine(D2, V2, rank2, R2, B2)'
           /\ Plain(V2, R2, B2) = Effect(i, a)
  <2>1. Machine(D, V, rank, root, Bodies) /\ q.u \in Nat /\ gc # "copy" /\ gc' # "copy"
    BY <1>0, <1>1, <1>2, <1>4 DEF Requests
  <2>2. /\ Build(q, q.u, nxt) /\ UNCHANGED <<symtab, variable_busy, mem_low, flibrary_busy>>
        /\ q \in Requests /\ q.op # "ILLEGAL" /\ nxt \in D \cup {0}
        /\ (q.op = "LIST" => q.u \in D \cup {0})
    BY <1>1, <1>4
  <2> HIDE DEF q, nxt, i
  <2>3. \E D2, V2, rank2, R2, B2 :
           /\ Machine(D2, V2, rank2, R2, B2)'
           /\ Plain(V2, R2, B2) = Put(Plain(V, root, Bodies), q.dst, <<ValueOf(NodeOf(q, q.u, nxt), V)>> \o V[nxt])
    BY <1>1, <2>1, <2>2, BuildMachine
  <2> HIDE DEF a
  <2> QED BY <1>5, <2>3 DEF a
<1>7. PICK D2, V2, rank2, R2, B2 :
           /\ Machine(D2, V2, rank2, R2, B2)'
           /\ Plain(V2, R2, B2) = Effect(i, a)
  BY <1>6
<1>8. Registers(V2, R2, B2)' = Effect(i, a)
  BY <1>1, <1>7 DEF Registers, Plain, NoPend
<1>9. Arrives(code', Registers(V2, R2, B2)', g)
  BY <1>1, <1>3, <1>8
<1> QED BY <1>7, <1>9 DEF Simulates

(* newnode collects first: gc1 copies its parameters with the roots.       *)
LEMMA AllocGcMachine ==
  ASSUME Side, NEW D, NEW V, NEW rank, NEW R, NEW B, NEW g,
         Machine(D, V, rank, R, B), Arrives(code, Registers(V, R, B), g), AllocGc
  PROVE  /\ \E R2, B2 : /\ Machine(D, V, rank, R2, B2)'
                        /\ Arrives(code', Registers(V, R2, B2)', g)
         /\ pend'.op # "ILLEGAL"
<1> DEFINE i == Head(code)
           q == Request(i)
           nxt == At(i.nxt)
<1>1. /\ DInv /\ gc = "off" /\ pend = NoPend /\ code # <<>> /\ StartGc
      /\ i.do \in Allocating /\ code' = Tail(code)
      /\ pend' = [q EXCEPT !.u = IF q.op = "LIST" THEN 0 ELSE @]
      /\ root' = [x \in RootSet |-> IF x = "r" THEN nxt ELSE IF x # "l" THEN root[x]
                                    ELSE IF q.op = "LIST" THEN q.u ELSE 0]
      /\ UNCHANGED <<symtab, variable_busy, flibrary_busy>>
  BY DEF Side, PendInv, AllocGc, Allocates, Allocating, symVars
<1>2. /\ TypeOK /\ Valued(memory, D, V, rank) /\ R = root /\ B = Bodies
      /\ Within(D, root, Bodies) /\ BodiesSafe(Bodies) /\ i \in Instr /\ code \in Seq(Instr)
  <2>1. /\ TypeOK /\ Valued(memory, D, V, rank) /\ R = root /\ B = Bodies /\ Within(D, root, Bodies)
        /\ BodiesSafe(Bodies)
    BY <1>1, SettledFacts
  <2> QED BY <1>1, <2>1, TailType DEF TypeOK
<1> DEFINE a == Plain(V, root, Bodies)
<1>3. Ready(i, a) /\ Arrives(Tail(code), Effect(i, a), g)
  <2>1. Arrives(code, a, g)
    BY <1>1, <1>2 DEF Registers
  <2> HIDE DEF a
  <2> QED BY <1>1, <1>2, <2>1, ArrivesTail
<1>4. /\ q \in Requests /\ q.op # "ILLEGAL" /\ q.dst = i.dst
      /\ nxt \in D \cup {0} /\ V[nxt] = ValueAtOp(i.nxt, a)
      /\ q.op = "LIST" => q.u \in D \cup {0}
      /\ ValueOf(NodeOf(q, q.u, nxt), V) = NewValue(i, a)
  BY <1>1, <1>2, <1>3, RequestRight
<1>5. Effect(i, a) = Put(a, q.dst, <<ValueOf(NodeOf(q, q.u, nxt), V)>> \o V[nxt])
  <2>1. Effect(i, a) = Put(a, i.dst, <<NewValue(i, a)>> \o ValueAtOp(i.nxt, a))
    BY <1>1, EffectAllocating
  <2> HIDE DEF a, i, q, nxt
  <2> QED BY <1>4, <2>1
<1>6. PICK R2, B2 : R2 = root' /\ B2 = Bodies
  OBVIOUS
<1> HIDE DEF q, nxt, i
<1>7. Within(D, R2, B2)
  BY <1>1, <1>2, <1>4, <1>6 DEF Within
<1>8. Machine(D, V, rank, R2, B2)'
  <2>1. DInv /\ Valued(memory, D, V, rank) /\ BodiesSafe(B2) /\ gc # "copy" /\ root' = R2 /\ B2 = Bodies
    BY <1>1, <1>2, <1>6
  <2> QED BY <1>1, <1>7, <2>1, StartGcMachine
<1>9. /\ pend'.op = q.op /\ pend'.dst = q.dst /\ pend'.len = q.len /\ pend'.u = IF q.op = "LIST" THEN 0 ELSE q.u
      /\ pend' # NoPend
  BY <1>1, <1>4 DEF Requests, NoPend
<1>10. /\ R2["r"] = nxt /\ R2["stck"] = root["stck"] /\ R2["dump"] = root["dump"]
       /\ q.op = "LIST" => R2["l"] = q.u
  <2>1. {"stck", "dump", "l", "r"} \subseteq RootSet
    BY RootNamesType
  <2> QED BY <1>1, <1>6, <2>1
<1>11. Registers(V, R2, B2)' = Effect(i, a)
  <2> DEFINE w == <<ValueOf(NodeOf(q, q.u, nxt), V)>> \o V[nxt]
  <2>1. NodeOf(pend', IF pend'.op = "LIST" THEN R2["l"] ELSE pend'.u, R2["r"]) = NodeOf(q, q.u, nxt)
    BY <1>9, <1>10 DEF NodeOf
  <2>2. Registers(V, R2, B2)' = Put(Plain(V, R2, B2), q.dst, w)
    BY <1>9, <1>10, <2>1 DEF Registers, Put, Plain, ValueOf, NodeOf, NoPend
  <2>3. Put(Plain(V, R2, B2), q.dst, w) = Put(a, q.dst, w)
    <3> HIDE DEF w
    <3> QED BY <1>6, <1>10 DEF Put, Plain, Target
  <2> QED BY <1>5, <2>2, <2>3
<1>12. Arrives(code', Registers(V, R2, B2)', g)
  BY <1>1, <1>3, <1>11 DEF i
<1> QED BY <1>4, <1>8, <1>9, <1>12

LEMMA AllocGcSimulates ==
  ASSUME Side, NEW g, Simulates(g), AllocGc
  PROVE  Simulates(g)' /\ pend'.op # "ILLEGAL"
<1>1. PICK D, V, rank, R, B : Machine(D, V, rank, R, B) /\ Arrives(code, Registers(V, R, B), g)
  BY DEF Simulates
<1>2. PICK R2, B2 : /\ Machine(D, V, rank, R2, B2)'
                    /\ Arrives(code', Registers(V, R2, B2)', g)
  BY <1>1, AllocGcMachine
<1> QED BY <1>1, <1>2, AllocGcMachine DEF Simulates

(* The node newnode was asked for is built from what gc1 left in l and r.  *)
LEMMA AllocResumeSimulates ==
  ASSUME Side, NEW g, Simulates(g), AllocResume
  PROVE  Simulates(g)'
<1>0. PICK D, V, rank, R, B : Machine(D, V, rank, R, B) /\ Arrives(code, Registers(V, R, B), g)
  BY DEF Simulates
<1> DEFINE u == IF pend.op = "LIST" THEN root["l"] ELSE pend.u
           nxt == root["r"]
<1>1. /\ DInv /\ gc = "alloc" /\ pend # NoPend /\ pend.op # "ILLEGAL"
      /\ gc' = "off" /\ pend' = NoPend /\ code' = code
      /\ Build(pend, u, nxt)
      /\ UNCHANGED <<symtab, variable_busy, mem_low, flibrary_busy>>
  BY DEF Side, PendInv, AllocResume, symVars
<1>2. /\ TypeOK /\ Valued(memory, D, V, rank) /\ R = root /\ B = Bodies
      /\ Within(D, root, Bodies)
  BY <1>0, <1>1, SettledFacts
<1>3. /\ pend \in Requests /\ u \in Nat /\ nxt \in D \cup {0}
      /\ pend.op = "LIST" => u \in D \cup {0}
  <2>1. {"l", "r"} \subseteq RootSet
    BY RootNamesType
  <2>2. pend \in Requests /\ root["l"] \in Nat
    BY <1>2, <2>1, IndexFacts DEF TypeOK
  <2> QED BY <1>2, <2>1, <2>2 DEF Within, Requests
<1> DEFINE a == Plain(V, root, Bodies)
           b == Put(a, pend.dst, <<ValueOf(NodeOf(pend, u, nxt), V)>> \o V[nxt])
<1>4. Registers(V, R, B) = b
  BY <1>1, <1>2 DEF Registers
<1>5. \E D2, V2, rank2, R2, B2 :
           /\ Machine(D2, V2, rank2, R2, B2)'
           /\ Plain(V2, R2, B2) = b
  <2>1. Machine(D, V, rank, root, Bodies) /\ gc # "copy" /\ gc' # "copy"
    BY <1>0, <1>1, <1>2
  <2> HIDE DEF u, nxt
  <2> QED BY <1>1, <1>3, <2>1, BuildMachine
<1> HIDE DEF b
<1>7. PICK D2, V2, rank2, R2, B2 :
           /\ Machine(D2, V2, rank2, R2, B2)'
           /\ Plain(V2, R2, B2) = b
  BY <1>5
<1>8. Registers(V2, R2, B2)' = b
  BY <1>1, <1>7 DEF Registers, Plain, NoPend
<1>9. Arrives(code', Registers(V2, R2, B2)', g)
  BY <1>0, <1>1, <1>4, <1>8
<1> QED BY <1>7, <1>9 DEF Simulates

(* A step that builds no node leaves the values of the nodes alone.        *)
LEMMA RestMachine ==
  ASSUME NEW D, NEW V, NEW rank, Machine(D, V, rank, root, Bodies), gc # "copy", gc' # "copy",
         memory' = memory, memoryindex' = memoryindex,
         NEW R2, NEW B2, R2 = root', B2 = Bodies', Within(D, R2, B2), BodiesSafe(B2)'
  PROVE  Machine(D, V, rank, R2, B2)'
<1>1. Valued(memory, D, V, rank) /\ D \subseteq 1 .. memoryindex - 1
  BY DEF Machine, HeapNow
<1>2. Valued(HeapNow, D, V, rank)'
  BY <1>1 DEF HeapNow, Valued, Sound
<1>3. Within(D, R2, B2)'
  BY DEF Within
<1> QED BY <1>1, <1>2, <1>3 DEF Machine

LEMMA RunSimulates ==
  ASSUME Side, Separate, NEW g, Simulates(g), Run
  PROVE  Simulates(g)'
<1> DEFINE i == Head(code)
           a(V) == Plain(V, root, Bodies)
<1>0. PICK D, V, rank, R, B : Machine(D, V, rank, R, B) /\ Arrives(code, Registers(V, R, B), g)
  BY DEF Simulates
<1>1. /\ DInv /\ gc = "off" /\ pend = NoPend /\ code # <<>> /\ gc' = "off" /\ pend' = NoPend
      /\ code' = Tail(code) /\ memory' = memory /\ memoryindex' = memoryindex
  BY DEF Side, PendInv, Run
<1>2. /\ TypeOK /\ Low /\ Valued(memory, D, V, rank) /\ R = root /\ B = Bodies
      /\ D \subseteq 1 .. memoryindex - 1 /\ memoryindex \in Nat /\ mem_low \in Nat
      /\ Within(D, root, Bodies) /\ BodiesSafe(Bodies) /\ i \in Instr /\ code \in Seq(Instr)
  <2>1. /\ TypeOK /\ Low /\ Valued(memory, D, V, rank) /\ R = root /\ B = Bodies
        /\ Within(D, root, Bodies)
        /\ D \subseteq 1 .. memoryindex - 1 /\ memoryindex \in Nat /\ mem_low \in Nat
        /\ BodiesSafe(Bodies)
    BY <1>0, <1>1, SettledFacts
  <2> QED BY <1>1, <2>1, TailType DEF TypeOK
<1>3. Ready(i, a(V)) /\ Arrives(Tail(code), Effect(i, a(V)), g)
  <2>1. Arrives(code, a(V), g)
    BY <1>0, <1>1, <1>2 DEF Registers
  <2> HIDE DEF a
  <2> QED BY <1>1, <1>2, <2>1, ArrivesTail
<1>4. PICK R2, B2 : R2 = root' /\ B2 = Bodies'
  OBVIOUS
<1>5. /\ root["stck"] \in D \cup {0} /\ root["dump"] \in D \cup {0} /\ root["l"] \in D \cup {0}
      /\ {"stck", "dump", "l", "prog"} \subseteq RootSet
      /\ \A r \in Target : r \in RootSet
      /\ root \in [RootSet -> D \cup {0}] /\ Bodies \in [Syms -> D \cup {0}]
      /\ V[0] = <<>>
  BY <1>2, RootNamesType DEF Within, Valued, Sound
<1>6. ASSUME NEW n \in D \cup {0}
      PROVE  /\ Nxt(n) \in D \cup {0} /\ V[Nxt(n)] = Rest(V[n])
             /\ Lis(n) \in D \cup {0} /\ V[Lis(n)] = InList(V[n])
  BY <1>2, ValueRest
<1>7. SUFFICES Within(D, R2, B2) /\ BodiesSafe(B2)' /\ Plain(V, R2, B2) = Effect(i, a(V))
  <2>1. ASSUME Within(D, R2, B2), BodiesSafe(B2)', Plain(V, R2, B2) = Effect(i, a(V))
        PROVE  Simulates(g)'
    <3>1. Machine(D, V, rank, R2, B2)'
      BY <1>0, <1>1, <1>2, <1>4, <2>1, RestMachine
    <3>2. Registers(V, R2, B2)' = Effect(i, a(V))
      BY <1>1, <2>1 DEF Registers, Plain, NoPend
    <3>3. Arrives(code', Registers(V, R2, B2)', g)
      BY <1>1, <1>3, <3>2
    <3> QED BY <3>1, <3>3 DEF Simulates
  <2> QED BY <2>1
<1>8. ASSUME UNCHANGED <<mem_low, flibrary_busy, symVars>>
      PROVE  B2 = Bodies /\ BodiesSafe(B2)'
  BY <1>2, <1>4, <1>8 DEF BodiesSafe, Bodies, symVars
<1>9. CASE RunPop
  <2>1. /\ i.do = "pop" /\ root' = [root EXCEPT ![i.reg] = Nxt(@)]
        /\ UNCHANGED <<mem_low, flibrary_busy, symVars>>
    BY <1>9 DEF RunPop
  <2>2. i.reg \in {"stck", "dump"}
    BY <1>2, <2>1 DEF Instr
  <2>3. Nxt(root[i.reg]) \in D \cup {0} /\ V[Nxt(root[i.reg])] = Rest(V[root[i.reg]])
    BY <1>5, <1>6, <2>2
  <2>4. B2 = Bodies /\ BodiesSafe(B2)'
    BY <1>8, <2>1
  <2>5. Within(D, R2, B2)
    BY <1>4, <1>5, <2>1, <2>3, <2>4 DEF Within
  <2>6. Plain(V, R2, B2) = Effect(i, a(V))
    <3>1. Effect(i, a(V)) = [reg     |-> [a(V).reg EXCEPT ![i.reg] = Rest(@)],
                             binding |-> a(V).binding]
      <4> HIDE DEF a, i
      <4> QED BY <2>1 DEF Effect, Allocating
    <3>2. \A r \in Target : V[R2[r]] = IF r = i.reg THEN Rest(V[root[r]]) ELSE V[root[r]]
      BY <1>4, <1>5, <2>1, <2>2, <2>3
    <3> QED BY <2>2, <2>4, <3>1, <3>2 DEF Plain, Target
  <2> QED BY <2>4, <2>5, <2>6
<1>10. CASE RunUnstack
  <2>1. /\ i.do = "unstack" /\ root' = [root EXCEPT !.stck = Lis(@)]
        /\ UNCHANGED <<mem_low, flibrary_busy, symVars>>
    BY <1>10 DEF RunUnstack
  <2>3. Lis(root["stck"]) \in D \cup {0} /\ V[Lis(root["stck"])] = InList(V[root["stck"]])
    BY <1>5, <1>6
  <2>4. B2 = Bodies /\ BodiesSafe(B2)'
    BY <1>8, <2>1
  <2>5. Within(D, R2, B2)
    BY <1>4, <1>5, <2>1, <2>3, <2>4 DEF Within
  <2>6. Plain(V, R2, B2) = Effect(i, a(V))
    <3>1. Effect(i, a(V)) = [reg     |-> [a(V).reg EXCEPT !["stck"] = InList(@)],
                             binding |-> a(V).binding]
      <4> HIDE DEF a, i
      <4> QED BY <2>1 DEF Effect, Allocating
    <3>2. \A r \in Target : V[R2[r]] = IF r = "stck" THEN InList(V[root[r]]) ELSE V[root[r]]
      BY <1>4, <1>5, <2>1, <2>3
    <3> QED BY <2>4, <3>1, <3>2 DEF Plain, Target
  <2> QED BY <2>4, <2>5, <2>6
<1>11. CASE RunAbort
  <2>1. /\ i.do = "abort" /\ root' = [root EXCEPT !.prog = 0]
        /\ UNCHANGED <<mem_low, flibrary_busy, symVars>>
    BY <1>11 DEF RunAbort
  <2>4. B2 = Bodies /\ BodiesSafe(B2)'
    BY <1>8, <2>1
  <2>5. Within(D, R2, B2)
    BY <1>4, <1>5, <2>1, <2>4 DEF Within
  <2>6. Plain(V, R2, B2) = Effect(i, a(V))
    <3>1. Effect(i, a(V)) = a(V)
      BY <2>1 DEF Effect, Allocating
    <3>2. \A r \in Target : V[R2[r]] = V[root[r]]
      BY <1>4, <1>5, <2>1 DEF Target
    <3> QED BY <2>4, <3>1, <3>2 DEF Plain
  <2> QED BY <2>4, <2>5, <2>6
<1>12. CASE RunInitMem2
  <2>1. /\ i.do = "inimem2" /\ mem_low' = memoryindex /\ flibrary_busy' = FALSE
        /\ UNCHANGED <<root, symVars>>
    BY <1>12 DEF RunInitMem2
  <2>2. R2 = root /\ B2 = Bodies
    BY <1>4, <2>1 DEF Bodies, symVars
  <2>3. BodiesSafe(B2)'
    <3>1. \A s \in Syms : B2[s] < memoryindex
      <4>1. 0 < memoryindex /\ memoryindex \in Nat /\ D \subseteq 1 .. memoryindex - 1
        BY <1>2 DEF Low
      <4>2. \A n \in D \cup {0} : n < memoryindex
        BY <4>1
      <4>3. \A s \in Syms : B2[s] \in D \cup {0}
        BY <1>5, <2>2
      <4> QED BY <4>2, <4>3
    <3> QED BY <1>2, <2>1, <2>2, <3>1 DEF BodiesSafe, symVars
  <2>4. Effect(i, a(V)) = a(V)
    BY <2>1 DEF Effect, Allocating
  <2> QED BY <1>2, <2>2, <2>3, <2>4
<1>13. CASE RunSetBody
  <2>1. /\ i.do = "body" /\ symtab' = [symtab EXCEPT ![i.sym].body = Lis(root["stck"])]
        /\ root' = [root EXCEPT !.stck = Nxt(@)]
        /\ UNCHANGED <<mem_low, flibrary_busy, variable_busy>>
    BY <1>13 DEF RunSetBody
  <2>2. i.sym \in DefSyms /\ VarSyms = {} /\ i.sym \in Syms
    <3>1. i.sym \in DefSyms
      BY <1>2, <2>1 DEF Instr, Separate
    <3> QED BY <3>1, HeapAssumption DEF Separate, Syms
  <2>3. flibrary_busy
    <3>1. ASSUME ~flibrary_busy PROVE FALSE
      <4>1. code \in Seq(QuietInstr)
        BY <3>1 DEF Side, CodeQuiet
      <4>2. i \in QuietInstr
        BY <1>1, <4>1
      <4> QED BY <2>1, <4>2 DEF QuietInstr
    <3> QED BY <3>1
  <2>4. /\ Lis(root["stck"]) \in D \cup {0} /\ V[Lis(root["stck"])] = InList(V[root["stck"]])
        /\ Nxt(root["stck"]) \in D \cup {0} /\ V[Nxt(root["stck"])] = Rest(V[root["stck"]])
    BY <1>5, <1>6
  <2>5. B2 = [Bodies EXCEPT ![i.sym] = Lis(root["stck"])]
    BY <1>2, <1>4, <2>1, <2>2 DEF Bodies, TypeOK, Entry
  <2>6. BodiesSafe(B2)'
    BY <2>1, <2>2, <2>3 DEF BodiesSafe
  <2>7. Within(D, R2, B2)
    BY <1>4, <1>5, <2>1, <2>4, <2>5 DEF Within
  <2>8. Plain(V, R2, B2) = Effect(i, a(V))
    <3>1. Effect(i, a(V)) = [reg     |-> [a(V).reg EXCEPT !["stck"] = Rest(@)],
                             binding |-> [a(V).binding EXCEPT ![i.sym] = InList(a(V).reg["stck"])]]
      BY <2>1 DEF Effect, Allocating
    <3>2. \A r \in Target : V[R2[r]] = IF r = "stck" THEN Rest(V[root[r]]) ELSE V[root[r]]
      BY <1>4, <1>5, <2>1, <2>4
    <3>3. \A s \in Syms : V[B2[s]] = IF s = i.sym THEN InList(V[root["stck"]]) ELSE V[Bodies[s]]
      BY <1>5, <2>4, <2>5
    <3> QED BY <2>2, <3>1, <3>2, <3>3 DEF Plain, Target
  <2> QED BY <2>6, <2>7, <2>8
<1>14. CASE RunSetVar
  <2>1. /\ i.do = "var"
        /\ symtab' = [symtab EXCEPT ![i.sym] =
             [body |-> root["l"], is_root |-> TRUE, is_last |-> @.is_last \/ ~variable_busy]]
        /\ variable_busy' = TRUE /\ root' = [root EXCEPT !.l = 0]
        /\ UNCHANGED <<mem_low, flibrary_busy>>
    BY <1>14 DEF RunSetVar
  <2>2. i.sym \in VarSyms /\ i.sym \in Syms /\ \A s \in VarSyms : s = i.sym
    <3>1. i.sym \in VarSyms
      BY <1>2, <2>1 DEF Instr
    <3> QED BY <3>1, HeapAssumption DEF Separate, Syms
  <2>5. B2 = [Bodies EXCEPT ![i.sym] = root["l"]]
    BY <1>2, <1>4, <2>1, <2>2 DEF Bodies, TypeOK, Entry
  <2>6. BodiesSafe(B2)'
    <3> SUFFICES ASSUME NEW s \in Syms
                 PROVE  IF s \in VarSyms THEN B2[s] = 0 \/ (variable_busy' /\ symtab'[s].is_root)
                        ELSE flibrary_busy' \/ B2[s] < mem_low'
      BY DEF BodiesSafe
    <3>1. CASE s \in VarSyms
      BY <1>2, <2>1, <2>2, <3>1 DEF TypeOK
    <3>2. CASE s \notin VarSyms
      <4>1. s # i.sym /\ B2[s] = Bodies[s]
        BY <1>5, <2>2, <2>5, <3>2
      <4> QED BY <1>2, <2>1, <3>2, <4>1 DEF BodiesSafe
    <3> QED BY <3>1, <3>2
  <2>7. Within(D, R2, B2)
    BY <1>4, <1>5, <2>1, <2>5 DEF Within
  <2>8. Plain(V, R2, B2) = Effect(i, a(V))
    <3>1. Effect(i, a(V)) = [reg     |-> [a(V).reg EXCEPT !["l"] = <<>>],
                             binding |-> [a(V).binding EXCEPT ![i.sym] = a(V).reg["l"]]]
      BY <2>1 DEF Effect, Allocating
    <3>2. \A r \in Target : V[R2[r]] = IF r = "l" THEN <<>> ELSE V[root[r]]
      BY <1>4, <1>5, <2>1
    <3>3. \A s \in Syms : V[B2[s]] = IF s = i.sym THEN V[root["l"]] ELSE V[Bodies[s]]
      BY <1>5, <2>5
    <3> QED BY <2>2, <3>1, <3>2, <3>3 DEF Plain, Target
  <2> QED BY <2>6, <2>7, <2>8
<1> QED BY <1>9, <1>10, <1>11, <1>12, <1>13, <1>14 DEF Run

(* The steps of a command, collections among them, lead to the same end.   *)
LEMMA StepSimulates ==
  ASSUME Side, Separate, NEW g, Simulates(g), Run \/ Allocate \/ GcStep
  PROVE  Simulates(g)'
<1>1. CASE Run
  BY <1>1, RunSimulates
<1>2. CASE Allocate
  BY <1>2, AllocSimulates, AllocGcSimulates, AllocResumeSimulates DEF Allocate
<1>3. CASE GcStep
  <2>0. PICK D, V, rank, R, B : Machine(D, V, rank, R, B) /\ Arrives(code, Registers(V, R, B), g)
    BY DEF Simulates
  <2>1. DInv /\ LastInv /\ PendInv
    BY DEF Side
  <2>2. code' = code
    BY <1>3 DEF GcStep, GcRoot, GcCopyNode, GcChainEnd, Gc2
  <2>3. ASSUME Machine(D, V, rank, R, B)', pend' = pend PROVE Simulates(g)'
    <3>1. Registers(V, R, B)' = Registers(V, R, B)
      BY <2>3 DEF Registers, Plain, NoPend
    <3>2. Arrives(code', Registers(V, R, B)', g)
      BY <2>0, <2>2, <3>1
    <3> QED BY <2>3, <3>2 DEF Simulates
  <2>4. CASE \E j \in 1 .. Slots : GcRoot(j)
    <3>1. PICK j \in 1 .. Slots : GcRoot(j)
      BY <2>4
    <3>2. Machine(D, V, rank, R, B)'
      BY <2>0, <2>1, <3>1, GcRootMachine
    <3>3. pend' = pend
      BY <3>1 DEF GcRoot
    <3> QED BY <2>3, <3>2, <3>3
  <2>5. CASE GcCopyNode
    <3>1. pend' = pend
      BY <2>5 DEF GcCopyNode
    <3> QED BY <2>0, <2>1, <2>3, <2>5, <3>1, GcCopyNodeMachine
  <2>6. CASE GcChainEnd
    <3>1. pend' = pend
      BY <2>6 DEF GcChainEnd
    <3> QED BY <2>0, <2>1, <2>3, <2>6, <3>1, GcChainEndMachine
  <2>7. CASE Gc2
    <3>1. PICK D2, V2, rank2, R2, B2 :
           /\ Machine(D2, V2, rank2, R2, B2)'
           /\ Registers(V2, R2, B2)' = Registers(V, R, B)
      BY <2>0, <2>1, <2>7, Gc2Step
    <3>2. Arrives(code', Registers(V2, R2, B2)', g)
      BY <2>0, <2>2, <3>1
    <3> QED BY <3>1, <3>2 DEF Simulates
  <2> QED BY <1>3, <2>4, <2>5, <2>6, <2>7 DEF GcStep
<1> QED BY <1>1, <1>2, <1>3

-----------------------------------------------------------------------------
(* What a step leaves alone besides the values.                            *)

LEMMA QuietKinds ==
  /\ Seq(CommandInstr) \subseteq Seq(QuietInstr) /\ Seq(QuietInstr) \subseteq Seq(PlainInstr)
  /\ \A s \in VarSyms : SetVar(s) \in QuietInstr
  /\ CommandInstr \subseteq QuietInstr
<1>1. CommandInstr \subseteq QuietInstr /\ QuietInstr \subseteq PlainInstr
  BY DEF CommandInstr, QuietInstr, PlainInstr
<1>2. \A s \in VarSyms : SetVar(s) \in QuietInstr
  BY InstrTypes DEF SetVar, QuietInstr
<1>3. Seq(CommandInstr) \subseteq Seq(QuietInstr) /\ Seq(QuietInstr) \subseteq Seq(PlainInstr)
  BY <1>1
<1> QED BY <1>1, <1>2, <1>3

(* A command is a quiet program, a definition or the end of a variable.    *)
LEMMA ExecuteQuiet ==
  ASSUME EmbedSyms = {}, Execute
  PROVE  \/ \E program \in Seq(QuietInstr) : Begin(program)
         \/ \E s \in VarSyms : Unassign(s)
         \/ \E s \in DefSyms, v \in Nums, quoted \in BOOLEAN : Define(s, v, quoted)
<1> DEFINE Begins == \E program \in Seq(QuietInstr) : Begin(program)
<1>0. "l" \in Target /\ "stck" \in Target /\ VarSyms \subseteq Syms
      /\ Seq(CommandInstr) \subseteq Seq(QuietInstr)
  BY HeapAssumption, QuietKinds DEF Target, Syms
<1>1. ASSUME NEW v \in Nums, PushNum(v) PROVE Begins
  <2>1. <<Lit("INTEGER", 0, v, S(0), "stck")>> \in Seq(CommandInstr)
    BY InstrKinds, HeapAssumption
  <2> QED BY <1>0, <1>1, <2>1 DEF PushNum
<1>2. ASSUME NEW k \in StrLens, PushString(k) PROVE Begins
  <2>1. <<Lit("STRING", k, 0, S(0), "stck")>> \in Seq(CommandInstr)
    BY InstrKinds, HeapAssumption
  <2> QED BY <1>0, <1>2, <2>1 DEF PushString
<1>3. ASSUME NEW b \in Builtins, Builtin(b) PROVE Begins
  BY <1>0, <1>3, CommandType DEF Builtin
<1>4. ASSUME NEW s \in VarSyms, Assign(s) PROVE Begins
  <2>1. SetVar(s) \in QuietInstr
    BY QuietKinds
  <2>2. Copy(S(0), Nil, "l") \in QuietInstr /\ Pop("stck") \in QuietInstr
    BY <1>0, QuietKinds, InstrKinds, OperandTypes
  <2>3. <<Copy(S(0), Nil, "l"), Pop("stck"), SetVar(s)>> \in Seq(QuietInstr)
    BY <2>1, <2>2
  <2> QED BY <1>4, <2>3 DEF Assign
<1>5. ASSUME NEW s \in Syms, Eval(s) PROVE Begins
  <2>1. <<Copy(Body(s), S(0), "stck")>> \in Seq(CommandInstr)
    BY <1>0, InstrKinds, OperandTypes
  <2> QED BY <1>0, <1>5, <2>1 DEF Eval
<1> QED BY <1>1, <1>2, <1>3, <1>4, <1>5 DEF Execute

LEMMA LastNext == TypeOK /\ LastInv /\ [Next]_vars => LastInv'
<1> SUFFICES ASSUME TypeOK, LastInv, [Next]_vars PROVE LastInv'
  OBVIOUS
<1>1. CASE UNCHANGED symtab
  BY <1>1 DEF LastInv
<1>2. ASSUME NEW s, NEW n, symtab' = [symtab EXCEPT ![s].body = n] PROVE LastInv'
  <2>1. \A t \in Syms : symtab'[t].is_last = symtab[t].is_last
    BY <1>2 DEF TypeOK, Entry
  <2> QED BY <2>1 DEF LastInv
<1>3. CASE Run
  <2>0. Head(code) \in Instr
    BY <1>3, TailType DEF Run
  <2>1. CASE RunSetBody
    BY <1>2, <2>1 DEF RunSetBody
  <2>2. CASE RunSetVar
    <3>1. Head(code).do = "var"
      BY <2>2 DEF RunSetVar
    <3>2. Head(code).sym \in VarSyms
      BY <2>0, <3>1 DEF Instr
    <3>3. \A t \in Syms : t # Head(code).sym => symtab'[t] = symtab[t]
      BY <2>2 DEF RunSetVar, TypeOK
    <3> QED BY <3>2, <3>3 DEF LastInv
  <2> QED BY <1>1, <1>3, <2>1, <2>2 DEF Run, RunPop, RunUnstack, RunAbort, RunInitMem2, symVars
<1>4. CASE GcStep
  <2>1. CASE GcChainEnd
    BY <1>1, <1>2, <2>1 DEF GcChainEnd
  <2> QED BY <1>1, <1>4, <2>1 DEF GcStep, GcRoot, GcCopyNode, Gc2, symVars
<1>5. CASE Allocate
  BY <1>1, <1>5 DEF Allocate, AllocFits, AllocLibrary, AllocGc, AllocResume, symVars
<1>6. CASE Execute
  <2>1. ASSUME NEW s \in VarSyms, Unassign(s) PROVE LastInv'
    <3>1. \A t \in Syms : symtab'[t].is_last = symtab[t].is_last
      BY <2>1 DEF Unassign, TypeOK, Entry
    <3> QED BY <3>1 DEF LastInv
  <2> QED BY <1>1, <1>6, <2>1, ExecuteBegins DEF Begin, Define, symVars
<1>7. CASE Collect
  BY <1>1, <1>7 DEF Collect, symVars
<1>8. CASE UNCHANGED vars
  BY <1>1, <1>8 DEF vars, symVars
<1> QED BY <1>3, <1>4, <1>5, <1>6, <1>7, <1>8 DEF Next

LEMMA PendNext ==
  ASSUME PendInv, [Next]_vars, AllocGc => pend'.op # "ILLEGAL"
  PROVE  PendInv'
<1>0. NoPend.op = "ILLEGAL"
  BY DEF NoPend
<1>1. CASE UNCHANGED <<pend, gc>>
  BY <1>1 DEF PendInv, NoPend
<1>2. CASE Allocate
  <2>1. CASE AllocGc
    BY <2>1, <1>0 DEF AllocGc, StartGc, PendInv, NoPend
  <2>2. CASE AllocResume
    BY <2>2 DEF AllocResume, PendInv, NoPend
  <2> QED BY <1>1, <1>2, <2>1, <2>2 DEF Allocate, AllocFits, AllocLibrary
<1>3. CASE GcStep
  <2>1. CASE Gc2
    BY <2>1 DEF Gc2, PendInv, NoPend
  <2> QED BY <1>1, <1>3, <2>1 DEF GcStep, GcRoot, GcCopyNode, GcChainEnd
<1>4. CASE Run
  BY <1>1, <1>4 DEF Run
<1>5. CASE Execute
  BY <1>1, <1>5, ExecuteBegins DEF Begin, Define, Unassign
<1>6. CASE Collect
  BY <1>6 DEF Collect, StartGc, PendInv, NoPend
<1>7. CASE UNCHANGED vars
  BY <1>1, <1>7 DEF vars
<1> QED BY <1>2, <1>3, <1>4, <1>5, <1>6, <1>7 DEF Next

LEMMA QuietNext ==
  ASSUME DInv, CodeQuiet, EmbedSyms = {}, [Next]_vars
  PROVE  CodeQuiet'
<1>0. TypeOK /\ CodeShape
  BY DEF DInv, TInv
<1>1. CASE UNCHANGED <<code, flibrary_busy>>
  BY <1>1 DEF CodeQuiet
<1>2. ASSUME code # <<>>, code' = Tail(code), flibrary_busy' = flibrary_busy PROVE CodeQuiet'
  <2>1. ~flibrary_busy => Tail(code) \in Seq(QuietInstr)
    BY <1>2 DEF CodeQuiet
  <2> QED BY <1>2, <2>1 DEF CodeQuiet, QuietInstr
<1>3. CASE Allocate
  BY <1>1, <1>2, <1>3
  DEF Allocate, AllocFits, AllocLibrary, AllocGc, AllocResume, Allocates
<1>4. CASE GcStep
  BY <1>1, <1>4 DEF GcStep, GcRoot, GcCopyNode, GcChainEnd, Gc2
<1>5. CASE Run
  <2>1. code # <<>> /\ code' = Tail(code)
    BY <1>5 DEF Run
  <2>2. CASE RunInitMem2
    <3>1. Tail(code) = <<>>
      BY <1>0, <2>1, <2>2, InitMem2Last DEF RunInitMem2
    <3>2. <<>> \in Seq(QuietInstr)
      OBVIOUS
    <3> QED BY <2>1, <3>1, <3>2 DEF CodeQuiet
  <2> QED BY <1>2, <1>5, <2>1, <2>2 DEF Run, RunPop, RunUnstack, RunAbort, RunSetBody, RunSetVar
<1>6. CASE Execute
  <2>1. ASSUME NEW p \in Seq(QuietInstr), Begin(p) PROVE CodeQuiet'
    BY <2>1 DEF Begin, CodeQuiet
  <2>2. ASSUME NEW s \in VarSyms, Unassign(s) PROVE CodeQuiet'
    BY <1>1, <2>2 DEF Unassign
  <2>3. ASSUME NEW s \in DefSyms, NEW v \in Nums, NEW quoted \in BOOLEAN, Define(s, v, quoted)
        PROVE  CodeQuiet'
    BY <2>3 DEF Define, CodeQuiet
  <2> QED BY <1>6, <2>1, <2>2, <2>3, ExecuteQuiet
<1>7. CASE Collect
  BY <1>1, <1>7 DEF Collect
<1>8. CASE UNCHANGED vars
  BY <1>1, <1>8 DEF vars
<1> QED BY <1>3, <1>4, <1>5, <1>6, <1>7, <1>8 DEF Next

LEMMA SideNext ==
  ASSUME Side, Separate, [Next]_vars, AllocGc => pend'.op # "ILLEGAL"
  PROVE  Side'
<1>1. DInv /\ TypeOK /\ LastInv /\ PendInv /\ CodeQuiet /\ EmbedSyms = {}
  BY DEF Side, DInv, TInv, Separate
<1> QED BY <1>1, NextDInv, LastNext, PendNext, QuietNext DEF Side

-----------------------------------------------------------------------------
(* Commands, as ValueStack describes them: p and q are what is shown       *)
(* before and after.                                                       *)

View(a) == [stack |-> a.reg["stck"], binding |-> a.binding]

BuiltinOutcome(b, s, t) ==
  LET Under(k) == SubSeq(s, k + 1, Len(s))
  IN \/ b = "dup"    /\ Len(s) > 0 /\ t = <<s[1]>> \o s
     \/ b = "over"   /\ Len(s) > 1 /\ t = <<s[2]>> \o s
     \/ b = "pop"    /\ Len(s) > 0 /\ t = Under(1)
     \/ b = "swap"   /\ Len(s) > 1 /\ t = <<s[2], s[1]>> \o Under(2)
     \/ b = "rotate" /\ Len(s) > 2 /\ t = <<s[3], s[2], s[1]>> \o Under(3)
     \/ b = "stack"  /\ t = <<Abstract!Lst(s)>> \o s
     \/ b = "list"   /\ t = <<Abstract!Lst(<<>>)>> \o s
     \/ /\ b \in {"cons", "uncons", "unstack"} /\ Len(s) > 0 /\ s[1][1] = "list"
        /\ LET l == s[1][2] IN
           \/ b = "cons"    /\ Len(s) > 1 /\ t = <<Abstract!Lst(<<s[2]>> \o l)>> \o Under(2)
           \/ b = "uncons"  /\ l # <<>> /\ t = <<Abstract!Lst(Tail(l)), Head(l)>> \o Under(1)
           \/ b = "unstack" /\ t = l

Pushed(p, t) ==
  \/ \E v \in Nums : t = <<Abstract!Num(v)>> \o p.stack
  \/ \E k \in StrLens : t = <<Abstract!Str(k)>> \o p.stack
  \/ \E b \in Builtins : BuiltinOutcome(b, p.stack, t)
  \/ \E s \in Syms : p.binding[s] # <<>> /\ t = p.binding[s] \o p.stack

Assigned(p, q) ==
  \E s \in VarSyms :
    \/ /\ p.stack # <<>> /\ q.stack = SubSeq(p.stack, 2, Len(p.stack))
       /\ q.binding = [p.binding EXCEPT ![s] = <<p.stack[1]>>]
    \/ q.stack = p.stack /\ q.binding = [p.binding EXCEPT ![s] = <<>>]

Defined(p, q) ==
  \E s \in DefSyms, v \in Abstract!Bodies :
    q.stack = <<>> /\ q.binding = [p.binding EXCEPT ![s] = <<v>>]

Outcome(p, q) ==
  \/ q = p
  \/ q.binding = p.binding /\ Pushed(p, q.stack)
  \/ Assigned(p, q)
  \/ Defined(p, q)

LEMMA OutcomeStep == Outcome(shown, shown') => [Abstract!Next]_<<shown.stack, shown.binding>>
<1> SUFFICES ASSUME Outcome(shown, shown')
             PROVE  Abstract!Next \/ UNCHANGED <<shown.stack, shown.binding>>
  OBVIOUS
<1>1. CASE shown' = shown
  BY <1>1
<1>2. CASE shown'.binding = shown.binding /\ Pushed(shown, shown'.stack)
  <2>1. CASE \E b \in Builtins : BuiltinOutcome(b, shown.stack, shown'.stack)
    <3>1. PICK b \in Builtins : BuiltinOutcome(b, shown.stack, shown'.stack)
      BY <2>1
    <3>2. Abstract!Effect(b)
      <4>1. UNCHANGED shown.binding
        BY <1>2
      <4>2. CASE b \notin {"cons", "uncons", "unstack"}
        BY <3>1, <4>1, <4>2
        DEF BuiltinOutcome, Abstract!Effect, Abstract!Push, Abstract!Becomes, Abstract!Drop
      <4>3. CASE b = "cons"
        BY <3>1, <4>1, <4>3 DEF BuiltinOutcome, Abstract!Effect, Abstract!Becomes, Abstract!Drop
      <4>4. CASE b = "uncons"
        BY <3>1, <4>1, <4>4 DEF BuiltinOutcome, Abstract!Effect, Abstract!Becomes, Abstract!Drop
      <4>5. CASE b = "unstack"
        BY <3>1, <4>1, <4>5 DEF BuiltinOutcome, Abstract!Effect, Abstract!Becomes
      <4> QED BY <4>2, <4>3, <4>4, <4>5
    <3> QED BY <3>1, <3>2 DEF Abstract!Next
  <2>2. CASE \E v \in Nums : shown'.stack = <<Abstract!Num(v)>> \o shown.stack
    BY <1>2, <2>2 DEF Abstract!Next, Abstract!Push, Abstract!Becomes
  <2>3. CASE \E k \in StrLens : shown'.stack = <<Abstract!Str(k)>> \o shown.stack
    BY <1>2, <2>3 DEF Abstract!Next, Abstract!Push, Abstract!Becomes
  <2>4. CASE \E s \in Syms : shown.binding[s] # <<>> /\ shown'.stack = shown.binding[s] \o shown.stack
    BY <1>2, <2>4 DEF Abstract!Next, Abstract!Eval, Abstract!Becomes
  <2> QED BY <1>2, <2>1, <2>2, <2>3, <2>4 DEF Pushed
<1>3. CASE Assigned(shown, shown')
  <2>1. PICK s \in VarSyms :
          \/ /\ shown.stack # <<>> /\ shown'.stack = SubSeq(shown.stack, 2, Len(shown.stack))
             /\ shown'.binding = [shown.binding EXCEPT ![s] = <<shown.stack[1]>>]
          \/ shown'.stack = shown.stack /\ shown'.binding = [shown.binding EXCEPT ![s] = <<>>]
    BY <1>3 DEF Assigned
  <2>2. Abstract!Assign(s) \/ Abstract!Unassign(s)
    BY <2>1 DEF Abstract!Assign, Abstract!Unassign, Abstract!Drop
  <2> QED BY <2>2 DEF Abstract!Next
<1>4. CASE Defined(shown, shown')
  <2>1. PICK s \in DefSyms, v \in Abstract!Bodies :
          shown'.stack = <<>> /\ shown'.binding = [shown.binding EXCEPT ![s] = <<v>>]
    BY <1>4 DEF Defined
  <2>2. Abstract!Define(s, v)
    BY <2>1 DEF Abstract!Define, Abstract!Bind
  <2> QED BY <2>2 DEF Abstract!Next
<1> QED BY <1>1, <1>2, <1>3, <1>4 DEF Outcome

(* Programs of a few instructions.                                         *)
LEMMA ArrivesOne ==
  ASSUME NEW i, NEW a, Ready(i, a)
  PROVE  Arrives(<<i>>, a, Effect(i, a))
<1>1. PICK b : b = Effect(i, a)
  OBVIOUS
<1> DEFINE t == <<a, b>>
<1>2. t[1] = a /\ t[Len(<<i>>) + 1] = b
  OBVIOUS
<1>3. \A k \in 1 .. Len(<<i>>) : <<i>>[k] = i /\ t[k] = a /\ t[k + 1] = b
  OBVIOUS
<1> HIDE DEF t
<1> QED BY <1>1, <1>2, <1>3 DEF Arrives

LEMMA ArrivesTwo ==
  ASSUME NEW i, NEW j, NEW a, NEW b, NEW c,
         Ready(i, a), b = Effect(i, a), Ready(j, b), c = Effect(j, b)
  PROVE  Arrives(<<i, j>>, a, c)
<1> DEFINE t == <<a, b, c>>
           p == <<i, j>>
<1>1. Len(p) = 2 /\ t[1] = a /\ t[Len(p) + 1] = c
  OBVIOUS
<1>2. \A k \in 1 .. 2 : \/ p[k] = i /\ t[k] = a /\ t[k + 1] = b
                        \/ p[k] = j /\ t[k] = b /\ t[k + 1] = c
  OBVIOUS
<1> HIDE DEF t, p
<1>3. Arrives(p, a, c)
  BY <1>1, <1>2 DEF Arrives
<1> QED BY <1>3 DEF p

LEMMA ArrivesThree ==
  ASSUME NEW i, NEW j, NEW k, NEW a, NEW b, NEW c, NEW d,
         Ready(i, a), b = Effect(i, a), Ready(j, b), c = Effect(j, b),
         Ready(k, c), d = Effect(k, c)
  PROVE  Arrives(<<i, j, k>>, a, d)
<1> DEFINE t == <<a, b, c, d>>
           p == <<i, j, k>>
<1>1. Len(p) = 3 /\ t[1] = a /\ t[Len(p) + 1] = d
  OBVIOUS
<1>2. \A n \in 1 .. 3 : \/ p[n] = i /\ t[n] = a /\ t[n + 1] = b
                        \/ p[n] = j /\ t[n] = b /\ t[n + 1] = c
                        \/ p[n] = k /\ t[n] = c /\ t[n + 1] = d
  OBVIOUS
<1> HIDE DEF t, p
<1>3. Arrives(p, a, d)
  BY <1>1, <1>2 DEF Arrives
<1> QED BY <1>3 DEF p

LEMMA ArrivesFour ==
  ASSUME NEW i, NEW j, NEW k, NEW l, NEW a, NEW b, NEW c, NEW d, NEW e,
         Ready(i, a), b = Effect(i, a), Ready(j, b), c = Effect(j, b),
         Ready(k, c), d = Effect(k, c), Ready(l, d), e = Effect(l, d)
  PROVE  Arrives(<<i, j, k, l>>, a, e)
<1> DEFINE t == <<a, b, c, d, e>>
           p == <<i, j, k, l>>
<1>1. Len(p) = 4 /\ t[1] = a /\ t[Len(p) + 1] = e
  OBVIOUS
<1>2. \A n \in 1 .. 4 : \/ p[n] = i /\ t[n] = a /\ t[n + 1] = b
                        \/ p[n] = j /\ t[n] = b /\ t[n + 1] = c
                        \/ p[n] = k /\ t[n] = c /\ t[n + 1] = d
                        \/ p[n] = l /\ t[n] = d /\ t[n + 1] = e
  OBVIOUS
<1> HIDE DEF t, p
<1>3. Arrives(p, a, e)
  BY <1>1, <1>2 DEF Arrives
<1> QED BY <1>3 DEF p

LEMMA ArrivesFive ==
  ASSUME NEW i, NEW j, NEW k, NEW l, NEW m, NEW a, NEW b, NEW c, NEW d, NEW e, NEW f,
         Ready(i, a), b = Effect(i, a), Ready(j, b), c = Effect(j, b),
         Ready(k, c), d = Effect(k, c), Ready(l, d), e = Effect(l, d),
         Ready(m, e), f = Effect(m, e)
  PROVE  Arrives(<<i, j, k, l, m>>, a, f)
<1> DEFINE t == <<a, b, c, d, e, f>>
           p == <<i, j, k, l, m>>
<1>1. Len(p) = 5 /\ t[1] = a /\ t[Len(p) + 1] = f
  OBVIOUS
<1>2. \A n \in 1 .. 5 : \/ p[n] = i /\ t[n] = a /\ t[n + 1] = b
                        \/ p[n] = j /\ t[n] = b /\ t[n + 1] = c
                        \/ p[n] = k /\ t[n] = c /\ t[n + 1] = d
                        \/ p[n] = l /\ t[n] = d /\ t[n + 1] = e
                        \/ p[n] = m /\ t[n] = e /\ t[n + 1] = f
  OBVIOUS
<1> HIDE DEF t, p
<1>3. Arrives(p, a, f)
  BY <1>1, <1>2 DEF Arrives
<1> QED BY <1>3 DEF p

(* The next value, and what is below it.                                   *)
LEMMA RestRight ==
  ASSUME NEW T, NEW s \in Seq(T)
  PROVE  /\ Rest(s) \in Seq(T)
         /\ Rest(s) # <<>> <=> Len(s) > 1
         /\ Len(s) > 1 => Rest(s)[1] = s[2]
         /\ Rest(s) = SubSeq(s, 2, Len(s))
<1>1. CASE s = <<>>
  <2>1. SubSeq(s, 2, Len(s)) = <<>>
    BY <1>1
  <2> QED BY <1>1, <2>1 DEF Rest
<1>2. CASE s # <<>>
  <2>1. Rest(s) = Tail(s) /\ Tail(s) \in Seq(T) /\ Len(Tail(s)) = Len(s) - 1 /\ Len(s) \in Nat \ {0}
        /\ \A k \in 1 .. Len(s) - 1 : Tail(s)[k] = s[k + 1]
    BY <1>2 DEF Rest
  <2>2. SubSeq(s, 2, Len(s)) \in Seq(T) /\ Len(SubSeq(s, 2, Len(s))) = Len(s) - 1
        /\ \A k \in 1 .. Len(s) - 1 : SubSeq(s, 2, Len(s))[k] = s[k + 1]
    BY <2>1
  <2>3. Tail(s) = SubSeq(s, 2, Len(s))
    BY <2>1, <2>2, SeqEqual
  <2>4. Tail(s) # <<>> <=> Len(s) > 1
    BY <2>1
  <2> QED BY <2>1, <2>3, <2>4
<1> QED BY <1>1, <1>2

LEMMA SubSeqRest ==
  ASSUME NEW T, NEW s \in Seq(T), NEW k \in 1 .. 3, NEW u, u = SubSeq(s, k, Len(s))
  PROVE  SubSeq(u, 2, Len(u)) = SubSeq(s, k + 1, Len(s))
<1> DEFINE n == IF k > Len(s) THEN 0 ELSE Len(s) - k + 1
           m == IF k + 1 > Len(s) THEN 0 ELSE Len(s) - k
<1>1. u \in Seq(T) /\ Len(u) = n /\ \A i \in 1 .. n : u[i] = s[k + i - 1]
  OBVIOUS
<1>2. /\ SubSeq(s, k + 1, Len(s)) \in Seq(T) /\ Len(SubSeq(s, k + 1, Len(s))) = m
      /\ \A i \in 1 .. m : SubSeq(s, k + 1, Len(s))[i] = s[k + i]
  OBVIOUS
<1>3. /\ SubSeq(u, 2, Len(u)) \in Seq(T) /\ Len(SubSeq(u, 2, Len(u))) = m
      /\ \A i \in 1 .. m : SubSeq(u, 2, Len(u))[i] = u[i + 1]
  BY <1>1
<1>4. \A i \in 1 .. m : u[i + 1] = s[k + i]
  BY <1>1
<1> HIDE DEF n, m
<1> QED BY <1>2, <1>3, <1>4, SeqEqual

LEMMA AfterRight ==
  ASSUME NEW T, NEW s \in Seq(T)
  PROVE  /\ Rest(s) \in Seq(T) /\ Rest(Rest(s)) \in Seq(T) /\ Rest(Rest(Rest(s))) \in Seq(T)
         /\ s # <<>> <=> Len(s) > 0
         /\ Rest(s) # <<>> <=> Len(s) > 1
         /\ Rest(Rest(s)) # <<>> <=> Len(s) > 2
         /\ Len(s) > 1 => Rest(s)[1] = s[2]
         /\ Len(s) > 2 => Rest(Rest(s))[1] = s[3]
         /\ Rest(s) = SubSeq(s, 2, Len(s))
         /\ Rest(Rest(s)) = SubSeq(s, 3, Len(s))
         /\ Rest(Rest(Rest(s))) = SubSeq(s, 4, Len(s))
<1> DEFINE u == Rest(s)
           v == Rest(Rest(s))
<1>1. /\ u \in Seq(T) /\ (u # <<>> <=> Len(s) > 1) /\ (Len(s) > 1 => u[1] = s[2])
      /\ u = SubSeq(s, 2, Len(s))
  BY RestRight
<1>2. /\ v \in Seq(T) /\ (v # <<>> <=> Len(u) > 1) /\ (Len(u) > 1 => v[1] = u[2])
      /\ v = SubSeq(u, 2, Len(u))
  <2> HIDE DEF u
  <2> QED BY <1>1, RestRight DEF u
<1>3. Rest(v) \in Seq(T) /\ Rest(v) = SubSeq(v, 2, Len(v))
  <2> HIDE DEF v
  <2> QED BY <1>2, RestRight
<1>4. Len(u) = IF s = <<>> THEN 0 ELSE Len(s) - 1
  BY <1>1
<1>5. Len(v) = IF u = <<>> THEN 0 ELSE Len(u) - 1
  <2> HIDE DEF u, v
  <2> QED BY <1>1, <1>2
<1>6. v = SubSeq(s, 3, Len(s))
  <2> HIDE DEF u, v
  <2> QED BY <1>1, <1>2, SubSeqRest
<1>7. Rest(v) = SubSeq(s, 4, Len(s))
  <2> HIDE DEF u, v
  <2> QED BY <1>3, <1>6, SubSeqRest
<1>8. Len(u) > 1 => u[2] = s[3]
  <2> HIDE DEF u, v
  <2> QED BY <1>1, <1>4
<1>9. Len(u) > 1 <=> Len(s) > 2
  <2> HIDE DEF u, v
  <2> QED BY <1>4
<1> QED BY <1>1, <1>2, <1>3, <1>6, <1>7, <1>8, <1>9

(* x put on the chain w, and the first of w.                               *)
On(x, w) == <<x>> \o w
Top(w)   == w[1]

LEMMA OnTwo ==
  ASSUME NEW T, NEW s \in Seq(T), NEW x, NEW y
  PROVE  On(x, On(y, s)) = <<x, y>> \o s
<1> DEFINE U == T \cup {x, y}
           b == <<y>> \o s
           c == <<x>> \o b
           d == <<x, y>> \o s
<1>1. /\ s \in Seq(U) /\ Len(s) \in Nat
      /\ b \in Seq(U) /\ Len(b) = 1 + Len(s) /\ b[1] = y /\ \A i \in 2 .. Len(s) + 1 : b[i] = s[i - 1]
  OBVIOUS
<1>2. /\ d \in Seq(U) /\ Len(d) = 2 + Len(s) /\ d[1] = x /\ d[2] = y
      /\ \A i \in 3 .. Len(s) + 2 : d[i] = s[i - 2]
  OBVIOUS
<1>3. /\ c \in Seq(U) /\ Len(c) = 2 + Len(s) /\ c[1] = x /\ \A i \in 2 .. Len(s) + 2 : c[i] = b[i - 1]
  <2> HIDE DEF b
  <2> QED BY <1>1
<1>4. c = d
  <2> HIDE DEF U, b, c, d
  <2>1. c[2] = y
    <3>1. 2 \in 2 .. Len(s) + 2 /\ 2 - 1 = 1
      BY <1>1
    <3> QED BY <1>1, <1>3, <3>1
  <2>2. ASSUME NEW i \in 3 .. Len(s) + 2 PROVE c[i] = d[i]
    <3>1. i \in 2 .. Len(s) + 2 /\ i - 1 \in 2 .. Len(s) + 1 /\ i - 1 - 1 = i - 2
      BY <1>1
    <3> QED BY <1>1, <1>2, <1>3, <3>1
  <2>3. \A i \in 1 .. Len(c) : c[i] = d[i]
    <3>1. \A i \in 1 .. Len(c) : i = 1 \/ i = 2 \/ i \in 3 .. Len(s) + 2
      BY <1>1, <1>3
    <3> QED BY <1>2, <1>3, <2>1, <2>2, <3>1
  <2>4. Len(c) = Len(d) /\ c \in Seq(U) /\ d \in Seq(U)
    BY <1>2, <1>3
  <2> QED BY <2>3, <2>4, SeqEqual
<1> QED BY <1>4 DEF On

LEMMA OnThree ==
  ASSUME NEW T, NEW s \in Seq(T), NEW x, NEW y, NEW z
  PROVE  On(x, On(y, On(z, s))) = <<x, y, z>> \o s
<1> DEFINE U == T \cup {x, y, z}
           e == <<z>> \o s
           f == <<y>> \o e
           h == <<x>> \o f
           k == <<x, y, z>> \o s
<1>1. s \in Seq(U) /\ Len(s) \in Nat
  OBVIOUS
<1>5. /\ e \in Seq(U) /\ Len(e) = 1 + Len(s) /\ e[1] = z /\ \A i \in 2 .. Len(s) + 1 : e[i] = s[i - 1]
  OBVIOUS
<1>6. /\ f \in Seq(U) /\ Len(f) = 2 + Len(s) /\ f[1] = y /\ \A i \in 2 .. Len(s) + 2 : f[i] = e[i - 1]
  <2> HIDE DEF e
  <2> QED BY <1>1, <1>5
<1>7. /\ h \in Seq(U) /\ Len(h) = 3 + Len(s) /\ h[1] = x /\ \A i \in 2 .. Len(s) + 3 : h[i] = f[i - 1]
  <2> HIDE DEF f
  <2> QED BY <1>1, <1>6
<1>8. /\ k \in Seq(U) /\ Len(k) = 3 + Len(s) /\ k[1] = x /\ k[2] = y /\ k[3] = z
      /\ \A i \in 4 .. Len(s) + 3 : k[i] = s[i - 3]
  OBVIOUS
<1>9. h = k
  <2> HIDE DEF U, e, f, h, k
  <2>1. h[2] = y /\ h[3] = z
    <3>1. 2 \in 2 .. Len(s) + 3 /\ 3 \in 2 .. Len(s) + 3 /\ 2 \in 2 .. Len(s) + 2
          /\ 2 - 1 = 1 /\ 3 - 1 = 2
      BY <1>1
    <3>2. h[2] = f[1] /\ h[3] = f[2] /\ f[2] = e[1]
      BY <1>6, <1>7, <3>1
    <3> QED BY <1>5, <1>6, <3>2
  <2>2. ASSUME NEW i \in 4 .. Len(s) + 3 PROVE h[i] = k[i]
    <3>1. /\ i \in 2 .. Len(s) + 3 /\ i - 1 \in 2 .. Len(s) + 2 /\ i - 1 - 1 \in 2 .. Len(s) + 1
          /\ i - 1 - 1 - 1 = i - 3
      BY <1>1
    <3>2. h[i] = f[i - 1] /\ f[i - 1] = e[i - 1 - 1] /\ e[i - 1 - 1] = s[i - 1 - 1 - 1]
      BY <1>5, <1>6, <1>7, <3>1
    <3> QED BY <1>8, <3>1, <3>2
  <2>3. \A i \in 1 .. Len(h) : h[i] = k[i]
    <3>1. \A i \in 1 .. Len(h) : i = 1 \/ i = 2 \/ i = 3 \/ i \in 4 .. Len(s) + 3
      BY <1>1, <1>7
    <3> QED BY <1>7, <1>8, <2>1, <2>2, <3>1
  <2>4. Len(h) = Len(k) /\ h \in Seq(U) /\ k \in Seq(U)
    BY <1>7, <1>8
  <2> QED BY <2>3, <2>4, SeqEqual
<1> QED BY <1>9 DEF On

LEMMA OnNone == ASSUME NEW x PROVE On(x, <<>>) = <<x>>
BY DEF On

(* The registers one by one: the stack, the dump and the parameter l.      *)
Regs(s, d, l, f) ==
  [reg     |-> [r \in Target |-> IF r = "stck" THEN s ELSE IF r = "dump" THEN d ELSE l],
   binding |-> f]

LEMMA RegsFacts ==
  ASSUME NEW s, NEW d, NEW l, NEW f
  PROVE  LET a == Regs(s, d, l, f) IN
         /\ a.reg["stck"] = s /\ a.reg["dump"] = d /\ a.reg["l"] = l /\ a.binding = f
         /\ View(a) = [stack |-> s, binding |-> f]
         /\ \A q : /\ Put(a, "stck", q) = Regs(q, d, <<>>, f)
                   /\ Put(a, "dump", q) = Regs(s, q, <<>>, f)
                   /\ Put(a, "l", q) = Regs(s, d, q, f)
BY DEF Regs, View, Put, Target

LEMMA OperandValues ==
  ASSUME NEW s, NEW d, NEW l, NEW f
  PROVE  LET a == Regs(s, d, l, f) IN
         /\ ValueAtOp(S(0), a) = s /\ ValueAtOp(S(1), a) = Rest(s)
         /\ ValueAtOp(S(2), a) = Rest(Rest(s)) /\ ValueAtOp(S(3), a) = Rest(Rest(Rest(s)))
         /\ ValueAtOp(Below(0), a) = InList(s)
         /\ ValueAtOp(Saved(0), a) = InList(d) /\ ValueAtOp(Saved(1), a) = Rest(InList(d))
         /\ ValueAtOp(Saved(2), a) = Rest(Rest(InList(d)))
         /\ ValueAtOp(First(0), a) = InList(InList(d))
         /\ ValueAtOp(First(1), a) = Rest(InList(InList(d)))
         /\ ValueAtOp(Dump, a) = d /\ ValueAtOp(Temp, a) = l /\ ValueAtOp(Nil, a) = <<>>
         /\ \A x \in Syms : ValueAtOp(Body(x), a) = f[x]
<1> DEFINE a == Regs(s, d, l, f)
<1>1. a.reg["stck"] = s /\ a.reg["dump"] = d /\ a.reg["l"] = l /\ a.binding = f
  BY RegsFacts
<1> HIDE DEF a
<1>2. /\ ValueAtOp(S(0), a) = s /\ ValueAtOp(S(1), a) = Rest(s)
      /\ ValueAtOp(S(2), a) = Rest(Rest(s)) /\ ValueAtOp(S(3), a) = Rest(Rest(Rest(s)))
      /\ ValueAtOp(Below(0), a) = InList(s)
  BY <1>1 DEF ValueAtOp, S, Below, After
<1>3. /\ ValueAtOp(Saved(0), a) = InList(d) /\ ValueAtOp(Saved(1), a) = Rest(InList(d))
      /\ ValueAtOp(Saved(2), a) = Rest(Rest(InList(d)))
      /\ ValueAtOp(First(0), a) = InList(InList(d))
      /\ ValueAtOp(First(1), a) = Rest(InList(InList(d)))
  BY <1>1 DEF ValueAtOp, Saved, First, After
<1>4. /\ ValueAtOp(Dump, a) = d /\ ValueAtOp(Temp, a) = l /\ ValueAtOp(Nil, a) = <<>>
      /\ \A x \in Syms : ValueAtOp(Body(x), a) = f[x]
  BY <1>1 DEF ValueAtOp, Dump, Temp, Nil, Body
<1> QED BY <1>2, <1>3, <1>4 DEF a

LEMMA CopyEffect ==
  ASSUME NEW o, NEW n, NEW dst, NEW a
  PROVE  /\ Effect(Copy(o, n, dst), a) = Put(a, dst, <<ValueAtOp(o, a)[1]>> \o ValueAtOp(n, a))
         /\ Ready(Copy(o, n, dst), a) <=> ValueAtOp(o, a) # <<>>
<1> DEFINE i == Copy(o, n, dst)
<1>1. i.do = "copy" /\ i.src = o /\ i.nxt = n /\ i.dst = dst
  BY DEF Copy
<1> HIDE DEF i
<1>2. NewValue(i, a) = ValueAtOp(o, a)[1]
  BY <1>1 DEF NewValue
<1>3. Effect(i, a) = Put(a, i.dst, <<NewValue(i, a)>> \o ValueAtOp(i.nxt, a))
  BY <1>1, EffectAllocating DEF Allocating
<1>4. Ready(i, a) <=> ValueAtOp(o, a) # <<>>
  BY <1>1 DEF Ready
<1> QED BY <1>1, <1>2, <1>3, <1>4 DEF i

LEMMA ListEffect ==
  ASSUME NEW o, NEW n, NEW dst, NEW a
  PROVE  /\ Effect(List(o, n, dst), a) = Put(a, dst, << <<"list", ValueAtOp(o, a)>> >> \o ValueAtOp(n, a))
         /\ Ready(List(o, n, dst), a)
<1> DEFINE i == List(o, n, dst)
<1>1. i.do = "list" /\ i.src = o /\ i.nxt = n /\ i.dst = dst
  BY DEF List
<1> HIDE DEF i
<1>2. NewValue(i, a) = <<"list", ValueAtOp(o, a)>>
  BY <1>1 DEF NewValue
<1>3. Effect(i, a) = Put(a, i.dst, <<NewValue(i, a)>> \o ValueAtOp(i.nxt, a))
  BY <1>1, EffectAllocating DEF Allocating
<1>4. Ready(i, a)
  BY <1>1 DEF Ready
<1> QED BY <1>1, <1>2, <1>3, <1>4 DEF i

LEMMA LitEffect ==
  ASSUME NEW op \in {"INTEGER", "STRING"}, NEW len, NEW u, NEW n, NEW dst, NEW a
  PROVE  /\ Effect(Lit(op, len, u, n, dst), a)
              = Put(a, dst, <<IF op = "INTEGER" THEN <<"num", u>> ELSE <<"str", len>> >> \o ValueAtOp(n, a))
         /\ Ready(Lit(op, len, u, n, dst), a)
<1> DEFINE i == Lit(op, len, u, n, dst)
<1>1. i.do = "lit" /\ i.op = op /\ i.len = len /\ i.u = u /\ i.nxt = n /\ i.dst = dst
  BY DEF Lit
<1> HIDE DEF i
<1>2. NewValue(i, a) = IF op = "INTEGER" THEN <<"num", u>> ELSE <<"str", len>>
  BY <1>1 DEF NewValue
<1>3. Effect(i, a) = Put(a, i.dst, <<NewValue(i, a)>> \o ValueAtOp(i.nxt, a))
  BY <1>1, EffectAllocating DEF Allocating
<1>4. Ready(i, a)
  BY <1>1 DEF Ready
<1> QED BY <1>1, <1>2, <1>3, <1>4 DEF i

LEMMA OtherEffects ==
  ASSUME NEW s, NEW d, NEW l, NEW f
  PROVE  LET a == Regs(s, d, l, f) IN
         /\ Effect(Pop("stck"), a) = Regs(Rest(s), d, l, f) /\ Ready(Pop("stck"), a)
         /\ Effect(Pop("dump"), a) = Regs(s, Rest(d), l, f) /\ Ready(Pop("dump"), a)
         /\ Effect(Unstack, a) = Regs(InList(s), d, l, f) /\ Ready(Unstack, a)
         /\ Effect(Abort, a) = a /\ Ready(Abort, a)
         /\ Effect(InitMem2, a) = a /\ Ready(InitMem2, a)
         /\ \A x : /\ Effect(SetBody(x), a) = Regs(Rest(s), d, l, [f EXCEPT ![x] = InList(s)])
                   /\ Ready(SetBody(x), a)
         /\ \A x : /\ Effect(SetVar(x), a) = Regs(s, d, <<>>, [f EXCEPT ![x] = l])
                   /\ Ready(SetVar(x), a)
<1> DEFINE a == Regs(s, d, l, f)
<1>1. /\ Effect(Pop("stck"), a) = [reg |-> [a.reg EXCEPT !["stck"] = Rest(@)], binding |-> a.binding]
      /\ Effect(Pop("dump"), a) = [reg |-> [a.reg EXCEPT !["dump"] = Rest(@)], binding |-> a.binding]
      /\ Effect(Unstack, a) = [reg |-> [a.reg EXCEPT !["stck"] = InList(@)], binding |-> a.binding]
      /\ Effect(Abort, a) = a /\ Effect(InitMem2, a) = a
  <2> HIDE DEF a
  <2> QED BY DEF Effect, Allocating, Pop, Unstack, Abort, InitMem2
<1>2. ASSUME NEW x
      PROVE  /\ Effect(SetBody(x), a) = [reg     |-> [a.reg EXCEPT !["stck"] = Rest(@)],
                                         binding |-> [a.binding EXCEPT ![x] = InList(a.reg["stck"])]]
             /\ Effect(SetVar(x), a) = [reg     |-> [a.reg EXCEPT !["l"] = <<>>],
                                        binding |-> [a.binding EXCEPT ![x] = a.reg["l"]]]
  <2> HIDE DEF a
  <2> QED BY DEF Effect, Allocating, SetBody, SetVar
<1>3. /\ Ready(Pop("stck"), a) /\ Ready(Pop("dump"), a) /\ Ready(Unstack, a) /\ Ready(Abort, a)
      /\ Ready(InitMem2, a) /\ \A x : Ready(SetBody(x), a) /\ Ready(SetVar(x), a)
  BY DEF Ready, Pop, Unstack, Abort, InitMem2, SetBody, SetVar
<1>4. /\ [a.reg EXCEPT !["stck"] = Rest(@)] = Regs(Rest(s), d, l, f).reg
      /\ [a.reg EXCEPT !["dump"] = Rest(@)] = Regs(s, Rest(d), l, f).reg
      /\ [a.reg EXCEPT !["stck"] = InList(@)] = Regs(InList(s), d, l, f).reg
      /\ [a.reg EXCEPT !["l"] = <<>>] = Regs(s, d, <<>>, f).reg
      /\ a.binding = f /\ a.reg["stck"] = s /\ a.reg["l"] = l
  BY DEF Regs, Target
<1>5. \A s2, d2, l2, f2, f3 : Regs(s2, d2, l2, f3) = [reg |-> Regs(s2, d2, l2, f2).reg, binding |-> f3]
  BY DEF Regs
<1> HIDE DEF a
<1>6. /\ Effect(Pop("stck"), a) = Regs(Rest(s), d, l, f)
      /\ Effect(Pop("dump"), a) = Regs(s, Rest(d), l, f)
      /\ Effect(Unstack, a) = Regs(InList(s), d, l, f)
  BY <1>1, <1>4, <1>5
<1>7. ASSUME NEW x
      PROVE  /\ Effect(SetBody(x), a) = Regs(Rest(s), d, l, [f EXCEPT ![x] = InList(s)])
             /\ Effect(SetVar(x), a) = Regs(s, d, <<>>, [f EXCEPT ![x] = l])
  <2>1. Effect(SetBody(x), a) = [reg |-> Regs(Rest(s), d, l, f).reg, binding |-> [f EXCEPT ![x] = InList(s)]]
    BY <1>2, <1>4
  <2>2. Effect(SetVar(x), a) = [reg |-> Regs(s, d, <<>>, f).reg, binding |-> [f EXCEPT ![x] = l]]
    BY <1>2, <1>4
  <2>3. Regs(Rest(s), d, l, [f EXCEPT ![x] = InList(s)])
          = [reg |-> Regs(Rest(s), d, l, f).reg, binding |-> [f EXCEPT ![x] = InList(s)]]
    BY DEF Regs
  <2>4. Regs(s, d, <<>>, [f EXCEPT ![x] = l])
          = [reg |-> Regs(s, d, <<>>, f).reg, binding |-> [f EXCEPT ![x] = l]]
    BY DEF Regs
  <2> QED BY <2>1, <2>2, <2>3, <2>4
<1> QED BY <1>1, <1>3, <1>6, <1>7 DEF a

LEMMA SaveEffect ==
  ASSUME NEW s, NEW d, NEW l, NEW f
  PROVE  /\ Effect(SAVESTACK, Regs(s, d, l, f)) = Regs(s, << <<"list", s>> >> \o d, <<>>, f)
         /\ Ready(SAVESTACK, Regs(s, d, l, f))
BY ListEffect, OperandValues, RegsFacts DEF SAVESTACK

(* Instruction i takes the values a to the values b.                       *)
Gives(i, a, b) == Ready(i, a) /\ Effect(i, a) = b

LEMMA GivesOne ==
  ASSUME NEW i, NEW a, NEW b, Gives(i, a, b)
  PROVE  Arrives(<<i>>, a, b)
BY ArrivesOne DEF Gives

LEMMA GivesTwo ==
  ASSUME NEW i, NEW j, NEW a, NEW b, NEW c, Gives(i, a, b), Gives(j, b, c)
  PROVE  Arrives(<<i, j>>, a, c)
<1>1. Ready(i, a) /\ b = Effect(i, a) /\ Ready(j, b) /\ c = Effect(j, b)
  BY DEF Gives
<1> QED BY <1>1, ArrivesTwo

LEMMA GivesFour ==
  ASSUME NEW i, NEW j, NEW k, NEW l, NEW a, NEW b, NEW c, NEW d, NEW e,
         Gives(i, a, b), Gives(j, b, c), Gives(k, c, d), Gives(l, d, e)
  PROVE  Arrives(<<i, j, k, l>>, a, e)
<1>1. /\ Ready(i, a) /\ b = Effect(i, a) /\ Ready(j, b) /\ c = Effect(j, b)
      /\ Ready(k, c) /\ d = Effect(k, c) /\ Ready(l, d) /\ e = Effect(l, d)
  BY DEF Gives
<1> QED BY <1>1, ArrivesFour

LEMMA GivesFive ==
  ASSUME NEW i, NEW j, NEW k, NEW l, NEW m, NEW a, NEW b, NEW c, NEW d, NEW e, NEW f,
         Gives(i, a, b), Gives(j, b, c), Gives(k, c, d), Gives(l, d, e), Gives(m, e, f)
  PROVE  Arrives(<<i, j, k, l, m>>, a, f)
<1>1. /\ Ready(i, a) /\ b = Effect(i, a) /\ Ready(j, b) /\ c = Effect(j, b)
      /\ Ready(k, c) /\ d = Effect(k, c) /\ Ready(l, d) /\ e = Effect(l, d)
      /\ Ready(m, e) /\ f = Effect(m, e)
  BY DEF Gives
<1> QED BY <1>1, ArrivesFive

(* Copy and List as steps onto the stack and onto l.                       *)
LEMMA CopyStep ==
  ASSUME NEW s, NEW d, NEW l, NEW f, NEW o, NEW n, NEW v, NEW w, NEW q, v # <<>>,
         ValueAtOp(o, Regs(s, d, l, f)) = v, ValueAtOp(n, Regs(s, d, l, f)) = w, q = On(Top(v), w)
  PROVE  /\ Gives(Copy(o, n, "stck"), Regs(s, d, l, f), Regs(q, d, <<>>, f))
         /\ Gives(Copy(o, n, "l"), Regs(s, d, l, f), Regs(s, d, q, f))
<1> DEFINE a == Regs(s, d, l, f)
<1>1. Put(a, "stck", q) = Regs(q, d, <<>>, f) /\ Put(a, "l", q) = Regs(s, d, q, f)
  BY RegsFacts
<1>2. ValueAtOp(o, a) = v /\ ValueAtOp(n, a) = w
  OBVIOUS
<1> HIDE DEF a
<1>3. q = <<v[1]>> \o w
  BY DEF On, Top
<1>4. \A dst : Effect(Copy(o, n, dst), a) = Put(a, dst, <<ValueAtOp(o, a)[1]>> \o ValueAtOp(n, a))
               /\ (Ready(Copy(o, n, dst), a) <=> ValueAtOp(o, a) # <<>>)
  BY CopyEffect
<1>5. \A dst : Effect(Copy(o, n, dst), a) = Put(a, dst, q) /\ Ready(Copy(o, n, dst), a)
  BY <1>2, <1>3, <1>4
<1>6. /\ Gives(Copy(o, n, "stck"), a, Regs(q, d, <<>>, f))
      /\ Gives(Copy(o, n, "l"), a, Regs(s, d, q, f))
  BY <1>1, <1>5 DEF Gives
<1> QED BY <1>6 DEF a

LEMMA ListStep ==
  ASSUME NEW s, NEW d, NEW l, NEW f, NEW o, NEW n, NEW v, NEW w, NEW q,
         ValueAtOp(o, Regs(s, d, l, f)) = v, ValueAtOp(n, Regs(s, d, l, f)) = w,
         q = On(<<"list", v>>, w)
  PROVE  /\ Gives(List(o, n, "stck"), Regs(s, d, l, f), Regs(q, d, <<>>, f))
         /\ Gives(List(o, n, "dump"), Regs(s, d, l, f), Regs(s, q, <<>>, f))
<1> DEFINE a == Regs(s, d, l, f)
<1>1. Put(a, "stck", q) = Regs(q, d, <<>>, f) /\ Put(a, "dump", q) = Regs(s, q, <<>>, f)
  BY RegsFacts
<1>2. ValueAtOp(o, a) = v /\ ValueAtOp(n, a) = w
  OBVIOUS
<1> HIDE DEF a
<1>3. q = << <<"list", v>> >> \o w
  BY DEF On
<1>4. \A dst : Effect(List(o, n, dst), a) = Put(a, dst, << <<"list", ValueAtOp(o, a)>> >> \o ValueAtOp(n, a))
               /\ Ready(List(o, n, dst), a)
  BY ListEffect
<1>5. \A dst : Effect(List(o, n, dst), a) = Put(a, dst, q) /\ Ready(List(o, n, dst), a)
  BY <1>2, <1>3, <1>4
<1>6. /\ Gives(List(o, n, "stck"), a, Regs(q, d, <<>>, f))
      /\ Gives(List(o, n, "dump"), a, Regs(s, q, <<>>, f))
  BY <1>1, <1>5 DEF Gives
<1> QED BY <1>6 DEF a

LEMMA ListToL ==
  ASSUME NEW s, NEW d, NEW l, NEW f, NEW o, NEW n, NEW v, NEW w, NEW q,
         ValueAtOp(o, Regs(s, d, l, f)) = v, ValueAtOp(n, Regs(s, d, l, f)) = w,
         q = On(<<"list", v>>, w)
  PROVE  Gives(List(o, n, "l"), Regs(s, d, l, f), Regs(s, d, q, f))
<1> DEFINE a == Regs(s, d, l, f)
<1>1. Put(a, "l", q) = Regs(s, d, q, f)
  BY RegsFacts
<1>2. ValueAtOp(o, a) = v /\ ValueAtOp(n, a) = w
  OBVIOUS
<1> HIDE DEF a
<1>3. q = << <<"list", v>> >> \o w
  BY DEF On
<1>4. /\ Effect(List(o, n, "l"), a) = Put(a, "l", << <<"list", ValueAtOp(o, a)>> >> \o ValueAtOp(n, a))
      /\ Ready(List(o, n, "l"), a)
  BY ListEffect
<1>5. Gives(List(o, n, "l"), a, Regs(s, d, q, f))
  BY <1>1, <1>2, <1>3, <1>4 DEF Gives
<1> QED BY <1>5 DEF a

LEMMA LitStep ==
  ASSUME NEW s, NEW d, NEW l, NEW f, NEW op \in {"INTEGER", "STRING"}, NEW len, NEW u, NEW n,
         NEW x, NEW w, NEW q, ValueAtOp(n, Regs(s, d, l, f)) = w,
         x = IF op = "INTEGER" THEN <<"num", u>> ELSE <<"str", len>>, q = On(x, w)
  PROVE  /\ Gives(Lit(op, len, u, n, "stck"), Regs(s, d, l, f), Regs(q, d, <<>>, f))
         /\ Gives(Lit(op, len, u, n, "l"), Regs(s, d, l, f), Regs(s, d, q, f))
<1> DEFINE a == Regs(s, d, l, f)
<1>1. Put(a, "stck", q) = Regs(q, d, <<>>, f) /\ Put(a, "l", q) = Regs(s, d, q, f)
  BY RegsFacts
<1>2. ValueAtOp(n, a) = w
  OBVIOUS
<1> HIDE DEF a
<1>3. q = <<x>> \o w
  BY DEF On
<1>4. \A dst : Effect(Lit(op, len, u, n, dst), a)
                 = Put(a, dst, <<IF op = "INTEGER" THEN <<"num", u>> ELSE <<"str", len>> >> \o ValueAtOp(n, a))
               /\ Ready(Lit(op, len, u, n, dst), a)
  BY LitEffect
<1>5. \A dst : Effect(Lit(op, len, u, n, dst), a) = Put(a, dst, q) /\ Ready(Lit(op, len, u, n, dst), a)
  BY <1>2, <1>3, <1>4
<1>6. /\ Gives(Lit(op, len, u, n, "stck"), a, Regs(q, d, <<>>, f))
      /\ Gives(Lit(op, len, u, n, "l"), a, Regs(s, d, q, f))
  BY <1>1, <1>5 DEF Gives
<1> QED BY <1>6 DEF a

LEMMA OtherSteps ==
  ASSUME NEW s, NEW d, NEW l, NEW f
  PROVE  /\ Gives(Pop("stck"), Regs(s, d, l, f), Regs(Rest(s), d, l, f))
         /\ Gives(Pop("dump"), Regs(s, d, l, f), Regs(s, Rest(d), l, f))
         /\ Gives(Unstack, Regs(s, d, l, f), Regs(InList(s), d, l, f))
         /\ Gives(Abort, Regs(s, d, l, f), Regs(s, d, l, f))
         /\ Gives(InitMem2, Regs(s, d, l, f), Regs(s, d, l, f))
         /\ \A x : Gives(SetBody(x), Regs(s, d, l, f), Regs(Rest(s), d, l, [f EXCEPT ![x] = InList(s)]))
         /\ \A x : Gives(SetVar(x), Regs(s, d, l, f), Regs(s, d, <<>>, [f EXCEPT ![x] = l]))
<1>1. /\ Effect(Pop("stck"), Regs(s, d, l, f)) = Regs(Rest(s), d, l, f) /\ Ready(Pop("stck"), Regs(s, d, l, f))
      /\ Effect(Pop("dump"), Regs(s, d, l, f)) = Regs(s, Rest(d), l, f) /\ Ready(Pop("dump"), Regs(s, d, l, f))
      /\ Effect(Unstack, Regs(s, d, l, f)) = Regs(InList(s), d, l, f) /\ Ready(Unstack, Regs(s, d, l, f))
      /\ Effect(Abort, Regs(s, d, l, f)) = Regs(s, d, l, f) /\ Ready(Abort, Regs(s, d, l, f))
      /\ Effect(InitMem2, Regs(s, d, l, f)) = Regs(s, d, l, f) /\ Ready(InitMem2, Regs(s, d, l, f))
  BY OtherEffects
<1>2. \A x : /\ Effect(SetBody(x), Regs(s, d, l, f)) = Regs(Rest(s), d, l, [f EXCEPT ![x] = InList(s)])
             /\ Ready(SetBody(x), Regs(s, d, l, f))
  BY OtherEffects
<1>3. \A x : /\ Effect(SetVar(x), Regs(s, d, l, f)) = Regs(s, d, <<>>, [f EXCEPT ![x] = l])
             /\ Ready(SetVar(x), Regs(s, d, l, f))
  BY OtherEffects
<1> QED BY <1>1, <1>2, <1>3 DEF Gives

LEMMA StackValues ==
  ASSUME NEW s, NEW d, NEW l, NEW f
  PROVE  /\ ValueAtOp(S(0), Regs(s, d, l, f)) = s /\ ValueAtOp(S(1), Regs(s, d, l, f)) = Rest(s)
         /\ ValueAtOp(S(2), Regs(s, d, l, f)) = Rest(Rest(s))
         /\ ValueAtOp(S(3), Regs(s, d, l, f)) = Rest(Rest(Rest(s)))
         /\ ValueAtOp(Below(0), Regs(s, d, l, f)) = InList(s)
         /\ ValueAtOp(Temp, Regs(s, d, l, f)) = l /\ ValueAtOp(Dump, Regs(s, d, l, f)) = d
         /\ ValueAtOp(Nil, Regs(s, d, l, f)) = <<>>
         /\ \A x \in Syms : ValueAtOp(Body(x), Regs(s, d, l, f)) = f[x]
BY OperandValues

(* SAVESTACK, and what the builtin finds in the saved stack.               *)
LEMMA SavedValues ==
  ASSUME NEW s, NEW v, NEW t, NEW f, InList(v) = s
  PROVE  /\ ValueAtOp(Saved(0), Regs(t, v, <<>>, f)) = s
         /\ ValueAtOp(Saved(1), Regs(t, v, <<>>, f)) = Rest(s)
         /\ ValueAtOp(Saved(2), Regs(t, v, <<>>, f)) = Rest(Rest(s))
         /\ ValueAtOp(First(0), Regs(t, v, <<>>, f)) = InList(s)
         /\ ValueAtOp(First(1), Regs(t, v, <<>>, f)) = Rest(InList(s))
<1>1. /\ ValueAtOp(Saved(0), Regs(t, v, <<>>, f)) = InList(v)
      /\ ValueAtOp(Saved(1), Regs(t, v, <<>>, f)) = Rest(InList(v))
      /\ ValueAtOp(Saved(2), Regs(t, v, <<>>, f)) = Rest(Rest(InList(v)))
      /\ ValueAtOp(First(0), Regs(t, v, <<>>, f)) = InList(InList(v))
      /\ ValueAtOp(First(1), Regs(t, v, <<>>, f)) = Rest(InList(InList(v)))
  BY OperandValues
<1> QED BY <1>1

LEMMA SaveStep ==
  ASSUME NEW T, NEW d \in Seq(T), NEW s, NEW v, v = On(<<"list", s>>, d)
  PROVE  /\ Rest(v) = d /\ InList(v) = s
         /\ \A l, f : Gives(SAVESTACK, Regs(s, d, l, f), Regs(s, v, <<>>, f))
<1>1. v = << <<"list", s>> >> \o d
  BY DEF On
<1>2. InList(v) = s /\ Rest(v) = d
  <2>1. PICK x : x = <<"list", s>>
    OBVIOUS
  <2>2. v = <<x>> \o d
    BY <1>1, <2>1
  <2>3. v # <<>> /\ v[1] = x /\ Rest(v) = d
    BY <2>2, ConsFacts
  <2> QED BY <2>1, <2>3 DEF InList
<1>3. \A l, f : Gives(SAVESTACK, Regs(s, d, l, f), Regs(s, << <<"list", s>> >> \o d, <<>>, f))
  BY SaveEffect DEF Gives
<1> QED BY <1>1, <1>2, <1>3

(* What the programs of the builtins come to.                              *)
LEMMA DupRuns ==
  ASSUME NEW s, NEW d, NEW l, NEW f, s # <<>>
  PROVE  Arrives(<<Copy(S(0), S(0), "stck")>>, Regs(s, d, l, f), Regs(On(Top(s), s), d, <<>>, f))
<1>1. PICK q : q = On(Top(s), s)
  OBVIOUS
<1>2. Gives(Copy(S(0), S(0), "stck"), Regs(s, d, l, f), Regs(q, d, <<>>, f))
  BY <1>1, StackValues, CopyStep
<1> QED BY <1>1, <1>2, GivesOne

LEMMA OverRuns ==
  ASSUME NEW s, NEW d, NEW l, NEW f, Rest(s) # <<>>
  PROVE  Arrives(<<Copy(S(1), S(0), "stck")>>, Regs(s, d, l, f), Regs(On(Top(Rest(s)), s), d, <<>>, f))
<1>1. PICK q : q = On(Top(Rest(s)), s)
  OBVIOUS
<1>2. Gives(Copy(S(1), S(0), "stck"), Regs(s, d, l, f), Regs(q, d, <<>>, f))
  BY <1>1, StackValues, CopyStep
<1> QED BY <1>1, <1>2, GivesOne

LEMMA PopRuns ==
  ASSUME NEW s, NEW d, NEW l, NEW f
  PROVE  Arrives(<<Pop("stck")>>, Regs(s, d, l, f), Regs(Rest(s), d, l, f))
BY OtherSteps, GivesOne

LEMMA StackRuns ==
  ASSUME NEW s, NEW d, NEW l, NEW f
  PROVE  Arrives(<<List(S(0), S(0), "stck")>>, Regs(s, d, l, f), Regs(On(<<"list", s>>, s), d, <<>>, f))
<1>1. PICK q : q = On(<<"list", s>>, s)
  OBVIOUS
<1>2. Gives(List(S(0), S(0), "stck"), Regs(s, d, l, f), Regs(q, d, <<>>, f))
  BY <1>1, StackValues, ListStep
<1> QED BY <1>1, <1>2, GivesOne

LEMMA ListRuns ==
  ASSUME NEW s, NEW d, NEW l, NEW f
  PROVE  Arrives(<<List(Nil, S(0), "stck")>>, Regs(s, d, l, f), Regs(On(<<"list", <<>> >>, s), d, <<>>, f))
<1>1. PICK q : q = On(<<"list", <<>> >>, s)
  OBVIOUS
<1>2. Gives(List(Nil, S(0), "stck"), Regs(s, d, l, f), Regs(q, d, <<>>, f))
  BY <1>1, StackValues, ListStep
<1> QED BY <1>1, <1>2, GivesOne

LEMMA UnstackRuns ==
  ASSUME NEW s, NEW d, NEW l, NEW f
  PROVE  Arrives(<<Unstack>>, Regs(s, d, l, f), Regs(InList(s), d, l, f))
BY OtherSteps, GivesOne

LEMMA SwapRuns ==
  ASSUME NEW T, NEW d \in Seq(T), NEW s, NEW l, NEW f, s # <<>>, Rest(s) # <<>>
  PROVE  Arrives(<<SAVESTACK, Copy(Saved(0), S(2), "stck"), Copy(Saved(1), S(0), "stck"), Pop("dump")>>,
                 Regs(s, d, l, f),
                 Regs(On(Top(Rest(s)), On(Top(s), Rest(Rest(s)))), d, <<>>, f))
<1>1. PICK v : v = On(<<"list", s>>, d)
  OBVIOUS
<1>2. PICK q2 : q2 = On(Top(s), Rest(Rest(s)))
  OBVIOUS
<1>3. PICK q3 : q3 = On(Top(Rest(s)), q2)
  OBVIOUS
<1>4. Gives(SAVESTACK, Regs(s, d, l, f), Regs(s, v, <<>>, f)) /\ Rest(v) = d /\ InList(v) = s
  BY <1>1, SaveStep
<1>5. Gives(Copy(Saved(0), S(2), "stck"), Regs(s, v, <<>>, f), Regs(q2, v, <<>>, f))
  BY <1>2, <1>4, SavedValues, StackValues, CopyStep
<1>6. Gives(Copy(Saved(1), S(0), "stck"), Regs(q2, v, <<>>, f), Regs(q3, v, <<>>, f))
  BY <1>3, <1>4, SavedValues, StackValues, CopyStep
<1>7. Gives(Pop("dump"), Regs(q3, v, <<>>, f), Regs(q3, d, <<>>, f))
  BY <1>4, OtherSteps
<1> QED BY <1>2, <1>3, <1>4, <1>5, <1>6, <1>7, GivesFour

LEMMA RotateRuns ==
  ASSUME NEW T, NEW d \in Seq(T), NEW s, NEW l, NEW f, s # <<>>, Rest(s) # <<>>, Rest(Rest(s)) # <<>>
  PROVE  Arrives(<<SAVESTACK, Copy(Saved(0), S(3), "stck"), Copy(Saved(1), S(0), "stck"),
                   Copy(Saved(2), S(0), "stck"), Pop("dump")>>,
                 Regs(s, d, l, f),
                 Regs(On(Top(Rest(Rest(s))), On(Top(Rest(s)), On(Top(s), Rest(Rest(Rest(s)))))), d, <<>>, f))
<1>1. PICK v : v = On(<<"list", s>>, d)
  OBVIOUS
<1>2. PICK q2 : q2 = On(Top(s), Rest(Rest(Rest(s))))
  OBVIOUS
<1>3. PICK q3 : q3 = On(Top(Rest(s)), q2)
  OBVIOUS
<1>4. PICK q4 : q4 = On(Top(Rest(Rest(s))), q3)
  OBVIOUS
<1>5. Gives(SAVESTACK, Regs(s, d, l, f), Regs(s, v, <<>>, f)) /\ Rest(v) = d /\ InList(v) = s
  BY <1>1, SaveStep
<1>6. Gives(Copy(Saved(0), S(3), "stck"), Regs(s, v, <<>>, f), Regs(q2, v, <<>>, f))
  BY <1>2, <1>5, SavedValues, StackValues, CopyStep
<1>7. Gives(Copy(Saved(1), S(0), "stck"), Regs(q2, v, <<>>, f), Regs(q3, v, <<>>, f))
  BY <1>3, <1>5, SavedValues, StackValues, CopyStep
<1>8. Gives(Copy(Saved(2), S(0), "stck"), Regs(q3, v, <<>>, f), Regs(q4, v, <<>>, f))
  BY <1>4, <1>5, SavedValues, StackValues, CopyStep
<1>9. Gives(Pop("dump"), Regs(q4, v, <<>>, f), Regs(q4, d, <<>>, f))
  BY <1>5, OtherSteps
<1> QED BY <1>2, <1>3, <1>4, <1>5, <1>6, <1>7, <1>8, <1>9, GivesFive

LEMMA ConsRuns ==
  ASSUME NEW s, NEW d, NEW l, NEW f, Rest(s) # <<>>
  PROVE  Arrives(<<Copy(S(1), Below(0), "l"), List(Temp, S(2), "stck")>>,
                 Regs(s, d, l, f),
                 Regs(On(<<"list", On(Top(Rest(s)), InList(s))>>, Rest(Rest(s))), d, <<>>, f))
<1>1. PICK q : q = On(Top(Rest(s)), InList(s))
  OBVIOUS
<1>2. PICK q2 : q2 = On(<<"list", q>>, Rest(Rest(s)))
  OBVIOUS
<1>3. Gives(Copy(S(1), Below(0), "l"), Regs(s, d, l, f), Regs(s, d, q, f))
  BY <1>1, StackValues, CopyStep
<1>4. Gives(List(Temp, S(2), "stck"), Regs(s, d, q, f), Regs(q2, d, <<>>, f))
  BY <1>2, StackValues, ListStep
<1> QED BY <1>1, <1>2, <1>3, <1>4, GivesTwo

LEMMA UnconsRuns ==
  ASSUME NEW T, NEW d \in Seq(T), NEW s, NEW l, NEW f, InList(s) # <<>>
  PROVE  Arrives(<<SAVESTACK, Copy(First(0), S(1), "stck"), List(First(1), S(0), "stck"), Pop("dump")>>,
                 Regs(s, d, l, f),
                 Regs(On(<<"list", Rest(InList(s))>>, On(Top(InList(s)), Rest(s))), d, <<>>, f))
<1>1. PICK v : v = On(<<"list", s>>, d)
  OBVIOUS
<1>2. PICK q2 : q2 = On(Top(InList(s)), Rest(s))
  OBVIOUS
<1>3. PICK q3 : q3 = On(<<"list", Rest(InList(s))>>, q2)
  OBVIOUS
<1>4. Gives(SAVESTACK, Regs(s, d, l, f), Regs(s, v, <<>>, f)) /\ Rest(v) = d /\ InList(v) = s
  BY <1>1, SaveStep
<1>5. Gives(Copy(First(0), S(1), "stck"), Regs(s, v, <<>>, f), Regs(q2, v, <<>>, f))
  BY <1>2, <1>4, SavedValues, StackValues, CopyStep
<1>6. Gives(List(First(1), S(0), "stck"), Regs(q2, v, <<>>, f), Regs(q3, v, <<>>, f))
  BY <1>3, <1>4, SavedValues, StackValues, ListStep
<1>7. Gives(Pop("dump"), Regs(q3, v, <<>>, f), Regs(q3, d, <<>>, f))
  BY <1>4, OtherSteps
<1> QED BY <1>2, <1>3, <1>4, <1>5, <1>6, <1>7, GivesFour

(* uncons of an empty list leaves the stack, and what it saved on dump.    *)
LEMMA UnconsFails ==
  ASSUME NEW T, NEW d \in Seq(T), NEW s, NEW l, NEW f
  PROVE  Arrives(<<SAVESTACK, Abort>>, Regs(s, d, l, f), Regs(s, On(<<"list", s>>, d), <<>>, f))
<1>1. PICK v : v = On(<<"list", s>>, d)
  OBVIOUS
<1>2. Gives(SAVESTACK, Regs(s, d, l, f), Regs(s, v, <<>>, f))
  BY <1>1, SaveStep
<1>3. Gives(Abort, Regs(s, v, <<>>, f), Regs(s, v, <<>>, f))
  BY OtherSteps
<1> QED BY <1>1, <1>2, <1>3, GivesTwo

LEMMA Tops ==
  ASSUME NEW T, NEW s \in Seq(T)
  PROVE  /\ s # <<>> <=> Len(s) > 0
         /\ Rest(s) # <<>> <=> Len(s) > 1
         /\ Rest(Rest(s)) # <<>> <=> Len(s) > 2
         /\ Top(s) = s[1]
         /\ Len(s) > 1 => Top(Rest(s)) = s[2]
         /\ Len(s) > 2 => Top(Rest(Rest(s))) = s[3]
         /\ Rest(s) = SubSeq(s, 2, Len(s)) /\ Rest(Rest(s)) = SubSeq(s, 3, Len(s))
         /\ Rest(Rest(Rest(s))) = SubSeq(s, 4, Len(s))
         /\ Rest(s) \in Seq(T) /\ Rest(Rest(s)) \in Seq(T) /\ Rest(Rest(Rest(s))) \in Seq(T)
BY AfterRight DEF Top

(* Each builtin does to the registers what its stack effect promises.      *)
Ends(b, s, d, l, f, t) ==
  \E d2, l2 : Arrives(Command(b), Regs(s, d, l, f), Regs(t, d2, l2, f))

LEMMA BuiltinRight ==
  ASSUME NEW T, NEW U, NEW s \in Seq(T), NEW d \in Seq(U), NEW l, NEW f, NEW b,
         Depth(b) > 0 => s # <<>>, Depth(b) > 1 => Rest(s) # <<>>,
         Depth(b) > 2 => Rest(Rest(s)) # <<>>,
         b \in {"cons", "uncons", "unstack"} => s[1][1] = "list",
         Lis(root.stck) = 0 <=> InList(s) = <<>>
  PROVE  \E t : Ends(b, s, d, l, f, t) /\ (t = s \/ BuiltinOutcome(b, s, t))
<1> DEFINE Goal == \E t : Ends(b, s, d, l, f, t) /\ (t = s \/ BuiltinOutcome(b, s, t))
<1>1. /\ s # <<>> <=> Len(s) > 0
      /\ Rest(s) # <<>> <=> Len(s) > 1
      /\ Rest(Rest(s)) # <<>> <=> Len(s) > 2
      /\ Top(s) = s[1]
      /\ Len(s) > 1 => Top(Rest(s)) = s[2]
      /\ Len(s) > 2 => Top(Rest(Rest(s))) = s[3]
      /\ Rest(s) = SubSeq(s, 2, Len(s)) /\ Rest(Rest(s)) = SubSeq(s, 3, Len(s))
      /\ Rest(Rest(Rest(s))) = SubSeq(s, 4, Len(s))
      /\ Rest(s) \in Seq(T) /\ Rest(Rest(s)) \in Seq(T) /\ Rest(Rest(Rest(s))) \in Seq(T)
  BY Tops
<1>2. ASSUME b = "dup" PROVE Goal
  <2>1. s # <<>>
    BY <1>1, <1>2 DEF Depth
  <2>2. Command(b) = <<Copy(S(0), S(0), "stck")>>
    BY <1>2 DEF Command
  <2>3. PICK q : q = On(Top(s), s)
    OBVIOUS
  <2>4. Arrives(Command(b), Regs(s, d, l, f), Regs(q, d, <<>>, f))
    BY <2>1, <2>2, <2>3, DupRuns
  <2>6. Len(s) > 0 /\ q = <<s[1]>> \o s
    BY <1>1, <2>1, <2>3 DEF On
  <2>7. BuiltinOutcome(b, s, q)
    BY <1>2, <2>6 DEF BuiltinOutcome, Abstract!Lst
  <2> QED BY <2>4, <2>7 DEF Ends
<1>3. ASSUME b = "over" PROVE Goal
  <2>1. Rest(s) # <<>>
    BY <1>1, <1>3 DEF Depth
  <2>2. Command(b) = <<Copy(S(1), S(0), "stck")>>
    BY <1>3 DEF Command
  <2>3. PICK q : q = On(Top(Rest(s)), s)
    OBVIOUS
  <2>4. Arrives(Command(b), Regs(s, d, l, f), Regs(q, d, <<>>, f))
    BY <2>1, <2>2, <2>3, OverRuns
  <2>6. Len(s) > 1 /\ q = <<s[2]>> \o s
    BY <1>1, <2>1, <2>3 DEF On
  <2>7. BuiltinOutcome(b, s, q)
    BY <1>3, <2>6 DEF BuiltinOutcome, Abstract!Lst
  <2> QED BY <2>4, <2>7 DEF Ends
<1>4. ASSUME b = "pop" PROVE Goal
  <2>1. s # <<>>
    BY <1>1, <1>4 DEF Depth
  <2>2. Command(b) = <<Pop("stck")>>
    BY <1>4 DEF Command
  <2>3. PICK q : q = Rest(s)
    OBVIOUS
  <2>4. Arrives(Command(b), Regs(s, d, l, f), Regs(q, d, l, f))
    BY <2>1, <2>2, <2>3, PopRuns
  <2>6. Len(s) > 0 /\ q = SubSeq(s, 2, Len(s))
    BY <1>1, <2>1, <2>3 DEF On
  <2>7. BuiltinOutcome(b, s, q)
    BY <1>4, <2>6 DEF BuiltinOutcome, Abstract!Lst
  <2> QED BY <2>4, <2>7 DEF Ends
<1>5. ASSUME b = "swap" PROVE Goal
  <2>1. s # <<>> /\ Rest(s) # <<>>
    BY <1>1, <1>5 DEF Depth
  <2>2. Command(b) = <<SAVESTACK, Copy(Saved(0), S(2), "stck"), Copy(Saved(1), S(0), "stck"), Pop("dump")>>
    BY <1>5 DEF Command
  <2>3. PICK q : q = On(Top(Rest(s)), On(Top(s), Rest(Rest(s))))
    OBVIOUS
  <2>4. Arrives(Command(b), Regs(s, d, l, f), Regs(q, d, <<>>, f))
    BY <2>1, <2>2, <2>3, SwapRuns
  <2>5. q = <<Top(Rest(s)), Top(s)>> \o Rest(Rest(s))
    BY <1>1, <2>3, OnTwo
  <2>6. Len(s) > 1 /\ q = <<s[2], s[1]>> \o SubSeq(s, 3, Len(s))
    BY <1>1, <2>1, <2>5
  <2>7. BuiltinOutcome(b, s, q)
    BY <1>5, <2>6 DEF BuiltinOutcome, Abstract!Lst
  <2> QED BY <2>4, <2>7 DEF Ends
<1>6. ASSUME b = "rotate" PROVE Goal
  <2>1. s # <<>> /\ Rest(s) # <<>> /\ Rest(Rest(s)) # <<>>
    BY <1>1, <1>6 DEF Depth
  <2>2. Command(b) = <<SAVESTACK, Copy(Saved(0), S(3), "stck"), Copy(Saved(1), S(0), "stck"),
                      Copy(Saved(2), S(0), "stck"), Pop("dump")>>
    BY <1>6 DEF Command
  <2>3. PICK q : q = On(Top(Rest(Rest(s))), On(Top(Rest(s)), On(Top(s), Rest(Rest(Rest(s))))))
    OBVIOUS
  <2>4. Arrives(Command(b), Regs(s, d, l, f), Regs(q, d, <<>>, f))
    BY <2>1, <2>2, <2>3, RotateRuns
  <2>5. q = <<Top(Rest(Rest(s))), Top(Rest(s)), Top(s)>> \o Rest(Rest(Rest(s)))
    BY <1>1, <2>3, OnThree
  <2>6. Len(s) > 2 /\ q = <<s[3], s[2], s[1]>> \o SubSeq(s, 4, Len(s))
    BY <1>1, <2>1, <2>5
  <2>7. BuiltinOutcome(b, s, q)
    BY <1>6, <2>6 DEF BuiltinOutcome, Abstract!Lst
  <2> QED BY <2>4, <2>7 DEF Ends
<1>7. ASSUME b = "stack" PROVE Goal
  <2>1. TRUE
    BY <1>1, <1>7 DEF Depth
  <2>2. Command(b) = <<List(S(0), S(0), "stck")>>
    BY <1>7 DEF Command
  <2>3. PICK q : q = On(<<"list", s>>, s)
    OBVIOUS
  <2>4. Arrives(Command(b), Regs(s, d, l, f), Regs(q, d, <<>>, f))
    BY <2>1, <2>2, <2>3, StackRuns
  <2>6. q = << <<"list", s>> >> \o s
    BY <1>1, <2>1, <2>3 DEF On
  <2>7. BuiltinOutcome(b, s, q)
    BY <1>7, <2>6 DEF BuiltinOutcome, Abstract!Lst
  <2> QED BY <2>4, <2>7 DEF Ends
<1>8. ASSUME b = "list" PROVE Goal
  <2>1. TRUE
    BY <1>1, <1>8 DEF Depth
  <2>2. Command(b) = <<List(Nil, S(0), "stck")>>
    BY <1>8 DEF Command
  <2>3. PICK q : q = On(<<"list", <<>> >>, s)
    OBVIOUS
  <2>4. Arrives(Command(b), Regs(s, d, l, f), Regs(q, d, <<>>, f))
    BY <2>1, <2>2, <2>3, ListRuns
  <2>6. q = << <<"list", <<>> >> >> \o s
    BY <1>1, <2>1, <2>3 DEF On
  <2>7. BuiltinOutcome(b, s, q)
    BY <1>8, <2>6 DEF BuiltinOutcome, Abstract!Lst
  <2> QED BY <2>4, <2>7 DEF Ends
<1>9. ASSUME b = "cons" PROVE Goal
  <2>1. s # <<>> /\ Rest(s) # <<>> /\ s[1][1] = "list"
    BY <1>1, <1>9 DEF Depth
  <2>2. Command(b) = <<Copy(S(1), Below(0), "l"), List(Temp, S(2), "stck")>>
    BY <1>9 DEF Command
  <2>3. PICK q : q = On(<<"list", On(Top(Rest(s)), InList(s))>>, Rest(Rest(s)))
    OBVIOUS
  <2>4. Arrives(Command(b), Regs(s, d, l, f), Regs(q, d, <<>>, f))
    BY <2>1, <2>2, <2>3, ConsRuns
  <2>5. InList(s) = s[1][2]
    BY <2>1 DEF InList
  <2>6. Len(s) > 1 /\ q = << <<"list", <<s[2]>> \o s[1][2]>> >> \o SubSeq(s, 3, Len(s))
    BY <1>1, <2>1, <2>3, <2>5 DEF On
  <2>7. BuiltinOutcome(b, s, q)
    BY <1>9, <2>1, <2>6 DEF BuiltinOutcome, Abstract!Lst
  <2> QED BY <2>4, <2>7 DEF Ends
<1>10. ASSUME b = "uncons" PROVE Goal
  <2>1. s # <<>> /\ s[1][1] = "list"
    BY <1>1, <1>10 DEF Depth
  <2>2. InList(s) = s[1][2]
    BY <2>1 DEF InList
  <2>3. CASE Lis(root.stck) = 0
    <3>1. Command(b) = <<SAVESTACK, Abort>>
      BY <1>10, <2>3 DEF Command
    <3>2. PICK q : q = On(<<"list", s>>, d)
      OBVIOUS
    <3>3. Arrives(Command(b), Regs(s, d, l, f), Regs(s, q, <<>>, f))
      BY <3>1, <3>2, UnconsFails
    <3> QED BY <3>3 DEF Ends
  <2>4. CASE Lis(root.stck) # 0
    <3>1. InList(s) # <<>>
      BY <2>4
    <3>2. Command(b) = <<SAVESTACK, Copy(First(0), S(1), "stck"), List(First(1), S(0), "stck"), Pop("dump")>>
      BY <1>10, <2>4 DEF Command
    <3>3. PICK q : q = On(<<"list", Rest(InList(s))>>, On(Top(InList(s)), Rest(s)))
      OBVIOUS
    <3>4. Arrives(Command(b), Regs(s, d, l, f), Regs(q, d, <<>>, f))
      BY <3>1, <3>2, <3>3, UnconsRuns
    <3>5. q = << <<"list", Rest(InList(s))>>, Top(InList(s))>> \o Rest(s)
      BY <1>1, <3>3, OnTwo
    <3>6. Rest(InList(s)) = Tail(s[1][2]) /\ Top(InList(s)) = Head(s[1][2]) /\ s[1][2] # <<>>
      BY <2>2, <3>1 DEF Rest, Top
    <3>7. Len(s) > 0 /\ q = << <<"list", Tail(s[1][2])>>, Head(s[1][2])>> \o SubSeq(s, 2, Len(s))
      BY <1>1, <2>1, <3>5, <3>6
    <3>8. BuiltinOutcome(b, s, q)
      BY <1>10, <2>1, <3>6, <3>7 DEF BuiltinOutcome, Abstract!Lst
    <3> QED BY <3>4, <3>8 DEF Ends
  <2> QED BY <2>3, <2>4
<1>11. ASSUME b = "unstack" PROVE Goal
  <2>1. s # <<>> /\ s[1][1] = "list" /\ Command(b) = <<Unstack>>
    BY <1>1, <1>11 DEF Depth, Command
  <2>2. PICK q : q = InList(s)
    OBVIOUS
  <2>3. Arrives(Command(b), Regs(s, d, l, f), Regs(q, d, l, f))
    BY <2>1, <2>2, UnstackRuns
  <2>4. q = s[1][2] /\ Len(s) > 0
    BY <1>1, <2>1, <2>2 DEF InList
  <2>5. BuiltinOutcome(b, s, q)
    BY <1>11, <2>1, <2>4 DEF BuiltinOutcome
  <2> QED BY <2>3, <2>5 DEF Ends
<1>12. ASSUME b \notin {"dup", "over", "pop", "swap", "rotate", "cons", "uncons", "unstack", "stack", "list"}
       PROVE  Goal
  <2>1. Command(b) = <<>>
    BY <1>12 DEF Command
  <2>2. Arrives(Command(b), Regs(s, d, l, f), Regs(s, d, l, f))
    BY <2>1, ArrivesEnd
  <2> QED BY <2>2 DEF Ends
<1>13. Goal
  <2> HIDE DEF Goal
  <2> QED BY <1>2, <1>3, <1>4, <1>5, <1>6, <1>7, <1>8, <1>9, <1>10, <1>11, <1>12
<1> QED BY <1>13

-----------------------------------------------------------------------------
(* A command begins: the values of the registers are those of the heap.    *)
Settled(D, V, rank, g) == Machine(D, V, rank, root, Bodies) /\ g = Plain(V, root, Bodies)

LEMMA IdleSettled ==
  ASSUME Side, Idle, NEW g, Simulates(g)
  PROVE  \E D, V, rank : Settled(D, V, rank, g)
<1>1. PICK D, V, rank, R, B : Machine(D, V, rank, R, B) /\ Arrives(code, Registers(V, R, B), g)
  BY DEF Simulates
<1>2. gc = "off" /\ code = <<>> /\ pend = NoPend
  BY DEF Idle, Side, PendInv
<1>3. R = root /\ B = Bodies
  BY <1>1, <1>2 DEF Machine
<1>4. Arrives(<<>>, Plain(V, root, Bodies), g)
  BY <1>1, <1>2, <1>3 DEF Registers
<1>5. g = Plain(V, root, Bodies)
  BY <1>4, ArrivesEnd
<1> QED BY <1>1, <1>3, <1>5 DEF Settled

LEMMA IdleFacts ==
  ASSUME Side, Idle, NEW D, NEW V, NEW rank, NEW g, Settled(D, V, rank, g)
  PROVE  /\ TypeOK /\ DInv /\ gc = "off" /\ code = <<>> /\ pend = NoPend /\ ~flibrary_busy
         /\ Machine(D, V, rank, root, Bodies)
         /\ Valued(memory, D, V, rank) /\ Within(D, root, Bodies) /\ BodiesSafe(Bodies)
         /\ D \subseteq 1 .. memoryindex - 1 /\ mem_low \in Nat /\ memoryindex \in Nat
<1>1. DInv /\ gc = "off" /\ code = <<>> /\ pend = NoPend
  BY DEF Side, Idle, PendInv
<1>2. ~flibrary_busy
  BY <1>1 DEF DInv, CodeShape
<1>3. Machine(D, V, rank, root, Bodies) /\ gc # "copy"
  BY <1>1 DEF Settled
<1> QED BY <1>1, <1>2, <1>3, SettledFacts

LEMMA SettledRegs ==
  ASSUME Side, Idle, NEW D, NEW V, NEW rank, NEW g, Settled(D, V, rank, g)
  PROVE  /\ g = Regs(V[root["stck"]], V[root["dump"]], V[root["l"]], g.binding)
         /\ g.binding = [s \in Syms |-> V[Bodies[s]]]
         /\ \E T : V[root["stck"]] \in Seq(T) /\ V[root["dump"]] \in Seq(T)
<1>1. g = Plain(V, root, Bodies) /\ Within(D, root, Bodies) /\ Valued(memory, D, V, rank)
  BY IdleFacts DEF Settled
<1>2. g = Regs(V[root["stck"]], V[root["dump"]], V[root["l"]], g.binding)
  BY <1>1 DEF Plain, Regs, Target
<1>3. g.binding = [s \in Syms |-> V[Bodies[s]]]
  BY <1>1 DEF Plain
<1>4. root["stck"] \in Index /\ root["dump"] \in Index
  BY IdleFacts, RootNamesType DEF TypeOK
<1>5. PICK T : V \in [Index -> Seq(T)]
  BY <1>1 DEF Valued
<1> QED BY <1>2, <1>3, <1>4, <1>5

(* A program that leads from the values of the heap to g2 has begun.       *)
LEMMA BeginSimulates ==
  ASSUME Side, Idle, NEW D, NEW V, NEW rank, NEW g, Settled(D, V, rank, g), NEW p, Begin(p),
         NEW g2, Arrives(p, g, g2)
  PROVE  Simulates(g2)'
<1>1. /\ gc = "off" /\ pend = NoPend /\ Machine(D, V, rank, root, Bodies)
      /\ Within(D, root, Bodies) /\ BodiesSafe(Bodies)
  BY IdleFacts
<1>2. /\ memory' = memory /\ memoryindex' = memoryindex /\ mem_low' = mem_low
      /\ root' = root /\ symtab' = symtab /\ variable_busy' = variable_busy
      /\ flibrary_busy' = flibrary_busy /\ pend' = pend /\ gc' = gc /\ code' = p
  BY DEF Begin, heapVars, symVars
<1>3. PICK R2, B2 : R2 = root' /\ B2 = Bodies' /\ R2 = root /\ B2 = Bodies
  BY <1>2 DEF Bodies
<1>4. BodiesSafe(B2)'
  BY <1>1, <1>2, <1>3 DEF BodiesSafe
<1>5. Machine(D, V, rank, R2, B2)'
  BY <1>1, <1>2, <1>3, <1>4, RestMachine
<1>6. Registers(V, R2, B2)' = g
  BY <1>1, <1>2, <1>3 DEF Registers, Plain, Settled, NoPend
<1>7. Arrives(code, Registers(V, R2, B2), g2)'
  BY <1>2, <1>6 DEF Arrives
<1> QED BY <1>5, <1>7 DEF Simulates

-----------------------------------------------------------------------------
(* A name is bound to one value or to none.                                *)
Single(f) == \A s \in Syms : f[s] = <<>> \/ f[s] = <<Top(f[s])>>

Follows(g, g2) == Outcome(View(g), View(g2)) /\ Single(g2.binding)

LEMMA PushFollows ==
  ASSUME NEW s, NEW d, NEW l, NEW f, NEW t, NEW d2, NEW l2, Single(f),
         t = s \/ Pushed([stack |-> s, binding |-> f], t)
  PROVE  Follows(Regs(s, d, l, f), Regs(t, d2, l2, f))
<1>1. /\ View(Regs(s, d, l, f)) = [stack |-> s, binding |-> f]
      /\ View(Regs(t, d2, l2, f)) = [stack |-> t, binding |-> f]
      /\ Regs(t, d2, l2, f).binding = f
  BY RegsFacts
<1>2. Outcome([stack |-> s, binding |-> f], [stack |-> t, binding |-> f])
  BY DEF Outcome
<1> QED BY <1>1, <1>2 DEF Follows

LEMMA LiteralRight ==
  ASSUME Side, Idle, NEW D, NEW V, NEW rank, NEW g, Settled(D, V, rank, g), Single(g.binding),
         (\E v \in Nums : PushNum(v)) \/ (\E k \in StrLens : PushString(k))
  PROVE  \E g2 : Simulates(g2)' /\ Follows(g, g2)
<1>a. PICK s, d, l, f : s = V[root["stck"]] /\ d = V[root["dump"]] /\ l = V[root["l"]] /\ f = g.binding
  OBVIOUS
<1>1. g = Regs(s, d, l, f) /\ Single(f)
  BY <1>a, SettledRegs
<1>2. ASSUME NEW op \in {"INTEGER", "STRING"}, NEW len, NEW u, NEW x,
             x = IF op = "INTEGER" THEN <<"num", u>> ELSE <<"str", len>>,
             Begin(<<Lit(op, len, u, S(0), "stck")>>),
             Pushed([stack |-> s, binding |-> f], On(x, s))
      PROVE  \E g2 : Simulates(g2)' /\ Follows(g, g2)
  <2>1. PICK q : q = On(x, s)
    OBVIOUS
  <2>2. Gives(Lit(op, len, u, S(0), "stck"), Regs(s, d, l, f), Regs(q, d, <<>>, f))
    BY <1>2, <2>1, StackValues, LitStep
  <2>3. Arrives(<<Lit(op, len, u, S(0), "stck")>>, g, Regs(q, d, <<>>, f))
    BY <1>1, <2>2, GivesOne
  <2>4. Simulates(Regs(q, d, <<>>, f))'
    BY <1>2, <2>3, BeginSimulates
  <2>5. Follows(g, Regs(q, d, <<>>, f))
    BY <1>1, <1>2, <2>1, PushFollows
  <2> QED BY <2>4, <2>5
<1>3. CASE \E v \in Nums : PushNum(v)
  <2>1. PICK v \in Nums : Begin(<<Lit("INTEGER", 0, v, S(0), "stck")>>)
    BY <1>3 DEF PushNum
  <2>2. Pushed([stack |-> s, binding |-> f], On(<<"num", v>>, s))
    BY DEF Pushed, On, Abstract!Num
  <2> QED BY <1>2, <2>1, <2>2
<1>4. CASE \E k \in StrLens : PushString(k)
  <2>1. PICK k \in StrLens : Begin(<<Lit("STRING", k, 0, S(0), "stck")>>)
    BY <1>4 DEF PushString
  <2>2. Pushed([stack |-> s, binding |-> f], On(<<"str", k>>, s))
    BY DEF Pushed, On, Abstract!Str
  <2> QED BY <1>2, <2>1, <2>2
<1> QED BY <1>3, <1>4

(* What the parameters of a builtin are checked for, seen as values.       *)
LEMMA ParamsRight ==
  ASSUME Side, Idle, NEW D, NEW V, NEW rank, NEW g, Settled(D, V, rank, g), NEW b, ParamsOK(b),
         NEW s, s = V[root["stck"]]
  PROVE  /\ Depth(b) > 0 => s # <<>>
         /\ Depth(b) > 1 => Rest(s) # <<>>
         /\ Depth(b) > 2 => Rest(Rest(s)) # <<>>
         /\ b \in {"cons", "uncons", "unstack"} => s[1][1] = "list"
         /\ Lis(root.stck) = 0 <=> InList(s) = <<>>
<1>1. TypeOK /\ Valued(memory, D, V, rank) /\ Within(D, root, Bodies)
  BY IdleFacts
<1>2. PICK n : n = root["stck"]
  OBVIOUS
<1>3. n \in D \cup {0} /\ s = V[n]
  BY <1>1, <1>2, RootNamesType DEF Within
<1>4. \A m \in D \cup {0} : /\ Nxt(m) \in D \cup {0} /\ V[Nxt(m)] = Rest(V[m])
                            /\ Lis(m) \in D \cup {0} /\ V[Lis(m)] = InList(V[m])
                            /\ V[m] = <<>> <=> m = 0
                            /\ m # 0 => V[m][1] = ValueOf(memory[m], V)
  BY <1>1, ValueRest
<1>5. At(S(1)) = Nxt(n) /\ At(S(2)) = Nxt(Nxt(n))
  BY <1>2 DEF At, S, Skip
<1>6. /\ s = <<>> <=> n = 0
      /\ Rest(s) = <<>> <=> Nxt(n) = 0
      /\ Rest(Rest(s)) = <<>> <=> Nxt(Nxt(n)) = 0
      /\ InList(s) = <<>> <=> Lis(n) = 0
  BY <1>3, <1>4
<1>7. ASSUME b \in {"cons", "uncons", "unstack"} PROVE s[1][1] = "list"
  <2>1. Depth(b) > 0 /\ memory[n].op = "LIST"
    BY <1>2, <1>7 DEF ParamsOK, Depth
  <2>2. n # 0
    BY <1>2, <2>1 DEF ParamsOK
  <2>3. s[1] = <<"list", V[memory[n].u]>>
    BY <1>3, <1>4, <2>1, <2>2 DEF ValueOf
  <2> QED BY <2>3
<1>8. /\ Depth(b) > 0 => n # 0
      /\ Depth(b) > 1 => Nxt(n) # 0
      /\ Depth(b) > 2 => Nxt(Nxt(n)) # 0
  BY <1>2, <1>5 DEF ParamsOK
<1> QED BY <1>2, <1>6, <1>7, <1>8

LEMMA BuiltinCommandRight ==
  ASSUME Side, Idle, NEW D, NEW V, NEW rank, NEW g, Settled(D, V, rank, g), Single(g.binding),
         NEW b \in Builtins, Builtin(b)
  PROVE  \E g2 : Simulates(g2)' /\ Follows(g, g2)
<1>1. ParamsOK(b) /\ Begin(Command(b))
  BY DEF Builtin
<1>a. PICK s, d, l, f : s = V[root["stck"]] /\ d = V[root["dump"]] /\ l = V[root["l"]] /\ f = g.binding
  OBVIOUS
<1>b. PICK T : s \in Seq(T) /\ d \in Seq(T)
  BY <1>a, SettledRegs
<1>2. g = Regs(s, d, l, f) /\ Single(f) /\ s = V[root["stck"]]
  BY <1>a, SettledRegs
<1>3. /\ Depth(b) > 0 => s # <<>>
      /\ Depth(b) > 1 => Rest(s) # <<>>
      /\ Depth(b) > 2 => Rest(Rest(s)) # <<>>
      /\ b \in {"cons", "uncons", "unstack"} => s[1][1] = "list"
      /\ Lis(root.stck) = 0 <=> InList(s) = <<>>
  BY <1>1, <1>2, ParamsRight
<1>4. PICK t : Ends(b, s, d, l, f, t) /\ (t = s \/ BuiltinOutcome(b, s, t))
  BY <1>b, <1>3, BuiltinRight
<1>5. PICK d2, l2 : Arrives(Command(b), Regs(s, d, l, f), Regs(t, d2, l2, f))
  BY <1>4 DEF Ends
<1>6. Simulates(Regs(t, d2, l2, f))'
  BY <1>1, <1>2, <1>5, BeginSimulates
<1>7. t = s \/ Pushed([stack |-> s, binding |-> f], t)
  BY <1>4 DEF Pushed
<1>8. Follows(g, Regs(t, d2, l2, f))
  BY <1>2, <1>7, PushFollows
<1> QED BY <1>6, <1>8

LEMMA SingleUpdated ==
  ASSUME NEW f, f = [s \in Syms |-> f[s]], Single(f), NEW x, NEW w, w = <<>> \/ w = <<Top(w)>>
  PROVE  Single([f EXCEPT ![x] = w])
BY DEF Single

LEMMA GivesThree ==
  ASSUME NEW i, NEW j, NEW k, NEW a, NEW b, NEW c, NEW d,
         Gives(i, a, b), Gives(j, b, c), Gives(k, c, d)
  PROVE  Arrives(<<i, j, k>>, a, d)
<1>1. /\ Ready(i, a) /\ b = Effect(i, a) /\ Ready(j, b) /\ c = Effect(j, b)
      /\ Ready(k, c) /\ d = Effect(k, c)
  BY DEF Gives
<1> QED BY <1>1, ArrivesThree

(* The value of a name is copied to the stack.                             *)
LEMMA EvalRight ==
  ASSUME Side, Idle, NEW D, NEW V, NEW rank, NEW g, Settled(D, V, rank, g), Single(g.binding),
         NEW x \in Syms, Eval(x)
  PROVE  \E g2 : Simulates(g2)' /\ Follows(g, g2)
<1>1. symtab[x].body # 0 /\ Begin(<<Copy(Body(x), S(0), "stck")>>)
  BY DEF Eval
<1>2. PICK s, d, l, f : s = V[root["stck"]] /\ d = V[root["dump"]] /\ l = V[root["l"]] /\ f = g.binding
  OBVIOUS
<1>b. g = Regs(s, d, l, f) /\ Single(f) /\ f = [y \in Syms |-> V[Bodies[y]]]
  BY <1>2, SettledRegs
<1>3. g = Regs(s, d, l, f) /\ Single(f) /\ f[x] = V[symtab[x].body]
  BY <1>b DEF Bodies
<1>4. f[x] # <<>>
  <2>1. TypeOK /\ Valued(memory, D, V, rank) /\ symtab[x].body \in D \cup {0}
    BY IdleFacts DEF Within, Bodies
  <2> QED BY <1>1, <1>3, <2>1, ValueRest
<1>5. f[x] = <<Top(f[x])>>
  BY <1>3, <1>4 DEF Single
<1>6. PICK q : q = On(Top(f[x]), s)
  OBVIOUS
<1>7. Gives(Copy(Body(x), S(0), "stck"), Regs(s, d, l, f), Regs(q, d, <<>>, f))
  BY <1>4, <1>6, StackValues, CopyStep
<1>8. Arrives(<<Copy(Body(x), S(0), "stck")>>, g, Regs(q, d, <<>>, f))
  BY <1>3, <1>7, GivesOne
<1>9. Simulates(Regs(q, d, <<>>, f))'
  BY <1>1, <1>8, BeginSimulates
<1>10. q = f[x] \o s
  BY <1>5, <1>6 DEF On
<1>11. Pushed([stack |-> s, binding |-> f], q)
  BY <1>4, <1>10 DEF Pushed
<1>12. Follows(g, Regs(q, d, <<>>, f))
  BY <1>3, <1>11, PushFollows
<1> QED BY <1>9, <1>12

LEMMA AssignFollows ==
  ASSUME NEW s, NEW d, NEW l, NEW f, NEW t, NEW d2, NEW l2, NEW w, Single(f),
         f = [y \in Syms |-> f[y]], NEW x \in VarSyms,
         \/ s # <<>> /\ t = SubSeq(s, 2, Len(s)) /\ w = <<s[1]>>
         \/ t = s /\ w = <<>>
  PROVE  Follows(Regs(s, d, l, f), Regs(t, d2, l2, [f EXCEPT ![x] = w]))
<1>1. PICK h : h = [f EXCEPT ![x] = w]
  OBVIOUS
<1>2. /\ View(Regs(s, d, l, f)) = [stack |-> s, binding |-> f]
      /\ View(Regs(t, d2, l2, h)) = [stack |-> t, binding |-> h]
      /\ Regs(t, d2, l2, h).binding = h
  BY RegsFacts
<1>3. Assigned([stack |-> s, binding |-> f], [stack |-> t, binding |-> h])
  BY <1>1 DEF Assigned
<1>4. w = <<>> \/ w = <<Top(w)>>
  BY DEF Top
<1>5. Single(h)
  BY <1>1, <1>4, SingleUpdated
<1> QED BY <1>1, <1>2, <1>3, <1>5 DEF Follows, Outcome

LEMMA AssignRight ==
  ASSUME Side, Idle, NEW D, NEW V, NEW rank, NEW g, Settled(D, V, rank, g), Single(g.binding),
         NEW x \in VarSyms, Assign(x)
  PROVE  \E g2 : Simulates(g2)' /\ Follows(g, g2)
<1>1. root.stck # 0 /\ Begin(<<Copy(S(0), Nil, "l"), Pop("stck"), SetVar(x)>>)
  BY DEF Assign
<1>2. PICK s, d, l, f : s = V[root["stck"]] /\ d = V[root["dump"]] /\ l = V[root["l"]] /\ f = g.binding
  OBVIOUS
<1>b. g = Regs(s, d, l, f) /\ Single(f) /\ f = [y \in Syms |-> V[Bodies[y]]]
  BY <1>2, SettledRegs
<1>3. g = Regs(s, d, l, f) /\ Single(f) /\ f = [y \in Syms |-> f[y]]
  BY <1>b
<1>4. PICK T : s \in Seq(T)
  BY <1>2, SettledRegs
<1>5. s # <<>>
  <2>1. TypeOK /\ Valued(memory, D, V, rank) /\ root["stck"] \in D \cup {0}
    BY IdleFacts, RootNamesType DEF Within
  <2> QED BY <1>1, <1>2, <2>1, ValueRest
<1>6. PICK w : w = On(Top(s), <<>>)
  OBVIOUS
<1>7. PICK h : h = [f EXCEPT ![x] = w]
  OBVIOUS
<1>8. Gives(Copy(S(0), Nil, "l"), Regs(s, d, l, f), Regs(s, d, w, f))
  BY <1>5, <1>6, StackValues, CopyStep
<1>9. Gives(Pop("stck"), Regs(s, d, w, f), Regs(Rest(s), d, w, f))
  BY OtherSteps
<1>10. Gives(SetVar(x), Regs(Rest(s), d, w, f), Regs(Rest(s), d, <<>>, h))
  BY <1>7, OtherSteps
<1>11. Arrives(<<Copy(S(0), Nil, "l"), Pop("stck"), SetVar(x)>>, g, Regs(Rest(s), d, <<>>, h))
  BY <1>3, <1>8, <1>9, <1>10, GivesThree
<1>12. Simulates(Regs(Rest(s), d, <<>>, h))'
  BY <1>1, <1>11, BeginSimulates
<1>13. Rest(s) = SubSeq(s, 2, Len(s)) /\ w = <<s[1]>>
  BY <1>4, <1>6, Tops, OnNone
<1>14. Follows(g, Regs(Rest(s), d, <<>>, h))
  BY <1>3, <1>5, <1>7, <1>13, AssignFollows
<1> QED BY <1>12, <1>14

LEMMA UnassignRight ==
  ASSUME Side, Idle, NEW D, NEW V, NEW rank, NEW g, Settled(D, V, rank, g), Single(g.binding),
         NEW x \in VarSyms, Unassign(x)
  PROVE  \E g2 : Simulates(g2)' /\ Follows(g, g2)
<1>1. /\ symtab' = [symtab EXCEPT ![x] = [@ EXCEPT !.body = 0, !.is_root = TRUE]]
      /\ memory' = memory /\ memoryindex' = memoryindex /\ mem_low' = mem_low
      /\ root' = root /\ variable_busy' = variable_busy /\ code' = code
      /\ flibrary_busy' = flibrary_busy /\ pend' = pend /\ gc' = gc
  BY DEF Unassign, heapVars
<1>2. /\ gc = "off" /\ pend = NoPend /\ code = <<>> /\ Machine(D, V, rank, root, Bodies)
      /\ Within(D, root, Bodies) /\ BodiesSafe(Bodies) /\ TypeOK /\ Valued(memory, D, V, rank)
  BY IdleFacts
<1>3. x \in Syms
  BY HeapAssumption DEF Syms
<1>4. PICK R2, B2 : R2 = root' /\ B2 = Bodies'
  OBVIOUS
<1>5. R2 = root /\ B2 = [Bodies EXCEPT ![x] = 0]
  BY <1>1, <1>2, <1>3, <1>4 DEF Bodies, TypeOK, Entry
<1>6. Within(D, R2, B2)
  BY <1>2, <1>5 DEF Within
<1>7. BodiesSafe(B2)'
  <2>1. ASSUME NEW y \in Syms, y # x PROVE B2[y] = Bodies[y] /\ symtab'[y] = symtab[y]
    BY <1>1, <1>2, <1>5, <2>1 DEF TypeOK, Bodies
  <2>2. B2[x] = 0
    BY <1>3, <1>5 DEF Bodies
  <2> QED BY <1>1, <1>2, <2>1, <2>2 DEF BodiesSafe
<1>8. Machine(D, V, rank, R2, B2)'
  BY <1>1, <1>2, <1>4, <1>6, <1>7, RestMachine
<1>9. PICK s, d, l, f : s = V[root["stck"]] /\ d = V[root["dump"]] /\ l = V[root["l"]] /\ f = g.binding
  OBVIOUS
<1>10. g = Regs(s, d, l, f) /\ Single(f) /\ f = [y \in Syms |-> V[Bodies[y]]]
  BY <1>9, SettledRegs
<1>11. PICK h : h = [f EXCEPT ![x] = <<>>]
  OBVIOUS
<1>12. Plain(V, R2, B2) = Regs(s, d, l, h)
  <2>1. h = [y \in Syms |-> V[B2[y]]]
    BY <1>2, <1>3, <1>5, <1>10, <1>11 DEF Valued, Sound, Bodies
  <2> QED BY <1>5, <1>9, <2>1 DEF Plain, Regs, Target
<1>13. Arrives(<<>>, Regs(s, d, l, h), Regs(s, d, l, h))
  BY ArrivesEnd
<1>14. Registers(V, R2, B2)' = Regs(s, d, l, h)
  BY <1>1, <1>2, <1>12 DEF Registers, Plain, NoPend
<1>15. Arrives(code, Registers(V, R2, B2), Regs(s, d, l, h))'
  BY <1>1, <1>2, <1>13, <1>14 DEF Arrives
<1>16. Simulates(Regs(s, d, l, h))'
  BY <1>8, <1>15 DEF Simulates
<1>17. Follows(g, Regs(s, d, l, h))
  BY <1>10, <1>11, AssignFollows
<1> QED BY <1>16, <1>17

(* gc: the heap is about to be copied, its values stay.                    *)
LEMMA CollectRight ==
  ASSUME Side, Idle, NEW D, NEW V, NEW rank, NEW g, Settled(D, V, rank, g), Single(g.binding), Collect
  PROVE  \E g2 : Simulates(g2)' /\ Follows(g, g2)
<1>1. /\ DInv /\ gc = "off" /\ pend = NoPend /\ code = <<>>
      /\ Within(D, root, Bodies) /\ BodiesSafe(Bodies) /\ Valued(memory, D, V, rank)
  BY IdleFacts
<1>2. /\ StartGc /\ UNCHANGED <<flibrary_busy, symtab, variable_busy>>
      /\ root' = root /\ code' = code /\ pend' = pend
  BY DEF Collect, symVars
<1>3. PICK R, B : R = root /\ B = Bodies
  OBVIOUS
<1>4. Machine(D, V, rank, R, B)'
  BY <1>1, <1>2, <1>3, StartGcMachine
<1>5. Registers(V, R, B)' = g
  BY <1>1, <1>2, <1>3 DEF Registers, Plain, Settled, NoPend
<1>6. Arrives(code, Registers(V, R, B), g)'
  <2>1. Arrives(<<>>, g, g)
    BY ArrivesEnd
  <2>2. code' = <<>>
    BY <1>1, <1>2
  <2> QED BY <1>5, <2>1, <2>2 DEF Arrives
<1>7. Simulates(g)'
  BY <1>4, <1>6 DEF Simulates
<1>8. Follows(g, g)
  BY DEF Follows, Outcome
<1> QED BY <1>7, <1>8

-----------------------------------------------------------------------------
(* repl drops what lies above mem_low: the definitions keep their values.  *)
LEMMA DefineMachine ==
  ASSUME Side, Separate, Idle, NEW D, NEW V, NEW rank, NEW g, Settled(D, V, rank, g),
         NEW x \in DefSyms, NEW v, NEW quoted, Define(x, v, quoted),
         NEW E, E = {n \in D : n < mem_low}, NEW R, R = root', NEW B, B = Bodies
  PROVE  /\ Machine(E, V, rank, R, B)'
         /\ Plain(V, R, B) = Regs(<<>>, <<>>, <<>>, g.binding)
<1>1. /\ root' = [r \in RootSet |-> IF r = "prog" THEN root.prog ELSE 0]
      /\ memoryindex' = mem_low /\ flibrary_busy' = TRUE /\ memory' = memory
      /\ mem_low' = mem_low /\ symtab' = symtab /\ variable_busy' = variable_busy
      /\ pend' = pend /\ gc' = gc
  BY DEF Define, symVars
<1>2. /\ gc = "off" /\ pend = NoPend /\ Within(D, root, Bodies) /\ BodiesSafe(Bodies)
      /\ TypeOK /\ DInv /\ Valued(memory, D, V, rank) /\ ~flibrary_busy
      /\ D \subseteq 1 .. memoryindex - 1 /\ mem_low \in Nat /\ memoryindex \in Nat
  BY IdleFacts
<1>3. VarSyms = {} /\ x \in Syms
  BY HeapAssumption DEF Separate, Syms
<1>4. DefinitionsClosed /\ root["prog"] = 0 /\ mem_low <= memoryindex
  BY <1>2 DEF DInv, ProgEmpty, Low
<1>5. Sound(memory, D, V, rank) /\ memory[0] = Blank
  BY <1>2 DEF Valued
<1>6. E \subseteq D /\ E \subseteq 1 .. mem_low - 1
  <2>1. ASSUME NEW n \in E PROVE n \in D /\ n \in 1 .. mem_low - 1
    <3>1. n \in 1 .. memoryindex - 1 /\ n < mem_low
      BY <1>2
    <3> QED BY <1>2, <3>1
  <2> QED BY <2>1
<1>7. Sound(memory, E, V, rank)
  <2>1. ASSUME NEW n \in E PROVE SoundNode(memory[n], n, E, V, rank)
    <3>1. SoundNode(memory[n], n, D, V, rank)
      BY <1>5, <1>6 DEF Sound
    <3>2. n \in 0 .. mem_low - 1
      BY <1>2, <1>6
    <3>3. memory[n].next < mem_low /\ (memory[n].op = "LIST" => memory[n].u < mem_low)
      BY <1>4, <3>2 DEF DefinitionsClosed, Closed
    <3> QED BY <3>1, <3>3 DEF SoundNode, Reaches
  <2> QED BY <1>5, <1>6, <2>1 DEF Sound
<1>8. Valued(HeapNow, E, V, rank)'
  <2>1. Valued(memory, E, V, rank)
    BY <1>2, <1>7 DEF Valued
  <2> QED BY <1>1, <1>2, <2>1 DEF Valued, HeapNow, Sound
<1>9. \A s \in Syms : B[s] \in E \cup {0}
  <2>1. ASSUME NEW s \in Syms PROVE B[s] < mem_low /\ B[s] \in D \cup {0}
    BY <1>2, <1>3 DEF BodiesSafe, Within
  <2> QED BY <2>1
<1>10. \A r \in RootSet : R[r] = 0
  BY <1>1, <1>4
<1>11. Within(E, R, B)
  <2>1. R \in [RootSet -> E \cup {0}]
    BY <1>1, <1>10
  <2>2. B \in [Syms -> E \cup {0}]
    BY <1>9 DEF Bodies
  <2> QED BY <2>1, <2>2 DEF Within
<1>12. BodiesSafe(B)'
  BY <1>1, <1>3 DEF BodiesSafe
<1>13. B = Bodies'
  BY <1>1 DEF Bodies
<1>14. Machine(E, V, rank, R, B)'
  BY <1>1, <1>2, <1>6, <1>8, <1>11, <1>12, <1>13 DEF Machine, Within
<1>15. Plain(V, R, B) = Regs(<<>>, <<>>, <<>>, g.binding)
  <2>1. V[0] = <<>> /\ Target \subseteq RootSet
    BY <1>5, RootNamesType DEF Sound
  <2>2. g.binding = [s \in Syms |-> V[B[s]]]
    BY SettledRegs
  <2> QED BY <1>10, <2>1, <2>2 DEF Plain, Regs
<1> QED BY <1>14, <1>15

(* A program in two parts.                                                 *)
LEMMA ArrivesJoin ==
  ASSUME NEW I, NEW p \in Seq(I), NEW q \in Seq(I), NEW a, NEW b, NEW c,
         Arrives(p, a, b), Arrives(q, b, c)
  PROVE  Arrives(p \o q, a, c)
<1>1. PICK t : /\ t[1] = a /\ t[Len(p) + 1] = b
               /\ \A k \in 1 .. Len(p) : Ready(p[k], t[k]) /\ t[k + 1] = Effect(p[k], t[k])
  BY DEF Arrives
<1>2. PICK u : /\ u[1] = b /\ u[Len(q) + 1] = c
               /\ \A k \in 1 .. Len(q) : Ready(q[k], u[k]) /\ u[k + 1] = Effect(q[k], u[k])
  BY DEF Arrives
<1> DEFINE r == p \o q
           s == [k \in 1 .. Len(p) + Len(q) + 1 |-> IF k <= Len(p) THEN t[k] ELSE u[k - Len(p)]]
<1>3. /\ Len(p) \in Nat /\ Len(q) \in Nat /\ Len(r) = Len(p) + Len(q)
      /\ \A k \in 1 .. Len(p) + Len(q) : r[k] = IF k <= Len(p) THEN p[k] ELSE q[k - Len(p)]
  BY ConcatProperties
<1>4. s[1] = a /\ s[Len(r) + 1] = c
  <2>1. 1 \in 1 .. Len(p) + Len(q) + 1 /\ (1 <= Len(p) \/ Len(p) = 0)
    BY <1>3
  <2>2. s[1] = a
    BY <1>1, <1>2, <1>3, <2>1
  <2>3. /\ Len(r) + 1 \in 1 .. Len(p) + Len(q) + 1 /\ ~(Len(r) + 1 <= Len(p))
        /\ Len(r) + 1 - Len(p) = Len(q) + 1
    BY <1>3
  <2> QED BY <1>2, <2>2, <2>3
<1>5. ASSUME NEW k \in 1 .. Len(r) PROVE Ready(r[k], s[k]) /\ s[k + 1] = Effect(r[k], s[k])
  <2>1. k \in 1 .. Len(p) + Len(q) + 1 /\ k + 1 \in 1 .. Len(p) + Len(q) + 1 /\ k \in Nat
    BY <1>3
  <2>2. CASE k <= Len(p)
    <3>1. k \in 1 .. Len(p) /\ r[k] = p[k] /\ s[k] = t[k]
      BY <1>3, <2>1, <2>2
    <3>2. s[k + 1] = t[k + 1]
      <4>1. CASE k = Len(p)
        <5>1. ~(k + 1 <= Len(p)) /\ k + 1 - Len(p) = 1
          BY <1>3, <4>1
        <5> QED BY <1>1, <1>2, <2>1, <4>1, <5>1
      <4>2. CASE k # Len(p)
        <5>1. k + 1 <= Len(p)
          BY <1>3, <2>1, <2>2, <4>2
        <5> QED BY <2>1, <5>1
      <4> QED BY <4>1, <4>2
    <3> HIDE DEF r, s
    <3> QED BY <1>1, <3>1, <3>2
  <2>3. CASE ~(k <= Len(p))
    <3>1. /\ k - Len(p) \in 1 .. Len(q) /\ r[k] = q[k - Len(p)] /\ s[k] = u[k - Len(p)]
      BY <1>3, <2>1, <2>3
    <3>2. s[k + 1] = u[k - Len(p) + 1]
      <4>1. ~(k + 1 <= Len(p)) /\ k + 1 - Len(p) = k - Len(p) + 1
        BY <1>3, <2>1, <2>3
      <4> QED BY <2>1, <4>1
    <3> HIDE DEF r, s
    <3> QED BY <1>2, <3>1, <3>2
  <2> QED BY <2>2, <2>3
<1> HIDE DEF r, s
<1>6. Arrives(r, a, c)
  BY <1>4, <1>5 DEF Arrives
<1> QED BY <1>6 DEF r

LEMMA ReadRight ==
  ASSUME NEW x, NEW v, NEW quoted \in BOOLEAN, NEW f,
         NEW w, w = IF quoted THEN <<"list", << <<"num", v>> >> >> ELSE <<"num", v>>
  PROVE  Arrives(ReadBody(x, v, quoted) \o <<InitMem2>>, Regs(<<>>, <<>>, <<>>, f),
                 Regs(<<>>, <<>>, <<>>, [f EXCEPT ![x] = <<w>>]))
<1>1. PICK n : n = <<"num", v>>
  OBVIOUS
<1>2. PICK q : q = On(n, <<>>)
  OBVIOUS
<1>3. PICK u : u = On(w, <<>>)
  OBVIOUS
<1>4. PICK t : t = On(<<"list", u>>, <<>>)
  OBVIOUS
<1>5. PICK h : h = [f EXCEPT ![x] = u]
  OBVIOUS
<1>6. u = <<w>> /\ q = <<n>>
  BY <1>2, <1>3, OnNone
<1>7. Gives(Lit("INTEGER", 0, v, Nil, "l"), Regs(<<>>, <<>>, <<>>, f), Regs(<<>>, <<>>, q, f))
  BY <1>1, <1>2, StackValues, LitStep
<1>8. Gives(List(Temp, S(0), "stck"), Regs(<<>>, <<>>, u, f), Regs(t, <<>>, <<>>, f))
  BY <1>4, StackValues, ListStep
<1>9. Rest(t) = <<>> /\ InList(t) = u
  <2>1. PICK y : y = <<"list", u>>
    OBVIOUS
  <2>2. t = <<y>>
    BY <1>4, <2>1, OnNone
  <2>3. t # <<>> /\ t[1] = y /\ Tail(t) = <<>>
    BY <2>2
  <2> QED BY <2>1, <2>3 DEF Rest, InList
<1>10. Gives(SetBody(x), Regs(t, <<>>, <<>>, f), Regs(<<>>, <<>>, <<>>, h))
  BY <1>5, <1>9, OtherSteps
<1>11. Gives(InitMem2, Regs(<<>>, <<>>, <<>>, h), Regs(<<>>, <<>>, <<>>, h))
  BY OtherSteps
<1> DEFINE first == <<Lit("INTEGER", 0, v, Nil, "l")>>
           inner == IF quoted THEN <<List(Temp, Nil, "l")>> ELSE <<>>
           last  == <<List(Temp, S(0), "stck"), SetBody(x)>>
           end   == <<InitMem2>>
<1>12. Arrives(first, Regs(<<>>, <<>>, <<>>, f), Regs(<<>>, <<>>, q, f))
  BY <1>7, GivesOne
<1>13. Arrives(inner, Regs(<<>>, <<>>, q, f), Regs(<<>>, <<>>, u, f))
  <2>1. CASE quoted
    <3>1. w = <<"list", q>>
      BY <1>1, <1>6, <2>1
    <3>2. Gives(List(Temp, Nil, "l"), Regs(<<>>, <<>>, q, f), Regs(<<>>, <<>>, u, f))
      BY <1>3, <3>1, StackValues, ListToL
    <3> QED BY <2>1, <3>2, GivesOne
  <2>2. CASE ~quoted
    <3>1. u = q /\ inner = <<>>
      BY <1>1, <1>6, <2>2
    <3> QED BY <3>1, ArrivesEnd
  <2> QED BY <2>1, <2>2
<1>14. Arrives(last, Regs(<<>>, <<>>, u, f), Regs(<<>>, <<>>, <<>>, h))
  BY <1>8, <1>10, GivesTwo
<1>15. Arrives(end, Regs(<<>>, <<>>, <<>>, h), Regs(<<>>, <<>>, <<>>, h))
  BY <1>11, GivesOne
<1>16. ReadBody(x, v, quoted) \o <<InitMem2>> = ((first \o inner) \o last) \o end
  BY DEF ReadBody
<1> DEFINE I == {Lit("INTEGER", 0, v, Nil, "l"), List(Temp, Nil, "l"), List(Temp, S(0), "stck"),
                 SetBody(x), InitMem2}
<1>17. first \in Seq(I) /\ inner \in Seq(I) /\ last \in Seq(I) /\ end \in Seq(I)
  OBVIOUS
<1> HIDE DEF first, inner, last, end, I
<1>18. first \o inner \in Seq(I) /\ (first \o inner) \o last \in Seq(I)
  BY <1>17, ConcatProperties
<1>19. Arrives(first \o inner, Regs(<<>>, <<>>, <<>>, f), Regs(<<>>, <<>>, u, f))
  BY <1>12, <1>13, <1>17, ArrivesJoin
<1>20. Arrives((first \o inner) \o last, Regs(<<>>, <<>>, <<>>, f), Regs(<<>>, <<>>, <<>>, h))
  BY <1>14, <1>17, <1>18, <1>19, ArrivesJoin
<1>21. Arrives(((first \o inner) \o last) \o end, Regs(<<>>, <<>>, <<>>, f), Regs(<<>>, <<>>, <<>>, h))
  BY <1>15, <1>17, <1>18, <1>20, ArrivesJoin
<1> QED BY <1>5, <1>6, <1>16, <1>21

LEMMA DefineRight ==
  ASSUME Side, Separate, Idle, NEW D, NEW V, NEW rank, NEW g, Settled(D, V, rank, g), Single(g.binding),
         NEW x \in DefSyms, NEW v \in Nums, NEW quoted \in BOOLEAN, Define(x, v, quoted)
  PROVE  \E g2 : Simulates(g2)' /\ Follows(g, g2)
<1>1. PICK f : f = g.binding
  OBVIOUS
<1>2. PICK w : w = IF quoted THEN <<"list", << <<"num", v>> >> >> ELSE <<"num", v>>
  OBVIOUS
<1>3. PICK h : h = [f EXCEPT ![x] = <<w>>]
  OBVIOUS
<1>4. PICK E, R, B : E = {n \in D : n < mem_low} /\ R = root' /\ B = Bodies
  OBVIOUS
<1>5. Machine(E, V, rank, R, B)' /\ Plain(V, R, B) = Regs(<<>>, <<>>, <<>>, f)
  BY <1>1, <1>4, DefineMachine
<1>6. pend' = NoPend /\ code' = ReadBody(x, v, quoted) \o <<InitMem2>>
  BY IdleFacts DEF Define
<1>7. Registers(V, R, B)' = Regs(<<>>, <<>>, <<>>, f)
  BY <1>5, <1>6 DEF Registers, Plain, NoPend
<1>8. Arrives(ReadBody(x, v, quoted) \o <<InitMem2>>, Regs(<<>>, <<>>, <<>>, f), Regs(<<>>, <<>>, <<>>, h))
  BY <1>2, <1>3, ReadRight
<1>9. Arrives(code, Registers(V, R, B), Regs(<<>>, <<>>, <<>>, h))'
  BY <1>6, <1>7, <1>8 DEF Arrives
<1>10. Simulates(Regs(<<>>, <<>>, <<>>, h))'
  BY <1>5, <1>9 DEF Simulates
<1>11. Follows(g, Regs(<<>>, <<>>, <<>>, h))
  <2>1. /\ View(Regs(<<>>, <<>>, <<>>, h)) = [stack |-> <<>>, binding |-> h]
        /\ Regs(<<>>, <<>>, <<>>, h).binding = h
    BY RegsFacts
  <2>2. w \in Abstract!Bodies
    <3>1. \/ w = Abstract!Num(v)
          \/ w = Abstract!Lst(<<Abstract!Num(v)>>)
      BY <1>2 DEF Abstract!Num, Abstract!Lst
    <3> QED BY <3>1 DEF Abstract!Bodies
  <2>3. View(g).binding = f
    BY <1>1 DEF View
  <2>4. Defined(View(g), [stack |-> <<>>, binding |-> h])
    BY <1>3, <2>2, <2>3 DEF Defined
  <2>5. Single(h)
    <3>1. f = [y \in Syms |-> V[Bodies[y]]]
      BY <1>1, SettledRegs
    <3>2. f = [y \in Syms |-> f[y]]
      BY <3>1
    <3>3. <<w>> = <<Top(<<w>>)>>
      BY DEF Top
    <3> QED BY <1>1, <1>3, <3>2, <3>3, SingleUpdated
  <2> QED BY <2>1, <2>4, <2>5 DEF Follows, Outcome
<1> QED BY <1>10, <1>11

LEMMA CommandRight ==
  ASSUME Side, Separate, NEW g, Idle => Simulates(g) /\ Single(g.binding), Execute \/ Collect
  PROVE  Idle /\ \E g2 : Simulates(g2)' /\ Follows(g, g2)
<1>1. Idle
  BY DEF Execute, PushNum, PushString, Builtin, Assign, Unassign, Eval, Define, EmbedDefine,
         Collect, Begin, Start
<1>2. PICK D, V, rank : Settled(D, V, rank, g)
  BY <1>1, IdleSettled
<1>3. Single(g.binding) /\ EmbedSyms = {}
  BY <1>1 DEF Separate
<1> DEFINE Goal == \E g2 : Simulates(g2)' /\ Follows(g, g2)
<1>4. ASSUME (\E v \in Nums : PushNum(v)) \/ (\E k \in StrLens : PushString(k)) PROVE Goal
  BY <1>1, <1>2, <1>3, <1>4, LiteralRight
<1>5. ASSUME NEW b \in Builtins, Builtin(b) PROVE Goal
  BY <1>1, <1>2, <1>3, <1>5, BuiltinCommandRight
<1>6. ASSUME NEW s \in VarSyms, Assign(s) PROVE Goal
  BY <1>1, <1>2, <1>3, <1>6, AssignRight
<1>7. ASSUME NEW s \in VarSyms, Unassign(s) PROVE Goal
  BY <1>1, <1>2, <1>3, <1>7, UnassignRight
<1>8. ASSUME NEW s \in Syms, Eval(s) PROVE Goal
  BY <1>1, <1>2, <1>3, <1>8, EvalRight
<1>9. ASSUME NEW s \in DefSyms, NEW v \in Nums, NEW quoted \in BOOLEAN, Define(s, v, quoted) PROVE Goal
  BY <1>1, <1>2, <1>3, <1>9, DefineRight
<1>10. ASSUME Collect PROVE Goal
  BY <1>1, <1>2, <1>3, <1>10, CollectRight
<1>11. Goal
  <2> HIDE DEF Goal
  <2> QED BY <1>3, <1>4, <1>5, <1>6, <1>7, <1>8, <1>9, <1>10 DEF Execute
<1> QED BY <1>1, <1>11

LEMMA StutterMachine ==
  ASSUME NEW D, NEW V, NEW rank, NEW R, NEW B, Machine(D, V, rank, R, B), UNCHANGED vars
  PROVE  Machine(D, V, rank, R, B)'
<1>2. /\ memory' = memory /\ memoryindex' = memoryindex /\ mem_low' = mem_low
      /\ flibrary_busy' = flibrary_busy /\ root' = root /\ symtab' = symtab
      /\ variable_busy' = variable_busy /\ code' = code /\ pend' = pend /\ gc' = gc
      /\ old_memory' = old_memory /\ forward' = forward /\ slot' = slot /\ frames' = frames
  BY DEF vars, heapVars, symVars, gcVars
<1>3. Bodies' = Bodies
  BY <1>2 DEF Bodies
<1>4. ASSUME gc = "copy" PROVE Machine(D, V, rank, R, B)'
  <2>1. RootsCopied(R, B)'
    BY <1>2, <1>4 DEF Machine, Copying, RootsCopied, Orig, SymOf, SlotRoot, Gone, Fwd, Slots
  <2>2. Sim(D, rank, Orig(R, B, slot), memory, forward, memoryindex, frames)'
    <3>1. PICK o, mem, fwd, top, fs : /\ o = Orig(R, B, slot) /\ mem = memory /\ fwd = forward
                                      /\ top = memoryindex /\ fs = frames
      OBVIOUS
    <3>2. Sim(D, rank, o, mem, fwd, top, fs)'
      BY <1>2, <1>4, <3>1, SimSame DEF Machine, Copying
    <3>3. Orig(R, B, slot)' = o
      BY <1>2, <3>1 DEF Orig, SymOf
    <3> QED BY <1>2, <3>1, <3>2, <3>3 DEF Sim
  <2> QED BY <1>2, <1>4, <2>1, <2>2, CopyingSame
<1>5. ASSUME gc # "copy" PROVE Machine(D, V, rank, R, B)'
  BY <1>2, <1>3, <1>5 DEF Machine, HeapNow, Valued, Sound, Within, BodiesSafe
<1> QED BY <1>4, <1>5

LEMMA StutterSimulates ==
  ASSUME NEW g, Simulates(g), UNCHANGED vars
  PROVE  Simulates(g)'
<1>1. PICK D, V, rank, R, B : Machine(D, V, rank, R, B) /\ Arrives(code, Registers(V, R, B), g)
  BY DEF Simulates
<1>2. Machine(D, V, rank, R, B)'
  BY <1>1, StutterMachine
<1>3. UNCHANGED <<code, pend>>
  BY DEF vars
<1>4. Registers(V, R, B)' = Registers(V, R, B)
  BY <1>3 DEF Registers, Plain, NoPend
<1>5. Arrives(code, Registers(V, R, B), g)'
  BY <1>1, <1>3, <1>4 DEF Arrives
<1> QED BY <1>2, <1>5 DEF Simulates

(* Between commands the values shown are those the proof speaks of.        *)
IdleView == \A g : Side /\ Idle /\ Simulates(g) => Visible = View(g)

LEMMA IdleShows == IdleView
<1> SUFFICES ASSUME NEW g, Side, Idle, Simulates(g) PROVE Visible = View(g)
  BY DEF IdleView
<1>1. PICK D, V, rank : Settled(D, V, rank, g)
  BY IdleSettled
<1>2. /\ g = Plain(V, root, Bodies) /\ Valued(memory, D, V, rank) /\ Within(D, root, Bodies)
  BY <1>1, IdleFacts DEF Settled
<1>3. \A n \in D \cup {0} : Values(n) = V[n]
  BY <1>2, DenoteRight DEF Valued
<1>4. View(g).stack = V[root["stck"]] /\ root["stck"] \in D \cup {0}
  BY <1>2, RootNamesType DEF View, Plain, Target, Within
<1>5. View(g).binding = [s \in Syms |-> V[Bodies[s]]] /\ \A s \in Syms : Bodies[s] \in D \cup {0}
  BY <1>2 DEF View, Plain, Within
<1>6. [s \in Syms |-> Values(symtab[s].body)] = [s \in Syms |-> V[Bodies[s]]]
  <2>1. \A s \in Syms : Bodies[s] = symtab[s].body
    BY DEF Bodies
  <2> QED BY <1>3, <1>5, <2>1
<1>7. View(g) = [stack |-> View(g).stack, binding |-> View(g).binding]
  BY DEF View
<1>8. Values(root["stck"]) = V[root["stck"]]
  BY <1>3, <1>4
<1> HIDE DEF IdleView
<1> QED BY <1>4, <1>5, <1>6, <1>7, <1>8 DEF Visible

Agrees == \E g : Simulates(g) /\ Single(g.binding) /\ Outcome(shown, View(g))

HInv == Side /\ Agrees /\ (Idle => shown = Visible)

(* Nothing has been allocated: the values are those of nil.                *)
LEMMA InitSimulates ==
  ASSUME Init
  PROVE  /\ Side
         /\ \E g : /\ Simulates(g) /\ Single(g.binding)
                   /\ View(g) = [stack |-> <<>>, binding |-> [s \in Syms |-> <<>>]]
<1> DEFINE V    == [n \in Index |-> <<>>]
           rank == [n \in Index |-> 0]
           g    == Plain(V, root, Bodies)
<1>1. /\ memory = [i \in Index |-> Blank] /\ memoryindex = 1 /\ mem_low = 1
      /\ flibrary_busy = FALSE /\ root = [r \in RootSet |-> 0]
      /\ symtab = [s \in Syms |-> [body |-> 0, is_root |-> FALSE, is_last |-> FALSE]]
      /\ code = <<>> /\ pend = NoPend /\ gc = "off"
  BY DEF Init
<1>2. Side
  <2>1. LastInv
    BY <1>1 DEF LastInv
  <2>2. PendInv
    BY <1>1 DEF PendInv
  <2>3. CodeQuiet
    BY <1>1 DEF CodeQuiet
  <2> QED BY <2>1, <2>2, <2>3, InitDInv DEF Side
<1>3. 0 \in Index
  BY HeapAssumption DEF Index
<1>4. Valued(memory, {}, V, rank)
  <2>1. V \in [Index -> Seq({})]
    OBVIOUS
  <2>2. Sound(memory, {}, V, rank)
    BY <1>3 DEF Sound
  <2>3. memory[0] = Blank
    BY <1>1, <1>3
  <2>4. \E T : V \in [Index -> Seq(T)]
    BY <2>1
  <2> HIDE DEF V, rank
  <2> QED BY <2>2, <2>3, <2>4 DEF Valued
<1>5. /\ Bodies = [s \in Syms |-> 0]
      /\ Within({}, root, Bodies)
  <2>1. Bodies = [s \in Syms |-> 0]
    BY <1>1 DEF Bodies
  <2> QED BY <1>1, <2>1 DEF Within
<1>6. BodiesSafe(Bodies)
  BY <1>1, <1>5 DEF BodiesSafe
<1>7. Machine({}, V, rank, root, Bodies)
  <2>1. HeapNow = memory
    BY <1>1 DEF HeapNow
  <2> HIDE DEF V, rank
  <2> QED BY <1>1, <1>4, <1>5, <1>6, <2>1 DEF Machine
<1>8. Simulates(g)
  <2>1. Registers(V, root, Bodies) = g
    BY <1>1 DEF Registers
  <2>2. Arrives(code, Registers(V, root, Bodies), g)
    BY <1>1, <2>1, ArrivesEnd
  <2> HIDE DEF V, rank, g
  <2> QED BY <1>7, <2>2 DEF Simulates
<1>9. View(g) = [stack |-> <<>>, binding |-> [s \in Syms |-> <<>>]]
  <2>1. "stck" \in RootSet
    BY RootNamesType
  <2> QED BY <1>1, <1>3, <1>5, <2>1 DEF View, Plain, Target
<1>10. Single(g.binding)
  BY <1>9 DEF View, Single
<1> HIDE DEF g
<1> QED BY <1>2, <1>8, <1>9, <1>10

LEMMA InitH == HInit => HInv /\ Abstract!Init
<1> SUFFICES ASSUME HInit PROVE HInv /\ Abstract!Init
  OBVIOUS
<1>1. Init /\ shown = Visible
  BY DEF HInit
<1>2. PICK g : /\ Simulates(g) /\ Single(g.binding)
               /\ View(g) = [stack |-> <<>>, binding |-> [s \in Syms |-> <<>>]]
  BY <1>1, InitSimulates
<1>3. Side /\ Idle
  BY <1>1, InitSimulates DEF Init, Idle
<1>4. shown = View(g)
  BY <1>1, <1>2, <1>3, IdleShows DEF IdleView
<1>5. Agrees
  BY <1>2, <1>4 DEF Agrees, Outcome
<1>6. Abstract!Init
  BY <1>2, <1>4 DEF Abstract!Init
<1> QED BY <1>1, <1>3, <1>5, <1>6 DEF HInv

(* The step of a command that the values are simulated in.                 *)
LEMMA NextSimulates ==
  ASSUME HInv, Separate, Next
  PROVE  Side' /\ \E g2 : Simulates(g2)' /\ Single(g2.binding) /\ Outcome(shown, View(g2))
<1>1. PICK g : Simulates(g) /\ Single(g.binding) /\ Outcome(shown, View(g))
  BY DEF HInv, Agrees
<1>2. Side
  BY DEF HInv
<1>3. Side'
  <2>1. AllocGc => pend'.op # "ILLEGAL"
    BY <1>1, <1>2, AllocGcSimulates
  <2> QED BY <1>2, <2>1, SideNext
<1>4. CASE Execute \/ Collect
  <2>1. Idle
    BY <1>4 DEF Execute, PushNum, PushString, Builtin, Assign, Unassign, Eval, Define,
                EmbedDefine, Collect, Begin, Start
  <2>2. shown = View(g)
    BY <1>1, <1>2, <2>1, IdleShows DEF HInv, IdleView
  <2>3. PICK g2 : Simulates(g2)' /\ Follows(g, g2)
    BY <1>1, <1>2, <1>4, CommandRight
  <2> QED BY <1>3, <2>2, <2>3 DEF Follows
<1>5. CASE Run \/ Allocate \/ GcStep
  BY <1>1, <1>2, <1>3, <1>5, StepSimulates
<1> QED BY <1>4, <1>5 DEF Next

(* Every step of NodeHeap is one of ValueStack or leaves it as it was.     *)
LEMMA NextH ==
  ASSUME HInv, Separate, [HNext]_hvars, IdleView'
  PROVE  HInv' /\ [Abstract!Next]_<<shown.stack, shown.binding>>
<1>1. /\ Side'
      /\ shown' = IF Idle' THEN Visible' ELSE shown
      /\ \E g2 : Simulates(g2)' /\ Single(g2.binding) /\ Outcome(shown, View(g2))
  <2>1. CASE HNext
    <3>1. Next /\ shown' = IF Idle' THEN Visible' ELSE shown
      BY <2>1 DEF HNext
    <3> QED BY <3>1, NextSimulates
  <2>2. CASE UNCHANGED hvars
    <3>1. UNCHANGED vars /\ shown' = shown
      BY <2>2 DEF hvars
    <3>2. PICK g : Simulates(g) /\ Single(g.binding) /\ Outcome(shown, View(g))
      BY DEF HInv, Agrees
    <3>3. Simulates(g)'
      BY <3>1, <3>2, StutterSimulates
    <3>4. Side'
      <4>1. Side
        BY DEF HInv
      <4>2. AllocGc => pend'.op # "ILLEGAL"
        BY <3>2, <4>1, AllocGcSimulates
      <4> QED BY <3>1, <4>1, <4>2, SideNext
    <3>5. ASSUME Idle' PROVE shown' = Visible'
      <4>1. Idle
        BY <3>1, <3>5 DEF Idle, vars
      <4>2. shown = Visible /\ Visible = View(g)
        BY <3>2, <4>1, IdleShows DEF HInv, IdleView
      <4>3. Visible' = View(g)
        BY <3>3, <3>4, <3>5 DEF IdleView
      <4> QED BY <3>1, <4>2, <4>3
    <3> QED BY <3>1, <3>2, <3>3, <3>4, <3>5
  <2> QED BY <2>1, <2>2
<1>2. PICK g : Simulates(g)' /\ Single(g.binding) /\ Outcome(shown, View(g))
  BY <1>1
<1>3. Outcome(shown, shown') /\ Outcome(shown', View(g))
  <2>1. CASE Idle'
    <3>1. shown' = View(g)
      BY <1>1, <1>2, <2>1 DEF IdleView
    <3> QED BY <1>2, <3>1 DEF Outcome
  <2>2. CASE ~Idle'
    BY <1>1, <1>2, <2>2 DEF Outcome
  <2> QED BY <2>1, <2>2
<1>4. Agrees'
  BY <1>2, <1>3 DEF Agrees
<1>5. HInv'
  BY <1>1, <1>4 DEF HInv
<1>6. [Abstract!Next]_<<shown.stack, shown.binding>>
  BY <1>3, OutcomeStep
<1> QED BY <1>5, <1>6

(***************************************************************************)
(* The node memory implements the value stack: wherever the allocator      *)
(* collects, and whenever the repl resets memory before a definition, each *)
(* command leaves the stack and the names with the values its stack effect *)
(* promises (utils.c: newnode, gc1, copy, gc2; stacks.c, aggregate.c).     *)
(***************************************************************************)
THEOREM ValuesImplemented ==
  ASSUME Separate
  PROVE  HSpec => ImplementsValueStack
<1>1. HInit => HInv /\ Abstract!Init
  BY InitH
<1>2. HInv /\ [HNext]_hvars /\ IdleView' =>
        HInv' /\ [Abstract!Next]_<<shown.stack, shown.binding>>
  BY NextH
<1>3. IdleView
  BY IdleShows
<1> QED BY <1>1, <1>2, <1>3, PTL DEF HSpec, ImplementsValueStack, Abstract!Spec

LEMMA SimulatesNext ==
  ASSUME Separate, Side, NEW g, Simulates(g), Single(g.binding), [Next]_vars
  PROVE  Side' /\ \E g2 : Simulates(g2)' /\ Single(g2.binding)
<1>1. Side'
  <2>1. AllocGc => pend'.op # "ILLEGAL"
    BY AllocGcSimulates
  <2> QED BY <2>1, SideNext
<1>2. CASE Execute \/ Collect
  BY <1>1, <1>2, CommandRight DEF Follows
<1>3. CASE Run \/ Allocate \/ GcStep
  BY <1>1, <1>3, StepSimulates
<1>4. CASE UNCHANGED vars
  BY <1>1, <1>4, StutterSimulates
<1> QED BY <1>2, <1>3, <1>4 DEF Next

(***************************************************************************)
(* A collection moves the value of the variable with the rest of the heap  *)
(* (utils.c: scan_roots): its body leads to a node in use, not into the    *)
(* memory that was released.                                               *)
(***************************************************************************)
THEOREM VariablesMoved ==
  ASSUME Separate
  PROVE  Spec => []VariablesCollected
<1> DEFINE Sims == Side /\ \E g : Simulates(g) /\ Single(g.binding)
<1>1. Init => Sims
  BY InitSimulates
<1>2. Sims /\ [Next]_vars => Sims'
  <2> SUFFICES ASSUME Sims, [Next]_vars PROVE Sims'
    OBVIOUS
  <2>1. PICK g : Simulates(g) /\ Single(g.binding)
    OBVIOUS
  <2> QED BY <2>1, SimulatesNext
<1>3. Sims => VariablesCollected
  <2> SUFFICES ASSUME Sims, gc # "copy", NEW s \in Variables
               PROVE  symtab[s].body < memoryindex
    BY DEF VariablesCollected
  <2>1. PICK g : Simulates(g)
    OBVIOUS
  <2>2. PICK D, V, rank, R, B : Machine(D, V, rank, R, B)
    BY <2>1 DEF Simulates
  <2>3. s \in Syms /\ symtab[s].body # 0
    BY HeapAssumption DEF Variables, Syms
  <2>4. symtab[s].body \in D /\ D \subseteq 1 .. memoryindex - 1
    BY <2>2, <2>3 DEF Machine, Within, Bodies
  <2>5. memoryindex \in Nat
    BY DEF Side, DInv, TInv, TypeOK, Room
  <2>6. symtab[s].body \in 1 .. memoryindex - 1
    BY <2>4
  <2> QED BY <2>5, <2>6
<1> HIDE DEF Sims
<1> QED BY <1>1, <1>2, <1>3, PTL DEF Spec

-----------------------------------------------------------------------------
(***************************************************************************)
(* Capacity.  Without strings every node that copy_one moves takes one     *)
(* place, and takes it once: the nodes moved so far, and those whose list  *)
(* is being moved, are as many as the places taken in the new memory, and  *)
(* they all lay in the old one.                                            *)
(***************************************************************************)

PlainNode(x) == x.op # "STRING" /\ x.len = 0
NumInstr == {i \in Instr : i.do = "lit" => i.op = "INTEGER" /\ i.len = 0}

NoStrings ==
  /\ \A i \in Index : PlainNode(memory[i]) /\ PlainNode(old_memory[i])
  /\ PlainNode(pend)
  /\ code \in Seq(NumInstr)

LEMMA NumInstrTypes ==
  /\ \A o \in Operand, nxt \in Operand, dst \in Target :
       Copy(o, nxt, dst) \in NumInstr /\ List(o, nxt, dst) \in NumInstr
  /\ \A u \in Nat, nxt \in Operand, dst \in Target :
       Lit("INTEGER", 0, u, nxt, dst) \in NumInstr
  /\ Pop("stck") \in NumInstr /\ Pop("dump") \in NumInstr
  /\ \A s \in DefSyms \cup EmbedSyms : SetBody(s) \in NumInstr
  /\ \A s \in VarSyms : SetVar(s) \in NumInstr
  /\ Unstack \in NumInstr /\ InitMem2 \in NumInstr /\ Abort \in NumInstr
  /\ SAVESTACK \in NumInstr
<1>1. \A o \in Operand, nxt \in Operand, dst \in Target :
       Copy(o, nxt, dst) \in NumInstr /\ List(o, nxt, dst) \in NumInstr
  BY InstrTypes DEF Copy, List, NumInstr
<1>2. \A u \in Nat, nxt \in Operand, dst \in Target :
       Lit("INTEGER", 0, u, nxt, dst) \in NumInstr
  BY InstrTypes DEF Lit, NumInstr
<1>3. /\ Pop("stck") \in NumInstr /\ Pop("dump") \in NumInstr
      /\ Unstack \in NumInstr /\ InitMem2 \in NumInstr /\ Abort \in NumInstr
  BY InstrTypes DEF Pop, Unstack, InitMem2, Abort, NumInstr
<1>4. /\ \A s \in DefSyms \cup EmbedSyms : SetBody(s) \in NumInstr
      /\ \A s \in VarSyms : SetVar(s) \in NumInstr
  BY InstrTypes DEF SetBody, SetVar, NumInstr
<1>5. SAVESTACK \in NumInstr
  BY InstrTypes DEF SAVESTACK, List, NumInstr
<1> QED BY <1>1, <1>2, <1>3, <1>4, <1>5

LEMMA NumCommand == ASSUME NEW b PROVE Command(b) \in Seq(NumInstr)
<1>1. "stck" \in Target /\ "dump" \in Target /\ "l" \in Target
  BY DEF Target
<1>2. CASE b = "dup"
  BY <1>1, <1>2, NumInstrTypes, OperandTypes DEF Command
<1>3. CASE b = "over"
  BY <1>1, <1>3, NumInstrTypes, OperandTypes DEF Command
<1>4. CASE b = "pop"
  BY <1>1, <1>4, NumInstrTypes, OperandTypes DEF Command
<1>5. CASE b = "swap"
  BY <1>1, <1>5, NumInstrTypes, OperandTypes DEF Command
<1>6. CASE b = "rotate"
  BY <1>1, <1>6, NumInstrTypes, OperandTypes DEF Command
<1>7. CASE b = "cons"
  BY <1>1, <1>7, NumInstrTypes, OperandTypes DEF Command
<1>8. CASE b = "unstack"
  BY <1>1, <1>8, NumInstrTypes, OperandTypes DEF Command
<1>9. CASE b = "stack"
  BY <1>1, <1>9, NumInstrTypes, OperandTypes DEF Command
<1>10. CASE b = "list"
  BY <1>1, <1>10, NumInstrTypes, OperandTypes DEF Command
<1>11. CASE b = "uncons"
  <2>1. <<SAVESTACK, Abort>> \in Seq(NumInstr)
    BY NumInstrTypes
  <2>2. <<SAVESTACK, Copy(First(0), S(1), "stck"),
          List(First(1), S(0), "stck"), Pop("dump")>> \in Seq(NumInstr)
    BY <1>1, NumInstrTypes, OperandTypes
  <2> QED BY <2>1, <2>2, <1>11 DEF Command
<1>12. CASE b \notin {"dup", "over", "pop", "swap", "rotate", "cons", "unstack", "stack", "list", "uncons"}
  BY <1>12 DEF Command
<1> QED BY <1>2, <1>3, <1>4, <1>5, <1>6, <1>7, <1>8, <1>9, <1>10, <1>11, <1>12

LEMMA NumBody ==
  ASSUME NEW s \in DefSyms \cup EmbedSyms, NEW v \in Nums, NEW quoted \in BOOLEAN
  PROVE  ReadBody(s, v, quoted) \in Seq(NumInstr)
         /\ ReadBody(s, v, quoted) \o <<InitMem2>> \in Seq(NumInstr)
<1>1. v \in Nat /\ "l" \in Target /\ "stck" \in Target
  BY HeapAssumption DEF Target
<1>2. <<Lit("INTEGER", 0, v, Nil, "l")>> \in Seq(NumInstr)
  BY <1>1, NumInstrTypes, OperandTypes
<1>3. (IF quoted THEN <<List(Temp, Nil, "l")>> ELSE <<>>) \in Seq(NumInstr)
  BY <1>1, NumInstrTypes, OperandTypes
<1>4. <<List(Temp, S(0), "stck"), SetBody(s)>> \in Seq(NumInstr) /\ <<InitMem2>> \in Seq(NumInstr)
  BY <1>1, NumInstrTypes, OperandTypes
<1>5. ReadBody(s, v, quoted) \in Seq(NumInstr)
  BY <1>2, <1>3, <1>4, ConcatProperties DEF ReadBody
<1> QED BY <1>4, <1>5, ConcatProperties

(* Where there are no strings no command asks for one.                     *)
LEMMA ExecuteNums ==
  ASSUME StrLens = {}, Execute
  PROVE  \/ \E program \in Seq(NumInstr) : Begin(program)
         \/ \E s \in VarSyms : Unassign(s)
         \/ \E s \in DefSyms, v \in Nums, quoted \in BOOLEAN : Define(s, v, quoted)
<1> DEFINE Begins == \E program \in Seq(NumInstr) : Begin(program)
<1>0. "l" \in Target /\ "stck" \in Target /\ VarSyms \subseteq Syms
  BY HeapAssumption DEF Target, Syms
<1>1. ASSUME NEW v \in Nums, PushNum(v) PROVE Begins
  <2>1. <<Lit("INTEGER", 0, v, S(0), "stck")>> \in Seq(NumInstr)
    BY <1>0, NumInstrTypes, OperandTypes, HeapAssumption
  <2> QED BY <1>1, <2>1 DEF PushNum
<1>2. ASSUME NEW b \in Builtins, Builtin(b) PROVE Begins
  BY <1>2, NumCommand DEF Builtin
<1>3. ASSUME NEW s \in VarSyms, Assign(s) PROVE Begins
  <2>1. <<Copy(S(0), Nil, "l"), Pop("stck"), SetVar(s)>> \in Seq(NumInstr)
    BY <1>0, NumInstrTypes, OperandTypes
  <2> QED BY <1>3, <2>1 DEF Assign
<1>4. ASSUME NEW s \in Syms, Eval(s) PROVE Begins
  <2>1. <<Copy(Body(s), S(0), "stck")>> \in Seq(NumInstr)
    BY <1>0, NumInstrTypes, OperandTypes
  <2> QED BY <1>4, <2>1 DEF Eval
<1>5. ASSUME NEW s \in EmbedSyms, NEW v \in Nums, NEW quoted \in BOOLEAN, EmbedDefine(s, v, quoted)
      PROVE Begins
  BY <1>5, NumBody DEF EmbedDefine
<1> QED BY <1>1, <1>2, <1>3, <1>4, <1>5 DEF Execute

(* What is asked of newnode is one node, and what it builds is plain.      *)
LEMMA RequestPlain ==
  ASSUME TypeOK, NoStrings, Allocates
  PROVE  LET q == Request(Head(code)) IN q \in Requests /\ PlainNode(q)
<1> DEFINE i == Head(code)
<1>1. code # <<>> /\ i.do \in {"lit", "copy", "list"}
  BY DEF Allocates
<1>2. i \in Instr /\ i \in NumInstr
  <2>1. code \in Seq(NumInstr)
    BY DEF NoStrings
  <2> QED BY <1>1, <2>1, TailType
<1>3. Request(i) \in Requests
  BY <1>1, <1>2, RequestType
<1> SUFFICES PlainNode(Request(i))
  BY <1>3
<1>4. CASE i.do = "lit"
  BY <1>2, <1>4 DEF Request, NumInstr, PlainNode
<1>5. CASE i.do = "copy"
  <2>1. At(i.src) \in Index
    BY <1>2, <1>5, AtType DEF Instr
  <2> QED BY <1>5, <2>1 DEF Request, Source, PlainNode, NoStrings
<1>6. CASE i.do = "list"
  BY <1>6 DEF Request, PlainNode
<1> QED BY <1>1, <1>4, <1>5, <1>6

LEMMA BuildPlain ==
  ASSUME NEW q, NEW u, NEW nxt, PlainNode(q), Build(q, u, nxt),
         \A i \in Index : PlainNode(memory[i])
  PROVE  (\A i \in Index : PlainNode(memory'[i])) /\ memoryindex' = memoryindex + 1 + q.len
<1>1. PlainNode(Blank)
  BY DEF PlainNode, Blank
<1>2. \A i \in Index : memory'[i] \in {[op |-> q.op, len |-> q.len, next |-> nxt, u |-> u],
                                        Blank, memory[i]}
  BY DEF Build
<1>3. PlainNode([op |-> q.op, len |-> q.len, next |-> nxt, u |-> u])
  BY DEF PlainNode
<1> QED BY <1>1, <1>2, <1>3 DEF Build

LEMMA StartGcPlain ==
  ASSUME StartGc, \A i \in Index : PlainNode(memory[i])
  PROVE  \A i \in Index : PlainNode(memory'[i]) /\ PlainNode(old_memory'[i])
BY DEF StartGc, PlainNode, Blank

LEMMA LinkTailPlain ==
  ASSUME NEW mem \in [Index -> Node], NEW tail \in Index, NEW to \in Index,
         \A i \in Index : PlainNode(mem[i])
  PROVE  \A i \in Index : PlainNode(LinkTail(mem, tail, to)[i])
BY LinkedTail DEF PlainNode

LEMMA CopyPlain ==
  ASSUME TypeOK, NoStrings, GcCopyNode
  PROVE  /\ \A i \in Index : PlainNode(memory'[i])
         /\ memoryindex' = memoryindex + 1
<1> DEFINE f == Head(frames)
           old == old_memory[f.cur]
           mem == [memory EXCEPT ![memoryindex] = Moved(old)]
<1>1. frames # <<>> /\ memoryindex' = memoryindex + MovedSize(old) /\ memoryindex' <= MaxIndex + 1
      /\ (memory' = mem \/ memory' = LinkTail(mem, f.tail, memoryindex))
  BY DEF GcCopyNode
<1>2. f \in Frame /\ f.cur \in Index /\ f.tail \in Index /\ old \in Node
  <2>1. f \in Frame
    BY <1>1, FramesJoin DEF TypeOK
  <2> QED BY <2>1 DEF Frame, TypeOK
<1>3. PlainNode(old) /\ MovedSize(old) = 1
  BY <1>2 DEF NoStrings, PlainNode, MovedSize
<1>4. memoryindex \in Index
  BY <1>1, <1>3, HeapAssumption DEF TypeOK, Room, Index
<1>5. Moved(old) \in Node /\ PlainNode(Moved(old))
  BY <1>2, <1>3, MovedType DEF Moved, PlainNode
<1>6. mem \in [Index -> Node] /\ \A i \in Index : PlainNode(mem[i])
  BY <1>4, <1>5 DEF TypeOK, NoStrings
<1> HIDE DEF mem, f, old
<1>7. \A i \in Index : PlainNode(LinkTail(mem, f.tail, memoryindex)[i])
  BY <1>2, <1>4, <1>6, LinkTailPlain
<1> QED BY <1>1, <1>3, <1>6, <1>7

LEMMA ChainPlain ==
  ASSUME TypeOK, NoStrings, GcChainEnd
  PROVE  \A i \in Index : PlainNode(memory'[i])
<1> DEFINE f == Head(frames)
           g == Head(Tail(frames))
           target == IF f.cur < mem_low THEN f.cur ELSE forward[f.cur]
           result == IF f.head = 0 THEN target ELSE f.head
           mem == LinkTail(memory, f.tail, target)
           mem2 == [mem EXCEPT ![g.dest].u = result]
<1>1. frames # <<>>
      /\ (memory' = mem \/ (Tail(frames) # <<>> /\ memory' = LinkTail(mem2, g.tail, g.dest)))
  BY DEF GcChainEnd
<1>2. f \in Frame /\ (Tail(frames) # <<>> => g \in Frame)
  BY <1>1 DEF TypeOK
<1>3. f.cur \in Index /\ f.tail \in Index /\ target \in Index /\ result \in Index
  BY <1>2 DEF Frame, TypeOK
<1>4. mem \in [Index -> Node] /\ \A i \in Index : PlainNode(mem[i])
  BY <1>3, LinkedTail, LinkTailPlain DEF TypeOK, NoStrings
<1> HIDE DEF mem, f, target, result
<1>5. ASSUME Tail(frames) # <<>>
      PROVE  \A i \in Index : PlainNode(LinkTail(mem2, g.tail, g.dest)[i])
  <2>1. g.dest \in Index /\ g.tail \in Index
    BY <1>2, <1>5 DEF Frame
  <2>2. mem2 \in [Index -> Node]
    BY <1>3, <1>4, <2>1, SetLisType
  <2>3. \A i \in Index : PlainNode(mem2[i])
    BY <1>3, <1>4, <2>1 DEF PlainNode, Node
  <2> HIDE DEF mem2, g
  <2> QED BY <2>1, <2>2, <2>3, LinkTailPlain
<1> HIDE DEF mem2, g
<1> QED BY <1>1, <1>4, <1>5

LEMMA NoStringsNext ==
  ASSUME StrLens = {}, TypeOK, NoStrings, [Next]_vars
  PROVE  NoStrings'
<1> DEFINE Heaps == \A i \in Index : PlainNode(memory'[i]) /\ PlainNode(old_memory'[i])
<1>1. ASSUME UNCHANGED <<memory, old_memory>> PROVE Heaps
  BY <1>1 DEF NoStrings
<1>2. ASSUME code # <<>>, code' = Tail(code) PROVE code' \in Seq(NumInstr)
  BY <1>2 DEF NoStrings
<1>3. PlainNode(NoPend)
  BY DEF PlainNode, NoPend
<1>4. CASE AllocFits \/ AllocLibrary
  <2> DEFINE q == Request(Head(code))
  <2>1. /\ Build(q, q.u, At(Head(code).nxt)) /\ code # <<>> /\ code' = Tail(code)
        /\ pend' = pend /\ old_memory' = old_memory /\ Allocates
    BY <1>4 DEF AllocFits, AllocLibrary, Allocates, gcVars
  <2>2. PlainNode(q)
    BY <2>1, RequestPlain
  <2> HIDE DEF q
  <2>3. \A i \in Index : PlainNode(memory'[i])
    BY <2>1, <2>2, BuildPlain DEF NoStrings
  <2> QED BY <1>2, <2>1, <2>3 DEF NoStrings
<1>5. CASE AllocGc
  <2> DEFINE q == Request(Head(code))
  <2>1. /\ StartGc /\ code # <<>> /\ code' = Tail(code) /\ Allocates
        /\ pend' = [q EXCEPT !.u = IF q.op = "LIST" THEN 0 ELSE @]
    BY <1>5 DEF AllocGc, Allocates
  <2>2. q \in Requests /\ PlainNode(q)
    BY <2>1, RequestPlain
  <2>3. PlainNode(pend')
    BY <2>1, <2>2 DEF PlainNode, Requests
  <2>4. Heaps
    BY <2>1, StartGcPlain DEF NoStrings
  <2> QED BY <1>2, <2>1, <2>3, <2>4 DEF NoStrings
<1>6. CASE AllocResume
  <2>1. /\ Build(pend, IF pend.op = "LIST" THEN root.l ELSE pend.u, root.r)
        /\ pend' = NoPend /\ old_memory' = old_memory /\ code' = code
    BY <1>6 DEF AllocResume, gcVars
  <2>2. \A i \in Index : PlainNode(memory'[i])
    BY <2>1, BuildPlain DEF NoStrings
  <2> QED BY <1>3, <2>1, <2>2 DEF NoStrings
<1>7. CASE GcStep
  <2>1. CASE \E j \in 1 .. Slots : GcRoot(j)
    BY <1>1, <2>1 DEF GcRoot, NoStrings, heapVars
  <2>2. CASE GcCopyNode
    <3>1. UNCHANGED <<old_memory, pend, code>>
      BY <2>2 DEF GcCopyNode
    <3> QED BY <2>2, <3>1, CopyPlain DEF NoStrings
  <2>3. CASE GcChainEnd
    <3>1. UNCHANGED <<old_memory, pend, code>>
      BY <2>3 DEF GcChainEnd
    <3> QED BY <2>3, <3>1, ChainPlain DEF NoStrings
  <2>4. CASE Gc2
    BY <2>4 DEF Gc2, NoStrings, PlainNode, Blank
  <2> QED BY <1>7, <2>1, <2>2, <2>3, <2>4 DEF GcStep
<1>8. CASE Run
  BY <1>1, <1>2, <1>8 DEF Run, NoStrings, gcVars
<1>9. CASE Execute
  <2>1. ASSUME NEW p \in Seq(NumInstr), Begin(p) PROVE NoStrings'
    BY <1>1, <2>1 DEF Begin, NoStrings, heapVars, gcVars
  <2>2. ASSUME NEW s \in VarSyms, Unassign(s) PROVE NoStrings'
    BY <1>1, <2>2 DEF Unassign, NoStrings, heapVars, gcVars
  <2>3. ASSUME NEW s \in DefSyms, NEW v \in Nums, NEW quoted \in BOOLEAN, Define(s, v, quoted)
        PROVE  NoStrings'
    <3>1. code' \in Seq(NumInstr)
      BY <2>3, NumBody DEF Define
    <3> QED BY <1>1, <2>3, <3>1 DEF Define, NoStrings, gcVars
  <2> QED BY <1>9, <2>1, <2>2, <2>3, ExecuteNums
<1>10. CASE Collect
  <2>1. StartGc /\ code' = code /\ pend' = pend
    BY <1>10 DEF Collect
  <2> QED BY <2>1, StartGcPlain DEF NoStrings
<1>11. CASE UNCHANGED vars
  BY <1>1, <1>11 DEF vars, NoStrings, heapVars, gcVars
<1> QED BY <1>4, <1>5, <1>6, <1>7, <1>8, <1>9, <1>10, <1>11 DEF Next, Allocate

-----------------------------------------------------------------------------
(* Old nodes that have moved, or whose list is being moved before them.    *)
Moves == {n \in Index : forward[n] # 0} \cup {frames[k].cur : k \in 2 .. Len(frames)}

LEMMA MovesWithin ==
  ASSUME DInv, NEW D, NEW V, NEW rank, NEW R, NEW B, Machine(D, V, rank, R, B), gc = "copy"
  PROVE  \A n \in Moves : n \in D /\ n \in Nat /\ mem_low <= n
<1>1. /\ OldFacts(D, rank)
      /\ Sim(D, rank, Orig(R, B, slot), memory, forward, memoryindex, frames)
  BY CopyingFacts
<1>2. D \subseteq Index /\ Index \subseteq Nat
  BY <1>1, OldIndex
<1>3. \A n \in Index : forward[n] # 0 => n \in D /\ mem_low <= n
  BY <1>1 DEF Sim, Forwarded
<1>4. \A k \in 2 .. Len(frames) : frames[k].cur \in D /\ mem_low <= frames[k].cur
  BY <1>1 DEF Sim, Waiting
<1> QED BY <1>2, <1>3, <1>4 DEF Moves

(* A node is moved once: it has not moved, and no activation waits at it.  *)
LEMMA CopyMoves ==
  ASSUME DInv, NEW D, NEW V, NEW rank, NEW R, NEW B, Machine(D, V, rank, R, B), GcCopyNode
  PROVE  Head(frames).cur \notin Moves /\ Moves' = Moves \cup {Head(frames).cur}
<1> DEFINE f == Head(frames)
           n0 == f.cur
           old == old_memory[n0]
           inner == [cur |-> old.u, head |-> 0, tail |-> 0, dest |-> 0]
           outer == [cur |-> f.cur, head |-> f.head, tail |-> f.tail, dest |-> memoryindex]
<1>1. gc = "copy" /\ frames # <<>> /\ n0 >= mem_low /\ forward[n0] = 0
  BY DEF GcCopyNode
<1>2. /\ TypeOK /\ Low /\ mem_low \in Nat /\ memoryindex \in Nat /\ OldFacts(D, rank)
      /\ Sim(D, rank, Orig(R, B, slot), memory, forward, memoryindex, frames)
  BY <1>1, CopyingFacts
<1>3. /\ frames \in Seq(Frame) /\ f = frames[1] /\ Len(frames) \in Nat \ {0}
      /\ \A k \in 1 .. Len(frames) : frames[k] \in Frame
      /\ n0 \in Index /\ n0 \in Nat /\ n0 # 0
  <2>1. frames \in Seq(Frame)
    BY <1>2 DEF TypeOK
  <2>2. f = frames[1] /\ Len(frames) \in Nat \ {0} /\ \A k \in 1 .. Len(frames) : frames[k] \in Frame
    BY <1>1, <2>1, FramesTail
  <2>3. n0 \in Index
    BY <2>2 DEF Frame
  <2>4. n0 \in Nat
    BY <2>3, IndexFacts
  <2>5. ASSUME n0 = 0 PROVE FALSE
    <3>1. mem_low <= 0 /\ 1 <= mem_low
      BY <1>1, <1>2, <2>5 DEF Low
    <3> QED BY <1>2, <3>1
  <2> QED BY <2>1, <2>2, <2>3, <2>4, <2>5
<1>4. \A k \in 2 .. Len(frames) : frames[k].cur # n0
  <2> SUFFICES ASSUME NEW k \in 2 .. Len(frames), frames[k].cur = n0 PROVE FALSE
    OBVIOUS
  <2>1. k \in 1 .. Len(frames) /\ 1 \in 1 .. Len(frames) /\ 1 < k
    BY <1>3
  <2>2. Apart(rank, frames[1], frames[k])
    BY <1>2, <2>1 DEF Sim
  <2>3. rank[n0] \in Nat
    BY <1>2, <1>3 DEF OldFacts
  <2>4. frames[1].cur = n0
    BY <1>3
  <2> HIDE DEF n0
  <2>5. rank[n0] < rank[n0]
    BY <1>3, <2>2, <2>4 DEF Apart
  <2> QED BY <2>3, <2>5
<1> HIDE DEF n0
<1>5. n0 \notin Moves
  BY <1>1, <1>4 DEF Moves
<1>6. CASE old.op = "LIST"
  <2>1. forward' = forward /\ frames' = <<inner>> \o (<<outer>> \o Tail(frames))
    BY <1>6 DEF GcCopyNode, n0
  <2>2. inner \in Frame /\ outer \in Frame /\ outer.cur = n0
    <3>1. f \in Frame /\ old \in Node
      BY <1>2, <1>3 DEF TypeOK
    <3>2. old.u \in Index /\ 0 \in Index
      BY <1>6, <3>1, IndexFacts DEF Node
    <3>3. memoryindex \in Index
      BY <1>1, <1>2, <3>1, MovedType, HeapAssumption DEF GcCopyNode, Index, n0
    <3> QED BY <1>3, <3>1, <3>2, <3>3 DEF Frame, n0
  <2> HIDE DEF inner, outer
  <2>3. /\ Len(frames') = Len(frames) + 1 /\ frames'[2] = outer
        /\ \A k \in 3 .. Len(frames') : frames'[k] = frames[k - 1]
    BY <1>1, <1>3, <2>1, <2>2, FramesPush
  <2>4. {frames'[k].cur : k \in 2 .. Len(frames')}
          = {frames[k].cur : k \in 2 .. Len(frames)} \cup {n0}
    <3>1. ASSUME NEW k \in 2 .. Len(frames')
          PROVE  frames'[k].cur \in {frames[i].cur : i \in 2 .. Len(frames)} \cup {n0}
      <4>1. CASE k = 2
        BY <2>2, <2>3, <4>1
      <4>2. CASE k # 2
        <5>1. k \in 3 .. Len(frames') /\ k - 1 \in 2 .. Len(frames)
          BY <1>3, <2>3, <4>2
        <5> QED BY <2>3, <5>1
      <4> QED BY <4>1, <4>2
    <3>2. ASSUME NEW i \in 2 .. Len(frames)
          PROVE  \E k \in 2 .. Len(frames') : frames'[k].cur = frames[i].cur
      <4>1. i + 1 \in 3 .. Len(frames') /\ i + 1 \in 2 .. Len(frames') /\ (i + 1) - 1 = i
        BY <1>3, <2>3
      <4> QED BY <2>3, <4>1
    <3>3. \E k \in 2 .. Len(frames') : frames'[k].cur = n0
      <4>1. 2 \in 2 .. Len(frames')
        BY <1>3, <2>3
      <4> QED BY <2>2, <2>3, <4>1
    <3>4. {frames'[k].cur : k \in 2 .. Len(frames')}
            \subseteq {frames[k].cur : k \in 2 .. Len(frames)} \cup {n0}
      BY <3>1
    <3>5. {frames[k].cur : k \in 2 .. Len(frames)} \cup {n0}
            \subseteq {frames'[k].cur : k \in 2 .. Len(frames')}
      BY <3>2, <3>3
    <3> QED BY <3>4, <3>5
  <2> QED BY <1>5, <2>1, <2>4 DEF Moves, n0
<1>7. CASE old.op # "LIST"
  <2>1. /\ forward' = [forward EXCEPT ![n0] = memoryindex]
        /\ frames' = <<Joined(f, memoryindex)>> \o Tail(frames)
    BY <1>7 DEF GcCopyNode, n0
  <2>2. memoryindex # 0
    BY <1>2 DEF Low
  <2>3. Len(frames') = Len(frames) /\ \A k \in 2 .. Len(frames) : frames'[k] = frames[k]
    <3> DEFINE h == Joined(f, memoryindex)
    <3>1. Tail(frames) \in Seq(Frame) /\ Len(Tail(frames)) = Len(frames) - 1
          /\ \A k \in 1 .. Len(frames) - 1 : Tail(frames)[k] = frames[k + 1]
      BY <1>1, <1>3, FramesTail
    <3> HIDE DEF h
    <3>2. frames' = <<h>> \o Tail(frames)
      BY <2>1 DEF h
    <3>3. Len(frames') = Len(frames) /\ \A k \in 2 .. Len(frames) : frames'[k] = Tail(frames)[k - 1]
      BY <1>3, <3>1, <3>2
    <3> QED BY <1>3, <3>1, <3>3
  <2>4. {n \in Index : forward'[n] # 0} = {n \in Index : forward[n] # 0} \cup {n0}
    BY <1>2, <1>3, <2>1, <2>2 DEF TypeOK
  <2>5. {frames'[k].cur : k \in 2 .. Len(frames')} = {frames[k].cur : k \in 2 .. Len(frames)}
    BY <2>3
  <2> QED BY <1>5, <2>4, <2>5 DEF Moves, n0
<1> QED BY <1>6, <1>7

(* The end of a chain moves nothing: the node that waited has moved now.   *)
LEMMA ChainMoves ==
  ASSUME DInv, NEW D, NEW V, NEW rank, NEW R, NEW B, Machine(D, V, rank, R, B), GcChainEnd
  PROVE  Moves' = Moves
<1>1. gc = "copy" /\ frames # <<>>
  BY DEF GcChainEnd
<1>2. /\ TypeOK /\ Low /\ mem_low \in Nat /\ OldFacts(D, rank)
      /\ Sim(D, rank, Orig(R, B, slot), memory, forward, memoryindex, frames)
  BY <1>1, CopyingFacts
<1>3. /\ frames \in Seq(Frame) /\ Len(frames) \in Nat \ {0}
      /\ Tail(frames) \in Seq(Frame) /\ Len(Tail(frames)) = Len(frames) - 1
      /\ \A k \in 1 .. Len(frames) - 1 : Tail(frames)[k] = frames[k + 1]
  BY <1>1, <1>2, FramesTail DEF TypeOK
<1>4. CASE Tail(frames) = <<>>
  <2>1. forward' = forward /\ frames' = <<>>
    BY <1>4 DEF GcChainEnd
  <2>2. Len(frames) = 1 /\ Len(frames') = 0
    <3>1. Len(<<>>) = 0
      OBVIOUS
    <3>2. Len(frames) - 1 = 0 /\ Len(frames') = 0
      BY <1>3, <1>4, <2>1, <3>1
    <3> QED BY <1>3, <3>2
  <2>3. 2 .. Len(frames) = {} /\ 2 .. Len(frames') = {}
    BY <2>2
  <2> QED BY <2>1, <2>3 DEF Moves
<1>5. CASE Tail(frames) # <<>>
  <2> DEFINE g == Head(Tail(frames))
             h == Joined(g, g.dest)
  <2>1. forward' = [forward EXCEPT ![g.cur] = g.dest] /\ frames' = <<h>> \o Tail(Tail(frames))
    BY <1>5 DEF GcChainEnd
  <2>2. /\ g = frames[2] /\ 2 \in 2 .. Len(frames) /\ Len(frames) >= 2
        /\ Tail(Tail(frames)) \in Seq(Frame) /\ Len(Tail(Tail(frames))) = Len(frames) - 2
        /\ \A k \in 1 .. Len(frames) - 2 : Tail(Tail(frames))[k] = frames[k + 2]
    <3>1. /\ Len(Tail(frames)) \in Nat \ {0} /\ g = Tail(frames)[1]
          /\ Tail(Tail(frames)) \in Seq(Frame) /\ Len(Tail(Tail(frames))) = Len(Tail(frames)) - 1
          /\ \A k \in 1 .. Len(Tail(frames)) - 1 : Tail(Tail(frames))[k] = Tail(frames)[k + 1]
      BY <1>3, <1>5, FramesTail
    <3>2. Len(frames) >= 2 /\ 1 \in 1 .. Len(frames) - 1
      BY <1>3, <3>1
    <3>3. \A k \in 1 .. Len(frames) - 2 :
            k \in 1 .. Len(Tail(frames)) - 1 /\ k + 1 \in 1 .. Len(frames) - 1 /\ (k + 1) + 1 = k + 2
      BY <1>3
    <3>4. \A k \in 1 .. Len(frames) - 2 : Tail(Tail(frames))[k] = frames[k + 2]
      <4> TAKE k \in 1 .. Len(frames) - 2
      <4>1. Tail(Tail(frames))[k] = Tail(frames)[k + 1]
        BY <3>1, <3>3
      <4>2. Tail(frames)[k + 1] = frames[(k + 1) + 1]
        BY <1>3, <3>3
      <4> QED BY <3>3, <4>1, <4>2
    <3> QED BY <1>3, <3>1, <3>2, <3>4
  <2>3. g.cur \in Index /\ g.dest # 0
    <3>1. Waiting(D, memory, forward, memoryindex, g)
      BY <1>2, <2>2 DEF Sim
    <3>2. g.cur \in D /\ mem_low <= g.dest /\ D \subseteq Index
      BY <1>2, <3>1, OldIndex DEF Waiting
    <3>3. ASSUME g.dest = 0 PROVE FALSE
      <4>1. mem_low <= 0 /\ 1 <= mem_low
        BY <1>2, <3>2, <3>3 DEF Low
      <4> QED BY <1>2, <4>1
    <3>4. g.cur \in Index
      BY <3>2
    <3> QED BY <3>3, <3>4
  <2>4. {n \in Index : forward'[n] # 0} = {n \in Index : forward[n] # 0} \cup {g.cur}
    BY <1>2, <2>1, <2>3 DEF TypeOK
  <2> HIDE DEF h
  <2>5. Len(frames') = Len(frames) - 1
        /\ \A k \in 2 .. Len(frames) - 1 : frames'[k] = frames[k + 1]
    <3>1. Len(frames') = Len(frames) - 1
          /\ \A k \in 2 .. Len(frames) - 1 : frames'[k] = Tail(Tail(frames))[k - 1]
      BY <1>3, <2>1, <2>2
    <3>2. \A k \in 2 .. Len(frames) - 1 : k - 1 \in 1 .. Len(frames) - 2 /\ (k - 1) + 2 = k + 1
      BY <1>3
    <3> QED BY <2>2, <3>1, <3>2
  <2>6. {frames[k].cur : k \in 2 .. Len(frames)}
          = {frames'[k].cur : k \in 2 .. Len(frames')} \cup {g.cur}
    <3>1. ASSUME NEW k \in 2 .. Len(frames)
          PROVE  frames[k].cur \in {frames'[i].cur : i \in 2 .. Len(frames')} \cup {g.cur}
      <4>1. CASE k = 2
        BY <2>2, <4>1
      <4>2. CASE k # 2
        <5>1. k - 1 \in 2 .. Len(frames') /\ k - 1 \in 2 .. Len(frames) - 1 /\ (k - 1) + 1 = k
          BY <1>3, <2>5, <4>2
        <5> QED BY <2>5, <5>1
      <4> QED BY <4>1, <4>2
    <3>2. ASSUME NEW i \in 2 .. Len(frames')
          PROVE  \E k \in 2 .. Len(frames) : frames[k].cur = frames'[i].cur
      <4>1. i \in 2 .. Len(frames) - 1 /\ i + 1 \in 2 .. Len(frames)
        BY <1>3, <2>5
      <4> QED BY <2>5, <4>1
    <3>3. g.cur \in {frames[k].cur : k \in 2 .. Len(frames)}
      BY <2>2
    <3> HIDE DEF g
    <3>4. {frames[k].cur : k \in 2 .. Len(frames)}
            \subseteq {frames'[k].cur : k \in 2 .. Len(frames')} \cup {g.cur}
      BY <3>1
    <3>5. {frames'[k].cur : k \in 2 .. Len(frames')} \cup {g.cur}
            \subseteq {frames[k].cur : k \in 2 .. Len(frames)}
      BY <3>2, <3>3
    <3> QED BY <3>4, <3>5
  <2> HIDE DEF g
  <2> QED BY <2>4, <2>6 DEF Moves
<1> QED BY <1>4, <1>5

(***************************************************************************)
(* The inductive invariant.  Outside a collection the nodes in use fit,    *)
(* and newnode, when it resumes after one, has a place left.  During one   *)
(* the places taken are those of the nodes moved, which lay in the part of *)
(* the old memory that was in use, D.                                      *)
(***************************************************************************)
Counted ==
  /\ mem_low <= memorymax
  /\ IsFiniteSet(Moves) /\ Cardinality(Moves) = memoryindex - mem_low
  /\ \E D, V, rank, R, B : Machine(D, V, rank, R, B) /\ D \subseteq 1 .. memorymax - 1

Fits ==
  /\ gc = "off" => memoryindex <= memorymax
  /\ gc = "alloc" => memoryindex + 1 <= memorymax
  /\ gc = "copy" => Counted

LEMMA FitsTypes ==
  ASSUME DInv
  PROVE  /\ TypeOK /\ memoryindex \in Nat /\ memorymax \in Nat /\ mem_low \in Nat
         /\ 1 <= mem_low /\ mem_low <= memoryindex /\ gc \in {"off", "copy", "alloc"}
<1>1. TypeOK /\ Low
  BY DEF DInv, TInv
<1> QED BY <1>1, LowIndex DEF TypeOK, Low

LEMMA FitsWithin == DInv /\ Fits => WithinCapacity
<1> SUFFICES ASSUME DInv, Fits PROVE memoryindex <= memorymax
  BY DEF WithinCapacity
<1>1. /\ memoryindex \in Nat /\ memorymax \in Nat /\ mem_low \in Nat
      /\ gc \in {"off", "copy", "alloc"}
  BY FitsTypes
<1>2. CASE gc = "copy"
  <2>1. mem_low <= memorymax /\ Cardinality(Moves) = memoryindex - mem_low
    BY <1>2 DEF Fits, Counted
  <2>2. PICK D, V, rank, R, B : Machine(D, V, rank, R, B) /\ D \subseteq 1 .. memorymax - 1
    BY <1>2 DEF Fits, Counted
  <2>3. \A n \in Moves : n \in D /\ n \in Nat /\ mem_low <= n
    BY <1>2, <2>2, MovesWithin
  <2>4. Moves \subseteq mem_low .. memorymax - 1
    <3> SUFFICES ASSUME NEW n \in Moves PROVE n \in mem_low .. memorymax - 1
      OBVIOUS
    <3>1. n \in 1 .. memorymax - 1 /\ n \in Nat /\ mem_low <= n
      BY <2>2, <2>3
    <3> QED BY <1>1, <3>1
  <2>5. /\ IsFiniteSet(mem_low .. memorymax - 1)
        /\ Cardinality(mem_low .. memorymax - 1) = memorymax - mem_low
    <3>1. mem_low \in Int /\ memorymax - 1 \in Int
      BY <1>1
    <3>2. /\ IsFiniteSet(mem_low .. memorymax - 1)
          /\ Cardinality(mem_low .. memorymax - 1)
               = IF mem_low > memorymax - 1 THEN 0 ELSE (memorymax - 1) - mem_low + 1
      BY <3>1, FS_Interval
    <3> QED BY <1>1, <2>1, <3>2
  <2>6. Cardinality(Moves) <= Cardinality(mem_low .. memorymax - 1)
    BY <2>4, <2>5, FS_Subset
  <2>7. memoryindex - mem_low <= memorymax - mem_low
    BY <2>1, <2>5, <2>6
  <2> QED BY <1>1, <2>7
<1>3. CASE gc # "copy"
  BY <1>1, <1>3 DEF Fits
<1> QED BY <1>2, <1>3

LEMMA EnlargeMore ==
  ASSUME TypeOK, NEW need \in Nat, Enlarge(need)
  PROVE  memorymax <= memorymax' /\ memoryindex + need <= memorymax'
<1>1. PICK f \in Doublings : memoryindex + need < memorymax * f /\ memorymax' = memorymax * f
  BY DEF Enlarge
<1>2. f \in Nat /\ 1 <= f /\ memorymax \in Nat /\ memoryindex \in Nat
  BY HeapAssumption DEF TypeOK, Room
<1>3. memorymax <= memorymax * f /\ memorymax * f \in Nat
  BY <1>2
<1> QED BY <1>1, <1>2, <1>3

(* gc1 begins with nothing moved, and the old nodes in use fit.            *)
LEMMA StartCounted ==
  ASSUME DInv, gc # "copy", StartGc, memoryindex <= memorymax, memorymax <= memorymax',
         memorymax' \in Nat, NEW D, NEW V, NEW rank, NEW R, NEW B,
         D \subseteq 1 .. memoryindex - 1, Machine(D, V, rank, R, B)'
  PROVE  Counted'
<1>1. memoryindex \in Nat /\ memorymax \in Nat /\ mem_low \in Nat /\ mem_low <= memoryindex
  BY FitsTypes
<1>2. frames = <<>> /\ \A n \in Index : forward[n] = 0
  BY DEF DInv, GcInv
<1>3. memoryindex' = mem_low /\ mem_low' = mem_low /\ forward' = forward /\ frames' = <<>>
  BY <1>2 DEF StartGc
<1>4. Moves' = {}
  <2>1. Len(frames') = 0
    BY <1>3
  <2>2. 2 .. Len(frames') = {}
    BY <2>1
  <2> QED BY <1>2, <1>3, <2>2 DEF Moves
<1>5. IsFiniteSet(Moves') /\ Cardinality(Moves') = 0
  BY <1>4, FS_EmptySet
<1>6. D \subseteq 1 .. memorymax' - 1
  <2>1. PICK m \in Nat : m = memorymax'
    OBVIOUS
  <2>2. memoryindex <= m
    BY <1>1, <2>1
  <2>3. 1 .. memoryindex - 1 \subseteq 1 .. m - 1
    BY <1>1, <2>2
  <2> QED BY <2>1, <2>3
<1>7. mem_low' <= memorymax' /\ memoryindex' - mem_low' = 0
  BY <1>1, <1>3
<1> QED BY <1>5, <1>6, <1>7 DEF Counted

(* A step of copy() that keeps D takes a place for each node it moves.     *)
LEMMA CountedStep ==
  ASSUME Counted, NEW D, NEW V, NEW rank, NEW R, NEW B,
         D \subseteq 1 .. memorymax - 1, Machine(D, V, rank, R, B)',
         UNCHANGED <<memorymax, mem_low>>, memoryindex \in Nat, mem_low \in Nat,
         \/ Moves' = Moves /\ memoryindex' = memoryindex
         \/ \E n : n \notin Moves /\ Moves' = Moves \cup {n} /\ memoryindex' = memoryindex + 1
  PROVE  Counted'
<1>1. IsFiniteSet(Moves) /\ Cardinality(Moves) = memoryindex - mem_low /\ mem_low <= memorymax
  BY DEF Counted
<1>2. IsFiniteSet(Moves') /\ Cardinality(Moves') = memoryindex' - mem_low
  <2>1. ASSUME NEW n, n \notin Moves, Moves' = Moves \cup {n}, memoryindex' = memoryindex + 1
        PROVE  IsFiniteSet(Moves') /\ Cardinality(Moves') = memoryindex' - mem_low
    <3>1. IsFiniteSet(Moves') /\ Cardinality(Moves') = Cardinality(Moves) + 1
      BY <1>1, <2>1, FS_AddElement
    <3> QED BY <1>1, <2>1, <3>1
  <2> QED BY <1>1, <2>1
<1>3. D \subseteq 1 .. memorymax' - 1 /\ mem_low' <= memorymax'
  BY <1>1
<1> QED BY <1>2, <1>3 DEF Counted

LEMMA CopyFits ==
  ASSUME Side, Separate, NoStrings, Fits,
         (\E j \in 1 .. Slots : GcRoot(j)) \/ GcCopyNode \/ GcChainEnd
  PROVE  Fits'
<1>1. /\ gc = "copy" /\ gc' = "copy" /\ UNCHANGED <<memorymax, mem_low>>
      /\ DInv /\ LastInv /\ Counted
  BY DEF GcRoot, GcCopyNode, GcChainEnd, Side, Fits, heapVars
<1>2. TypeOK /\ memoryindex \in Nat /\ mem_low \in Nat
  BY <1>1, FitsTypes
<1>3. PICK D, V, rank, R, B : Machine(D, V, rank, R, B) /\ D \subseteq 1 .. memorymax - 1
  BY <1>1 DEF Counted
<1>4. CASE \E j \in 1 .. Slots : GcRoot(j)
  <2>1. PICK j \in 1 .. Slots : GcRoot(j)
    BY <1>4
  <2>2. Machine(D, V, rank, R, B)'
    BY <1>1, <1>3, <2>1, GcRootMachine
  <2> DEFINE f == [cur |-> SlotRoot(j), head |-> 0, tail |-> 0, dest |-> 0]
  <2>3. frames = <<>> /\ frames' = <<f>> /\ forward' = forward /\ memoryindex' = memoryindex
    BY <2>1 DEF GcRoot, heapVars
  <2> HIDE DEF f
  <2>4. Moves' = Moves
    <3>1. Len(frames) = 0 /\ Len(frames') = 1
      BY <2>3
    <3>2. 2 .. Len(frames) = {} /\ 2 .. Len(frames') = {}
      BY <3>1
    <3> QED BY <2>3, <3>2 DEF Moves
  <2>5. Counted'
    BY <1>1, <1>2, <1>3, <2>2, <2>3, <2>4, CountedStep
  <2> QED BY <1>1, <2>5 DEF Fits
<1>5. CASE GcCopyNode
  <2>1. Machine(D, V, rank, R, B)'
    BY <1>1, <1>3, <1>5, GcCopyNodeMachine
  <2>2. PICK n : n \notin Moves /\ Moves' = Moves \cup {n}
    BY <1>1, <1>3, <1>5, CopyMoves
  <2>3. memoryindex' = memoryindex + 1
    BY <1>2, <1>5, CopyPlain
  <2>4. Counted'
    BY <1>1, <1>2, <1>3, <2>1, <2>2, <2>3, CountedStep
  <2> QED BY <1>1, <2>4 DEF Fits
<1>6. CASE GcChainEnd
  <2>1. Machine(D, V, rank, R, B)'
    BY <1>1, <1>3, <1>6, GcChainEndMachine
  <2>2. Moves' = Moves
    BY <1>1, <1>3, <1>6, ChainMoves
  <2>3. memoryindex' = memoryindex
    BY <1>6 DEF GcChainEnd
  <2>4. Counted'
    BY <1>1, <1>2, <1>3, <2>1, <2>2, <2>3, CountedStep
  <2> QED BY <1>1, <2>4 DEF Fits
<1> QED BY <1>4, <1>5, <1>6

(* gc2 leaves a place, whether it keeps the capacity or changes it.        *)
LEMMA ResizedFits ==
  ASSUME memoryindex \in Nat, memorymax \in Nat, 1 <= memoryindex, memoryindex <= memorymax
  PROVE  memoryindex + 1 <= Resized
<1>1. CASE memoryindex * 100 < 10 * memorymax
  <2>1. Resized = (memorymax * 9) \div 10
    BY <1>1 DEF Resized
  <2>2. (memorymax * 9) \div 10 \in Int /\ memorymax * 9 < 10 * ((memorymax * 9) \div 10) + 10
    OBVIOUS
  <2> QED BY <1>1, <2>1, <2>2
<1>2. CASE ~(memoryindex * 100 < 10 * memorymax) /\ memoryindex * 100 > 90 * memorymax
  BY <1>2 DEF Resized
<1>3. CASE ~(memoryindex * 100 < 10 * memorymax) /\ ~(memoryindex * 100 > 90 * memorymax)
  BY <1>3 DEF Resized
<1> QED BY <1>1, <1>2, <1>3

(* newnode finds no room: the request needs one place more than is in use. *)
LEMMA AllocGcFits ==
  ASSUME Side, NoStrings, Fits, NEW g, Simulates(g), AllocGc
  PROVE  Fits'
<1> DEFINE q == Request(Head(code))
           r == At(Head(code).nxt)
           need == 1 + q.len + Count[r, MaxIndex]
                   + (IF q.op = "LIST" THEN Count[q.u, MaxIndex] ELSE 0)
<1>1. /\ gc = "off" /\ DInv /\ StartGc /\ gc' = "copy" /\ Enlarge(need)
      /\ memoryindex <= memorymax
  BY DEF Side, Fits, AllocGc, Allocates, StartGc
<1>2. TypeOK /\ memoryindex \in Nat /\ memorymax \in Nat
  BY <1>1, FitsTypes
<1>3. memorymax <= memorymax' /\ memorymax' \in Nat
  <2> HIDE DEF need
  <2>1. PICK f \in Doublings : memorymax' = memorymax * f
    BY <1>1 DEF Enlarge
  <2>2. f \in Nat /\ 1 <= f
    BY HeapAssumption
  <2>3. memorymax <= memorymax * f /\ memorymax * f \in Nat
    BY <1>2, <2>2
  <2> QED BY <2>1, <2>3
<1>4. PICK D, V, rank, R, B : Machine(D, V, rank, R, B) /\ Arrives(code, Registers(V, R, B), g)
  BY DEF Simulates
<1>5. D \subseteq 1 .. memoryindex - 1
  BY <1>1, <1>4, SettledFacts
<1>6. PICK R2, B2 : Machine(D, V, rank, R2, B2)'
  BY <1>4, AllocGcMachine
<1>7. Counted'
  BY <1>1, <1>3, <1>5, <1>6, StartCounted
<1> QED BY <1>1, <1>7 DEF Fits

LEMMA CollectFits ==
  ASSUME Side, Fits, NEW g, Simulates(g), Collect
  PROVE  Fits'
<1>1. /\ gc = "off" /\ DInv /\ StartGc /\ gc' = "copy" /\ memorymax' = memorymax
      /\ UNCHANGED <<flibrary_busy, symtab, variable_busy>> /\ root' = root
      /\ memoryindex <= memorymax
  BY DEF Side, Fits, Collect, Start, Idle, StartGc, symVars
<1>2. TypeOK /\ memoryindex \in Nat /\ memorymax \in Nat
  BY <1>1, FitsTypes
<1>3. PICK D, V, rank, R, B : Machine(D, V, rank, R, B)
  BY DEF Simulates
<1>4. /\ Valued(memory, D, V, rank) /\ R = root /\ B = Bodies
      /\ D \subseteq 1 .. memoryindex - 1 /\ Within(D, R, B) /\ BodiesSafe(B)
  BY <1>1, <1>3, SettledFacts
<1>5. Machine(D, V, rank, R, B)'
  <2>1. root' = R /\ gc # "copy"
    BY <1>1, <1>4
  <2> QED BY <1>1, <1>4, <2>1, StartGcMachine
<1>6. memorymax <= memorymax' /\ memorymax' \in Nat
  BY <1>1, <1>2
<1>7. Counted'
  BY <1>1, <1>4, <1>5, <1>6, StartCounted
<1> QED BY <1>1, <1>7 DEF Fits

LEMMA FitsNext ==
  ASSUME StrLens = {}, Separate, Side, NoStrings, Fits, NEW g, Simulates(g), [Next]_vars
  PROVE  Fits'
<1>0. /\ DInv /\ TypeOK /\ memoryindex \in Nat /\ memorymax \in Nat /\ mem_low \in Nat
      /\ 1 <= mem_low /\ mem_low <= memoryindex /\ gc \in {"off", "copy", "alloc"}
  BY FitsTypes DEF Side
<1>1. ASSUME gc = "off", UNCHANGED <<memorymax, memoryindex, gc>> PROVE Fits'
  BY <1>1 DEF Fits
<1>2. CASE AllocFits
  <2> DEFINE q == Request(Head(code))
  <2>1. /\ Build(q, q.u, At(Head(code).nxt)) /\ memoryindex + 1 + q.len < memorymax
        /\ gc = "off" /\ gc' = "off" /\ memorymax' = memorymax /\ Allocates
    BY <1>2 DEF AllocFits, Allocates
  <2>2. q \in Requests /\ PlainNode(q)
    BY <1>0, <2>1, RequestPlain
  <2> HIDE DEF q
  <2>3. memoryindex' = memoryindex + 1 + q.len /\ q.len = 0
    BY <2>1, <2>2, BuildPlain DEF NoStrings, PlainNode
  <2>4. memoryindex' <= memorymax'
    BY <1>0, <2>1, <2>3
  <2> QED BY <2>1, <2>4 DEF Fits
<1>3. CASE AllocLibrary
  <2> DEFINE q == Request(Head(code))
  <2>1. /\ Build(q, q.u, At(Head(code).nxt)) /\ Enlarge(1 + q.len)
        /\ gc = "off" /\ gc' = "off" /\ Allocates
    BY <1>3 DEF AllocLibrary, Allocates
  <2>2. q \in Requests /\ PlainNode(q)
    BY <1>0, <2>1, RequestPlain
  <2> HIDE DEF q
  <2>3. memoryindex' = memoryindex + 1 + q.len /\ q.len = 0
    BY <2>1, <2>2, BuildPlain DEF NoStrings, PlainNode
  <2>4. memoryindex + (1 + q.len) <= memorymax'
    <3>1. 1 + q.len \in Nat
      BY <2>3
    <3> QED BY <1>0, <2>1, <3>1, EnlargeMore
  <2>5. memoryindex' <= memorymax'
    BY <1>0, <2>3, <2>4
  <2> QED BY <2>1, <2>5 DEF Fits
<1>4. CASE AllocGc
  BY <1>4, AllocGcFits
<1>5. CASE AllocResume
  <2>1. /\ Build(pend, IF pend.op = "LIST" THEN root.l ELSE pend.u, root.r)
        /\ gc = "alloc" /\ gc' = "off" /\ memorymax' = memorymax
    BY <1>5 DEF AllocResume
  <2>2. memoryindex' = memoryindex + 1 + pend.len /\ pend.len = 0
    BY <2>1, BuildPlain DEF NoStrings, PlainNode
  <2>3. memoryindex + 1 <= memorymax
    BY <2>1 DEF Fits
  <2>4. memoryindex' <= memorymax'
    BY <1>0, <2>1, <2>2, <2>3
  <2> QED BY <2>1, <2>4 DEF Fits
<1>6. CASE GcStep
  <2>1. CASE (\E j \in 1 .. Slots : GcRoot(j)) \/ GcCopyNode \/ GcChainEnd
    BY <2>1, CopyFits
  <2>2. CASE Gc2
    <3>1. /\ memorymax' = Resized /\ memoryindex' = memoryindex /\ gc' \in {"off", "alloc"}
      BY <2>2 DEF Gc2
    <3>2. memoryindex + 1 <= Resized
      <4>1. memoryindex <= memorymax
        BY <1>0, FitsWithin DEF WithinCapacity
      <4>2. 1 <= memoryindex
        BY <1>0
      <4> QED BY <1>0, <4>1, <4>2, ResizedFits
    <3>3. Resized \in Int
      BY <1>0 DEF Resized
    <3>4. memoryindex' + 1 <= memorymax' /\ memoryindex' <= memorymax'
      BY <1>0, <3>1, <3>2, <3>3
    <3> QED BY <3>1, <3>4 DEF Fits
  <2> QED BY <1>6, <2>1, <2>2 DEF GcStep
<1>7. CASE Run
  BY <1>1, <1>7 DEF Run
<1>8. CASE Execute
  <2>1. ASSUME NEW p \in Seq(NumInstr), Begin(p) PROVE Fits'
    BY <1>1, <2>1 DEF Begin, Start, Idle, heapVars
  <2>2. ASSUME NEW s \in VarSyms, Unassign(s) PROVE Fits'
    BY <1>1, <2>2 DEF Unassign, Start, Idle, heapVars
  <2>3. ASSUME NEW s \in DefSyms, NEW v \in Nums, NEW quoted \in BOOLEAN, Define(s, v, quoted)
        PROVE  Fits'
    <3>1. gc = "off" /\ gc' = gc /\ memoryindex' = mem_low /\ memorymax' = memorymax
      BY <2>3 DEF Define, Start, Idle
    <3>2. memoryindex' <= memorymax'
      BY <1>0, <3>1 DEF Fits
    <3> QED BY <3>1, <3>2 DEF Fits
  <2> QED BY <1>8, <2>1, <2>2, <2>3, ExecuteNums
<1>9. CASE Collect
  BY <1>9, CollectFits
<1>10. CASE UNCHANGED vars
  <2>1. /\ UNCHANGED <<memorymax, memoryindex, mem_low, gc>> /\ Moves' = Moves
    BY <1>10 DEF vars, heapVars, gcVars, Moves
  <2>2. ASSUME gc = "copy" PROVE Counted'
    <3>1. PICK D, V, rank, R, B : Machine(D, V, rank, R, B) /\ D \subseteq 1 .. memorymax - 1
      BY <2>2 DEF Fits, Counted
    <3>2. Machine(D, V, rank, R, B)'
      BY <1>10, <3>1, StutterMachine
    <3>3. Counted
      BY <2>2 DEF Fits
    <3> QED BY <1>0, <2>1, <3>1, <3>2, <3>3, CountedStep
  <2> QED BY <2>1, <2>2 DEF Fits
<1> QED BY <1>2, <1>3, <1>4, <1>5, <1>6, <1>7, <1>8, <1>9, <1>10 DEF Next, Allocate

LEMMA FitsInit == ASSUME Init, StrLens = {} PROVE NoStrings /\ Fits
<1>1. memoryindex = 1 /\ memorymax = MEM_LOW /\ gc = "off" /\ code = <<>> /\ pend = NoPend
      /\ memory = [i \in Index |-> Blank] /\ old_memory = [i \in Index |-> Blank]
  BY DEF Init
<1>2. PlainNode(Blank) /\ PlainNode(NoPend) /\ <<>> \in Seq(NumInstr)
  BY DEF PlainNode, Blank, NoPend
<1>3. NoStrings
  BY <1>1, <1>2 DEF NoStrings
<1>4. Fits
  BY <1>1, HeapAssumption DEF Fits
<1> QED BY <1>3, <1>4

(***************************************************************************)
(* The nodes in use never outgrow the memory allocated for them, though    *)
(* newnode builds the node it collected for without looking again          *)
(* (utils.c: newnode, gc1, copy_one, gc2), where there are no strings: a   *)
(* string gains a node when it is moved, and gc2 may shrink what it left.  *)
(***************************************************************************)
THEOREM CapacityKept ==
  ASSUME Separate, StrLens = {}
  PROVE  Spec => []WithinCapacity
<1> DEFINE Inv == Side /\ NoStrings /\ Fits /\ \E g : Simulates(g) /\ Single(g.binding)
<1>1. Init => Inv
  BY InitSimulates, FitsInit
<1>2. Inv /\ [Next]_vars => Inv'
  <2> SUFFICES ASSUME Inv, [Next]_vars PROVE Inv'
    OBVIOUS
  <2>1. PICK g : Simulates(g) /\ Single(g.binding)
    OBVIOUS
  <2>2. Side'
    BY <2>1, SimulatesNext
  <2>3. \E g2 : Simulates(g2)' /\ Single(g2.binding)
    BY <2>1, SimulatesNext
  <2>4. NoStrings'
    <3>1. TypeOK
      BY DEF Side, DInv, TInv
    <3> QED BY <3>1, NoStringsNext
  <2>5. Fits'
    BY <2>1, FitsNext
  <2> QED BY <2>2, <2>3, <2>4, <2>5
<1>3. Inv => WithinCapacity
  BY FitsWithin DEF Side
<1> HIDE DEF Inv
<1> QED BY <1>1, <1>2, <1>3, PTL DEF Spec
=============================================================================
