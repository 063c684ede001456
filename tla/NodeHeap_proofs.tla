--------------------------- MODULE NodeHeap_proofs ---------------------------
(***************************************************************************)
(* Theorems about the node memory of NodeHeap, for every value of its      *)
(* constants.                                                              *)
(***************************************************************************)
EXTENDS NodeHeap, SequenceTheorems, TLAPS

(* An activation of copy() only exists for a root that gc1 copies. *)
FrameSlot == frames # <<>> => slot <= Slots

TInv == TypeOK /\ FrameSlot

-----------------------------------------------------------------------------
(* Operands and instructions. *)

LEMMA IndexFacts == Index \subseteq Nat /\ 0 \in Index /\ 1 \in Index
BY HeapAssumption DEF Index

LEMMA RootNamesType ==
  /\ RootNames \in [1 .. 11 -> RootSet]
  /\ \A r \in RootSet : \E i \in 1 .. 11 : r = RootNames[i]
  /\ {"stck", "prog", "dump", "conts", "l", "r"} \subseteq RootSet
  /\ Target \subseteq RootSet
<1>1. RootNames[1] = "stck" /\ RootNames[2] = "prog" /\ RootNames[3] = "conts"
      /\ RootNames[4] = "dump" /\ RootNames[10] = "l" /\ RootNames[11] = "r"
  BY DEF RootNames
<1>2. RootNames \in [1 .. 11 -> RootSet]
  <2>1. DOMAIN RootNames = 1 .. 11
    BY DEF RootNames
  <2>2. \A i \in 1 .. 11 : RootNames[i] \in RootSet
    BY DEF RootSet
  <2> QED BY <2>1, <2>2 DEF RootNames
<1> QED BY <1>1, <1>2 DEF RootSet, Target

LEMMA NxtType == ASSUME TypeOK, NEW n \in Index PROVE Nxt(n) \in Index
BY DEF TypeOK, Node, Nxt

LEMMA LisType == ASSUME TypeOK, NEW n \in Index PROVE Lis(n) \in Index
BY IndexFacts DEF TypeOK, Node, Lis

LEMMA SkipType == ASSUME TypeOK, NEW n \in Index, NEW k PROVE Skip(n, k) \in Index
BY NxtType DEF Skip

LEMMA RootType == ASSUME TypeOK, NEW r \in RootSet PROVE root[r] \in Index
BY DEF TypeOK

LEMMA AtType == ASSUME TypeOK, NEW o \in Operand PROVE At(o) \in Index
<1>1. root.stck \in Index /\ root.dump \in Index /\ root.l \in Index
  BY RootType, RootNamesType
<1>2. ASSUME o[1] = "body" PROVE symtab[o[2]].body \in Index
  BY <1>2 DEF Operand, TypeOK, Entry
<1> QED
  BY <1>1, <1>2, IndexFacts, SkipType, LisType DEF At, Operand

LEMMA OperandTypes ==
  /\ \A k \in 0 .. 3 : S(k) \in Operand /\ Below(k) \in Operand
                       /\ Saved(k) \in Operand /\ First(k) \in Operand
  /\ Dump \in Operand /\ Temp \in Operand /\ Nil \in Operand
  /\ \A s \in Syms : Body(s) \in Operand
BY DEF Operand, S, Below, Saved, First, Dump, Temp, Nil, Body

LEMMA InstrTypes ==
  /\ \A op \in {"INTEGER", "STRING"}, len \in Nat, u \in Nat, nxt \in Operand, dst \in Target :
       Lit(op, len, u, nxt, dst) \in Instr
  /\ \A o \in Operand, nxt \in Operand, dst \in Target :
       Copy(o, nxt, dst) \in Instr /\ List(o, nxt, dst) \in Instr
  /\ Pop("stck") \in Instr /\ Pop("dump") \in Instr
  /\ \A s \in DefSyms \cup EmbedSyms : SetBody(s) \in Instr
  /\ \A s \in VarSyms : SetVar(s) \in Instr
  /\ Unstack \in Instr /\ InitMem2 \in Instr /\ Abort \in Instr
  /\ SAVESTACK \in Instr
<1>1. \A o \in Operand, nxt \in Operand, dst \in Target :
       Copy(o, nxt, dst) \in Instr /\ List(o, nxt, dst) \in Instr
  BY DEF Copy, List, Instr
<1>2. SAVESTACK \in Instr
  BY <1>1, OperandTypes DEF SAVESTACK, Target
<1>3. \A op \in {"INTEGER", "STRING"}, len \in Nat, u \in Nat, nxt \in Operand, dst \in Target :
       Lit(op, len, u, nxt, dst) \in Instr
  BY DEF Lit, Instr
<1>4. Pop("stck") \in Instr /\ Pop("dump") \in Instr
  BY DEF Pop, Instr
<1>5. \A s \in DefSyms \cup EmbedSyms : SetBody(s) \in Instr
  BY DEF SetBody, Instr
<1>6. \A s \in VarSyms : SetVar(s) \in Instr
  BY DEF SetVar, Instr
<1>7. Unstack \in Instr /\ InitMem2 \in Instr /\ Abort \in Instr
  BY DEF Unstack, InitMem2, Abort, Instr
<1> QED BY <1>1, <1>2, <1>3, <1>4, <1>5, <1>6, <1>7

(* Instructions of a builtin; of everything but a definition in repl; of   *)
(* definition(), which reads no name while it runs.                        *)
CommandInstr == {i \in Instr : i.do \notin {"inimem2", "body", "var"}}
PlainInstr   == {i \in Instr : i.do # "inimem2"}
ReadInstr    == {i \in Instr : /\ i.do \in {"lit", "list", "body"}
                               /\ i.do # "body" => i.nxt[1] # "body"
                               /\ i.do = "list" => i.src[1] # "body"}

LEMMA InstrKinds ==
  /\ Seq(CommandInstr) \subseteq Seq(PlainInstr) /\ Seq(PlainInstr) \subseteq Seq(Instr)
  /\ Seq(ReadInstr) \subseteq Seq(PlainInstr)
  /\ \A len \in Nat, u \in Nat, op \in {"INTEGER", "STRING"} :
       Lit(op, len, u, S(0), "stck") \in CommandInstr
  /\ \A o \in Operand, nxt \in Operand, dst \in Target :
       Copy(o, nxt, dst) \in CommandInstr /\ List(o, nxt, dst) \in CommandInstr
  /\ Pop("stck") \in CommandInstr /\ Pop("dump") \in CommandInstr
  /\ Unstack \in CommandInstr /\ Abort \in CommandInstr /\ SAVESTACK \in CommandInstr
<1>1. CommandInstr \subseteq PlainInstr /\ PlainInstr \subseteq Instr /\ ReadInstr \subseteq PlainInstr
  BY DEF CommandInstr, PlainInstr, ReadInstr
<1>2. \A op \in {"INTEGER", "STRING"}, len \in Nat, u \in Nat :
       Lit(op, len, u, S(0), "stck") \in CommandInstr
  <2>1. S(0) \in Operand /\ "stck" \in Target
    BY OperandTypes DEF Target
  <2> QED BY <2>1, InstrTypes DEF Lit, CommandInstr
<1>3. \A o \in Operand, nxt \in Operand, dst \in Target :
       Copy(o, nxt, dst) \in CommandInstr /\ List(o, nxt, dst) \in CommandInstr
  BY InstrTypes DEF Copy, List, CommandInstr
<1>4. Pop("stck") \in CommandInstr /\ Pop("dump") \in CommandInstr
      /\ Unstack \in CommandInstr /\ Abort \in CommandInstr /\ SAVESTACK \in CommandInstr
  BY InstrTypes DEF Pop, Unstack, Abort, SAVESTACK, List, CommandInstr
<1>5. Seq(CommandInstr) \subseteq Seq(PlainInstr) /\ Seq(PlainInstr) \subseteq Seq(Instr)
      /\ Seq(ReadInstr) \subseteq Seq(PlainInstr)
  BY <1>1
<1> QED BY <1>2, <1>3, <1>4, <1>5

LEMMA CommandType == ASSUME NEW b PROVE Command(b) \in Seq(CommandInstr)
<1>1. "stck" \in Target /\ "dump" \in Target /\ "l" \in Target
  BY DEF Target
<1>2. CASE b = "dup"
  BY <1>1, <1>2, InstrKinds, OperandTypes DEF Command
<1>3. CASE b = "over"
  BY <1>1, <1>3, InstrKinds, OperandTypes DEF Command
<1>4. CASE b = "pop"
  BY <1>1, <1>4, InstrKinds, OperandTypes DEF Command
<1>5. CASE b = "swap"
  BY <1>1, <1>5, InstrKinds, OperandTypes DEF Command
<1>6. CASE b = "rotate"
  BY <1>1, <1>6, InstrKinds, OperandTypes DEF Command
<1>7. CASE b = "cons"
  BY <1>1, <1>7, InstrKinds, OperandTypes DEF Command
<1>8. CASE b = "unstack"
  BY <1>1, <1>8, InstrKinds, OperandTypes DEF Command
<1>9. CASE b = "stack"
  BY <1>1, <1>9, InstrKinds, OperandTypes DEF Command
<1>10. CASE b = "list"
  BY <1>1, <1>10, InstrKinds, OperandTypes DEF Command
<1>11. CASE b = "uncons"
  <2>1. <<SAVESTACK, Abort>> \in Seq(CommandInstr)
    BY InstrKinds
  <2>2. <<SAVESTACK, Copy(First(0), S(1), "stck"),
          List(First(1), S(0), "stck"), Pop("dump")>> \in Seq(CommandInstr)
    BY <1>1, InstrKinds, OperandTypes
  <2> QED BY <2>1, <2>2, <1>11 DEF Command
<1>12. CASE b \notin {"dup", "over", "pop", "swap", "rotate", "cons", "unstack", "stack", "list", "uncons"}
  BY <1>12 DEF Command
<1> QED BY <1>2, <1>3, <1>4, <1>5, <1>6, <1>7, <1>8, <1>9, <1>10, <1>11, <1>12

LEMMA RequestType ==
  ASSUME TypeOK, NEW i \in Instr, i.do \in {"lit", "copy", "list"}
  PROVE  /\ Request(i) \in Requests
         /\ Request(i).op = "LIST" => Request(i).u \in Index
         /\ At(i.nxt) \in Index
<1>1. i.nxt \in Operand /\ i.dst \in Target
  BY DEF Instr
<1>2. CASE i.do = "lit"
  <2>1. Request(i) = [op |-> i.op, len |-> i.len, u |-> i.u, dst |-> i.dst]
    BY <1>2 DEF Request
  <2>2. i.op \in {"INTEGER", "STRING"} /\ i.len \in Nat /\ i.u \in Nat
    BY <1>2 DEF Instr
  <2> QED BY <1>1, <2>1, <2>2, AtType DEF Requests, Ops
<1>3. CASE i.do = "copy"
  <2>1. Request(i) = [op |-> Source(i).op, len |-> Source(i).len,
                      u |-> Source(i).u, dst |-> i.dst]
    BY <1>3 DEF Request
  <2>2. Source(i) \in Node
    <3>1. i.src \in Operand
      BY <1>3 DEF Instr
    <3> QED BY <3>1, AtType DEF Source, TypeOK
  <2> QED BY <1>1, <2>1, <2>2, AtType DEF Requests, Node
<1>4. CASE i.do = "list"
  <2>1. Request(i) = [op |-> "LIST", len |-> 0, u |-> At(i.src), dst |-> i.dst]
    BY <1>4 DEF Request
  <2>2. i.src \in Operand
    BY <1>4 DEF Instr
  <2>3. At(i.src) \in Index /\ At(i.src) \in Nat /\ At(i.nxt) \in Index
    BY <1>1, <2>2, AtType, IndexFacts
  <2> QED BY <1>1, <2>1, <2>3 DEF Requests, Ops
<1> QED BY <1>2, <1>3, <1>4

LEMMA BuildType ==
  ASSUME TypeOK, NEW q \in Requests, NEW u \in Nat, NEW nxt \in Index,
         q.op = "LIST" => u \in Index, Build(q, u, nxt)
  PROVE  /\ memory' \in [Index -> Node]
         /\ memoryindex' \in Room
         /\ root' \in [RootSet -> Index]
<1>1. memoryindex \in Index /\ q.len \in Nat /\ q.op \in Ops /\ q.dst \in Target
  BY HeapAssumption DEF Build, TypeOK, Room, Index, Requests
<1>2. [op |-> q.op, len |-> q.len, next |-> nxt, u |-> u] \in Node
  BY <1>1 DEF Node
<1>3. Blank \in Node
  BY IndexFacts DEF Blank, Node, Ops
<1>4. memory' \in [Index -> Node]
  BY <1>2, <1>3 DEF Build, TypeOK
<1>5. memoryindex' \in Room
  BY <1>1, HeapAssumption DEF Build, Room, Index
<1>6. root' \in [RootSet -> Index]
  BY <1>1, IndexFacts, RootNamesType DEF Build, TypeOK
<1> QED BY <1>4, <1>5, <1>6

LEMMA EnlargeType == ASSUME TypeOK, NEW need, Enlarge(need) PROVE memorymax' \in Nat
<1>1. PICK f \in Doublings : memorymax' = memorymax * f
  BY DEF Enlarge
<1> QED BY <1>1, HeapAssumption DEF TypeOK

LEMMA TailType == ASSUME TypeOK, code # <<>> PROVE Head(code) \in Instr /\ Tail(code) \in Seq(Instr)
BY DEF TypeOK

LEMMA StartGcType ==
  ASSUME TypeOK, StartGc
  PROVE  /\ memory' \in [Index -> Node] /\ old_memory' \in [Index -> Node]
         /\ memoryindex' \in Room /\ mem_low' \in Room
         /\ forward' \in [Index -> Index] /\ slot' = 1
         /\ frames' = frames /\ gc' = "copy"
<1>1. Blank \in Node
  BY IndexFacts DEF Blank, Node, Ops
<1> QED BY <1>1 DEF StartGc, TypeOK

-----------------------------------------------------------------------------
(* Type correctness. *)

LEMMA InitType == Init => TInv
<1> SUFFICES ASSUME Init PROVE TInv
  OBVIOUS
<1>1. Blank \in Node
  BY IndexFacts DEF Blank, Node, Ops
<1>2. NoPend \in Requests
  BY DEF NoPend, Requests, Ops, Target
<1>3. memoryindex \in Room /\ mem_low \in Room /\ memorymax \in Nat
  BY HeapAssumption DEF Init, Room
<1>4. slot \in 1 .. Slots + 1
  BY HeapAssumption DEF Init, Slots
<1>5. ops \in 0 .. MaxOps
  BY HeapAssumption DEF Init
<1>6. memory \in [Index -> Node] /\ old_memory \in [Index -> Node]
  BY <1>1 DEF Init
<1>7. root \in [RootSet -> Index] /\ forward \in [Index -> Index]
  BY IndexFacts DEF Init
<1>8. symtab \in [Syms -> Entry]
  BY IndexFacts DEF Init, Entry
<1>9. code \in Seq(Instr) /\ frames \in Seq(Frame) /\ pend \in Requests /\ frames = <<>>
  BY <1>2 DEF Init
<1> QED
  BY <1>3, <1>4, <1>5, <1>6, <1>7, <1>8, <1>9 DEF Init, TInv, TypeOK, FrameSlot

LEMMA BeginType ==
  ASSUME TInv, NEW program \in Seq(Instr), Begin(program)
  PROVE  TInv'
BY HeapAssumption DEF TInv, TypeOK, FrameSlot, Begin, Start, heapVars, symVars, gcVars, Slots

LEMMA AllocFitsType == TInv /\ AllocFits => TInv'
<1> SUFFICES ASSUME TInv, AllocFits PROVE TInv'
  OBVIOUS
<1>1. Head(code) \in Instr /\ Tail(code) \in Seq(Instr)
  BY TailType DEF AllocFits, Allocates, TInv
<1> DEFINE q == Request(Head(code))
<1>2. q \in Requests /\ (q.op = "LIST" => q.u \in Index) /\ At(Head(code).nxt) \in Index
  BY <1>1, RequestType DEF AllocFits, Allocates, TInv
<1>3. q.u \in Nat
  BY <1>2 DEF Requests
<1>4. Build(q, q.u, At(Head(code).nxt))
  BY DEF AllocFits
<1>5. memory' \in [Index -> Node] /\ memoryindex' \in Room /\ root' \in [RootSet -> Index]
  BY <1>2, <1>3, <1>4, BuildType DEF TInv
<1> QED
  BY <1>1, <1>5 DEF TInv, TypeOK, FrameSlot, AllocFits, symVars, gcVars, Slots

LEMMA AllocLibraryType == TInv /\ AllocLibrary => TInv'
<1> SUFFICES ASSUME TInv, AllocLibrary PROVE TInv'
  OBVIOUS
<1>1. Head(code) \in Instr /\ Tail(code) \in Seq(Instr)
  BY TailType DEF AllocLibrary, Allocates, TInv
<1> DEFINE q == Request(Head(code))
<1>2. q \in Requests /\ (q.op = "LIST" => q.u \in Index) /\ At(Head(code).nxt) \in Index
  BY <1>1, RequestType DEF AllocLibrary, Allocates, TInv
<1>3. q.u \in Nat
  BY <1>2 DEF Requests
<1>4. Build(q, q.u, At(Head(code).nxt)) /\ Enlarge(1 + q.len)
  BY DEF AllocLibrary
<1>5. memory' \in [Index -> Node] /\ memoryindex' \in Room /\ root' \in [RootSet -> Index]
  BY <1>2, <1>3, <1>4, BuildType DEF TInv
<1>6. memorymax' \in Nat
  BY <1>4, EnlargeType DEF TInv
<1> QED
  BY <1>1, <1>5, <1>6 DEF TInv, TypeOK, FrameSlot, AllocLibrary, symVars, gcVars, Slots

LEMMA AllocGcType == TInv /\ AllocGc => TInv'
<1> SUFFICES ASSUME TInv, AllocGc PROVE TInv'
  OBVIOUS
<1>1. Head(code) \in Instr /\ Tail(code) \in Seq(Instr)
  BY TailType DEF AllocGc, Allocates, TInv
<1> DEFINE q == Request(Head(code))
           r == At(Head(code).nxt)
           numgc == 1 + q.len + Count[r, MaxIndex]
                    + (IF q.op = "LIST" THEN Count[q.u, MaxIndex] ELSE 0)
<1>2. q \in Requests /\ (q.op = "LIST" => q.u \in Index) /\ r \in Index
  BY <1>1, RequestType DEF AllocGc, Allocates, TInv
<1>3. Enlarge(numgc) /\ pend' = [q EXCEPT !.u = IF q.op = "LIST" THEN 0 ELSE @]
      /\ root' = [x \in RootSet |-> IF x = "r" THEN r ELSE IF x # "l" THEN root[x]
                                     ELSE IF q.op = "LIST" THEN q.u ELSE 0]
  BY DEF AllocGc
<1>4. memorymax' \in Nat
  <2> HIDE DEF numgc
  <2> QED BY <1>3, EnlargeType DEF TInv
<1>5. pend' \in Requests
  BY <1>2, <1>3 DEF Requests
<1>6. root' \in [RootSet -> Index]
  <2> HIDE DEF q, r
  <2> QED BY <1>2, <1>3, IndexFacts DEF TInv, TypeOK
<1>7. StartGc
  BY DEF AllocGc
<1>8. slot' \in 1 .. Slots' + 1 /\ (frames' # <<>> => slot' <= Slots')
  BY <1>7, HeapAssumption DEF StartGc, Slots
<1> QED
  BY <1>1, <1>4, <1>5, <1>6, <1>7, <1>8, StartGcType
  DEF TInv, TypeOK, FrameSlot, AllocGc, symVars

LEMMA AllocResumeType == TInv /\ AllocResume => TInv'
<1> SUFFICES ASSUME TInv, AllocResume PROVE TInv'
  OBVIOUS
<1> DEFINE u == IF pend.op = "LIST" THEN root.l ELSE pend.u
<1>1. pend \in Requests /\ root.l \in Index /\ root.r \in Index
  BY RootNamesType DEF TInv, TypeOK
<1>2. u \in Nat /\ (pend.op = "LIST" => u \in Index)
  BY <1>1, IndexFacts DEF Requests
<1>3. Build(pend, u, root.r)
  BY DEF AllocResume
<1>4. memory' \in [Index -> Node] /\ memoryindex' \in Room /\ root' \in [RootSet -> Index]
  <2> HIDE DEF u
  <2> QED BY <1>1, <1>2, <1>3, BuildType DEF TInv
<1>5. NoPend \in Requests
  BY DEF NoPend, Requests, Ops, Target
<1> QED
  BY <1>4, <1>5 DEF TInv, TypeOK, FrameSlot, AllocResume, symVars, gcVars, Slots

LEMMA SlotRootType == ASSUME TypeOK, NEW j \in 1 .. Slots PROVE SlotRoot(j) \in Index
<1>1. CASE j <= 11
  BY <1>1, RootNamesType DEF SlotRoot, TypeOK
<1>2. CASE j > 11
  <2>1. SymOf(j) \in Syms
    BY <1>2, HeapAssumption DEF SymOf, Syms, Slots
  <2> QED BY <1>2, <2>1 DEF SlotRoot, TypeOK, Entry
<1> QED BY <1>1, <1>2, HeapAssumption DEF Slots

LEMMA GcRootType == ASSUME TInv, NEW j \in 1 .. Slots, GcRoot(j) PROVE TInv'
<1>1. frames' \in Seq(Frame)
  <2>1. [cur |-> SlotRoot(j), head |-> 0, tail |-> 0, dest |-> 0] \in Frame
    BY SlotRootType, IndexFacts DEF TInv, Frame
  <2> QED BY <2>1 DEF GcRoot
<1>2. slot' \in 1 .. Slots' + 1 /\ slot' <= Slots'
  BY HeapAssumption DEF GcRoot, Slots
<1> QED
  BY <1>1, <1>2 DEF TInv, TypeOK, FrameSlot, GcRoot, heapVars, symVars

LEMMA FramesType ==
  ASSUME TypeOK, frames # <<>>
  PROVE  /\ Head(frames) \in Frame /\ Tail(frames) \in Seq(Frame)
         /\ Tail(frames) # <<>> =>
              Head(Tail(frames)) \in Frame /\ Tail(Tail(frames)) \in Seq(Frame)
<1>1. Head(frames) \in Frame /\ Tail(frames) \in Seq(Frame)
  BY DEF TypeOK
<1>2. ASSUME Tail(frames) # <<>>
      PROVE  Head(Tail(frames)) \in Frame /\ Tail(Tail(frames)) \in Seq(Frame)
  <2> DEFINE t == Tail(frames)
  <2>1. t \in Seq(Frame) /\ t # <<>>
    BY <1>1, <1>2
  <2> HIDE DEF t
  <2>2. Head(t) \in Frame /\ Tail(t) \in Seq(Frame)
    BY <2>1
  <2> QED BY <2>2 DEF t
<1> QED BY <1>1, <1>2

LEMMA JoinedType ==
  ASSUME TypeOK, NEW f \in Frame, NEW temp \in Index
  PROVE  Joined(f, temp) \in Frame
BY IndexFacts DEF Joined, Frame, TypeOK, Node

LEMMA LinkTailType ==
  ASSUME NEW mem \in [Index -> Node], NEW tail \in Index, NEW n \in Index
  PROVE  LinkTail(mem, tail, n) \in [Index -> Node]
BY DEF LinkTail, Node

LEMMA SetLisType ==
  ASSUME NEW mem \in [Index -> Node], NEW d \in Index, NEW r \in Index
  PROVE  [mem EXCEPT ![d].u = r] \in [Index -> Node]
<1>1. [mem[d] EXCEPT !.u = r] \in Node
  BY IndexFacts DEF Node
<1> QED BY <1>1

LEMMA PushFrame ==
  ASSUME NEW f \in Frame, NEW q \in Seq(Frame)
  PROVE  <<f>> \o q \in Seq(Frame)
OBVIOUS

LEMMA MovedType ==
  ASSUME NEW old \in Node
  PROVE  Moved(old) \in Node /\ MovedSize(old) \in Nat \ {0}
         /\ Moved(old).next = 0 /\ (Moved(old).op = "LIST" => Moved(old).u = 0)
BY IndexFacts DEF Node, Moved, MovedSize

LEMMA GcCopyNodeType == TInv /\ GcCopyNode => TInv'
<1> SUFFICES ASSUME TInv, GcCopyNode PROVE TInv'
  OBVIOUS
<1> DEFINE f     == Head(frames)
           old   == old_memory[f.cur]
           temp  == memoryindex
           mem   == [memory EXCEPT ![temp] = Moved(old)]
           inner == [cur |-> old.u, head |-> 0, tail |-> 0, dest |-> 0]
           outer == [cur |-> f.cur, head |-> f.head, tail |-> f.tail, dest |-> temp]
<1>1. f \in Frame /\ Tail(frames) \in Seq(Frame) /\ frames # <<>> /\ slot <= Slots
  BY FramesType DEF GcCopyNode, TInv, FrameSlot
<1>2. f.cur \in Index /\ old \in Node
  BY <1>1 DEF Frame, TInv, TypeOK
<1>3. temp \in Index /\ memoryindex' \in Room
  <2>1. memoryindex' = temp + MovedSize(old) /\ memoryindex' <= MaxIndex + 1
    BY DEF GcCopyNode
  <2>2. MovedSize(old) \in Nat \ {0}
    BY <1>2, MovedType
  <2>3. memoryindex \in Nat /\ MaxIndex \in Nat
    BY HeapAssumption DEF TInv, TypeOK, Room
  <2> HIDE DEF old
  <2> QED BY <2>1, <2>2, <2>3 DEF Room, Index
<1>4. mem \in [Index -> Node]
  <2>1. Moved(old) \in Node
    BY <1>2, MovedType
  <2> HIDE DEF old
  <2> QED BY <1>3, <2>1 DEF TInv, TypeOK
<1>5. CASE old.op = "LIST"
  <2>1. memory' = mem /\ forward' = forward
        /\ frames' = <<inner>> \o (<<outer>> \o Tail(frames))
    BY <1>5 DEF GcCopyNode
  <2>2. inner \in Frame /\ outer \in Frame
    BY <1>1, <1>2, <1>3, <1>5, IndexFacts DEF Frame, Node
  <2>3. frames' \in Seq(Frame)
    <3> HIDE DEF inner, outer
    <3> QED BY <1>1, <2>1, <2>2, PushFrame
  <2> QED
    BY <1>1, <1>3, <1>4, <2>1, <2>3
    DEF TInv, TypeOK, FrameSlot, GcCopyNode, symVars, Slots
<1>6. CASE old.op # "LIST"
  <2>1. memory' = LinkTail(mem, f.tail, temp) /\ forward' = [forward EXCEPT ![f.cur] = temp]
        /\ frames' = <<Joined(f, temp)>> \o Tail(frames)
    BY <1>6 DEF GcCopyNode
  <2>2. memory' \in [Index -> Node]
    <3> HIDE DEF mem
    <3> QED BY <1>1, <1>3, <1>4, <2>1, LinkTailType DEF Frame
  <2>3. frames' \in Seq(Frame)
    BY <1>1, <1>3, <2>1, JoinedType, PushFrame DEF TInv
  <2>4. forward' \in [Index -> Index]
    BY <1>3, <2>1 DEF TInv, TypeOK
  <2> QED
    BY <1>1, <1>3, <2>2, <2>3, <2>4
    DEF TInv, TypeOK, FrameSlot, GcCopyNode, symVars, Slots
<1> QED BY <1>5, <1>6

LEMMA GcChainEndType == TInv /\ GcChainEnd => TInv'
<1> SUFFICES ASSUME TInv, GcChainEnd PROVE TInv'
  OBVIOUS
<1> DEFINE f      == Head(frames)
           target == IF f.cur < mem_low THEN f.cur ELSE forward[f.cur]
           result == IF f.head = 0 THEN target ELSE f.head
           mem    == LinkTail(memory, f.tail, target)
           g      == Head(Tail(frames))
<1>1. f \in Frame /\ frames # <<>> /\ slot <= Slots
  BY FramesType DEF GcChainEnd, TInv, FrameSlot
<1>2. target \in Index /\ result \in Index
  BY <1>1 DEF Frame, TInv, TypeOK
<1>3. mem \in [Index -> Node]
  <2> HIDE DEF target
  <2> QED BY <1>1, <1>2, LinkTailType DEF TInv, TypeOK, Frame
<1>4. CASE Tail(frames) # <<>>
  <2>1. /\ memory' = LinkTail([mem EXCEPT ![g.dest].u = result], g.tail, g.dest)
        /\ forward' = [forward EXCEPT ![g.cur] = g.dest]
        /\ frames' = <<Joined(g, g.dest)>> \o Tail(Tail(frames))
        /\ UNCHANGED <<root, symtab, slot>>
    BY <1>4 DEF GcChainEnd
  <2>2. g \in Frame /\ Tail(Tail(frames)) \in Seq(Frame)
    BY <1>1, <1>4, FramesType DEF TInv
  <2>3. [mem EXCEPT ![g.dest].u = result] \in [Index -> Node]
    <3>1. g.dest \in Index
      BY <2>2 DEF Frame
    <3> HIDE DEF mem, result, g
    <3> QED BY <1>2, <1>3, <3>1, SetLisType
  <2>4. memory' \in [Index -> Node]
    <3> HIDE DEF mem, result
    <3> QED BY <2>1, <2>2, <2>3, LinkTailType DEF Frame
  <2>5. frames' \in Seq(Frame)
    BY <2>1, <2>2, JoinedType, PushFrame DEF TInv, Frame
  <2>6. forward' \in [Index -> Index]
    BY <2>1, <2>2 DEF TInv, TypeOK, Frame
  <2> QED
    BY <1>1, <2>1, <2>4, <2>5, <2>6 DEF TInv, TypeOK, FrameSlot, GcChainEnd, Slots
<1>5. CASE Tail(frames) = <<>>
  <2>1. /\ memory' = mem /\ frames' = <<>> /\ slot' = slot + 1 /\ forward' = forward
        /\ IF slot <= 11
             THEN root' = [root EXCEPT ![RootNames[slot]] = result] /\ UNCHANGED symtab
             ELSE /\ symtab' = [symtab EXCEPT ![SymOf(slot)].body = result]
                  /\ UNCHANGED root
    BY <1>5 DEF GcChainEnd
  <2>2. root' \in [RootSet -> Index]
    <3> HIDE DEF result
    <3> QED BY <1>2, <2>1 DEF TInv, TypeOK
  <2>3. symtab' \in [Syms -> Entry]
    <3> HIDE DEF result
    <3>1. [symtab EXCEPT ![SymOf(slot)].body = result] \in [Syms -> Entry]
      BY <1>2 DEF TInv, TypeOK, Entry
    <3> QED BY <2>1, <3>1 DEF TInv, TypeOK
  <2>4. slot' \in 1 .. Slots' + 1
    BY <1>1, <2>1, HeapAssumption DEF TInv, TypeOK, Slots
  <2> QED
    BY <1>3, <2>1, <2>2, <2>3, <2>4 DEF TInv, TypeOK, FrameSlot, GcChainEnd, Slots
<1> QED BY <1>4, <1>5

LEMMA Gc2Type == TInv /\ Gc2 => TInv'
<1> SUFFICES ASSUME TInv, Gc2 PROVE TInv'
  OBVIOUS
<1>1. Blank \in Node
  BY IndexFacts DEF Blank, Node, Ops
<1>2. memorymax' \in Nat
  BY DEF Gc2, Resized, TInv, TypeOK
<1>3. slot' \in 1 .. Slots' + 1 /\ frames' = <<>>
  BY HeapAssumption DEF Gc2, Slots
<1>4. old_memory' \in [Index -> Node] /\ forward' \in [Index -> Index]
  BY <1>1, IndexFacts DEF Gc2
<1> QED
  BY <1>2, <1>3, <1>4 DEF TInv, TypeOK, FrameSlot, Gc2, symVars

LEMMA RunType == TInv /\ Run => TInv'
<1> SUFFICES ASSUME TInv, Run PROVE TInv'
  OBVIOUS
<1>1. Head(code) \in Instr /\ Tail(code) \in Seq(Instr)
  BY TailType DEF Run, TInv
<1>2. CASE RunPop
  <2>1. Head(code).reg \in RootSet
    BY <1>1, <1>2, RootNamesType DEF RunPop, Instr
  <2>2. root' \in [RootSet -> Index]
    BY <1>2, <2>1, NxtType DEF RunPop, TInv, TypeOK
  <2> QED
    BY <1>1, <1>2, <2>2 DEF RunPop, Run, TInv, TypeOK, FrameSlot, symVars, gcVars, Slots
<1>3. CASE RunUnstack
  <2>1. root' \in [RootSet -> Index]
    BY <1>3, LisType DEF RunUnstack, TInv, TypeOK
  <2> QED
    BY <1>1, <1>3, <2>1 DEF RunUnstack, Run, TInv, TypeOK, FrameSlot, symVars, gcVars, Slots
<1>4. CASE RunSetBody
  <2>1. root' \in [RootSet -> Index]
    BY <1>4, NxtType, RootNamesType DEF RunSetBody, TInv, TypeOK
  <2>2. Lis(root.stck) \in Index
    BY LisType, RootType, RootNamesType DEF TInv
  <2>3. symtab' \in [Syms -> Entry]
    <3>1. [symtab EXCEPT ![Head(code).sym].body = Lis(root.stck)] \in [Syms -> Entry]
      BY <2>2 DEF TInv, TypeOK, Entry
    <3> QED BY <1>4, <3>1 DEF RunSetBody
  <2> QED
    BY <1>1, <1>4, <2>1, <2>3 DEF RunSetBody, Run, TInv, TypeOK, FrameSlot, gcVars, Slots
<1>5. CASE RunInitMem2
  BY <1>1, <1>5 DEF RunInitMem2, Run, TInv, TypeOK, FrameSlot, symVars, gcVars, Slots
<1>6. CASE RunSetVar
  <2>1. root' \in [RootSet -> Index] /\ root.l \in Index
    BY <1>6, IndexFacts, RootNamesType DEF RunSetVar, TInv, TypeOK
  <2>2. symtab' \in [Syms -> Entry]
    BY <1>6, <2>1 DEF RunSetVar, TInv, TypeOK, Entry
  <2> QED
    BY <1>1, <1>6, <2>1, <2>2 DEF RunSetVar, Run, TInv, TypeOK, FrameSlot, gcVars, Slots
<1>7. CASE RunAbort
  <2>1. root' \in [RootSet -> Index]
    BY <1>7, IndexFacts DEF RunAbort, TInv, TypeOK
  <2> QED
    BY <1>1, <1>7, <2>1 DEF RunAbort, Run, TInv, TypeOK, FrameSlot, symVars, gcVars, Slots
<1> QED BY <1>2, <1>3, <1>4, <1>5, <1>6, <1>7 DEF Run

LEMMA ReadBodyType ==
  ASSUME NEW s \in DefSyms \cup EmbedSyms, NEW v \in Nums, NEW quoted \in BOOLEAN
  PROVE  ReadBody(s, v, quoted) \in Seq(ReadInstr)
<1>1. v \in Nat /\ "l" \in Target /\ "stck" \in Target
  BY HeapAssumption DEF Target
<1>2. Lit("INTEGER", 0, v, Nil, "l") \in ReadInstr
  BY <1>1, InstrTypes, OperandTypes DEF Lit, Nil, ReadInstr
<1>3. List(Temp, Nil, "l") \in ReadInstr /\ List(Temp, S(0), "stck") \in ReadInstr
  BY <1>1, InstrTypes, OperandTypes DEF List, Nil, Temp, S, ReadInstr
<1>4. SetBody(s) \in ReadInstr
  BY InstrTypes DEF SetBody, ReadInstr
<1>5. (IF quoted THEN <<List(Temp, Nil, "l")>> ELSE <<>>) \in Seq(ReadInstr)
  BY <1>3
<1>6. <<Lit("INTEGER", 0, v, Nil, "l")>> \in Seq(ReadInstr)
      /\ <<List(Temp, S(0), "stck"), SetBody(s)>> \in Seq(ReadInstr)
  BY <1>2, <1>3, <1>4
<1> QED BY <1>5, <1>6, ConcatProperties DEF ReadBody

LEMMA DefineType ==
  ASSUME TInv, NEW s \in DefSyms, NEW v \in Nums, NEW quoted \in BOOLEAN,
         Define(s, v, quoted)
  PROVE  TInv'
<1>1. code' \in Seq(Instr)
  <2>1. <<InitMem2>> \in Seq(Instr)
    BY InstrTypes
  <2>2. ReadBody(s, v, quoted) \in Seq(Instr)
    BY ReadBodyType, InstrKinds
  <2> QED BY <2>1, <2>2, ConcatProperties DEF Define
<1>2. root' \in [RootSet -> Index]
  BY IndexFacts, RootNamesType DEF Define, TInv, TypeOK
<1>3. ops' \in 0 .. MaxOps
  BY HeapAssumption DEF Define, Start, TInv, TypeOK
<1> QED
  BY <1>1, <1>2, <1>3 DEF Define, TInv, TypeOK, FrameSlot, symVars, gcVars, Slots

LEMMA CollectType == TInv /\ Collect => TInv'
<1> SUFFICES ASSUME TInv, Collect PROVE TInv'
  OBVIOUS
<1>1. ops' \in 0 .. MaxOps /\ StartGc
  BY HeapAssumption DEF Collect, Start, TInv, TypeOK
<1>2. slot' \in 1 .. Slots' + 1 /\ slot' <= Slots'
  BY <1>1, HeapAssumption DEF StartGc, Slots
<1> QED
  BY <1>1, <1>2, StartGcType DEF Collect, TInv, TypeOK, FrameSlot, symVars

LEMMA UnassignType == ASSUME TInv, NEW s \in Syms, Unassign(s) PROVE TInv'
<1>1. symtab' \in [Syms -> Entry]
  BY IndexFacts DEF Unassign, TInv, TypeOK, Entry
<1>2. ops' \in 0 .. MaxOps
  BY HeapAssumption DEF Unassign, Start, TInv, TypeOK
<1> QED
  BY <1>1, <1>2 DEF Unassign, TInv, TypeOK, FrameSlot, heapVars, gcVars, Slots

(* Every command is the start of a program without InitMem2.  Only assign  *)
(* and an embedded definition change the symbol table in it.               *)
LEMMA ExecuteBegins ==
  ASSUME Execute
  PROVE  \/ \E program \in Seq(PlainInstr) :
              /\ Begin(program)
              /\ VarSyms = {} /\ EmbedSyms = {} => program \in Seq(CommandInstr)
         \/ \E s \in VarSyms : Unassign(s)
         \/ \E s \in DefSyms, v \in Nums, quoted \in BOOLEAN : Define(s, v, quoted)
<1> DEFINE Begins == \E program \in Seq(PlainInstr) :
                        /\ Begin(program)
                        /\ VarSyms = {} /\ EmbedSyms = {} => program \in Seq(CommandInstr)
<1>0. "l" \in Target /\ "stck" \in Target /\ VarSyms \subseteq Syms
      /\ Seq(CommandInstr) \subseteq Seq(PlainInstr)
  BY HeapAssumption, InstrKinds DEF Target, Syms
<1>1. ASSUME NEW v \in Nums, PushNum(v) PROVE Begins
  <2>1. <<Lit("INTEGER", 0, v, S(0), "stck")>> \in Seq(CommandInstr)
    BY InstrKinds, HeapAssumption
  <2> QED BY <1>0, <1>1, <2>1 DEF PushNum
<1>2. ASSUME NEW k \in StrLens, PushString(k) PROVE Begins
  <2>1. <<Lit("STRING", k, 0, S(0), "stck")>> \in Seq(CommandInstr)
    BY InstrKinds, HeapAssumption
  <2> QED BY <1>0, <1>2, <2>1 DEF PushString
<1>3. ASSUME NEW b \in Builtins, Builtin(b) PROVE Begins
  BY <1>0, <1>3, CommandType DEF Builtin
<1>4. ASSUME NEW s \in VarSyms, Assign(s) PROVE Begins
  <2>1. SetVar(s) \in PlainInstr
    BY InstrTypes DEF SetVar, PlainInstr
  <2>2. Copy(S(0), Nil, "l") \in PlainInstr /\ Pop("stck") \in PlainInstr
    <3>1. CommandInstr \subseteq PlainInstr
      BY DEF CommandInstr, PlainInstr
    <3> QED BY <1>0, <3>1, InstrKinds, OperandTypes
  <2>3. <<Copy(S(0), Nil, "l"), Pop("stck"), SetVar(s)>> \in Seq(PlainInstr)
    BY <2>1, <2>2
  <2> QED BY <1>4, <2>3 DEF Assign
<1>5. ASSUME NEW s \in Syms, Eval(s) PROVE Begins
  <2>1. <<Copy(Body(s), S(0), "stck")>> \in Seq(CommandInstr)
    BY <1>0, InstrKinds, OperandTypes
  <2> QED BY <1>0, <1>5, <2>1 DEF Eval
<1>6. ASSUME NEW s \in EmbedSyms, NEW v \in Nums, NEW quoted \in BOOLEAN, EmbedDefine(s, v, quoted)
      PROVE Begins
  BY <1>6, ReadBodyType, InstrKinds DEF EmbedDefine
<1> QED BY <1>1, <1>2, <1>3, <1>4, <1>5, <1>6 DEF Execute

(* The type invariant is inductive. *)
LEMMA NextType == TInv /\ [Next]_vars => TInv'
<1> SUFFICES ASSUME TInv, [Next]_vars PROVE TInv'
  OBVIOUS
<1>1. CASE Execute
  <2>1. VarSyms \subseteq Syms /\ Seq(PlainInstr) \subseteq Seq(Instr)
    BY HeapAssumption, InstrKinds DEF Syms
  <2> QED BY <1>1, <2>1, ExecuteBegins, BeginType, UnassignType, DefineType
<1>2. CASE Collect
  BY <1>2, CollectType
<1>3. CASE Run
  BY <1>3, RunType
<1>4. CASE Allocate
  BY <1>4, AllocFitsType, AllocLibraryType, AllocGcType, AllocResumeType DEF Allocate
<1>5. CASE GcStep
  BY <1>5, GcRootType, GcCopyNodeType, GcChainEndType, Gc2Type DEF GcStep
<1>6. CASE UNCHANGED vars
  BY <1>6 DEF vars, heapVars, symVars, gcVars, TInv, TypeOK, FrameSlot, Slots
<1> QED BY <1>1, <1>2, <1>3, <1>4, <1>5, <1>6 DEF Next

(***************************************************************************)
(* TypeOK holds in every state: no index leaves the memory, and what the   *)
(* collector and the builtins leave behind are well-formed nodes.          *)
(***************************************************************************)
THEOREM TypeCorrect == Spec => []TypeOK
<1>1. TInv => TypeOK
  BY DEF TInv
<1> QED BY InitType, NextType, <1>1, PTL DEF Spec

-----------------------------------------------------------------------------
(***************************************************************************)
(* The definition space.  The invariant says what protects it: references  *)
(* out of it would be lost by a collection, which starts from a memory     *)
(* that holds nothing else (GcInv), and inimem2 turns whatever was read    *)
(* since inimem1 into definitions, so that no reference made in between    *)
(* may lead out of what has been allocated (BusyInv).                      *)
(***************************************************************************)
NodesLive == \A i \in 0 .. memoryindex - 1 : Closed(memory[i], memoryindex)
RootsLive == \A r \in RootSet : root[r] < memoryindex

Low == 1 <= mem_low /\ mem_low <= memoryindex

CodeShape ==
  /\ flibrary_busy =>
       /\ code # <<>> /\ code[Len(code)] = InitMem2
       /\ \A i \in 1 .. Len(code) - 1 : code[i] \in ReadInstr
  /\ ~flibrary_busy => code \in Seq(PlainInstr)

BusyInv == flibrary_busy => gc = "off" /\ NodesLive /\ RootsLive

(* The program nodes are not part of this module, so prog is never set.    *)
ProgEmpty == root["prog"] = 0

(* Activations of copy() whose chain lies in the new memory, and those     *)
(* that wait with a list node of the new memory for an inner chain.        *)
LiveFrame == {f \in Frame : /\ f.head < memoryindex /\ f.tail < memoryindex
                            /\ f.tail = 0 \/ mem_low <= f.tail}
WaitingFrame == {f \in LiveFrame : mem_low <= f.dest /\ f.dest < memoryindex}

GcInv ==
  /\ gc = "copy" =>
       /\ \A i \in Index : Closed(memory[i], memoryindex)
       /\ \A n \in Index : forward[n] < memoryindex
       /\ frames # <<>> =>
            Head(frames) \in LiveFrame /\ Tail(frames) \in Seq(WaitingFrame)
       /\ frames # <<>> /\ slot <= 11 => root[RootNames[slot]] # 0
  /\ gc # "copy" => frames = <<>> /\ \A n \in Index : forward[n] = 0

DInv == TInv /\ Low /\ DefinitionsClosed /\ CodeShape /\ BusyInv /\ ProgEmpty /\ GcInv

(* What a step owes to the definitions. *)
Kept == mem_low' >= mem_low /\ \A i \in 0 .. mem_low - 1 : memory'[i] = memory[i]

LEMMA LowIndex == ASSUME TypeOK, Low PROVE mem_low \in Nat /\ memoryindex \in Nat
                                           /\ 0 .. mem_low - 1 \subseteq Index
                                           /\ 0 .. memoryindex - 1 \subseteq Index
BY HeapAssumption DEF TypeOK, Low, Room, Index

LEMMA NxtLive ==
  ASSUME TypeOK, Low, NodesLive, NEW n \in Index, n < memoryindex
  PROVE  Nxt(n) < memoryindex /\ Lis(n) < memoryindex
<1>1. n \in 0 .. memoryindex - 1 /\ 0 < memoryindex
  BY LowIndex DEF Index, Low
<1> QED BY <1>1 DEF NodesLive, Closed, Nxt, Lis

LEMMA SkipLive ==
  ASSUME TypeOK, Low, NodesLive, NEW n \in Index, n < memoryindex, NEW k
  PROVE  Skip(n, k) < memoryindex
<1>1. Nxt(n) \in Index /\ Nxt(n) < memoryindex
  BY NxtType, NxtLive
<1>2. Nxt(Nxt(n)) \in Index /\ Nxt(Nxt(n)) < memoryindex
  BY <1>1, NxtType, NxtLive
<1>3. Nxt(Nxt(Nxt(n))) < memoryindex
  BY <1>2, NxtLive
<1> QED BY <1>1, <1>2, <1>3 DEF Skip

LEMMA AtLive ==
  ASSUME TypeOK, Low, NodesLive, RootsLive, NEW o \in Operand,
         o[1] = "body" => symtab[o[2]].body < memoryindex
  PROVE  At(o) < memoryindex
<1>1. /\ root.stck \in Index /\ root.stck < memoryindex
      /\ root.dump \in Index /\ root.dump < memoryindex
      /\ root.l < memoryindex
  BY RootType, RootNamesType DEF RootsLive
<1>2. Skip(root.stck, o[2]) < memoryindex /\ Skip(root.stck, o[2]) \in Index
  BY <1>1, SkipLive, SkipType
<1>3. Lis(Skip(root.stck, o[2])) < memoryindex
  BY <1>2, NxtLive
<1>4. Lis(root.dump) \in Index /\ Lis(root.dump) < memoryindex
  BY <1>1, NxtLive, LisType
<1>5. Skip(Lis(root.dump), o[2]) < memoryindex
  BY <1>4, SkipLive
<1>6. Skip(Lis(Lis(root.dump)), o[2]) < memoryindex
  BY <1>4, NxtLive, LisType, SkipLive
<1>7. 0 < memoryindex
  BY LowIndex DEF Low
<1> QED BY <1>1, <1>2, <1>3, <1>4, <1>5, <1>6, <1>7 DEF At

LEMMA ClosedMono ==
  ASSUME NEW node \in Node, NEW a \in Nat, NEW b \in Nat, a <= b, Closed(node, a)
  PROVE  Closed(node, b)
<1>1. node.next \in Nat /\ node.u \in Nat
  BY IndexFacts DEF Node
<1> QED BY <1>1 DEF Closed

LEMMA BuildKeeps ==
  ASSUME TypeOK, Low, NEW q \in Requests, NEW u, NEW nxt, Build(q, u, nxt)
  PROVE  /\ memoryindex' > memoryindex /\ memoryindex' \in Nat
         /\ \A i \in 0 .. memoryindex - 1 : memory'[i] = memory[i]
<1>1. q.len \in Nat
  BY DEF Requests
<1>2. memoryindex' = memoryindex + 1 + q.len
  BY DEF Build
<1>3. ASSUME NEW i \in 0 .. memoryindex - 1 PROVE memory'[i] = memory[i]
  <2>1. i \in Index /\ i # memoryindex /\ i \notin memoryindex + 1 .. memoryindex + q.len
    BY <1>1, LowIndex
  <2> QED BY <2>1 DEF Build
<1> QED BY <1>1, <1>2, <1>3, LowIndex

LEMMA BuildLive ==
  ASSUME TypeOK, Low, NodesLive, RootsLive,
         NEW q \in Requests, NEW u \in Nat, NEW nxt \in Index, Build(q, u, nxt),
         nxt < memoryindex, q.op = "LIST" => u < memoryindex
  PROVE  NodesLive' /\ RootsLive'
<1>1. q.len \in Nat /\ q.dst \in RootSet
  BY RootNamesType DEF Requests
<1>2. memoryindex' = memoryindex + 1 + q.len /\ memoryindex \in Nat /\ 0 < memoryindex
  BY LowIndex DEF Build, Low
<1>3. ASSUME NEW r \in RootSet PROVE root'[r] < memoryindex'
  <2>1. root'[r] \in {memoryindex, 0, root[r]}
    BY <1>3 DEF Build
  <2>2. root[r] < memoryindex /\ root[r] \in Nat
    BY IndexFacts DEF RootsLive, TypeOK
  <2> QED BY <1>1, <1>2, <2>1, <2>2
<1>4. ASSUME NEW i \in 0 .. memoryindex' - 1 PROVE Closed(memory'[i], memoryindex')
  <2>1. i \in Index
    BY <1>1, <1>2, HeapAssumption DEF Build, Index
  <2>2. CASE i = memoryindex
    <3>1. memory'[i] = [op |-> q.op, len |-> q.len, next |-> nxt, u |-> u]
      BY <2>1, <2>2 DEF Build
    <3> QED BY <1>1, <1>2, <3>1, IndexFacts DEF Closed
  <2>3. CASE i \in memoryindex + 1 .. memoryindex + q.len
    <3>1. memory'[i] = Blank
      BY <1>1, <1>2, <2>1, <2>3 DEF Build
    <3> QED BY <1>1, <1>2, <3>1 DEF Closed, Blank
  <2>4. CASE i \in 0 .. memoryindex - 1
    <3>1. memory'[i] = memory[i] /\ memory[i] \in Node
      BY <2>1, <2>4, BuildKeeps DEF TypeOK
    <3>2. Closed(memory[i], memoryindex)
      BY <2>4 DEF NodesLive
    <3>3. memoryindex' \in Nat /\ memoryindex <= memoryindex'
      BY <1>1, <1>2
    <3> QED BY <1>2, <3>1, <3>2, <3>3, ClosedMono
  <2> QED BY <1>1, <1>2, <2>2, <2>3, <2>4
<1> QED BY <1>3, <1>4 DEF NodesLive, RootsLive

(* Consuming an instruction other than InitMem2 keeps the shape of code.   *)
LEMMA TailShape ==
  ASSUME TypeOK, CodeShape, code # <<>>, Head(code).do # "inimem2",
         code' = Tail(code), flibrary_busy' = flibrary_busy
  PROVE  CodeShape'
<1>1. code \in Seq(Instr) /\ Tail(code) \in Seq(Instr) /\ Head(code) = code[1]
      /\ Len(Tail(code)) = Len(code) - 1 /\ Len(code) \in Nat \ {0}
      /\ \A i \in 1 .. Len(Tail(code)) : Tail(code)[i] = code[i + 1]
  BY HeadTailProperties, LenProperties, EmptySeq DEF TypeOK
<1>2. CASE flibrary_busy
  <2>1. code[Len(code)] = InitMem2 /\ \A i \in 1 .. Len(code) - 1 : code[i] \in ReadInstr
    BY <1>2 DEF CodeShape
  <2>2. Len(code) # 1
    BY <1>1, <2>1 DEF InitMem2
  <2>3. Tail(code)[Len(Tail(code))] = InitMem2
    BY <1>1, <2>1, <2>2
  <2>4. \A i \in 1 .. Len(Tail(code)) - 1 : Tail(code)[i] \in ReadInstr
    BY <1>1, <2>1
  <2>5. Tail(code) # <<>>
    <3>1. Len(<<>>) = 0 /\ Len(Tail(code)) # 0
      BY <1>1, <2>2
    <3> QED BY <3>1
  <2> QED BY <1>2, <2>3, <2>4, <2>5 DEF CodeShape
<1>3. CASE ~flibrary_busy
  BY <1>3 DEF CodeShape
<1> QED BY <1>2, <1>3

LEMMA BusyHead ==
  ASSUME TypeOK, CodeShape, flibrary_busy
  PROVE  Head(code) = InitMem2 \/ Head(code) \in ReadInstr
<1>1. code # <<>> /\ Head(code) = code[1] /\ Len(code) \in Nat \ {0}
  BY LenProperties, EmptySeq DEF TypeOK, CodeShape
<1> QED BY <1>1 DEF CodeShape

(* inimem2 is the last instruction of a definition, and of nothing else.   *)
LEMMA InitMem2Last ==
  ASSUME TypeOK, CodeShape, code # <<>>, Head(code).do = "inimem2"
  PROVE  flibrary_busy /\ Tail(code) = <<>>
<1>0. Head(code) \in Instr
  BY TailType
<1>1. flibrary_busy
  <2>1. ~flibrary_busy => Head(code) \in PlainInstr
    BY DEF CodeShape
  <2> QED BY <2>1 DEF PlainInstr
<1>2. Len(code) \in Nat \ {0} /\ Head(code) = code[1]
  BY LenProperties, EmptySeq DEF TypeOK
<1>3. Len(code) = 1
  <2>1. SUFFICES ASSUME Len(code) # 1 PROVE FALSE
    OBVIOUS
  <2>2. 1 \in 1 .. Len(code) - 1
    <3>1. \A len \in Nat \ {0} : len # 1 => 1 \in 1 .. len - 1
      OBVIOUS
    <3> QED BY <1>2, <2>1, <3>1
  <2>3. code[1] \in ReadInstr
    BY <1>1, <2>2 DEF CodeShape
  <2> QED BY <1>2, <2>3 DEF ReadInstr
<1>4. Len(Tail(code)) = 0 /\ Tail(code) \in Seq(Instr)
  BY <1>3, HeadTailProperties DEF TypeOK
<1> QED BY <1>1, <1>4, EmptySeq

LEMMA KeptClosed ==
  ASSUME Kept, mem_low' = mem_low, DefinitionsClosed
  PROVE  DefinitionsClosed'
BY DEF Kept, DefinitionsClosed

(* A step of a builtin or of the allocator, outside a collection.          *)
LEMMA MutatorStep ==
  ASSUME DInv, TInv', Low', CodeShape', BusyInv', ProgEmpty', Kept,
         gc # "copy", gc' # "copy", mem_low' = mem_low,
         frames' = frames, forward' = forward
  PROVE  DInv'
BY KeptClosed DEF DInv, GcInv

LEMMA AllocDInv == DInv /\ (AllocFits \/ AllocLibrary) => DInv' /\ Kept
<1> SUFFICES ASSUME DInv, AllocFits \/ AllocLibrary PROVE DInv' /\ Kept
  OBVIOUS
<1> USE DEF DInv
<1>0. TypeOK /\ Head(code) \in Instr /\ Head(code).do \in {"lit", "copy", "list"} /\ gc = "off"
  BY TailType DEF AllocFits, AllocLibrary, Allocates, TInv
<1> DEFINE q == Request(Head(code))
           r == At(Head(code).nxt)
<1>1. q \in Requests /\ (q.op = "LIST" => q.u \in Index) /\ r \in Index /\ Build(q, q.u, r)
      /\ q.u \in Nat
  BY <1>0, RequestType DEF AllocFits, AllocLibrary, Requests
<1>2. TInv'
  BY AllocFitsType, AllocLibraryType
<1>3. memoryindex' > memoryindex /\ memoryindex' \in Nat
      /\ \A i \in 0 .. memoryindex - 1 : memory'[i] = memory[i]
  <2> HIDE DEF q, r
  <2> QED BY <1>0, <1>1, BuildKeeps
<1>4. Low' /\ Kept /\ mem_low' = mem_low
  BY <1>0, <1>3, LowIndex DEF AllocFits, AllocLibrary, Low, Kept
<1>5. CodeShape'
  BY <1>0, TailShape DEF AllocFits, AllocLibrary, Allocates
<1>6. ProgEmpty'
  BY <1>1, RootNamesType DEF AllocFits, AllocLibrary, Build, ProgEmpty, Requests, Target
<1>7. BusyInv'
  <2> SUFFICES ASSUME flibrary_busy' PROVE gc' = "off" /\ NodesLive' /\ RootsLive'
    BY DEF BusyInv
  <2>1. flibrary_busy /\ NodesLive /\ RootsLive
    BY DEF AllocFits, AllocLibrary, BusyInv
  <2>2. Head(code) \in ReadInstr
    BY <1>0, <2>1, BusyHead DEF InitMem2
  <2>3. r < memoryindex
    BY <1>0, <2>1, <2>2, AtLive DEF ReadInstr, Instr
  <2>4. q.op = "LIST" => q.u < memoryindex
    <3>1. CASE Head(code).do = "lit"
      BY <2>2, <3>1 DEF Request, ReadInstr, Instr
    <3>2. CASE Head(code).do = "list"
      <4>1. q.u = At(Head(code).src)
        BY <3>2 DEF Request
      <4> QED BY <1>0, <2>1, <2>2, <3>2, <4>1, AtLive DEF ReadInstr, Instr
    <3> QED BY <2>2, <3>1, <3>2, <1>0 DEF ReadInstr
  <2>5. NodesLive' /\ RootsLive'
    <3> HIDE DEF q, r
    <3> QED BY <1>0, <1>1, <2>1, <2>3, <2>4, BuildLive
  <2> QED BY <1>0, <2>5 DEF AllocFits, AllocLibrary
<1> QED
  BY <1>0, <1>2, <1>4, <1>5, <1>6, <1>7, MutatorStep DEF AllocFits, AllocLibrary, gcVars

LEMMA RunDInv == DInv /\ Run => DInv' /\ Kept
<1> SUFFICES ASSUME DInv, Run PROVE DInv' /\ Kept
  OBVIOUS
<1> USE DEF DInv
<1>0. TypeOK /\ Head(code) \in Instr /\ gc = "off" /\ code # <<>>
  BY TailType DEF Run, TInv
<1>1. TInv'
  BY RunType
<1>2. memory' = memory /\ memoryindex' = memoryindex /\ gc' = "off" /\ code' = Tail(code)
      /\ frames' = frames /\ forward' = forward
  BY <1>0 DEF Run, gcVars
<1>3. Kept
  BY <1>2, LowIndex, <1>0 DEF Run, RunPop, RunUnstack, RunSetBody, RunInitMem2, RunSetVar,
     RunAbort, Kept, Low
<1>4. CASE Head(code).do = "inimem2"
  <2>1. RunInitMem2
    BY <1>4 DEF Run, RunPop, RunUnstack, RunSetBody, RunSetVar, RunAbort
  <2>2. flibrary_busy
    BY <1>0, <1>4, InitMem2Last
  <2>3. code' = <<>>
    BY <1>0, <1>2, <1>4, InitMem2Last
  <2>4. mem_low' = memoryindex /\ flibrary_busy' = FALSE /\ root' = root
    BY <2>1 DEF RunInitMem2
  <2>5. Low' /\ DefinitionsClosed'
    BY <1>0, <1>2, <2>2, <2>4, LowIndex DEF Low, DefinitionsClosed, BusyInv, NodesLive
  <2>6. CodeShape'
    BY <2>3, <2>4 DEF CodeShape
  <2>7. GcInv' /\ BusyInv' /\ ProgEmpty'
    BY <1>0, <1>2, <2>4 DEF GcInv, BusyInv, ProgEmpty
  <2> QED BY <1>1, <1>3, <2>5, <2>6, <2>7
<1>5. CASE Head(code).do # "inimem2"
  <2>1. mem_low' = mem_low /\ flibrary_busy' = flibrary_busy
    BY <1>5 DEF Run, RunPop, RunUnstack, RunSetBody, RunInitMem2, RunSetVar, RunAbort
  <2>2. CodeShape'
    BY <1>0, <1>2, <1>5, <2>1, TailShape
  <2>3. Low'
    BY <1>2, <2>1 DEF Low
  <2>4. ProgEmpty'
    BY <1>0, RootNamesType
    DEF Run, RunPop, RunUnstack, RunSetBody, RunInitMem2, RunSetVar, RunAbort, ProgEmpty,
        Instr, TypeOK
  <2>5. BusyInv'
    <3> SUFFICES ASSUME flibrary_busy PROVE NodesLive' /\ RootsLive'
      BY <1>2, <2>1 DEF BusyInv
    <3>1. NodesLive /\ RootsLive /\ Head(code) \in ReadInstr
      BY <1>0, <1>5, BusyHead DEF BusyInv, InitMem2
    <3>2. RunSetBody
      BY <3>1 DEF Run, RunPop, RunUnstack, RunInitMem2, RunSetVar, RunAbort, ReadInstr
    <3>3. root.stck \in Index /\ root.stck < memoryindex
      BY <1>0, <3>1, RootNamesType DEF RootsLive, TypeOK
    <3>4. Nxt(root.stck) < memoryindex
      BY <1>0, <3>1, <3>3, NxtLive
    <3> QED BY <1>0, <1>2, <3>1, <3>2, <3>4 DEF RunSetBody, RootsLive, NodesLive, TypeOK
  <2> QED
    BY <1>0, <1>1, <1>2, <1>3, <2>1, <2>2, <2>3, <2>4, <2>5, MutatorStep
<1> QED BY <1>4, <1>5

LEMMA IdleNotBusy == DInv /\ Idle => ~flibrary_busy
BY DEF DInv, CodeShape, Idle

LEMMA BeginDInv ==
  ASSUME DInv, NEW program \in Seq(PlainInstr), Begin(program)
  PROVE  DInv' /\ Kept
<1> USE DEF DInv
<1>1. TInv'
  BY BeginType, InstrKinds
<1>2. ~flibrary_busy /\ gc = "off"
  BY IdleNotBusy DEF Begin, Start, Idle
<1>3. Kept /\ Low'
  BY LowIndex DEF Begin, heapVars, Kept, Low, TInv
<1> QED
  BY <1>1, <1>2, <1>3, MutatorStep
  DEF Begin, heapVars, gcVars, CodeShape, BusyInv, ProgEmpty

LEMMA DefineDInv ==
  ASSUME DInv, NEW s \in DefSyms, NEW v \in Nums, NEW quoted \in BOOLEAN,
         Define(s, v, quoted)
  PROVE  DInv' /\ Kept
<1> USE DEF DInv
<1>1. TInv' /\ TypeOK
  BY DefineType DEF TInv
<1>2. gc = "off" /\ gc' = "off" /\ memory' = memory /\ memoryindex' = mem_low
      /\ mem_low' = mem_low /\ frames' = frames /\ forward' = forward
      /\ flibrary_busy' = TRUE
  BY DEF Define, Start, Idle, gcVars
<1>3. Kept /\ Low'
  BY <1>1, <1>2, LowIndex DEF Kept, Low
<1>4. ProgEmpty' /\ RootsLive' /\ NodesLive'
  <2>1. \A r \in RootSet : root'[r] = 0
    BY DEF Define, ProgEmpty
  <2> QED
    BY <1>1, <1>2, <2>1, LowIndex, RootNamesType
    DEF ProgEmpty, RootsLive, NodesLive, DefinitionsClosed, Low
<1>5. CodeShape'
  <2> DEFINE body == ReadBody(s, v, quoted)
  <2>1. body \in Seq(ReadInstr) /\ <<InitMem2>> \in Seq(Instr) /\ body \in Seq(Instr)
    BY ReadBodyType, InstrTypes, InstrKinds
  <2>2. code' = body \o <<InitMem2>>
    BY DEF Define
  <2> HIDE DEF body
  <2>3. Len(body) \in Nat /\ Len(<<InitMem2>>) = 1
    BY <2>1, LenProperties
  <2>4. Len(code') = Len(body) + 1
        /\ \A i \in 1 .. Len(body) + 1 :
             code'[i] = IF i <= Len(body) THEN body[i] ELSE <<InitMem2>>[i - Len(body)]
    BY <2>1, <2>2, <2>3, ConcatProperties
  <2>5. code'[Len(code')] = InitMem2
    BY <2>3, <2>4
  <2>6. \A i \in 1 .. Len(code') - 1 : code'[i] \in ReadInstr
    BY <2>1, <2>3, <2>4
  <2>7. code' # <<>>
    BY <2>3, <2>4, EmptySeq
  <2> QED BY <1>2, <2>5, <2>6, <2>7 DEF CodeShape
<1> QED
  BY <1>1, <1>2, <1>3, <1>4, <1>5, MutatorStep DEF BusyInv

LEMMA UnassignDInv == ASSUME DInv, NEW s \in Syms, Unassign(s) PROVE DInv' /\ Kept
<1> USE DEF DInv
<1>1. TInv' /\ gc = "off"
  BY UnassignType DEF Unassign, Start, Idle
<1>2. Kept /\ Low'
  BY LowIndex DEF Unassign, heapVars, Kept, Low, TInv
<1> QED
  BY <1>1, <1>2, MutatorStep
  DEF Unassign, heapVars, gcVars, CodeShape, BusyInv, ProgEmpty, NodesLive, RootsLive

(* A new memory holds the definitions, and nothing refers past it.         *)
LEMMA StartGcDInv ==
  ASSUME DInv, StartGc, gc = "off", ~flibrary_busy, flibrary_busy' = flibrary_busy,
         TInv', ProgEmpty', code' \in Seq(PlainInstr)
  PROVE  DInv' /\ Kept
<1> USE DEF DInv
<1>1. mem_low' = mem_low /\ memoryindex' = mem_low /\ gc' = "copy" /\ forward' = forward
      /\ frames' = frames /\ memory' = [i \in Index |-> IF i < mem_low THEN memory[i] ELSE Blank]
  BY DEF StartGc
<1>2. mem_low \in Nat /\ 1 <= mem_low /\ 0 .. mem_low - 1 \subseteq Index
  BY LowIndex DEF Low, TInv
<1>3. Kept /\ Low'
  BY <1>1, <1>2 DEF Kept, Low
<1>4. DefinitionsClosed'
  BY <1>1, <1>3, KeptClosed
<1>5. \A i \in Index : Closed(memory'[i], memoryindex')
  <2> SUFFICES ASSUME NEW i \in Index PROVE Closed(memory'[i], mem_low)
    BY <1>1
  <2>1. CASE i < mem_low
    <3>1. i \in 0 .. mem_low - 1
      BY <1>2, <2>1 DEF Index
    <3> QED BY <1>1, <2>1, <3>1 DEF DefinitionsClosed
  <2>2. CASE ~(i < mem_low)
    BY <1>1, <1>2, <2>2 DEF Closed, Blank
  <2> QED BY <2>1, <2>2
<1>6. GcInv'
  BY <1>1, <1>2, <1>5, EmptySeq DEF GcInv
<1> QED BY <1>3, <1>4, <1>6 DEF BusyInv, CodeShape

LEMMA CollectDInv == DInv /\ Collect => DInv' /\ Kept
<1> SUFFICES ASSUME DInv, Collect PROVE DInv' /\ Kept
  OBVIOUS
<1>1. TInv' /\ StartGc /\ gc = "off" /\ ~flibrary_busy
  BY CollectType, IdleNotBusy DEF DInv, Collect, Start, Idle
<1>2. ProgEmpty' /\ code' \in Seq(PlainInstr) /\ flibrary_busy' = flibrary_busy
  BY <1>1 DEF Collect, DInv, ProgEmpty, CodeShape
<1> QED BY <1>1, <1>2, StartGcDInv

LEMMA AllocGcDInv == DInv /\ AllocGc => DInv' /\ Kept
<1> SUFFICES ASSUME DInv, AllocGc PROVE DInv' /\ Kept
  OBVIOUS
<1>1. TInv' /\ StartGc /\ gc = "off" /\ ~flibrary_busy /\ flibrary_busy' = flibrary_busy
  BY AllocGcType DEF DInv, AllocGc, Allocates
<1>2. code' \in Seq(PlainInstr)
  <2>1. code \in Seq(PlainInstr) /\ code # <<>> /\ code' = Tail(code)
    BY <1>1 DEF DInv, CodeShape, AllocGc, Allocates
  <2> QED BY <2>1
<1>3. ProgEmpty'
  BY RootNamesType DEF AllocGc, DInv, ProgEmpty
<1> QED BY <1>1, <1>2, <1>3, StartGcDInv

LEMMA AllocResumeDInv == DInv /\ AllocResume => DInv' /\ Kept
<1> SUFFICES ASSUME DInv, AllocResume PROVE DInv' /\ Kept
  OBVIOUS
<1> USE DEF DInv
<1>1. TInv' /\ TypeOK /\ pend \in Requests
  BY AllocResumeType DEF TInv, TypeOK
<1>2. Build(pend, IF pend.op = "LIST" THEN root.l ELSE pend.u, root.r)
  BY DEF AllocResume
<1>3. memoryindex' > memoryindex /\ memoryindex' \in Nat
      /\ \A i \in 0 .. memoryindex - 1 : memory'[i] = memory[i]
  BY <1>1, <1>2, BuildKeeps
<1>4. mem_low' = mem_low /\ Low' /\ Kept
  BY <1>1, <1>3, LowIndex DEF AllocResume, Low, Kept
<1>5. ProgEmpty'
  BY <1>1, <1>2, RootNamesType DEF Build, ProgEmpty, Requests, Target
<1> QED
  BY <1>1, <1>4, <1>5, MutatorStep DEF AllocResume, gcVars, CodeShape, BusyInv

LEMMA GcRootDInv == ASSUME DInv, NEW j \in 1 .. Slots, GcRoot(j) PROVE DInv' /\ Kept
<1> USE DEF DInv
<1>1. TInv' /\ gc = "copy" /\ gc' = "copy" /\ frames = <<>> /\ slot' = j /\ Wanted(j)
      /\ frames' = <<[cur |-> SlotRoot(j), head |-> 0, tail |-> 0, dest |-> 0]>>
  BY GcRootType DEF GcRoot
<1>2. UNCHANGED <<memory, memoryindex, mem_low, root, flibrary_busy, code, forward, symtab>>
  BY DEF GcRoot, heapVars, symVars
<1>3. Kept /\ Low'
  BY <1>2, LowIndex DEF Kept, Low, TInv
<1>4. DefinitionsClosed'
  BY <1>2, <1>3, KeptClosed
<1>5. GcInv'
  <2>1. j <= 11 => root[RootNames[j]] # 0
    BY <1>1 DEF Wanted, SlotRoot
  <2>2. SlotRoot(j) \in Index /\ 0 < memoryindex
    BY LowIndex, SlotRootType DEF Low, TInv
  <2> DEFINE fr == [cur |-> SlotRoot(j), head |-> 0, tail |-> 0, dest |-> 0]
  <2>3. fr \in LiveFrame'
    BY <1>2, <2>2, IndexFacts DEF LiveFrame, Frame
  <2> HIDE DEF fr
  <2>4. Head(<<fr>>) = fr /\ Tail(<<fr>>) = <<>> /\ <<>> \in Seq(WaitingFrame)'
    OBVIOUS
  <2>5. frames' = <<fr>>
    BY <1>1 DEF fr
  <2> QED BY <1>1, <1>2, <2>1, <2>3, <2>4, <2>5 DEF GcInv
<1> QED BY <1>1, <1>2, <1>3, <1>4, <1>5 DEF CodeShape, BusyInv, ProgEmpty

LEMMA LinkTailLive ==
  ASSUME NEW mem \in [Index -> Node], NEW tail \in Index, NEW n \in Index,
         NEW low \in Nat, NEW top \in Nat, n < top, 0 < low,
         tail = 0 \/ low <= tail, \A i \in Index : Closed(mem[i], top)
  PROVE  /\ \A i \in Index : Closed(LinkTail(mem, tail, n)[i], top)
         /\ \A i \in Index : i < low => LinkTail(mem, tail, n)[i] = mem[i]
<1>1. CASE tail = 0
  BY <1>1 DEF LinkTail
<1>2. CASE tail # 0
  <2>1. LinkTail(mem, tail, n) = [mem EXCEPT ![tail].next = n]
    BY <1>2 DEF LinkTail
  <2>2. ASSUME NEW i \in Index PROVE Closed(LinkTail(mem, tail, n)[i], top)
    <3>1. CASE i = tail
      <4>1. LinkTail(mem, tail, n)[i] = [mem[i] EXCEPT !.next = n]
        BY <2>1, <3>1
      <4>2. mem[i] \in Node /\ Closed(mem[i], top)
        OBVIOUS
      <4> QED BY <4>1, <4>2 DEF Closed, Node
    <3>2. CASE i # tail
      BY <2>1, <3>2
    <3> QED BY <3>1, <3>2
  <2>3. ASSUME NEW i \in Index, i < low PROVE LinkTail(mem, tail, n)[i] = mem[i]
    <3>1. i # tail
      BY <1>2, <2>3, IndexFacts
    <3> QED BY <2>1, <3>1
  <2> QED BY <2>2, <2>3
<1> QED BY <1>1, <1>2

LEMMA PushHeadTail ==
  ASSUME NEW T, NEW q \in Seq(T), NEW a
  PROVE  Head(<<a>> \o q) = a /\ Tail(<<a>> \o q) = q /\ <<a>> \o q # <<>>
<1> DEFINE U == T \cup {a}
           c == <<a>> \o q
<1>1. q \in Seq(U) /\ <<a>> \in Seq(U) /\ Len(<<a>>) = 1 /\ <<a>>[1] = a
      /\ Len(q) \in Nat
  BY SeqMonotonic, LenProperties
<1>2. c \in Seq(U) /\ Len(c) = 1 + Len(q)
      /\ \A i \in 1 .. 1 + Len(q) : c[i] = IF i <= 1 THEN <<a>>[i] ELSE q[i - 1]
  <2> DEFINE h == <<a>>
  <2>1. h \in Seq(U) /\ Len(h) = 1
    BY <1>1
  <2> HIDE DEF h, U
  <2>2. /\ h \o q \in Seq(U)
        /\ Len(h \o q) = Len(h) + Len(q)
        /\ \A i \in 1 .. Len(h) + Len(q) :
             (h \o q)[i] = IF i <= Len(h) THEN h[i] ELSE q[i - Len(h)]
    BY <1>1, <2>1, ConcatProperties
  <2> QED BY <2>1, <2>2 DEF h
<1> HIDE DEF c, U
<1>3. c # <<>>
  BY <1>1, <1>2, EmptySeq
<1>4. Head(c) = a
  BY <1>1, <1>2, <1>3
<1>5. Tail(c) = q
  <2>1. Tail(c) \in Seq(U) /\ Len(Tail(c)) = Len(q)
        /\ \A i \in 1 .. Len(q) : Tail(c)[i] = c[i + 1]
    BY <1>1, <1>2, <1>3, HeadTailProperties
  <2>2. \A i \in 1 .. Len(q) : Tail(c)[i] = q[i]
    BY <1>1, <1>2, <2>1
  <2> QED BY <1>1, <2>1, <2>2, SeqEqual
<1> QED BY <1>3, <1>4, <1>5 DEF c

LEMMA LiveFrameMono ==
  ASSUME memoryindex' >= memoryindex, mem_low' = mem_low,
         memoryindex \in Nat, memoryindex' \in Nat, mem_low \in Nat
  PROVE  LiveFrame \subseteq LiveFrame' /\ WaitingFrame \subseteq WaitingFrame'
         /\ Seq(WaitingFrame) \subseteq Seq(WaitingFrame')
<1>1. \A g \in Frame : g.head \in Nat /\ g.tail \in Nat /\ g.dest \in Nat
  BY IndexFacts DEF Frame
<1>2. ASSUME NEW g \in LiveFrame PROVE g \in LiveFrame'
  <2>1. g \in Frame /\ g.head < memoryindex /\ g.tail < memoryindex
        /\ (g.tail = 0 \/ mem_low <= g.tail)
    BY DEF LiveFrame
  <2>2. g.head < memoryindex' /\ g.tail < memoryindex'
    BY <1>1, <2>1
  <2> QED BY <2>1, <2>2 DEF LiveFrame
<1>3. ASSUME NEW g \in WaitingFrame PROVE g \in WaitingFrame'
  <2>1. g \in Frame /\ g \in LiveFrame /\ mem_low <= g.dest /\ g.dest < memoryindex
    BY DEF WaitingFrame, LiveFrame
  <2>2. g \in LiveFrame' /\ g.dest < memoryindex'
    BY <1>1, <1>2, <2>1
  <2> QED BY <2>1, <2>2 DEF WaitingFrame
<1> QED BY <1>2, <1>3, SeqMonotonic

LEMMA MovedClosed ==
  ASSUME NEW old \in Node, NEW top \in Nat, 0 < top
  PROVE  Closed(Moved(old), top)
BY DEF Closed, Moved, Node

LEMMA JoinedLive ==
  ASSUME TypeOK, NEW g \in Frame, g.head < memoryindex', NEW temp \in Index,
         mem_low' <= temp, temp < memoryindex', mem_low' \in Nat, 0 < mem_low'
  PROVE  Joined(g, temp) \in LiveFrame'
<1>1. Joined(g, temp) \in Frame
  BY JoinedType
<1>2. Joined(g, temp).head < memoryindex' /\ Joined(g, temp).tail = temp
  BY DEF Joined
<1> QED BY <1>1, <1>2 DEF LiveFrame

LEMMA GcCopyNodeDInv == DInv /\ GcCopyNode => DInv' /\ Kept
<1> SUFFICES ASSUME DInv, GcCopyNode PROVE DInv' /\ Kept
  OBVIOUS
<1> DEFINE f     == Head(frames)
           old   == old_memory[f.cur]
           temp  == memoryindex
           mem   == [memory EXCEPT ![temp] = Moved(old)]
           inner == [cur |-> old.u, head |-> 0, tail |-> 0, dest |-> 0]
           outer == [cur |-> f.cur, head |-> f.head, tail |-> f.tail, dest |-> temp]
           rest  == Tail(frames)
<1>1. TInv' /\ TInv /\ TypeOK /\ Low /\ DefinitionsClosed /\ CodeShape /\ ProgEmpty
  BY GcCopyNodeType DEF DInv, TInv
<1>2. gc = "copy" /\ gc' = "copy" /\ frames # <<>> /\ mem_low' = mem_low
      /\ UNCHANGED <<flibrary_busy, root, code, slot>>
  BY DEF GcCopyNode
<1>3. f \in LiveFrame /\ f \in Frame /\ rest \in Seq(WaitingFrame)
  BY <1>2 DEF DInv, GcInv, LiveFrame
<1>4. f.cur \in Index /\ f.head \in Index /\ f.tail \in Index /\ old \in Node
  BY <1>1, <1>3 DEF Frame, TypeOK
<1>5. temp \in Nat /\ mem_low \in Nat /\ 0 < mem_low /\ mem_low <= temp
  BY <1>1, LowIndex DEF Low
<1>6. memoryindex' \in Nat /\ memoryindex' > temp /\ temp \in Index
  <2>1. MovedSize(old) \in Nat \ {0}
    BY <1>4, MovedType
  <2>2. memoryindex' = temp + MovedSize(old) /\ memoryindex' <= MaxIndex + 1
    BY DEF GcCopyNode
  <2> HIDE DEF old
  <2> QED BY <1>5, <2>1, <2>2, HeapAssumption DEF Index
<1>7. /\ mem \in [Index -> Node]
      /\ \A i \in Index : Closed(mem[i], memoryindex')
      /\ \A i \in Index : i < mem_low => mem[i] = memory[i]
  <2>1. Moved(old) \in Node /\ Closed(Moved(old), memoryindex')
    BY <1>4, <1>5, <1>6, MovedType, MovedClosed
  <2>2. \A i \in Index : Closed(memory[i], temp) /\ memory[i] \in Node
    BY <1>1, <1>2 DEF DInv, GcInv, TypeOK
  <2>3. \A i \in Index : Closed(memory[i], memoryindex')
    BY <1>5, <1>6, <2>2, ClosedMono
  <2> DEFINE node == Moved(old)
  <2> HIDE DEF node
  <2>4. mem = [memory EXCEPT ![temp] = node] /\ node \in Node /\ Closed(node, memoryindex')
    BY <2>1 DEF node
  <2>5. mem \in [Index -> Node] /\ \A i \in Index : mem[i] = IF i = temp THEN node ELSE memory[i]
    BY <1>1, <1>6, <2>4 DEF TypeOK
  <2>6. \A i \in Index : i < mem_low => i # temp
    BY <1>5, IndexFacts
  <2> HIDE DEF mem
  <2> QED BY <2>3, <2>4, <2>5, <2>6
<1>8. LiveFrame \subseteq LiveFrame' /\ rest \in Seq(WaitingFrame')
  BY <1>2, <1>3, <1>5, <1>6, LiveFrameMono
<1>9. CASE old.op = "LIST"
  <2>1. memory' = mem /\ forward' = forward /\ frames' = <<inner>> \o (<<outer>> \o rest)
    BY <1>9 DEF GcCopyNode
  <2>2. inner \in LiveFrame'
    BY <1>4, <1>5, <1>6, <1>9, IndexFacts DEF LiveFrame, Frame, Node
  <2>3. outer \in WaitingFrame'
    <3>1. f \in LiveFrame'
      BY <1>3, <1>8
    <3>2. outer \in LiveFrame'
      BY <1>4, <1>6, <3>1 DEF LiveFrame, Frame
    <3> QED BY <1>2, <1>5, <1>6, <3>2 DEF WaitingFrame
  <2>4. <<outer>> \o rest \in Seq(WaitingFrame')
    <3> HIDE DEF outer, rest
    <3> QED BY <1>8, <2>3
  <2>5. Head(frames') = inner /\ Tail(frames') = <<outer>> \o rest
    <3> DEFINE q == <<outer>> \o rest
    <3> HIDE DEF inner, q
    <3> QED BY <2>1, <2>4, PushHeadTail DEF q
  <2>6. frames' # <<>>
    <3> DEFINE q == <<outer>> \o rest
    <3> HIDE DEF inner, q
    <3> QED BY <2>1, <2>4, PushHeadTail DEF q
  <2>7. GcInv'
    <3>1. \A i \in Index : forward[i] < memoryindex' 
      <4>1. \A i \in Index : forward[i] < temp /\ forward[i] \in Nat
        BY <1>1, <1>2, IndexFacts DEF DInv, GcInv, TypeOK
      <4> QED BY <1>5, <1>6, <4>1
    <3>2. slot <= 11 => root[RootNames[slot]] # 0
      BY <1>2 DEF DInv, GcInv
    <3> HIDE DEF inner, outer, rest, mem
    <3> QED BY <1>2, <1>7, <2>1, <2>2, <2>4, <2>5, <3>1, <3>2 DEF GcInv
  <2>8. Kept /\ Low'
    BY <1>1, <1>2, <1>5, <1>6, <1>7, <2>1, LowIndex DEF Kept, Low
  <2> QED
    BY <1>1, <1>2, <2>7, <2>8, KeptClosed DEF DInv, CodeShape, BusyInv, ProgEmpty
<1>10. CASE old.op # "LIST"
  <2>1. memory' = LinkTail(mem, f.tail, temp) /\ forward' = [forward EXCEPT ![f.cur] = temp]
        /\ frames' = <<Joined(f, temp)>> \o rest
    BY <1>10 DEF GcCopyNode
  <2>2. f.head < memoryindex' /\ f.tail < memoryindex' /\ (f.tail = 0 \/ mem_low <= f.tail)
    BY <1>2, <1>3, <1>8 DEF LiveFrame
  <2>3. Joined(f, temp) \in LiveFrame'
    BY <1>1, <1>2, <1>3, <1>5, <1>6, <2>2, JoinedLive
  <2>4. Head(frames') = Joined(f, temp) /\ Tail(frames') = rest
    <3> HIDE DEF rest
    <3> QED BY <1>8, <2>1, PushHeadTail
  <2>5. /\ \A i \in Index : Closed(memory'[i], memoryindex')
        /\ \A i \in Index : i < mem_low => memory'[i] = memory[i]
    <3>1. /\ mem \in [Index -> Node] /\ f.tail \in Index /\ temp \in Index
          /\ mem_low \in Nat /\ memoryindex' \in Nat /\ temp < memoryindex' /\ 0 < mem_low
          /\ f.tail = 0 \/ mem_low <= f.tail
          /\ \A i \in Index : Closed(mem[i], memoryindex')
      BY <1>4, <1>5, <1>6, <1>7, <2>2
    <3>2. \A i \in Index : i < mem_low => mem[i] = memory[i]
      BY <1>7
    <3> HIDE DEF mem, f, temp
    <3>3. /\ \A i \in Index : Closed(LinkTail(mem, f.tail, temp)[i], memoryindex')
          /\ \A i \in Index : i < mem_low => LinkTail(mem, f.tail, temp)[i] = mem[i]
      BY ONLY <3>1, LinkTailLive
    <3> QED BY <2>1, <3>2, <3>3
  <2>6. \A i \in Index : forward'[i] < memoryindex'
    <3>1. \A i \in Index : forward[i] < temp /\ forward[i] \in Nat
      BY <1>1, <1>2, IndexFacts DEF DInv, GcInv, TypeOK
    <3>2. \A i \in Index : forward'[i] \in {forward[i], temp}
      BY <1>1, <2>1 DEF TypeOK
    <3> QED BY <1>5, <1>6, <3>1, <3>2
  <2>7. GcInv'
    <3>1. slot <= 11 => root[RootNames[slot]] # 0
      BY <1>2 DEF DInv, GcInv
    <3> HIDE DEF rest, f
    <3> QED BY <1>2, <1>8, <2>3, <2>4, <2>5, <2>6, <3>1 DEF GcInv
  <2>8. Kept /\ Low'
    BY <1>1, <1>2, <1>5, <1>6, <2>5, LowIndex DEF Kept, Low
  <2> QED
    BY <1>1, <1>2, <2>7, <2>8, KeptClosed DEF DInv, CodeShape, BusyInv, ProgEmpty
<1> QED BY <1>9, <1>10

LEMMA SetLisLive ==
  ASSUME NEW mem \in [Index -> Node], NEW d \in Index, NEW r \in Index, NEW top \in Nat,
         r < top, \A i \in Index : Closed(mem[i], top)
  PROVE  \A i \in Index : /\ Closed([mem EXCEPT ![d].u = r][i], top)
                          /\ i # d => [mem EXCEPT ![d].u = r][i] = mem[i]
<1>1. ASSUME NEW i \in Index
      PROVE  /\ Closed([mem EXCEPT ![d].u = r][i], top)
             /\ i # d => [mem EXCEPT ![d].u = r][i] = mem[i]
  <2>1. CASE i = d
    <3>1. [mem EXCEPT ![d].u = r][i] = [mem[i] EXCEPT !.u = r]
      BY <2>1
    <3>2. mem[i] \in Node /\ Closed(mem[i], top)
      OBVIOUS
    <3> QED BY <2>1, <3>1, <3>2 DEF Closed, Node
  <2>2. CASE i # d
    BY <2>2
  <2> QED BY <2>1, <2>2
<1> QED BY <1>1

LEMMA GcChainEndDInv == DInv /\ GcChainEnd => DInv' /\ Kept
<1> SUFFICES ASSUME DInv, GcChainEnd PROVE DInv' /\ Kept
  OBVIOUS
<1> DEFINE f      == Head(frames)
           rest   == Tail(frames)
           target == IF f.cur < mem_low THEN f.cur ELSE forward[f.cur]
           result == IF f.head = 0 THEN target ELSE f.head
           mem    == LinkTail(memory, f.tail, target)
<1>1. TInv' /\ TInv /\ TypeOK /\ Low /\ DefinitionsClosed /\ CodeShape /\ ProgEmpty
  BY GcChainEndType DEF DInv, TInv
<1>2. gc = "copy" /\ gc' = "copy" /\ frames # <<>> /\ mem_low' = mem_low
      /\ UNCHANGED <<memoryindex, flibrary_busy, code>>
  BY DEF GcChainEnd
<1>3. f \in LiveFrame /\ f \in Frame /\ rest \in Seq(WaitingFrame)
  BY <1>2 DEF DInv, GcInv, LiveFrame
<1>4. f.cur \in Index /\ f.head \in Index /\ f.tail \in Index
  BY <1>3 DEF Frame
<1>5. memoryindex \in Nat /\ mem_low \in Nat /\ 0 < mem_low /\ mem_low <= memoryindex
  BY <1>1, LowIndex DEF Low
<1>6. f.head < memoryindex /\ (f.tail = 0 \/ mem_low <= f.tail)
  BY <1>3 DEF LiveFrame
<1>7. \A n \in Index : forward[n] < memoryindex /\ forward[n] \in Index
  BY <1>1, <1>2 DEF DInv, GcInv, TypeOK
<1>8. target \in Index /\ target < memoryindex
  <2>1. f.cur \in Nat
    BY <1>4, IndexFacts
  <2> HIDE DEF f
  <2> QED BY <1>4, <1>5, <1>7, <2>1
<1>9. result \in Index /\ result < memoryindex
  <2> HIDE DEF target
  <2> QED BY <1>4, <1>6, <1>8
<1>10. /\ mem \in [Index -> Node]
       /\ \A i \in Index : Closed(mem[i], memoryindex)
       /\ \A i \in Index : i < mem_low => mem[i] = memory[i]
  <2>1. memory \in [Index -> Node] /\ \A i \in Index : Closed(memory[i], memoryindex)
    BY <1>1, <1>2 DEF TypeOK, DInv, GcInv
  <2>2. f.tail \in Index /\ target \in Index /\ target < memoryindex
        /\ memoryindex \in Nat /\ mem_low \in Nat /\ 0 < mem_low
        /\ (f.tail = 0 \/ mem_low <= f.tail)
    BY <1>4, <1>5, <1>6, <1>8
  <2> HIDE DEF target, f
  <2>3. LinkTail(memory, f.tail, target) \in [Index -> Node]
    BY ONLY <2>1, <2>2, LinkTailType
  <2>4. /\ \A i \in Index : Closed(LinkTail(memory, f.tail, target)[i], memoryindex)
        /\ \A i \in Index :
             i < mem_low => LinkTail(memory, f.tail, target)[i] = memory[i]
    BY ONLY <2>1, <2>2, LinkTailLive
  <2> QED BY <2>3, <2>4
<1>11. slot <= 11 => root[RootNames[slot]] # 0
  BY <1>2 DEF DInv, GcInv
<1>12. CASE rest # <<>>
  <2> DEFINE g == Head(rest)
             set == [mem EXCEPT ![g.dest].u = result]
  <2>1. /\ memory' = LinkTail(set, g.tail, g.dest)
        /\ forward' = [forward EXCEPT ![g.cur] = g.dest]
        /\ frames' = <<Joined(g, g.dest)>> \o Tail(rest)
        /\ UNCHANGED <<root, symtab, slot>>
    BY <1>12 DEF GcChainEnd
  <2>2. g \in WaitingFrame /\ Tail(rest) \in Seq(WaitingFrame)
    <3> HIDE DEF rest
    <3> QED BY <1>3, <1>12
  <2>3. g \in Frame /\ g \in LiveFrame /\ mem_low <= g.dest /\ g.dest < memoryindex
        /\ g.head < memoryindex /\ (g.tail = 0 \/ mem_low <= g.tail)
    <3> HIDE DEF g
    <3> QED BY <2>2 DEF WaitingFrame, LiveFrame
  <2>4. g.cur \in Index /\ g.dest \in Index /\ g.tail \in Index
    <3> HIDE DEF g
    <3> QED BY <2>3 DEF Frame
  <2>5. /\ set \in [Index -> Node]
        /\ \A i \in Index : Closed(set[i], memoryindex)
        /\ \A i \in Index : i < mem_low => set[i] = memory[i]
    <3>1. \A i \in Index : i < mem_low => i # g.dest
      <4> HIDE DEF g
      <4> QED BY <1>5, <2>3, <2>4, IndexFacts
    <3> HIDE DEF mem, result, g
    <3> QED BY <1>5, <1>9, <1>10, <2>4, <3>1, SetLisType, SetLisLive
  <2>6. /\ \A i \in Index : Closed(memory'[i], memoryindex)
        /\ \A i \in Index : i < mem_low => memory'[i] = memory[i]
    <3> HIDE DEF set, g
    <3>1. memoryindex \in Nat /\ mem_low \in Nat /\ 0 < mem_low
      BY <1>5
    <3>2. /\ \A i \in Index : Closed(LinkTail(set, g.tail, g.dest)[i], memoryindex)
          /\ \A i \in Index : i < mem_low => LinkTail(set, g.tail, g.dest)[i] = set[i]
      BY ONLY <3>1, <2>3, <2>4, <2>5, LinkTailLive
    <3> QED BY <2>1, <2>5, <3>2
  <2>7. Joined(g, g.dest) \in LiveFrame'
    <3> HIDE DEF g
    <3> QED BY <1>1, <1>2, <1>5, <2>3, <2>4, JoinedLive
  <2>8. Head(frames') = Joined(g, g.dest) /\ Tail(frames') \in Seq(WaitingFrame')
    <3>1. WaitingFrame' = WaitingFrame
      BY <1>2 DEF WaitingFrame, LiveFrame
    <3> DEFINE t == Tail(rest)
               j == Joined(g, g.dest)
    <3>2. t \in Seq(WaitingFrame) /\ frames' = <<j>> \o t
      BY <2>1, <2>2
    <3> HIDE DEF t, j
    <3>3. Head(frames') = j /\ Tail(frames') = t
      BY <3>2, PushHeadTail
    <3> QED BY <3>1, <3>2, <3>3 DEF j
  <2>9. \A i \in Index : forward'[i] < memoryindex
    <3>1. \A i \in Index : forward'[i] \in {forward[i], g.dest}
      <4> HIDE DEF g
      <4> QED BY <1>1, <2>1 DEF TypeOK
    <3> HIDE DEF g
    <3> QED BY <1>7, <2>3, <3>1
  <2>10. GcInv'
    <3> HIDE DEF g, rest, set
    <3> QED BY <1>2, <1>11, <2>1, <2>6, <2>7, <2>8, <2>9 DEF GcInv
  <2>11. Kept /\ Low'
    BY <1>1, <1>2, <1>5, <2>6, LowIndex DEF Kept, Low
  <2> QED
    BY <1>1, <1>2, <2>1, <2>10, <2>11, KeptClosed DEF DInv, CodeShape, BusyInv, ProgEmpty
<1>13. CASE rest = <<>>
  <2>1. /\ memory' = mem /\ frames' = <<>> /\ forward' = forward
        /\ slot <= 11 => root' = [root EXCEPT ![RootNames[slot]] = result]
        /\ slot > 11 => root' = root
    BY <1>1, <1>13 DEF GcChainEnd, TypeOK, Slots
  <2>2. ProgEmpty'
    <3>1. slot <= 11 => RootNames[slot] # "prog"
      BY <1>1, <1>11 DEF ProgEmpty
    <3>2. CASE slot <= 11
      <4> HIDE DEF result
      <4> QED BY <1>1, <2>1, <3>1, <3>2, RootNamesType DEF ProgEmpty, TypeOK
    <3>3. CASE slot > 11
      BY <1>1, <2>1, <3>3 DEF ProgEmpty
    <3> QED BY <1>1, <3>2, <3>3, HeapAssumption DEF TypeOK, Slots
  <2>3. GcInv'
    <3> HIDE DEF mem
    <3> QED BY <1>2, <1>7, <1>10, <2>1 DEF GcInv
  <2>4. Kept /\ Low'
    <3> HIDE DEF mem
    <3> QED BY <1>1, <1>2, <1>5, <1>10, <2>1, LowIndex DEF Kept, Low
  <2> QED
    BY <1>1, <1>2, <2>2, <2>3, <2>4, KeptClosed DEF DInv, CodeShape, BusyInv
<1> QED BY <1>12, <1>13

LEMMA Gc2DInv == DInv /\ Gc2 => DInv' /\ Kept
<1> SUFFICES ASSUME DInv, Gc2 PROVE DInv' /\ Kept
  OBVIOUS
<1>1. TInv' /\ TInv /\ TypeOK /\ Low /\ DefinitionsClosed /\ CodeShape /\ ProgEmpty
  BY Gc2Type DEF DInv, TInv
<1>2. frames = <<>> /\ frames' = <<>> /\ forward' = [i \in Index |-> 0] /\ gc' # "copy"
      /\ gc = "copy"
      /\ UNCHANGED <<memory, memoryindex, mem_low, flibrary_busy, root, code>>
  BY DEF Gc2
<1>3. Kept /\ Low'
  BY <1>1, <1>2, LowIndex DEF Kept, Low
<1>4. GcInv'
  BY <1>2 DEF GcInv
<1> QED
  BY <1>1, <1>2, <1>3, <1>4, KeptClosed DEF DInv, CodeShape, BusyInv, ProgEmpty

LEMMA InitDInv == Init => DInv
<1> SUFFICES ASSUME Init PROVE DInv
  OBVIOUS
<1>1. TInv
  BY InitType
<1>2. Low
  BY DEF Init, Low
<1>3. DefinitionsClosed
  BY IndexFacts DEF Init, DefinitionsClosed, Closed, Blank
<1>4. CodeShape /\ BusyInv
  BY DEF Init, CodeShape, BusyInv
<1>5. ProgEmpty
  BY RootNamesType DEF Init, ProgEmpty
<1>6. GcInv
  BY DEF Init, GcInv
<1> QED BY <1>1, <1>2, <1>3, <1>4, <1>5, <1>6 DEF DInv

LEMMA NextDInv == DInv /\ [Next]_vars => DInv' /\ (Kept \/ UNCHANGED vars)
<1> SUFFICES ASSUME DInv, [Next]_vars PROVE DInv' /\ (Kept \/ UNCHANGED vars)
  OBVIOUS
<1>0. TInv
  BY DEF DInv
<1>1. CASE Execute
  <2>1. VarSyms \subseteq Syms
    BY HeapAssumption DEF Syms
  <2> QED BY <1>0, <1>1, <2>1, ExecuteBegins, BeginDInv, UnassignDInv, DefineDInv
<1>2. CASE Collect
  BY <1>2, CollectDInv
<1>3. CASE Run
  BY <1>3, RunDInv
<1>4. CASE Allocate
  BY <1>4, AllocDInv, AllocGcDInv, AllocResumeDInv DEF Allocate
<1>5. CASE GcStep
  BY <1>5, GcRootDInv, GcCopyNodeDInv, GcChainEndDInv, Gc2DInv DEF GcStep
<1>6. CASE UNCHANGED vars
  <2>1. TInv'
    BY <1>6, NextType, <1>0
  <2> QED
    BY <1>6, <2>1
    DEF vars, heapVars, symVars, gcVars, DInv, Low, DefinitionsClosed, CodeShape, BusyInv,
        NodesLive, RootsLive, ProgEmpty, GcInv, LiveFrame, WaitingFrame
<1> QED BY <1>1, <1>2, <1>3, <1>4, <1>5, <1>6 DEF Next

(***************************************************************************)
(* The definition space refers only to itself, so that a collection, which *)
(* keeps it where it is and looks into none of it, loses nothing of it.    *)
(***************************************************************************)
THEOREM DefinitionSpaceClosed == Spec => []DefinitionsClosed
<1>1. DInv => DefinitionsClosed
  BY DEF DInv
<1>2. DInv /\ [Next]_vars => DInv'
  BY NextDInv
<1> QED BY InitDInv, <1>1, <1>2, PTL DEF Spec

(***************************************************************************)
(* No builtin, error, collection or later definition ever changes or moves *)
(* a node of the definition space, and the space never shrinks.            *)
(***************************************************************************)
THEOREM DefinitionSpacePermanent == Spec => DefinitionsPermanent
<1>1. DInv /\ [Next]_vars => DInv'
  BY NextDInv
<1>2. DInv /\ [Next]_vars
      => [/\ mem_low' >= mem_low
          /\ \A i \in 0 .. mem_low - 1 : memory'[i] = memory[i]]_vars
  BY NextDInv DEF Kept
<1> QED BY InitDInv, <1>1, <1>2, PTL DEF Spec, DefinitionsPermanent

-----------------------------------------------------------------------------
(***************************************************************************)
(* Without variables and without definitions made through joy_eval_string, *)
(* for every value of the other constants, no reference of NodeHeap ever   *)
(* dangles.  The two exceptions are those that TLC refutes.                *)
(***************************************************************************)

(* Only the top level defines names, and nothing is assigned.              *)
DefinitionsOnly == VarSyms = {} /\ EmbedSyms = {}

CodePlain == ~flibrary_busy => code \in Seq(CommandInstr)

BodiesLow ==
  \A s \in Syms : /\ symtab[s].body < memoryindex
                  /\ ~flibrary_busy => symtab[s].body < mem_low

(* The roots before slot have been moved to the new memory.                *)
RootsMoved ==
  gc = "copy" =>
    /\ \A j \in 1 .. 11 : j < slot => root[RootNames[j]] < memoryindex
    /\ frames # <<>> => slot <= 11

HeapLive == gc # "copy" => NodesLive /\ RootsLive

RInv == /\ DInv /\ variable_busy = FALSE
        /\ CodePlain /\ BodiesLow /\ RootsMoved /\ HeapLive

LEMMA RInvFacts ==
  ASSUME RInv
  PROVE  /\ TypeOK /\ TInv /\ Low /\ DInv /\ mem_low \in Nat /\ memoryindex \in Nat
         /\ 0 < mem_low /\ mem_low <= memoryindex
BY LowIndex DEF RInv, DInv, TInv, Low

LEMMA InitRInv == Init => RInv
<1> SUFFICES ASSUME Init PROVE RInv
  OBVIOUS
<1>1. DInv
  BY InitDInv
<1>2. CodePlain /\ RootsMoved /\ variable_busy = FALSE
  BY DEF Init, CodePlain, RootsMoved
<1>3. BodiesLow
  BY DEF Init, BodiesLow
<1>4. HeapLive
  BY RootNamesType, IndexFacts DEF Init, HeapLive, NodesLive, RootsLive, Closed, Blank
<1> QED BY <1>1, <1>2, <1>3, <1>4 DEF RInv

(* What an instruction asks for lies in allocated memory.                  *)
LEMMA RequestLive ==
  ASSUME RInv, Allocates
  PROVE  /\ Head(code) \in Instr
         /\ At(Head(code).nxt) < memoryindex
         /\ Request(Head(code)).op = "LIST" => Request(Head(code)).u < memoryindex
<1> DEFINE i == Head(code)
<1>1. TypeOK /\ Low /\ NodesLive /\ RootsLive
  BY RInvFacts DEF RInv, HeapLive, Allocates
<1>2. i \in Instr /\ i.do \in {"lit", "copy", "list"}
  BY <1>1, TailType DEF Allocates
<1>3. ASSUME NEW o \in Operand PROVE At(o) < memoryindex /\ At(o) \in Index
  <2>1. o[1] = "body" => symtab[o[2]].body < memoryindex
    BY DEF Operand, RInv, BodiesLow
  <2> QED BY <1>1, <2>1, AtLive, AtType
<1>4. i.nxt \in Operand
  BY <1>2 DEF Instr
<1>5. Request(i).op = "LIST" => Request(i).u < memoryindex
  <2>1. CASE i.do = "lit"
    BY <1>2, <2>1 DEF Request, Instr
  <2>2. CASE i.do = "list"
    <3>1. i.src \in Operand
      BY <1>2, <2>2 DEF Instr
    <3> QED BY <2>2, <3>1, <1>3 DEF Request
  <2>3. CASE i.do = "copy"
    <3>1. i.src \in Operand
      BY <1>2, <2>3 DEF Instr
    <3>2. At(i.src) \in 0 .. memoryindex - 1
      <4>1. At(i.src) \in Nat /\ At(i.src) < memoryindex /\ memoryindex \in Nat
        BY <1>3, <3>1, IndexFacts, RInvFacts
      <4> QED BY <4>1
    <3>3. Closed(memory[At(i.src)], memoryindex)
      BY <1>1, <3>2 DEF NodesLive
    <3> QED BY <2>3, <3>3 DEF Request, Source, Closed
  <2> QED BY <1>2, <2>1, <2>2, <2>3
<1> QED BY <1>2, <1>3, <1>4, <1>5

LEMMA TailPlain ==
  ASSUME TypeOK, CodePlain, code # <<>>, code' = Tail(code),
         flibrary_busy' = flibrary_busy
  PROVE  CodePlain'
<1>1. ~flibrary_busy => Tail(code) \in Seq(CommandInstr)
  BY DEF CodePlain
<1> QED BY <1>1 DEF CodePlain

LEMMA AllocRInv == RInv /\ (AllocFits \/ AllocLibrary) => RInv'
<1> SUFFICES ASSUME RInv, AllocFits \/ AllocLibrary PROVE RInv'
  OBVIOUS
<1>1. DInv' /\ DInv /\ TypeOK /\ Low /\ Allocates /\ gc' = gc /\ gc = "off"
  BY AllocDInv, RInvFacts DEF AllocFits, AllocLibrary, Allocates
<1> DEFINE q == Request(Head(code))
           r == At(Head(code).nxt)
<1>2. /\ q \in Requests /\ q.u \in Nat /\ r \in Index /\ Build(q, q.u, r)
      /\ r < memoryindex /\ (q.op = "LIST" => q.u < memoryindex)
  BY <1>1, RequestType, RequestLive DEF AllocFits, AllocLibrary, Requests, Allocates
<1>3. NodesLive /\ RootsLive
  BY <1>1 DEF RInv, HeapLive
<1>4. NodesLive' /\ RootsLive' /\ memoryindex' > memoryindex /\ memoryindex' \in Nat
  <2> HIDE DEF q, r
  <2> QED BY <1>1, <1>2, <1>3, BuildLive, BuildKeeps
<1>5. UNCHANGED <<symtab, variable_busy, mem_low, flibrary_busy>> /\ code' = Tail(code)
      /\ code # <<>>
  BY DEF AllocFits, AllocLibrary, symVars, Allocates
<1>6. BodiesLow'
  <2>1. \A s \in Syms : symtab[s].body \in Nat /\ memoryindex \in Nat
    BY <1>1, IndexFacts, RInvFacts DEF TypeOK, Entry
  <2> QED BY <1>4, <1>5, <2>1 DEF BodiesLow, RInv
<1>7. CodePlain'
  BY <1>1, <1>5, TailPlain DEF RInv
<1> QED BY <1>1, <1>4, <1>5, <1>6, <1>7 DEF RInv, HeapLive, RootsMoved

LEMMA AllocGcRInv == DefinitionsOnly /\ RInv /\ AllocGc => RInv'
<1> SUFFICES ASSUME DefinitionsOnly, RInv, AllocGc PROVE RInv'
  OBVIOUS
<1>1. DInv' /\ Allocates /\ ~flibrary_busy
  BY AllocGcDInv DEF RInv, AllocGc
<1>2. gc' = "copy" /\ slot' = 1 /\ frames' = frames /\ memoryindex' = mem_low /\ frames = <<>>
      /\ UNCHANGED <<mem_low, flibrary_busy, symtab, variable_busy>> /\ code' = Tail(code)
      /\ code # <<>>
  BY <1>1 DEF AllocGc, StartGc, symVars, Allocates, RInv, DInv, GcInv
<1>3. CodePlain'
  BY <1>2, TailPlain, RInvFacts DEF RInv
<1>4. BodiesLow'
  BY <1>1, <1>2 DEF RInv, BodiesLow
<1>5. RootsMoved' /\ HeapLive'
  BY <1>2 DEF RootsMoved, HeapLive
<1> QED BY <1>1, <1>2, <1>3, <1>4, <1>5 DEF RInv

LEMMA CollectRInv == RInv /\ Collect => RInv'
<1> SUFFICES ASSUME RInv, Collect PROVE RInv'
  OBVIOUS
<1>1. DInv' /\ DInv /\ ~flibrary_busy
  BY CollectDInv, IdleNotBusy DEF RInv, Collect, Start
<1>2. gc' = "copy" /\ slot' = 1 /\ frames' = frames /\ memoryindex' = mem_low /\ frames = <<>>
      /\ UNCHANGED <<mem_low, flibrary_busy, symtab, variable_busy, code>>
  BY <1>1 DEF Collect, Start, Idle, StartGc, symVars, DInv, GcInv
<1>3. CodePlain' /\ BodiesLow'
  BY <1>1, <1>2 DEF RInv, BodiesLow, CodePlain
<1>4. RootsMoved' /\ HeapLive'
  BY <1>2 DEF RootsMoved, HeapLive
<1> QED BY <1>1, <1>2, <1>3, <1>4 DEF RInv

LEMMA AllocResumeRInv == RInv /\ AllocResume => RInv'
<1> SUFFICES ASSUME RInv, AllocResume PROVE RInv'
  OBVIOUS
<1>1. DInv' /\ TypeOK /\ Low /\ gc = "alloc" /\ gc' = "off"
  BY AllocResumeDInv, RInvFacts DEF RInv, AllocResume
<1>2. NodesLive /\ RootsLive
  BY <1>1 DEF RInv, HeapLive
<1> DEFINE u == IF pend.op = "LIST" THEN root.l ELSE pend.u
<1>3. /\ pend \in Requests /\ root.l \in Index /\ root.r \in Index
      /\ root.l < memoryindex /\ root.r < memoryindex
  BY <1>1, <1>2, RootType, RootNamesType DEF RootsLive, TypeOK
<1>4. u \in Nat /\ (pend.op = "LIST" => u < memoryindex)
  BY <1>3, IndexFacts DEF Requests
<1>5. Build(pend, u, root.r)
  BY DEF AllocResume
<1>6. NodesLive' /\ RootsLive' /\ memoryindex' > memoryindex /\ memoryindex' \in Nat
  <2> HIDE DEF u
  <2> QED BY <1>1, <1>2, <1>3, <1>4, <1>5, BuildLive, BuildKeeps
<1>7. UNCHANGED <<symtab, variable_busy, mem_low, flibrary_busy, code>>
  BY DEF AllocResume, symVars
<1>8. BodiesLow'
  <2>1. \A s \in Syms : symtab[s].body \in Nat /\ memoryindex \in Nat
    BY <1>1, IndexFacts, RInvFacts DEF TypeOK, Entry
  <2> QED BY <1>6, <1>7, <2>1 DEF BodiesLow, RInv
<1> QED BY <1>1, <1>6, <1>7, <1>8 DEF RInv, HeapLive, RootsMoved, CodePlain

LEMMA BeginRInv ==
  ASSUME RInv, NEW program \in Seq(CommandInstr), Begin(program)
  PROVE  RInv'
<1>1. DInv'
  BY BeginDInv, InstrKinds DEF RInv
<1> QED
  BY <1>1
  DEF RInv, Begin, Start, Idle, heapVars, symVars, gcVars, CodePlain, BodiesLow, RootsMoved,
      HeapLive, NodesLive, RootsLive

LEMMA DefineRInv ==
  ASSUME RInv, NEW s \in DefSyms, NEW v \in Nums, NEW quoted \in BOOLEAN,
         Define(s, v, quoted)
  PROVE  RInv'
<1>1. DInv' /\ ~flibrary_busy /\ gc' = "off" /\ flibrary_busy' /\ memoryindex' = mem_low
      /\ UNCHANGED <<symtab, variable_busy, mem_low>>
  BY DefineDInv, IdleNotBusy DEF RInv, Define, Start, Idle, symVars
<1>2. NodesLive' /\ RootsLive'
  BY <1>1 DEF DInv, BusyInv
<1>3. BodiesLow'
  BY <1>1 DEF RInv, BodiesLow
<1> QED BY <1>1, <1>2, <1>3 DEF RInv, CodePlain, RootsMoved, HeapLive

LEMMA RunRInv == DefinitionsOnly /\ RInv /\ Run => RInv'
<1> SUFFICES ASSUME DefinitionsOnly, RInv, Run PROVE RInv'
  OBVIOUS
<1>1. /\ DInv' /\ TypeOK /\ Low /\ gc = "off" /\ code # <<>> /\ Head(code) \in Instr
      /\ UNCHANGED <<memory, memoryindex, gc, frames, slot>> /\ code' = Tail(code)
  BY RunDInv, TailType, RInvFacts DEF RInv, Run, gcVars
<1>2. NodesLive /\ RootsLive
  BY <1>1 DEF RInv, HeapLive
<1>3. /\ root.stck \in Index /\ root.stck < memoryindex
      /\ \A r \in RootSet : root[r] \in Index /\ root[r] < memoryindex
  BY <1>1, <1>2, RootType, RootNamesType DEF RootsLive
<1>4. \A r \in RootSet : Nxt(root[r]) < memoryindex /\ Lis(root[r]) < memoryindex
  BY <1>1, <1>2, <1>3, NxtLive
<1>5. 0 < memoryindex
  BY RInvFacts
<1>6. CASE RunPop
  <2>1. UNCHANGED <<mem_low, flibrary_busy, symtab, variable_busy>>
    BY <1>6 DEF RunPop, symVars
  <2>2. RootsLive' /\ NodesLive'
    BY <1>1, <1>2, <1>3, <1>4, <1>6 DEF RunPop, RootsLive, NodesLive, TypeOK
  <2> QED BY <1>1, <2>1, <2>2, TailPlain DEF RInv, BodiesLow, HeapLive, RootsMoved
<1>7. CASE RunUnstack
  <2>1. UNCHANGED <<mem_low, flibrary_busy, symtab, variable_busy>>
    BY <1>7 DEF RunUnstack, symVars
  <2>2. RootsLive' /\ NodesLive'
    BY <1>1, <1>2, <1>3, <1>4, <1>7, RootNamesType DEF RunUnstack, RootsLive, NodesLive, TypeOK
  <2> QED BY <1>1, <2>1, <2>2, TailPlain DEF RInv, BodiesLow, HeapLive, RootsMoved
<1>8. CASE RunAbort
  <2>1. UNCHANGED <<mem_low, flibrary_busy, symtab, variable_busy>>
    BY <1>8 DEF RunAbort, symVars
  <2>2. RootsLive' /\ NodesLive'
    BY <1>1, <1>2, <1>3, <1>5, <1>8 DEF RunAbort, RootsLive, NodesLive, TypeOK
  <2> QED BY <1>1, <2>1, <2>2, TailPlain DEF RInv, BodiesLow, HeapLive, RootsMoved
<1>9. CASE RunSetBody
  <2>1. UNCHANGED <<mem_low, flibrary_busy, variable_busy>>
        /\ symtab' = [symtab EXCEPT ![Head(code).sym].body = Lis(root.stck)]
        /\ root' = [root EXCEPT !.stck = Nxt(@)] /\ Head(code).do = "body"
    BY <1>9 DEF RunSetBody
  <2>2. flibrary_busy
    <3>1. ~flibrary_busy => Head(code) \in CommandInstr
      BY <1>1 DEF RInv, CodePlain
    <3> QED BY <2>1, <3>1 DEF CommandInstr
  <2>3. RootsLive' /\ NodesLive'
    BY <1>1, <1>2, <1>3, <1>4, <2>1, RootNamesType DEF RootsLive, NodesLive, TypeOK
  <2>4. BodiesLow'
    <3>1. Lis(root.stck) < memoryindex
      BY <1>4, RootNamesType
    <3>2. \A s \in Syms : symtab'[s].body \in {symtab[s].body, Lis(root.stck)}
      BY <1>1, <2>1 DEF TypeOK, Entry
    <3> QED BY <1>1, <2>1, <2>2, <3>1, <3>2 DEF RInv, BodiesLow
  <2> QED BY <1>1, <2>1, <2>3, <2>4, TailPlain DEF RInv, HeapLive, RootsMoved
<1>10. CASE RunInitMem2
  <2>1. mem_low' = memoryindex /\ UNCHANGED <<symtab, variable_busy, root>>
    BY <1>10 DEF RunInitMem2, symVars
  <2>2. BodiesLow' /\ HeapLive' /\ RootsMoved'
    BY <1>1, <1>2, <2>1 DEF RInv, BodiesLow, HeapLive, NodesLive, RootsLive, RootsMoved
  <2>3. code' = <<>>
    <3>1. CodeShape /\ Head(code).do = "inimem2"
      BY <1>10 DEF RInv, DInv, RunInitMem2
    <3> QED BY <1>1, <3>1, InitMem2Last
  <2>4. CodePlain'
    BY <2>3 DEF CodePlain
  <2>5. variable_busy' = FALSE
    BY <2>1 DEF RInv
  <2> QED BY <1>1, <2>2, <2>4, <2>5 DEF RInv
<1>11. CASE RunSetVar
  <2>1. Head(code).sym \in VarSyms
    BY <1>1, <1>11 DEF RunSetVar, Instr
  <2> QED BY <2>1 DEF DefinitionsOnly
<1> QED BY <1>6, <1>7, <1>8, <1>9, <1>10, <1>11 DEF Run

(* Nothing but a fixed root is ever copied.                                *)
LEMMA WantedRoot ==
  ASSUME RInv, NEW j \in 1 .. Slots
  PROVE  /\ Wanted(j) => j <= 11
         /\ j <= 11 /\ ~Wanted(j) => root[RootNames[j]] = 0
BY HeapAssumption DEF RInv, Wanted, Scanned, SlotRoot, Slots

LEMMA GcRootRInv == ASSUME RInv, NEW j \in 1 .. Slots, GcRoot(j) PROVE RInv'
<1>1. /\ DInv' /\ gc = "copy" /\ gc' = "copy" /\ Wanted(j) /\ slot' = j /\ j >= slot
      /\ \A k \in slot .. j - 1 : ~Wanted(k)
      /\ UNCHANGED <<memoryindex, mem_low, root, symtab, variable_busy, code, flibrary_busy>>
  BY GcRootDInv DEF RInv, GcRoot, heapVars, symVars
<1>2. j <= 11
  BY <1>1, WantedRoot
<1>3. ASSUME NEW k \in 1 .. 11, k < j PROVE root[RootNames[k]] < memoryindex
  <2>1. CASE k < slot
    BY <1>1, <2>1 DEF RInv, RootsMoved
  <2>2. CASE ~(k < slot)
    <3>1. k \in slot .. j - 1 /\ k \in 1 .. Slots
      BY <1>3, <2>2, RInvFacts, HeapAssumption DEF TypeOK, Slots
    <3> QED BY <1>1, <3>1, WantedRoot, RInvFacts
  <2> QED BY <2>1, <2>2
<1>4. RootsMoved'
  BY <1>1, <1>2, <1>3 DEF RootsMoved
<1> QED BY <1>1, <1>4 DEF RInv, CodePlain, BodiesLow, HeapLive

LEMMA GcCopyNodeRInv == RInv /\ GcCopyNode => RInv'
<1> SUFFICES ASSUME RInv, GcCopyNode PROVE RInv'
  OBVIOUS
<1>1. /\ DInv' /\ gc = "copy" /\ gc' = "copy" /\ frames # <<>>
      /\ UNCHANGED <<mem_low, root, symtab, variable_busy, code, flibrary_busy, slot>>
  BY GcCopyNodeDInv DEF RInv, GcCopyNode, symVars
<1>2. memoryindex' >= memoryindex /\ memoryindex' \in Nat /\ memoryindex \in Nat
  <2>1. Head(frames).cur \in Index
    BY <1>1, FramesType, RInvFacts DEF Frame
  <2>2. MovedSize(old_memory[Head(frames).cur]) \in Nat \ {0}
    BY <2>1, MovedType, RInvFacts DEF TypeOK
  <2>3. memoryindex' = memoryindex + MovedSize(old_memory[Head(frames).cur])
    BY DEF GcCopyNode
  <2> QED BY <2>2, <2>3, RInvFacts
<1>3. \A r \in RootSet : root[r] \in Nat
  BY RInvFacts, RootType, IndexFacts
<1>4. \A j \in 1 .. 11 : RootNames[j] \in RootSet
  BY RootNamesType
<1>5. RootsMoved'
  <2>1. slot <= 11
    BY <1>1 DEF RInv, RootsMoved
  <2>2. ASSUME NEW j \in 1 .. 11, j < slot PROVE root[RootNames[j]] < memoryindex'
    <3>1. root[RootNames[j]] < memoryindex
      BY <1>1, <2>2 DEF RInv, RootsMoved
    <3> QED BY <1>2, <1>3, <1>4, <3>1
  <2> QED BY <1>1, <2>1, <2>2 DEF RootsMoved
<1>6. BodiesLow'
  <2>1. \A s \in Syms : symtab[s].body \in Nat
    BY RInvFacts, IndexFacts DEF TypeOK, Entry
  <2> QED BY <1>1, <1>2, <2>1 DEF RInv, BodiesLow
<1> QED BY <1>1, <1>5, <1>6 DEF RInv, CodePlain, HeapLive

LEMMA GcChainEndRInv == RInv /\ GcChainEnd => RInv'
<1> SUFFICES ASSUME RInv, GcChainEnd PROVE RInv'
  OBVIOUS
<1> DEFINE f      == Head(frames)
           target == IF f.cur < mem_low THEN f.cur ELSE forward[f.cur]
           result == IF f.head = 0 THEN target ELSE f.head
<1>1. /\ DInv' /\ gc = "copy" /\ gc' = "copy" /\ frames # <<>> /\ slot <= 11
      /\ UNCHANGED <<memoryindex, mem_low, variable_busy, code, flibrary_busy>>
  BY GcChainEndDInv DEF RInv, RootsMoved, GcChainEnd
<1>2. f \in LiveFrame
  BY <1>1 DEF RInv, DInv, GcInv
<1>3. result < memoryindex
  <2>1. f.cur \in Nat /\ f.head < memoryindex /\ f.cur \in Index
    BY <1>2, IndexFacts DEF LiveFrame, Frame
  <2>2. forward[f.cur] < memoryindex
    BY <1>1, <2>1 DEF RInv, DInv, GcInv
  <2> HIDE DEF f
  <2> QED BY <2>1, <2>2, RInvFacts
<1>4. UNCHANGED symtab
  BY <1>1, RInvFacts DEF GcChainEnd
<1>5. RootsMoved'
  <2>1. CASE Tail(frames) # <<>>
    <3>1. UNCHANGED <<root, slot>>
      BY <2>1 DEF GcChainEnd
    <3> QED BY <1>1, <3>1 DEF RInv, RootsMoved
  <2>2. CASE Tail(frames) = <<>>
    <3>1. frames' = <<>> /\ slot' = slot + 1 /\ root' = [root EXCEPT ![RootNames[slot]] = result]
      BY <1>1, <2>2 DEF GcChainEnd
    <3>2. slot \in Nat
      BY RInvFacts DEF TypeOK, Slots
    <3>3. ASSUME NEW j \in 1 .. 11, j < slot + 1 PROVE root'[RootNames[j]] < memoryindex
      <4> HIDE DEF result
      <4>1. RootNames[j] \in RootSet /\ root \in [RootSet -> Index]
        BY RootNamesType, RInvFacts DEF TypeOK
      <4>2. CASE j = slot
        BY <1>3, <3>1, <4>1, <4>2
      <4>3. CASE j < slot
        <5>1. root[RootNames[j]] < memoryindex
          BY <1>1, <4>3 DEF RInv, RootsMoved
        <5> QED BY <1>3, <3>1, <4>1, <5>1
      <4> QED BY <3>2, <3>3, <4>2, <4>3
    <3> QED BY <1>1, <3>1, <3>3 DEF RootsMoved
  <2> QED BY <2>1, <2>2
<1> QED BY <1>1, <1>4, <1>5 DEF RInv, CodePlain, BodiesLow, HeapLive

LEMMA Gc2RInv == RInv /\ Gc2 => RInv'
<1> SUFFICES ASSUME RInv, Gc2 PROVE RInv'
  OBVIOUS
<1>1. /\ DInv' /\ gc = "copy" /\ gc' # "copy" /\ (\A j \in slot .. Slots : ~Wanted(j))
      /\ UNCHANGED <<memory, memoryindex, mem_low, root, symtab, variable_busy, code, flibrary_busy>>
  BY Gc2DInv DEF RInv, Gc2, symVars
<1>2. ASSUME NEW r \in RootSet PROVE root[r] < memoryindex
  <2>1. PICK j \in 1 .. 11 : r = RootNames[j]
    BY RootNamesType
  <2>2. CASE j < slot
    BY <1>1, <2>1, <2>2 DEF RInv, RootsMoved
  <2>3. CASE ~(j < slot)
    <3>1. j \in slot .. Slots /\ j \in 1 .. Slots
      BY <2>3, RInvFacts, HeapAssumption DEF TypeOK, Slots
    <3> QED BY <1>1, <2>1, <3>1, WantedRoot, RInvFacts
  <2> QED BY <2>2, <2>3
<1>3. NodesLive
  <2>1. \A i \in Index : Closed(memory[i], memoryindex)
    BY <1>1 DEF RInv, DInv, GcInv
  <2> QED BY <2>1, LowIndex, RInvFacts DEF NodesLive
<1> QED
  BY <1>1, <1>2, <1>3
  DEF RInv, CodePlain, BodiesLow, HeapLive, RootsMoved, NodesLive, RootsLive

LEMMA NextRInv == DefinitionsOnly /\ RInv /\ [Next]_vars => RInv'
<1> SUFFICES ASSUME DefinitionsOnly, RInv, [Next]_vars PROVE RInv'
  OBVIOUS
<1>1. CASE Execute
  BY <1>1, ExecuteBegins, BeginRInv, DefineRInv DEF DefinitionsOnly
<1>2. CASE Collect
  BY <1>2, CollectRInv
<1>3. CASE Run
  BY <1>3, RunRInv
<1>4. CASE Allocate
  BY <1>4, AllocRInv, AllocGcRInv, AllocResumeRInv DEF Allocate
<1>5. CASE GcStep
  BY <1>5, GcRootRInv, GcCopyNodeRInv, GcChainEndRInv, Gc2RInv DEF GcStep
<1>6. CASE UNCHANGED vars
  <2>1. DInv'
    BY <1>6, NextDInv DEF RInv
  <2> QED
    BY <1>6, <2>1
    DEF vars, heapVars, symVars, gcVars, RInv, CodePlain, BodiesLow, RootsMoved, HeapLive,
        NodesLive, RootsLive
<1> QED BY <1>1, <1>2, <1>3, <1>4, <1>5, <1>6 DEF Next

(***************************************************************************)
(* Wherever collections happen, whatever the sizes of strings and the      *)
(* capacity: every root, every body and every node in use leads only to    *)
(* nodes that have been allocated.                                         *)
(***************************************************************************)
THEOREM ReferencesLive == ASSUME DefinitionsOnly PROVE Spec => []RefsLive
<1>1. Init => RInv
  BY InitRInv
<1>2. RInv /\ [Next]_vars => RInv'
  BY NextRInv
<1>3. RInv => RefsLive
  BY DEF RInv, HeapLive, BodiesLow, NodesLive, RootsLive, RefsLive
<1> QED BY <1>1, <1>2, <1>3, PTL DEF Spec

(***************************************************************************)
(* The body of every name is a definition once it has been read: the next  *)
(* collection or definition cannot take it away.                           *)
(***************************************************************************)
THEOREM BodiesKept == ASSUME DefinitionsOnly PROVE Spec => []BodiesAreDefinitions
<1>1. Init => RInv
  BY InitRInv
<1>2. RInv /\ [Next]_vars => RInv'
  BY NextRInv
<1>3. RInv => BodiesAreDefinitions
  <2> SUFFICES ASSUME RInv, Idle, NEW s \in (DefSyms \cup EmbedSyms) \ VarSyms
               PROVE  symtab[s].body < mem_low
    BY DEF BodiesAreDefinitions
  <2>1. ~flibrary_busy /\ s \in Syms
    BY IdleNotBusy, HeapAssumption DEF RInv, Syms
  <2> QED BY <2>1 DEF RInv, BodiesLow
<1> QED BY <1>1, <1>2, <1>3, PTL DEF Spec

=============================================================================
