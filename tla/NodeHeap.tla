------------------------------ MODULE NodeHeap ------------------------------
(***************************************************************************)
(* The node memory of one Joy interpreter (src/utils.c, NOBDW build): the  *)
(* bump allocator newnode, the copying collector gc1 / copy / gc2, the     *)
(* definition space kept below mem_low, and the builtins that drive them.  *)
(*                                                                         *)
(* A builtin is a short program over the allocation macros of macros.h and *)
(* runtime.h (NULLARY, GBINARY, SAVESTACK, POP, ...).  Every allocation    *)
(* may start a collection, so a builtin is interrupted at each of them:    *)
(* `code` is what is left of it and root.l / root.r are the parameters of  *)
(* the newnode call in progress.  The collector runs one copied node at a  *)
(* time over an explicit stack of copy() activations.                      *)
(***************************************************************************)
EXTENDS Integers, Sequences

CONSTANTS
  MEM_LOW,    \* capacity, in nodes, of a new memory
  MaxIndex,   \* bound: the largest node index the model follows
  MaxOps,     \* bound: the number of commands executed
  Doublings,  \* bound: the factors by which one request may enlarge memory
  Nums,       \* payloads of integer nodes
  StrLens,    \* strings: the nodes each needs beyond its first one
  NSyms,      \* entries of the symbol table, 1 .. NSyms
  DefSyms,    \* entries defined by DEFINE at the top level (repl.c)
  EmbedSyms,  \* entries defined through joy_eval_string (joy.c)
  VarSyms,    \* entries given a value by assign
  Builtins    \* names of the stack builtins exercised

ASSUME HeapAssumption ==
  /\ MEM_LOW \in Nat \ {0} /\ MaxIndex \in Nat \ {0} /\ MEM_LOW <= MaxIndex
  /\ MaxOps \in Nat /\ NSyms \in Nat
  /\ Doublings \subseteq Nat \ {0}
  /\ Nums \subseteq Nat /\ StrLens \subseteq Nat
  /\ DefSyms \cup EmbedSyms \cup VarSyms \subseteq 1 .. NSyms

Index == 0 .. MaxIndex
Syms  == 1 .. NSyms

(***************************************************************************)
(* Node { op, len, next, u }.  The union u holds a number, or an index for *)
(* a LIST; len is the number of nodes after the first one that a string    *)
(* occupies.  ILLEGAL is op 0: what calloc and the inside of a string hold.*)
(***************************************************************************)
Ops   == {"ILLEGAL", "INTEGER", "STRING", "LIST"}
Node  == {n \in [op : Ops, len : Nat, next : Index, u : Nat] :
             n.op = "LIST" => n.u \in Index}
Blank == [op |-> "ILLEGAL", len |-> 0, next |-> 0, u |-> 0]

(* The roots of gc1 in the order it copies them.  l and r are the          *)
(* parameters *l and *r: the list and the link of the node being built.    *)
RootNames == <<"stck", "prog", "conts", "dump", "dump1", "dump2", "dump3",
               "dump4", "dump5", "l", "r">>
RootSet   == {RootNames[i] : i \in 1 .. 11}

VARIABLES
  memory,         \* env->memory
  memoryindex,    \* first free node
  memorymax,      \* capacity
  mem_low,        \* first node above the definition space
  flibrary_busy,  \* a definition is being read: no collection
  root,           \* stck, prog, conts, dump .. dump5 and gc1's l and r
  symtab,         \* per entry: body, is_root, is_last
  variable_busy,  \* some variable has been assigned
  code,           \* what is left of the builtin being executed
  ops,            \* commands executed so far
  pend,           \* the newnode call in progress
  gc,             \* "off", "copy" (gc1) or "alloc" (newnode resumes)
  old_memory,     \* from-space
  forward,        \* forward[n] # 0: old node n is COPIED_ and moved there
  slot,           \* next root of gc1 to copy, an index into Slots
  frames          \* activations of copy(), innermost first

heapVars == <<memory, memoryindex, memorymax, mem_low>>
gcVars   == <<old_memory, forward, slot, frames>>
symVars  == <<symtab, variable_busy>>
vars     == <<heapVars, flibrary_busy, root, symVars, code, ops, pend, gc, gcVars>>

-----------------------------------------------------------------------------
(* Operands of the allocation macros. *)

Nxt(n) == memory[n].next
Lis(n) == IF memory[n].op = "LIST" THEN memory[n].u ELSE 0

Skip(n, k) == CASE k = 0 -> n
                [] k = 1 -> Nxt(n)
                [] k = 2 -> Nxt(Nxt(n))
                [] OTHER -> Nxt(Nxt(Nxt(n)))

S(k)     == <<"stck", k>>    \* the node k below the top of the stack
Below(k) == <<"lis", k>>     \* nodevalue(S(k)).lis
Saved(k) == <<"saved", k>>   \* SAVED1, SAVED2, SAVED3
First(k) == <<"first", k>>   \* nodevalue(SAVED1).lis and its successors
Dump     == <<"dump", 0>>
Body(s)  == <<"body", s>>
Temp     == <<"l", 0>>       \* the C local passed on to the next newnode
Nil      == <<"nil", 0>>

Operand ==
  ({"stck", "lis", "saved", "first", "dump", "l", "nil"} \X (0 .. 3))
  \cup ({"body"} \X Syms)

At(o) ==
  CASE o[1] = "stck"  -> Skip(root.stck, o[2])
    [] o[1] = "lis"   -> Lis(Skip(root.stck, o[2]))
    [] o[1] = "saved" -> Skip(Lis(root.dump), o[2])
    [] o[1] = "first" -> Skip(Lis(Lis(root.dump)), o[2])
    [] o[1] = "dump"  -> root.dump
    [] o[1] = "body"  -> symtab[o[2]].body
    [] o[1] = "l"     -> root.l
    [] OTHER          -> 0

(* Instructions: one per macro that allocates or moves a register. *)
Lit(op, len, u, nxt, dst) ==
  [do |-> "lit", op |-> op, len |-> len, u |-> u, nxt |-> nxt, dst |-> dst]
Copy(o, nxt, dst) == [do |-> "copy", src |-> o, nxt |-> nxt, dst |-> dst]
List(o, nxt, dst) == [do |-> "list", src |-> o, nxt |-> nxt, dst |-> dst]
Pop(r)            == [do |-> "pop", reg |-> r]
SetBody(s)        == [do |-> "body", sym |-> s]     \* definition()
SetVar(s)         == [do |-> "var", sym |-> s]      \* assign_
Unstack           == [do |-> "unstack"]
InitMem2          == [do |-> "inimem2"]
Abort             == [do |-> "abort"]               \* execerror
SAVESTACK         == List(S(0), Dump, "dump")

Target == {"stck", "dump", "l"}
Instr ==
  [do : {"lit"}, op : {"INTEGER", "STRING"}, len : Nat, u : Nat, nxt : Operand,
   dst : Target]
  \cup [do : {"copy", "list"}, src : Operand, nxt : Operand, dst : Target]
  \cup [do : {"pop"}, reg : {"stck", "dump"}]
  \cup [do : {"body"}, sym : DefSyms \cup EmbedSyms]
  \cup [do : {"var"}, sym : VarSyms]
  \cup [do : {"unstack", "inimem2", "abort"}]

Command(b) ==
  CASE b = "dup"    -> <<Copy(S(0), S(0), "stck")>>
    [] b = "over"   -> <<Copy(S(1), S(0), "stck")>>
    [] b = "pop"    -> <<Pop("stck")>>
    [] b = "swap"   -> <<SAVESTACK, Copy(Saved(0), S(2), "stck"),
                         Copy(Saved(1), S(0), "stck"), Pop("dump")>>
    [] b = "rotate" -> <<SAVESTACK, Copy(Saved(0), S(3), "stck"),
                         Copy(Saved(1), S(0), "stck"),
                         Copy(Saved(2), S(0), "stck"), Pop("dump")>>
    [] b = "cons"   -> <<Copy(S(1), Below(0), "l"), List(Temp, S(2), "stck")>>
    [] b = "uncons" -> IF Lis(root.stck) = 0 THEN <<SAVESTACK, Abort>>
                       ELSE <<SAVESTACK, Copy(First(0), S(1), "stck"),
                              List(First(1), S(0), "stck"), Pop("dump")>>
    [] b = "unstack" -> <<Unstack>>
    [] b = "stack"  -> <<List(S(0), S(0), "stck")>>
    [] b = "list"   -> <<List(Nil, S(0), "stck")>>
    [] OTHER        -> <<>>

(* The parameters each builtin checks before it does anything. *)
Depth(b) == CASE b \in {"stack", "list"} -> 0
              [] b \in {"over", "swap", "cons"} -> 2
              [] b = "rotate" -> 3
              [] OTHER -> 1
ParamsOK(b) ==
  /\ Depth(b) > 0 => root.stck # 0
  /\ Depth(b) > 1 => At(S(1)) # 0
  /\ Depth(b) > 2 => At(S(2)) # 0
  /\ b \in {"cons", "uncons", "unstack"} => memory[root.stck].op = "LIST"

-----------------------------------------------------------------------------
NoPend == [op |-> "ILLEGAL", len |-> 0, u |-> 0, dst |-> "l"]
Idle   == code = <<>> /\ gc = "off"

Init ==
  /\ memory = [i \in Index |-> Blank]
  /\ memoryindex = 1 /\ mem_low = 1 /\ memorymax = MEM_LOW
  /\ flibrary_busy = FALSE
  /\ root = [r \in RootSet |-> 0]
  /\ symtab = [s \in Syms |-> [body |-> 0, is_root |-> FALSE, is_last |-> FALSE]]
  /\ variable_busy = FALSE
  /\ code = <<>> /\ ops = 0 /\ pend = NoPend
  /\ gc = "off" /\ slot = 1 /\ frames = <<>>
  /\ old_memory = [i \in Index |-> Blank]
  /\ forward = [i \in Index |-> 0]

(***************************************************************************)
(* newnode.  The request of an instruction, then its three ways to go:     *)
(* there is room; definitions are being read and memory is enlarged; or    *)
(* memorymax is enlarged and a collection runs before the node is built.   *)
(***************************************************************************)
Source(i) == memory[At(i.src)]

Request(i) ==
  CASE i.do = "lit"  -> [op |-> i.op, len |-> i.len, u |-> i.u, dst |-> i.dst]
    [] i.do = "copy" -> [op |-> Source(i).op, len |-> Source(i).len,
                         u |-> Source(i).u, dst |-> i.dst]
    [] OTHER         -> [op |-> "LIST", len |-> 0, u |-> At(i.src), dst |-> i.dst]

(* Nodes copied for one list parameter, as count() counts them. *)
Count[n \in Index, d \in 0 .. MaxIndex] ==
  IF n < mem_low \/ d = 0 THEN 0
  ELSE 1 + memory[n].len
         + (IF memory[n].op = "LIST" THEN Count[memory[n].u, d - 1] ELSE 0)

(* The node q, linked to nxt, is built at memoryindex and handed to q.dst. *)
Build(q, u, nxt) ==
  LET p == memoryindex IN
  /\ p + q.len <= MaxIndex
  /\ memory' = [i \in Index |->
        IF i = p THEN [op |-> q.op, len |-> q.len, next |-> nxt, u |-> u]
        ELSE IF i \in p + 1 .. p + q.len THEN Blank ELSE memory[i]]
  /\ memoryindex' = p + 1 + q.len
  /\ root' = [r \in RootSet |-> IF r = q.dst THEN p
                               ELSE IF r \in {"l", "r"} THEN 0 ELSE root[r]]

(* Fault: the request is met without enlarging memory. *)
EnlargeNot(need) == memorymax' = memorymax /\ need > 0

(* memorymax doubles until `need` more nodes fit below it. *)
Enlarge(need) ==
  \E f \in Doublings :
    /\ memoryindex + need < memorymax * f
    /\ f > 1 => 2 * (memoryindex + need) >= memorymax * f
    /\ memorymax' = memorymax * f

(* Fault: the new memory begins one node inside the definition space. *)
StartGcLow ==
  /\ gc' = "copy"
  /\ old_memory' = memory
  /\ memory' = [i \in Index |-> IF i < mem_low THEN memory[i] ELSE Blank]
  /\ memoryindex' = IF mem_low > 1 THEN mem_low - 1 ELSE mem_low
  /\ slot' = 1
  /\ UNCHANGED <<mem_low, forward, frames>>

(* gc1 begins: a new memory that holds the definitions and nothing else. *)
StartGc ==
  /\ gc' = "copy"
  /\ old_memory' = memory
  /\ memory' = [i \in Index |-> IF i < mem_low THEN memory[i] ELSE Blank]
  /\ memoryindex' = mem_low
  /\ slot' = 1
  /\ UNCHANGED <<mem_low, forward, frames>>

Allocates == code # <<>> /\ gc = "off" /\ Head(code).do \in {"lit", "copy", "list"}

AllocFits ==
  /\ Allocates
  /\ LET q == Request(Head(code)) IN
       /\ memoryindex + 1 + q.len < memorymax
       /\ Build(q, q.u, At(Head(code).nxt))
  /\ code' = Tail(code)
  /\ UNCHANGED <<memorymax, mem_low, flibrary_busy, symVars, ops, pend, gc, gcVars>>

AllocLibrary ==
  /\ Allocates /\ flibrary_busy
  /\ LET q == Request(Head(code)) IN
       /\ memoryindex + 1 + q.len >= memorymax
       /\ Enlarge(1 + q.len)
       /\ Build(q, q.u, At(Head(code).nxt))
  /\ code' = Tail(code)
  /\ UNCHANGED <<mem_low, flibrary_busy, symVars, ops, pend, gc, gcVars>>

AllocGc ==
  /\ Allocates /\ ~flibrary_busy
  /\ LET q == Request(Head(code))
         r == At(Head(code).nxt)
         isList == q.op = "LIST"
         numgc == 1 + q.len + Count[r, MaxIndex]
                  + (IF isList THEN Count[q.u, MaxIndex] ELSE 0)
     IN /\ memoryindex + 1 + q.len >= memorymax
        /\ Enlarge(numgc)
        /\ pend' = [q EXCEPT !.u = IF isList THEN 0 ELSE @]
        /\ root' = [x \in RootSet |-> IF x = "r" THEN r ELSE IF x # "l" THEN root[x]
                                      ELSE IF isList THEN q.u ELSE 0]
  /\ StartGc
  /\ code' = Tail(code)
  /\ UNCHANGED <<flibrary_busy, symVars, ops>>

(* After gc2 the node is built without looking at the capacity again. *)
AllocResume ==
  /\ gc = "alloc"
  /\ Build(pend, IF pend.op = "LIST" THEN root.l ELSE pend.u, root.r)
  /\ gc' = "off" /\ pend' = NoPend
  /\ UNCHANGED <<memorymax, mem_low, flibrary_busy, symVars, code, ops, gcVars>>

-----------------------------------------------------------------------------
(***************************************************************************)
(* The collector.  Old nodes at or above mem_low that a root reaches are   *)
(* moved to the new memory; definitions stay where they are.               *)
(***************************************************************************)
Slots == 11 + NSyms
SymOf(j)    == NSyms + 12 - j
SlotRoot(j) == IF j <= 11 THEN root[RootNames[j]] ELSE symtab[SymOf(j)].body

(* scan_roots walks the symbol table from its end and stops after the      *)
(* entry marked is_last; only is_root entries are copied.                  *)
Scanned(s) ==
  /\ variable_busy /\ symtab[s].is_root
  /\ \A t \in Syms : t > s => ~symtab[t].is_last

(* Faults: gc1 forgets env->dump, its parameter *r, or the variables. *)
WantedNoDump(j) == j # 4 /\ SlotRoot(j) # 0 /\ (j > 11 => Scanned(SymOf(j)))
WantedNoLink(j) == j # 11 /\ SlotRoot(j) # 0 /\ (j > 11 => Scanned(SymOf(j)))
WantedNoVars(j) == j < 12 /\ SlotRoot(j) # 0

Wanted(j) == SlotRoot(j) # 0 /\ (j > 11 => Scanned(SymOf(j)))

GcRoot(j) ==
  /\ gc = "copy" /\ frames = <<>>
  /\ j >= slot /\ Wanted(j)
  /\ \A k \in slot .. j - 1 : ~Wanted(k)
  /\ slot' = j
  /\ frames' = <<[cur |-> SlotRoot(j), head |-> 0, tail |-> 0, dest |-> 0]>>
  /\ UNCHANGED <<heapVars, flibrary_busy, root, symVars, code, ops, pend, gc,
                 old_memory, forward>>

(* A new node joins the chain that this activation of copy() builds. *)
Joined(f, temp) ==
  [cur  |-> old_memory[f.cur].next,
   head |-> IF f.head = 0 THEN temp ELSE f.head,
   tail |-> temp, dest |-> 0]

LinkTail(mem, tail, n) == IF tail = 0 THEN mem ELSE [mem EXCEPT ![tail].next = n]

(* Fault: the length of the copy leaves out one node of the string. *)
MovedShort(old) == [op |-> old.op, len |-> old.len - 1, next |-> 0,
                    u |-> IF old.op = "LIST" THEN 0 ELSE old.u]

(* copy_one: a string takes its own size once more when it is moved, as    *)
(* memoryindex has already passed its first node when num is added.  The   *)
(* next and lis fields are filled in when the chain they start is copied.  *)
MovedSize(old) == IF old.op = "STRING" THEN 2 + old.len ELSE 1
Moved(old)     == [op |-> old.op, len |-> old.len, next |-> 0,
                   u |-> IF old.op = "LIST" THEN 0 ELSE old.u]

GcCopyNode ==
  /\ gc = "copy" /\ frames # <<>>
  /\ LET f     == Head(frames)
         old   == old_memory[f.cur]
         temp  == memoryindex
         mem   == [memory EXCEPT ![temp] = Moved(old)]
         inner == [cur |-> old.u, head |-> 0, tail |-> 0, dest |-> 0]
         outer == [cur |-> f.cur, head |-> f.head, tail |-> f.tail, dest |-> temp]
     IN /\ f.cur >= mem_low /\ forward[f.cur] = 0
        /\ memoryindex' = temp + MovedSize(old)
        /\ memoryindex' <= MaxIndex + 1
        /\ IF old.op = "LIST"
             THEN /\ memory' = mem
                  /\ frames' = <<inner>> \o (<<outer>> \o Tail(frames))
                  /\ UNCHANGED forward
             ELSE /\ memory' = LinkTail(mem, f.tail, temp)
                  /\ forward' = [forward EXCEPT ![f.cur] = temp]
                  /\ frames' = <<Joined(f, temp)>> \o Tail(frames)
  /\ UNCHANGED <<memorymax, mem_low, flibrary_busy, root, symVars, code, ops, pend,
                 gc, old_memory, slot>>

(* The chain ends at a definition, at nil or at a node already moved; its  *)
(* new head goes to the list node or to the root that asked for it.        *)
GcChainEnd ==
  /\ gc = "copy" /\ frames # <<>>
  /\ LET f      == Head(frames)
         target == IF f.cur < mem_low THEN f.cur ELSE forward[f.cur]
         result == IF f.head = 0 THEN target ELSE f.head
         mem    == LinkTail(memory, f.tail, target)
     IN /\ f.cur < mem_low \/ forward[f.cur] # 0
        /\ IF Tail(frames) # <<>>
             THEN LET g == Head(Tail(frames)) IN
                  /\ memory' = LinkTail([mem EXCEPT ![g.dest].u = result],
                                        g.tail, g.dest)
                  /\ forward' = [forward EXCEPT ![g.cur] = g.dest]
                  /\ frames' = <<Joined(g, g.dest)>> \o Tail(Tail(frames))
                  /\ UNCHANGED <<root, symtab, slot>>
             ELSE /\ memory' = mem
                  /\ frames' = <<>>
                  /\ slot' = slot + 1
                  /\ IF slot <= 11
                       THEN /\ root' = [root EXCEPT ![RootNames[slot]] = result]
                            /\ UNCHANGED symtab
                       ELSE /\ symtab' = [symtab EXCEPT ![SymOf(slot)].body = result]
                            /\ UNCHANGED root
                  /\ UNCHANGED forward
  /\ UNCHANGED <<memoryindex, memorymax, mem_low, flibrary_busy, variable_busy, code,
                 ops, pend, gc, old_memory>>

(* gc2: release the old memory and adjust the capacity to what is left. *)
Resized == IF memoryindex * 100 < 10 * memorymax THEN (memorymax * 9) \div 10
           ELSE IF memoryindex * 100 > 90 * memorymax THEN 2 * memorymax
           ELSE memorymax

Gc2 ==
  /\ gc = "copy" /\ frames = <<>>
  /\ \A j \in slot .. Slots : ~Wanted(j)
  /\ old_memory' = [i \in Index |-> Blank]
  /\ forward' = [i \in Index |-> 0]
  /\ slot' = 1
  /\ memorymax' = Resized
  /\ gc' = IF pend = NoPend THEN "off" ELSE "alloc"
  /\ UNCHANGED <<memory, memoryindex, mem_low, flibrary_busy, root, symVars, code, ops,
                 pend, frames>>

-----------------------------------------------------------------------------
(* Instructions that allocate nothing. *)
RunPop ==
  /\ Head(code).do = "pop"
  /\ root' = [root EXCEPT ![Head(code).reg] = Nxt(@)]
  /\ UNCHANGED <<mem_low, flibrary_busy, symVars>>

RunUnstack ==
  /\ Head(code).do = "unstack"
  /\ root' = [root EXCEPT !.stck = Lis(@)]
  /\ UNCHANGED <<mem_low, flibrary_busy, symVars>>

(* definition: the term just read becomes the body of the entry. *)
RunSetBody ==
  /\ Head(code).do = "body"
  /\ symtab' = [symtab EXCEPT ![Head(code).sym].body = Lis(root.stck)]
  /\ root' = [root EXCEPT !.stck = Nxt(@)]
  /\ UNCHANGED <<mem_low, flibrary_busy, variable_busy>>

(* Fault: the definition space is not enlarged. *)
RunInitMem2Keep ==
  /\ Head(code).do = "inimem2"
  /\ mem_low' = mem_low
  /\ flibrary_busy' = FALSE
  /\ UNCHANGED <<root, symVars>>

(* inimem2: the definition space now ends at memoryindex. *)
RunInitMem2 ==
  /\ Head(code).do = "inimem2"
  /\ mem_low' = memoryindex
  /\ flibrary_busy' = FALSE
  /\ UNCHANGED <<root, symVars>>

(* assign_: the entry is a root from now on; the first variable is is_last.*)
RunSetVar ==
  /\ Head(code).do = "var"
  /\ LET s == Head(code).sym IN
     symtab' = [symtab EXCEPT ![s] =
       [body |-> root.l, is_root |-> TRUE, is_last |-> @.is_last \/ ~variable_busy]]
  /\ variable_busy' = TRUE
  /\ root' = [root EXCEPT !.l = 0]
  /\ UNCHANGED <<mem_low, flibrary_busy>>

(* execerror: longjmp to the top level, which clears prog only. *)
RunAbort ==
  /\ Head(code).do = "abort"
  /\ root' = [root EXCEPT !.prog = 0]
  /\ UNCHANGED <<mem_low, flibrary_busy, symVars>>

Run ==
  /\ code # <<>> /\ gc = "off"
  /\ RunPop \/ RunUnstack \/ RunSetBody \/ RunInitMem2 \/ RunSetVar \/ RunAbort
  /\ code' = Tail(code)
  /\ UNCHANGED <<memory, memoryindex, memorymax, ops, pend, gc, gcVars>>

-----------------------------------------------------------------------------
(* Commands. *)
Start == Idle /\ ops < MaxOps /\ ops' = ops + 1

Begin(program) ==
  /\ Start
  /\ code' = program
  /\ UNCHANGED <<heapVars, flibrary_busy, root, symVars, pend, gc, gcVars>>

PushNum(v)    == Begin(<<Lit("INTEGER", 0, v, S(0), "stck")>>)
PushString(k) == Begin(<<Lit("STRING", k, 0, S(0), "stck")>>)
Builtin(b)    == ParamsOK(b) /\ Begin(Command(b))

Collect ==
  /\ Start /\ StartGc
  /\ UNCHANGED <<memorymax, flibrary_busy, root, symVars, code, pend>>

(* A definition whose body is the number v, or [v] when it is quoted:      *)
(* readterm leaves the term on the stack, definition takes it from there.  *)
ReadBody(s, v, quoted) ==
  <<Lit("INTEGER", 0, v, Nil, "l")>>
  \o (IF quoted THEN <<List(Temp, Nil, "l")>> ELSE <<>>)
  \o <<List(Temp, S(0), "stck"), SetBody(s)>>

(* Fault: inimem1 drops the definitions as well. *)
DefineFromScratch(s, v, quoted) ==
  /\ Start
  /\ root' = [r \in RootSet |-> IF r = "prog" THEN root.prog ELSE 0]
  /\ memoryindex' = 1
  /\ flibrary_busy' = TRUE
  /\ code' = ReadBody(s, v, quoted) \o <<InitMem2>>
  /\ UNCHANGED <<memory, memorymax, mem_low, symVars, pend, gc, gcVars>>

(* repl: inimem1 drops everything above mem_low before a definition. *)
Define(s, v, quoted) ==
  /\ Start
  /\ root' = [r \in RootSet |-> IF r = "prog" THEN root.prog ELSE 0]
  /\ memoryindex' = mem_low
  /\ flibrary_busy' = TRUE
  /\ code' = ReadBody(s, v, quoted) \o <<InitMem2>>
  /\ UNCHANGED <<memory, memorymax, mem_low, symVars, pend, gc, gcVars>>

(* joy_eval_string: the same definition read on top of the running heap. *)
EmbedDefine(s, v, quoted) == Begin(ReadBody(s, v, quoted))

(* assign_ copies the value below its name, then drops the value. *)
Assign(s) ==
  /\ root.stck # 0
  /\ Begin(<<Copy(S(0), Nil, "l"), Pop("stck"), SetVar(s)>>)

Unassign(s) ==
  /\ Start
  /\ symtab' = [symtab EXCEPT ![s] = [@ EXCEPT !.body = 0, !.is_root = TRUE]]
  /\ UNCHANGED <<heapVars, flibrary_busy, root, variable_busy, code, pend, gc, gcVars>>

(* exec_term on a name: an empty body is skipped, a bad node is reported,  *)
(* and otherwise the node the body holds is copied to the stack.           *)
Eval(s) ==
  /\ symtab[s].body # 0 /\ memory[symtab[s].body].op # "ILLEGAL"
  /\ Begin(<<Copy(Body(s), S(0), "stck")>>)

Execute ==
  \/ \E v \in Nums : PushNum(v)
  \/ \E k \in StrLens : PushString(k)
  \/ \E b \in Builtins : Builtin(b)
  \/ \E s \in VarSyms : Assign(s) \/ Unassign(s)
  \/ \E s \in Syms : Eval(s)
  \/ \E s \in DefSyms, v \in Nums, quoted \in BOOLEAN : Define(s, v, quoted)
  \/ \E s \in EmbedSyms, v \in Nums, quoted \in BOOLEAN : EmbedDefine(s, v, quoted)

Allocate == AllocFits \/ AllocLibrary \/ AllocGc \/ AllocResume
GcStep   == (\E j \in 1 .. Slots : GcRoot(j)) \/ GcCopyNode \/ GcChainEnd \/ Gc2

Next == Execute \/ ("gc" \in Builtins /\ Collect) \/ Run \/ Allocate \/ GcStep

Spec == Init /\ [][Next]_vars
-----------------------------------------------------------------------------
Room     == 0 .. MaxIndex + 1
Entry    == [body : Index, is_root : BOOLEAN, is_last : BOOLEAN]
Requests == [op : Ops, len : Nat, u : Nat, dst : Target]
Frame    == [cur : Index, head : Index, tail : Index, dest : Index]

TypeOK ==
  /\ memory \in [Index -> Node]
  /\ memoryindex \in Room /\ mem_low \in Room /\ memorymax \in Nat
  /\ flibrary_busy \in BOOLEAN /\ variable_busy \in BOOLEAN
  /\ root \in [RootSet -> Index]
  /\ symtab \in [Syms -> Entry]
  /\ code \in Seq(Instr) /\ ops \in 0 .. MaxOps
  /\ pend \in Requests
  /\ gc \in {"off", "copy", "alloc"}
  /\ old_memory \in [Index -> Node] /\ forward \in [Index -> Index]
  /\ slot \in 1 .. Slots + 1
  /\ frames \in Seq(Frame)

(* A node whose references all lie below `top`. *)
Closed(node, top) ==
  node.next < top /\ (node.op = "LIST" => node.u < top)

(***************************************************************************)
(* No reference dangles: whenever the collector is not at work, every root *)
(* and every definition leads only to nodes that have been allocated.      *)
(***************************************************************************)
RefsLive ==
  gc # "copy" =>
    /\ \A r \in RootSet : root[r] < memoryindex
    /\ \A s \in Syms : symtab[s].body < memoryindex
    /\ \A i \in 0 .. memoryindex - 1 : Closed(memory[i], memoryindex)

(***************************************************************************)
(* "Definitions have already been copied" (copy_one): the definition space *)
(* refers only to itself, which is why the collector may leave it alone.   *)
(***************************************************************************)
DefinitionsClosed == \A i \in 0 .. mem_low - 1 : Closed(memory[i], mem_low)

(***************************************************************************)
(* Definitions are permanent: no step, a collection, a new definition or   *)
(* an error among them, changes or moves a node below mem_low.             *)
(***************************************************************************)
DefinitionsPermanent ==
  [][/\ mem_low' >= mem_low
     /\ \A i \in 0 .. mem_low - 1 : memory'[i] = memory[i]]_vars

(* The nodes in use fit into the memory that was allocated for them. *)
WithinCapacity == memoryindex <= memorymax

(* Variables are assigned values, and are never also defined by DEFINE. *)
Variables == {s \in VarSyms \ DefSyms : symtab[s].is_root /\ symtab[s].body # 0}

(***************************************************************************)
(* "Look in the symbol table for variables.  They also need to be garbage  *)
(* collected" (scan_roots): a collection leaves no variable behind.        *)
(***************************************************************************)
VariablesCollected ==
  gc # "copy" => \A s \in Variables : symtab[s].body < memoryindex

(***************************************************************************)
(* "copy all nodes that are used in definitions" (gc1): the body of every  *)
(* name defined at the top level lies below mem_low, where gc1 keeps it,   *)
(* once the definition has been read.                                      *)
(***************************************************************************)
BodiesAreDefinitions ==
  Idle => \A s \in (DefSyms \cup EmbedSyms) \ VarSyms : symtab[s].body < mem_low

=============================================================================
