----------------------------- MODULE Interpreter -----------------------------
(***************************************************************************)
(* Reading and executing terms: readterm (src/factor.c), exec_term         *)
(* (src/interp.c), the builtins of Combinators.tla, errors (src/error.c)   *)
(* and the two front ends (src/repl.c, src/joy.c).                         *)
(*                                                                         *)
(* A builtin is a C function that executes quotations and keeps what it    *)
(* still needs on the dumps.  `frames` is the C stack: the activations of  *)
(* readterm, exec_term, builtins and, outermost, the front end.            *)
(*                                                                         *)
(* Memory is that of NodeHeap as a program sees it: nodes have an identity *)
(* that collections preserve, and a collection drops the nodes that no     *)
(* root reaches.  Numbers are never given twice, so that a reference to a  *)
(* node that was dropped can be told.                                      *)
(***************************************************************************)
EXTENDS Combinators, SequencesExt

CONSTANTS
  Frontends,       \* what may execute: "repl", "joy_eval_string"
  Chunks,          \* what may be typed at each: balanced sequences of symbols
  MaxChunks,       \* bound: chunks typed altogether
  MaxSteps,        \* bound: nodes executed altogether
  Prelude,         \* the definitions: Prelude[s] is the body of name s
  LateDefinitions, \* definitions may also follow commands
  Autoput          \* env->config.autoput is 1, not 0

ASSUME InterpreterAssumption ==
  /\ MaxChunks \in Nat /\ MaxSteps \in Nat
  /\ LateDefinitions \in BOOLEAN /\ Autoput \in BOOLEAN
  /\ Frontends \subseteq {"repl", "joy_eval_string"}

Names == 1 .. Len(Prelude)

VARIABLES
  memory,   \* the nodes that exist
  born,     \* the next node
  root,     \* the registers
  body,     \* symtab: the body of each name, 0 when it has none
  library,  \* the nodes below mem_low
  frontend, \* the front end this process runs
  frames,   \* the C stack, innermost activation first
  defining, \* the name whose definition is being read, or 0
  defs,     \* definitions read so far
  line,     \* symbols typed and not yet read
  chunks,   \* chunks typed so far
  steps,    \* nodes executed so far
  text,     \* history: the symbols of this command
  before,   \* history: the stack, as values, when this command began
  aborted,  \* history: this command had an error, or executed a bad node
  failed    \* history: a command since the last definition did

store   == <<memory, born, root>>
session == <<body, library, defining, defs, frontend>>
typing  == <<line, chunks, text>>
verdict == <<aborted, failed>>
vars    == <<store, session, frames, typing, steps, before, verdict>>

-----------------------------------------------------------------------------
(* Nodes.  Node 0 is the bad node ILLEGAL_ that ends every list. *)

Cell(op, u, link) == [op |-> op, u |-> u, next |-> link]
Bad == Cell("ILLEGAL", 0, 0)

(* nodevalue(n).lis; that of another node is never followed. *)
Lis(n) == IF memory[n].op = "LIST" THEN memory[n].u ELSE 0

At(o) ==
  LET Follow[k \in 1 .. Len(o)] ==
        IF k = 1 THEN root[o[1]]
        ELSE IF o[k] = "lis" THEN Lis(Follow[k - 1]) ELSE memory[Follow[k - 1]].next
  IN  IF o = Nil THEN 0 ELSE Follow[Len(o)]

get_boolean(n) ==
  \/ memory[n].op \in {"USR", "ANON_FUNCT"}
  \/ memory[n].op \in {"INTEGER", "BOOLEAN", "LIST"} /\ memory[n].u # 0

(* The nodes of the list that begins at n, and its values. *)
Chain(n) ==
  LET Nodes[m \in DOMAIN memory] ==
        IF m = 0 THEN <<>> ELSE <<m>> \o Nodes[memory[m].next]
  IN  Nodes[n]

Denote(n) ==
  LET Values[m \in DOMAIN memory] ==
        IF m = 0 THEN <<>>
        ELSE << <<memory[m].op, IF memory[m].op = "LIST" THEN Values[memory[m].u]
                                ELSE memory[m].u>> >> \o Values[memory[m].next]
  IN  Values[n]

(* A chain of LIST_ nodes other than the last, each beginning with a list. *)
AllClauses(n) ==
  \A i \in 1 .. Len(Chain(n)) - 1 : memory[Lis(Chain(n)[i])].op = "LIST"

-----------------------------------------------------------------------------
(* gc1, scan_roots and copy: registers are roots; definitions, below       *)
(* mem_low, are kept and refer to no node above it.                        *)

Refs(n)   == {memory[n].next, Lis(n)}
RefsOf(s) == UNION {Refs(n) : n \in s}

ReachedFrom(registers) ==
  LET Grow[s \in SUBSET DOMAIN memory] ==
        LET t == s \cup ((RefsOf(s) \cap DOMAIN memory) \ library)
        IN  IF t = s THEN s ELSE Grow[t]
  IN  Grow[({root[r] : r \in registers} \cap DOMAIN memory) \ library]

ReachedNoDump1 == ReachedFrom(Registers \ {"dump1"})

Reached == ReachedFrom(Registers)

Keep(kept) == [n \in kept \cup library \cup {0} |-> memory[n]]

-----------------------------------------------------------------------------
(* What the builtins are made of. *)

Activation(fn, code) == [fn |-> fn, code |-> code, local |-> 0]
Top        == Head(frames)
In(fn)     == frames # <<>> /\ Top.fn = fn
Doing(op)  == frames # <<>> /\ Top.code # <<>> /\ Head(Top.code)[1] = op
Instr      == Head(Top.code)
Goto(code) == frames' = [frames EXCEPT ![1].code = code]
Advance    == Goto(Tail(Top.code))

(* l = v, in the memory mem. *)
Store(mem, l, v) ==
  IF Len(l) = 1
  THEN memory' = mem /\ root' = [root EXCEPT ![l[1]] = v]
  ELSE /\ memory' = [mem EXCEPT ![At(Front(l))] =
                       IF Last(l) = "lis" THEN [@ EXCEPT !.u = v] ELSE [@ EXCEPT !.next = v]]
       /\ UNCHANGED root

Extend(mem, cell) ==
  [n \in DOMAIN mem \cup {born} |-> IF n = born THEN cell ELSE mem[n]]

(* l = newnode(...) *)
New(mem, l, cell) == Store(Extend(mem, cell), l, born) /\ born' = born + 1

Holds(t) ==
  CASE t[1] = "node"    -> At(t[2]) # 0
    [] t[1] = "is"      -> memory[At(t[2])].op \in t[3]
    [] t[1] = "true"    -> get_boolean(At(t[2]))
    [] t[1] = "clauses" -> AllClauses(At(t[2]))
    [] t[1] = "local"   -> Top.local # 0
    [] OTHER            -> TRUE

Value(f) ==
  LET a == memory[At(stck)].u
  IN  CASE f = "null" -> <<"BOOLEAN", IF a = 0 THEN 1 ELSE 0>>
        [] f = "pred" -> <<"INTEGER", a - 1>>
        [] f = "+"    -> <<"INTEGER", memory[At(S(1))].u + a>>
        [] f = "i"    -> <<"INTEGER", Top.local>>
        [] OTHER      -> <<"BOOLEAN", Top.local>>

(* execerror: longjmp to the front end; the stack and the dumps stay. *)
execerror ==
  /\ frames' = <<>>
  /\ root' = IF frontend = "repl" THEN [root EXCEPT !.prog = 0] ELSE root
  /\ aborted' = TRUE /\ failed' = TRUE
  /\ UNCHANGED <<memory, born>>

(* exec_term(n), called by what remains of the C stack. *)
exec_term(mem, n, callers) ==
  IF n = 0
  THEN frames' = callers /\ memory' = mem /\ UNCHANGED <<born, root>>
  ELSE /\ frames' = <<Activation("exec_term", <<>>)>> \o callers
       /\ New(mem, Reg("conts"), Cell("LIST", n, root.conts))

-----------------------------------------------------------------------------
(* Instructions of the innermost builtin, one action each. *)

Executing == UNCHANGED <<session, typing, before>>
Quiet     == Executing /\ UNCHANGED <<steps, verdict>>

RequireStep ==
  /\ Doing("require") /\ Executing /\ UNCHANGED steps
  /\ IF \A t \in Instr[2] : Holds(t) THEN Advance /\ UNCHANGED <<store, verdict>>
     ELSE execerror

AssignStep ==
  /\ Doing("assign") /\ Quiet
  /\ Store(memory, Instr[2], At(Instr[3])) /\ UNCHANGED born /\ Advance

CopyStep ==
  /\ Doing("copy") /\ Quiet
  /\ LET node == memory[At(Instr[3])]
     IN  New(memory, Instr[2], [node EXCEPT !.next = At(Instr[4])])
  /\ Advance

ListStep ==
  /\ Doing("list") /\ Quiet
  /\ New(memory, Instr[2], Cell("LIST", At(Instr[3]), At(Instr[4]))) /\ Advance

NumberStep ==
  /\ Doing("number") /\ Quiet
  /\ New(memory, stck, Cell(Value(Instr[2])[1], Value(Instr[2])[2], At(Instr[3])))
  /\ Advance

(* Two nodes: the function, and the list of it on the stack. *)
FunctionStep ==
  /\ Doing("function") /\ Quiet /\ Advance
  /\ memory' = [n \in DOMAIN memory \cup {born, born + 1} |->
                  CASE n = born     -> Cell("ANON_FUNCT", Instr[2], 0)
                    [] n = born + 1 -> Cell("LIST", born, root.stck)
                    [] OTHER        -> memory[n]]
  /\ born' = born + 2 /\ root' = [root EXCEPT !.stck = born + 1]

ConsStep ==
  /\ Doing("cons") /\ Quiet /\ Advance
  /\ memory' = [n \in DOMAIN memory \cup {born, born + 1} |->
                  CASE n = born     -> [memory[At(S(1))] EXCEPT !.next = Lis(root.stck)]
                    [] n = born + 1 -> Cell("LIST", born, At(S(2)))
                    [] OTHER        -> memory[n]]
  /\ born' = born + 2 /\ root' = [root EXCEPT !.stck = born + 1]

ExecStep ==
  /\ Doing("exec") /\ Quiet
  /\ exec_term(memory, At(Instr[2]), [frames EXCEPT ![1].code = Tail(@)])

IfStep ==
  /\ Doing("if") /\ Quiet /\ UNCHANGED store
  /\ Goto((IF Holds(Instr[2]) THEN Instr[3] ELSE Instr[4]) \o Tail(Top.code))

LoopStep ==
  /\ Doing("loop") /\ Quiet /\ UNCHANGED store
  /\ IF Holds(Instr[2]) THEN Goto(Instr[3] \o Top.code) ELSE Advance

BreakStep ==
  /\ Doing("break") /\ Quiet /\ UNCHANGED store
  /\ LET loop == SelectInSeq(Top.code, LAMBDA instr : instr[1] = "loop")
     IN  Goto(SubSeq(Top.code, loop + 1, Len(Top.code)))

CallStep ==
  /\ Doing("call") /\ Quiet /\ UNCHANGED store
  /\ Goto(Static[Instr[2]] \o Tail(Top.code))

Local(n) == frames' = [frames EXCEPT ![1].code = Tail(@), ![1].local = n]

LocalStepSigned ==
  /\ Quiet /\ UNCHANGED store
  /\ \/ Doing("result") /\ Local(IF Holds(Instr[2]) THEN 1 ELSE 0)
     \/ Doing("setcount") /\ Local(memory[At(Instr[2])].u)
     \/ Doing("count") /\ Local(Top.local + Instr[2])

LocalStep ==
  /\ Quiet /\ UNCHANGED store
  /\ \/ Doing("result") /\ Local(IF Holds(Instr[2]) THEN 1 ELSE 0)
     \/ /\ Doing("setcount")
        /\ LET n == memory[At(Instr[2])].u IN Local(IF n > 0 THEN n ELSE 0)
     \/ Doing("count") /\ Local(Top.local + Instr[2])

Return ==
  /\ frames # <<>> /\ Top.fn \in {"builtin", frontend} /\ Top.code = <<>>
  /\ Quiet /\ UNCHANGED store /\ frames' = Tail(frames)

-----------------------------------------------------------------------------
(* The loop of exec_term.  The node p is taken off the program before it   *)
(* is executed; a program that is left lies on conts.                      *)

p     == Lis(root.conts)
Fetch == [memory EXCEPT ![root.conts].u = memory[p].next]

Fetched(op) ==
  /\ In("exec_term") /\ p # 0 /\ memory[p].op = op
  /\ steps < MaxSteps /\ steps' = steps + 1
  /\ Executing

Execute(op) == Fetched(op) /\ UNCHANGED verdict

EndProgram ==
  /\ In("exec_term") /\ p = 0 /\ Quiet
  /\ root' = [root EXCEPT !.conts = memory[@].next] /\ UNCHANGED <<memory, born>>
  /\ frames' = Tail(frames)

(* A bad node: a message, and a return that leaves conts as it is. *)
BadNode ==
  /\ Fetched("ILLEGAL")
  /\ memory' = Fetch /\ frames' = Tail(frames) /\ UNCHANGED <<born, root>>
  /\ aborted' = TRUE /\ failed' = TRUE

PushLiteralShared ==
  /\ \E op \in {"INTEGER", "BOOLEAN", "LIST"} : Execute(op)
  /\ memory' = [Fetch EXCEPT ![p].next = root.stck]
  /\ root' = [root EXCEPT !.stck = p] /\ UNCHANGED <<born, frames>>

PushLiteral ==
  /\ \E op \in {"INTEGER", "BOOLEAN", "LIST"} : Execute(op)
  /\ New(Fetch, stck, [memory[p] EXCEPT !.next = root.stck]) /\ UNCHANGED frames

CallBuiltin ==
  /\ Execute("ANON_FUNCT")
  /\ memory' = Fetch /\ UNCHANGED <<born, root>>
  /\ frames' = <<Activation("builtin", Builtin[memory[p].u])>> \o frames

SkipUndefined ==
  /\ Execute("USR") /\ body[memory[p].u] = 0
  /\ memory' = Fetch /\ UNCHANGED <<born, root, frames>>

TailCallNoPop ==
  /\ Execute("USR") /\ body[memory[p].u] # 0 /\ memory[p].next = 0
  /\ New(Fetch, Reg("conts"), Cell("LIST", body[memory[p].u], root.conts))
  /\ UNCHANGED frames

(* The last node of a program: the body takes the place of the program. *)
TailCall ==
  /\ Execute("USR") /\ body[memory[p].u] # 0 /\ memory[p].next = 0
  /\ New(Fetch, Reg("conts"), Cell("LIST", body[memory[p].u], memory[root.conts].next))
  /\ UNCHANGED frames

Subroutine ==
  /\ Execute("USR") /\ body[memory[p].u] # 0 /\ memory[p].next # 0
  /\ exec_term(Fetch, body[memory[p].u], frames)

-----------------------------------------------------------------------------
(* readterm.  Its `first` is the local variable, 0 while nothing was read. *)

Reading == In("readterm") /\ Top.code = <<>>
Quietly == UNCHANGED <<session, chunks, text, steps, before, verdict>>

(* readfactor: a node for the symbol, to be attached to the term. *)
ReadFactor ==
  /\ Reading /\ line # <<>> /\ Head(line)[1] \notin {"[", "]"} /\ Quietly
  /\ New(memory, stck, Cell(Head(line)[1], Head(line)[2], root.stck))
  /\ line' = Tail(line) /\ Goto(<< <<"attach">> >>)

ReadOpen ==
  /\ Reading /\ line # <<>> /\ Head(line)[1] = "[" /\ Quietly
  /\ New(memory, stck, Cell("LIST", 0, root.stck))
  /\ line' = Tail(line)
  /\ frames' = <<Activation("readterm", <<>>)>> \o
               [frames EXCEPT ![1].code = << <<"attach">> >>]

(* POP(env->dump) unless nothing was read. *)
EndOfTerm == IF Top.local = 1 THEN memory[root.dump].next ELSE root.dump

ReadClose ==
  /\ Reading /\ line # <<>> /\ Head(line)[1] = "]" /\ Quietly
  /\ root' = [root EXCEPT !.dump = EndOfTerm] /\ UNCHANGED <<memory, born>>
  /\ line' = Tail(line) /\ frames' = Tail(frames)

(* The first factor becomes the list; its end waits on the dump. *)
AttachFirst ==
  /\ Doing("attach") /\ Top.local = 0 /\ Quiet
  /\ LET factor == root.stck
         term   == memory[factor].next
     IN  /\ memory' = Extend([memory EXCEPT ![term].u = factor, ![factor].next = 0],
                             Cell("LIST", factor, root.dump))
         /\ root' = [root EXCEPT !.stck = term, !.dump = born]
  /\ born' = born + 1
  /\ frames' = [frames EXCEPT ![1].code = <<>>, ![1].local = 1]

AttachFurther ==
  /\ Doing("attach") /\ Top.local = 1 /\ Quiet
  /\ LET factor == root.stck
     IN  /\ memory' = [memory EXCEPT ![Lis(root.dump)].next = factor, ![factor].next = 0,
                                     ![root.dump].u = factor]
         /\ root' = [root EXCEPT !.stck = memory[factor].next]
  /\ UNCHANGED born /\ Goto(<<>>)

-----------------------------------------------------------------------------
(* The front ends. *)

Idle == frames = <<>>

StartTerm ==
  /\ Idle /\ chunks < MaxChunks /\ (LateDefinitions \/ defs = Len(Prelude))
  /\ New(memory, stck, Cell("LIST", 0, root.stck))
  /\ frames' = <<Activation("readterm", <<>>)>>
  /\ text' = <<>> /\ before' = Denote(root.stck) /\ aborted' = FALSE
  /\ UNCHANGED <<session, line, chunks, steps, failed>>

Type(c) ==
  /\ Reading /\ Len(frames) = 1 /\ line = <<>> /\ defining = 0 /\ chunks < MaxChunks
  /\ line' = c /\ text' = text \o c /\ chunks' = chunks + 1
  /\ UNCHANGED <<store, session, frames, steps, before, verdict>>

(* '.' was read.  joy_eval_string executes the term where it lies, and     *)
(* then removes what is on top.                                            *)
EndTerm ==
  /\ Reading /\ Len(frames) = 1 /\ line = <<>> /\ defining = 0 /\ text # <<>>
  /\ IF frontend = "repl"
     THEN /\ root' = [root EXCEPT !.dump = EndOfTerm, !.prog = Lis(root.stck),
                                  !.stck = memory[@].next, !.conts = 0]
          /\ frames' = <<Activation(frontend, <<Exec(Reg("prog")), <<"print">> >>)>>
     ELSE /\ root' = [root EXCEPT !.dump = EndOfTerm]
          /\ frames' = <<Activation(frontend, <<Exec(lis(stck)), POP(stck)>>)>>
  /\ UNCHANGED <<memory, born, session, typing, steps, before, verdict>>

(* print: with autoput, the top of the stack is written and removed. *)
PrintStep ==
  /\ Doing("print") /\ Quiet /\ Advance
  /\ root' = IF Autoput THEN [root EXCEPT !.stck = memory[@].next] ELSE root
  /\ UNCHANGED <<memory, born>>

(* inimem1 and the start of readterm.  prog is not reset. *)
StartDefinition ==
  /\ Idle /\ frontend = "repl" /\ defs < Len(Prelude) /\ (LateDefinitions \/ chunks = 0)
  /\ memory' = Extend(Keep({}), Cell("LIST", 0, 0)) /\ born' = born + 1
  /\ root' = [r \in Registers |-> CASE r = "prog" -> root.prog
                                     [] r = "stck" -> born
                                     [] OTHER      -> 0]
  /\ frames' = <<Activation("readterm", <<>>)>>
  /\ defs' = defs + 1 /\ defining' = defs + 1 /\ line' = Prelude[defs + 1]
  /\ aborted' = FALSE /\ failed' = FALSE
  /\ UNCHANGED <<body, library, frontend, chunks, text, steps, before>>

(* definition, and inimem2: all memory is definition space now. *)
EndDefinition ==
  /\ Reading /\ Len(frames) = 1 /\ line = <<>> /\ defining # 0
  /\ root' = [root EXCEPT !.dump = EndOfTerm, !.stck = memory[@].next]
  /\ body' = [body EXCEPT ![defining] = Lis(root.stck)]
  /\ library' = DOMAIN memory \ {0} /\ defining' = 0 /\ frames' = <<>>
  /\ UNCHANGED <<memory, born, defs, frontend, typing, steps, before, verdict>>

-----------------------------------------------------------------------------
(* A collection, when a node is about to be allocated and there is garbage. *)

Allocating ==
  IF Idle THEN TRUE
  ELSE IF Top.code # <<>>
       THEN Head(Top.code)[1] \in {"copy", "list", "function", "number", "cons", "exec",
                                   "attach"}
       ELSE Top.fn \in {"exec_term", "readterm"}

Collect ==
  /\ Allocating /\ defining = 0
  /\ Reached \cup library \cup {0} # DOMAIN memory
  /\ memory' = Keep(Reached)
  /\ UNCHANGED <<born, root, session, frames, typing, steps, before, verdict>>

-----------------------------------------------------------------------------
Init ==
  /\ memory = [n \in {0} |-> Bad] /\ born = 1
  /\ root = [r \in Registers |-> 0]
  /\ body = [s \in Names |-> 0] /\ library = {} /\ defining = 0 /\ defs = 0
  /\ frontend \in Frontends
  /\ frames = <<>> /\ line = <<>> /\ chunks = 0 /\ steps = 0
  /\ text = <<>> /\ before = <<>> /\ aborted = FALSE /\ failed = FALSE

Instruction ==
  \/ RequireStep \/ AssignStep \/ CopyStep \/ ListStep \/ NumberStep \/ FunctionStep
  \/ ConsStep \/ ExecStep \/ IfStep \/ LoopStep \/ BreakStep \/ CallStep \/ LocalStep
  \/ Return \/ PrintStep

Program ==
  \/ EndProgram \/ BadNode \/ PushLiteral \/ CallBuiltin \/ SkipUndefined \/ TailCall
  \/ Subroutine

Reader ==
  \/ ReadFactor \/ ReadOpen \/ ReadClose \/ AttachFirst \/ AttachFurther

Machine == Instruction \/ Program \/ Reader

User ==
  \/ StartTerm \/ (\E c \in Chunks[frontend] : Type(c)) \/ EndTerm \/ StartDefinition
  \/ EndDefinition

Next == Machine \/ User \/ Collect

Spec == Init /\ [][Next]_vars

(* What was typed is read and executed; nobody need type. *)
FairSpec == Spec /\ WF_vars(Machine)

-----------------------------------------------------------------------------
Payloads(op) == CASE op = "INTEGER"    -> Int
                  [] op = "BOOLEAN"    -> {0, 1}
                  [] op = "LIST"       -> Nat
                  [] op = "USR"        -> Names
                  [] op = "ANON_FUNCT" -> DOMAIN Builtin
                  [] op = "ILLEGAL"    -> {0}

(* The state has the types the actions rely on. *)
TypeOK ==
  /\ born \in Nat \ {0} /\ 0 \in DOMAIN memory /\ memory[0] = Bad
  /\ DOMAIN memory \subseteq 0 .. born - 1
  /\ \A n \in DOMAIN memory :
       /\ DOMAIN memory[n] = {"op", "u", "next"}
       /\ memory[n].u \in Payloads(memory[n].op) /\ memory[n].next \in Nat
  /\ root \in [Registers -> Nat] /\ body \in [Names -> Nat]
  /\ library \subseteq DOMAIN memory /\ defining \in {0} \cup Names
  /\ \A i \in 1 .. Len(frames) :
       /\ frames[i].fn \in {"readterm", "exec_term", "builtin", frontend}
       /\ frames[i].local \in Nat
  /\ aborted \in BOOLEAN /\ failed \in BOOLEAN

Running  == frames # <<>> /\ Last(frames).fn = frontend
Finished == In(frontend) /\ Len(Top.code) = 1     \* exec_term has returned

(* No register and no node ever refers to a node that a collection has     *)
(* dropped; prog is looked at only while it is executed (builtin/*.c keep  *)
(* all they need in registers, src/utils.c:scan_roots).                    *)
RefsLive ==
  /\ \A r \in Registers \ {"prog"} : root[r] \in DOMAIN memory
  /\ Running /\ frontend = "repl" => root.prog \in DOMAIN memory
  /\ \A s \in Names : body[s] \in DOMAIN memory
  /\ \A n \in DOMAIN memory : Refs(n) \subseteq DOMAIN memory

(* Every activation of exec_term, and nothing else, has its program on     *)
(* conts: subroutine calls, tail calls and empty programs push and pop it  *)
(* in step with the C stack (src/interp.c:exec_term), until the command     *)
(* executes a bad node.                                                    *)
ContsMatch ==
  Running /\ ~aborted /\ frontend = "repl" =>
    Len(Chain(root.conts)) = Cardinality({i \in DOMAIN frames : frames[i].fn = "exec_term"})

(* A command that raised no error leaves conts and the dumps empty, as     *)
(* repl tests after each (src/repl.c:73).                                  *)
DumpsEmpty ==
  Finished /\ ~failed =>
    \A r \in Registers \ {"stck", "prog"} : root[r] = 0

(* Nothing but values lies on the stack: a builtin never takes a result    *)
(* from an empty stack (src/interp.c:19).                                  *)
ValuesOnly == \A i \in 1 .. Len(Chain(root.stck)) : memory[Chain(root.stck)[i]].op # "ILLEGAL"

(* What was typed is read, executed and finished with. *)
Terminates == []<>(Idle \/ (Reading /\ line = <<>>))

=============================================================================
