--------------------------- MODULE HeapRefinement ---------------------------
(***************************************************************************)
(* NodeHeap implements ValueStack.  A command takes many steps of NodeHeap *)
(* and one of ValueStack: the values the nodes stand for are looked at     *)
(* when a command has ended, and `shown` remembers them until the next one *)
(* has.  Each command must leave exactly what its stack effect promises,   *)
(* wherever collections happened on the way.                               *)
(***************************************************************************)
EXTENDS NodeHeap

VARIABLE shown   \* history: [stack, binding] after the last command

(* The values of the chains of nodes; d bounds the depth, so that a damaged *)
(* heap has a denotation too.                                              *)
Denote[d \in 0 .. 2 * MaxIndex] ==
  [n \in Index |->
     IF n = 0 THEN <<>>
     ELSE IF d = 0 THEN << <<"bad", n>> >>
     ELSE LET node  == memory[n]
              value == CASE node.op = "INTEGER" -> <<"num", node.u>>
                         [] node.op = "STRING"  -> <<"str", node.len>>
                         [] node.op = "LIST"    -> <<"list", Denote[d - 1][node.u]>>
                         [] OTHER               -> <<"bad", n>>
          IN <<value>> \o Denote[d - 1][node.next]]

Values(n) == Denote[2 * MaxIndex][n]

Visible == [stack   |-> Values(root.stck),
            binding |-> [s \in Syms |-> Values(symtab[s].body)]]

hvars == <<vars, shown>>

HInit == Init /\ shown = Visible
HNext == Next /\ shown' = IF Idle' THEN Visible' ELSE shown
HSpec == HInit /\ [][HNext]_hvars

Abstract == INSTANCE ValueStack
              WITH stack <- shown.stack, binding <- shown.binding

(***************************************************************************)
(* Every command has the stack effect its documentation promises, and      *)
(* executing a name pushes what it was last bound to: the collector and    *)
(* the resetting of memory are invisible to the program.                   *)
(***************************************************************************)
ImplementsValueStack == Abstract!Spec
=============================================================================
