----------------------------- MODULE ValueStack -----------------------------
(***************************************************************************)
(* What the node memory promises a Joy program: a stack of immutable       *)
(* values and a table of names bound to values, on which the builtins act  *)
(* as their stack effects say (doc comments of stacks.c and aggregate.c).  *)
(* Nothing here knows of nodes, capacity or garbage collection.            *)
(***************************************************************************)
EXTENDS Naturals, Sequences

CONSTANTS Nums, StrLens, Syms, DefSyms, EmbedSyms, VarSyms, Builtins

VARIABLES stack,    \* the values on the stack, top first
          binding   \* per name: what executing it pushes, as a sequence

Num(v) == <<"num", v>>
Str(k) == <<"str", k>>
Lst(q) == <<"list", q>>

Drop(k) == SubSeq(stack, k + 1, Len(stack))

Init == stack = <<>> /\ binding = [s \in Syms |-> <<>>]

Becomes(q) == stack' = q /\ UNCHANGED binding

Push(v) == Becomes(<<v>> \o stack)

Effect(b) ==
  \/ b = "dup"    /\ Len(stack) > 0 /\ Push(stack[1])
  \/ b = "over"   /\ Len(stack) > 1 /\ Push(stack[2])
  \/ b = "pop"    /\ Len(stack) > 0 /\ Becomes(Drop(1))
  \/ b = "swap"   /\ Len(stack) > 1 /\ Becomes(<<stack[2], stack[1]>> \o Drop(2))
  \/ b = "rotate" /\ Len(stack) > 2
                  /\ Becomes(<<stack[3], stack[2], stack[1]>> \o Drop(3))
  \/ b = "stack"  /\ Push(Lst(stack))
  \/ b = "list"   /\ Push(Lst(<<>>))
  \/ b \in {"cons", "uncons", "unstack"} /\ Len(stack) > 0 /\ stack[1][1] = "list"
     /\ LET q == stack[1][2] IN
        \/ b = "cons"    /\ Len(stack) > 1 /\ Becomes(<<Lst(<<stack[2]>> \o q)>> \o Drop(2))
        \/ b = "uncons"  /\ q # <<>> /\ Becomes(<<Lst(Tail(q)), Head(q)>> \o Drop(1))
        \/ b = "unstack" /\ Becomes(q)

Assign(s) ==
  /\ stack # <<>>
  /\ binding' = [binding EXCEPT ![s] = <<stack[1]>>]
  /\ stack' = Drop(1)

Unassign(s) == binding' = [binding EXCEPT ![s] = <<>>] /\ UNCHANGED stack

Eval(s) == binding[s] # <<>> /\ Becomes(binding[s] \o stack)

(* A definition at the top level starts from an empty stack. *)
Bind(s, v)        == binding' = [binding EXCEPT ![s] = <<v>>]
Define(s, v)      == Bind(s, v) /\ stack' = <<>>
EmbedDefine(s, v) == Bind(s, v) /\ UNCHANGED stack

Bodies == {Num(v) : v \in Nums} \cup {Lst(<<Num(v)>>) : v \in Nums}

Next ==
  \/ \E v \in Nums : Push(Num(v))
  \/ \E k \in StrLens : Push(Str(k))
  \/ \E b \in Builtins : Effect(b)
  \/ \E s \in VarSyms : Assign(s) \/ Unassign(s)
  \/ \E s \in Syms : Eval(s)
  \/ \E s \in DefSyms, v \in Bodies : Define(s, v)
  \/ \E s \in EmbedSyms, v \in Bodies : EmbedDefine(s, v)

Spec == Init /\ [][Next]_<<stack, binding>>
=============================================================================
