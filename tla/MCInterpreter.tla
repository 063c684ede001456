---------------------------- MODULE MCInterpreter ----------------------------
(***************************************************************************)
(* What is typed in the runs of Interpreter, and what is defined.          *)
(***************************************************************************)
EXTENDS InterpreterCheck

N(i) == << <<"INTEGER", i>> >>
F(f) == << <<"ANON_FUNCT", f>> >>
U(s) == << <<"USR", s>> >>
Q(t) == << <<"[", 0>> >> \o t \o << <<"]", 0>> >>

NoPrelude == <<>>
Repl == {"repl"}
MCFrontends == {"repl", "joy_eval_string"}

(* Each builtin of stacks.c and aggregate.c, with its parameters. *)
Moves == {
  N(1) \o F("pop"),
  N(1) \o F("dup"),
  N(1) \o N(2) \o F("swap"),
  N(1) \o N(2) \o N(3) \o F("rolldown"),
  N(1) \o F("stack"),
  Q(N(1) \o N(2)) \o F("unstack"),
  N(1) \o N(2) \o F("popd"),
  N(1) \o N(2) \o N(3) \o F("swapd"),
  Q(N(1) \o N(2)) \o F("first"),
  Q(N(1) \o N(2)) \o F("rest"),
  Q(N(1) \o N(2)) \o F("uncons"),
  Q(<<>>) \o F("null"),
  N(1) \o F("pred"),
  N(1) \o N(2) \o F("plus"),
  N(1) \o Q(N(2)) \o F("cons"),
  N(0) \o N(2) \o N(3) \o F("choice")}

(* Each combinator that executes its quotations a fixed number of times. *)
Applications == {
  N(1) \o Q(N(2)) \o Q(N(3)) \o F("branch"),
  N(1) \o Q(Q(Q(F("null")) \o N(7)) \o Q(Q(F("pred") \o F("null")) \o N(8) \o F("dup")) \o Q(N(9))) \o F("cond"),
  N(2) \o Q(Q(Q(F("null")) \o N(7)) \o Q(Q(F("pred") \o F("null")) \o N(8) \o F("dup")) \o Q(N(9))) \o F("cond"),
  Q(N(1) \o F("dup")) \o F("i"),
  N(1) \o Q(F("null")) \o Q(N(2)) \o Q(F("pop")) \o F("ifte"),
  Q(F("pop") \o N(1)) \o F("x"),
  N(1) \o N(2) \o Q(F("plus")) \o F("nullary"),
  N(1) \o N(2) \o Q(F("plus")) \o F("unary"),
  N(1) \o N(2) \o Q(F("plus")) \o F("binary"),
  N(1) \o N(2) \o N(3) \o Q(F("plus") \o F("plus")) \o F("ternary"),
  N(1) \o N(2) \o Q(F("pred")) \o F("unary2"),
  N(1) \o N(2) \o N(3) \o Q(F("pred")) \o F("unary3"),
  N(1) \o N(2) \o N(3) \o N(4) \o Q(F("pred")) \o F("unary4"),
  N(1) \o Q(F("pred")) \o F("app1"),
  N(1) \o N(2) \o Q(F("pred")) \o F("app11"),
  N(1) \o N(2) \o N(3) \o Q(F("pred")) \o F("app12"),
  N(2) \o Q(F("pred")) \o Q(F("null")) \o F("cleave"),
  N(2) \o Q(F("dup")) \o Q(Q(F("pred")) \o Q(F("plus")) \o Q(F("pop") \o N(1))) \o F("construct"),
  N(1) \o N(2) \o Q(F("pred")) \o F("dip"),
  N(1) \o Q(N(2) \o N(3)) \o Q(F("plus") \o F("stack")) \o F("infra")}

(* Each combinator that repeats or recurses. *)
Repetitions == {
  Q(N(0) \o N(1)) \o Q(F("null")) \o F("filter"),
  N(1) \o Q(N(2) \o N(3)) \o Q(F("plus")) \o F("map"),
  N(1) \o Q(N(2) \o N(3)) \o Q(F("plus")) \o F("step"),
  Q(N(2) \o N(3)) \o N(0) \o Q(F("plus")) \o F("fold"),
  N(1) \o N(2) \o Q(F("dup")) \o F("times"),
  N(2) \o Q(F("null")) \o Q(F("pred")) \o F("while"),
  Q(N(1) \o N(0) \o N(1)) \o Q(F("null")) \o F("some"),
  Q(N(0) \o N(1) \o N(0)) \o Q(F("null")) \o F("all"),
  N(2) \o Q(F("null")) \o Q(F("pop") \o N(1)) \o Q(F("pred") \o F("dup")) \o Q(F("plus")) \o F("binrec"),
  N(2) \o Q(Q(Q(F("null")) \o Q(<<>>)) \o Q(Q(F("pred")) \o Q(<<>>) \o Q(F("dup")))) \o F("condnestrec"),
  N(2) \o Q(Q(Q(F("null")) \o Q(<<>>)) \o Q(Q(F("pred")) \o Q(F("pred") \o N(3) \o F("plus")))) \o F("condlinrec"),
  N(2) \o Q(F("null")) \o Q(<<>>) \o Q(F("dup") \o F("pred")) \o Q(F("i") \o F("plus")) \o F("genrec"),
  N(2) \o Q(F("null")) \o Q(<<>>) \o Q(F("dup") \o F("pred")) \o Q(F("plus")) \o F("linrec"),
  N(2) \o Q(N(1)) \o Q(F("plus")) \o F("primrec"),
  Q(N(2) \o N(3)) \o Q(N(1)) \o Q(F("plus")) \o F("primrec"),
  N(2) \o Q(F("null")) \o Q(F("pop") \o N(7)) \o Q(F("pred")) \o F("tailrec"),
  Q(N(1) \o Q(N(2))) \o Q(F("pred")) \o Q(<<>>) \o Q(F("map")) \o F("treegenrec"),
  Q(N(1) \o Q(N(2))) \o Q(F("pred")) \o Q(F("map")) \o F("treerec"),
  N(0) \o Q(N(1) \o Q(N(2))) \o Q(F("plus")) \o F("treestep")}

(* The stack, the dumps and memory are busy when a program t is executed.  *)
Inside(t) == {t, Q(t) \o F("nullary"), N(5) \o Q(t) \o F("dip"),
              Q(N(4)) \o Q(t) \o F("infra"), Q(N(6)) \o Q(t) \o F("cleave")}

(* The quotations of cleave leave nothing to copy; the bad nodes that cleave *)
(* leaves itself are executed through stack and i.                         *)
BadNodes == N(1) \o Q(F("pop")) \o Q(F("pop")) \o F("cleave") \o F("stack") \o F("i")

(* A count below zero is none. *)
NoTimes == N(4) \o N(-1) \o Q(F("pred")) \o F("times")

Combining == Applications \cup Repetitions
Builtins  == [f \in MCFrontends |->
                IF f = "repl" THEN {BadNodes, NoTimes} \cup Moves \cup UNION {Inside(t) : t \in Combining}
                ELSE {NoTimes} \cup Moves \cup Combining]

(* Quotations that use more or less of the stack than there is, on their   *)
(* own and inside others.                                                  *)
Nesting == {N(1), F("pop"), Q(F("pop")), F("i"), F("nullary"), F("infra")}

(* f1 counts down and calls itself last; f2 calls f1 and, before it is     *)
(* defined, f3; f3 runs on a list that is part of it.                      *)
Calls == <<F("dup") \o F("null") \o Q(F("pop")) \o Q(F("pred") \o U(1)) \o F("branch"),
           N(2) \o U(1) \o U(3) \o N(1),
           Q(N(0) \o N(1)) \o Q(F("null") \o F("dup")) \o F("infra")>>

Calling == {N(1), U(1), U(2), Q(U(1)), F("i")}

Programs == [f \in Repl |-> Nesting \cup Calling]

=============================================================================
