----------------------------- MODULE Combinators -----------------------------
(***************************************************************************)
(* The builtins that move nodes and execute quotations, as programs over   *)
(* the macros of include/runtime.h and include/macros.h that they are      *)
(* written in.  A builtin is a sequence of instructions; Interpreter.tla   *)
(* says what an instruction does.  Programs carry the C names.             *)
(*                                                                         *)
(* An operand is a register followed by the links to take from it, so      *)
(* SAVED3, that is nextnode2(nodevalue(env->dump).lis), is                 *)
(* <<"dump", "lis", "next", "next">>.  An operand is also what can be      *)
(* assigned to.                                                            *)
(*                                                                         *)
(* The cases for sets, strings and the other aggregates are left out: they *)
(* hold no nodes.  BADAGGREGATE stands for them.                           *)
(***************************************************************************)
EXTENDS Integers, Sequences

Registers == {"stck", "prog", "conts", "dump", "dump1", "dump2", "dump3", "dump4"}

-----------------------------------------------------------------------------
(* Operands. *)

Reg(r)     == <<r>>
Nil        == <<>>
lis(o)     == Append(o, "lis")                        \* nodevalue(o).lis
next(o, k) == o \o [i \in 1 .. k |-> "next"]          \* nextnodek(o)

stck     == Reg("stck")
S(k)     == next(stck, k)                             \* k below the top
dump     == Reg("dump")
dump1    == Reg("dump1")
dump2    == Reg("dump2")
dump3    == Reg("dump3")
dump4    == Reg("dump4")
DMP1     == lis(dump1)
DMP2     == lis(dump2)
DMP3     == lis(dump3)
DMP4     == lis(dump4)
SAVED(k) == next(lis(dump), k - 1)
Quote(k) == lis(SAVED(k))                             \* nodevalue(SAVEDk).lis

(* Tests. *)
Node(o)    == <<"node", o>>                           \* o != 0
Is(o, ops) == <<"is", o, ops>>                        \* nodetype(o) is one of ops
True(o)    == <<"true", o>>                           \* get_boolean(o)
Clauses(o) == <<"clauses", o>>                        \* all but the last are lists
                                                      \* that begin with a list
RESULT     == <<"local", Nil>>                        \* the local variable, not 0
Forever    == <<"forever", Nil>>

Lists   == {"LIST"}
Numeric == {"INTEGER", "BOOLEAN"}

-----------------------------------------------------------------------------
(* Instructions.  A builtin has one local variable: `result`, `n` or       *)
(* `end_result`.                                                           *)

Require(t)     == <<"require", {t}>>                  \* execerror unless t
Assign(l, o)   == <<"assign", l, o>>                  \* l = o
Copy(l, o, n)  == <<"copy", l, o, n>>                 \* l = newnode2(o, n)
List(l, o, n)  == <<"list", l, o, n>>                 \* l = LIST_NEWNODE(o, n)
Function(f)    == <<"function", f>>                   \* stck = [f], on the stack
Number(f, n)   == <<"number", f, n>>                  \* stck = INTEGER_NEWNODE(f, n)
Exec(o)        == <<"exec", o>>                       \* exec_term(o)
If(t, yes, no) == <<"if", t, yes, no>>
Loop(t, p)     == <<"loop", t, p>>                    \* while (t) p
Break          == <<"break">>
Call(f)        == <<"call", f>>                       \* a static function
Result(t)      == <<"result", t>>                     \* result = t
Reset          == Result(Node(Nil))                   \* result = 0
SetCount(o)    == <<"setcount", o>>                   \* n = nodevalue(o).num, or 0
Count(d)       == <<"count", d>>                      \* n += d

POP(l)            == Assign(l, next(l, 1))
SAVESTACK         == List(dump, stck, dump)
GNULLARY(o)       == Copy(stck, o, stck)
GUNARY(o)         == Copy(stck, o, S(1))
GBINARY(o)        == Copy(stck, o, S(2))
GTERNARY(o)       == Copy(stck, o, S(3))
CHECKSTACK        == Require(Node(stck))
CHECKVALUE        == Require(Node(stck))
CHECKEMPTYLIST(o) == Require(Node(o))
BADAGGREGATE(o)   == Require(Is(o, Lists))

PARAMSOneMore(n, q) ==
  <<"require", {Node(S(n))} \cup {Is(S(k), Lists) : k \in 0 .. q - 1}>>

(* PARAMS(n, q): n parameters, the topmost q of them quotations. *)
PARAMS(n, q) ==
  <<"require", {Node(S(n - 1))} \cup {Is(S(k), Lists) : k \in 0 .. q - 1}>>

(* for (; l; l = nextnode1(l)) p *)
Each(l, p) == Loop(Node(l), Append(p, POP(l)))

(* for (i = 0; i < n; i++) p *)
Times(p) == Loop(RESULT, Append(p, Count(-1)))

(* A copy of o is appended to the list from DMP2 to DMP3. *)
Gather(o) ==
  If(Node(DMP2), <<Copy(next(DMP3, 1), o, Nil), POP(DMP3)>>,
                 <<Copy(DMP2, o, Nil), Assign(DMP3, DMP2)>>)

-----------------------------------------------------------------------------
(* src/builtin/stacks.c, aggregate.c, math.c *)

DIPPED(n, argument) ==
  <<PARAMS(n, 0), SAVESTACK, POP(stck)>> \o argument \o <<GNULLARY(SAVED(1)), POP(dump)>>

pop_  == <<PARAMS(1, 0), POP(stck)>>
dup_  == <<PARAMS(1, 0), GNULLARY(stck)>>
swap_ == <<PARAMS(2, 0), SAVESTACK, GBINARY(SAVED(1)), GNULLARY(SAVED(2)), POP(dump)>>
rolldown_ == <<PARAMS(3, 0), SAVESTACK, GTERNARY(SAVED(2)), GNULLARY(SAVED(1)),
               GNULLARY(SAVED(3)), POP(dump)>>
stack_   == <<List(stck, stck, stck)>>
unstack_ == <<PARAMS(1, 1), Assign(stck, lis(stck))>>
popd_    == DIPPED(2, pop_)
swapd_   == DIPPED(3, swap_)

first_  == <<PARAMS(1, 0), BADAGGREGATE(stck), CHECKEMPTYLIST(lis(stck)), GUNARY(lis(stck))>>
rest_   == <<PARAMS(1, 0), BADAGGREGATE(stck), CHECKEMPTYLIST(lis(stck)),
             List(stck, next(lis(stck), 1), S(1))>>
uncons_ == <<PARAMS(1, 0), BADAGGREGATE(stck), SAVESTACK, CHECKEMPTYLIST(Quote(1)),
             GUNARY(Quote(1)), List(stck, next(Quote(1), 1), stck), POP(dump)>>
null_   == <<PARAMS(1, 0), Require(Is(stck, Numeric \cup Lists)), Number("null", S(1))>>
pred_   == <<PARAMS(1, 0), Require(Is(stck, Numeric)), Number("pred", S(1))>>
plus_   == <<PARAMS(2, 0), Require(Is(stck, {"INTEGER"})), Require(Is(S(1), {"INTEGER"})),
             Number("+", S(2))>>

(* Two nodes: temp, the list, and the node that holds it. *)
cons_ == <<PARAMS(2, 0), BADAGGREGATE(stck), <<"cons">>>>

-----------------------------------------------------------------------------
(* src/builtin/control.c *)

branch_ == <<PARAMS(3, 2), SAVESTACK, Assign(stck, SAVED(4)),
             If(True(SAVED(3)), <<Exec(Quote(2))>>, <<Exec(Quote(1))>>), POP(dump)>>

choice_ == <<PARAMS(3, 0), If(True(S(2)), <<GTERNARY(S(1))>>, <<GTERNARY(stck)>>)>>

cond_ == <<PARAMS(1, 1), CHECKEMPTYLIST(lis(stck)), Require(Clauses(lis(stck))), SAVESTACK,
           Reset, List(dump1, lis(stck), dump1),
           Loop(Node(next(DMP1, 1)),
             <<Assign(stck, SAVED(2)), Exec(lis(lis(DMP1))), Result(True(stck)),
               If(RESULT, <<Break>>, <<>>), POP(DMP1)>>),
           Assign(stck, SAVED(2)),
           If(RESULT, <<Exec(next(lis(DMP1), 1))>>, <<Exec(lis(DMP1))>>),
           POP(dump1), POP(dump)>>

i_ == <<PARAMS(1, 1), SAVESTACK, POP(stck), Exec(Quote(1)), POP(dump)>>

ifte_ == <<PARAMS(3, 3), SAVESTACK, Assign(stck, SAVED(4)), Exec(Quote(3)),
           Result(True(stck)), Assign(stck, SAVED(4)),
           If(RESULT, <<Exec(Quote(2))>>, <<Exec(Quote(1))>>), POP(dump)>>

x_ == <<PARAMS(1, 1), Exec(lis(stck))>>

-----------------------------------------------------------------------------
(* src/builtin/n_ary.c *)

N_ARYUnchecked(n, top) ==
  <<PARAMS(n, 1), SAVESTACK, POP(stck), Exec(Quote(1)), Copy(stck, stck, top), POP(dump)>>

N_ARY(n, top) ==
  <<PARAMS(n, 1), SAVESTACK, POP(stck), Exec(Quote(1)), CHECKVALUE,
    Copy(stck, stck, top), POP(dump)>>

nullary_ == N_ARY(1, SAVED(2))
unary_   == N_ARY(2, SAVED(3))
binary_  == N_ARY(3, SAVED(4))
ternary_ == N_ARY(4, SAVED(5))

ToDump1 == Copy(dump1, stck, dump1)

unary2_ == <<PARAMS(3, 1), SAVESTACK,
             Assign(stck, next(SAVED(2), 1)), Exec(Quote(1)), ToDump1,
             Copy(stck, SAVED(2), next(SAVED(3), 1)), Exec(Quote(1)), ToDump1,
             Assign(stck, dump1), Assign(dump1, next(dump1, 2)),
             Assign(S(2), SAVED(4)), POP(dump)>>

unary3_ == <<PARAMS(4, 1), SAVESTACK,
             Assign(stck, next(SAVED(3), 1)), Exec(Quote(1)), ToDump1,
             Copy(stck, SAVED(3), next(SAVED(4), 1)), Exec(Quote(1)), ToDump1,
             Copy(stck, SAVED(2), next(SAVED(4), 1)), Exec(Quote(1)), ToDump1,
             Assign(stck, dump1), Assign(dump1, next(dump1, 3)),
             Assign(S(3), SAVED(5)), POP(dump)>>

unary4_ == <<PARAMS(5, 1), SAVESTACK,
             Assign(stck, next(SAVED(4), 1)), Exec(Quote(1)), ToDump1,
             Copy(stck, SAVED(4), next(SAVED(5), 1)), Exec(Quote(1)), ToDump1,
             Copy(stck, SAVED(3), next(SAVED(5), 1)), Exec(Quote(1)), ToDump1,
             Copy(stck, SAVED(2), next(SAVED(5), 1)), Exec(Quote(1)), ToDump1,
             Assign(stck, dump1), Assign(dump1, next(dump1, 4)),
             Assign(S(4), SAVED(6)), POP(dump)>>

-----------------------------------------------------------------------------
(* src/builtin/combinators.c, boolean.c *)

app1_  == <<PARAMS(2, 1), SAVESTACK, POP(stck), Exec(Quote(1)), POP(dump)>>
app11_ == <<PARAMS(3, 1)>> \o i_ \o popd_
app12_ == <<PARAMS(4, 0)>> \o unary2_ \o rolldown_ \o pop_

cleave_ == <<PARAMS(3, 2), SAVESTACK,
             Assign(stck, SAVED(3)), Exec(Quote(2)), ToDump1,
             Assign(stck, SAVED(3)), Exec(Quote(1)), ToDump1,
             Assign(stck, dump1), Assign(dump1, next(dump1, 2)),
             Assign(S(2), SAVED(4)), POP(dump)>>

construct_ == <<PARAMS(2, 2), SAVESTACK, Assign(stck, SAVED(3)),
                List(dump1, dump2, dump1), Assign(dump2, stck), Exec(Quote(2)),
                List(dump3, stck, dump3), List(dump4, Quote(1), dump4),
                Each(DMP4, <<Exec(lis(DMP4)), Copy(dump2, stck, dump2),
                             Assign(stck, DMP3)>>),
                POP(dump4), POP(dump3), Assign(stck, dump2), Assign(dump2, DMP1),
                POP(dump1), POP(dump)>>

dip_ == <<PARAMS(2, 1), SAVESTACK, Assign(stck, S(2)), Exec(Quote(1)),
          GNULLARY(SAVED(2)), POP(dump)>>

NewLists == <<List(dump1, Quote(2), dump1), List(dump2, Nil, dump2), List(dump3, Nil, dump3)>>
EndLists == <<List(stck, DMP2, SAVED(3)), POP(dump3), POP(dump2), POP(dump1), POP(dump)>>

filter_ == <<PARAMS(2, 1), SAVESTACK, BADAGGREGATE(SAVED(2))>> \o NewLists \o
           <<Each(DMP1, <<Copy(stck, DMP1, SAVED(3)), Exec(Quote(1)), CHECKSTACK,
                          If(True(stck), <<Gather(DMP1)>>, <<>>)>>)>> \o EndLists

infra_ == <<PARAMS(2, 1), Require(Is(S(1), Lists)), SAVESTACK, Assign(stck, Quote(2)),
            Exec(Quote(1)), List(stck, stck, SAVED(3)), POP(dump)>>

map_ == <<PARAMS(2, 1), SAVESTACK, BADAGGREGATE(SAVED(2))>> \o NewLists \o
        <<Each(DMP1, <<Copy(stck, DMP1, SAVED(3)), Exec(Quote(1)), CHECKSTACK,
                       Gather(stck)>>)>> \o EndLists

step_ == <<PARAMS(2, 1), SAVESTACK, Assign(stck, S(2)), BADAGGREGATE(SAVED(2)),
           List(dump1, Quote(2), dump1),
           Each(DMP1, <<GNULLARY(DMP1), Exec(Quote(1))>>), POP(dump1), POP(dump)>>

fold_ == <<PARAMS(3, 0)>> \o swapd_ \o step_

times_ == <<PARAMS(2, 1), Require(Is(S(1), {"INTEGER"})), SAVESTACK, Assign(stck, S(2)),
            SetCount(SAVED(2)), Times(<<Exec(Quote(1))>>), POP(dump)>>

while_ == <<PARAMS(2, 2), SAVESTACK,
            Loop(Forever, <<Assign(stck, SAVED(3)), Exec(Quote(2)), CHECKSTACK,
                            If(True(stck), <<>>, <<Break>>),
                            Assign(stck, SAVED(3)), Exec(Quote(1)),
                            Assign(SAVED(3), stck)>>),
            Assign(stck, SAVED(3)), POP(dump)>>

(* end_result is what the last test gave, INITIAL when there was none. *)
SOMEALL(initial, go_on, stop) ==
  <<PARAMS(2, 1), SAVESTACK, BADAGGREGATE(SAVED(2)), Reset, Count(initial),
    List(dump1, Quote(2), dump1),
    Each(DMP1, <<Copy(stck, DMP1, SAVED(3)), Exec(Quote(1)), CHECKSTACK,
                 Result(True(stck)), If(RESULT, go_on, stop)>>),
    POP(dump1), Number("local", SAVED(3)), POP(dump)>>

all_  == SOMEALL(1, <<>>, <<Break>>)
some_ == SOMEALL(0, <<Break>>, <<>>)

-----------------------------------------------------------------------------
(* src/builtin/recursion.c; the static functions are under Static, below. *)

EnterStack == List(dump1, stck, dump1)
LeaveStackSaved == <<Result(True(stck)), Assign(stck, DMP1)>>

LeaveStack == <<Result(True(stck)), Assign(stck, DMP1), POP(dump1)>>

binrecauxSwapped ==
  <<EnterStack, Exec(Quote(4))>> \o LeaveStack \o
  <<If(RESULT, <<Exec(Quote(3))>>,
      <<Exec(Quote(2)), Copy(dump2, stck, dump2), Call("binrecaux"),
        GNULLARY(dump2), POP(dump2), Call("binrecaux"), Exec(Quote(1))>>)>>

binrecaux ==
  <<EnterStack, Exec(Quote(4))>> \o LeaveStack \o
  <<If(RESULT, <<Exec(Quote(3))>>,
      <<Exec(Quote(2)), Copy(dump2, stck, dump2), POP(stck), Call("binrecaux"),
        GNULLARY(dump2), POP(dump2), Call("binrecaux"), Exec(Quote(1))>>)>>

binrec_ == <<PARAMS(4, 4), SAVESTACK, Assign(stck, SAVED(5)), Call("binrecaux"), POP(dump)>>

condnestrecaux ==
  <<Reset, List(dump1, Quote(1), dump1), List(dump2, stck, dump2),
    Loop(Node(next(DMP1, 1)),
      <<Assign(stck, DMP2), Exec(lis(lis(DMP1))), Result(True(stck)),
        If(RESULT, <<Break>>, <<>>), POP(DMP1)>>),
    Assign(stck, DMP2),
    If(RESULT, <<List(dump3, next(lis(DMP1), 1), dump3)>>, <<List(dump3, lis(DMP1), dump3)>>),
    Exec(lis(DMP3)), POP(DMP3),
    Each(DMP3, <<Call("condnestrecaux"), Exec(lis(DMP3))>>),
    POP(dump3), POP(dump2), POP(dump1)>>

condnestrec_ == <<PARAMS(1, 1), CHECKEMPTYLIST(lis(stck)), SAVESTACK, Assign(stck, SAVED(2)),
                  Call("condnestrecaux"), POP(dump)>>
condlinrec_  == condnestrec_

genrecaux_ ==
  <<SAVESTACK, POP(stck), Exec(lis(Quote(1))), CHECKSTACK, Result(True(stck)),
    Assign(stck, SAVED(2)),
    If(RESULT, <<Exec(lis(next(Quote(1), 1)))>>,
      <<Exec(lis(next(Quote(1), 2))), List(stck, Quote(1), stck), Function("genrecaux")>>
      \o cons_ \o <<Exec(next(Quote(1), 3))>>),
    POP(dump)>>

genrec_ == <<PARAMS(4, 4)>> \o cons_ \o cons_ \o cons_ \o genrecaux_

linrecaux ==
  <<EnterStack, Exec(Quote(4)), CHECKSTACK>> \o LeaveStack \o
  <<If(RESULT, <<Exec(Quote(3))>>,
      <<Exec(Quote(2)), Call("linrecaux"), Exec(Quote(1))>>)>>

linrec_ == <<PARAMS(4, 4), SAVESTACK, Assign(stck, SAVED(5)), Call("linrecaux"), POP(dump)>>

primrec_ ==
  <<PARAMS(3, 2), SAVESTACK, Assign(stck, S(3)), Reset,
    If(Is(SAVED(3), Lists),
      <<List(dump1, Quote(3), dump1), Each(DMP1, <<GNULLARY(DMP1), Count(1)>>), POP(dump1)>>,
      <<Require(Is(SAVED(3), {"INTEGER"})), SetCount(SAVED(3)),
        Loop(RESULT, <<Number("i", stck), Count(-1)>>), SetCount(SAVED(3))>>),
    Exec(Quote(2)), Times(<<Exec(Quote(1))>>), POP(dump)>>

tailrecaux ==
  <<Loop(Forever,
      <<EnterStack, Exec(Quote(3)), CHECKSTACK>> \o LeaveStack \o
      <<If(RESULT, <<Exec(Quote(2)), Break>>, <<Exec(Quote(1))>>)>>)>>

tailrec_ == <<PARAMS(3, 3), SAVESTACK, Assign(stck, SAVED(4))>> \o tailrecaux \o <<POP(dump)>>

treegenrecaux_ ==
  <<If(Is(S(1), Lists),
      <<SAVESTACK, POP(stck), Exec(lis(next(Quote(1), 1))), GNULLARY(SAVED(1)), POP(dump),
        Function("treegenrecaux")>> \o cons_ \o <<Exec(next(lis(lis(stck)), 2))>>,
      <<List(dump1, lis(stck), dump1), POP(stck), Exec(lis(DMP1)), POP(dump1)>>)>>

treegenrec_ == <<PARAMS(4, 3)>> \o cons_ \o cons_ \o treegenrecaux_

treerecaux_ ==
  <<If(Is(S(1), Lists),
      <<Function("treerecaux")>> \o cons_ \o <<Exec(next(lis(lis(stck)), 1))>>,
      <<List(dump1, lis(stck), dump1), POP(stck), Exec(lis(DMP1)), POP(dump1)>>)>>

treerec_ == <<PARAMS(3, 2)>> \o cons_ \o treerecaux_

treestepaux(item) ==
  <<If(Is(item, Lists),
      <<List(dump1, lis(item), dump1), Each(DMP1, <<Call("treestepaux")>>), POP(dump1)>>,
      <<GNULLARY(item), Exec(Quote(1))>>)>>

treestep_ == <<PARAMS(2, 1), SAVESTACK, Assign(stck, SAVED(3))>> \o treestepaux(SAVED(2))
             \o <<POP(dump)>>

-----------------------------------------------------------------------------
(* What nodevalue(p).proc may be. *)
Builtin ==
  [pop |-> pop_, dup |-> dup_, swap |-> swap_, rolldown |-> rolldown_, stack |-> stack_,
   unstack |-> unstack_, popd |-> popd_, swapd |-> swapd_, first |-> first_, rest |-> rest_,
   uncons |-> uncons_, null |-> null_, pred |-> pred_, plus |-> plus_, cons |-> cons_,
   branch |-> branch_, choice |-> choice_, cond |-> cond_, i |-> i_, ifte |-> ifte_,
   x |-> x_, nullary |-> nullary_, unary |-> unary_, binary |-> binary_,
   ternary |-> ternary_, unary2 |-> unary2_, unary3 |-> unary3_, unary4 |-> unary4_,
   app1 |-> app1_, app11 |-> app11_, app12 |-> app12_, cleave |-> cleave_,
   construct |-> construct_, dip |-> dip_, filter |-> filter_, infra |-> infra_,
   map |-> map_, step |-> step_, fold |-> fold_, times |-> times_, while |-> while_,
   all |-> all_, some |-> some_, binrec |-> binrec_, condnestrec |-> condnestrec_,
   condlinrec |-> condlinrec_, genrec |-> genrec_, genrecaux |-> genrecaux_,
   linrec |-> linrec_, primrec |-> primrec_, tailrec |-> tailrec_,
   treegenrec |-> treegenrec_, treegenrecaux |-> treegenrecaux_, treerec |-> treerec_,
   treerecaux |-> treerecaux_, treestep |-> treestep_]

Static == [binrecaux |-> binrecaux, condnestrecaux |-> condnestrecaux,
           linrecaux |-> linrecaux, treestepaux |-> treestepaux(DMP1)]

=============================================================================
