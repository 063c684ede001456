---------------------------- MODULE JoySemantics ----------------------------
(***************************************************************************)
(* What a program means, without memory, dumps or control stacks: a        *)
(* function from stacks to stacks.  A value is <<op, u>>, where u is the   *)
(* sequence of members when op is "LIST"; a stack and a program are        *)
(* sequences of values, the top of the stack first.                        *)
(*                                                                         *)
(* The clauses restate the comment above each builtin, in direct style:    *)
(* a quotation that is run on the side gets the stack as an argument, and  *)
(* nothing has to be put back.  They are what Interpreter.tla is compared  *)
(* with.                                                                   *)
(***************************************************************************)
EXTENDS Integers, Sequences

VARIABLE definitions   \* the symbols of the body of each name

(* The members of a sequence of balanced symbols. *)
RECURSIVE Parse(_)
Parse(symbols) ==
  IF symbols = <<>> THEN <<>>
  ELSE IF Head(symbols)[1] # "[" THEN <<Head(symbols)>> \o Parse(Tail(symbols))
  ELSE LET depth[i \in 0 .. Len(symbols)] ==
             IF i = 0 THEN 0
             ELSE depth[i - 1] + (CASE symbols[i][1] = "[" -> 1
                                    [] symbols[i][1] = "]" -> -1
                                    [] OTHER -> 0)
           close == CHOOSE i \in 1 .. Len(symbols) :
                      depth[i] = 0 /\ \A k \in 1 .. i - 1 : depth[k] > 0
       IN  << <<"LIST", Parse(SubSeq(symbols, 2, close - 1))>> >>
           \o Parse(SubSeq(symbols, close + 1, Len(symbols)))

Ok(s)  == [ok |-> TRUE, stack |-> s]
Error  == [ok |-> FALSE, stack |-> <<>>]

Integer(i)  == <<"INTEGER", i>>
Boolean(b)  == <<"BOOLEAN", IF b THEN 1 ELSE 0>>
ListOf(s)   == <<"LIST", s>>
Function(f) == <<"ANON_FUNCT", f>>
IsList(v)   == v[1] = "LIST"
IsTrue(v)   == CASE v[1] = "LIST"                 -> v[2] # <<>>
                 [] v[1] \in {"INTEGER", "BOOLEAN"} -> v[2] # 0
                 [] OTHER                         -> TRUE
TrueTop(s)  == s # <<>> /\ IsTrue(s[1])

From(s, k)  == SubSeq(s, k + 1, Len(s))     \* without the topmost k

RECURSIVE Run(_, _), Do(_, _), Apply(_, _), RunEach(_, _), Tops(_, _, _), Stepped(_, _, _),
          Mapped(_, _, _), Repeated(_, _, _), While(_, _, _), LinRec(_, _), TailRec(_, _),
          BinRec(_, _), CondRec(_, _), Interleaved(_, _, _), Leaves(_, _, _), Chosen(_, _)

(* Runs program q after what gave r. *)
Then(r, q) == IF r.ok THEN Run(q, r.stack) ELSE r

Run(q, s) == IF q = <<>> THEN Ok(s) ELSE Then(Do(Head(q), s), Tail(q))

Do(v, s) ==
  CASE v[1] = "USR"        -> Run(Parse(definitions[v[2]]), s)
    [] v[1] = "ANON_FUNCT" -> Apply(v[2], s)
    [] OTHER               -> Ok(<<v>> \o s)

(* The result of q on s is its top, put on the stack t. *)
TopOf(q, s, t) ==
  LET r == Run(q, s)
  IN  IF ~r.ok \/ r.stack = <<>> THEN Error ELSE Ok(<<r.stack[1]>> \o t)

(* The results of q on each of the stacks, on t, the last on top. *)
Tops(q, stacks, t) ==
  IF stacks = <<>> THEN Ok(t)
  ELSE LET r == TopOf(q, Head(stacks), t)
       IN  IF r.ok THEN Tops(q, Tail(stacks), r.stack) ELSE r

(* construct: the result of each program on s, on t. *)
RunEach(programs, st) ==
  IF programs = <<>> THEN Ok(st[2])
  ELSE LET r == TopOf(Head(programs)[2], st[1], st[2])
       IN  IF r.ok THEN RunEach(Tail(programs), <<st[1], r.stack>>) ELSE r

Stepped(members, q, s) ==
  IF members = <<>> THEN Ok(s)
  ELSE LET r == Run(q, <<Head(members)>> \o s)
       IN  IF r.ok THEN Stepped(Tail(members), q, r.stack) ELSE r

(* The results of q with each member on top of s; a failure is <<>>. *)
Mapped(members, q, s) ==
  IF members = <<>> THEN Ok(<<>>)
  ELSE LET r    == TopOf(q, <<Head(members)>> \o s, <<>>)
           more == Mapped(Tail(members), q, s)
       IN  IF ~r.ok \/ ~more.ok THEN Error ELSE Ok(r.stack \o more.stack)

Repeated(n, q, s) ==
  IF n <= 0 THEN Ok(s)
  ELSE LET r == Run(q, s) IN IF r.ok THEN Repeated(n - 1, q, r.stack) ELSE r

(* Whether test b holds on s: "error", TRUE or FALSE; an empty stack left  *)
(* by the test is an error when it must not be.                            *)
Test(b, s, strict) ==
  LET r == Run(b, s)
  IN  IF ~r.ok \/ (strict /\ r.stack = <<>>) THEN "error"
      ELSE IF TrueTop(r.stack) THEN "true" ELSE "false"

While(b, d, s) ==
  LET t == Test(b, s, TRUE)
      r == Run(d, s)
  IN  CASE t = "error" -> Error
        [] t = "false" -> Ok(s)
        [] OTHER       -> IF r.ok THEN While(b, d, r.stack) ELSE r

Branch(t, yes, no, s) ==
  CASE t = "error" -> Error
    [] t = "true"  -> Run(yes, s)
    [] OTHER       -> Run(no, s)

(* The recursive combinators: q holds the quotations, the first one first. *)
LinRec(q, s) ==
  LET t == Test(q[1], s, TRUE)
      r == Run(q[3], s)
  IN  CASE t = "error" -> Error
        [] t = "true"  -> Run(q[2], s)
        [] OTHER       -> IF ~r.ok THEN r ELSE Then(LinRec(q, r.stack), q[4])

TailRec(q, s) ==
  LET t == Test(q[1], s, TRUE)
      r == Run(q[3], s)
  IN  CASE t = "error" -> Error
        [] t = "true"  -> Run(q[2], s)
        [] OTHER       -> IF ~r.ok THEN r ELSE TailRec(q, r.stack)

BinRec(q, s) ==
  LET t == Test(q[1], s, FALSE)
      split == Run(q[3], s)
      one   == BinRec(q, Tail(split.stack))
      two   == BinRec(q, <<split.stack[1]>> \o one.stack)
  IN  CASE t = "error" -> Error
        [] t = "true"  -> Run(q[2], s)
        [] ~split.ok   -> split
        [] split.stack = <<>> -> Error
        [] ~one.ok     -> one
        [] OTHER       -> Then(two, q[4])

(* The part to run of the first clause whose test holds, or of the last. *)
Chosen(clauses, s) ==
  IF Len(clauses) = 1 THEN Ok(clauses[1][2])
  ELSE LET t == Test(Head(clauses)[2][1][2], s, FALSE)
       IN  CASE t = "error" -> Error
             [] t = "true"  -> Ok(Tail(Head(clauses)[2]))
             [] OTHER       -> Chosen(Tail(clauses), s)

Interleaved(parts, clauses, s) ==
  LET r == Run(Head(parts)[2], s)
      inner == CondRec(clauses, r.stack)
  IN  IF ~r.ok THEN r
      ELSE IF Len(parts) = 1 THEN r
      ELSE IF ~inner.ok THEN inner
      ELSE Interleaved(Tail(parts), clauses, inner.stack)

CondRec(clauses, s) ==
  LET c == Chosen(clauses, s)
  IN  IF ~c.ok THEN Error
      ELSE IF c.stack = <<>> THEN Ok(s) ELSE Interleaved(c.stack, clauses, s)

Leaves(v, q, s) ==
  IF ~IsList(v) THEN Run(q, <<v>> \o s)
  ELSE IF v[2] = <<>> THEN Ok(s)
  ELSE LET r == Leaves(v[2][1], q, s)
       IN  IF r.ok THEN Leaves(ListOf(Tail(v[2])), q, r.stack) ELSE r

(* X [Q] runs q on the stack, then puts the value v on it. *)
On(r, v) == IF r.ok THEN Ok(<<v>> \o r.stack) ELSE r

-----------------------------------------------------------------------------
(* Builtins: how many parameters, how many of the topmost are quotations,  *)
(* what else they must be, and what they do with them.                     *)

Quotations(s, n, q) == Len(s) >= n /\ \A i \in 1 .. q : IsList(s[i])

Arity ==
  [pop |-> <<1, 0>>, dup |-> <<1, 0>>, swap |-> <<2, 0>>, rolldown |-> <<3, 0>>,
   stack |-> <<0, 0>>, unstack |-> <<1, 1>>, popd |-> <<2, 0>>, swapd |-> <<3, 0>>,
   first |-> <<1, 1>>, rest |-> <<1, 1>>, uncons |-> <<1, 1>>, null |-> <<1, 0>>,
   pred |-> <<1, 0>>, plus |-> <<2, 0>>, cons |-> <<2, 1>>, branch |-> <<3, 2>>,
   choice |-> <<3, 0>>, cond |-> <<1, 1>>, i |-> <<1, 1>>, ifte |-> <<3, 3>>,
   x |-> <<1, 1>>, nullary |-> <<1, 1>>, unary |-> <<2, 1>>, binary |-> <<3, 1>>,
   ternary |-> <<4, 1>>, unary2 |-> <<3, 1>>, unary3 |-> <<4, 1>>, unary4 |-> <<5, 1>>,
   app1 |-> <<2, 1>>, app11 |-> <<3, 1>>, app12 |-> <<4, 1>>, cleave |-> <<3, 2>>,
   construct |-> <<2, 2>>, dip |-> <<2, 1>>, filter |-> <<2, 2>>, infra |-> <<2, 2>>,
   map |-> <<2, 2>>, step |-> <<2, 2>>, fold |-> <<3, 1>>, times |-> <<2, 1>>,
   while |-> <<2, 2>>, all |-> <<2, 2>>, some |-> <<2, 2>>, binrec |-> <<4, 4>>,
   condnestrec |-> <<1, 1>>, condlinrec |-> <<1, 1>>, genrec |-> <<4, 4>>,
   genrecaux |-> <<1, 1>>, linrec |-> <<4, 4>>, primrec |-> <<3, 2>>,
   tailrec |-> <<3, 3>>, treegenrec |-> <<4, 3>>, treegenrecaux |-> <<2, 1>>,
   treerec |-> <<3, 2>>, treerecaux |-> <<2, 1>>, treestep |-> <<2, 1>>]

Numeric(v) == v[1] \in {"INTEGER", "BOOLEAN"}

Proper(f, s) ==
  CASE f \in {"first", "rest", "uncons", "cond", "condnestrec", "condlinrec"} -> s[1][2] # <<>>
    [] f = "pred"  -> Numeric(s[1])
    [] f = "null"  -> Numeric(s[1]) \/ IsList(s[1])
    [] f = "plus"  -> s[1][1] = "INTEGER" /\ s[2][1] = "INTEGER"
    [] f = "times" -> s[2][1] = "INTEGER"
    [] f = "fold"  -> IsList(s[3])
    [] f = "primrec" -> IsList(s[3]) \/ s[3][1] = "INTEGER"
    [] OTHER -> TRUE

Apply(f, s) ==
  LET a  == s[1][2]                 \* the contents of the topmost parameters
      b  == s[2][2]
      c  == s[3][2]
      d  == s[4][2]
      s1 == From(s, 1)
      s2 == From(s, 2)
      s3 == From(s, 3)
      s4 == From(s, 4)
  IN
  IF ~Quotations(s, Arity[f][1], Arity[f][2]) THEN Error
  ELSE IF ~Proper(f, s) THEN Error
  ELSE
  CASE f = "pop"      -> Ok(s1)
    [] f = "dup"      -> Ok(<<s[1]>> \o s)
    [] f = "swap"     -> Ok(<<s[2], s[1]>> \o s2)
    [] f = "rolldown" -> Ok(<<s[3], s[1], s[2]>> \o s3)
    [] f = "stack"    -> Ok(<<ListOf(s)>> \o s)
    [] f = "unstack"  -> Ok(a)
    [] f = "popd"     -> Ok(<<s[1]>> \o s2)
    [] f = "swapd"    -> Ok(<<s[1], s[3], s[2]>> \o s3)
    [] f = "first"    -> Ok(<<a[1]>> \o s1)
    [] f = "rest"     -> Ok(<<ListOf(Tail(a))>> \o s1)
    [] f = "uncons"   -> Ok(<<ListOf(Tail(a)), a[1]>> \o s1)
    [] f = "null"     -> Ok(<<Boolean(~IsTrue(s[1]))>> \o s1)
    [] f = "pred"     -> Ok(<<Integer(a - 1)>> \o s1)
    [] f = "plus"     -> Ok(<<Integer(b + a)>> \o s2)
    [] f = "cons"     -> Ok(<<ListOf(<<s[2]>> \o a)>> \o s2)
    [] f = "branch"   -> Run(IF IsTrue(s[3]) THEN b ELSE a, s3)
    [] f = "choice"   -> Ok(<<IF IsTrue(s[3]) THEN s[2] ELSE s[1]>> \o s3)
    [] f = "cond"     -> LET r == Chosen(a, s1) IN IF r.ok THEN Run(r.stack, s1) ELSE r
    [] f \in {"i", "app1"} -> Run(a, s1)
    [] f = "ifte"     -> Branch(Test(c, s3, FALSE), b, a, s3)
    [] f = "x"        -> Run(a, s)
    [] f = "nullary"  -> TopOf(a, s1, s1)
    [] f = "unary"    -> TopOf(a, s1, s2)
    [] f = "binary"   -> TopOf(a, s1, s3)
    [] f = "ternary"  -> TopOf(a, s1, s4)
    [] f = "unary2"   -> Tops(a, <<From(s, 2), <<s[2]>> \o s3>>, s3)
    [] f = "unary3"   -> Tops(a, <<s3, <<s[3]>> \o s4, <<s[2]>> \o s4>>, s4)
    [] f = "unary4"   -> LET s5 == From(s, 5)
                         IN  Tops(a, <<s4, <<s[4]>> \o s5, <<s[3]>> \o s5, <<s[2]>> \o s5>>, s5)
    [] f = "app11"    -> LET r == Run(a, s1)
                         IN  IF ~r.ok \/ Len(r.stack) < 2 THEN Error
                             ELSE Ok(<<r.stack[1]>> \o From(r.stack, 2))
    [] f = "app12"    -> Tops(a, <<s2, <<s[2]>> \o s3>>, s4)
    [] f = "cleave"   -> LET r == TopOf(b, s2, s3)
                         IN  IF r.ok THEN TopOf(a, s2, r.stack) ELSE r
    [] f = "construct" -> LET r == Run(b, s2)
                          IN  IF r.ok THEN RunEach(a, <<r.stack, s2>>) ELSE r
    [] f = "dip"      -> On(Run(a, s2), s[2])
    [] f = "filter"   ->
         LET kept[k \in 0 .. Len(b)] ==
               IF k = 0 THEN Ok(<<>>)
               ELSE LET t == Test(a, <<b[k]>> \o s2, TRUE)
                    IN  CASE ~kept[k - 1].ok \/ t = "error" -> Error
                          [] t = "true" -> Ok(Append(kept[k - 1].stack, b[k]))
                          [] OTHER      -> kept[k - 1]
         IN  IF kept[Len(b)].ok THEN Ok(<<ListOf(kept[Len(b)].stack)>> \o s2) ELSE Error
    [] f = "infra"    -> LET r == Run(a, b)
                         IN  IF r.ok THEN Ok(<<ListOf(r.stack)>> \o s2) ELSE r
    [] f = "map"      -> LET r == Mapped(b, a, s2)
                         IN  IF r.ok THEN Ok(<<ListOf(r.stack)>> \o s2) ELSE r
    [] f = "step"     -> Stepped(b, a, s2)
    [] f = "fold"     -> Stepped(c, a, <<s[2]>> \o s3)
    [] f = "times"    -> Repeated(b, a, s2)
    [] f = "while"    -> While(b, a, s2)
    [] f \in {"all", "some"} ->
         LET stop == IF f = "all" THEN "false" ELSE "true"
             test(k) == Test(a, <<b[k]>> \o s2, TRUE)
             ends == {k \in 1 .. Len(b) : test(k) \in {stop, "error"}}
             end  == CHOOSE k \in ends : \A m \in ends : k <= m
         IN  IF ends # {} /\ test(end) = "error" THEN Error
             ELSE Ok(<<Boolean((ends = {}) = (f = "all"))>> \o s2)
    [] f = "linrec"   -> LinRec(<<d, c, b, a>>, s4)
    [] f = "tailrec"  -> TailRec(<<c, b, a>>, s3)
    [] f = "binrec"   -> BinRec(<<d, c, b, a>>, s4)
    [] f \in {"condnestrec", "condlinrec"} -> CondRec(a, s1)
    [] f = "genrec"   -> Apply("genrecaux", <<ListOf(<<s[4], s[3], s[2]>> \o a)>> \o s4)
    [] f = "genrecaux" ->
         LET r == Run(a[3][2], s1)
             again == ListOf(<<s[1], Function("genrecaux")>>)
         IN  CASE Test(a[1][2], s1, TRUE) = "error" -> Error
               [] Test(a[1][2], s1, TRUE) = "true"  -> Run(a[2][2], s1)
               [] OTHER -> Then(On(r, again), From(a, 3))
    [] f = "primrec"  ->
         LET count == IF IsList(s[3]) THEN Len(c) ELSE c
             pushed == IF IsList(s[3]) THEN [k \in 1 .. count |-> c[count + 1 - k]]
                       ELSE [k \in 1 .. count |-> Integer(k)]
             r == Run(b, pushed \o s3)
         IN  IF r.ok THEN Repeated(count, a, r.stack) ELSE r
    [] f = "treegenrec" -> Apply("treegenrecaux", <<ListOf(<<s[3], s[2]>> \o a)>> \o s3)
    [] f = "treegenrecaux" ->
         LET r == Run(a[2][2], s1)
             again == ListOf(<<s[1], Function("treegenrecaux")>>)
         IN  IF IsList(s[2]) THEN Then(On(r, again), From(a, 2)) ELSE Run(a[1][2], s1)
    [] f = "treerec"  -> Apply("treerecaux", <<ListOf(<<s[2]>> \o a)>> \o s2)
    [] f = "treerecaux" ->
         IF IsList(s[2]) THEN Run(Tail(a), <<ListOf(<<s[1], Function("treerecaux")>>)>> \o s1)
         ELSE Run(a[1][2], s1)
    [] f = "treestep" -> Leaves(s[2], a, s2)

=============================================================================
