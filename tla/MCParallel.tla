----------------------------- MODULE MCParallel -----------------------------
(***************************************************************************)
(* The calls of the runs of Parallel.  Values are small integers, ASet for *)
(* a SET_ that has members, AText for a string that is not empty, and the  *)
(* negative zero.                                                          *)
(***************************************************************************)
EXTENDS ParallelCheck

CONSTANTS ASet, AText

MCMembers == (-1 .. 9) \cup {ASet, AText, NegativeZero}
MCQuots   == {"square", "half", "small", "pick", "plus", "same"}

MCTypeOf(v) ==
  CASE v = ASet         -> "SET_"
    [] v = AText        -> "STRING_"
    [] v = NegativeZero -> "FLOAT_"
    [] OTHER            -> "INTEGER_"

MCZero(v) == v = 0

Largest == 15   \* bound on the numbers that are added

MCOperands(q) == -1 .. Largest

(* square: dup *;  half: an error on odd numbers;  small: 2 <;  plus: +;    *)
(* pick: pop, which keeps the lower of two operands;  same: nothing.        *)
MCExec(q, s) ==
  CASE s = <<>>      -> Failed
    [] q = "same"    -> s
    [] q \in {"square", "half", "small"} /\ MCTypeOf(Head(s)) # "INTEGER_" -> Failed
    [] q = "square"  -> <<Head(s) * Head(s)>> \o Tail(s)
    [] q = "half"    -> IF Head(s) % 2 = 1 THEN Failed
                        ELSE <<Head(s) \div 2>> \o Tail(s)
    [] q = "small"   -> <<IF Head(s) < 2 THEN 1 ELSE 0>> \o Tail(s)
    [] q = "pick"    -> Tail(s)
    [] q = "plus"    -> IF Len(s) < 2 \/ -1 \in {Head(s), s[2]} \/ Head(s) + s[2] > Largest
                        THEN Failed
                        ELSE <<Head(s) + s[2]>> \o Tail(Tail(s))

Call(name, list, quots, depth, gcs) ==
  [name |-> name, list |-> list, quots |-> quots,
   below |-> <<7>>,
   depth |-> depth, gcs |-> gcs]

OrdinaryCalls ==
  { Call("pmap", l, <<q>>, 0, 2) :
      l \in {<<>>, <<1, 2>>, <<2, 1, 3, 0>>, <<2, 4, 6, 8, 0>>}, q \in {"square", "half"} }
  \cup
  { Call("pmap", <<3, 1, 2, 0>>, <<"square">>, 1, 1),
    Call("pmap", <<AText, 1, AText, ASet>>, <<"same">>, 0, 1) }
  \cup
  { Call("pfilter", l, <<q>>, 0, 0) :
      l \in {<<>>, <<1, 2, 0>>, <<2, 1, 3, 0>>}, q \in {"small", "half"} }
  \cup
  { Call("pfilter", <<0, ASet, 5, 0>>, <<"same">>, 0, 0) }
  \cup
  { Call("preduce", l, <<"plus">>, 0, 0) :
      l \in {<<>>, <<5>>, <<1, 2, 3>>, <<1, 2, 3, 4, 5>>, <<1, -1, 2, -1>>} }
  \cup
  { Call("preduce", l, <<"pick">>, 0, 0) : l \in {<<1, 2, 3>>, <<1, 2, 3, 4, 5>>} }
  \cup
  { Call("pfork", <<x, 7>>, <<p, q>>, 0, 0) : x \in {2, 3}, p \in {"square", "half"}, q \in {"half", "pick"} }
  \cup
  { Call("pfork", <<AText, 7>>, <<"same", "pick">>, 0, 0) }

(* They are what the theorem about the outcome asks of calls. *)
ASSUME ProperCalls == Defined = {} => \A c \in OrdinaryCalls : Proper(c)

(* Strings where their bytes are taken for a pointer, and collections that *)
(* make the indices in C locals stale: nothing is promised of the outcome. *)
OtherCalls ==
  { Call("pfilter", <<AText, NegativeZero, 5, 0>>, <<"same">>, 0, 0),
    Call("pfilter", <<1, 2, 3, 0>>, <<"small">>, 0, 1),
    Call("preduce", <<AText, 2, 3, AText>>, <<"pick">>, 0, 0),
    Call("preduce", <<1, 2, 3, 4>>, <<"plus">>, 0, 1),
    Call("pfork", <<2, 7>>, <<"square", "pick">>, 0, 1) }

PassingCalls == OrdinaryCalls \cup OtherCalls

NestedCalls == { Call("pmap", <<1, 2, 3, 0>>, <<"square">>, 1, 0) }
=============================================================================
