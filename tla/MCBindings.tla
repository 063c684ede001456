------------------------------ MODULE MCBindings ------------------------------
(***************************************************************************)
(* Names, values and patterns for the run of Bindings.                     *)
(***************************************************************************)
EXTENDS Bindings

MCNames    == {"a", "b"}
MCLiterals == {ListOf(<<Integer(1), ListOf(<<>>)>>)}
MCValues   == MCLiterals \cup {Boolean(FALSE), Integer(1), ListOf(<<>>), ListOf(<<ListOf(<<>>)>>)}

A == Usr("a")
B == Usr("b")

(* A name that occurs twice, and a term that is no name. *)
MCNameLists == {<<A, A>>, <<A, Integer(1)>>}

Pattern(ps) == <<ListOf(ps)>>
MCQuotations ==
  {<<>>, <<Integer(0)>>, Pattern(<<A, Colon, B>>), Pattern(<<B, B>>),
   Pattern(<<A, B, Colon, A>>), Pattern(<<A, Colon>>),
   Pattern(<<Wildcard, Wildcard, Wildcard, Colon, A>>)}

Case(q) == [wellformed |-> TRUE, pattern |-> q]
MCCaseLists ==
  {<<Case(<<Integer(0)>>), Case(<<A>>)>>,
   <<Case(Pattern(<<>>)), Case(Pattern(<<Wildcard, ListOf(<<>>)>>))>>,
   <<[wellformed |-> FALSE, pattern |-> <<>>]>>}
==============================================================================
