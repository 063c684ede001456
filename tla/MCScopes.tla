------------------------------ MODULE MCScopes ------------------------------
(***************************************************************************)
(* The programs that are read in the runs of Scopes.                       *)
(***************************************************************************)
EXTENDS ScopesCheck

CONSTANTS a, b, m, n    \* names of symbols, names of modules

MCNames == {a, b, m, n}

Item(kind, id, uses, private, public) ==
  [kind |-> kind, name |-> id, uses |-> uses, private |-> private, public |-> public]
Def(id, uses) == Item("definition", id, uses, <<>>, <<>>)
Section(private, public) == Item("section", NoName, <<>>, private, public)
Module(id, private, public) == Item("module", id, <<>>, private, public)
Library(public) == Item("library", NoName, <<>>, <<>>, public)
Term(uses) == Item("term", NoName, uses, <<>>, <<>>)

Defs == {Def(id, uses) : id \in {a, b}, uses \in {<<>>, << <<a>> >>, << <<b>> >>}}

(* Every name, as a command of its own. *)
Query == Term(<< <<a>>, <<b>>, <<m, a>>, <<m, b>>, <<n, a>> >>)

Section1 == {Section(<<d>>, <<e>>) : d \in Defs, e \in Defs}
Module1 == {Module(m, p, <<d>>) : p \in {<<>>} \cup {<<e>> : e \in Defs}, d \in Defs}
Library1 == {Library(<<d>>) : d \in Defs}

(* Two commands, one after the other. *)
Pairs == {<<x, y, Query>> : x \in Section1 \cup Module1 \cup Library1,
                            y \in Section1 \cup Module1 \cup Library1}

(* A section between the definitions of a LIBRA sequence. *)
SectionInLibrary ==
  {<<Library(xs), Query>> :
     xs \in {<<d, s>> : d \in Defs, s \in Section1} \cup {<<s, d>> : d \in Defs, s \in Section1}}

(* A section at the end of a module. *)
SectionInModule ==
  {<<Module(m, <<>>, <<d, s>>), Query>> : d \in Defs, s \in Section1}

(* A module in a module; no name in it is unknown. *)
ModuleInModule ==
  {<<Module(m, p, <<Module(n, <<>>, <<Def(a, u)>>), Def(b, v)>>), Query>> :
     p \in {<<>>, <<Def(b, <<>>)>>, <<Def(a, << <<a>> >>)>>},
     u \in {<<>>, << <<a>> >>}, v \in {<<>>, << <<b>> >>, << <<n, a>> >>}}

(* Any sequence of symbols. *)
Anything ==
  [1 .. 5 -> {Key(<<m>>)} \cup {Word(s)[1] : s \in {"LIBRA", "HIDE", "PRIVATE", "IN__", "MODULE_", "EQDEF", "."}}]

(* Three modules inside each other, a module without a name, and a module in a
   private part that defines the name that is private around it. *)
Nested == Word("MODULE_") \o <<Key(<<m>>)>>
Define(k) == <<Key(<<k>>)>> \o Word("EQDEF") \o Word("INTEGER_")
Failing ==
  {Nested \o Nested \o Nested \o Word("LIBRA") \o Define(a) \o Word("."),
   Nested \o Word("PUBLIC") \o Word("MODULE_") \o Word("INTEGER_") \o Word("PUBLIC")
     \o Define(a) \o Word(".") \o Word(";") \o Define(b) \o Word(".")
     \o Word("LIBRA") \o Define(a) \o Word(".") \o <<Key(<<a>>), Key(<<m, a>>)>> \o Word("."),
   Word("HIDE") \o Define(a) \o Word(";") \o Nested \o Word("LIBRA") \o Define(a) \o Word(".")
     \o Word("IN__") \o <<Key(<<b>>)>> \o Word("EQDEF") \o <<Key(<<a>>)>> \o Word(".")}

Lexical == Pairs \cup SectionInLibrary \cup SectionInModule \cup ModuleInModule

LexicalOrNot == Lexical \cup Anything \cup Failing
LexicalStructure == [p \in LexicalOrNot |-> IF p \in Lexical THEN p ELSE <<>>]
LexicalText == [p \in LexicalOrNot |-> IF p \in Lexical THEN Commands(p) ELSE p]
=============================================================================
