---------------------------- MODULE ScopesCheck ----------------------------
(***************************************************************************)
(* What names refer to by the structure of a program, compared with what   *)
(* Scopes makes of its tokens.                                             *)
(*                                                                         *)
(* An item is a definition, a section with a private and a public part, or *)
(* a module, which may begin with a private part; a command is an item     *)
(* that stands alone, a LIBRA sequence or a term that is executed.         *)
(***************************************************************************)
EXTENDS Scopes

CONSTANTS Structure    \* of each program, or <<>> for one that ends in an error

-----------------------------------------------------------------------------
(* The tokens of a program. *)
RECURSIVE Written(_), Listed(_)

Key(k) == [sym |-> "USR_", str |-> k]
Word(s) == << [sym |-> s, str |-> <<>>] >>
Uses(ks) == [i \in DOMAIN ks |-> Key(ks[i])]

Written(x) ==
  CASE x.kind = "definition" -> <<Key(<<x.name>>)>> \o Word("EQDEF") \o Uses(x.uses)
    [] x.kind = "section" -> Word("HIDE") \o Listed(x.private) \o Word("IN__")
                               \o Listed(x.public) \o Word(".")
    [] x.kind = "module" -> Word("MODULE_") \o <<Key(<<x.name>>)>>
                              \o (IF x.private = <<>> THEN <<>>
                                  ELSE Word("PRIVATE") \o Listed(x.private))
                              \o Word("PUBLIC") \o Listed(x.public) \o Word(".")
    [] x.kind = "library" -> Word("LIBRA") \o Listed(x.public) \o Word(".")
    [] x.kind = "term" -> Uses(x.uses) \o Word(".")

Listed(xs) ==
  IF Len(xs) = 1 THEN Written(xs[1])
  ELSE Written(xs[1]) \o Word(";") \o Listed(Tail(xs))

RECURSIVE Commands(_)
Commands(xs) == IF xs = <<>> THEN <<>> ELSE Written(Head(xs)) \o Commands(Tail(xs))

-----------------------------------------------------------------------------
(* Lexical scope.  A scope has the open sections, the innermost first, each
   with its number and its private names; the module with its public names;
   and the members of other modules that are visible. *)
RECURSIVE PublicNames(_), InOrder(_, _, _, _), SectionCount(_)

(* The names a list of items defines for its surroundings. *)
PublicNames(xs) ==
  UNION {CASE xs[i].kind = "definition" -> {xs[i].name}
           [] xs[i].kind = "section" -> PublicNames(xs[i].public)
           [] OTHER -> {} : i \in DOMAIN xs}

Binding(k, scope) ==
  LET open == {i \in DOMAIN scope.sections : k[1] \in scope.sections[i].names}
  IN IF HasPrefix(k) THEN IF k \in scope.members THEN <<k>> ELSE <<>>
     ELSE IF open # {}
     THEN LET i == CHOOSE i \in open : \A j \in open : i <= j
          IN << <<scope.sections[i].number, k[1]>> >>
     ELSE IF k[1] \in scope.public THEN << <<scope.module, k[1]>> >>
     ELSE <<k>>

RECURSIVE Bound(_, _)
Bound(ks, scope) ==
  IF ks = <<>> THEN <<>> ELSE Binding(Head(ks), scope) \o Bound(Tail(ks), scope)

SectionCount(xs) ==
  IF xs = <<>> THEN 0
  ELSE LET x == Head(xs)
           own == CASE x.kind \in {"definition", "term"} -> 0
                    [] x.kind = "section" -> 1 + SectionCount(x.private) + SectionCount(x.public)
                    [] x.kind = "module" -> (IF x.private = <<>> THEN 0 ELSE 1)
                                              + SectionCount(x.private) + SectionCount(x.public)
                    [] x.kind = "library" -> SectionCount(x.public)
       IN own + SectionCount(Tail(xs))

Exports(m, xs) == {<<m, n>> : n \in PublicNames(xs)}

(* The definitions and terms of a list of items in the order of reading, the
   names bound; n sections came before.  In a private part, names that a
   section makes public are private to the section around it. *)
InOrder(xs, scope, n, private) ==
  IF xs = <<>> THEN <<>>
  ELSE
  LET x == Head(xs)
      inside == [number |-> n + 1, names |-> PublicNames(x.private)]
      own == Binding(<<x.name>>, scope)[1]
      members == scope.members \cup Exports(x.name, x.public)
      module == [sections |-> IF x.private = <<>> THEN <<>> ELSE <<inside>>,
                 module |-> x.name, members |-> members,
                 public |-> {k \in Names : <<x.name, k>> \in members}]
      section == [scope EXCEPT !.sections = <<inside>> \o @]
      opened == IF x.private = <<>> THEN 0 ELSE 1
      here ==
        CASE x.kind = "definition" -> << [name |-> own, body |-> Bound(x.uses, scope)] >>
          [] x.kind = "term" -> << [name |-> <<>>, body |-> Bound(x.uses, scope)] >>
          [] x.kind = "library" -> InOrder(x.public, scope, n, FALSE)
          [] x.kind = "section" ->
               InOrder(x.private, section, n + 1, TRUE)
                 \o InOrder(x.public, section, n + 1 + SectionCount(x.private), private)
          [] x.kind = "module" ->
               InOrder(x.private, module, n + opened, TRUE)
                 \o InOrder(x.public, module, n + opened + SectionCount(x.private), FALSE)
      later == IF x.kind = "module" THEN [scope EXCEPT !.members = members] ELSE scope
  IN here \o InOrder(Tail(xs), later, n + SectionCount(<<x>>), private)

Global == [sections |-> <<>>, module |-> NoName, public |-> {}, members |-> {}]
Meant == InOrder(Structure[program], Global, 0, FALSE)

Made == [e \in DOMAIN events |->
           [name |-> events[e].name,
            body |-> [i \in DOMAIN events[e].body |-> symtab[events[e].body[i]].name]]]

Structured == Structure[program] # <<>>

-----------------------------------------------------------------------------
(***************************************************************************)
(* Every definition of a program is made under the name, and every name in *)
(* it leads to the entry, that the structure of the program says (classify *)
(* and qualify, module.c:111).  This is not so of every nesting: a section *)
(* in the public part of another, a module in a section with a private     *)
(* part, or with one inside another with one, are left open or closed at   *)
(* the wrong place, and are not among the programs.                        *)
(***************************************************************************)
BindsLexically ==
  Structured /\ frames = <<>> => Made = Meant

(***************************************************************************)
(* Between two commands no section and no module is open and no token of   *)
(* an earlier command is left (exitpriv and exitmod, module.c:80).         *)
(***************************************************************************)
DisplayClosed ==
  Structured /\ frames = <<"command">> /\ reading = "get" =>
    hide_index = -1 /\ module_index = -1 /\ tokens = <<>>

(***************************************************************************)
(* "They should be found during the second read" (symbol.c:86): inside a   *)
(* section or module a definition never enters a name that the first pass  *)
(* of getsym has not declared.                                             *)
(***************************************************************************)
FoundInSecondRead ==
  [][Structured /\ At("enter") /\ (hide_index >= 0 \/ module_index >= 0) =>
       symtab' = symtab \/ Len(symtab') = Len(symtab)]_vars
=============================================================================
