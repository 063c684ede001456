-------------------------------- MODULE Bindings --------------------------------
(***************************************************************************)
(* The combinators that bind names for the time of a quotation: let of     *)
(* src/src/builtin/combinators.c, match and cases of                       *)
(* src/src/builtin/pattern.c.                                              *)
(*                                                                         *)
(* A name has one entry in the symbol table.  A combinator keeps the       *)
(* entries it overwrites in an array of its own C frame, executes the      *)
(* quotation and puts the entries back.  The quotation is any program that *)
(* does not assign: it pushes literals, executes names, uses these         *)
(* combinators, ends, or stops in an error, which drops all frames by      *)
(* longjmp.                                                                *)
(*                                                                         *)
(* The body of a bound name is a node that no root of the collector        *)
(* covers; a collection takes it, as it takes the values that match has    *)
(* removed from the stack.  (The bodies that assign makes are found by     *)
(* scan_roots, though only as long as they are in the symbol table.)       *)
(***************************************************************************)
EXTENDS Aggregates

CONSTANTS
  Names,         \* names of the symbol table
  Values,        \* the values that there are
  Literals,      \* those that a program pushes
  NameLists,     \* the first parameters of let: sequences of terms
  Quotations,    \* the patterns of match: sequences of terms of which the first counts
  CaseLists,     \* the parameters of cases: sequences of cases
  MAX_BINDINGS,  \* how many names a pattern may bind, and how many patterns
                 \* there may be before a colon; 64 in the code
  MaxStack,      \* a literal or the value of a name is pushed on fewer values only
  MaxFrames      \* combinators nest no deeper

VARIABLES
  symtab,   \* of each name, its entry
  stack,    \* values, the top first
  frames,   \* the C frames of the combinators, the innermost last
  globals   \* of each name, the entry that no frame is going to replace

vars == <<symtab, stack, frames, globals>>

(* Terms of patterns are values, names, and lists of terms. *)
Usr(x)   == <<"USR", x>>
Wildcard == Usr("_")
Colon    == Usr(":")

(* An entry: its body pushes one value, unless it has none.  The body that *)
(* a definition made is permanent, the one that a binding made is not.     *)
Undefined  == [bound |-> FALSE, value |-> <<"NONE", 0>>]
Defined(v) == [bound |-> FALSE, value |-> v]
Bound(v)   == [bound |-> TRUE, value |-> v]
Lose(e)    == IF e.bound THEN Bound(Lost) ELSE e
----
\* Patterns.  The outcome of a match: whether it matched, failed, raised an
\* error or is undefined, and the names that were bound until then.

Outcome(is, bs) == [is |-> is, bs |-> bs]
No == Outcome("no", <<>>)

(* The outcomes of some matches in turn, up to the first that fails. *)
InTurn(os) ==
  LET until == {i \in 1 .. Len(os) : \A j \in 1 .. i - 1 : os[j].is = "yes"}
      all   == \A i \in 1 .. Len(os) : os[i].is = "yes"
  IN  Outcome(IF all THEN "yes" ELSE os[Cardinality(until)].is,
              FlattenSeq([i \in 1 .. Cardinality(until) |-> os[i].bs]))

(* match_exact_list *)
ExactList(ps, v, inner(_, _)) ==
  IF ~IsA(v, "LIST") THEN No
  ELSE LET vs     == v[2]
           common == Min({Len(ps), Len(vs)})
       IN  InTurn([i \in 1 .. common |-> inner(ps[i], vs[i])]
                    \o IF Len(ps) = Len(vs) THEN <<>> ELSE <<No>>)

(* match_cons_pattern, with the separator at position colon.  The patterns *)
(* before it are gathered in an array of the C stack, and nobody counts    *)
(* them.                                                                   *)
ConsPattern(ps, colon, v, inner(_, _)) ==
  IF ~IsA(v, "LIST") \/ v[2] = <<>> THEN No
  ELSE IF colon - 1 > MAX_BINDINGS THEN Outcome("undefined", <<>>)
  ELSE IF Len(ps) # colon + 1 THEN Outcome("error", <<>>)
  ELSE LET vs    == v[2]
           heads == colon - 1
       IN  InTurn([i \in 1 .. heads |-> IF i > Len(vs) THEN No ELSE inner(ps[i], vs[i])]
                    \o <<inner(ps[colon + 1], ListOf(From(vs, heads)))>>)

(* pattern_match, with inner for the patterns in a list. *)
Level(p, v, inner(_, _)) ==
  CASE p = Wildcard -> Outcome("yes", <<>>)
    [] IsA(p, "USR") /\ p # Wildcard -> Outcome("yes", <<<<p[2], v>>>>)
    [] p = ListOf(<<>>) -> IF v = p THEN Outcome("yes", <<>>) ELSE No
    [] IsA(p, "LIST") /\ p[2] # <<>> ->
         LET colons == {i \in 1 .. Len(p[2]) : p[2][i] = Colon}
         IN  IF colons = {} THEN ExactList(p[2], v, inner)
             ELSE ConsPattern(p[2], Min(colons), v, inner)
    [] p[1] \in {"INTEGER", "FLOAT", "STRING", "CHAR", "BOOLEAN", "SET"} ->
         IF Compare(p, v) = 0 THEN Outcome("yes", <<>>) ELSE No
    [] OTHER -> No

(* Patterns nest no deeper than three lists in the runs. *)
Innermost(p, v)     == Level(p, v, LAMBDA q, w : No)
Inner(p, v)         == Level(p, v, Innermost)
pattern_match(p, v) == Level(p, v, Inner)

(* A case is a pattern and an action, or it is malformed.  An empty        *)
(* pattern matches anything.                                               *)
Tried(c, v) ==
  IF ~c.wellformed THEN Outcome("error", <<>>)
  ELSE IF c.pattern = <<>> THEN Outcome("yes", <<>>)
  ELSE LET o == pattern_match(Head(c.pattern), v)
       IN  IF Len(o.bs) > MAX_BINDINGS THEN Outcome("error", <<>>) ELSE o

(* The first case that does not just fail decides. *)
Decides(cs, v, i) == /\ Tried(cs[i], v).is # "no"
                     /\ \A j \in 1 .. i - 1 : Tried(cs[j], v).is = "no"

(* The values are closed under matching. *)
Cases == {[wellformed |-> TRUE, pattern |-> q] : q \in Quotations} \cup UNION {ToSet(cs) : cs \in CaseLists}
ASSUME ValuesClosed ==
  /\ Literals \subseteq Values /\ Boolean(FALSE) \in Values
  /\ CaseLists \subseteq Seq(Cases)
  /\ \A c \in Cases, v \in Values : Tried(c, v).bs \in Seq(Names \X Values)
ASSUME NamesGiven ==
  \A names \in NameLists : /\ names \in Seq({names[i] : i \in DOMAIN names})
                           /\ \A i \in DOMAIN names : IsA(names[i], "USR") => names[i][2] \in Names
----
\* Frames.

Top     == frames[Len(frames)]
InBody  == frames # <<>> => Top.phase = "body"
Enters  == InBody /\ Len(frames) < MaxFrames

(* A frame for these names; saved holds the entries that are kept already. *)
Frame(phase, start, names, values, saved) ==
  [phase  |-> IF names = <<>> THEN "body" ELSE phase,
   at     |-> start,     \* the position that is next
   names  |-> names,
   values |-> values,    \* match: what the names are bound to
   saved  |-> saved,
   bound  |-> <<>>]      \* of each name bound so far, its entry

With(f, x, y) == [z \in DOMAIN f \cup {x} |-> IF z = x THEN y ELSE f[z]]

PushFrame(f)    == frames' = Append(frames, f) /\ UNCHANGED globals
SetTop(f)  == frames' = [frames EXCEPT ![Len(frames)] = f] /\ UNCHANGED globals
PopFrame   == frames' = SubSeq(frames, 1, Len(frames) - 1) /\ UNCHANGED globals

(* longjmp to the front end: what the symbol table holds now stays. *)
Abort == frames' = <<>> /\ globals' = symtab'
----
\* let.

let(names) ==
  /\ Enters /\ UNCHANGED <<symtab, stack>>
  /\ IF \A i \in 1 .. Len(names) : IsA(names[i], "USR")
     THEN PushFrame(Frame("let", Len(names), [i \in 1 .. Len(names) |-> names[i][2]], <<>>, <<>>))
     ELSE Abort

(* The last name first, until there are no more values. *)
BindName ==
  /\ frames # <<>> /\ Top.phase = "let"
  /\ LET x     == Top.names[Top.at]
         entry == Bound(stack[1])
     IN  IF stack = <<>>
         THEN SetTop([Top EXCEPT !.phase = "undo", !.at = Len(Top.names)]) /\ UNCHANGED <<symtab, stack>>
         ELSE /\ symtab' = [symtab EXCEPT ![x] = entry]
              /\ stack' = Tail(stack)
              /\ SetTop([Top EXCEPT !.saved = With(@, Top.at, symtab[x]),
                                    !.bound = With(@, x, entry),
                                    !.phase = IF Top.at = 1 THEN "body" ELSE "let",
                                    !.at    = @ - 1])

(* Too few values: the entries that were bound, from the last on. *)
UndoName ==
  /\ frames # <<>> /\ Top.phase = "undo"
  /\ IF Top.at \in DOMAIN Top.saved
     THEN /\ symtab' = [symtab EXCEPT ![Top.names[Top.at]] = Top.saved[Top.at]]
          /\ SetTop([Top EXCEPT !.at = @ - 1])
     ELSE UNCHANGED symtab /\ Abort
  /\ UNCHANGED stack
----
\* match and cases.

(* What a value can turn out to be. *)
Could(v) == IF v = Lost THEN Values ELSE {v}

Matched(bs) ==
  PushFrame(Frame("match", 1, [i \in 1 .. Len(bs) |-> bs[i][1]], [i \in 1 .. Len(bs) |-> bs[i][2]],
             [i \in 1 .. Len(bs) |-> symtab[bs[i][1]]]))

(* The C stack is overwritten: nothing is known of what follows, and       *)
(* nothing follows here.                                                   *)
Overflows == PushFrame([Frame("body", 1, <<>>, <<>>, <<>>) EXCEPT !.phase = "undefined"])

match(q) ==
  /\ Enters /\ stack # <<>> /\ UNCHANGED symtab
  /\ \E v \in Could(stack[1]) :
       LET o == Tried([wellformed |-> TRUE, pattern |-> q], v)
       IN  \/ o.is = "yes"   /\ Matched(o.bs) /\ stack' = Tail(stack)
           \/ o.is = "no"    /\ stack' = <<Boolean(FALSE)>> \o Tail(stack) /\ UNCHANGED <<frames, globals>>
           \/ o.is = "error" /\ Abort /\ stack' = Tail(stack)
           \/ o.is = "undefined" /\ Overflows /\ stack' = Tail(stack)

cases(cs) ==
  /\ Enters /\ stack # <<>> /\ UNCHANGED symtab /\ stack' = Tail(stack)
  /\ \E v \in Could(stack[1]) :
       \/ \E i \in 1 .. Len(cs) :
            /\ Decides(cs, v, i)
            /\ \/ Tried(cs[i], v).is = "yes"       /\ Matched(Tried(cs[i], v).bs)
               \/ Tried(cs[i], v).is = "error"     /\ Abort
               \/ Tried(cs[i], v).is = "undefined" /\ Overflows
       \/ (\A i \in 1 .. Len(cs) : ~Decides(cs, v, i)) /\ Abort

(* apply_bindings *)
ApplyBinding ==
  /\ frames # <<>> /\ Top.phase = "match"
  /\ LET x     == Top.names[Top.at]
         entry == Bound(Top.values[Top.at])
     IN  /\ symtab' = [symtab EXCEPT ![x] = entry]
         /\ SetTop([Top EXCEPT !.bound = With(@, x, entry),
                               !.phase = IF Top.at = Len(Top.names) THEN "body" ELSE "match",
                               !.at    = @ + 1])
  /\ UNCHANGED stack
----
\* The quotation and what follows it.

PushLiteral ==
  /\ InBody /\ Len(stack) < MaxStack
  /\ \E v \in Literals : stack' = <<v>> \o stack
  /\ UNCHANGED <<symtab, frames, globals>>

(* exec_term *)
Execute(x) ==
  /\ InBody /\ Len(stack) < MaxStack /\ symtab[x] # Undefined
  /\ stack' = <<symtab[x].value>> \o stack
  /\ UNCHANGED <<symtab, frames, globals>>

(* A term of the quotation raises an error. *)
Fails ==
  /\ frames # <<>> /\ Top.phase = "body"
  /\ UNCHANGED <<symtab, stack>> /\ Abort

Ends ==
  /\ frames # <<>> /\ Top.phase = "body"
  /\ IF Top.names = <<>> THEN PopFrame ELSE SetTop([Top EXCEPT !.phase = "restore", !.at = 1])
  /\ UNCHANGED <<symtab, stack>>

(* The mutant of Restores that goes from the last entry to the first. *)
RestoresBackwards ==
  /\ frames # <<>> /\ Top.phase = "restore"
  /\ LET i == Len(Top.names) + 1 - Top.at
     IN  symtab' = [symtab EXCEPT ![Top.names[i]] = Top.saved[i]]
  /\ IF Top.at = Len(Top.names) THEN PopFrame ELSE SetTop([Top EXCEPT !.at = @ + 1])
  /\ UNCHANGED stack

(* The first entry first: of a name that occurs twice in a list of let the *)
(* later position holds what was there before.                             *)
Restores ==
  /\ frames # <<>> /\ Top.phase = "restore"
  /\ symtab' = [symtab EXCEPT ![Top.names[Top.at]] = Top.saved[Top.at]]
  /\ IF Top.at = Len(Top.names) THEN PopFrame ELSE SetTop([Top EXCEPT !.at = @ + 1])
  /\ UNCHANGED stack

LoseIn(t) == [x \in DOMAIN t |-> Lose(t[x])]

(* Between two programs a definition is read; its nodes take the place of  *)
(* all that is not permanent, and the stack is emptied.                    *)
Define(x) ==
  /\ frames = <<>> /\ stack' = <<>>
  /\ \E v \in Literals :
       /\ symtab' = [LoseIn(symtab) EXCEPT ![x] = Defined(v)]
       /\ globals' = [LoseIn(globals) EXCEPT ![x] = Defined(v)]
  /\ UNCHANGED frames

(* A collection, while nodes are made for bindings or in a quotation. *)
gc ==
  /\ frames # <<>> /\ Top.phase \in {"let", "match", "body"}
  /\ symtab' = LoseIn(symtab) /\ globals' = LoseIn(globals)
  /\ frames' = [k \in 1 .. Len(frames) |->
                  [frames[k] EXCEPT !.saved = LoseIn(@), !.bound = LoseIn(@),
                                    !.values = [i \in DOMAIN @ |-> Lost]]]
  /\ UNCHANGED stack
----
Init ==
  /\ symtab \in [Names -> {Undefined} \cup {Defined(v) : v \in Literals}]
  /\ globals = symtab /\ stack = <<>> /\ frames = <<>>

Next ==
  \/ \E names \in NameLists : let(names)
  \/ BindName \/ UndoName
  \/ \E q \in Quotations : match(q)
  \/ \E cs \in CaseLists : cases(cs)
  \/ ApplyBinding
  \/ PushLiteral \/ Fails \/ Ends \/ Restores \/ gc
  \/ \E x \in Names : Execute(x) \/ Define(x)

Spec == Init /\ [][Next]_vars
----
(* e is what the name x denotes when the first k frames are open: what the *)
(* innermost of them that binds x binds it to, or else its global entry.   *)
Denotes(k, x, e) ==
  \/ /\ \A i \in 1 .. k : x \notin DOMAIN frames[i].bound
     /\ e = globals[x]
  \/ \E i \in 1 .. k :
       /\ x \in DOMAIN frames[i].bound /\ e = frames[i].bound[x]
       /\ \A j \in i + 1 .. k : x \notin DOMAIN frames[j].bound

(* While a quotation runs, the one entry that a name has in the symbol     *)
(* table is what a search through the open let, match and cases, from the  *)
(* innermost outwards, would find: however they nest, whatever names occur *)
(* twice, and whatever an error has left behind (which is then global).    *)
InnermostBinding == InBody => \A x \in Names : Denotes(Len(frames), x, symtab[x])
==============================================================================
